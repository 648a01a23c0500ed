------------------------------ MODULE DriveUsers ------------------------------
(***************************************************************************)
(* Restores and a spanned backup over the one drive they share. The backup *)
(* holds the drive's lock from before StartTar until SpanEnds; no restore, *)
(* confirmation or providing request asks for it.                          *)
(***************************************************************************)
EXTENDS TapeSpanning, Restore

Users == Restores \cup {Job}

\* Who provides or confirms a tape relies on none.
ASSUME UsersAssumption ==
  /\ Job \notin Restores
  /\ Users \cap Providers = {} /\ "operator" \notin Users

vars == <<drive, spanning, restores>>

Init ==
  /\ tape \in Tapes \cup {NoTape}
  /\ fs = NoTape
  /\ recorded = NoTape /\ doubt = FALSE
  /\ using = {} /\ crossed = {} /\ misled = {}
  /\ SpanInit
  /\ RestoreInit

\* recover_state_on_startup reads what is in the drive, if it can.
Restart ==
  /\ SessionsLost /\ RestoresLost
  /\ Gets(tape)
  /\ \E found \in {NoTape, tape} : Records(found, FALSE)
  /\ using' = {} /\ crossed' = {} /\ misled' = {}

Next ==
  \/ SpanStep /\ UNCHANGED restores
  \/ RestoreStep /\ UNCHANGED spanning
  \/ Restart

Spec == Init /\ [][Next]_vars

\* tar and its script go on, until a full pipe stops them, and so do the loop that watches
\* them and the threads. Nobody has to provide or confirm a tape, or to cancel.
FairSpec ==
  /\ Spec
  /\ WF_vars((TarWrites \/ RequestChange \/ Poll \/ SpanEnds) /\ UNCHANGED restores)
  /\ \A r \in Restores : WF_vars(ThreadStep(r) /\ UNCHANGED spanning)

-----------------------------------------------------------------------------
(* Properties                                                              *)

\* The variables hold what they should; only the tape in the drive is mounted.
TypeOK ==
  /\ DriveOK
  /\ {using, crossed, misled} \subseteq SUBSET Users
  /\ SpanTypes /\ RestoreTypes

\* tar writes each volume after the first to a tape that the session lists, unless others
\* moved the tape, a request of the script was lost, or the next tape was taken to be loaded
\* after a command that was refused. (The first volume goes to whatever tape is in the drive,
\* and the catalog names the first of the job's list for all.)
VolumesAsListed ==
  Job \in crossed \cup misled \/ lost \/
    \A i \in 2..Len(volumes) : \E j \in 2..Len(tapes) : volumes[i] = tapes[j]

\* A session whose job has ended stays as the job left it, unless a request of the script or
\* of an operator was under way at the end.
EndedSessionsStay == job = "ended" => session \in {"completed", "failed", "none"} \/ late

\* What the session says of the backup: its tapes and its end.
SessionIsRight == VolumesAsListed /\ EndedSessionsStay

\* What a restore copies for a tape of its plan comes from that tape, unless others moved or
\* unmounted it after the mount, or the mount took the tape to be loaded after a command that
\* was refused or timed out: also where the unmount of the tape before failed.
RestoresFromItsTape ==
  \A r \in Restores \ (crossed \cup misled) :
    rpc[r] \in {"unmount", "abort"} => copied[r] \in {NoTape, TapeOf(r)}

\* Planning a restore raised something: nobody writes its row.
Unplanned(r) == rpc[r] = "done" /\ row[r] = "pending"

\* Nobody waits for ever, whatever the operators do and whichever request is lost. A spanned
\* backup ends, unless tar is stuck with a full pipe and nobody cancels it. A restore that is
\* asked for ends, whether its tapes come or not, unless planning it raised something or a
\* restart took its thread: then its row stays pending, running or waiting.
EverybodyEnds ==
  /\ []<>(job = "watching" => tar = "blocked" /\ ~cancel)
  /\ \A r \in Restores : []<>(rpc[r] = "none" \/ row[r] \in Ended \/ r \in orphans \/ Unplanned(r))

===============================================================================
