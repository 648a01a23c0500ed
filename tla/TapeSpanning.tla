----------------------------- MODULE TapeSpanning -----------------------------
(***************************************************************************)
(* A backup over several tapes: TapeSpanningManager (tape_spanning.py), tar *)
(* and its new-volume script, the loop of _backup_with_tar that watches    *)
(* them (backup_engine.py), and operators who provide the next tape.       *)
(*                                                                         *)
(* The session's state is read and written without a lock by the request   *)
(* of the script, by each request that provides a tape, and by the job.    *)
(* wait_for_tape and its event have no caller: the script polls the state. *)
(* Pausing (tar is stopped and continued) is left out.                     *)
(***************************************************************************)
EXTENDS FirstDrive, Integers, Sequences

CONSTANTS
  Job,         \* the job, as a user of the drive
  Providers,   \* requests that provide a tape
  Choice,      \* the tape of each of them
  FirstTape,   \* the first tape of the job's list
  MaxVolumes   \* bound on the volumes tar may need

ASSUME SpanningAssumption ==
  /\ Job \notin Providers
  /\ FirstTape \in Tapes
  /\ Choice \in [Providers -> Tapes]
  /\ MaxVolumes \in Nat \ {0}

VARIABLES
  job,      \* "new", "watching" tar, or "ended"
  cancel,   \* its cancel event
  tar,      \* the process and its script
  session,  \* the session's state
  tapes,    \* its tape_sequence
  prov,     \* where each providing request is
  catalog,  \* the tape the catalog names for the job's files
  volumes,  \* the tape tar wrote each volume to, while the job watches it
  lost,     \* a request of its script was lost
  late      \* a request of the session was under way when the job ended

spanning == <<job, cancel, tar, session, tapes, prov, catalog, volumes, lost, late>>

States == {"none", "idle", "waiting", "changing", "running", "completed", "failed"}

SpanInit ==
  /\ job = "new" /\ cancel = FALSE
  /\ tar = "none"
  /\ session = "none" /\ tapes = <<>>
  /\ prov = [p \in Providers |-> "idle"]
  /\ catalog = NoTape /\ volumes = <<>>
  /\ lost = FALSE /\ late = FALSE

-----------------------------------------------------------------------------
(* The job, tar and the script                                             *)

\* create_session, and tar is started on whatever tape is in the drive.
StartTar ==
  /\ job = "new"
  /\ job' = "watching"
  /\ session' = "idle" /\ tapes' = <<FirstTape>>
  /\ tar' = "writing"
  /\ using' = using \cup {Job}
  /\ UNCHANGED <<held, misled, cancel, prov, catalog, volumes, lost, late>>

\* tar -v prints each file's name to a pipe that nobody reads while it runs: once that is
\* full, tar writes no more and does not end.
Blocks == tar' = "blocked" /\ UNCHANGED volumes

\* tar writes a volume: it is done, or the tape is full. It fails without a tape, or when a
\* file system is mounted.
TarWrites ==
  /\ tar = "writing"
  /\ \/ /\ tape # NoTape /\ fs = NoTape
        /\ volumes' = Append(volumes, tape)
        /\ tar' \in IF Len(volumes) + 1 < MaxVolumes THEN {"full", "done"} ELSE {"done"}
     \/ tar' = "failed" /\ UNCHANGED volumes
     \/ Blocks
  /\ using' = using \ {Job}
  /\ UNCHANGED <<held, misled, job, cancel, session, tapes, prov, catalog, lost, late>>

\* The script's request, which it repeats for no answer: curl ... || true. The script outlives
\* a tar that is terminated; what its curl prints goes to the same pipe as tar's names.
RequestChange ==
  /\ tar \in {"full", "orphan"}
  /\ tar' \in IF tar = "full" THEN {"polling", "blocked"} ELSE {"none"}
  /\ \/ session' = "waiting" /\ UNCHANGED lost
     \/ lost' = TRUE /\ UNCHANGED session
  /\ UNCHANGED <<drive, job, cancel, tapes, prov, catalog, volumes, late>>

\* Mutant of GoesOn: the script goes on when the change has begun.
GoesOnEarly == session \in {"changing", "running"}

GoesOn == session = "running"

\* The script reads the state of the session and goes on, or finds it failed or an hour gone.
Poll ==
  /\ tar = "polling"
  /\ \/ GoesOn /\ tar' = "writing" /\ using' = using \cup {Job}
     \/ tar' = "failed" /\ UNCHANGED using
  /\ UNCHANGED <<held, misled, job, cancel, session, tapes, prov, catalog, volumes, lost, late>>

\* How the loop of _backup_with_tar ends, and with it the job, its flags and its volumes.
Ends(state) ==
  /\ session' = state
  /\ job' = "ended" /\ cancel' = FALSE
  /\ late' = (tar = "full" \/ \E p \in Providers : prov[p] \in {"checked", "unload", "load"})
  /\ tar' = IF tar = "full" THEN "orphan" ELSE "none"
  /\ Leaves(Job) /\ crossed' = crossed \ {Job}
  /\ volumes' = <<>> /\ lost' = FALSE
  /\ UNCHANGED <<tape, fs, recorded, doubt, tapes, prov>>

SpanEnds ==
  /\ job = "watching"
  /\ \/ cancel /\ tar \notin {"done", "failed"} /\ Ends("failed") /\ UNCHANGED catalog
     \/ session = "failed" /\ tar \notin {"done", "failed"} /\ Ends(session) /\ UNCHANGED catalog
     \/ tar = "failed" /\ Ends("failed") /\ UNCHANGED catalog
     \/ tar = "done" /\ Ends("completed") /\ catalog' = FirstTape

SpanCancel ==
  /\ job = "watching" /\ ~cancel
  /\ cancel' = TRUE
  /\ UNCHANGED <<drive, job, tar, session, tapes, prov, catalog, volumes, lost, late>>

-----------------------------------------------------------------------------
(* provide_next_tape                                                       *)

Provide(p, to) == prov' = [prov EXCEPT ![p] = to]

CheckWaiting(p) ==
  /\ prov[p] = "idle"
  /\ Provide(p, IF session = "waiting" THEN "checked" ELSE "done")
  /\ UNCHANGED <<drive, job, cancel, tar, session, tapes, catalog, volumes, lost, late>>

BeginChange(p) ==
  /\ prov[p] = "checked"
  /\ session' = "changing"
  /\ Provide(p, "unload")
  /\ UNCHANGED <<drive, job, cancel, tar, tapes, catalog, volumes, lost, late>>

ChangeFails(p) == session' = "failed" /\ Provide(p, "done")

UnloadFull(p) ==
  /\ prov[p] = "unload"
  /\ \/ UnloadReturns(p) /\ Provide(p, "load") /\ UNCHANGED session
     \/ ChangeFails(p) /\ UNCHANGED held
  /\ UNCHANGED <<using, misled, job, cancel, tar, tapes, catalog, volumes, lost, late>>

LoadNext(p) ==
  /\ prov[p] = "load"
  /\ \/ /\ LoadReturns(p, Choice[p])
        /\ tapes' = Append(tapes, Choice[p])
        /\ session' = "running"
        /\ Provide(p, "done")
        /\ using' = IF job = "watching" THEN using \cup {Job} ELSE using
        /\ misled' = IF doubt' THEN misled \cup {Job} ELSE misled
     \/ LoadRaises(p, Choice[p]) /\ ChangeFails(p) /\ UNCHANGED <<tapes, using, misled>>
  /\ UNCHANGED <<job, cancel, tar, catalog, volumes, lost, late>>

\* The service restarts: sessions are kept in memory only, and tar ends with the service.
SessionsLost ==
  /\ job' = IF job = "watching" THEN "ended" ELSE job
  /\ cancel' = FALSE
  /\ tar' = "none"
  /\ session' = "none" /\ tapes' = <<>> /\ volumes' = <<>> /\ lost' = FALSE
  /\ prov' = [p \in Providers |-> IF prov[p] = "idle" THEN "idle" ELSE "done"]
  /\ UNCHANGED <<catalog, late>>

SpanStep ==
  \/ StartTar \/ TarWrites \/ RequestChange \/ Poll \/ SpanEnds \/ SpanCancel
  \/ \E p \in Providers : CheckWaiting(p) \/ BeginChange(p) \/ UnloadFull(p) \/ LoadNext(p)

SpanTypes ==
  /\ job \in {"new", "watching", "ended"}
  /\ cancel \in BOOLEAN /\ lost \in BOOLEAN /\ late \in BOOLEAN
  /\ tar \in {"none", "writing", "full", "polling", "done", "failed", "orphan", "blocked"}
  /\ session \in States
  /\ tapes \in Seq(Tapes)
  /\ volumes \in Seq(Tapes) /\ Len(volumes) <= MaxVolumes
  /\ catalog \in {NoTape, FirstTape}
  /\ prov \in [Providers -> {"idle", "checked", "unload", "load", "done"}]

===============================================================================
