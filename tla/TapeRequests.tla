----------------------------- MODULE TapeRequests -----------------------------
(***************************************************************************)
(* The format and wipe requests of routes/tapes.py. A request names a list *)
(* of tapes and a drive; the route checks the WORM locks, makes an internal *)
(* job row (JobService) and starts a thread, which loads, erases and       *)
(* unloads the tapes one by one. No request takes the lock of its drive:   *)
(* other requests, and the routes that load and unload, move tapes at any  *)
(* time. A cancellation writes the row and sets a flag that no thread of   *)
(* these routes reads, so the flag is left out.                            *)
(*                                                                         *)
(* load_tape and unload_tape are one step each here; TapeController has    *)
(* their commands. A refused command counts as done, so the tape that the  *)
(* controller has recorded for a drive may not be the one in it. The       *)
(* erasing commands are given the device of the first drive.               *)
(***************************************************************************)
EXTENDS Integers, Sequences, FiniteSets

CONSTANTS
  Tapes, Drives, Requests,
  FirstDrive,   \* the drive of self.device and drive_sg
  NoTape,
  KindOf,       \* "format", "quick" or "secure" for each request
  DriveOf,      \* its drive
  TapesOf,      \* its barcodes, in order
  HasDriveSg,   \* drive_sg was found
  Lockable,     \* bound: the tapes that may come under a WORM lock
  MaxMoves,     \* bound on the calls of the load, unload and move routes
  MaxRestarts   \* bound on restarts of the service

ASSUME RequestsAssumption ==
  /\ FirstDrive \in Drives
  /\ NoTape \notin Tapes
  /\ KindOf \in [Requests -> {"format", "quick", "secure"}]
  /\ DriveOf \in [Requests -> Drives]
  /\ TapesOf \in [Requests -> Seq(Tapes) \ {<<>>}]
  /\ HasDriveSg \in BOOLEAN
  /\ Lockable \subseteq Tapes
  /\ MaxMoves \in Nat /\ MaxRestarts \in Nat

VARIABLES
  inDrive,   \* the tape in each drive
  recorded,  \* mounted_tapes: the tape the controller takes to be in each drive
  data,      \* tapes that hold data
  used,      \* tapes whose row says so: used_bytes > 0
  locked,    \* tapes under a WORM lock
  status,    \* the job row of each request
  pc,        \* where each request is
  at,        \* how many tapes its thread has begun
  moves, restarts,
  \* what happened, for the properties
  strayed,   \* requests in whose drive others loaded or moved tapes since the mount
  doubt,     \* drives whose tape the controller cannot know: for the last load or move there,
             \* a command was refused or timed out, or tapes were moved without a record, or
             \* the load was judged by the first drive
  late,      \* tapes that a request had already found unlocked when they were locked
  unsure,    \* tapes whose erase timed out and counts as done, or was done by a request
             \* that was misled
  forgotten  \* rows made active when, or left active where, no thread is

drives  == <<inDrive, recorded, doubt>>
media   == <<data, used, locked>>
rows    == <<status, pc, at>>
bounds  == <<moves, restarts>>
history == <<strayed, late, unsure, forgotten>>
vars    == <<drives, media, rows, bounds, history>>

OnTape  == {"check", "mount", "erase", "verify", "reset", "unload"}
Working == {"created", "begin"} \cup OnTape
Points  == Working \cup {"none", "done"}
Active  == {"pending", "queued", "running", "cancel_requested"}
Rows    == Active \cup {"none", "completed", "error", "failed"}

TapeNow(r) == TapesOf[r][at[r]]

\* mt is given self.device, mkltfs drive_sg where there is one.
EraseDrive(r) == IF KindOf[r] = "format" /\ ~HasDriveSg THEN DriveOf[r] ELSE FirstDrive

Init ==
  /\ inDrive = [d \in Drives |-> NoTape]
  /\ recorded = [d \in Drives |-> NoTape]
  /\ doubt = {}
  /\ data = Tapes
  /\ used = Tapes
  /\ locked = {}
  /\ status = [r \in Requests |-> "none"]
  /\ pc = [r \in Requests |-> "none"]
  /\ at = [r \in Requests |-> 0]
  /\ moves = 0 /\ restarts = 0
  /\ strayed = {} /\ late = {} /\ unsure = {} /\ forgotten = {}

-----------------------------------------------------------------------------
(* The route, and the rows                                                 *)

Goto(r, p) == pc' = [pc EXCEPT ![r] = p]
Row(r, s)  == status' = [status EXCEPT ![r] = s]

\* An exception of any tape ends the whole request.
Fails(r) == Row(r, "error") /\ Goto(r, "done")

AnyLocked(r) == \E i \in DOMAIN TapesOf[r] : TapesOf[r][i] \in locked

\* The route: a refused request leaves no row.
Submit(r) ==
  /\ pc[r] = "none"
  /\ IF AnyLocked(r)
     THEN Goto(r, "done") /\ UNCHANGED status
     ELSE Goto(r, "created") /\ Row(r, "pending")
  /\ UNCHANGED <<drives, media, at, bounds, history>>

\* create_internal_job commits the row's second status on its own.
Enqueue(r) ==
  /\ pc[r] = "created"
  /\ Goto(r, "begin")
  /\ Row(r, "queued")
  /\ UNCHANGED <<drives, media, at, bounds, history>>

\* Mutant of MoreTapes: one tape too many.
NotPastTheEnd(r) == at[r] <= Len(TapesOf[r])

MoreTapes(r) == at[r] < Len(TapesOf[r])

\* The next tape, or the end.
BeginTape(r) ==
  /\ pc[r] = "begin"
  /\ IF MoreTapes(r)
     THEN /\ at' = [at EXCEPT ![r] = @ + 1]
          /\ Row(r, "running")
          /\ Goto(r, "check")
     ELSE Row(r, "completed") /\ Goto(r, "done") /\ UNCHANGED at
  /\ UNCHANGED <<drives, media, bounds, history>>

\* Mutant of CancelRow: the row is ended at once.
CancelsAtOnce(r) == "cancelled"

\* Whatever the row says.
CancelRow(r) == "cancel_requested"

\* cancel_job writes the row of a wipe, and does nothing for a format.
Cancel(r) ==
  /\ status[r] # "none"
  /\ KindOf[r] # "format"
  /\ Row(r, CancelRow(r))
  /\ forgotten' = IF pc[r] = "done" THEN forgotten \cup {r} ELSE forgotten
  /\ UNCHANGED <<drives, media, pc, at, bounds, strayed, late, unsure>>

-----------------------------------------------------------------------------
(* The thread: format_tape and wipe_tape of the controller, the database's *)
(* row, and the unload                                                     *)

\* Others that have mounted a tape in drive d lose it.
Strays(r, d) ==
  {q \in Requests \ {r} : DriveOf[q] = d /\ pc[q] \in {"erase", "verify", "reset"}}

\* What is in drive d from now on, and what the controller thinks.
Sets(d, there, rec) ==
  inDrive' = [inDrive EXCEPT ![d] = there] /\ recorded' = [recorded EXCEPT ![d] = rec]

\* unload_tape has something to do: a recorded tape, or one in the first drive.
SeesTape(d) == recorded[d] # NoTape \/ inDrive[FirstDrive] # NoTape

\* The tape of drive d goes back to its slot; or the command is refused and counts as done;
\* or it times out, and the record stays.
Empties(d) ==
  \E there \in {NoTape, inDrive[d]}, rec \in {NoTape, recorded[d]} :
    /\ there = inDrive[d] \/ SeesTape(d)
    /\ Sets(d, there, rec)
    /\ doubt' = IF rec = NoTape THEN doubt ELSE doubt \cup {d}

\* Mutant of StillUnlocked: the controller trusts the route's check.
TrustsTheRoute(r) == TRUE

StillUnlocked(r) == TapeNow(r) \notin locked

CheckLock(r) ==
  /\ pc[r] = "check"
  /\ IF StillUnlocked(r) THEN Goto(r, "mount") /\ UNCHANGED status ELSE Fails(r)
  /\ UNCHANGED <<drives, media, at, bounds, history>>

\* load_tape returns at once if the status of the first drive has the tape, whatever drive
\* is to be loaded.
FindsTape(d, t) ==
  /\ inDrive[FirstDrive] = t
  /\ Sets(d, inDrive[d], t)
  /\ doubt' = IF d = FirstDrive THEN doubt \ {d} ELSE doubt \cup {d}

\* Else it brings the tape from its slot, after the tape in the drive went back to its own;
\* a refused command counts as done, and then the drive keeps its tape, or stays empty.
FetchesTape(d, t) ==
  /\ inDrive[FirstDrive] # t
  /\ \A e \in Drives : inDrive[e] = t => e = d /\ inDrive[FirstDrive] # NoTape
  /\ \/ /\ inDrive[d] = NoTape \/ SeesTape(d)
        /\ Sets(d, t, t)
        /\ doubt' = doubt \ {d}
     \/ /\ \E there \in {NoTape, inDrive[d]} : Sets(d, there, t)
        /\ doubt' = doubt \cup {d}

Loads(r, onward) ==
  LET d == DriveOf[r] IN
  \/ /\ FindsTape(d, TapeNow(r)) \/ FetchesTape(d, TapeNow(r))
     /\ Goto(r, onward)
     /\ strayed' = (strayed \ {r}) \cup Strays(r, d)
     /\ UNCHANGED status
  \/ /\ Fails(r)
     /\ \/ UNCHANGED <<drives, strayed>>
        \/ Empties(d) /\ strayed' = strayed \cup Strays(r, d)

\* Mutant of NeedsLoad: any tape in the drive will do.
NeedsAnyTape(r) == recorded[DriveOf[r]] = NoTape

NeedsLoad(r) == recorded[DriveOf[r]] # TapeNow(r)

Mount(r) ==
  /\ pc[r] = "mount"
  /\ IF NeedsLoad(r)
     THEN Loads(r, "erase")
     ELSE Goto(r, "erase") /\ strayed' = strayed \ {r} /\ UNCHANGED <<drives, status>>
  /\ UNCHANGED <<media, at, bounds, late, unsure, forgotten>>

\* The request cannot know which tape it erases.
Misled(r) == r \in strayed \/ DriveOf[r] \in doubt

\* rewind and weof, erase, or mkltfs, on whatever is in the drive they are given. A quick
\* erase that times out counts as done.
Erase(r) ==
  LET there == inDrive[EraseDrive(r)] IN
  /\ pc[r] = "erase"
  /\ \/ /\ there # NoTape
        /\ data' = data \ {there}
        /\ Goto(r, IF KindOf[r] = "format" THEN "verify" ELSE "reset")
        /\ unsure' = IF Misled(r) THEN unsure \cup {TapeNow(r)} ELSE unsure
        /\ UNCHANGED status
     \/ /\ KindOf[r] = "quick"
        /\ unsure' = unsure \cup {TapeNow(r)}
        /\ Goto(r, "reset")
        /\ UNCHANGED <<data, status>>
     \/ Fails(r) /\ UNCHANGED <<data, unsure>>
  /\ UNCHANGED <<drives, used, locked, at, bounds, strayed, late, forgotten>>

\* verify_ltfs, which loads the tape again if the record lost it; a failure ends the request
\* with the tape empty and its row as it was.
Verify(r) ==
  /\ pc[r] = "verify"
  /\ \/ /\ NeedsLoad(r)
        /\ Loads(r, "reset")
     \/ /\ ~NeedsLoad(r)
        /\ Goto(r, "reset")
        /\ UNCHANGED <<drives, strayed, status>>
     \/ Fails(r) /\ UNCHANGED <<drives, strayed>>
  /\ UNCHANGED <<media, at, bounds, late, unsure, forgotten>>

\* Mutant of ResetRows: the rows of the whole request.
ResetAll(r) == used \ {TapesOf[r][i] : i \in DOMAIN TapesOf[r]}

ResetRows(r) == used \ {TapeNow(r)}

\* An error of the database is only logged.
Reset(r) ==
  /\ pc[r] = "reset"
  /\ used' \in {used, ResetRows(r)}
  /\ Goto(r, "unload")
  /\ UNCHANGED <<drives, data, locked, status, at, bounds, history>>

\* So is an error of the controller.
Unload(r) ==
  LET d == DriveOf[r] IN
  /\ pc[r] = "unload"
  /\ \/ Empties(d) /\ strayed' = strayed \cup Strays(r, d)
     \/ UNCHANGED <<drives, strayed>>
  /\ Goto(r, "begin")
  /\ UNCHANGED <<media, status, at, bounds, late, unsure, forgotten>>

-----------------------------------------------------------------------------
(* The other routes, and the service                                       *)

\* /api/library/load, /api/library/unload and the moves, or what a command of theirs or of a
\* request does after its time-out: tape t comes to drive d, or none, or the tape stays; and
\* the record follows, or not.
MoveTape(d, t) ==
  /\ moves < MaxMoves
  /\ moves' = moves + 1
  /\ \E there \in {t, NoTape, inDrive[d]}, rec \in {t, NoTape, recorded[d]} :
       /\ \A e \in Drives \ {d} : inDrive[e] = there => there = NoTape
       /\ Sets(d, there, rec)
       /\ doubt' = IF there = t /\ rec = t THEN doubt \ {d} ELSE doubt \cup {d}
  /\ strayed' = strayed \cup
       {q \in Requests : DriveOf[q] = d /\ pc[q] \in {"erase", "verify", "reset"}}
  /\ UNCHANGED <<media, rows, restarts, late, unsure, forgotten>>

\* lock_tape looks at no job.
LockTape(t) ==
  /\ t \in Lockable \ locked
  /\ locked' = locked \cup {t}
  /\ late' = IF \E r \in Requests : pc[r] \in {"mount", "erase"} /\ TapeNow(r) = t
             THEN late \cup {t} ELSE late
  /\ UNCHANGED <<drives, data, used, rows, bounds, strayed, unsure, forgotten>>

Orphans == {"running", "pending"}

\* The threads end with the service; cleanup_orphaned_jobs fails the rows it takes for theirs.
\* recover_state_on_startup reads the first drive, if it can; the other records are empty.
Restart ==
  /\ restarts < MaxRestarts
  /\ restarts' = restarts + 1
  /\ pc' = [r \in Requests |-> IF pc[r] \in Working THEN "done" ELSE pc[r]]
  /\ status' = [r \in Requests |-> IF status[r] \in Orphans THEN "failed" ELSE status[r]]
  /\ forgotten' = forgotten \cup
       {r \in Requests : pc[r] \in Working /\ status[r] \in {"queued", "cancel_requested"}}
  /\ \E found \in {NoTape, inDrive[FirstDrive]} :
       recorded' = [d \in Drives |-> IF d = FirstDrive THEN found ELSE NoTape]
  /\ doubt' = {}
  /\ UNCHANGED <<inDrive, media, at, moves, strayed, late, unsure>>

Step(r) ==
  \/ Submit(r) \/ Enqueue(r) \/ BeginTape(r) \/ CheckLock(r) \/ Mount(r)
  \/ Erase(r) \/ Verify(r) \/ Reset(r) \/ Unload(r) \/ Cancel(r)

Next ==
  \/ \E r \in Requests : Step(r)
  \/ \E d \in Drives, t \in Tapes \cup {NoTape} : MoveTape(d, t)
  \/ \E t \in Tapes : LockTape(t)
  \/ Restart

Spec == Init /\ [][Next]_vars

-----------------------------------------------------------------------------
(* Properties                                                              *)

\* The variables hold what they should; a thread has begun no more tapes than it was given.
TypeOK ==
  /\ {inDrive, recorded} \subseteq [Drives -> Tapes \cup {NoTape}]
  /\ doubt \subseteq Drives
  /\ data \subseteq Tapes /\ used \subseteq Tapes /\ locked \subseteq Tapes
  /\ late \subseteq Tapes /\ unsure \subseteq Tapes
  /\ status \in [Requests -> Rows]
  /\ pc \in [Requests -> Points]
  /\ at \in [Requests -> Nat]
  /\ \A r \in Requests :
       /\ at[r] <= Len(TapesOf[r])
       /\ pc[r] \in OnTape => at[r] > 0
  /\ moves \in 0..MaxMoves /\ restarts \in 0..MaxRestarts
  /\ strayed \subseteq Requests /\ forgotten \subseteq Requests

\* What request r erases in this step.
Erasing(r) == pc[r] = "erase" /\ pc'[r] \in {"verify", "reset"}

\* Data is lost by an erase of the tape the request is at, unless others moved tapes in
\* its drive since it mounted that tape, or the drive was in doubt: through records that
\* outlive their request, lists of tapes, failures and restarts.
ErasesTheNamedTape ==
  [][\A t \in data \ data' : \E r \in Requests :
       Erasing(r) /\ (t = TapeNow(r) \/ Misled(r))]_vars

\* A tape under a WORM lock loses its data only to a request that looked at the lock before
\* it was set, or that was misled about its drive: the two checks leave no other gap,
\* however many tapes a bulk request goes through after the first.
LockedTapesKeepData ==
  [][\A t \in locked \cap (data \ data') :
       t \in late \/ \E r \in Requests : Erasing(r) /\ Misled(r)]_vars

\* A tape whose row says it is empty is empty, unless its erase timed out or its request
\* was misled: a failed tape in the middle of a bulk request leaves the rows after it alone.
EmptyRowsAreEmpty == \A t \in Tapes \ used : t \in data => t \in unsure

\* A row that get_active_jobs returns, and that keeps its tapes from being initialised, has
\* a thread that will end it, unless it was cancelled after its end or left by a restart.
ActiveRowsHaveThreads ==
  \A r \in Requests : status[r] \in Active => pc[r] \in Working \/ r \in forgotten

\* A request whose thread is at work has a row that get_active_jobs returns.
WorkIsSeen == \A r \in Requests : pc[r] \in Working => status[r] \in Active

\* The rows tell which requests are at work, in both directions, whatever is cancelled and
\* whenever the service restarts.
RowsTellOfThreads == ActiveRowsHaveThreads /\ WorkIsSeen

===============================================================================
