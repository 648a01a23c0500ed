------------------------------ MODULE JobEngine ------------------------------
(***************************************************************************)
(* The life of backup jobs: worker threads, the per-drive locks they share *)
(* with the tape routes, the cancel/pause flags, the autopilot, the resume *)
(* route, and a restart of the process (backup_engine.py, with the routes  *)
(* of lto_backend_main.py and services/job_service.py).                    *)
(*                                                                         *)
(* A worker is one call of start_backup_job (attempt 0) or of              *)
(* resume_from_checkpoint (attempts 1..MaxResume) in a thread of its own.  *)
(* The rows of the jobs, tapes and job_checkpoints tables survive a        *)
(* restart; the locks, the flags and the threads do not.                   *)
(***************************************************************************)
EXTENDS Naturals, FiniteSets

CONSTANTS
  Jobs,         \* job ids
  Drives,       \* drive numbers of the library
  FirstDrive,   \* drive 0, the only one the auto queue considers
  AutoDrive,    \* drive -1: "any available drive"
  DriveOf,      \* the drive column of each job
  Tapes,        \* barcodes
  TapeOf,       \* the tape of each job
  Ops,          \* tape initialisation requests
  OpDrive,      \* the drive of each
  OpTape,       \* the tape of each
  Scheduled,    \* jobs that may be created with a scheduled time
  Cancellable,  \* jobs an operator may cancel
  Pausable,     \* jobs an operator or a maintenance window may pause
  Watched,      \* jobs whose source the autopilot may find unreachable
  MaxResume,    \* bound: resume requests per job
  MaxFiles,     \* bound: files of a plan
  MaxRestarts   \* bound: restarts of the process

ASSUME EngineAssumption ==
  /\ FirstDrive \in Drives
  /\ AutoDrive \notin Drives
  /\ DriveOf \in [Jobs -> Drives \cup {AutoDrive}]
  /\ TapeOf \in [Jobs -> Tapes]
  /\ OpDrive \in [Ops -> Drives]
  /\ OpTape \in [Ops -> Tapes]
  /\ Scheduled \subseteq Jobs
  /\ Cancellable \subseteq Jobs
  /\ Pausable \subseteq Jobs
  /\ Watched \subseteq Jobs
  /\ MaxResume \in Nat
  /\ MaxFiles \in Nat
  /\ MaxRestarts \in Nat

Workers == Jobs \X (0 .. MaxResume)

VARIABLES
  status,     \* jobs.status, "none" before the row exists
  inUse,      \* tapes whose status column is in_use
  ckpt,       \* jobs with a row in job_checkpoints
  registered, \* ids in active_jobs, pause_flags and cancel_flags
  cancel,     \* ids whose cancel event is set
  pause,      \* ids whose pause event is set
  lock,       \* drive_locks: no entry yet, free or held
  pc,         \* where each worker is
  drive,      \* the local variable drive of each worker
  left,       \* files a worker has still to write
  holds,      \* workers that acquired their drive's lock and have not released it
  op,         \* where each tape initialisation is
  pausing,    \* pause requests past their status check
  escalating, \* the autopilot's list of running jobs
  restarts,   \* restarts so far
  stolen,     \* drives whose lock a worker released without having acquired it
  unmarked    \* tapes whose in_use mark an inventory scan overwrote

rows    == <<status, inUse, ckpt>>
flags   == <<registered, cancel, pause>>
workers == <<pc, drive, left, holds>>
clients == <<op, pausing, escalating>>
history == <<stolen, unmarked>>
vars    == <<rows, flags, lock, workers, clients, restarts, history>>

-----------------------------------------------------------------------------
(* Statuses and control points                                             *)

Statuses == {"none", "pending", "queued", "waiting_for_drive", "running",
             "pausing", "completed", "failed", "cancelled", "error"}
Finished == {"completed", "failed", "cancelled", "error"}
ActiveStatuses == {"running", "pending", "queued"}
Resumable == {"error"}

LockStates == {"absent", "free", "held"}

ThreadLess == {"idle", "requested", "done"}
BeforeLock == {"created", "acquire", "selecting", "waiting"}
Executing  == {"scan", "tape", "load", "file", "parked", "copy", "final"}
Closing    == {"cleanup", "ended", "releasing"}
Controls   == ThreadLess \cup BeforeLock \cup {"selected"} \cup Executing \cup Closing

\* Control points at which the worker looks its flags up by job id.
ReadsFlags == {"selecting", "selected", "waiting", "scan", "tape", "file", "parked", "final"}

JobOf(w)   == w[1]
IsStart(w) == w[2] = 0
OnTape(w)  == pc[w] \in {"file", "parked", "copy"}

Init ==
  /\ status = [j \in Jobs |-> "none"]
  /\ inUse = {}
  /\ ckpt = {}
  /\ registered = {} /\ cancel = {} /\ pause = {}
  /\ lock = [d \in Drives |-> "absent"]
  /\ pc = [w \in Workers |-> "idle"]
  /\ drive = [w \in Workers |-> DriveOf[JobOf(w)]]
  /\ left = [w \in Workers |-> 0]
  /\ holds = {}
  /\ op = [o \in Ops |-> "idle"]
  /\ pausing = {} /\ escalating = {}
  /\ restarts = 0
  /\ stolen = {} /\ unmarked = {}

-----------------------------------------------------------------------------
(* Starting a worker                                                       *)

\* The status a worker writes and where it goes, with everything else it keeps.
Step(w, to) == pc' = [pc EXCEPT ![w] = to]
SetStatus(j, s) == status' = [status EXCEPT ![j] = s]

\* JobService.create_job: the row, then the thread of start_backup_job. A request with a
\* scheduled time gets the row only, and nothing starts its thread later.
CreateJob(j) ==
  /\ status[j] = "none"
  /\ SetStatus(j, "pending")
  /\ \/ Step(<<j, 0>>, "created")
     \/ j \in Scheduled /\ UNCHANGED pc
  /\ UNCHANGED <<inUse, ckpt, flags, lock, drive, left, holds, clients, restarts, history>>

\* The worker enters its job's events: new ones, whatever the id had before.
Register(w) ==
  LET j == JobOf(w) IN
  /\ pc[w] = "created"
  /\ registered' = registered \cup {j}
  /\ cancel' = cancel \ {j}
  /\ pause' = pause \ {j}
  /\ IF drive[w] = AutoDrive
     THEN SetStatus(j, "queued") /\ Step(w, "selecting")
     ELSE UNCHANGED status /\ Step(w, "acquire")
  /\ UNCHANGED <<inUse, ckpt, lock, drive, left, holds, clients, restarts, history>>

\* Mutant of Acquire: the try-lock's result is ignored.
AcquireAnyway(w) ==
  /\ lock' = [lock EXCEPT ![drive[w]] = "held"]
  /\ holds' = holds \cup {w}
  /\ SetStatus(JobOf(w), "running")
  /\ Step(w, "scan")
  /\ UNCHANGED <<inUse, ckpt, flags, drive, left, clients, restarts, history>>

\* With the drive's lock the job's status becomes running.
Acquire(w) ==
  /\ lock[drive[w]] # "held"
  /\ lock' = [lock EXCEPT ![drive[w]] = "held"]
  /\ holds' = holds \cup {w}
  /\ SetStatus(JobOf(w), "running")
  /\ Step(w, "scan")
  /\ UNCHANGED <<inUse, ckpt, flags, drive, left, clients, restarts, history>>

AcquireAtOnce(w) == pc[w] = "acquire" /\ Acquire(w)

StartWaiting(w) ==
  /\ pc[w] = "acquire"
  /\ lock[drive[w]] = "held"
  /\ SetStatus(JobOf(w), "waiting_for_drive")
  /\ Step(w, "waiting")
  /\ UNCHANGED <<inUse, ckpt, flags, lock, drive, left, holds, clients, restarts, history>>

AcquireAfterWait(w) == pc[w] = "waiting" /\ Acquire(w)

\* The worker returns, or its exception is handled: a final status is written.
\* A tape it had loaded is unloaded and available again.
EndWith(w, s) ==
  /\ SetStatus(JobOf(w), s)
  /\ Step(w, "ended")
  /\ inUse' = IF OnTape(w) THEN inUse \ {TapeOf[JobOf(w)]} ELSE inUse
  /\ UNCHANGED <<ckpt, flags, left, clients, restarts, history>>

SeesCancel(w) == JobOf(w) \in registered /\ JobOf(w) \in cancel

WaitCancelled(w) ==
  /\ pc[w] = "waiting"
  /\ SeesCancel(w)
  /\ EndWith(w, "cancelled")
  /\ UNCHANGED <<lock, drive, holds>>

\* Another worker of the same id removed the events: a KeyError.
LostRegistration(w) ==
  /\ pc[w] \in ReadsFlags
  /\ JobOf(w) \notin registered
  /\ EndWith(w, "failed")
  /\ UNCHANGED <<lock, drive, holds>>

-----------------------------------------------------------------------------
(* The auto queue (drive -1)                                               *)

\* Phases 1 and 3 try the lock of drive 0, if drive_locks has an entry for it.
\* The drive's number is 0, which is false, so no `if selected_drive: break`
\* leaves the loop and phase 4 still watches the cancel event.
SelectDrive(w) ==
  /\ pc[w] = "selecting"
  /\ lock[FirstDrive] = "free"
  /\ lock' = [lock EXCEPT ![FirstDrive] = "held"]
  /\ holds' = holds \cup {w}
  /\ Step(w, "selected")
  /\ UNCHANGED <<rows, flags, drive, left, clients, restarts, history>>

\* Phase 4; the local variable drive is still -1.
SelectCancelled(w) ==
  /\ pc[w] \in {"selecting", "selected"}
  /\ SeesCancel(w)
  /\ EndWith(w, "cancelled")
  /\ UNCHANGED <<lock, drive, holds>>

\* After the loop: Database has no update_job_drive, an AttributeError.
RecordSelectedDrive(w) ==
  /\ pc[w] = "selected"
  /\ JobOf(w) \in registered
  /\ drive' = [drive EXCEPT ![w] = FirstDrive]
  /\ EndWith(w, "failed")
  /\ UNCHANGED <<lock, holds>>

-----------------------------------------------------------------------------
(* _execute_backup, for a job with one tape                                *)

Busy(w) == UNCHANGED <<flags, lock, drive, holds, clients, restarts, history>>

ScanCancelled(w) ==
  /\ pc[w] = "scan"
  /\ SeesCancel(w)
  /\ EndWith(w, "cancelled")
  /\ UNCHANGED <<lock, drive, holds>>

\* A pre-job hook, the source, the scan or the chosen flow raises.
ScanFailed(w) ==
  /\ pc[w] = "scan"
  /\ EndWith(w, "failed")
  /\ UNCHANGED <<lock, drive, holds>>

\* No files: completed, and the cancel event is not looked at again.
ScanEmpty(w) ==
  /\ pc[w] = "scan"
  /\ JobOf(w) \in registered
  /\ EndWith(w, "completed")
  /\ UNCHANGED <<lock, drive, holds>>

PlanFiles(w) ==
  /\ pc[w] = "scan"
  /\ JobOf(w) \in registered
  /\ \E n \in 0 .. MaxFiles :
       /\ left' = [left EXCEPT ![w] = n]
       /\ Step(w, IF n = 0 THEN "final" ELSE "tape")
  /\ UNCHANGED rows
  /\ Busy(w)

\* The head of the tape loop, and its pause loop, which honours cancel.
TapeCancelled(w) ==
  /\ pc[w] = "tape"
  /\ SeesCancel(w)
  /\ EndWith(w, "cancelled")
  /\ UNCHANGED <<lock, drive, holds>>

TapeReady(w) ==
  /\ pc[w] = "tape"
  /\ JobOf(w) \in registered \ (cancel \cup pause)
  /\ Step(w, "load")
  /\ UNCHANGED <<rows, left>>
  /\ Busy(w)

\* Mutant of LoadTape: the tape's status is not written.
LoadUnmarked(w) ==
  /\ pc[w] = "load"
  /\ Step(w, "file")
  /\ UNCHANGED <<rows, left>>
  /\ Busy(w)

LoadTape(w) ==
  /\ pc[w] = "load"
  /\ inUse' = inUse \cup {TapeOf[JobOf(w)]}
  /\ unmarked' = unmarked \ {TapeOf[JobOf(w)]}
  /\ Step(w, "file")
  /\ UNCHANGED <<status, ckpt, left, flags, lock, drive, holds, clients, restarts, stolen>>

LoadFailed(w) ==
  /\ pc[w] = "load"
  /\ Step(w, "final")
  /\ UNCHANGED <<rows, left>>
  /\ Busy(w)

\* The file loop ends (no file left, or cancelled): the tape is unloaded.
LeaveTape(w) ==
  /\ pc[w] = "file"
  /\ left[w] = 0 \/ SeesCancel(w)
  /\ inUse' = inUse \ {TapeOf[JobOf(w)]}
  /\ Step(w, "final")
  /\ UNCHANGED <<status, ckpt, left>>
  /\ Busy(w)

NextFile(w) ==
  /\ pc[w] = "file"
  /\ left[w] > 0
  /\ JobOf(w) \in registered \ cancel
  /\ Step(w, IF JobOf(w) \in pause THEN "parked" ELSE "copy")
  /\ UNCHANGED <<rows, left>>
  /\ Busy(w)

\* The file loop's pause loop does not look at the cancel event.
MayCopy(w) ==
  \/ pc[w] = "copy"
  \/ pc[w] = "parked" /\ JobOf(w) \in registered \ pause

\* One file, written or recorded as an error; every so often a checkpoint.
CopyFile(w) ==
  /\ MayCopy(w)
  /\ left' = [left EXCEPT ![w] = @ - 1]
  /\ ckpt' \in {ckpt, ckpt \cup {JobOf(w)}}
  /\ Step(w, "file")
  /\ UNCHANGED <<status, inUse>>
  /\ Busy(w)

\* The final status of a job that went through its tapes.
Finish(w) ==
  /\ pc[w] = "final"
  /\ JobOf(w) \in registered
  /\ SetStatus(JobOf(w), IF JobOf(w) \in cancel THEN "cancelled" ELSE "completed")
  /\ Step(w, "cleanup")
  /\ UNCHANGED <<inUse, ckpt, left>>
  /\ Busy(w)

\* A final status is written before the work in the handlers' scope is done: the snapshot,
\* the manifest and the log entries ("cleanup", and "ended" after an empty scan), then the
\* post-job hook ("ended"). When that raises, failed is written over the final status.
WrapUpFails(w) ==
  /\ pc[w] \in {"cleanup", "ended"}
  /\ w \in holds /\ DriveOf[JobOf(w)] \in Drives
  /\ SetStatus(JobOf(w), "failed")
  /\ Step(w, "ended")
  /\ UNCHANGED <<inUse, ckpt, left>>
  /\ Busy(w)

\* The job's tape is unloaded once more and available, unless that raises; the
\* post-job hook follows, with the drive still in use ("ended").
CleanUpTapes(w) ==
  /\ pc[w] = "cleanup"
  /\ inUse' \in {inUse, inUse \ {TapeOf[JobOf(w)]}}
  /\ Step(w, "ended")
  /\ UNCHANGED <<status, ckpt, left>>
  /\ Busy(w)

-----------------------------------------------------------------------------
(* The finally clause                                                      *)

\* Mutant of Unregister: the events are left behind.
KeepEvents(w) ==
  /\ pc[w] = "ended"
  /\ Step(w, "releasing")
  /\ UNCHANGED <<rows, flags, lock, drive, left, holds, clients, restarts, history>>

Unregister(w) ==
  LET j == JobOf(w) IN
  /\ pc[w] = "ended"
  /\ registered' = registered \ {j}
  /\ cancel' = cancel \ {j}
  /\ pause' = pause \ {j}
  /\ Step(w, "releasing")
  /\ UNCHANGED <<rows, lock, drive, left, holds, clients, restarts, history>>

\* Mutant of Release: the lock is forgotten.
LeaveLocked(w) ==
  /\ pc[w] = "releasing"
  /\ Step(w, IF IsStart(w) THEN "done" ELSE "idle")
  /\ UNCHANGED <<rows, flags, lock, drive, left, holds, clients, restarts, history>>

\* drive_locks.get(drive), released if it is locked: by whom is not asked.
Release(w) ==
  LET d == drive[w] IN
  /\ pc[w] = "releasing"
  /\ IF d \in Drives
     THEN /\ lock' = [lock EXCEPT ![d] = IF @ = "held" THEN "free" ELSE @]
          /\ stolen' = IF lock[d] = "held" /\ w \notin holds THEN stolen \cup {d} ELSE stolen
          /\ holds' = holds \ {w}
     ELSE UNCHANGED <<lock, stolen, holds>>
  /\ Step(w, IF IsStart(w) THEN "done" ELSE "idle")
  /\ UNCHANGED <<rows, flags, drive, left, clients, restarts, unmarked>>

-----------------------------------------------------------------------------
(* Requests of the operator                                                *)

\* Mutant of Cancel: the event is created for an id that has none.
CancelAnyone(j) ==
  /\ j \in Cancellable
  /\ cancel' = cancel \cup {j}
  /\ UNCHANGED <<rows, registered, pause, lock, workers, clients, restarts, history>>

\* cancel_job sets the event if the id has one, and does nothing otherwise.
Cancel(j) ==
  /\ j \in Cancellable \cap registered
  /\ cancel' = cancel \cup {j}
  /\ UNCHANGED <<rows, registered, pause, lock, workers, clients, restarts, history>>

\* pause_job reads the status, then writes another.
PauseCheck(j) ==
  /\ j \in Pausable
  /\ status[j] = "running"
  /\ pausing' = pausing \cup {j}
  /\ UNCHANGED <<rows, flags, lock, workers, op, escalating, restarts, history>>

PauseWrite(j) ==
  /\ j \in pausing
  /\ pausing' = pausing \ {j}
  /\ SetStatus(j, "pausing")
  /\ pause' = pause \cup ({j} \cap registered)
  /\ UNCHANGED <<inUse, ckpt, registered, cancel, lock, workers, op, escalating, restarts,
                 history>>

\* CheckpointManager.can_resume. Nothing writes the statuses interrupted and
\* paused, so the route's first branch (resume_job, which clears the pause
\* event) is never taken.
CanResume(j) == j \in ckpt /\ status[j] \in Resumable /\ TapeOf[j] \notin inUse

ResumeCheck(w) ==
  /\ pc[w] = "idle" /\ ~IsStart(w)
  /\ CanResume(JobOf(w))
  /\ Step(w, "requested")
  /\ UNCHANGED <<rows, flags, lock, drive, left, holds, clients, restarts, history>>

ResumeStart(w) ==
  /\ pc[w] = "requested"
  /\ SetStatus(JobOf(w), "running")
  /\ Step(w, "created")
  /\ UNCHANGED <<inUse, ckpt, flags, lock, drive, left, holds, clients, restarts, history>>

-----------------------------------------------------------------------------
(* The autopilot                                                           *)

\* A maintenance window sets the pause event and no status.
MaintenancePause(j) ==
  /\ j \in Pausable \cap registered
  /\ status[j] = "running"
  /\ pause' = pause \cup {j}
  /\ UNCHANGED <<rows, registered, cancel, lock, workers, clients, restarts, history>>

\* Mutant of AutopilotScan: every running job is listed, whatever its source.
ScanEverySource ==
  /\ escalating = {}
  /\ escalating' = {j \in Jobs : status[j] = "running"}
  /\ escalating' # {}
  /\ UNCHANGED <<rows, flags, lock, workers, op, pausing, restarts, history>>

\* _check_smb_health works through a list of jobs that were running when it
\* read them; the connection tests and back-offs in between take minutes.
AutopilotScan ==
  /\ escalating = {}
  /\ escalating' = {j \in Watched : status[j] = "running"}
  /\ escalating' # {}
  /\ UNCHANGED <<rows, flags, lock, workers, op, pausing, restarts, history>>

SourceReachable(j) ==
  /\ j \in escalating
  /\ escalating' = escalating \ {j}
  /\ UNCHANGED <<rows, flags, lock, workers, op, pausing, restarts, history>>

\* max_retries reached: error, whatever the job's status is by now.
Escalate(j) ==
  /\ j \in escalating
  /\ escalating' = escalating \ {j}
  /\ SetStatus(j, "error")
  /\ UNCHANGED <<inUse, ckpt, flags, lock, workers, op, pausing, restarts, history>>

-----------------------------------------------------------------------------
(* Tape initialisation: the other user of the drive locks                  *)

TapeInActiveJob(t) == \E j \in Jobs : status[j] \in ActiveStatuses /\ TapeOf[j] = t

OpCheck(o) ==
  /\ op[o] = "idle"
  /\ ~TapeInActiveJob(OpTape[o])
  /\ op' = [op EXCEPT ![o] = "checked"]
  /\ UNCHANGED <<rows, flags, lock, workers, pausing, escalating, restarts, history>>

OpLock(o) ==
  /\ op[o] = "checked"
  /\ lock[OpDrive[o]] # "held"
  /\ lock' = [lock EXCEPT ![OpDrive[o]] = "held"]
  /\ op' = [op EXCEPT ![o] = "busy"]
  /\ UNCHANGED <<rows, flags, workers, pausing, escalating, restarts, history>>

OpRefused(o) ==
  /\ op[o] = "checked"
  /\ lock[OpDrive[o]] = "held"
  /\ op' = [op EXCEPT ![o] = "idle"]
  /\ UNCHANGED <<rows, flags, lock, workers, pausing, escalating, restarts, history>>

\* Formatted (the tape becomes available) or failed. A release of a lock that
\* is not held raises, which changes nothing else.
OpEnd(o) ==
  /\ op[o] = "busy"
  /\ op' = [op EXCEPT ![o] = "idle"]
  /\ \E formatted \in {{}, {OpTape[o]}} : inUse' = inUse \ formatted
  /\ lock' = [lock EXCEPT ![OpDrive[o]] = "free"]
  /\ UNCHANGED <<status, ckpt, flags, workers, pausing, escalating, restarts, history>>

\* GET /api/tapes scans the library in the background, a scan request at once:
\* update_tape_inventory writes the status of a tape's place over in_use.
ScanInventory ==
  /\ \E seen \in SUBSET inUse :
       /\ inUse' = inUse \ seen
       /\ unmarked' = unmarked \cup seen
  /\ UNCHANGED <<status, ckpt, flags, lock, workers, clients, restarts, stolen>>

-----------------------------------------------------------------------------
(* A restart: threads, locks, flags and requests are gone, and the start-up *)
(* runs cleanup_orphaned_jobs.                                              *)

\* Mutant of Orphaned: a job whose thread had not started is forgotten.
OnlyRunning(s) == s = "running"

Orphaned(s) == s \in {"running", "pending"}

Restart ==
  /\ restarts < MaxRestarts
  /\ restarts' = restarts + 1
  /\ status' = [j \in Jobs |-> IF Orphaned(status[j]) THEN "failed" ELSE status[j]]
  /\ registered' = {} /\ cancel' = {} /\ pause' = {}
  /\ lock' = [d \in Drives |-> "absent"]
  /\ pc' = [w \in Workers |-> IF IsStart(w) /\ pc[w] # "idle" THEN "done" ELSE "idle"]
  /\ drive' = [w \in Workers |-> DriveOf[JobOf(w)]]
  /\ left' = [w \in Workers |-> 0]
  /\ holds' = {}
  /\ op' = [o \in Ops |-> "idle"]
  /\ pausing' = {} /\ escalating' = {}
  /\ stolen' = {}
  /\ UNCHANGED <<inUse, ckpt, unmarked>>

-----------------------------------------------------------------------------

WorkerStep(w) ==
  \/ Register(w) \/ AcquireAtOnce(w) \/ StartWaiting(w) \/ AcquireAfterWait(w)
  \/ WaitCancelled(w) \/ LostRegistration(w)
  \/ SelectDrive(w) \/ SelectCancelled(w) \/ RecordSelectedDrive(w)
  \/ ScanCancelled(w) \/ ScanFailed(w) \/ ScanEmpty(w) \/ PlanFiles(w)
  \/ TapeCancelled(w) \/ TapeReady(w) \/ LoadTape(w) \/ LoadFailed(w)
  \/ LeaveTape(w) \/ NextFile(w) \/ CopyFile(w)
  \/ Finish(w) \/ WrapUpFails(w) \/ CleanUpTapes(w)
  \/ Unregister(w) \/ Release(w)

OperatorStep ==
  \/ \E j \in Jobs : CreateJob(j) \/ Cancel(j) \/ PauseCheck(j) \/ PauseWrite(j)
  \/ \E w \in Workers : ResumeCheck(w) \/ ResumeStart(w)

AutopilotStep ==
  \/ AutopilotScan
  \/ \E j \in Jobs : MaintenancePause(j) \/ SourceReachable(j) \/ Escalate(j)

OpStep(o) == OpCheck(o) \/ OpLock(o) \/ OpRefused(o) \/ OpEnd(o)

Next ==
  \/ \E w \in Workers : WorkerStep(w)
  \/ OperatorStep
  \/ AutopilotStep
  \/ \E o \in Ops : OpStep(o)
  \/ ScanInventory
  \/ Restart

Spec == Init /\ [][Next]_vars
FairSpec == Spec /\ \A w \in Workers : WF_vars(WorkerStep(w))

-----------------------------------------------------------------------------
(* Properties                                                              *)

TypeOK ==
  /\ status \in [Jobs -> Statuses]
  /\ inUse \subseteq Tapes
  /\ ckpt \subseteq Jobs
  /\ registered \subseteq Jobs
  /\ cancel \subseteq registered
  /\ pause \subseteq registered
  /\ lock \in [Drives -> LockStates]
  /\ pc \in [Workers -> Controls]
  /\ drive \in [Workers -> Drives \cup {AutoDrive}]
  /\ left \in [Workers -> 0 .. MaxFiles]
  /\ holds \subseteq Workers
  /\ op \in [Ops -> {"idle", "checked", "busy"}]
  /\ pausing \subseteq Jobs
  /\ escalating \subseteq Jobs
  /\ restarts \in 0 .. MaxRestarts
  /\ stolen \subseteq Drives
  /\ unmarked \subseteq Tapes

\* The drive whose lock a holder acquired: the auto queue takes drive 0's while
\* its local variable still says -1.
HeldDrive(w) == IF drive[w] = AutoDrive THEN FirstDrive ELSE drive[w]
Holders(d) == {w \in holds : HeldDrive(w) = d}
BusyOps(d) == {o \in Ops : op[o] = "busy" /\ OpDrive[o] = d}

\* At most one worker or tape initialisation uses the drive, and while one does
\* the lock is held.
Exclusive(d) ==
  /\ \A v, w \in Holders(d) : v = w
  /\ \A o, p \in BusyOps(d) : o = p
  /\ Holders(d) = {} \/ BusyOps(d) = {}
  /\ Holders(d) \cup BusyOps(d) # {} => lock[d] = "held"

\* The only way two users can come to share a drive is a finally clause that
\* released a lock its worker never acquired: without one the locking is right
\* whatever is cancelled, paused, resumed, escalated or restarted.
SharedOnlyIfStolen == \A d \in Drives \ stolen : Exclusive(d)

\* A lock that is held has an owner that will still release it: a worker before
\* its finally clause or a running initialisation. The exception is drive 0
\* after a job of the auto queue was cancelled with the lock in its hands.
NoOrphanLock ==
  \A d \in Drives : lock[d] = "held" =>
    \/ \E w \in Holders(d) : pc[w] \in {"selected"} \cup Executing \cup Closing
    \/ BusyOps(d) # {}
    \/ d = FirstDrive /\ \E w \in Holders(d) : pc[w] = "done" /\ drive[w] = AutoDrive

\* Control points of a worker that will still write a final status.
Concluding == BeforeLock \cup {"selected"} \cup Executing

\* A job with a scheduled time: a pending row that no thread was ever started for.
Unstarted(j) == j \in Scheduled /\ status[j] = "pending" /\ pc[<<j, 0>>] = "idle"

\* A job that is shown running or pending has a thread that will conclude it,
\* also right after a restart (cleanup_orphaned_jobs), and whichever of two
\* workers of one job wrote last. The exception is a job created with a scheduled
\* time, which stays pending until a restart declares it failed.
RunningHasWorker ==
  \A j \in Jobs : status[j] \in {"running", "pending"} =>
    Unstarted(j) \/ \E w \in Workers : JobOf(w) = j /\ pc[w] \in Concluding

\* Users of one tape use one drive: a cartridge is in one place.
TapesKeepToDrive ==
  /\ \A i, j \in Jobs : TapeOf[i] = TapeOf[j] => DriveOf[i] = DriveOf[j]
  /\ \A j \in Jobs, o \in Ops : TapeOf[j] = OpTape[o] => DriveOf[j] = OpDrive[o]

\* The tape a worker has loaded is marked in_use, which is what keeps can_resume
\* from starting a second worker on it, as long as the drive's lock was not stolen
\* and no inventory scan has overwritten the mark.
LoadedTapeInUse ==
  TapesKeepToDrive =>
    \A w \in Workers : OnTape(w) /\ drive[w] \notin stolen =>
      TapeOf[JobOf(w)] \in inUse \cup unmarked

\* A worker that has written a final status and has not reached its finally clause.
WrappingUp(w) == pc[w] \in {"cleanup", "ended"}

\* The final status of a job is final: no worker, no request and no restart changes
\* it. The exceptions are failed, written by the job's own worker before its finally
\* clause; the pause route, which read the status before; and, for a job whose source
\* it watches, the autopilot's error (after which the job may be resumed).
FinalStaysFinal ==
  [][\A j \in Jobs \ Watched : status[j] \in Finished =>
       \/ status'[j] = status[j]
       \/ status'[j] = "failed" /\ \E w \in Workers : JobOf(w) = j /\ WrappingUp(w)
       \/ status'[j] = "pausing" /\ j \in pausing]_vars

Parked(w) == pc[w] = "parked"

\* The auto queue's cancelled job went away with drive 0's lock.
LockLost == \E w \in holds : pc[w] = "done" /\ drive[w] = AutoDrive

\* Every job that is created for a drive comes to an end: the ones that wait for the
\* drive get it. What keeps a job from it is a pause, which nothing ends; a lock that
\* a job of the auto queue took and never releases, behind which every later job of
\* drive 0 waits; a scheduled time, for which no thread is started; and tape
\* initialisations without end, since a lock's waiters are in no queue.
EveryJobConcludes ==
  (<>[] \A o \in Ops : op[o] # "busy") =>
    \A j \in Jobs : status[j] = "pending" /\ DriveOf[j] \in Drives
      ~> status[j] \in Finished \/ pause # {} \/ LockLost \/ Unstarted(j)

\* A cancelled job's worker stops, whatever it was doing and whatever the other
\* jobs do, unless it stands in the file loop's pause loop.
CancelTakesEffect ==
  \A j \in Jobs : j \in cancel ~>
    j \notin registered \/ \E w \in Workers : JobOf(w) = j /\ Parked(w)

=============================================================================
