# FossilSafe: a TLA+ model of the backup appliance

FossilSafe backs up file shares to LTO tapes. A Flask process (`backend/lto_backend_main.py`)
serves the web API, runs each backup job in a thread of its own, drives the tape
library with `mtx`, `mt` and LTFS, and keeps jobs, tapes and the catalog in SQLite.
The hard part is what these threads share: the drives and their locks, the rows
that say what a job or a tape is doing, the events that cancel and pause a job, one
streaming pipeline for all jobs, one pool of database connections, and a catalog that must
agree with tapes which jobs, operators and crashes change at different moments. That is
what is modelled here.

1. Inventory
2. Modules
3. Runs, bounds, fairness
4. What the model found
5. Proofs
6. What is not modelled
7. What could come next

## 1. Inventory

Paths are under `src/backend/`. "PROJECT.json" lists each component with its status,
and every hazard with its line and the properties that cover it.

| component | state | operations | interacts with | hard behaviour | what makes it correct |
|---|---|---|---|---|---|
| job engine (`backup_engine.py`, `services/job_service.py`) | rows of `jobs`; `job_locks`, `pause_flags`, `cancel_flags`, `active_jobs` by job id; `drive_locks` by drive | create, start, wait for a drive, scan, plan, copy, finish; cancel, pause, resume; clean-up at start | tape routes (locks, tape status), autopilot (status, pause), pipeline, database | threads that act on one job id; check then act over the database; restart | one user per drive; locks are given back; a running job has a thread; a cancelled job stops |
| autopilot (`lto_backend_main.py`, `Autopilot`) | alerts, retry counts, its list of running jobs | health checks, escalation to `error`, maintenance pause, remount | writes the status of jobs that others run | lists read minutes before they are used | it does not undo what a worker has concluded |
| checkpoints (`CheckpointManager`, `job_checkpoints`) | one row per job, never deleted | save, `can_resume`, resume route | job engine | resume against a first worker that is still there | a job resumes once, on a tape nobody uses |
| tape initialisation (`initialize_single_tape`, `initialize_all_tapes`) | tape rows, drive locks | format | job engine | shares drives with jobs; catalog rows stay | never on a tape or drive in use |
| format and wipe requests (`routes/tapes.py`, `job_service.py`) | internal job rows, WORM locks, `tapes` rows | format, bulk wipe, cancel, lock a tape | tape controller, other users of the drive | no drive lock; checks long before the erase; one tape of many fails | the tape that is named is erased, and no locked one |
| streaming pipeline (`streaming_pipeline.py`) | bounded queue, size counter and lock, error fields, staging directory, record buffer; one instance for all jobs | run, produce, consume, flush | job engine, controller, database | two or more producers and a consumer; leftovers of failed runs | every file once, on its own tape; runs end |
| planning and snapshots (`compute_incremental_plan`, `_finalize_snapshot`) | manifests, `backup_snapshots` | plan, finalise | catalog, inventory | files that failed, tapes removed since | what is skipped is on a tape |
| catalog and inventory (`database.py`, `routes/tapes.py`) | `archived_files`, `tapes` | add record, usage, add and remove tapes, rescan | everything | records against what the tape holds, after crashes and erasures | a record is true; a tape is not overfilled |
| tape controller (`tape_controller.py`, `tape/`) | `mounted_tapes`, `home_slots`, mount points, library state | load, unload, move, mount, force unload | all users of tapes | commands that time out; compound operations interleave | its picture of the library is right |
| tape spanning (`tape_spanning.py`, `_backup_with_tar`) | sessions by job, in memory | request, provide, poll, fail | tar and its script, controller, UI | a session written by script, job and requests without a lock; lost requests | volumes are where the session says; the job ends |
| restore (`advanced_restore.py`, `restore_service.py`) | `restore_jobs`, prompts | start, load or ask, confirm, mount, copy | drive 0 without its lock, job engine | others move the tape; a restart | files come from their own tape; a restore ends |
| connection pool (`database.py`) | queue of connections, list of all, thread-local | get, return, release | every thread | connections that die, threads that end without returning | no more than `pool_size` in use, none shared, none lost |
| audit log (`database.py`) | rows with the hash of the row before | append, verify | every request | read and insert are two steps | an untouched log verifies |
| catalog import (`catalog_rebuild.py`) | one transaction | insert rows, commit | connection pool | an error leaves the transaction open on its connection | an import is whole or absent |
| scheduler (`scheduler.py`) | schedule rows | none reachable | | | see section 6 |
| duplication, reclaim, verification, catalog files on tape, sources, API, frontend | | | | mostly sequential | see section 6 |

## 2. Modules

| module | models | kind |
|---|---|---|
| `JobEngine` | the job engine with the lock users, the autopilot and the resume route | component |
| `JobEngineProofs` | theorems about it | proofs |
| `MCJobEngine` | instances | model checking |
| `StreamContract` | what a streaming run promises | abstract specification |
| `StreamingPipeline` | the pipeline; implements `StreamContract` | component |
| `StreamingPipelineProofs` | theorems about it, and that it implements `StreamContract` | proofs |
| `MCStreaming` | instances | model checking |
| `ArchiveContents` | tapes, catalog, snapshots, usage and the plan over successive jobs | component |
| `ArchiveContentsProofs` | theorems about it | proofs |
| `MCArchive` | instances | model checking |
| `TapeController` | the library, the controller's records of it, and its calls | component |
| `TapeControllerProofs` | theorems about it | proofs |
| `MCTape` | instances | model checking |
| `JobsOnLibrary` | the jobs of `JobEngine` with the calls of `TapeController` they make | composition |
| `JobsOnLibraryProofs` | that it implements both; what the locks and the records give together | proofs |
| `MCJobsOnLibrary` | instances | model checking |
| `ConnectionPool` | the pool of database connections | component |
| `Database` | the threads over the pool: imports, audit entries, background writes | composition |
| `DatabaseProofs` | theorems about both | proofs |
| `MCDatabase` | instances | model checking |
| `TapeRequests` | the format and wipe requests | component |
| `TapeRequestsProofs` | theorems about them | proofs |
| `MCRequests` | instances | model checking |
| `FirstDrive` | the first drive as its users see it | component |
| `TapeSpanning`, `Restore` | a spanned backup; restores | components over `FirstDrive` |
| `DriveUsers` | both on the one drive they share, and the service's restart | composition |
| `DriveUsersProofs` | theorems about them | proofs |
| `MCDrives` | instances | model checking |

Definitions whose comment begins "Mutant of" are variants of the definition that
follows, each a plausible bug; no behaviour uses them. PROJECT.json pairs each
property with a variant that violates it.

### JobEngine

A *worker* is a pair of a job and an attempt: attempt 0 is a call of
`start_backup_job`, the others are calls of `resume_from_checkpoint`. Its control
point `pc` stands between the reads and writes of shared state in the code:

| `pc` | place in the code |
|---|---|
| `created` | the thread exists, its events do not |
| `acquire`, `waiting` | the try-lock on `drive_locks[drive]`; the loop of timed acquisitions |
| `selecting`, `selected` | the loop of the auto queue (drive -1), without and with a lock |
| `scan`, `tape`, `load`, `file`, `parked`, `copy`, `final` | `_execute_backup`: scan and plan, head of the tape loop, load, head of the file loop, its pause loop, a file, the final status |
| `cleanup`, `ended`, `releasing` | the cleanup of the tapes; the post-job hook and the entry of `finally`; between dropping the events and releasing the lock |
| `requested` | the resume route between `can_resume` and its write |

`status`, `inUse` and `ckpt` are database columns (`jobs.status`, `tapes.status`,
rows of `job_checkpoints`) and survive `Restart`; `registered`, `cancel` and
`pause` are the dictionaries of events; `lock` is `drive_locks`, a `defaultdict`, so
"absent" differs from "free" (the auto queue uses `get` and sees only entries that
exist); `drive` is the local variable that `finally` uses. `holds` and `stolen` are
history variables: who acquired a lock, and which drives' locks were released by a
worker that had not. No guard reads them.

Five facts of the code shape the module. A job created with a scheduled time
(`Scheduled`) is a pending row for which no thread is started (`Unstarted`), until a restart
declares it failed. What follows the final status (snapshot, manifest, log, hook) has no handler of its
own: when it raises, the worker's outer handlers write `failed` over the status (`WrapUpFails`). `finally` releases whatever lock it finds
locked. In the auto queue the selected drive is 0, which is false in `if
selected_drive: break`, so the worker goes on to phase 4, can still be cancelled
there with the lock taken and its local `drive` at -1, and otherwise calls
`update_job_drive`, which `Database` does not have. And resume creates new events
under the old id, so a first worker that is still running loses its own
(`LostRegistration`).

The background scan of the inventory (`GET /api/tapes`) writes back the status it read for each
tape, over a mark `in_use` set in the meantime; `unmarked` is the history of that, and
`LoadedTapeInUse` excepts it.

A job has one tape here, and a file is written or fails in one step (`CopyFile`);
what is on the tape is the subject of `ArchiveContents`.

### StreamingPipeline

The thread of each run (`main`), its producers (`prod`), its consumer (`cons`), and
the objects they share: `queue`, `bytes` (`queue_size_bytes`), `owner`
(`queue_lock`), `producersDone`, the error fields, the staging directory (`disk`)
and `buffer` (`db_buffer`). Nothing resets the error fields, the queue or the counter
between runs, and `_cleanup_staging` deletes the staged files of every run; the
model keeps that. `Put` keeps `queue_lock` while it waits for room, and
`Account` needs it. A run always ends as failed, since `update_job_status` has
neither `metadata` nor `error`; the model's runs end without a result, and the
contract speaks of the tape.

A file has two sizes: the one its source listed, which the producers' look at the limits uses
(`QueueFull`), and the one it has when it is staged, which is counted (`_stage_file` replaces it,
`streaming_pipeline.py:527`). The limits bind in the runs, so the code's stalls are there: `Stalled` names
them, a full queue that nobody will empty (`StalledFull`) and a consumer that waits for more bytes than the queue takes
(`StalledFetching`).

`StreamContract` has two variables: whether a run is idle, active or ended, and how often each file
was written to its tape, so that a file that is written a second time breaks the contract. `KeepsContract` is the refinement, with `phase` computed from
`main`.

### ArchiveContents

One job at a time: `Start` scans, `Plan` is `compute_incremental_plan`, `Load` reads the tape's
usage into `tapeUsed` and computes the room, `Copy` and `Record` are the two halves of a file
(`_backup_single_file`, then `add_archived_file`), `Unload` writes back what was read at the load plus what was written
(`SavesUsage`) and `Finish` the snapshot. Files have sizes and come in the order of them, the largest first; one that does not fit
is left out or left for a next tape. A copy may break off and leave bytes (`Spoils`), a record or a usage update may be
refused by the database, a mount that fails after the load resets the tape's usage to 0 (`LoadFailed`: the `finally` clause writes
the zeros it has, `backup_engine.py:1553`, `:1714`), and an exception passes the `finally` clause or not (`Raises`, `Crash`). In
between, and while a job runs, files change (`Edit`), tapes are initialised or
wiped (`Erase`, then `ResetRow`: the wipe and format routes look at no job and take no lock, so the tape may be the
job's, and may be taken out of its drive: `away`), rows come and go (`RemoveTape`, `AddTape`), and the records of a tape are
replaced by what is found on it (`Rescan`). A version stands for a content and its
checksum; a source that lists its files itself may give none (`unread`), and then the file is backed up.

History variables name what the properties must except: `missed`
(snapshot entries that were planned and never recorded), `disturbed` (paths overwritten or erased), `stale`
(tapes whose usage was reset or lost while a job was at them, or never written), `spent` (written since the
tape was formatted), `drift` (the part of `spent` that no record stands for: broken or unrecorded copies, files that
changed their size since the scan), `forgotten` (records that a rescan deleted). A rescanned row has
neither job nor checksum: it stands in the catalog with no set and no content, so a plan
that asks for a checksum does not find it.

### TapeController

Three groups of variables keep the truth, the belief and the calls apart:

| variables | stand for |
|---|---|
| `at`, `arm`, `origin`, `fs` | the library: the place of each tape, a move still under way after its command timed out, the slot `mtx status` names for a loaded tape, the file system at each mount point |
| `mounted`, `home` | the controller: `mounted_tapes` and `home_slots` by drive |
| `pc`, `call` | the call that the user of each drive is in, with its arguments and local variables |
| `doubt`, `taken` | history only: drives whose record may be wrong, slots that got a tape from elsewhere than the first drive |

`_changer_lock` covers one `mtx` command, so a command is one step (`Command`) and
a call of `load_tape`, `unload_tape` or `mount_ltfs` is several: the status it reads,
the slot it looks up, the command, and after a time-out the status that confirms it.
A drive's lock gives it one user, so one call per drive; calls on different drives
interleave. `move_tape` takes no drive lock and may come between any two steps
(`Meddling`). A command is carried out, refused, or carried out after the time-out
(`ArmStops`); `Faulty` says whether a possible move may be refused or late.

What the code does shapes the module in four places. `_run_mtx_command` returns before it
looks at the return code, so whoever called it takes a refused command for done. `get_drive_status`
reports the drive the controller was made for, whatever drive is asked about, and
`ltfs` gets that drive's `drive_sg` for every drive (`MountDevice`). `mount_ltfs` loads nothing if the record
names its tape, and takes a mount point in use as it is. A restart finds `home_slots` in the
state file, but `mounted_tapes` is rebuilt from the status of the first drive.
Tapes start in slots, and every tape has a label. `Unmount` is `unmount_ltfs` by the user of a
file system, and by one who has none and makes sure before a format or after a job.

### JobsOnLibrary

`TapeController` has one call at a time on each drive because its users are meant to hold the drive's
lock. `JobsOnLibrary` has these users: it extends `JobEngine`, instantiates the controller (`Lib`,
with `stage` for its `pc`), and says which calls a worker makes where (`WorkerCalls`: load and mount at the head of the tape
loop, unmount and unload in its `finally`, unmount once more in the cleanup) and an initialisation
while it is busy (`OpCalls`). A worker's step that follows a call waits for its end
(`WorkerGoesOn`, `Awaited`): it copies when the mount has given it its tape, its load fails when a
call raised, it releases when the unload is over. Arm, operator and restart are the library's own.

Two orders differ from the program's. The engine's load step comes with the mount instead of between
`load_tape` and `mount_ltfs`, and the step by which a worker leaves its tape comes before the unmount and
unload instead of after; in both cases the mark `in_use` lasts less long than in the program, so the
requests that look at it have more behaviours here and not fewer. And when a drive was stolen its two users' calls still
come one after the other: what happens on such a drive is outside the properties. The users that
take no lock at all (restore, tape spanning, the format and wipe routes) are in `DriveUsers` and `TapeRequests`.

### ConnectionPool and Database

`ConnectionPool` has the queue of free connections, `_all_connections` and each thread's own
connection. `get_connection` is several steps (`need`): the look at the thread's own,
`get_nowait`, the check of the size and the creation under the lock, the wait with its
time-out; `_test_connection` may find a connection dead at any of them.
Requests release at the end (`Teardown`), background threads never do (`EndThread`, `leaked`).

`Database` composes it with what threads do over a connection. A transaction
belongs to the connection (`tx`), so an import that raises leaves its rows there for whoever gets
the connection next: its commit makes a part of the import permanent. `CanWrite` is SQLite's
one writer. An audit entry is the read of the last hash and the insert
(`ReadLastHash`, `AppendAudit`); a row is its place in the chain, and whether its stored
fields hash to what was stored (an entry made from a dict hashes `None` and stores an empty string).

### TapeRequests

Each request has a row (`status`), a thread (`pc`) and the tape it is at (`at`). The route
checks the WORM locks of all its tapes, the controller the one of each (`CheckLock`), long before
`Erase`. `inDrive` is the library, `recorded` the controller's `mounted_tapes`, `data` and `used` what the tapes hold and what their rows
say. Whether a tape has to be loaded is decided by the record (`NeedsLoad`), and `load_tape` by the status of the first drive,
whichever drive is to be loaded (`FindsTape`). A refused unload or load returns like one that was done (`Empties`, `FetchesTape`): then
record and drive differ, and the erase takes whatever is there. `run_mt_command` and `mkltfs` get the first drive's device
(`EraseDrive`). `MoveTape` is every other user of the drives, which no lock keeps away, and a command that is carried out after its time-out.
History: `doubt` has the drives whose last command was refused or timed out, or that others changed without a record; `strayed`
the requests in whose drive others moved tapes since the mount; a request is `Misled` by either. `late` and `unsure` name tapes, `forgotten`
rows, for which the code cannot know better.

### FirstDrive, TapeSpanning, Restore, DriveUsers

`FirstDrive` has the tape in the drive, the file system that is mounted and the controller's record of the tape, with one operator per
call of the controller and outcome (`LoadReturns`, `LoadRaises`, `MountReturns`, ...). A call that returns may have done
nothing: when its command was refused, the drive keeps its tape, or stays empty, under the new record (`doubt`), and `mount_ltfs` hands
out the file system that is there. `using` says
who relies on the tape it found or put there, `crossed` for whom somebody else has moved it since, and `misled` to whom a load or
mount returned while the drive was in doubt.

`TapeSpanning` has the session (`session`, `tapes`), tar with its script (`tar`), the loop of
`_backup_with_tar` (`job`) and each request of `provide_next_tape` (`prov`), which reads the state,
writes it, unloads and loads in four steps. The script's `curl ... || true` may be lost, after which
it takes a session that is still `running` for the answer. The names that `tar -v` prints and the answers of `curl` go to pipes that
the loop does not read while tar runs (`backup_engine.py:1114-1143`): once one is full, tar is `blocked` for good (`Blocks`) and its loop goes on polling until the job
is cancelled. `Restore` has the thread of each restore
(`rpc`), its row and its prompt, through plan, load or question, mount, copy and unmount. The plan is made outside the `try`
(`advanced_restore.py:167`), so a row may stay pending; a destination that is refused leaves the loop over the files and fails the
restore after its unmount (`abort`). `Confirm` is the
operator's `confirm_tape`, which loads before it looks at the prompt; it also stands for a command of anyone that is carried out after
its time-out. `DriveUsers` composes them: each step is of one
and leaves the other's variables, and a restart takes all threads.

## 3. Runs, bounds, fairness

| run | expects | what it shows |
|---|---|---|
| `safe` | pass | the invariants of `JobEngine`: a job for drive 0 with one resume, perhaps created with a scheduled time, a job of the auto queue, an initialisation, a restart |
| `live` | pass | jobs conclude, cancellations take effect and final statuses stay: two jobs for one drive, one of the auto queue that may go away with the drive's lock, and an initialisation |
| `contract` | pass | `StreamingPipeline` implements `StreamContract`, and the second run starts clean |
| `faults` | pass | after a full disk, a failing drive and a failing database in the first run, the second run's tape and the records are right, and a run ends unless it stalls |
| `stall` | violation | a producer blocks with the lock the consumer needs |
| `plan` | pass | snapshot, catalog, usage and plan over two jobs |
| `gap` | violation | a file that failed once is never backed up |
| `library` | pass | the records of `TapeController` under refusals, time-outs, late moves, an operator's moves and restarts |
| `database` | pass | shared and lost connections, imports and audit entries of `Database`, with a connection that dies |
| `requests` | pass | what a bulk wipe and a format in one drive erase, and what the rows say, under refused commands, moves, locks, cancellations and a restart |
| `joblib` | pass | a job and an initialisation on the library: the lock gives the drive one user, and the files reach the job's tape |
| `drives` | pass | a spanned backup, a restore, an operator and a confirmation on one drive: who works on which tape, and who comes to an end |

Bounds. `MaxResume`, `MaxFiles` and `MaxRestarts` limit requests, files of a plan and
restarts of `JobEngine`: one file gives every control point of the file loop, a
second attempt gives two workers of one job, and a restart may fall on any state.
Two workers of one job, a second job and an initialisation are the users that can
meet at a drive; the theorems hold for any number. The `live` run
has three jobs, of which one is of the auto queue and may be cancelled with the lock in its hands, and one may be created without a
thread; two can wait for the drive at once. It has no resume or restart (they would only
add workers). In `StreamingPipeline` four files for two producers exceed the queue of two in every
run, and one is as big as the byte limit or differs in size when it is staged: in `contract` and `faults` the length, the byte limit and the
consumer's threshold all bind. `contract` claims safety only; `faults` has the stalls, and `EveryRunEnds` excepts exactly these.
In `ArchiveContents` two paths, contents of sizes 2 and 3 and tapes of capacity 3 give renames, overwritten
paths, files that do not fit, full tapes and a second tape with the same content; `MaxEdits` (1), `MaxJobs` (2) and
`MaxEvents` limit how often each event happens. `MaxEvents` counts cancellations, exceptions, crashes, failures of tape and
database, erasures, inventory changes and rescans together: 2 in `plan`, so that any two of them meet, and none in `gap`, which shows
that the gap needs only one file that cannot be read. Two jobs are the
least for an incremental plan. In `TapeController` two tapes, two slots
and a drive are the least with which a home slot can be occupied, the drive be full, and a
record name the wrong tape; more drives would only add calls that the first drive's
record does not depend on, which the theorems of section 5 state for any
number. Its tapes are symmetric: the properties and actions name none, and
no liveness is checked there; those of `plan` and `gap` are too. `database` has three threads for two connections, so that one
waits, dies or replaces while the others hold; four connection objects allow each of two to be
replaced; two imports of two files are the least that can mix on a connection and be partial.
`MaxAudit` counts entries per run. Requests and connections are symmetric there; no other run
uses symmetry. `requests` has a request with two tapes, one of which the other request
names too, and only that tape may be locked (`Lockable`), since it is the one that both checks and both threads meet; every load and unload of theirs may be refused, so one move of others (`MaxMoves`) is enough for records that differ from the drive in any way. `joblib`
has one job that may be cancelled, one initialisation for another tape, two slots, an operator who
moves tapes at any time and a restart: the least with which the drive changes hands while tapes move.
Its commands succeed or are refused when they cannot be carried out; time-outs and late moves are in `library` and, for the
composition, in the theorems, which also have any number of jobs. `drives`
has a backup of two volumes, a restore of both tapes in the other order, one providing request and one confirmation: each pair of
users can meet at the drive. Two providing requests that pass the same check are in the theorems only, which have any number; with them the
liveness check takes too long.

Deadlock is checked in `TapeController`, where a restart is always possible,
and nowhere else: jobs are finite and the operator may do nothing.

Exceptions. A property with an exception says what the code can know. `doubt` has the
drives whose last command was refused or timed out, or on which a call was under way when
somebody else moved a tape; a command that succeeds, or a status read with the arm
at rest that agrees with the remembered slot, takes a drive out. `RecordIsRight`,
`UsesItsTape` and `HomeIsFree` hold for the first drive outside `doubt`, through any
number of other events; that a mount always ends on the tape asked for does not hold
(section 4).
`HomeIsFree` also excepts slots in `taken`, since an operator or a load elsewhere may use
a slot that is remembered. Other drives than the first have no such property: the status
their calls rely on is the first drive's. `OnlyLeaksLose` excepts the connections of background
threads, `ImportsAreWhole` imports that failed, `SerialAuditVerifies` entries made at the same time
or from a dict. In `TapeRequests` a request is misled if others moved tapes in its drive since the mount (`strayed`), or if a command
for its drive was refused or timed out (`doubt`); a tape that is locked after its check is `late`; a tape is `unsure` when its
erase timed out or was that of a misled request. `SessionIsRight` and `RestoresFromItsTape` except users that were
`crossed`, and those that a refused or late command `misled`; the first also a lost request of the script and one that was under way when the job ended.
`UsageIsRight` excepts tapes in `stale` and counts apart what broken or unrecorded copies left (`drift`): the code has no
record of these bytes.
`UnlockedDrivesIdle` and `CopiesToItsTape` except stolen locks, and the second also `doubt`. `RunningHasWorker` excepts a job with a scheduled
time that has no thread. `FinalStaysFinal` excepts
a pause request that read the status before the job ended, `failed` written by the job's own worker when the work after the final status
raises, and jobs whose source the autopilot watches: those it
sets to error, after which they may be resumed.

The progress properties name what keeps the code from ending. `EveryJobConcludes`: a pause, which nothing ends (`resume_job` is
called for status `paused`, which no code writes); drive 0's lock in the hands of a cancelled job of the auto queue (`LockLost`), behind which every
later job waits for ever; a scheduled time, for which nothing starts a thread; and initialisations without end, since a lock's waiters are in no queue.
`CancelTakesEffect`: the file loop's pause loop, which does not look at the
cancel event. `EveryRunEnds`: the two stalls, which `StallsLast` proves to be for good, and runs with a full staging disk.
`EverybodyEnds`: a tar that stands before a full pipe and that nobody cancels, a restore whose plan raised something, and one whose thread a
restart took. All of these are behaviour of the code.

Fairness. `JobEngine!FairSpec` has weak fairness for each worker's steps: threads are
scheduled. Acquisition needs no strong fairness in the instance checked: each
job starts once, and `EveryJobConcludes` supposes that initialisations come to an end. Operator, autopilot and routes are not
fair: nobody has to cancel, resume or escalate. `StreamingPipeline!FairSpec` is the same
for the run thread, producers and consumer; whether a full staging disk gets room again is nobody's promise, so `EveryRunEnds` leaves out
the runs of `FullDisk`. `DriveUsers!FairSpec` has weak fairness for tar, its script
and the loop that watches them together, and for each restore's thread; tar's part of it ends where a pipe is full, which may be at any volume or request. Operators need not provide or
confirm anything, since script and restore give up after an hour. `TapeController`, `Database` and
`TapeRequests` claim no progress and have no fairness: a request thread that waits for
the library waits as long as it takes.

## 4. What the model found

Confirmed by runs (PROJECT.json quotes the documents):

* `stall`: `queue.put` under `queue_lock` deadlocks the pipeline.
* `gap`: a file that failed is in the snapshot and is skipped from then on.

Proved (section 5):

* `mt` and `mkltfs` get the first drive's device (`tape_controller.py:1989`, `:1217`), whatever drive the request names: `OtherDrivesSpared`. A wipe in a second drive erases the tape in the first and reports its own as empty. The docstring of `wipe_tape` speaks of the "Tape barcode to wipe" and the "Drive index to use" (`tape_controller.py:1352`).
* `mount_ltfs` gives `ltfs` the first drive's device too, if discovery found one (`tape_controller.py:1507`). Then a job on another drive writes to the tape in the first one, and jobs on two drives (with locks not stolen) never copy at the same time: `OneJobCopies`, from `OneFileSystemMounted`. The repository's README (line 25) promises "parallel drive operations".
* A consumer that cannot load its tape, one that waits for `safety_threshold_gb` while the producers wait for `max_queue_files` or find the next file too big for the queue, and the deadlock of `stall` leave a run waiting for ever: `StallsLast`.
* What `gap` shows lasts until the file changes, a full backup begins, or another file of the same content is recorded: `GapsLast`.

Seen while reading, and modelled as the code has it, without a run of their own:

* A job cancelled while it waits for a drive releases the lock of the job that has it (`backup_engine.py:1081`); `stolen` in `JobEngine` is the history of it.
* The autopilot sets a running job to `error`, a resume request passes its check, the job completes, and the resume sets it back to running.
* `_run_mtx_command` returns before it looks at the return code (`tape_controller.py:1900`): a refused unload or load counts as done. `mount_ltfs` then hands out the old tape for the new barcode, a wipe or format erases the tape that stayed in the drive, also one under a WORM lock, tar writes its next volume to the full tape, and a restore reads the files of another tape. `doubt` and `misled` are the histories of it.
* A mount that fails after its load resets the tape's usage to 0 (`backup_engine.py:1553`, `:1714`), and a reset of the row while a job is at the tape is overwritten when it leaves.
* The work after a job's final status has no handler: an exception there turns `completed` into `failed` (`backup_engine.py:1800`, `:1065`).
* Nothing starts a job that was created with a scheduled time (`job_service.py:181`).
* `_backup_with_tar` does not read the pipes of `tar -v` while tar runs: a long list of files fills one, and the job never ends (`backup_engine.py:1114`).
* `plan_restore` is called outside the `try`, so a restore whose plan raises stays `pending` (`advanced_restore.py:167`).
* `load_tape` for another drive returns at once if its tape is in the first one, and records it for the drive it was called for (`tape_controller.py:805`).
* An inventory scan writes its old status over a mark `in_use` (`database.py:1215`); `tape_service.py` says that the overlay avoids this.
* After a rescan a file of that tape has no record with a checksum: the next plan counts it as one that no tape ever had, and skips it even if the tape is no longer in the inventory.
* An import of a catalog that fails calls `db.rollback()`, which `Database` does not have; `save_audit_verification_result` names a column that does not exist, so `GET /api/audit/verify` always fails.
* Two audit entries made at once name the same row before them, and verification calls the log tampered with.
* Background threads never return their connections, so a pool can run out (`database.py:75` says they are released).
* The wipe routes report that a cancellation waits for a safe stop; no thread reads the flag. A format cannot be cancelled.
* Initialisation by the asynchronous route ends in a `NameError` (`_create_internal_job`, `lto_backend_main.py:4347`).
* A spanned backup starts on whatever tape is in the drive, its row never gets a final status, and all its files are catalogued under the first tape of its list.
* `provide_next_tape` does not check that the tape is a new one; a request of the script that is lost while the session says `running` lets tar go on with the full tape.
* A restore is `completed` even if every file failed; its row stays as it is after a restart; `confirm_tape` loads before it checks that anybody asked; `unmount_ltfs` unmounts what others have mounted.
* A streaming run never ends as completed (`update_job_status` gets arguments it does not have).
* Runs on two drives share one queue: a tape can get the files of the other job.
* Compressed or encrypted staged files survive `_cleanup_staging`.
* A job of the auto queue always fails; one that is cancelled there can keep drive 0's lock.
* Initialising or wiping a tape leaves its catalog records; the wipe route takes no drive lock.
* `add_tape` resets `used_bytes`; jobs whose status is `queued` or `waiting_for_drive` are not cleaned up at start.
* After an unload that timed out, a status that cannot be read counts as an empty drive (`_confirm_drive_unloaded`).
* The error handling of `_run_mtx_command` follows its `return`, so neither the library's error state nor the correction of the changer device is reached from there.
* `move_tape` takes no drive lock, and its routes pass no barcode, so `mounted_tapes` is not updated by a move into a drive.
* The force-unload route calls `force_unload`, which the controller does not have (`force_unload_tape`).
* `backup_engine.py:1795` passes the barcode for the drive in `unload_tape(barcode, drive)`; the handler around it takes the error for a failed clean-up.
* `docs/CONFIGURATION.md:87` gives `drive_slot` as the default order of `mtx unload`; the controller's default is `slot_drive`.
* `test_renamed_file_same_hash_skipped` expects a reason that `compute_incremental_plan` never gives.

## 5. Proofs

`JobEngineProofs` proves, for all values of the constants that satisfy
`EngineAssumption` (the tables map jobs and requests to drives and tapes; the bounds are
numbers; -1 is no drive), with no bound on jobs, drives, tapes or workers:

| theorem | property | argument |
|---|---|---|
| `TypeCorrect` | `TypeOK` | inductive with `Copying`: a worker about to copy has a file left |
| `RunningJobsConclude` | `RunningHasWorker` | inductive with `Typed`: whoever writes running is itself a worker that will conclude; restart and every other write give statuses outside the claim; a pending row without a thread is one with a scheduled time |
| `OnlyStolenDrivesAreShared` | `SharedOnlyIfStolen` | relative to `Threads` |
| `LocksHaveOwners` | `NoOrphanLock` | relative to `Threads` |
| `LoadedTapesMarked` | `LoadedTapeInUse` | relative to `Threads` and `SharedOnlyIfStolen` |
| `TapesHaveOneUser` | | from `SharedOnlyIfStolen`: locks on drives keep the users of one tape apart, if they name the same drive |
| `FinalStatusStays` | `FinalStaysFinal` | `OneWorkerEach`: only watched jobs are escalated, so no other job is ever resumed, and its one worker has written its final status last, or may still turn it into failed before its `finally` |
| `UndisturbedDrivesExclusive` | | `StolenByDisturbed`: a drive none of whose jobs is cancellable or watched is never stolen, so it has one user at a time without exception |

None of the lock properties is inductive alone: that a worker releases its own lock
depends on its local `drive` being the one it locked. `Threads` says so: a worker's
`drive` is its job's or, once the auto queue recorded another, 0 and the worker is at its end
(`OneDrive`); -1 only in the auto queue (`AutoOnly`); a worker between acquisition and
cleanup holds its lock, and a finished one holds none except the cancelled worker of
the auto queue (`Holding`); only jobs with checkpoints are resumed, and none of them is
of the auto queue (`Resumed`). Each step lemma has one step per action.

`LoadedTapeInUse` and `TapesHaveOneUser` assume that users of a tape use one drive (`TapesKeepToDrive`), a
fact of the library and not of the code.

`ArchiveContentsProofs` proves, from `ArchiveAssumption` (`NoFile` and `Partial` are no versions, sizes and
capacity are numbers), for any backup sets, paths, contents and tapes, and whatever
the bounds on edits, jobs, crashes, erasures and inventory changes are:

| theorem | property | argument |
|---|---|---|
| `TypeCorrect` | `TypeOK` | inductive with `Shape`: a running job has its set and tape, `record` has a copied file, and what is planned is in the scan |
| `CatalogStaysTrue` | `CatalogIsTrue` | with `CopyIsOnTape`: between copy and record the tape has what will be recorded |
| `UsageStaysRight` | `UsageIsRight` (`UsageIsExact`, `WithinCapacity`) | `UsageInv`, for a tape that is not `stale`: `spent` less `drift` is `used` plus what the job at it wrote and has not yet counted (`Uncounted`); the usage the job read at the load is still the row's, its room no more than capacity less usage, and a copy starts only if the file fits |
| `SnapshotsAreCovered` | `GapsWerePlanned` | with `LeftOutAsKnown`: what a plan left out has the content of the set's last snapshot |
| `PlansAreSound` | `SkipsWhatIsThere` | an action property, from `GapsWerePlanned` before the plan and the test of the tape's rows in `compute_incremental_plan` |
| `SnapshotsAreOnTape` | | `GapsWerePlanned` and `CatalogIsTrue` together: from the snapshot by the catalog to a tape that has the content |
| `GapsLast` | | an action property: `Gap` (a file in source and snapshot whose content no record names) is left by no step but those of `Mends` |

`CatalogIsTrue` alone is not inductive because `Record` writes a row about a copy made
a step before; `UsageIsExact` because usage is written only when the job leaves its tape, from a value read when it came;
`GapsWerePlanned` because `Finish` makes the scan the snapshot, the files left out
included. `SkipsWhatIsThere` is what holds; the unconditional `MissingIsPlanned` is
refuted by the run `gap`, and by `GapsLast` no later incremental job makes up for it.

`TapeControllerProofs` proves, from `LibraryAssumption` (slots and drives have different
numbers, the first drive is a drive, `NoTape` and `NoSlot` are neither), for any tapes, slots and
drives, with or without faults and interference:

| theorem | property | argument |
|---|---|---|
| `TypeCorrect` | `TypeOK` | inductive as `Typed`: a place holds one tape, the target of a pending move stays free (`LibraryOK`); a call knows its tape and an unload its slot (`CallsOK`) |
| `RecordCorrect` | `RecordIsRight` | with `ArmInDoubt`: a move that the arm may still make to or from the first drive leaves it in doubt |
| `UsesCorrect` | `UsesItsTape` | with `MountsHold`: a mounted tape stays in its drive; and `MountKnows`: a mount that goes on after its load has its tape recorded |
| `HomeCorrect` | `HomeIsFree` | with `OriginFree`: the slot the drive's tape came from is free or taken since; and `HomeIsOrigin`: what is remembered for that tape is this slot |
| `ImplementsFirstDrive` | | `FD` instantiates `FirstDrive` with the tape in the first drive and its file system; by `StepKinds` and `MountsHold` each step is one of its two (`Gets`, `Mounts`) or leaves both alone |
| `OneFileSystemMounted` | | if `drive_sg` was found; `MountsInDevice`: what is mounted is in the drive whose device `ltfs` got, and `MountedOnce` |

`RecordIsRight` alone is not inductive because of the arm: a late move changes the
drive long after the record was written. `UsesItsTape` needs the record at the mount,
several steps before the use, and the lock that LTFS puts on the medium after it.
`HomeIsFree` compares the memory with the library only through the status it was
read from. The lemmas follow this: `StepKinds` says that each step either leaves the library
alone, is the arm's, or is one command, so that what concerns only the library is proved
once per kind and not once per action; `OthersRecord` says what calls on other drives leave of
the first drive's record. `ImplementsFirstDrive` is what joins this module to `DriveUsers`, whose spanning jobs and restores
work on `FirstDrive`: a load there is one step that exchanges the tape, here an unload and a load, and the
theorem says that neither these, refused or late, nor the operator's moves do anything to tape and file system that `FirstDrive` does not have.
It does not relate the records and the outcomes of the calls: those of `FirstDrive` are translated from the code like the rest.

`JobsOnLibraryProofs` proves, from the assumptions of `JobEngine` and `ShelfAssumption` (the library's), for any jobs, initialisations, drives, tapes and slots, with or without
faults and interference:

| theorem | property | argument |
|---|---|---|
| `ImplementsEngine` | `JobEngine!Spec` | every step is one of the engine or leaves its variables alone |
| `ImplementsController` | `TapeController!Spec` | likewise: what workers and initialisations call is what the controller expects |
| `LocksProtectDrives` | `UnlockedDrivesIdle` | `DrivesServe`: a drive that is not idle has a lock holder with calls to make, and the one of a worker that copies serves the mount it made |
| `FilesReachTheirTape` | `CopiesToItsTape` | `DrivesServe`, with `UsesItsTape` and `MountsHold` of the controller |
| `OneJobCopies` | | if `drive_sg` was found; `DrivesServe` and `OneFileSystemMounted`: a worker that copies has something mounted (`UsersMounted`), and it is the tape in the first drive |

The two refinements bring all that is proved of the components into the composition (`JobsInv`), so that
`DrivesServe` is the only new invariant: neither component can state it, since the engine has no calls and the controller
no locks. Its proof needs that a worker keeps drive and lock from load to release (`WorkerOnly`) and that no other call is on its drive
(`CallsStayOnDrive`). A drive is excepted from the moment its lock was released for another.

`StreamingPipelineProofs` proves, from `PipelineAssumption`, for any runs, files, producers, limits and drives,
and with the faults of any of the runs:

| theorem | property | argument |
|---|---|---|
| `TypeCorrect` | `TypeOK` | inductive with `Control`: who is active, what a consumer has in its hand by where it is, the lock is with a producer that puts |
| `SizeStaysExact` | `SizeCounterExact` | with `Counting`: a file is in one place at a time (with a producer, once in the queue, or in one hand), so what a step adds to the counter is the units (`Units`) of a file not yet counted |
| `TapesGetOwnFiles` | `OwnFilesOnly` | on one drive, runs follow one another (`OneByOne`), and what a consumer takes from the staging directory is what its own run put there |
| `RecordsKept` | `NoRecordLost` | a record is in the buffer before the file leaves the hand, and leaves the buffer only when the rows are committed |
| `StallsLast` | | on one drive `Stalled` is kept by every step: `StalledFull` (the queue full, the consumer ended or at a lock that a producer keeps, the run waiting for a producer without room or to put its sentinel) and `StalledFetching` (the consumer short of its threshold, every producer at a full queue) |

A producer takes the least of its files, a `CHOOSE`; `Least` shows that there is one.

Its second part assumes `Healthy` (one drive, no full staging disk, no failing drive) and proves
`RunsKeepContract`, that every behaviour of the pipeline implements `StreamContract`: each step is a
step of the contract or leaves its two variables alone. It rests on `QueueInv` (the sentinel
is the last item of its run) and `FileInv` (a file that is not `Faulty` is with its producer, in the queue, in the hand, or on the
tape), so that a run which ends has everything on its tape; and a file still to be written is on no tape, so that none is written twice. `CleanAfterRuns` (`CleanBetweenRuns`) assumes in addition that no
insert fails. Without these assumptions the code does not keep the contract.

`DatabaseProofs` proves, from `PoolAssumption` and `DatabaseAssumption`, for any threads, connections, sizes and bounds:

| theorem | property | argument |
|---|---|---|
| `PoolStaysSound`, `OnlyUnreleasedAreLost` | `PoolIsSound` (`NoSharedConnection`, `PoolBounded`), `OnlyLeaksLose` | `PoolInv`: a step leaves the set of connections in use as it is, makes it smaller, replaces one, or adds one below the limit; a thread inside `get_connection` has none (`Asking`) |
| `TypeCorrect` | `TypeOK` | part of `ImportInv` |
| `ImportsStayWhole` | `ImportsAreWhole` | `Owned`: an uncommitted row is of a failed import or of the thread that has the connection; `Pending`: the rows of an import under way are the first so many of its files, none of them committed |
| `OneWriterAtATime` | (`OneWriter`, in no run) | `SingleWriter` and `Owned` |
| `SerialAuditsVerify` | `SerialAuditVerifies` | `SerialChain`: without an overlap what the one entry under way has read is the end of the log |

`TapeRequestsProofs` proves, from `RequestsAssumption`, for any tapes, drives and requests:

| theorem | property | argument |
|---|---|---|
| `TypeCorrect` | `TypeOK` | inductive |
| `RowsCorrect` | `RowsTellOfThreads` | inductive with the statuses a thread may find its row in |
| `NamedTapesErased` | `ErasesTheNamedTape` | assumes `SameDevice` (each request's erase acts on the drive it names); `MountInv`: from mount to reset the tape is in the drive, or the request is misled; with `RecordInv`: the record of a drive that is not in doubt is right |
| `LockedTapesSafe` | `LockedTapesKeepData` | under the same assumption, with: a locked tape at `mount` or `erase` is `late`, so one that is not falls only to a misled request |
| `EmptyRowsRight` | `EmptyRowsAreEmpty` | under the same assumption, with `ErasedInv`: between erase and reset the tape is empty or `unsure` |
| `OtherDrivesSpared` | | without that assumption: an erase for another drive, by a request that is not misled, takes the data of the tape in the first drive and never those of its own (`OnePlace`: a tape is in one drive). `load_tape` judges by the first drive's status: a request for another drive whose tape is in the first is in doubt, and does erase its own |

The code meets `SameDevice` only for requests that name the first drive; what it does for others is `OtherDrivesSpared`.

`DriveUsersProofs` proves, from the assumptions of the three modules and `UsersAssumption` (job, restores,
providers and operators are different users), for any plans, volumes, requests and restarts:

| theorem | property | argument |
|---|---|---|
| `TypeCorrect` | `TypeOK` | inductive with `Shape`: tar runs for a job that watches it and has volumes left |
| `SessionsAreRight` | `SessionIsRight` | `VolumesInv`: while tar may write a further volume, and when the script finds the session running, the tape in the drive is one that a request provided and the job relies on it, unless crossed or misled; `NothingUnderWay`: what no request outlives stays ended |
| `RestoresAreRight` | `RestoresFromItsTape` | `CopiesFromItsTape`: from its mount to its copy a restore has its tape in the drive, unless crossed or misled; with `RecordKnown`: a record that is not in doubt names the tape in the drive |

`MovesCross` and `MountCrosses` are the lemmas behind both: whoever moves a tape crosses all who rely on it.

Only model-checked: the liveness properties (`EveryJobConcludes`, `CancelTakesEffect`, `EveryRunEnds`,
`EverybodyEnds`), for which the prover has no rule for fairness and ENABLED here.

## 6. What is not modelled

* I/O: sources, LTFS, `mtx`, SMB. A step may fail where the code handles a failure.
* Progress, logs, webhooks, events to the UI, statistics and rates.
* Hardware encryption, compression and verification of a file: part of "a file is copied or fails". `ArchiveContents` counts the sizes that the scan lists against those of the files copied; with compression or encryption what is on the tape has another size again, which no usage counts.
* Jobs with several tapes in the file-by-file flow (the tar flow is `TapeSpanning`), and where in the list of files a resumed worker starts. A resumed job counts what it wrote before a second time if the first worker's `finally` has counted it already (`backup_engine.py:1606`, `:1714`).
* Duplication: the engine reads `self.duplication_engine`, an attribute that it does not have.
* The scheduler: no execution is reachable. `_load_schedules` reads `cron_expression` from rows whose column is `cron`, the routes call `reload_schedules`, which does not exist, and `run_now` has no caller.
* `execute_archival_policy`: it passes a job id for a backup set and deletes nothing.
* Reclaim, verification, diagnostics: sequential, without shared state beyond the job rows. Several fail at once: `TapeReclaimService` inserts columns that do not exist, `VerificationService` passes arguments that `update_job_status` does not have, the manual diagnostics use `current_app` in a thread.
* Of catalog rebuild and external backup: reading, signing and writing the file. The result of the signature check is ignored.
* `TapeSpanningManager.wait_for_tape` and its event: no caller. Pausing tar (SIGSTOP and SIGCONT).
* Errors of the database when a restore writes its status after the plan, and the looks for a restore's status `cancelled`, which nothing writes.
* The expiry of WORM locks, and the database error after which `is_tape_locked` says no.
* Of the controller: drives without a changer (drive-only mode), mail slots, tapes without a label, the status cache (its age is bounded by a cool-down), tape alerts and error states. `force_unload_tape` has no caller that reaches it, and `recover_library` is called without `force_unload`.
* Authentication, settings, notifications, frontend, scripts.

## 7. What could come next

* The streaming pipeline's consumer on the library, as `JobsOnLibrary` has the file-by-file worker.
* Progress of the composition: that a job whose calls return concludes, from the fairness of both components.
* Resume in `ArchiveContents`: the position in the list of files and the usage of a second worker.
* An abstract library as the specification of `TapeController` (a mount names the tape it gives), once refused commands are noticed.
* Two drives in `StreamingPipeline`: what the files of two runs on one queue should keep needs a queue per run first.
