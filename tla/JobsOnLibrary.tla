---------------------------- MODULE JobsOnLibrary ----------------------------
(***************************************************************************)
(* The jobs of JobEngine on the library of TapeController: which calls of  *)
(* the controller a worker or a tape initialisation makes at which point   *)
(* of its life, on the drive whose lock it took. TapeController takes it   *)
(* for granted that a drive has one user at a time; here the locks have to *)
(* provide it.                                                             *)
(*                                                                         *)
(* The engine's step comes when the controller has done what the step      *)
(* waits for: a tape is loaded with the mount that follows the load, and   *)
(* what a worker tells the engine when it leaves a tape comes before its   *)
(* unmount and unload. A mark in_use is thereby shorter than the program's, *)
(* which only lets more requests through. Calls on one drive come one      *)
(* after the other also when the drive was stolen.                         *)
(***************************************************************************)
EXTENDS JobEngine

CONSTANTS
  Slots,       \* storage elements
  NoTape, NoSlot,
  HasDriveSg,  \* drive_sg was found
  Faulty,      \* commands may time out
  Meddling     \* the operator may move tapes during a call

ASSUME ShelfAssumption ==
  /\ Slots \subseteq Nat
  /\ Slots \cap Drives = {}
  /\ NoTape \notin Tapes
  /\ NoSlot \notin Slots \cup Drives
  /\ {HasDriveSg, Faulty, Meddling} \subseteq BOOLEAN

VARIABLES
  at, arm, origin, taken,  \* the library
  fs,                      \* what is mounted at each drive's mount point
  mounted, home,           \* the controller's records
  stage, call,             \* the call on each drive: TapeController's pc and call
  doubt                    \* drives the controller cannot know about

\* The controller, with what is proved of it.
Lib == INSTANCE TapeControllerProofs WITH pc <- stage

libraryVars == <<at, arm, origin, taken, fs, mounted, home, stage, call, doubt>>
all == <<vars, libraryVars>>

JobsInit == Init /\ Lib!Init

-----------------------------------------------------------------------------
(* Users of the controller                                                 *)

\* A worker with a lock of its own. The auto queue's has no drive number to call with.
HasDrive(w) == w \in holds /\ drive[w] \in Drives

\* Load and mount at the head of the tape loop, unmount and unload in its finally clause, and
\* unmount once more in the cleanup, whose unload_tape names a drive that does not exist.
Calling(w) == HasDrive(w) /\ pc[w] \in {"load", "final", "cleanup", "ended"}

\* mount_ltfs is called when load_tape has returned, with the tape recorded.
WorkerCalls(w) ==
  LET d == drive[w]
      t == TapeOf[JobOf(w)] IN
  /\ Calling(w)
  /\ \/ pc[w] = "load" /\ Lib!Call(d, "load", t)
     \/ pc[w] = "load" /\ mounted[d] = t /\ Lib!Call(d, "mount", t)
     \/ pc[w] # "cleanup" /\ Lib!Call(d, "unload", NoTape)
     \/ Lib!Unmount(d)
  /\ UNCHANGED vars

\* load_tape, format_tape (which loads if need be and unmounts), the metadata's mount and
\* unmount, and the final unload.
OpCalls(o) ==
  LET d == OpDrive[o] IN
  /\ op[o] = "busy"
  /\ \/ \E goal \in {"load", "mount"} : Lib!Call(d, goal, OpTape[o])
     \/ Lib!Call(d, "unload", NoTape)
     \/ Lib!Unmount(d)
  /\ UNCHANGED vars

-----------------------------------------------------------------------------
(* Steps of the engine                                                     *)

\* What the engine's step waits for: the mount that makes it a worker that copies, else the
\* return of the calls.
Awaited(w) ==
  IF pc[w] = "load" /\ pc'[w] = "file"
  THEN stage[drive[w]] = "using" /\ call[drive[w]].tape = TapeOf[JobOf(w)]
  ELSE stage[drive[w]] = "idle"

\* Mutant of WorkerGoesOn: the lock is released without waiting for the unload.
ReleasesAtOnce(w) ==
  /\ WorkerStep(w)
  /\ Calling(w) => Awaited(w) \/ pc[w] = "ended"
  /\ UNCHANGED libraryVars

\* A load or a mount that raised makes the load fail; a worker that has left its tape goes on
\* when it is unloaded, or the unload has failed.
WorkerGoesOn(w) ==
  /\ WorkerStep(w)
  /\ Calling(w) => Awaited(w)
  /\ UNCHANGED libraryVars

OpGoesOn(o) ==
  /\ OpStep(o)
  /\ op[o] = "busy" => stage[OpDrive[o]] = "idle"
  /\ UNCHANGED libraryVars

Elsewhere == (OperatorStep \/ AutopilotStep \/ ScanInventory) /\ UNCHANGED libraryVars

\* The controller goes on with its calls, the arm completes a move, tapes are moved.
CallGoesOn(d) ==
  \/ Lib!LoadStatus(d) \/ Lib!LoadScan(d) \/ Lib!LoadIssue(d) \/ Lib!LoadConfirm(d)
  \/ Lib!UnloadCheck(d) \/ Lib!UnloadPrepare(d) \/ Lib!UnloadIssue(d) \/ Lib!UnloadConfirm(d)
  \/ Lib!MountCheck(d) \/ Lib!MountDo(d)

LibraryGoesOn ==
  /\ (\E d \in Drives : CallGoesOn(d)) \/ Lib!ArmStops \/ Lib!Operator
  /\ UNCHANGED vars

\* One process: the jobs and the controller restart together.
RestartAll == Restart /\ Lib!Restart

JobsNext ==
  \/ \E w \in Workers : WorkerGoesOn(w) \/ WorkerCalls(w)
  \/ \E o \in Ops : OpGoesOn(o) \/ OpCalls(o)
  \/ Elsewhere \/ LibraryGoesOn \/ RestartAll

JobsSpec == JobsInit /\ [][JobsNext]_all

-----------------------------------------------------------------------------
(* Properties                                                              *)

\* What TapeController takes for granted and the locks have to provide: a drive whose lock
\* is not held has no call under way and nobody's file system in use, so whoever gets the
\* lock next starts from an idle drive. A stolen lock is the exception.
UnlockedDrivesIdle ==
  \A d \in Drives \ stolen : lock[d] # "held" => stage[d] = "idle"

\* While a worker copies files, what is mounted at the first drive is its job's tape and the
\* tape is in the drive, through the calls of the other jobs and initialisations, scans and
\* restarts. The exceptions are a stolen lock and a drive in doubt (see RecordIsRight).
CopiesToItsTape ==
  \A w \in Workers :
    OnTape(w) /\ drive[w] = FirstDrive /\ FirstDrive \notin stolen \cup doubt =>
      /\ fs[FirstDrive] = TapeOf[JobOf(w)]
      /\ at[TapeOf[JobOf(w)]] = FirstDrive

=============================================================================
