-------------------------------- MODULE Restore --------------------------------
(***************************************************************************)
(* Restores (advanced_restore.py, restore_service.py): the thread of each  *)
(* goes through the tapes of its plan, loads or asks for the tape, mounts  *)
(* it, copies the files it can and unmounts. It works on the first drive   *)
(* without its lock, and so does an operator who confirms a tape. Nothing  *)
(* writes the status cancelled, so the looks for it are left out; the      *)
(* files of one tape are one copy, which may fail and is then only logged. *)
(***************************************************************************)
EXTENDS FirstDrive, Integers, Sequences

CONSTANTS
  Restores,
  Needs,             \* the tapes of each restore's files, in the order of its plan
  MaxConfirms,       \* bound on the operators' confirmations
  MaxRestoreRestarts \* bound on restarts of the service

ASSUME RestoreAssumption ==
  /\ Needs \in [Restores -> Seq(Tapes) \ {<<>>}]
  /\ MaxConfirms \in Nat
  /\ MaxRestoreRestarts \in Nat

VARIABLES
  row,       \* status in restore_jobs
  rpc,       \* where each thread is
  nth,       \* the tape of its plan it is at
  prompts,   \* active_prompts
  copied,    \* the tape that the files each has just copied came from
  confirms, restarts,
  orphans    \* restores whose thread ended in a restart

restores == <<row, rpc, nth, prompts, copied, confirms, restarts, orphans>>

Threads == {"plan", "tape", "wait", "poll", "ready", "mount", "copy", "unmount", "abort"}
Ended   == {"completed", "failed"}

TapeOf(r) == Needs[r][nth[r]]

RestoreInit ==
  /\ row = [r \in Restores |-> "none"]
  /\ rpc = [r \in Restores |-> "none"]
  /\ nth = [r \in Restores |-> 1]
  /\ prompts = [r \in Restores |-> NoTape]
  /\ copied = [r \in Restores |-> NoTape]
  /\ confirms = 0 /\ restarts = 0 /\ orphans = {}

At(r, to)     == rpc' = [rpc EXCEPT ![r] = to]
Status(r, s)  == row' = [row EXCEPT ![r] = s]
Prompt(r, t)  == prompts' = [prompts EXCEPT ![r] = t]
Fail(r)       == Status(r, "failed") /\ At(r, "done")
Bookkeeping   == <<copied, confirms, restarts, orphans>>

\* The route makes the row and starts the thread.
StartRestore(r) ==
  /\ rpc[r] = "none"
  /\ Status(r, "pending")
  /\ At(r, "plan")
  /\ UNCHANGED <<drive, nth, prompts, Bookkeeping>>

\* The thread plans. Nothing catches what is raised up to the first status it writes: the row
\* stays pending then. A plan without files fails.
PlanRestore(r) ==
  /\ rpc[r] = "plan"
  /\ \/ Status(r, "running") /\ At(r, "tape")
     \/ Fail(r)
     \/ At(r, "done") /\ UNCHANGED row
  /\ UNCHANGED <<drive, nth, prompts, Bookkeeping>>

Present(r) == tape = TapeOf(r)

\* _ensure_tape_loaded: what it raises means that a user has to act.
EnsureLoaded(r) ==
  /\ rpc[r] = "tape"
  /\ \/ /\ Present(r)
        /\ UNCHANGED held
        /\ At(r, "ready")
     \/ /\ ~Present(r)
        /\ LoadReturns(r, TapeOf(r))
        /\ At(r, "ready")
     \/ ~Present(r) /\ LoadRaises(r, TapeOf(r)) /\ At(r, "wait")
  /\ UNCHANGED <<using, misled, row, nth, prompts, Bookkeeping>>

AskForTape(r) ==
  /\ rpc[r] = "wait"
  /\ Status(r, "waiting_for_tape")
  /\ Prompt(r, TapeOf(r))
  /\ At(r, "poll")
  /\ UNCHANGED <<drive, nth, Bookkeeping>>

\* Mutant of GivesUp: the thread waits for ever.
NeverGivesUp == FALSE

\* After an hour.
GivesUp == TRUE

\* _wait_for_tape_ready looks at the drive, not at the confirmation.
PollTape(r) ==
  /\ rpc[r] = "poll"
  /\ Prompt(r, NoTape)
  /\ \/ Present(r) /\ At(r, "ready") /\ UNCHANGED row
     \/ GivesUp /\ Fail(r)
  /\ UNCHANGED <<drive, nth, Bookkeeping>>

Resume(r) ==
  /\ rpc[r] = "ready"
  /\ Status(r, "running")
  /\ At(r, "mount")
  /\ UNCHANGED <<drive, nth, prompts, Bookkeeping>>

\* A mount that fails ends the restore.
MountTape(r) ==
  /\ rpc[r] = "mount"
  /\ \/ MountReturns(r, TapeOf(r)) /\ At(r, "copy") /\ UNCHANGED row
     \/ MountRaises(r, TapeOf(r)) /\ Fail(r) /\ UNCHANGED <<using, misled>>
  /\ UNCHANGED <<nth, prompts, Bookkeeping>>

\* The files come from what is mounted; without it, or when a copy fails, nothing comes. A
\* destination that cannot be made or is not safe ends the loop, and the restore.
CopyFiles(r) ==
  /\ rpc[r] = "copy"
  /\ \E source \in {NoTape, fs} : copied' = [copied EXCEPT ![r] = source]
  /\ At(r, "unmount") \/ At(r, "abort")
  /\ UNCHANGED <<drive, row, nth, prompts, confirms, restarts, orphans>>

\* unmount_ltfs, and the next tape or the end: completed whatever was copied, unless the
\* loop was left.
Unmount(r) ==
  /\ rpc[r] \in {"unmount", "abort"}
  /\ \/ Unmounts(r)
     \/ UNCHANGED <<tape, fs, recorded, doubt>> /\ crossed' = crossed \ {r}
  /\ Leaves(r)
  /\ copied' = [copied EXCEPT ![r] = NoTape]
  /\ \/ rpc[r] = "abort" /\ Fail(r) /\ UNCHANGED nth
     \/ /\ rpc[r] = "unmount" /\ nth[r] < Len(Needs[r])
        /\ nth' = [nth EXCEPT ![r] = @ + 1] /\ At(r, "tape") /\ UNCHANGED row
     \/ /\ rpc[r] = "unmount" /\ nth[r] = Len(Needs[r])
        /\ Status(r, "completed") /\ At(r, "done") /\ UNCHANGED nth
  /\ UNCHANGED <<prompts, confirms, restarts, orphans>>

\* confirm_tape loads the tape first and looks at the prompt afterwards; an error of the
\* load is ignored. A command of anyone that is carried out after its time-out comes behind
\* everybody's back like this load.
Confirm(r, t) ==
  /\ rpc[r] # "none"
  /\ confirms < MaxConfirms
  /\ confirms' = confirms + 1
  /\ LoadReturns("operator", t) \/ LoadRaises("operator", t)
  /\ UNCHANGED <<using, misled, row, rpc, nth, prompts, copied, restarts, orphans>>

\* The service restarts: no start of it looks at restore_jobs.
RestoresLost ==
  /\ restarts < MaxRestoreRestarts
  /\ restarts' = restarts + 1
  /\ rpc' = [r \in Restores |-> IF rpc[r] \in Threads THEN "done" ELSE rpc[r]]
  /\ orphans' = orphans \cup {r \in Restores : rpc[r] \in Threads}
  /\ prompts' = [r \in Restores |-> NoTape]
  /\ copied' = [r \in Restores |-> NoTape]
  /\ UNCHANGED <<row, nth, confirms>>

ThreadStep(r) ==
  \/ PlanRestore(r) \/ EnsureLoaded(r) \/ AskForTape(r) \/ PollTape(r) \/ Resume(r)
  \/ MountTape(r) \/ CopyFiles(r) \/ Unmount(r)

RestoreStep ==
  \/ \E r \in Restores : StartRestore(r) \/ ThreadStep(r)
  \/ \E r \in Restores, t \in Tapes : Confirm(r, t)

RestoreTypes ==
  /\ row \in [Restores -> {"none", "pending", "running", "waiting_for_tape", "completed", "failed"}]
  /\ rpc \in [Restores -> Threads \cup {"none", "done"}]
  /\ nth \in [Restores -> Nat]
  /\ \A r \in Restores : nth[r] \in 1..Len(Needs[r])
  /\ prompts \in [Restores -> Tapes \cup {NoTape}]
  /\ copied \in [Restores -> Tapes \cup {NoTape}]
  /\ confirms \in 0..MaxConfirms /\ restarts \in 0..MaxRestoreRestarts
  /\ orphans \subseteq Restores

===============================================================================
