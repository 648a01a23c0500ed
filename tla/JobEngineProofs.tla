--------------------------- MODULE JobEngineProofs ---------------------------
(* Proofs about JobEngine, for any set of jobs, drives, tapes and requests.  *)
EXTENDS JobEngine, TLAPS

-----------------------------------------------------------------------------
(* Workers as pairs                                                        *)

LEMMA WorkerJob ==
  /\ \A w \in Workers : JobOf(w) \in Jobs
  /\ \A j \in Jobs : <<j, 0>> \in Workers /\ JobOf(<<j, 0>>) = j /\ IsStart(<<j, 0>>)
BY EngineAssumption DEF Workers, JobOf, IsStart

-----------------------------------------------------------------------------
(* Types                                                                   *)

\* A worker about to copy a file has one left.
Copying == \A w \in Workers : pc[w] \in {"parked", "copy"} => left[w] \in 1 .. MaxFiles

Typed == TypeOK /\ Copying

LEMMA TypedInit == Init => Typed
BY EngineAssumption, WorkerJob
DEF Init, Typed, TypeOK, Copying, Statuses, LockStates, Controls, ThreadLess

LEMMA TypedStep == Typed /\ [Next]_vars => Typed'
<1> SUFFICES ASSUME Typed, [Next]_vars PROVE Typed'
  OBVIOUS
<1> USE EngineAssumption, WorkerJob
<1> USE DEF Typed, TypeOK, Copying, Statuses, LockStates, Controls, ThreadLess,
        BeforeLock, Executing, Closing, Finished, vars, rows, flags, workers, clients,
        history
<1>1. ASSUME NEW w \in Workers, Register(w) PROVE Typed'
  BY <1>1 DEF Register, Step, SetStatus
<1>2. ASSUME NEW w \in Workers, AcquireAtOnce(w) PROVE Typed'
  BY <1>2 DEF AcquireAtOnce, Acquire, Step, SetStatus
<1>3. ASSUME NEW w \in Workers, StartWaiting(w) PROVE Typed'
  BY <1>3 DEF StartWaiting, Step, SetStatus
<1>4. ASSUME NEW w \in Workers, AcquireAfterWait(w) PROVE Typed'
  BY <1>4 DEF AcquireAfterWait, Acquire, Step, SetStatus
<1>5. ASSUME NEW w \in Workers, WaitCancelled(w) PROVE Typed'
  BY <1>5 DEF WaitCancelled, SeesCancel, EndWith, Step, SetStatus, OnTape
<1>6. ASSUME NEW w \in Workers, LostRegistration(w) PROVE Typed'
  BY <1>6 DEF LostRegistration, ReadsFlags, EndWith, Step, SetStatus, OnTape
<1>7. ASSUME NEW w \in Workers, SelectDrive(w) PROVE Typed'
  BY <1>7 DEF SelectDrive, Step
<1>8. ASSUME NEW w \in Workers, SelectCancelled(w) PROVE Typed'
  BY <1>8 DEF SelectCancelled, SeesCancel, EndWith, Step, SetStatus, OnTape
<1>9. ASSUME NEW w \in Workers, RecordSelectedDrive(w) PROVE Typed'
  BY <1>9 DEF RecordSelectedDrive, EndWith, Step, SetStatus, OnTape
<1>10. ASSUME NEW w \in Workers, ScanCancelled(w) PROVE Typed'
  BY <1>10 DEF ScanCancelled, SeesCancel, EndWith, Step, SetStatus, OnTape
<1>11. ASSUME NEW w \in Workers, ScanFailed(w) PROVE Typed'
  BY <1>11 DEF ScanFailed, EndWith, Step, SetStatus, OnTape
<1>12. ASSUME NEW w \in Workers, ScanEmpty(w) PROVE Typed'
  BY <1>12 DEF ScanEmpty, EndWith, Step, SetStatus, OnTape
<1>13. ASSUME NEW w \in Workers, PlanFiles(w) PROVE Typed'
  BY <1>13 DEF PlanFiles, Step, Busy
<1>14. ASSUME NEW w \in Workers, TapeCancelled(w) PROVE Typed'
  BY <1>14 DEF TapeCancelled, SeesCancel, EndWith, Step, SetStatus, OnTape
<1>15. ASSUME NEW w \in Workers, TapeReady(w) PROVE Typed'
  BY <1>15 DEF TapeReady, Step, Busy
<1>16. ASSUME NEW w \in Workers, LoadTape(w) PROVE Typed'
  BY <1>16 DEF LoadTape, Step, Busy
<1>17. ASSUME NEW w \in Workers, LoadFailed(w) PROVE Typed'
  BY <1>17 DEF LoadFailed, Step, Busy
<1>18. ASSUME NEW w \in Workers, LeaveTape(w) PROVE Typed'
  BY <1>18 DEF LeaveTape, Step, Busy
<1>19. ASSUME NEW w \in Workers, NextFile(w) PROVE Typed'
  BY <1>19 DEF NextFile, Step, Busy
<1>20. ASSUME NEW w \in Workers, CopyFile(w) PROVE Typed'
  BY <1>20 DEF CopyFile, MayCopy, Step, Busy
<1>21. ASSUME NEW w \in Workers, Finish(w) PROVE Typed'
  BY <1>21 DEF Finish, Step, SetStatus, Busy
<1>22. ASSUME NEW w \in Workers, CleanUpTapes(w) PROVE Typed'
  BY <1>22 DEF CleanUpTapes, Step, Busy
<1>42. ASSUME NEW w \in Workers, WrapUpFails(w) PROVE Typed'
  BY <1>42 DEF WrapUpFails, Step, SetStatus, Busy
<1>23. ASSUME NEW w \in Workers, Unregister(w) PROVE Typed'
  BY <1>23 DEF Unregister, Step
<1>24. ASSUME NEW w \in Workers, Release(w) PROVE Typed'
  BY <1>24 DEF Release, Step
<1>25. ASSUME NEW j \in Jobs, CreateJob(j) PROVE Typed'
  BY <1>25 DEF CreateJob, Step, SetStatus
<1>26. ASSUME NEW j \in Jobs, Cancel(j) PROVE Typed'
  BY <1>26 DEF Cancel
<1>27. ASSUME NEW j \in Jobs, PauseCheck(j) PROVE Typed'
  BY <1>27 DEF PauseCheck
<1>28. ASSUME NEW j \in Jobs, PauseWrite(j) PROVE Typed'
  BY <1>28 DEF PauseWrite, SetStatus
<1>29. ASSUME NEW w \in Workers, ResumeCheck(w) PROVE Typed'
  BY <1>29 DEF ResumeCheck, CanResume, Resumable, Step
<1>30. ASSUME NEW w \in Workers, ResumeStart(w) PROVE Typed'
  BY <1>30 DEF ResumeStart, Step, SetStatus
<1>31. ASSUME AutopilotScan PROVE Typed'
  BY <1>31 DEF AutopilotScan
<1>32. ASSUME NEW j \in Jobs, MaintenancePause(j) PROVE Typed'
  BY <1>32 DEF MaintenancePause
<1>33. ASSUME NEW j \in Jobs, SourceReachable(j) PROVE Typed'
  BY <1>33 DEF SourceReachable
<1>34. ASSUME NEW j \in Jobs, Escalate(j) PROVE Typed'
  BY <1>34 DEF Escalate, SetStatus
<1>35. ASSUME NEW o \in Ops, OpCheck(o) PROVE Typed'
  BY <1>35 DEF OpCheck
<1>36. ASSUME NEW o \in Ops, OpLock(o) PROVE Typed'
  BY <1>36 DEF OpLock
<1>37. ASSUME NEW o \in Ops, OpRefused(o) PROVE Typed'
  BY <1>37 DEF OpRefused
<1>38. ASSUME NEW o \in Ops, OpEnd(o) PROVE Typed'
  BY <1>38 DEF OpEnd
<1>39. ASSUME Restart PROVE Typed'
  BY <1>39 DEF Restart
<1>40. ASSUME ScanInventory PROVE Typed'
  BY <1>40 DEF ScanInventory
<1>41. CASE UNCHANGED vars
  BY <1>41
<1>q. QED
  BY <1>1, <1>2, <1>3, <1>4, <1>5, <1>6, <1>7, <1>8, <1>9, <1>10, <1>11,
     <1>12, <1>13, <1>14, <1>15, <1>16, <1>17, <1>18, <1>19, <1>20, <1>21,
     <1>22, <1>23, <1>24, <1>25, <1>26, <1>27, <1>28, <1>29, <1>30, <1>31,
     <1>32, <1>33, <1>34, <1>35, <1>36, <1>37, <1>38, <1>39, <1>40, <1>41, <1>42
  DEF Next, WorkerStep, OperatorStep, AutopilotStep, OpStep

\* The sets of the type invariant: statuses, control points and states of locks
\* (TypeOK of JobEngine), with the count of files that CopyFile relies on.
THEOREM TypeCorrect == Spec => []TypeOK
<1>1. Typed => TypeOK
  BY DEF Typed
<1>q. QED
  BY TypedInit, TypedStep, <1>1, PTL DEF Spec

-----------------------------------------------------------------------------
(* The control points of a worker and what it owns                         *)

NotYetCreated == \A w \in Workers : status[JobOf(w)] = "none" => pc[w] = "idle"

\* Only a job with a checkpoint is resumed, and no job of the auto queue has one.
Resumed ==
  /\ \A w \in Workers : ~IsStart(w) /\ pc[w] # "idle" => JobOf(w) \in ckpt
  /\ \A j \in ckpt : DriveOf[j] # AutoDrive

\* A worker's drive is its job's, until the auto queue has recorded another.
OneDrive ==
  \A w \in Workers :
    \/ drive[w] = DriveOf[JobOf(w)]
    \/ /\ DriveOf[JobOf(w)] = AutoDrive /\ drive[w] = FirstDrive
       /\ pc[w] \in Closing \cup {"done"}

AutoOnly ==
  \A w \in Workers :
    /\ pc[w] \in {"selecting", "selected"} => drive[w] = AutoDrive
    /\ pc[w] \in {"acquire", "waiting", "cleanup"} \cup Executing => drive[w] # AutoDrive

\* From its acquisition to the cleanup of its tapes a worker owns the lock; a worker that
\* has ended owns none, unless it was cancelled in the auto queue.
Holding ==
  \A w \in Workers :
    /\ pc[w] \in {"selected", "cleanup"} \cup Executing => w \in holds
    /\ w \in holds =>
         \/ pc[w] \in {"selected"} \cup Executing \cup Closing
         \/ pc[w] = "done" /\ drive[w] = AutoDrive

Threads == NotYetCreated /\ Resumed /\ OneDrive /\ AutoOnly /\ Holding

LEMMA ThreadsInit == Init => Threads
BY EngineAssumption, WorkerJob
DEF Init, Threads, NotYetCreated, Resumed, OneDrive, AutoOnly, Holding, Executing

LEMMA ThreadsStep == Typed /\ Threads /\ [Next]_vars => Threads'
<1> SUFFICES ASSUME Typed, Threads, [Next]_vars PROVE Threads'
  OBVIOUS
<1> USE EngineAssumption, WorkerJob
<1> USE DEF Typed, TypeOK, Threads, NotYetCreated, Resumed, OneDrive, AutoOnly, Holding,
        BeforeLock, Executing, Controls, ThreadLess, Closing, vars, rows, flags, workers,
        clients, history
<1>1. ASSUME NEW w \in Workers, Register(w) PROVE Threads'
  BY <1>1 DEF Register, Step, SetStatus
<1>2. ASSUME NEW w \in Workers, AcquireAtOnce(w) PROVE Threads'
  BY <1>2 DEF AcquireAtOnce, Acquire, Step, SetStatus
<1>3. ASSUME NEW w \in Workers, StartWaiting(w) PROVE Threads'
  BY <1>3 DEF StartWaiting, Step, SetStatus
<1>4. ASSUME NEW w \in Workers, AcquireAfterWait(w) PROVE Threads'
  BY <1>4 DEF AcquireAfterWait, Acquire, Step, SetStatus
<1>5. ASSUME NEW w \in Workers, WaitCancelled(w) PROVE Threads'
  BY <1>5 DEF WaitCancelled, SeesCancel, EndWith, Step, SetStatus, OnTape
<1>6. ASSUME NEW w \in Workers, LostRegistration(w) PROVE Threads'
  BY <1>6 DEF LostRegistration, ReadsFlags, EndWith, Step, SetStatus, OnTape
<1>7. ASSUME NEW w \in Workers, SelectDrive(w) PROVE Threads'
  BY <1>7 DEF SelectDrive, Step
<1>8. ASSUME NEW w \in Workers, SelectCancelled(w) PROVE Threads'
  BY <1>8 DEF SelectCancelled, SeesCancel, EndWith, Step, SetStatus, OnTape
<1>9. ASSUME NEW w \in Workers, RecordSelectedDrive(w) PROVE Threads'
  BY <1>9 DEF RecordSelectedDrive, EndWith, Step, SetStatus, OnTape
<1>10. ASSUME NEW w \in Workers, ScanCancelled(w) PROVE Threads'
  BY <1>10 DEF ScanCancelled, SeesCancel, EndWith, Step, SetStatus, OnTape
<1>11. ASSUME NEW w \in Workers, ScanFailed(w) PROVE Threads'
  BY <1>11 DEF ScanFailed, EndWith, Step, SetStatus, OnTape
<1>12. ASSUME NEW w \in Workers, ScanEmpty(w) PROVE Threads'
  BY <1>12 DEF ScanEmpty, EndWith, Step, SetStatus, OnTape
<1>13. ASSUME NEW w \in Workers, PlanFiles(w) PROVE Threads'
  BY <1>13 DEF PlanFiles, Step, Busy
<1>14. ASSUME NEW w \in Workers, TapeCancelled(w) PROVE Threads'
  BY <1>14 DEF TapeCancelled, SeesCancel, EndWith, Step, SetStatus, OnTape
<1>15. ASSUME NEW w \in Workers, TapeReady(w) PROVE Threads'
  BY <1>15 DEF TapeReady, Step, Busy
<1>16. ASSUME NEW w \in Workers, LoadTape(w) PROVE Threads'
  BY <1>16 DEF LoadTape, Step, Busy
<1>17. ASSUME NEW w \in Workers, LoadFailed(w) PROVE Threads'
  BY <1>17 DEF LoadFailed, Step, Busy
<1>18. ASSUME NEW w \in Workers, LeaveTape(w) PROVE Threads'
  BY <1>18 DEF LeaveTape, Step, Busy
<1>19. ASSUME NEW w \in Workers, NextFile(w) PROVE Threads'
  BY <1>19 DEF NextFile, Step, Busy
<1>20. ASSUME NEW w \in Workers, CopyFile(w) PROVE Threads'
  BY <1>20 DEF CopyFile, MayCopy, Step, Busy
<1>21. ASSUME NEW w \in Workers, Finish(w) PROVE Threads'
  BY <1>21 DEF Finish, Step, SetStatus, Busy
<1>22. ASSUME NEW w \in Workers, CleanUpTapes(w) PROVE Threads'
  BY <1>22 DEF CleanUpTapes, Step, Busy
<1>42. ASSUME NEW w \in Workers, WrapUpFails(w) PROVE Threads'
  BY <1>42 DEF WrapUpFails, Step, SetStatus, Busy
<1>23. ASSUME NEW w \in Workers, Unregister(w) PROVE Threads'
  BY <1>23 DEF Unregister, Step
<1>24. ASSUME NEW w \in Workers, Release(w) PROVE Threads'
  BY <1>24 DEF Release, Step
<1>25. ASSUME NEW j \in Jobs, CreateJob(j) PROVE Threads'
  BY <1>25 DEF CreateJob, Step, SetStatus
<1>26. ASSUME NEW j \in Jobs, Cancel(j) PROVE Threads'
  BY <1>26 DEF Cancel
<1>27. ASSUME NEW j \in Jobs, PauseCheck(j) PROVE Threads'
  BY <1>27 DEF PauseCheck
<1>28. ASSUME NEW j \in Jobs, PauseWrite(j) PROVE Threads'
  BY <1>28 DEF PauseWrite, SetStatus
<1>29. ASSUME NEW w \in Workers, ResumeCheck(w) PROVE Threads'
  BY <1>29 DEF ResumeCheck, CanResume, Resumable, Step
<1>30. ASSUME NEW w \in Workers, ResumeStart(w) PROVE Threads'
  BY <1>30 DEF ResumeStart, Step, SetStatus
<1>31. ASSUME AutopilotScan PROVE Threads'
  BY <1>31 DEF AutopilotScan
<1>32. ASSUME NEW j \in Jobs, MaintenancePause(j) PROVE Threads'
  BY <1>32 DEF MaintenancePause
<1>33. ASSUME NEW j \in Jobs, SourceReachable(j) PROVE Threads'
  BY <1>33 DEF SourceReachable
<1>34. ASSUME NEW j \in Jobs, Escalate(j) PROVE Threads'
  BY <1>34 DEF Escalate, SetStatus
<1>35. ASSUME NEW o \in Ops, OpCheck(o) PROVE Threads'
  BY <1>35 DEF OpCheck
<1>36. ASSUME NEW o \in Ops, OpLock(o) PROVE Threads'
  BY <1>36 DEF OpLock
<1>37. ASSUME NEW o \in Ops, OpRefused(o) PROVE Threads'
  BY <1>37 DEF OpRefused
<1>38. ASSUME NEW o \in Ops, OpEnd(o) PROVE Threads'
  BY <1>38 DEF OpEnd
<1>39. ASSUME Restart PROVE Threads'
  BY <1>39 DEF Restart
<1>40. ASSUME ScanInventory PROVE Threads'
  BY <1>40 DEF ScanInventory
<1>41. CASE UNCHANGED vars
  BY <1>41
<1>q. QED
  BY <1>1, <1>2, <1>3, <1>4, <1>5, <1>6, <1>7, <1>8, <1>9, <1>10, <1>11,
     <1>12, <1>13, <1>14, <1>15, <1>16, <1>17, <1>18, <1>19, <1>20, <1>21,
     <1>22, <1>23, <1>24, <1>25, <1>26, <1>27, <1>28, <1>29, <1>30, <1>31,
     <1>32, <1>33, <1>34, <1>35, <1>36, <1>37, <1>38, <1>39, <1>40, <1>41, <1>42
  DEF Next, WorkerStep, OperatorStep, AutopilotStep, OpStep

-----------------------------------------------------------------------------
(* A job that is shown running has a worker                                *)

LEMMA RunningStep == Typed /\ Threads /\ RunningHasWorker /\ [Next]_vars => RunningHasWorker'
<1> SUFFICES ASSUME Typed, Threads, RunningHasWorker, [Next]_vars PROVE RunningHasWorker'
  OBVIOUS
<1> USE WorkerJob
<1> USE DEF Typed, TypeOK, RunningHasWorker, Unstarted, Orphaned, Concluding, BeforeLock, Executing,
        Controls, ThreadLess, Closing, vars, rows, flags, workers, clients,
        history
<1>1. ASSUME NEW w \in Workers, Register(w) PROVE RunningHasWorker'
  BY <1>1 DEF Register, Step, SetStatus
<1>2. ASSUME NEW w \in Workers, AcquireAtOnce(w) PROVE RunningHasWorker'
  BY <1>2 DEF AcquireAtOnce, Acquire, Step, SetStatus
<1>3. ASSUME NEW w \in Workers, StartWaiting(w) PROVE RunningHasWorker'
  BY <1>3 DEF StartWaiting, Step, SetStatus
<1>4. ASSUME NEW w \in Workers, AcquireAfterWait(w) PROVE RunningHasWorker'
  BY <1>4 DEF AcquireAfterWait, Acquire, Step, SetStatus
<1>5. ASSUME NEW w \in Workers, WaitCancelled(w) PROVE RunningHasWorker'
  BY <1>5 DEF WaitCancelled, SeesCancel, EndWith, Step, SetStatus, OnTape
<1>6. ASSUME NEW w \in Workers, LostRegistration(w) PROVE RunningHasWorker'
  BY <1>6 DEF LostRegistration, ReadsFlags, EndWith, Step, SetStatus, OnTape
<1>7. ASSUME NEW w \in Workers, SelectDrive(w) PROVE RunningHasWorker'
  BY <1>7 DEF SelectDrive, Step
<1>8. ASSUME NEW w \in Workers, SelectCancelled(w) PROVE RunningHasWorker'
  BY <1>8 DEF SelectCancelled, SeesCancel, EndWith, Step, SetStatus, OnTape
<1>9. ASSUME NEW w \in Workers, RecordSelectedDrive(w) PROVE RunningHasWorker'
  BY <1>9 DEF RecordSelectedDrive, EndWith, Step, SetStatus, OnTape
<1>10. ASSUME NEW w \in Workers, ScanCancelled(w) PROVE RunningHasWorker'
  BY <1>10 DEF ScanCancelled, SeesCancel, EndWith, Step, SetStatus, OnTape
<1>11. ASSUME NEW w \in Workers, ScanFailed(w) PROVE RunningHasWorker'
  BY <1>11 DEF ScanFailed, EndWith, Step, SetStatus, OnTape
<1>12. ASSUME NEW w \in Workers, ScanEmpty(w) PROVE RunningHasWorker'
  BY <1>12 DEF ScanEmpty, EndWith, Step, SetStatus, OnTape
<1>13. ASSUME NEW w \in Workers, PlanFiles(w) PROVE RunningHasWorker'
  BY <1>13 DEF PlanFiles, Step, Busy
<1>14. ASSUME NEW w \in Workers, TapeCancelled(w) PROVE RunningHasWorker'
  BY <1>14 DEF TapeCancelled, SeesCancel, EndWith, Step, SetStatus, OnTape
<1>15. ASSUME NEW w \in Workers, TapeReady(w) PROVE RunningHasWorker'
  BY <1>15 DEF TapeReady, Step, Busy
<1>16. ASSUME NEW w \in Workers, LoadTape(w) PROVE RunningHasWorker'
  BY <1>16 DEF LoadTape, Step, Busy
<1>17. ASSUME NEW w \in Workers, LoadFailed(w) PROVE RunningHasWorker'
  BY <1>17 DEF LoadFailed, Step, Busy
<1>18. ASSUME NEW w \in Workers, LeaveTape(w) PROVE RunningHasWorker'
  BY <1>18 DEF LeaveTape, Step, Busy
<1>19. ASSUME NEW w \in Workers, NextFile(w) PROVE RunningHasWorker'
  BY <1>19 DEF NextFile, Step, Busy
<1>20. ASSUME NEW w \in Workers, CopyFile(w) PROVE RunningHasWorker'
  BY <1>20 DEF CopyFile, MayCopy, Step, Busy
<1>21. ASSUME NEW w \in Workers, Finish(w) PROVE RunningHasWorker'
  BY <1>21 DEF Finish, Step, SetStatus, Busy
<1>22. ASSUME NEW w \in Workers, CleanUpTapes(w) PROVE RunningHasWorker'
  BY <1>22 DEF CleanUpTapes, Step, Busy
<1>42. ASSUME NEW w \in Workers, WrapUpFails(w) PROVE RunningHasWorker'
  BY <1>42 DEF WrapUpFails, Step, SetStatus, Busy
<1>23. ASSUME NEW w \in Workers, Unregister(w) PROVE RunningHasWorker'
  BY <1>23 DEF Unregister, Step
<1>24. ASSUME NEW w \in Workers, Release(w) PROVE RunningHasWorker'
  BY <1>24 DEF Release, Step
<1>25. ASSUME NEW j \in Jobs, CreateJob(j) PROVE RunningHasWorker'
  BY <1>25 DEF CreateJob, Step, SetStatus, Threads, NotYetCreated
<1>26. ASSUME NEW j \in Jobs, Cancel(j) PROVE RunningHasWorker'
  BY <1>26 DEF Cancel
<1>27. ASSUME NEW j \in Jobs, PauseCheck(j) PROVE RunningHasWorker'
  BY <1>27 DEF PauseCheck
<1>28. ASSUME NEW j \in Jobs, PauseWrite(j) PROVE RunningHasWorker'
  BY <1>28 DEF PauseWrite, SetStatus
<1>29. ASSUME NEW w \in Workers, ResumeCheck(w) PROVE RunningHasWorker'
  BY <1>29 DEF ResumeCheck, CanResume, Resumable, Step
<1>30. ASSUME NEW w \in Workers, ResumeStart(w) PROVE RunningHasWorker'
  BY <1>30 DEF ResumeStart, Step, SetStatus
<1>31. ASSUME AutopilotScan PROVE RunningHasWorker'
  BY <1>31 DEF AutopilotScan
<1>32. ASSUME NEW j \in Jobs, MaintenancePause(j) PROVE RunningHasWorker'
  BY <1>32 DEF MaintenancePause
<1>33. ASSUME NEW j \in Jobs, SourceReachable(j) PROVE RunningHasWorker'
  BY <1>33 DEF SourceReachable
<1>34. ASSUME NEW j \in Jobs, Escalate(j) PROVE RunningHasWorker'
  BY <1>34 DEF Escalate, SetStatus
<1>35. ASSUME NEW o \in Ops, OpCheck(o) PROVE RunningHasWorker'
  BY <1>35 DEF OpCheck
<1>36. ASSUME NEW o \in Ops, OpLock(o) PROVE RunningHasWorker'
  BY <1>36 DEF OpLock
<1>37. ASSUME NEW o \in Ops, OpRefused(o) PROVE RunningHasWorker'
  BY <1>37 DEF OpRefused
<1>38. ASSUME NEW o \in Ops, OpEnd(o) PROVE RunningHasWorker'
  BY <1>38 DEF OpEnd
<1>39. ASSUME Restart PROVE RunningHasWorker'
  BY <1>39 DEF Restart
<1>40. ASSUME ScanInventory PROVE RunningHasWorker'
  BY <1>40 DEF ScanInventory
<1>41. CASE UNCHANGED vars
  BY <1>41
<1>q. QED
  BY <1>1, <1>2, <1>3, <1>4, <1>5, <1>6, <1>7, <1>8, <1>9, <1>10, <1>11,
     <1>12, <1>13, <1>14, <1>15, <1>16, <1>17, <1>18, <1>19, <1>20, <1>21,
     <1>22, <1>23, <1>24, <1>25, <1>26, <1>27, <1>28, <1>29, <1>30, <1>31,
     <1>32, <1>33, <1>34, <1>35, <1>36, <1>37, <1>38, <1>39, <1>40, <1>41, <1>42
  DEF Next, WorkerStep, OperatorStep, AutopilotStep, OpStep

\* RunningHasWorker is an invariant: what each worker writes last is a final
\* status, whoever else wrote the job's row, and a restart leaves no job behind.
\* A pending row without a thread is one created with a scheduled time.
THEOREM RunningJobsConclude == Spec => []RunningHasWorker
<1>1. Init => RunningHasWorker
  BY DEF Init, RunningHasWorker, Orphaned
<1>q. QED
  BY TypedInit, TypedStep, ThreadsInit, ThreadsStep, RunningStep, <1>1, PTL DEF Spec

-----------------------------------------------------------------------------
(* The drive locks                                                         *)

LEMMA SharingStep ==
  Typed /\ Threads /\ SharedOnlyIfStolen /\ [Next]_vars => SharedOnlyIfStolen'
<1> SUFFICES ASSUME Typed, Threads, SharedOnlyIfStolen, [Next]_vars
             PROVE  SharedOnlyIfStolen'
  OBVIOUS
<1> USE EngineAssumption, WorkerJob
<1> USE DEF Typed, TypeOK, Threads, OneDrive, AutoOnly, Holding, SharedOnlyIfStolen,
        Exclusive, Holders, HeldDrive, BusyOps, BeforeLock, Executing, Controls, LockStates,
        ThreadLess, Closing, vars, rows, flags, workers, clients,
        history
<1>1. ASSUME NEW w \in Workers, Register(w) PROVE SharedOnlyIfStolen'
  BY <1>1 DEF Register, Step, SetStatus
<1>2. ASSUME NEW w \in Workers, AcquireAtOnce(w) PROVE SharedOnlyIfStolen'
  BY <1>2 DEF AcquireAtOnce, Acquire, Step, SetStatus
<1>3. ASSUME NEW w \in Workers, StartWaiting(w) PROVE SharedOnlyIfStolen'
  BY <1>3 DEF StartWaiting, Step, SetStatus
<1>4. ASSUME NEW w \in Workers, AcquireAfterWait(w) PROVE SharedOnlyIfStolen'
  BY <1>4 DEF AcquireAfterWait, Acquire, Step, SetStatus
<1>5. ASSUME NEW w \in Workers, WaitCancelled(w) PROVE SharedOnlyIfStolen'
  BY <1>5 DEF WaitCancelled, SeesCancel, EndWith, Step, SetStatus, OnTape
<1>6. ASSUME NEW w \in Workers, LostRegistration(w) PROVE SharedOnlyIfStolen'
  BY <1>6 DEF LostRegistration, ReadsFlags, EndWith, Step, SetStatus, OnTape
<1>7. ASSUME NEW w \in Workers, SelectDrive(w) PROVE SharedOnlyIfStolen'
  BY <1>7 DEF SelectDrive, Step
<1>8. ASSUME NEW w \in Workers, SelectCancelled(w) PROVE SharedOnlyIfStolen'
  BY <1>8 DEF SelectCancelled, SeesCancel, EndWith, Step, SetStatus, OnTape
<1>9. ASSUME NEW w \in Workers, RecordSelectedDrive(w) PROVE SharedOnlyIfStolen'
  BY <1>9 DEF RecordSelectedDrive, EndWith, Step, SetStatus, OnTape
<1>10. ASSUME NEW w \in Workers, ScanCancelled(w) PROVE SharedOnlyIfStolen'
  BY <1>10 DEF ScanCancelled, SeesCancel, EndWith, Step, SetStatus, OnTape
<1>11. ASSUME NEW w \in Workers, ScanFailed(w) PROVE SharedOnlyIfStolen'
  BY <1>11 DEF ScanFailed, EndWith, Step, SetStatus, OnTape
<1>12. ASSUME NEW w \in Workers, ScanEmpty(w) PROVE SharedOnlyIfStolen'
  BY <1>12 DEF ScanEmpty, EndWith, Step, SetStatus, OnTape
<1>13. ASSUME NEW w \in Workers, PlanFiles(w) PROVE SharedOnlyIfStolen'
  BY <1>13 DEF PlanFiles, Step, Busy
<1>14. ASSUME NEW w \in Workers, TapeCancelled(w) PROVE SharedOnlyIfStolen'
  BY <1>14 DEF TapeCancelled, SeesCancel, EndWith, Step, SetStatus, OnTape
<1>15. ASSUME NEW w \in Workers, TapeReady(w) PROVE SharedOnlyIfStolen'
  BY <1>15 DEF TapeReady, Step, Busy
<1>16. ASSUME NEW w \in Workers, LoadTape(w) PROVE SharedOnlyIfStolen'
  BY <1>16 DEF LoadTape, Step, Busy
<1>17. ASSUME NEW w \in Workers, LoadFailed(w) PROVE SharedOnlyIfStolen'
  BY <1>17 DEF LoadFailed, Step, Busy
<1>18. ASSUME NEW w \in Workers, LeaveTape(w) PROVE SharedOnlyIfStolen'
  BY <1>18 DEF LeaveTape, Step, Busy
<1>19. ASSUME NEW w \in Workers, NextFile(w) PROVE SharedOnlyIfStolen'
  BY <1>19 DEF NextFile, Step, Busy
<1>20. ASSUME NEW w \in Workers, CopyFile(w) PROVE SharedOnlyIfStolen'
  BY <1>20 DEF CopyFile, MayCopy, Step, Busy
<1>21. ASSUME NEW w \in Workers, Finish(w) PROVE SharedOnlyIfStolen'
  BY <1>21 DEF Finish, Step, SetStatus, Busy
<1>22. ASSUME NEW w \in Workers, CleanUpTapes(w) PROVE SharedOnlyIfStolen'
  BY <1>22 DEF CleanUpTapes, Step, Busy
<1>42. ASSUME NEW w \in Workers, WrapUpFails(w) PROVE SharedOnlyIfStolen'
  BY <1>42 DEF WrapUpFails, Step, SetStatus, Busy
<1>23. ASSUME NEW w \in Workers, Unregister(w) PROVE SharedOnlyIfStolen'
  BY <1>23 DEF Unregister, Step
<1>24. ASSUME NEW w \in Workers, Release(w) PROVE SharedOnlyIfStolen'
  BY <1>24 DEF Release, Step
<1>25. ASSUME NEW j \in Jobs, CreateJob(j) PROVE SharedOnlyIfStolen'
  BY <1>25 DEF CreateJob, Step, SetStatus
<1>26. ASSUME NEW j \in Jobs, Cancel(j) PROVE SharedOnlyIfStolen'
  BY <1>26 DEF Cancel
<1>27. ASSUME NEW j \in Jobs, PauseCheck(j) PROVE SharedOnlyIfStolen'
  BY <1>27 DEF PauseCheck
<1>28. ASSUME NEW j \in Jobs, PauseWrite(j) PROVE SharedOnlyIfStolen'
  BY <1>28 DEF PauseWrite, SetStatus
<1>29. ASSUME NEW w \in Workers, ResumeCheck(w) PROVE SharedOnlyIfStolen'
  BY <1>29 DEF ResumeCheck, CanResume, Resumable, Step
<1>30. ASSUME NEW w \in Workers, ResumeStart(w) PROVE SharedOnlyIfStolen'
  BY <1>30 DEF ResumeStart, Step, SetStatus
<1>31. ASSUME AutopilotScan PROVE SharedOnlyIfStolen'
  BY <1>31 DEF AutopilotScan
<1>32. ASSUME NEW j \in Jobs, MaintenancePause(j) PROVE SharedOnlyIfStolen'
  BY <1>32 DEF MaintenancePause
<1>33. ASSUME NEW j \in Jobs, SourceReachable(j) PROVE SharedOnlyIfStolen'
  BY <1>33 DEF SourceReachable
<1>34. ASSUME NEW j \in Jobs, Escalate(j) PROVE SharedOnlyIfStolen'
  BY <1>34 DEF Escalate, SetStatus
<1>35. ASSUME NEW o \in Ops, OpCheck(o) PROVE SharedOnlyIfStolen'
  BY <1>35 DEF OpCheck
<1>36. ASSUME NEW o \in Ops, OpLock(o) PROVE SharedOnlyIfStolen'
  BY <1>36 DEF OpLock
<1>37. ASSUME NEW o \in Ops, OpRefused(o) PROVE SharedOnlyIfStolen'
  BY <1>37 DEF OpRefused
<1>38. ASSUME NEW o \in Ops, OpEnd(o) PROVE SharedOnlyIfStolen'
  BY <1>38 DEF OpEnd
<1>39. ASSUME Restart PROVE SharedOnlyIfStolen'
  BY <1>39 DEF Restart
<1>40. ASSUME ScanInventory PROVE SharedOnlyIfStolen'
  BY <1>40 DEF ScanInventory
<1>41. CASE UNCHANGED vars
  BY <1>41
<1>q. QED
  BY <1>1, <1>2, <1>3, <1>4, <1>5, <1>6, <1>7, <1>8, <1>9, <1>10, <1>11,
     <1>12, <1>13, <1>14, <1>15, <1>16, <1>17, <1>18, <1>19, <1>20, <1>21,
     <1>22, <1>23, <1>24, <1>25, <1>26, <1>27, <1>28, <1>29, <1>30, <1>31,
     <1>32, <1>33, <1>34, <1>35, <1>36, <1>37, <1>38, <1>39, <1>40, <1>41, <1>42
  DEF Next, WorkerStep, OperatorStep, AutopilotStep, OpStep

\* SharedOnlyIfStolen is an invariant: with a lock that is released only by its
\* owner, no interleaving of jobs, initialisations, cancellations and restarts
\* gives a drive two users.
THEOREM OnlyStolenDrivesAreShared == Spec => []SharedOnlyIfStolen
<1>1. Init => SharedOnlyIfStolen
  BY DEF Init, SharedOnlyIfStolen, Exclusive, Holders, BusyOps
<1>q. QED
  BY TypedInit, TypedStep, ThreadsInit, ThreadsStep, SharingStep, <1>1, PTL
     DEF Spec

LEMMA OrphanStep == Typed /\ Threads /\ NoOrphanLock /\ [Next]_vars => NoOrphanLock'
<1> SUFFICES ASSUME Typed, Threads, NoOrphanLock, [Next]_vars PROVE NoOrphanLock'
  OBVIOUS
<1> USE EngineAssumption, WorkerJob
<1> USE DEF Typed, TypeOK, Threads, NotYetCreated, Resumed, OneDrive, AutoOnly, Holding,
        NoOrphanLock, Holders, HeldDrive, BusyOps, BeforeLock, Executing, Controls,
        LockStates, ThreadLess, Closing, vars, rows, flags, workers, clients,
        history
<1>1. ASSUME NEW w \in Workers, Register(w) PROVE NoOrphanLock'
  BY <1>1 DEF Register, Step, SetStatus
<1>2. ASSUME NEW w \in Workers, AcquireAtOnce(w) PROVE NoOrphanLock'
  BY <1>2 DEF AcquireAtOnce, Acquire, Step, SetStatus
<1>3. ASSUME NEW w \in Workers, StartWaiting(w) PROVE NoOrphanLock'
  BY <1>3 DEF StartWaiting, Step, SetStatus
<1>4. ASSUME NEW w \in Workers, AcquireAfterWait(w) PROVE NoOrphanLock'
  BY <1>4 DEF AcquireAfterWait, Acquire, Step, SetStatus
<1>5. ASSUME NEW w \in Workers, WaitCancelled(w) PROVE NoOrphanLock'
  BY <1>5 DEF WaitCancelled, SeesCancel, EndWith, Step, SetStatus, OnTape
<1>6. ASSUME NEW w \in Workers, LostRegistration(w) PROVE NoOrphanLock'
  BY <1>6 DEF LostRegistration, ReadsFlags, EndWith, Step, SetStatus, OnTape
<1>7. ASSUME NEW w \in Workers, SelectDrive(w) PROVE NoOrphanLock'
  BY <1>7 DEF SelectDrive, Step
<1>8. ASSUME NEW w \in Workers, SelectCancelled(w) PROVE NoOrphanLock'
  BY <1>8 DEF SelectCancelled, SeesCancel, EndWith, Step, SetStatus, OnTape
<1>9. ASSUME NEW w \in Workers, RecordSelectedDrive(w) PROVE NoOrphanLock'
  BY <1>9 DEF RecordSelectedDrive, EndWith, Step, SetStatus, OnTape
<1>10. ASSUME NEW w \in Workers, ScanCancelled(w) PROVE NoOrphanLock'
  BY <1>10 DEF ScanCancelled, SeesCancel, EndWith, Step, SetStatus, OnTape
<1>11. ASSUME NEW w \in Workers, ScanFailed(w) PROVE NoOrphanLock'
  BY <1>11 DEF ScanFailed, EndWith, Step, SetStatus, OnTape
<1>12. ASSUME NEW w \in Workers, ScanEmpty(w) PROVE NoOrphanLock'
  BY <1>12 DEF ScanEmpty, EndWith, Step, SetStatus, OnTape
<1>13. ASSUME NEW w \in Workers, PlanFiles(w) PROVE NoOrphanLock'
  BY <1>13 DEF PlanFiles, Step, Busy
<1>14. ASSUME NEW w \in Workers, TapeCancelled(w) PROVE NoOrphanLock'
  BY <1>14 DEF TapeCancelled, SeesCancel, EndWith, Step, SetStatus, OnTape
<1>15. ASSUME NEW w \in Workers, TapeReady(w) PROVE NoOrphanLock'
  BY <1>15 DEF TapeReady, Step, Busy
<1>16. ASSUME NEW w \in Workers, LoadTape(w) PROVE NoOrphanLock'
  BY <1>16 DEF LoadTape, Step, Busy
<1>17. ASSUME NEW w \in Workers, LoadFailed(w) PROVE NoOrphanLock'
  BY <1>17 DEF LoadFailed, Step, Busy
<1>18. ASSUME NEW w \in Workers, LeaveTape(w) PROVE NoOrphanLock'
  BY <1>18 DEF LeaveTape, Step, Busy
<1>19. ASSUME NEW w \in Workers, NextFile(w) PROVE NoOrphanLock'
  BY <1>19 DEF NextFile, Step, Busy
<1>20. ASSUME NEW w \in Workers, CopyFile(w) PROVE NoOrphanLock'
  BY <1>20 DEF CopyFile, MayCopy, Step, Busy
<1>21. ASSUME NEW w \in Workers, Finish(w) PROVE NoOrphanLock'
  BY <1>21 DEF Finish, Step, SetStatus, Busy
<1>22. ASSUME NEW w \in Workers, CleanUpTapes(w) PROVE NoOrphanLock'
  BY <1>22 DEF CleanUpTapes, Step, Busy
<1>42. ASSUME NEW w \in Workers, WrapUpFails(w) PROVE NoOrphanLock'
  BY <1>42 DEF WrapUpFails, Step, SetStatus, Busy
<1>23. ASSUME NEW w \in Workers, Unregister(w) PROVE NoOrphanLock'
  BY <1>23 DEF Unregister, Step
<1>24. ASSUME NEW w \in Workers, Release(w) PROVE NoOrphanLock'
  BY <1>24 DEF Release, Step
<1>25. ASSUME NEW j \in Jobs, CreateJob(j) PROVE NoOrphanLock'
  BY <1>25 DEF CreateJob, Step, SetStatus
<1>26. ASSUME NEW j \in Jobs, Cancel(j) PROVE NoOrphanLock'
  BY <1>26 DEF Cancel
<1>27. ASSUME NEW j \in Jobs, PauseCheck(j) PROVE NoOrphanLock'
  BY <1>27 DEF PauseCheck
<1>28. ASSUME NEW j \in Jobs, PauseWrite(j) PROVE NoOrphanLock'
  BY <1>28 DEF PauseWrite, SetStatus
<1>29. ASSUME NEW w \in Workers, ResumeCheck(w) PROVE NoOrphanLock'
  BY <1>29 DEF ResumeCheck, CanResume, Resumable, Step
<1>30. ASSUME NEW w \in Workers, ResumeStart(w) PROVE NoOrphanLock'
  BY <1>30 DEF ResumeStart, Step, SetStatus
<1>31. ASSUME AutopilotScan PROVE NoOrphanLock'
  BY <1>31 DEF AutopilotScan
<1>32. ASSUME NEW j \in Jobs, MaintenancePause(j) PROVE NoOrphanLock'
  BY <1>32 DEF MaintenancePause
<1>33. ASSUME NEW j \in Jobs, SourceReachable(j) PROVE NoOrphanLock'
  BY <1>33 DEF SourceReachable
<1>34. ASSUME NEW j \in Jobs, Escalate(j) PROVE NoOrphanLock'
  BY <1>34 DEF Escalate, SetStatus
<1>35. ASSUME NEW o \in Ops, OpCheck(o) PROVE NoOrphanLock'
  BY <1>35 DEF OpCheck
<1>36. ASSUME NEW o \in Ops, OpLock(o) PROVE NoOrphanLock'
  BY <1>36 DEF OpLock
<1>37. ASSUME NEW o \in Ops, OpRefused(o) PROVE NoOrphanLock'
  BY <1>37 DEF OpRefused
<1>38. ASSUME NEW o \in Ops, OpEnd(o) PROVE NoOrphanLock'
  BY <1>38 DEF OpEnd
<1>39. ASSUME Restart PROVE NoOrphanLock'
  BY <1>39 DEF Restart
<1>40. ASSUME ScanInventory PROVE NoOrphanLock'
  BY <1>40 DEF ScanInventory
<1>41. CASE UNCHANGED vars
  BY <1>41
<1>q. QED
  BY <1>1, <1>2, <1>3, <1>4, <1>5, <1>6, <1>7, <1>8, <1>9, <1>10, <1>11,
     <1>12, <1>13, <1>14, <1>15, <1>16, <1>17, <1>18, <1>19, <1>20, <1>21,
     <1>22, <1>23, <1>24, <1>25, <1>26, <1>27, <1>28, <1>29, <1>30, <1>31,
     <1>32, <1>33, <1>34, <1>35, <1>36, <1>37, <1>38, <1>39, <1>40, <1>41, <1>42
  DEF Next, WorkerStep, OperatorStep, AutopilotStep, OpStep

\* NoOrphanLock is an invariant: the finally clause, the end of an initialisation
\* and the restart leave no lock that nobody will release, with the exception it
\* names.
THEOREM LocksHaveOwners == Spec => []NoOrphanLock
<1>1. Init => NoOrphanLock
  BY DEF Init, NoOrphanLock
<1>q. QED
  BY TypedInit, TypedStep, ThreadsInit, ThreadsStep, OrphanStep, <1>1, PTL DEF
     Spec

-----------------------------------------------------------------------------
(* The tape in a drive                                                     *)

LEMMA LoadedStep ==
  Typed /\ Threads /\ SharedOnlyIfStolen /\ LoadedTapeInUse /\ [Next]_vars
    => LoadedTapeInUse'
<1> SUFFICES ASSUME Typed, Threads, SharedOnlyIfStolen, LoadedTapeInUse, [Next]_vars,
                    TapesKeepToDrive
             PROVE  LoadedTapeInUse'
  BY DEF LoadedTapeInUse, TapesKeepToDrive
<1> USE EngineAssumption, WorkerJob
<1> USE DEF Typed, TypeOK, Threads, OneDrive, AutoOnly, Holding, SharedOnlyIfStolen,
        Exclusive, Holders, HeldDrive, BusyOps, LoadedTapeInUse, TapesKeepToDrive, OnTape,
        BeforeLock, Executing, Controls, LockStates, ThreadLess, Closing, vars, rows, flags,
        workers, clients, history
<1>1. ASSUME NEW w \in Workers, Register(w) PROVE LoadedTapeInUse'
  BY <1>1 DEF Register, Step, SetStatus
<1>2. ASSUME NEW w \in Workers, AcquireAtOnce(w) PROVE LoadedTapeInUse'
  BY <1>2 DEF AcquireAtOnce, Acquire, Step, SetStatus
<1>3. ASSUME NEW w \in Workers, StartWaiting(w) PROVE LoadedTapeInUse'
  BY <1>3 DEF StartWaiting, Step, SetStatus
<1>4. ASSUME NEW w \in Workers, AcquireAfterWait(w) PROVE LoadedTapeInUse'
  BY <1>4 DEF AcquireAfterWait, Acquire, Step, SetStatus
<1>5. ASSUME NEW w \in Workers, WaitCancelled(w) PROVE LoadedTapeInUse'
  BY <1>5 DEF WaitCancelled, SeesCancel, EndWith, Step, SetStatus, OnTape
<1>6. ASSUME NEW w \in Workers, LostRegistration(w) PROVE LoadedTapeInUse'
  BY <1>6 DEF LostRegistration, ReadsFlags, EndWith, Step, SetStatus, OnTape
<1>7. ASSUME NEW w \in Workers, SelectDrive(w) PROVE LoadedTapeInUse'
  BY <1>7 DEF SelectDrive, Step
<1>8. ASSUME NEW w \in Workers, SelectCancelled(w) PROVE LoadedTapeInUse'
  BY <1>8 DEF SelectCancelled, SeesCancel, EndWith, Step, SetStatus, OnTape
<1>9. ASSUME NEW w \in Workers, RecordSelectedDrive(w) PROVE LoadedTapeInUse'
  BY <1>9 DEF RecordSelectedDrive, EndWith, Step, SetStatus, OnTape
<1>10. ASSUME NEW w \in Workers, ScanCancelled(w) PROVE LoadedTapeInUse'
  BY <1>10 DEF ScanCancelled, SeesCancel, EndWith, Step, SetStatus, OnTape
<1>11. ASSUME NEW w \in Workers, ScanFailed(w) PROVE LoadedTapeInUse'
  BY <1>11 DEF ScanFailed, EndWith, Step, SetStatus, OnTape
<1>12. ASSUME NEW w \in Workers, ScanEmpty(w) PROVE LoadedTapeInUse'
  BY <1>12 DEF ScanEmpty, EndWith, Step, SetStatus, OnTape
<1>13. ASSUME NEW w \in Workers, PlanFiles(w) PROVE LoadedTapeInUse'
  BY <1>13 DEF PlanFiles, Step, Busy
<1>14. ASSUME NEW w \in Workers, TapeCancelled(w) PROVE LoadedTapeInUse'
  BY <1>14 DEF TapeCancelled, SeesCancel, EndWith, Step, SetStatus, OnTape
<1>15. ASSUME NEW w \in Workers, TapeReady(w) PROVE LoadedTapeInUse'
  BY <1>15 DEF TapeReady, Step, Busy
<1>16. ASSUME NEW w \in Workers, LoadTape(w) PROVE LoadedTapeInUse'
  BY <1>16 DEF LoadTape, Step, Busy
<1>17. ASSUME NEW w \in Workers, LoadFailed(w) PROVE LoadedTapeInUse'
  BY <1>17 DEF LoadFailed, Step, Busy
<1>18. ASSUME NEW w \in Workers, LeaveTape(w) PROVE LoadedTapeInUse'
  BY <1>18 DEF LeaveTape, Step, Busy
<1>19. ASSUME NEW w \in Workers, NextFile(w) PROVE LoadedTapeInUse'
  BY <1>19 DEF NextFile, Step, Busy
<1>20. ASSUME NEW w \in Workers, CopyFile(w) PROVE LoadedTapeInUse'
  BY <1>20 DEF CopyFile, MayCopy, Step, Busy
<1>21. ASSUME NEW w \in Workers, Finish(w) PROVE LoadedTapeInUse'
  BY <1>21 DEF Finish, Step, SetStatus, Busy
<1>22. ASSUME NEW w \in Workers, CleanUpTapes(w) PROVE LoadedTapeInUse'
  BY <1>22 DEF CleanUpTapes, Step, Busy
<1>42. ASSUME NEW w \in Workers, WrapUpFails(w) PROVE LoadedTapeInUse'
  BY <1>42 DEF WrapUpFails, Step, SetStatus, Busy
<1>23. ASSUME NEW w \in Workers, Unregister(w) PROVE LoadedTapeInUse'
  BY <1>23 DEF Unregister, Step
<1>24. ASSUME NEW w \in Workers, Release(w) PROVE LoadedTapeInUse'
  BY <1>24 DEF Release, Step
<1>25. ASSUME NEW j \in Jobs, CreateJob(j) PROVE LoadedTapeInUse'
  BY <1>25 DEF CreateJob, Step, SetStatus
<1>26. ASSUME NEW j \in Jobs, Cancel(j) PROVE LoadedTapeInUse'
  BY <1>26 DEF Cancel
<1>27. ASSUME NEW j \in Jobs, PauseCheck(j) PROVE LoadedTapeInUse'
  BY <1>27 DEF PauseCheck
<1>28. ASSUME NEW j \in Jobs, PauseWrite(j) PROVE LoadedTapeInUse'
  BY <1>28 DEF PauseWrite, SetStatus
<1>29. ASSUME NEW w \in Workers, ResumeCheck(w) PROVE LoadedTapeInUse'
  BY <1>29 DEF ResumeCheck, CanResume, Resumable, Step
<1>30. ASSUME NEW w \in Workers, ResumeStart(w) PROVE LoadedTapeInUse'
  BY <1>30 DEF ResumeStart, Step, SetStatus
<1>31. ASSUME AutopilotScan PROVE LoadedTapeInUse'
  BY <1>31 DEF AutopilotScan
<1>32. ASSUME NEW j \in Jobs, MaintenancePause(j) PROVE LoadedTapeInUse'
  BY <1>32 DEF MaintenancePause
<1>33. ASSUME NEW j \in Jobs, SourceReachable(j) PROVE LoadedTapeInUse'
  BY <1>33 DEF SourceReachable
<1>34. ASSUME NEW j \in Jobs, Escalate(j) PROVE LoadedTapeInUse'
  BY <1>34 DEF Escalate, SetStatus
<1>35. ASSUME NEW o \in Ops, OpCheck(o) PROVE LoadedTapeInUse'
  BY <1>35 DEF OpCheck
<1>36. ASSUME NEW o \in Ops, OpLock(o) PROVE LoadedTapeInUse'
  BY <1>36 DEF OpLock
<1>37. ASSUME NEW o \in Ops, OpRefused(o) PROVE LoadedTapeInUse'
  BY <1>37 DEF OpRefused
<1>38. ASSUME NEW o \in Ops, OpEnd(o) PROVE LoadedTapeInUse'
  BY <1>38 DEF OpEnd
<1>39. ASSUME Restart PROVE LoadedTapeInUse'
  BY <1>39 DEF Restart
<1>40. ASSUME ScanInventory PROVE LoadedTapeInUse'
  BY <1>40 DEF ScanInventory
<1>41. CASE UNCHANGED vars
  BY <1>41
<1>q. QED
  BY <1>1, <1>2, <1>3, <1>4, <1>5, <1>6, <1>7, <1>8, <1>9, <1>10, <1>11,
     <1>12, <1>13, <1>14, <1>15, <1>16, <1>17, <1>18, <1>19, <1>20, <1>21,
     <1>22, <1>23, <1>24, <1>25, <1>26, <1>27, <1>28, <1>29, <1>30, <1>31,
     <1>32, <1>33, <1>34, <1>35, <1>36, <1>37, <1>38, <1>39, <1>40, <1>41, <1>42
  DEF Next, WorkerStep, OperatorStep, AutopilotStep, OpStep

\* LoadedTapeInUse is an invariant: no unload, failure or initialisation takes the
\* in_use mark from a tape another worker has in its drive.
THEOREM LoadedTapesMarked == Spec => []LoadedTapeInUse
<1>1. Init => LoadedTapeInUse
  BY DEF Init, LoadedTapeInUse, OnTape
<1>2. Init => SharedOnlyIfStolen
  BY DEF Init, SharedOnlyIfStolen, Exclusive, Holders, BusyOps
<1>q. QED
  BY TypedInit, TypedStep, ThreadsInit, ThreadsStep, SharingStep, LoadedStep, <1>1, <1>2,
     PTL DEF Spec

\* A tape that a worker has in a drive nobody stole is written by no other worker and
\* formatted by no initialisation.
TapeHasOneUser ==
  TapesKeepToDrive =>
    \A w \in Workers : OnTape(w) /\ drive[w] \notin stolen =>
      /\ \A v \in Workers : OnTape(v) /\ TapeOf[JobOf(v)] = TapeOf[JobOf(w)] => v = w
      /\ \A o \in Ops : op[o] = "busy" => OpTape[o] # TapeOf[JobOf(w)]

\* TapeHasOneUser is an invariant: the locks are per drive, and yet they keep the users of
\* one tape apart, as long as each tape's users name the same drive.
THEOREM TapesHaveOneUser == Spec => []TapeHasOneUser
<1>1. Init => SharedOnlyIfStolen
  BY DEF Init, SharedOnlyIfStolen, Exclusive, Holders, BusyOps
<1>2. Typed /\ Threads /\ SharedOnlyIfStolen => TapeHasOneUser
  <2> SUFFICES ASSUME Typed, Threads, SharedOnlyIfStolen, TapesKeepToDrive,
                      NEW w \in Workers, OnTape(w), drive[w] \notin stolen
               PROVE  /\ \A v \in Workers :
                           OnTape(v) /\ TapeOf[JobOf(v)] = TapeOf[JobOf(w)] => v = w
                      /\ \A o \in Ops : op[o] = "busy" => OpTape[o] # TapeOf[JobOf(w)]
    BY DEF TapeHasOneUser
  <2>1. ASSUME NEW v \in Workers, OnTape(v)
        PROVE  v \in holds /\ drive[v] = DriveOf[JobOf(v)] /\ drive[v] \in Drives
    BY <2>1, EngineAssumption
    DEF Typed, TypeOK, Threads, Holding, OneDrive, AutoOnly, OnTape, Executing, Closing
  <2>2. Exclusive(drive[w])
    BY <2>1 DEF SharedOnlyIfStolen
  <2>3. w \in Holders(drive[w])
    BY <2>1, EngineAssumption DEF Holders, HeldDrive
  <2>4. ASSUME NEW v \in Workers, OnTape(v), TapeOf[JobOf(v)] = TapeOf[JobOf(w)]
        PROVE  v = w
    <3>1. DriveOf[JobOf(v)] = DriveOf[JobOf(w)]
      BY <2>4, WorkerJob DEF TapesKeepToDrive
    <3>2. v \in Holders(drive[w])
      BY <2>1, <2>4, <3>1, EngineAssumption DEF Holders, HeldDrive
    <3>q. QED
      BY <2>2, <2>3, <3>2 DEF Exclusive
  <2>5. ASSUME NEW o \in Ops, op[o] = "busy", OpTape[o] = TapeOf[JobOf(w)]
        PROVE  FALSE
    <3>1. OpDrive[o] = drive[w]
      BY <2>1, <2>5, WorkerJob DEF TapesKeepToDrive
    <3>q. QED
      BY <2>2, <2>3, <2>5, <3>1 DEF Exclusive, BusyOps
  <2>q. QED
    BY <2>4, <2>5
<1>q. QED
  BY TypedInit, TypedStep, ThreadsInit, ThreadsStep, SharingStep, <1>1, <1>2, PTL DEF Spec

-----------------------------------------------------------------------------
(* Jobs nobody cancels and whose source nobody watches                     *)

\* Only watched jobs are escalated, so no other job is ever resumed: the one worker it has
\* keeps its events until its own finally clause, and the row's final status is its last.
OneWorkerEach ==
  /\ escalating \subseteq Watched
  /\ cancel \subseteq Cancellable
  /\ \A j \in Jobs \ Watched :
       /\ status[j] # "error"
       /\ status[j] \notin {"none", "pending", "failed"} \/ j \in pausing => pc[<<j, 0>>] # "idle"
       /\ \A w \in Workers : JobOf(w) = j /\ ~IsStart(w) => pc[w] = "idle"
       /\ status[j] \in Finished => pc[<<j, 0>>] \in Closing \cup {"done", "idle"}
       /\ pc[<<j, 0>>] \in (BeforeLock \ {"created"}) \cup {"selected"} \cup Executing
            => j \in registered

LEMMA UnwatchedWorker ==
  OneWorkerEach =>
    \A w \in Workers : JobOf(w) \notin Watched /\ pc[w] # "idle" => w = <<JobOf(w), 0>>
<1> SUFFICES ASSUME OneWorkerEach, NEW w \in Workers, JobOf(w) \notin Watched, pc[w] # "idle"
             PROVE  w = <<JobOf(w), 0>>
  OBVIOUS
<1>1. IsStart(w)
  BY WorkerJob DEF OneWorkerEach
<1>q. QED
  BY <1>1 DEF Workers, JobOf, IsStart

LEMMA OneWorkerInit == Init => OneWorkerEach
BY WorkerJob DEF Init, OneWorkerEach, Finished, BeforeLock, Executing

LEMMA OneWorkerStep == Typed /\ Threads /\ OneWorkerEach /\ [Next]_vars => OneWorkerEach'
<1> SUFFICES ASSUME Typed, Threads, OneWorkerEach, [Next]_vars PROVE OneWorkerEach'
  OBVIOUS
<1> USE WorkerJob, UnwatchedWorker
<1> USE DEF Typed, TypeOK, Threads, NotYetCreated, Holding, OneWorkerEach, Finished,
        Orphaned, BeforeLock, Executing, Controls, ThreadLess, Closing, vars, rows, flags, workers,
        clients, history
<1>1. ASSUME NEW w \in Workers, Register(w) PROVE OneWorkerEach'
  BY <1>1 DEF Register, Step, SetStatus
<1>2. ASSUME NEW w \in Workers, AcquireAtOnce(w) PROVE OneWorkerEach'
  BY <1>2 DEF AcquireAtOnce, Acquire, Step, SetStatus
<1>3. ASSUME NEW w \in Workers, StartWaiting(w) PROVE OneWorkerEach'
  BY <1>3 DEF StartWaiting, Step, SetStatus
<1>4. ASSUME NEW w \in Workers, AcquireAfterWait(w) PROVE OneWorkerEach'
  BY <1>4 DEF AcquireAfterWait, Acquire, Step, SetStatus
<1>5. ASSUME NEW w \in Workers, WaitCancelled(w) PROVE OneWorkerEach'
  BY <1>5 DEF WaitCancelled, SeesCancel, EndWith, Step, SetStatus, OnTape
<1>6. ASSUME NEW w \in Workers, LostRegistration(w) PROVE OneWorkerEach'
  BY <1>6 DEF LostRegistration, ReadsFlags, EndWith, Step, SetStatus, OnTape
<1>7. ASSUME NEW w \in Workers, SelectDrive(w) PROVE OneWorkerEach'
  BY <1>7 DEF SelectDrive, Step
<1>8. ASSUME NEW w \in Workers, SelectCancelled(w) PROVE OneWorkerEach'
  BY <1>8 DEF SelectCancelled, SeesCancel, EndWith, Step, SetStatus, OnTape
<1>9. ASSUME NEW w \in Workers, RecordSelectedDrive(w) PROVE OneWorkerEach'
  BY <1>9 DEF RecordSelectedDrive, EndWith, Step, SetStatus, OnTape
<1>10. ASSUME NEW w \in Workers, ScanCancelled(w) PROVE OneWorkerEach'
  BY <1>10 DEF ScanCancelled, SeesCancel, EndWith, Step, SetStatus, OnTape
<1>11. ASSUME NEW w \in Workers, ScanFailed(w) PROVE OneWorkerEach'
  BY <1>11 DEF ScanFailed, EndWith, Step, SetStatus, OnTape
<1>12. ASSUME NEW w \in Workers, ScanEmpty(w) PROVE OneWorkerEach'
  BY <1>12 DEF ScanEmpty, EndWith, Step, SetStatus, OnTape
<1>13. ASSUME NEW w \in Workers, PlanFiles(w) PROVE OneWorkerEach'
  BY <1>13 DEF PlanFiles, Step, Busy
<1>14. ASSUME NEW w \in Workers, TapeCancelled(w) PROVE OneWorkerEach'
  BY <1>14 DEF TapeCancelled, SeesCancel, EndWith, Step, SetStatus, OnTape
<1>15. ASSUME NEW w \in Workers, TapeReady(w) PROVE OneWorkerEach'
  BY <1>15 DEF TapeReady, Step, Busy
<1>16. ASSUME NEW w \in Workers, LoadTape(w) PROVE OneWorkerEach'
  BY <1>16 DEF LoadTape, Step, Busy
<1>17. ASSUME NEW w \in Workers, LoadFailed(w) PROVE OneWorkerEach'
  BY <1>17 DEF LoadFailed, Step, Busy
<1>18. ASSUME NEW w \in Workers, LeaveTape(w) PROVE OneWorkerEach'
  BY <1>18 DEF LeaveTape, Step, Busy
<1>19. ASSUME NEW w \in Workers, NextFile(w) PROVE OneWorkerEach'
  BY <1>19 DEF NextFile, Step, Busy
<1>20. ASSUME NEW w \in Workers, CopyFile(w) PROVE OneWorkerEach'
  BY <1>20 DEF CopyFile, MayCopy, Step, Busy
<1>21. ASSUME NEW w \in Workers, Finish(w) PROVE OneWorkerEach'
  BY <1>21 DEF Finish, Step, SetStatus, Busy
<1>22. ASSUME NEW w \in Workers, CleanUpTapes(w) PROVE OneWorkerEach'
  BY <1>22 DEF CleanUpTapes, Step, Busy
<1>42. ASSUME NEW w \in Workers, WrapUpFails(w) PROVE OneWorkerEach'
  BY <1>42 DEF WrapUpFails, Step, SetStatus, Busy
<1>23. ASSUME NEW w \in Workers, Unregister(w) PROVE OneWorkerEach'
  BY <1>23 DEF Unregister, Step
<1>24. ASSUME NEW w \in Workers, Release(w) PROVE OneWorkerEach'
  BY <1>24 DEF Release, Step
<1>25. ASSUME NEW j \in Jobs, CreateJob(j) PROVE OneWorkerEach'
  BY <1>25 DEF CreateJob, Step, SetStatus
<1>26. ASSUME NEW j \in Jobs, Cancel(j) PROVE OneWorkerEach'
  BY <1>26 DEF Cancel
<1>27. ASSUME NEW j \in Jobs, PauseCheck(j) PROVE OneWorkerEach'
  BY <1>27 DEF PauseCheck
<1>28. ASSUME NEW j \in Jobs, PauseWrite(j) PROVE OneWorkerEach'
  BY <1>28 DEF PauseWrite, SetStatus
<1>29. ASSUME NEW w \in Workers, ResumeCheck(w) PROVE OneWorkerEach'
  BY <1>29 DEF ResumeCheck, CanResume, Resumable, Step
<1>30. ASSUME NEW w \in Workers, ResumeStart(w) PROVE OneWorkerEach'
  BY <1>30 DEF ResumeStart, Step, SetStatus
<1>31. ASSUME AutopilotScan PROVE OneWorkerEach'
  BY <1>31 DEF AutopilotScan
<1>32. ASSUME NEW j \in Jobs, MaintenancePause(j) PROVE OneWorkerEach'
  BY <1>32 DEF MaintenancePause
<1>33. ASSUME NEW j \in Jobs, SourceReachable(j) PROVE OneWorkerEach'
  BY <1>33 DEF SourceReachable
<1>34. ASSUME NEW j \in Jobs, Escalate(j) PROVE OneWorkerEach'
  BY <1>34 DEF Escalate, SetStatus
<1>35. ASSUME NEW o \in Ops, OpCheck(o) PROVE OneWorkerEach'
  BY <1>35 DEF OpCheck
<1>36. ASSUME NEW o \in Ops, OpLock(o) PROVE OneWorkerEach'
  BY <1>36 DEF OpLock
<1>37. ASSUME NEW o \in Ops, OpRefused(o) PROVE OneWorkerEach'
  BY <1>37 DEF OpRefused
<1>38. ASSUME NEW o \in Ops, OpEnd(o) PROVE OneWorkerEach'
  BY <1>38 DEF OpEnd
<1>39. ASSUME Restart PROVE OneWorkerEach'
  BY <1>39 DEF Restart
<1>40. ASSUME ScanInventory PROVE OneWorkerEach'
  BY <1>40 DEF ScanInventory
<1>41. CASE UNCHANGED vars
  BY <1>41
<1>q. QED
  BY <1>1, <1>2, <1>3, <1>4, <1>5, <1>6, <1>7, <1>8, <1>9, <1>10, <1>11,
     <1>12, <1>13, <1>14, <1>15, <1>16, <1>17, <1>18, <1>19, <1>20, <1>21,
     <1>22, <1>23, <1>24, <1>25, <1>26, <1>27, <1>28, <1>29, <1>30, <1>31,
     <1>32, <1>33, <1>34, <1>35, <1>36, <1>37, <1>38, <1>39, <1>40, <1>41, <1>42
  DEF Next, WorkerStep, OperatorStep, AutopilotStep, OpStep

\* FinalStaysFinal holds: what could overwrite the final status of a job, except its own
\* worker's failed before the finally clause, is a second worker, and only a job that the
\* autopilot set to error has one.
THEOREM FinalStatusStays == Spec => FinalStaysFinal
<1> DEFINE Keeps == \A j \in Jobs \ Watched : status[j] \in Finished =>
                      \/ status'[j] = status[j]
                      \/ status'[j] = "failed" /\ \E w \in Workers : JobOf(w) = j /\ WrappingUp(w)
                      \/ status'[j] = "pausing" /\ j \in pausing
<1>s. Typed /\ Threads /\ OneWorkerEach /\ [Next]_vars => Keeps
  <2> SUFFICES ASSUME Typed, Threads, OneWorkerEach, [Next]_vars PROVE Keeps
    OBVIOUS
  <2> USE WorkerJob, UnwatchedWorker
  <2> USE DEF Typed, TypeOK, Threads, NotYetCreated, OneWorkerEach, Finished, Orphaned, WrappingUp,
          BeforeLock, Executing, Controls, ThreadLess, Closing, vars, rows, flags, workers,
          clients, history
  <2>1. ASSUME NEW w \in Workers, Register(w) PROVE Keeps
    BY <2>1 DEF Register, Step, SetStatus
  <2>2. ASSUME NEW w \in Workers, AcquireAtOnce(w) PROVE Keeps
    BY <2>2 DEF AcquireAtOnce, Acquire, Step, SetStatus
  <2>3. ASSUME NEW w \in Workers, StartWaiting(w) PROVE Keeps
    BY <2>3 DEF StartWaiting, Step, SetStatus
  <2>4. ASSUME NEW w \in Workers, AcquireAfterWait(w) PROVE Keeps
    BY <2>4 DEF AcquireAfterWait, Acquire, Step, SetStatus
  <2>5. ASSUME NEW w \in Workers, WaitCancelled(w) PROVE Keeps
    BY <2>5 DEF WaitCancelled, SeesCancel, EndWith, Step, SetStatus, OnTape
  <2>6. ASSUME NEW w \in Workers, LostRegistration(w) PROVE Keeps
    BY <2>6 DEF LostRegistration, ReadsFlags, EndWith, Step, SetStatus, OnTape
  <2>7. ASSUME NEW w \in Workers, SelectDrive(w) PROVE Keeps
    BY <2>7 DEF SelectDrive, Step
  <2>8. ASSUME NEW w \in Workers, SelectCancelled(w) PROVE Keeps
    BY <2>8 DEF SelectCancelled, SeesCancel, EndWith, Step, SetStatus, OnTape
  <2>9. ASSUME NEW w \in Workers, RecordSelectedDrive(w) PROVE Keeps
    BY <2>9 DEF RecordSelectedDrive, EndWith, Step, SetStatus, OnTape
  <2>10. ASSUME NEW w \in Workers, ScanCancelled(w) PROVE Keeps
    BY <2>10 DEF ScanCancelled, SeesCancel, EndWith, Step, SetStatus, OnTape
  <2>11. ASSUME NEW w \in Workers, ScanFailed(w) PROVE Keeps
    BY <2>11 DEF ScanFailed, EndWith, Step, SetStatus, OnTape
  <2>12. ASSUME NEW w \in Workers, ScanEmpty(w) PROVE Keeps
    BY <2>12 DEF ScanEmpty, EndWith, Step, SetStatus, OnTape
  <2>13. ASSUME NEW w \in Workers, PlanFiles(w) PROVE Keeps
    BY <2>13 DEF PlanFiles, Step, Busy
  <2>14. ASSUME NEW w \in Workers, TapeCancelled(w) PROVE Keeps
    BY <2>14 DEF TapeCancelled, SeesCancel, EndWith, Step, SetStatus, OnTape
  <2>15. ASSUME NEW w \in Workers, TapeReady(w) PROVE Keeps
    BY <2>15 DEF TapeReady, Step, Busy
  <2>16. ASSUME NEW w \in Workers, LoadTape(w) PROVE Keeps
    BY <2>16 DEF LoadTape, Step, Busy
  <2>17. ASSUME NEW w \in Workers, LoadFailed(w) PROVE Keeps
    BY <2>17 DEF LoadFailed, Step, Busy
  <2>18. ASSUME NEW w \in Workers, LeaveTape(w) PROVE Keeps
    BY <2>18 DEF LeaveTape, Step, Busy
  <2>19. ASSUME NEW w \in Workers, NextFile(w) PROVE Keeps
    BY <2>19 DEF NextFile, Step, Busy
  <2>20. ASSUME NEW w \in Workers, CopyFile(w) PROVE Keeps
    BY <2>20 DEF CopyFile, MayCopy, Step, Busy
  <2>21. ASSUME NEW w \in Workers, Finish(w) PROVE Keeps
    BY <2>21 DEF Finish, Step, SetStatus, Busy
  <2>22. ASSUME NEW w \in Workers, CleanUpTapes(w) PROVE Keeps
    BY <2>22 DEF CleanUpTapes, Step, Busy
  <2>42. ASSUME NEW w \in Workers, WrapUpFails(w) PROVE Keeps
    BY <2>42 DEF WrapUpFails, Step, SetStatus, Busy
  <2>23. ASSUME NEW w \in Workers, Unregister(w) PROVE Keeps
    BY <2>23 DEF Unregister, Step
  <2>24. ASSUME NEW w \in Workers, Release(w) PROVE Keeps
    BY <2>24 DEF Release, Step
  <2>25. ASSUME NEW j \in Jobs, CreateJob(j) PROVE Keeps
    BY <2>25 DEF CreateJob, Step, SetStatus
  <2>26. ASSUME NEW j \in Jobs, Cancel(j) PROVE Keeps
    BY <2>26 DEF Cancel
  <2>27. ASSUME NEW j \in Jobs, PauseCheck(j) PROVE Keeps
    BY <2>27 DEF PauseCheck
  <2>28. ASSUME NEW j \in Jobs, PauseWrite(j) PROVE Keeps
    BY <2>28 DEF PauseWrite, SetStatus
  <2>29. ASSUME NEW w \in Workers, ResumeCheck(w) PROVE Keeps
    BY <2>29 DEF ResumeCheck, CanResume, Resumable, Step
  <2>30. ASSUME NEW w \in Workers, ResumeStart(w) PROVE Keeps
    BY <2>30 DEF ResumeStart, Step, SetStatus
  <2>31. ASSUME AutopilotScan PROVE Keeps
    BY <2>31 DEF AutopilotScan
  <2>32. ASSUME NEW j \in Jobs, MaintenancePause(j) PROVE Keeps
    BY <2>32 DEF MaintenancePause
  <2>33. ASSUME NEW j \in Jobs, SourceReachable(j) PROVE Keeps
    BY <2>33 DEF SourceReachable
  <2>34. ASSUME NEW j \in Jobs, Escalate(j) PROVE Keeps
    BY <2>34 DEF Escalate, SetStatus
  <2>35. ASSUME NEW o \in Ops, OpCheck(o) PROVE Keeps
    BY <2>35 DEF OpCheck
  <2>36. ASSUME NEW o \in Ops, OpLock(o) PROVE Keeps
    BY <2>36 DEF OpLock
  <2>37. ASSUME NEW o \in Ops, OpRefused(o) PROVE Keeps
    BY <2>37 DEF OpRefused
  <2>38. ASSUME NEW o \in Ops, OpEnd(o) PROVE Keeps
    BY <2>38 DEF OpEnd
  <2>39. ASSUME Restart PROVE Keeps
    BY <2>39 DEF Restart
  <2>40. ASSUME ScanInventory PROVE Keeps
    BY <2>40 DEF ScanInventory
  <2>41. CASE UNCHANGED vars
    BY <2>41
  <2>q. QED
    BY <2>1, <2>2, <2>3, <2>4, <2>5, <2>6, <2>7, <2>8, <2>9, <2>10, <2>11,
       <2>12, <2>13, <2>14, <2>15, <2>16, <2>17, <2>18, <2>19, <2>20, <2>21,
       <2>22, <2>23, <2>24, <2>25, <2>26, <2>27, <2>28, <2>29, <2>30, <2>31,
       <2>32, <2>33, <2>34, <2>35, <2>36, <2>37, <2>38, <2>39, <2>40, <2>41, <2>42
    DEF Next, WorkerStep, OperatorStep, AutopilotStep, OpStep
<1>q. QED
  BY TypedInit, TypedStep, ThreadsInit, ThreadsStep, OneWorkerInit, OneWorkerStep, <1>s, PTL
     DEF Spec, FinalStaysFinal

\* A worker that can be neither cancelled nor escalated reaches its finally clause with the
\* lock it releases, so a drive is stolen only by a job of its own that can be.
Disturbed(w) == JobOf(w) \in Cancellable \cup Watched

StolenByDisturbed ==
  /\ \A w \in Workers : pc[w] \in {"ended", "releasing"} /\ drive[w] \in Drives =>
       w \in holds \/ (Disturbed(w) /\ drive[w] = DriveOf[JobOf(w)])
  /\ \A d \in stolen : \E j \in Cancellable \cup Watched : DriveOf[j] = d

LEMMA StolenStep ==
  Typed /\ Threads /\ OneWorkerEach /\ StolenByDisturbed /\ [Next]_vars => StolenByDisturbed'
<1> SUFFICES ASSUME Typed, Threads, OneWorkerEach, StolenByDisturbed, [Next]_vars
             PROVE  StolenByDisturbed'
  OBVIOUS
<1> USE EngineAssumption, WorkerJob, UnwatchedWorker
<1> USE DEF Typed, TypeOK, Threads, NotYetCreated, OneDrive, AutoOnly, Holding, OneWorkerEach,
        Finished, StolenByDisturbed, Disturbed,
        BeforeLock, Executing, Controls, ThreadLess, Closing, vars, rows, flags, workers,
        clients, history
<1>1. ASSUME NEW w \in Workers, Register(w) PROVE StolenByDisturbed'
  BY <1>1 DEF Register, Step, SetStatus
<1>2. ASSUME NEW w \in Workers, AcquireAtOnce(w) PROVE StolenByDisturbed'
  BY <1>2 DEF AcquireAtOnce, Acquire, Step, SetStatus
<1>3. ASSUME NEW w \in Workers, StartWaiting(w) PROVE StolenByDisturbed'
  BY <1>3 DEF StartWaiting, Step, SetStatus
<1>4. ASSUME NEW w \in Workers, AcquireAfterWait(w) PROVE StolenByDisturbed'
  BY <1>4 DEF AcquireAfterWait, Acquire, Step, SetStatus
<1>5. ASSUME NEW w \in Workers, WaitCancelled(w) PROVE StolenByDisturbed'
  BY <1>5 DEF WaitCancelled, SeesCancel, EndWith, Step, SetStatus, OnTape
<1>6. ASSUME NEW w \in Workers, LostRegistration(w) PROVE StolenByDisturbed'
  BY <1>6 DEF LostRegistration, ReadsFlags, EndWith, Step, SetStatus, OnTape
<1>7. ASSUME NEW w \in Workers, SelectDrive(w) PROVE StolenByDisturbed'
  BY <1>7 DEF SelectDrive, Step
<1>8. ASSUME NEW w \in Workers, SelectCancelled(w) PROVE StolenByDisturbed'
  BY <1>8 DEF SelectCancelled, SeesCancel, EndWith, Step, SetStatus, OnTape
<1>9. ASSUME NEW w \in Workers, RecordSelectedDrive(w) PROVE StolenByDisturbed'
  BY <1>9 DEF RecordSelectedDrive, EndWith, Step, SetStatus, OnTape
<1>10. ASSUME NEW w \in Workers, ScanCancelled(w) PROVE StolenByDisturbed'
  BY <1>10 DEF ScanCancelled, SeesCancel, EndWith, Step, SetStatus, OnTape
<1>11. ASSUME NEW w \in Workers, ScanFailed(w) PROVE StolenByDisturbed'
  BY <1>11 DEF ScanFailed, EndWith, Step, SetStatus, OnTape
<1>12. ASSUME NEW w \in Workers, ScanEmpty(w) PROVE StolenByDisturbed'
  BY <1>12 DEF ScanEmpty, EndWith, Step, SetStatus, OnTape
<1>13. ASSUME NEW w \in Workers, PlanFiles(w) PROVE StolenByDisturbed'
  BY <1>13 DEF PlanFiles, Step, Busy
<1>14. ASSUME NEW w \in Workers, TapeCancelled(w) PROVE StolenByDisturbed'
  BY <1>14 DEF TapeCancelled, SeesCancel, EndWith, Step, SetStatus, OnTape
<1>15. ASSUME NEW w \in Workers, TapeReady(w) PROVE StolenByDisturbed'
  BY <1>15 DEF TapeReady, Step, Busy
<1>16. ASSUME NEW w \in Workers, LoadTape(w) PROVE StolenByDisturbed'
  BY <1>16 DEF LoadTape, Step, Busy
<1>17. ASSUME NEW w \in Workers, LoadFailed(w) PROVE StolenByDisturbed'
  BY <1>17 DEF LoadFailed, Step, Busy
<1>18. ASSUME NEW w \in Workers, LeaveTape(w) PROVE StolenByDisturbed'
  BY <1>18 DEF LeaveTape, Step, Busy
<1>19. ASSUME NEW w \in Workers, NextFile(w) PROVE StolenByDisturbed'
  BY <1>19 DEF NextFile, Step, Busy
<1>20. ASSUME NEW w \in Workers, CopyFile(w) PROVE StolenByDisturbed'
  BY <1>20 DEF CopyFile, MayCopy, Step, Busy
<1>21. ASSUME NEW w \in Workers, Finish(w) PROVE StolenByDisturbed'
  BY <1>21 DEF Finish, Step, SetStatus, Busy
<1>22. ASSUME NEW w \in Workers, CleanUpTapes(w) PROVE StolenByDisturbed'
  BY <1>22 DEF CleanUpTapes, Step, Busy
<1>42. ASSUME NEW w \in Workers, WrapUpFails(w) PROVE StolenByDisturbed'
  BY <1>42 DEF WrapUpFails, Step, SetStatus, Busy
<1>23. ASSUME NEW w \in Workers, Unregister(w) PROVE StolenByDisturbed'
  BY <1>23 DEF Unregister, Step
<1>24. ASSUME NEW w \in Workers, Release(w) PROVE StolenByDisturbed'
  BY <1>24 DEF Release, Step
<1>25. ASSUME NEW j \in Jobs, CreateJob(j) PROVE StolenByDisturbed'
  <2>1. UNCHANGED <<drive, holds, stolen>>
    BY <1>25 DEF CreateJob
  <2>2. ASSUME NEW w \in Workers, pc'[w] \in {"ended", "releasing"} PROVE pc'[w] = pc[w]
    BY <1>25, <2>2 DEF CreateJob, Step
  <2> HIDE EngineAssumption, WorkerJob, UnwatchedWorker
           DEF Typed, TypeOK, Threads, NotYetCreated, OneDrive, AutoOnly, Holding, OneWorkerEach
  <2>q. QED
    BY <2>1, <2>2
<1>26. ASSUME NEW j \in Jobs, Cancel(j) PROVE StolenByDisturbed'
  BY <1>26 DEF Cancel
<1>27. ASSUME NEW j \in Jobs, PauseCheck(j) PROVE StolenByDisturbed'
  BY <1>27 DEF PauseCheck
<1>28. ASSUME NEW j \in Jobs, PauseWrite(j) PROVE StolenByDisturbed'
  BY <1>28 DEF PauseWrite, SetStatus
<1>29. ASSUME NEW w \in Workers, ResumeCheck(w) PROVE StolenByDisturbed'
  BY <1>29 DEF ResumeCheck, CanResume, Resumable, Step
<1>30. ASSUME NEW w \in Workers, ResumeStart(w) PROVE StolenByDisturbed'
  BY <1>30 DEF ResumeStart, Step, SetStatus
<1>31. ASSUME AutopilotScan PROVE StolenByDisturbed'
  BY <1>31 DEF AutopilotScan
<1>32. ASSUME NEW j \in Jobs, MaintenancePause(j) PROVE StolenByDisturbed'
  BY <1>32 DEF MaintenancePause
<1>33. ASSUME NEW j \in Jobs, SourceReachable(j) PROVE StolenByDisturbed'
  BY <1>33 DEF SourceReachable
<1>34. ASSUME NEW j \in Jobs, Escalate(j) PROVE StolenByDisturbed'
  BY <1>34 DEF Escalate, SetStatus
<1>35. ASSUME NEW o \in Ops, OpCheck(o) PROVE StolenByDisturbed'
  BY <1>35 DEF OpCheck
<1>36. ASSUME NEW o \in Ops, OpLock(o) PROVE StolenByDisturbed'
  BY <1>36 DEF OpLock
<1>37. ASSUME NEW o \in Ops, OpRefused(o) PROVE StolenByDisturbed'
  BY <1>37 DEF OpRefused
<1>38. ASSUME NEW o \in Ops, OpEnd(o) PROVE StolenByDisturbed'
  BY <1>38 DEF OpEnd
<1>39. ASSUME Restart PROVE StolenByDisturbed'
  BY <1>39 DEF Restart
<1>40. ASSUME ScanInventory PROVE StolenByDisturbed'
  BY <1>40 DEF ScanInventory
<1>41. CASE UNCHANGED vars
  BY <1>41
<1>q. QED
  BY <1>1, <1>2, <1>3, <1>4, <1>5, <1>6, <1>7, <1>8, <1>9, <1>10, <1>11,
     <1>12, <1>13, <1>14, <1>15, <1>16, <1>17, <1>18, <1>19, <1>20, <1>21,
     <1>22, <1>23, <1>24, <1>25, <1>26, <1>27, <1>28, <1>29, <1>30, <1>31,
     <1>32, <1>33, <1>34, <1>35, <1>36, <1>37, <1>38, <1>39, <1>40, <1>41, <1>42
  DEF Next, WorkerStep, OperatorStep, AutopilotStep, OpStep

\* A drive whose jobs can neither be cancelled nor lose a watched source has one user at a
\* time, always, whatever is paused, initialised or restarted: the locks are then right
\* without any exception.
THEOREM UndisturbedDrivesExclusive ==
  ASSUME NEW d \in Drives, \A j \in Jobs : DriveOf[j] = d => j \notin Cancellable \cup Watched
  PROVE  Spec => []Exclusive(d)
<1>1. Init => SharedOnlyIfStolen
  BY DEF Init, SharedOnlyIfStolen, Exclusive, Holders, BusyOps
<1>2. Init => StolenByDisturbed
  BY DEF Init, StolenByDisturbed
<1>3. StolenByDisturbed /\ SharedOnlyIfStolen => Exclusive(d)
  BY EngineAssumption DEF StolenByDisturbed, SharedOnlyIfStolen
<1>q. QED
  BY TypedInit, TypedStep, ThreadsInit, ThreadsStep, OneWorkerInit, OneWorkerStep,
     SharingStep, StolenStep, <1>1, <1>2, <1>3, PTL DEF Spec

=============================================================================
