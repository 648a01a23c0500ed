------------------------- MODULE JobsOnLibraryProofs -------------------------
(* Proofs about JobsOnLibrary, for any jobs, drives, tapes and slots, with or   *)
(* without faults: what JobEngineProofs and TapeControllerProofs say of the     *)
(* components is put together.                                                  *)
EXTENDS JobsOnLibrary, JobEngineProofs

-----------------------------------------------------------------------------
(* The composition implements its components                               *)

LEMMA ShelfFacts ==
  /\ FirstDrive \in Drives
  /\ Slots \subseteq Nat
  /\ Slots \cap Drives = {}
  /\ NoTape \notin Tapes
  /\ NoSlot \notin Slots \cup Drives
  /\ {HasDriveSg, Faulty, Meddling} \subseteq BOOLEAN
BY EngineAssumption, ShelfAssumption

LEMMA CallsAreSteps ==
  ASSUME NEW d \in Drives, NEW t \in Tapes,
         \/ Lib!Call(d, "load", t) \/ Lib!Call(d, "mount", t)
         \/ Lib!Call(d, "unload", NoTape) \/ Lib!Unmount(d)
  PROVE  Lib!Next
BY DEF Lib!Next, Lib!CallStep

\* Every step of the jobs on the library is a step of the jobs, or leaves them as they are.
LEMMA EngineStep == [JobsNext]_all => [Next]_vars
BY DEF JobsNext, all, WorkerGoesOn, WorkerCalls, OpGoesOn, OpCalls, Elsewhere, LibraryGoesOn,
       RestartAll, Next

\* ... and a step of the controller and its library, or leaves them as they are.
LEMMA LibraryStep == [JobsNext]_all => [Lib!Next]_(Lib!vars)
<1> SUFFICES ASSUME [JobsNext]_all PROVE [Lib!Next]_(Lib!vars)
  OBVIOUS
<1>1. UNCHANGED libraryVars => UNCHANGED Lib!vars
  BY DEF libraryVars, Lib!vars, Lib!library, Lib!controller
<1>2. ASSUME NEW w \in Workers, WorkerCalls(w) PROVE Lib!Next
  <2>1. drive[w] \in Drives /\ TapeOf[JobOf(w)] \in Tapes
    BY <1>2, EngineAssumption, WorkerJob DEF WorkerCalls, Calling, HasDrive
  <2>q. QED
    BY <1>2, <2>1, CallsAreSteps DEF WorkerCalls
<1>3. ASSUME NEW o \in Ops, OpCalls(o) PROVE Lib!Next
  <2>1. OpDrive[o] \in Drives /\ OpTape[o] \in Tapes
    BY <1>3, EngineAssumption
  <2>q. QED
    BY <1>3, <2>1, CallsAreSteps DEF OpCalls
<1>4. LibraryGoesOn => Lib!Next
  BY DEF LibraryGoesOn, CallGoesOn, Lib!Next, Lib!CallStep
<1>5. RestartAll => Lib!Next
  BY DEF RestartAll, Lib!Next
<1>q. QED
  BY <1>1, <1>2, <1>3, <1>4, <1>5
  DEF JobsNext, all, WorkerGoesOn, OpGoesOn, Elsewhere

\* The jobs on the library are the jobs of JobEngine: what is proved of those holds here.
THEOREM ImplementsEngine == JobsSpec => Spec
BY EngineStep, PTL DEF JobsSpec, JobsInit, Spec

\* The controller is used as TapeController says: one call at a time on each drive.
THEOREM ImplementsController == JobsSpec => Lib!Spec
BY LibraryStep, PTL DEF JobsSpec, JobsInit, Lib!Spec
-----------------------------------------------------------------------------
(* The locks give each drive one user                                      *)

\* What a worker's step changes: nothing of the other workers, and a worker with a tape or
\* with calls to make keeps its drive and its lock.
WorkerOnly(w) ==
  /\ pc \in [Workers -> Controls] /\ pc' \in [Workers -> Controls]
  /\ \A v \in Workers \ {w} :
       pc'[v] = pc[v] /\ drive'[v] = drive[v] /\ (v \in holds' <=> v \in holds)
  /\ op' = op /\ stolen \subseteq stolen'
  /\ pc[w] \in Executing \cup {"cleanup", "ended"} => drive'[w] = drive[w] /\ w \in holds'
  /\ OnTape(w)' => OnTape(w) \/ (pc[w] = "load" /\ pc'[w] = "file")
  /\ OnTape(w) => OnTape(w)' \/ pc'[w] \in {"final", "ended"}

LEMMA WorkerMoves ==
  ASSUME Typed, Threads, NEW w \in Workers, WorkerStep(w), pc[w] = "ended" => w \in holds
  PROVE  WorkerOnly(w)
<1> USE DEF Typed, TypeOK, Threads, Holding, AutoOnly, OneDrive, WorkerOnly, OnTape,
        BeforeLock, Executing, Controls, ThreadLess, Closing, rows, flags, workers, clients,
        history
<1>1. ASSUME Register(w) PROVE WorkerOnly(w)
  BY <1>1 DEF Register, Step, SetStatus
<1>2. ASSUME AcquireAtOnce(w) PROVE WorkerOnly(w)
  BY <1>2 DEF AcquireAtOnce, Acquire, Step, SetStatus
<1>3. ASSUME StartWaiting(w) PROVE WorkerOnly(w)
  BY <1>3 DEF StartWaiting, Step, SetStatus
<1>4. ASSUME AcquireAfterWait(w) PROVE WorkerOnly(w)
  BY <1>4 DEF AcquireAfterWait, Acquire, Step, SetStatus
<1>5. ASSUME WaitCancelled(w) PROVE WorkerOnly(w)
  BY <1>5 DEF WaitCancelled, EndWith, Step, SetStatus
<1>6. ASSUME LostRegistration(w) PROVE WorkerOnly(w)
  BY <1>6 DEF LostRegistration, ReadsFlags, EndWith, Step, SetStatus
<1>7. ASSUME SelectDrive(w) PROVE WorkerOnly(w)
  BY <1>7 DEF SelectDrive, Step
<1>8. ASSUME SelectCancelled(w) PROVE WorkerOnly(w)
  BY <1>8 DEF SelectCancelled, EndWith, Step, SetStatus
<1>9. ASSUME RecordSelectedDrive(w) PROVE WorkerOnly(w)
  BY <1>9 DEF RecordSelectedDrive, EndWith, Step, SetStatus
<1>10. ASSUME ScanCancelled(w) PROVE WorkerOnly(w)
  BY <1>10 DEF ScanCancelled, EndWith, Step, SetStatus
<1>11. ASSUME ScanFailed(w) PROVE WorkerOnly(w)
  BY <1>11 DEF ScanFailed, EndWith, Step, SetStatus
<1>12. ASSUME ScanEmpty(w) PROVE WorkerOnly(w)
  BY <1>12 DEF ScanEmpty, EndWith, Step, SetStatus
<1>13. ASSUME PlanFiles(w) PROVE WorkerOnly(w)
  BY <1>13 DEF PlanFiles, Step, Busy
<1>14. ASSUME TapeCancelled(w) PROVE WorkerOnly(w)
  BY <1>14 DEF TapeCancelled, EndWith, Step, SetStatus
<1>15. ASSUME TapeReady(w) PROVE WorkerOnly(w)
  BY <1>15 DEF TapeReady, Step, Busy
<1>16. ASSUME LoadTape(w) PROVE WorkerOnly(w)
  BY <1>16 DEF LoadTape, Step
<1>17. ASSUME LoadFailed(w) PROVE WorkerOnly(w)
  BY <1>17 DEF LoadFailed, Step, Busy
<1>18. ASSUME LeaveTape(w) PROVE WorkerOnly(w)
  BY <1>18 DEF LeaveTape, Step, Busy
<1>19. ASSUME NextFile(w) PROVE WorkerOnly(w)
  BY <1>19 DEF NextFile, Step, Busy
<1>20. ASSUME CopyFile(w) PROVE WorkerOnly(w)
  BY <1>20 DEF CopyFile, MayCopy, Step, Busy
<1>21. ASSUME Finish(w) PROVE WorkerOnly(w)
  BY <1>21 DEF Finish, Step, SetStatus, Busy
<1>25. ASSUME WrapUpFails(w) PROVE WorkerOnly(w)
  BY <1>25 DEF WrapUpFails, Step, SetStatus, Busy
<1>22. ASSUME CleanUpTapes(w) PROVE WorkerOnly(w)
  BY <1>22 DEF CleanUpTapes, Step, Busy
<1>23. ASSUME Unregister(w) PROVE WorkerOnly(w)
  BY <1>23 DEF Unregister, Step
<1>24. ASSUME Release(w) PROVE WorkerOnly(w)
  BY <1>24 DEF Release, Step
<1>q. QED
  BY <1>1, <1>2, <1>3, <1>4, <1>5, <1>6, <1>7, <1>8, <1>9, <1>10, <1>11, <1>12,
     <1>13, <1>14, <1>15, <1>16, <1>17, <1>18, <1>19, <1>20, <1>21, <1>22, <1>23, <1>24, <1>25
  DEF WorkerStep

\* A drive nobody stole is idle unless a worker with its lock copies files or has calls to
\* make, or an initialisation is under way; and while a worker copies, its drive serves the
\* mount it made.
InUseBy(d) ==
  \/ \E w \in Holders(d) : Calling(w) \/ OnTape(w)
  \/ BusyOps(d) # {}

DrivesServe ==
  /\ \A d \in Drives \ stolen : stage[d] # "idle" => InUseBy(d)
  /\ \A w \in Workers : OnTape(w) /\ drive[w] \notin stolen =>
       stage[drive[w]] = "using" /\ call[drive[w]].tape = TapeOf[JobOf(w)]

JobsInv == Typed /\ Threads /\ SharedOnlyIfStolen /\ Lib!RecordInv

LEMMA OnTapeHolds ==
  ASSUME Typed, Threads, NEW w \in Workers, OnTape(w) \/ Calling(w)
  PROVE  /\ HasDrive(w) /\ w \in Holders(drive[w])
         /\ \A d \in Drives : w \in Holders(d) => d = drive[w]
BY EngineAssumption DEF Typed, TypeOK, Threads, Holding, AutoOnly, OnTape, Calling, HasDrive,
   Executing, Holders, HeldDrive

LEMMA StagesTyped ==
  Lib!RecordInv => /\ stage = [d \in Drives |-> stage[d]] /\ call = [d \in Drives |-> call[d]]
                   /\ Lib!CallTypes
BY DEF Lib!RecordInv, Lib!Typed, Lib!CallsOK, Lib!CallTypes

\* A call on one drive leaves the others alone, and one under way is not a mount in use.
OnlyOn(d) == \A e \in Drives \ {d} : stage'[e] = stage[e] /\ call'[e] = call[e]

LEMMA CallsStayOnDrive ==
  ASSUME Lib!RecordInv, NEW d \in Drives
  PROVE  /\ \A t \in Tapes \cup {NoTape}, g \in {"load", "mount", "unload"} :
              Lib!Call(d, g, t) => OnlyOn(d)
         /\ Lib!Unmount(d) => OnlyOn(d)
         /\ CallGoesOn(d) => OnlyOn(d) /\ stage[d] \notin {"idle", "using"}
<1> USE StagesTyped
<1> USE DEF OnlyOn, Lib!Goto, Lib!GotoWith
<1>1. ASSUME NEW t \in Tapes \cup {NoTape}, NEW g \in {"load", "mount", "unload"},
             Lib!Call(d, g, t)
      PROVE  OnlyOn(d)
  BY <1>1 DEF Lib!Call
<1>2. Lib!Unmount(d) => OnlyOn(d)
  BY DEF Lib!Unmount
<1> DEFINE Stays == OnlyOn(d) /\ stage[d] \notin {"idle", "using"}
<1>3. Lib!LoadStatus(d) => Stays
  BY DEF Lib!LoadStatus, Lib!Loaded, Lib!LoadReturns
<1>4. Lib!LoadScan(d) => Stays
  BY DEF Lib!LoadScan
<1>5. Lib!LoadIssue(d) => Stays
  BY DEF Lib!LoadIssue, Lib!Loaded, Lib!LoadReturns
<1>6. Lib!LoadConfirm(d) => Stays
  BY DEF Lib!LoadConfirm, Lib!Loaded, Lib!LoadReturns
<1>7. Lib!UnloadCheck(d) => Stays
  BY DEF Lib!UnloadCheck, Lib!UnloadReturns
<1>8. Lib!UnloadPrepare(d) => Stays
  BY DEF Lib!UnloadPrepare
<1>9. Lib!UnloadIssue(d) => Stays
  BY DEF Lib!UnloadIssue, Lib!Unloaded, Lib!UnloadReturns
<1>10. Lib!UnloadConfirm(d) => Stays
  BY DEF Lib!UnloadConfirm, Lib!Unloaded, Lib!UnloadReturns
<1>11. Lib!MountCheck(d) => Stays
  BY DEF Lib!MountCheck
<1>12. Lib!MountDo(d) => Stays
  BY DEF Lib!MountDo
<1>q. QED
  BY <1>1, <1>2, <1>3, <1>4, <1>5, <1>6, <1>7, <1>8, <1>9, <1>10, <1>11, <1>12 DEF CallGoesOn

\* A user of a drive that makes a call, when the drive is not stolen, is its only user: no
\* worker copies from it.
LEMMA CallsServe ==
  ASSUME JobsInv, DrivesServe, UNCHANGED vars, NEW d \in Drives, OnlyOn(d), InUseBy(d),
         d \notin stolen => \A w \in Workers : OnTape(w) => drive[w] # d
  PROVE  DrivesServe'
<1> USE DEF vars, rows, flags, workers, clients, history, DrivesServe, InUseBy, Holders,
        HeldDrive, BusyOps, Calling, HasDrive, OnTape, OnlyOn
<1>1. ASSUME NEW e \in Drives \ stolen', stage'[e] # "idle" PROVE InUseBy(e)'
  BY <1>1
<1>2. ASSUME NEW w \in Workers, OnTape(w)', drive'[w] \notin stolen'
      PROVE  stage'[drive'[w]] = "using" /\ call'[drive'[w]].tape = TapeOf[JobOf(w)]
  <2>1. OnTape(w) /\ drive'[w] = drive[w] /\ drive[w] \notin stolen
    BY <1>2
  <2>2. drive[w] \in Drives
    BY <2>1, OnTapeHolds DEF JobsInv
  <2>q. QED
    BY <2>1, <2>2
<1>q. QED
  BY <1>1, <1>2

LEMMA WorkerServes ==
  ASSUME JobsInv, DrivesServe, NEW w \in Workers, WorkerGoesOn(w)
  PROVE  DrivesServe'
<1>0. Typed /\ Threads /\ UNCHANGED libraryVars /\ (Calling(w) => Awaited(w))
  BY DEF JobsInv, WorkerGoesOn
<1>u. UNCHANGED <<stage, call>>
  BY <1>0 DEF libraryVars
<1>1. CASE ~(pc[w] = "ended" => w \in holds)
  <2>1. Unregister(w)
    BY <1>1 DEF WorkerGoesOn, WorkerStep, Register, AcquireAtOnce, StartWaiting,
       AcquireAfterWait, WaitCancelled, LostRegistration, ReadsFlags, SelectDrive,
       SelectCancelled, RecordSelectedDrive, ScanCancelled, ScanFailed, ScanEmpty, PlanFiles,
       TapeCancelled, TapeReady, LoadTape, LoadFailed, LeaveTape, NextFile, CopyFile, MayCopy,
       Finish, WrapUpFails, CleanUpTapes, Release
  <2>q. QED
    BY <1>0, <1>u, <1>1, <2>1
    DEF Unregister, Step, workers, clients, history, DrivesServe, InUseBy, Holders,
        HeldDrive, BusyOps, Calling, HasDrive, OnTape, Typed, TypeOK
<1>2. CASE pc[w] = "ended" => w \in holds
  <2>0. WorkerOnly(w)
    BY <1>0, <1>2, WorkerMoves DEF WorkerGoesOn
  <2>1. ASSUME NEW d \in Drives \ stolen', stage'[d] # "idle" PROVE InUseBy(d)'
    <3>1. d \notin stolen /\ stage[d] # "idle"
      BY <2>0, <2>1, <1>u DEF WorkerOnly
    <3>2. CASE BusyOps(d) # {}
      BY <3>2, <2>0 DEF WorkerOnly, BusyOps, InUseBy
    <3>3. ASSUME NEW v \in Holders(d), Calling(v) \/ OnTape(v), v # w PROVE InUseBy(d)'
      <4>1. v \in Holders(d)' /\ (Calling(v)' \/ OnTape(v)')
        BY <3>3, <2>0, <1>0 DEF WorkerOnly, Holders, HeldDrive, Calling, HasDrive, OnTape, Typed,
           TypeOK
      <4>q. QED
        BY <4>1 DEF InUseBy
    <3>4. ASSUME w \in Holders(d), Calling(w) \/ OnTape(w) PROVE InUseBy(d)'
      <4>1. drive[w] = d /\ HasDrive(w)
        BY <3>4, <1>0, OnTapeHolds
      <4>2. pc[w] \in Executing \cup {"cleanup", "ended"}
        BY <3>4 DEF Calling, OnTape, Executing
      <4>3. w \in Holders(d)' /\ HasDrive(w)'
        BY <4>1, <4>2, <2>0, EngineAssumption DEF WorkerOnly, Holders, HeldDrive, HasDrive
      <4>4. Calling(w)' \/ OnTape(w)'
        <5>1. CASE Calling(w)
          <6>1. pc'[w] = "file"
            BY <5>1, <4>1, <3>1, <1>0 DEF Awaited
          <6>q. QED
            BY <6>1 DEF OnTape
        <5>2. CASE OnTape(w)
          BY <5>2, <4>3, <2>0 DEF WorkerOnly, Calling
        <5>q. QED
          BY <3>4, <5>1, <5>2
      <4>q. QED
        BY <4>3, <4>4 DEF InUseBy
    <3>q. QED
      BY <3>1, <3>2, <3>3, <3>4 DEF DrivesServe, InUseBy
  <2>2. ASSUME NEW v \in Workers, OnTape(v)', drive'[v] \notin stolen'
        PROVE  stage'[drive'[v]] = "using" /\ call'[drive'[v]].tape = TapeOf[JobOf(v)]
    <3>1. CASE v # w
      <4>1. OnTape(v) /\ drive'[v] = drive[v] /\ drive[v] \notin stolen
        BY <3>1, <2>2, <2>0 DEF WorkerOnly, OnTape
      <4>q. QED
        BY <4>1, <1>u DEF DrivesServe
    <3>2. CASE v = w /\ OnTape(w)
      <4>1. drive'[w] = drive[w] /\ drive[w] \notin stolen
        BY <3>2, <2>2, <2>0 DEF WorkerOnly, OnTape, Executing
      <4>q. QED
        BY <3>2, <4>1, <1>u DEF DrivesServe
    <3>3. CASE v = w /\ pc[w] = "load" /\ pc'[w] = "file"
      <4>1. Calling(w)
        BY <3>3, <1>0, EngineAssumption DEF Calling, HasDrive, Typed, TypeOK, Threads, Holding,
           AutoOnly, Executing
      <4>2. drive'[w] = drive[w]
        BY <3>3, <2>0 DEF WorkerOnly, Executing
      <4>q. QED
        BY <3>3, <4>1, <4>2, <1>0, <1>u DEF Awaited
    <3>q. QED
      BY <3>1, <3>2, <3>3, <2>2, <2>0 DEF WorkerOnly
  <2>q. QED
    BY <2>1, <2>2 DEF DrivesServe
<1>q. QED
  BY <1>1, <1>2

LEMMA ServeStep == JobsInv /\ DrivesServe /\ [JobsNext]_all => DrivesServe'
<1> SUFFICES ASSUME JobsInv, DrivesServe, [JobsNext]_all PROVE DrivesServe'
  OBVIOUS
<1>0. Typed /\ Threads /\ SharedOnlyIfStolen /\ Lib!RecordInv
  BY DEF JobsInv
<1>1. ASSUME NEW w \in Workers, WorkerGoesOn(w) PROVE DrivesServe'
  BY <1>1, WorkerServes
<1>2. ASSUME NEW w \in Workers, WorkerCalls(w) PROVE DrivesServe'
  <2>1. Calling(w) /\ UNCHANGED vars /\ ~OnTape(w)
    BY <1>2 DEF WorkerCalls, Calling, OnTape
  <2>2. drive[w] \in Drives /\ w \in Holders(drive[w])
    BY <2>1, <1>0, OnTapeHolds DEF HasDrive
  <2>3. OnlyOn(drive[w])
    BY <1>0, <1>2, <2>2, CallsStayOnDrive, EngineAssumption, WorkerJob DEF WorkerCalls
  <2>4. drive[w] \notin stolen => \A v \in Workers : OnTape(v) => drive[v] # drive[w]
    BY <1>0, <2>1, <2>2, OnTapeHolds DEF SharedOnlyIfStolen, Exclusive
  <2>5. InUseBy(drive[w])
    BY <2>1, <2>2 DEF InUseBy
  <2>q. QED
    BY <2>1, <2>2, <2>3, <2>4, <2>5, CallsServe
<1>3. ASSUME NEW o \in Ops, OpCalls(o) PROVE DrivesServe'
  <2>1. op[o] = "busy" /\ UNCHANGED vars /\ OpDrive[o] \in Drives /\ o \in BusyOps(OpDrive[o])
    BY <1>3, EngineAssumption DEF OpCalls, BusyOps
  <2>2. OnlyOn(OpDrive[o])
    BY <1>0, <1>3, <2>1, CallsStayOnDrive, EngineAssumption DEF OpCalls
  <2>3. OpDrive[o] \notin stolen => \A v \in Workers : OnTape(v) => drive[v] # OpDrive[o]
    BY <1>0, <2>1, OnTapeHolds DEF SharedOnlyIfStolen, Exclusive
  <2>4. InUseBy(OpDrive[o])
    BY <2>1 DEF InUseBy
  <2>q. QED
    BY <2>1, <2>2, <2>3, <2>4, CallsServe
<1>4. ASSUME NEW o \in Ops, OpGoesOn(o) PROVE DrivesServe'
  <2>1. UNCHANGED <<stage, call, workers, history>> /\ OpStep(o)
    BY <1>4 DEF OpGoesOn, libraryVars, OpStep, OpCheck, OpLock, OpRefused, OpEnd
  <2>2. \A p \in Ops \ {o} : op'[p] = op[p]
    BY <2>1, <1>0 DEF OpStep, OpCheck, OpLock, OpRefused, OpEnd, Typed, TypeOK
  <2>3. op[o] = "busy" => stage[OpDrive[o]] = "idle"
    BY <1>4 DEF OpGoesOn
  <2>q. QED
    BY <2>1, <2>2, <2>3
    DEF DrivesServe, InUseBy, Holders, HeldDrive, BusyOps, Calling, HasDrive, OnTape, workers,
        history
<1>5. CASE Elsewhere
  <2>1. UNCHANGED <<stage, call, op, stolen, drive, holds>>
    BY <1>5
    DEF Elsewhere, libraryVars, OperatorStep, AutopilotStep, ScanInventory, CreateJob, Cancel,
        PauseCheck, PauseWrite, ResumeCheck, ResumeStart, AutopilotScan, MaintenancePause,
        SourceReachable, Escalate, workers, clients, history
  <2>2. \A w \in Workers : pc'[w] = pc[w] \/ ( /\ pc[w] \in {"idle", "requested"}
                                              /\ pc'[w] \in {"requested", "created"})
    BY <1>5, <1>0, WorkerJob
    DEF Elsewhere, OperatorStep, AutopilotStep, ScanInventory, CreateJob, Cancel,
        PauseCheck, PauseWrite, ResumeCheck, ResumeStart, AutopilotScan, MaintenancePause,
        SourceReachable, Escalate, workers, Step, Typed, TypeOK, Threads, NotYetCreated
  <2>3. \A w \in Workers : (Calling(w)' <=> Calling(w)) /\ (OnTape(w)' <=> OnTape(w))
    BY <2>1, <2>2 DEF Calling, HasDrive, OnTape
  <2>4. \A d \in Drives : Holders(d)' = Holders(d) /\ BusyOps(d)' = BusyOps(d)
                          /\ Holders(d) \subseteq Workers
    BY <2>1, <1>0 DEF Holders, HeldDrive, BusyOps, Typed, TypeOK
  <2>5. \A d \in Drives : InUseBy(d) => InUseBy(d)'
    BY <2>3, <2>4 DEF InUseBy
  <2>q. QED
    BY <2>1, <2>3, <2>5 DEF DrivesServe
<1>6. CASE LibraryGoesOn
  <2>1. ASSUME NEW d \in Drives, CallGoesOn(d), UNCHANGED vars PROVE DrivesServe'
    <3>1. OnlyOn(d) /\ stage[d] \notin {"idle", "using"}
      BY <1>0, <2>1, CallsStayOnDrive
    <3>2. d \notin stolen => InUseBy(d) /\ \A w \in Workers : OnTape(w) => drive[w] # d
      BY <3>1 DEF DrivesServe
    <3>3. ASSUME d \in stolen PROVE DrivesServe'
      BY <2>1, <3>1, <3>3, <1>0, OnTapeHolds
      DEF DrivesServe, InUseBy, Holders, HeldDrive, BusyOps, Calling, HasDrive, OnTape, OnlyOn,
          vars, workers, clients, history
    <3>q. QED
      BY <2>1, <3>1, <3>2, <3>3, CallsServe
  <2>2. ASSUME Lib!ArmStops \/ Lib!Operator PROVE UNCHANGED <<stage, call>>
    BY <2>2 DEF Lib!ArmStops, Lib!Operator, Lib!Transfer, Lib!MoveToDrive, Lib!MoveToSlot
  <2>3. ASSUME UNCHANGED vars, UNCHANGED <<stage, call>> PROVE DrivesServe'
    BY <2>3
    DEF DrivesServe, InUseBy, Holders, HeldDrive, BusyOps, Calling, HasDrive, OnTape, vars,
        workers, clients, history
  <2>q. QED
    BY <1>6, <2>1, <2>2, <2>3 DEF LibraryGoesOn
<1>7. CASE RestartAll
  BY <1>7 DEF RestartAll, Restart, Lib!Restart, DrivesServe, OnTape
<1>8. CASE UNCHANGED all
  BY <1>8
  DEF all, libraryVars, DrivesServe, InUseBy, Holders, HeldDrive, BusyOps, Calling, HasDrive,
      OnTape, vars, workers, clients, history
<1>q. QED
  BY <1>1, <1>2, <1>3, <1>4, <1>5, <1>6, <1>7, <1>8 DEF JobsNext

LEMMA JobsAlways == JobsSpec => [](JobsInv /\ DrivesServe)
<1>1. Init => SharedOnlyIfStolen
  BY DEF Init, SharedOnlyIfStolen, Exclusive, Holders, BusyOps
<1>2. JobsInit => DrivesServe
  BY DEF JobsInit, Init, Lib!Init, DrivesServe, OnTape
<1>3. Spec => [](Typed /\ Threads /\ SharedOnlyIfStolen)
  BY TypedInit, TypedStep, ThreadsInit, ThreadsStep, SharingStep, <1>1, PTL DEF Spec
<1>4. JobsSpec => []Lib!RecordInv
  <2>1. Lib!Spec => []Lib!RecordInv
    BY ShelfFacts, Lib!RecordInvAlways
  <2>q. QED
    BY <2>1, ImplementsController, PTL
<1>5. JobsInv <=> Typed /\ Threads /\ SharedOnlyIfStolen /\ Lib!RecordInv
  BY DEF JobsInv
<1>6. JobsSpec => []JobsInv
  BY <1>3, <1>4, <1>5, ImplementsEngine, PTL
<1>q. QED
  BY <1>2, <1>6, ServeStep, PTL DEF JobsSpec

\* UnlockedDrivesIdle is an invariant: the locks provide what TapeController takes for
\* granted, one user of a drive at a time, except on a stolen drive.
THEOREM LocksProtectDrives == JobsSpec => []UnlockedDrivesIdle
<1>1. JobsInv /\ DrivesServe => UnlockedDrivesIdle
  BY DEF JobsInv, DrivesServe, InUseBy, UnlockedDrivesIdle, SharedOnlyIfStolen, Exclusive
<1>q. QED
  BY <1>1, JobsAlways, PTL

\* CopiesToItsTape is an invariant: the locks of the engine and the records of the controller
\* together bring a job's files to the job's tape, with the exceptions it names.
THEOREM FilesReachTheirTape == JobsSpec => []CopiesToItsTape
<1>1. JobsInv /\ DrivesServe => CopiesToItsTape
  <2> SUFFICES ASSUME JobsInv, DrivesServe, NEW w \in Workers, OnTape(w),
                      drive[w] = FirstDrive, FirstDrive \notin stolen \cup doubt
               PROVE  fs[FirstDrive] = TapeOf[JobOf(w)] /\ at[TapeOf[JobOf(w)]] = FirstDrive
    BY DEF CopiesToItsTape
  <2>1. Lib!UsesItsTape /\ Lib!MountsHold
    BY DEF JobsInv, Lib!RecordInv
  <2>2. fs[FirstDrive] = TapeOf[JobOf(w)]
    BY <2>1 DEF DrivesServe, Lib!UsesItsTape
  <2>3. TapeOf[JobOf(w)] # NoTape
    BY EngineAssumption, ShelfAssumption, WorkerJob
  <2>q. QED
    BY <2>1, <2>2, <2>3 DEF Lib!MountsHold
<1>q. QED
  BY <1>1, JobsAlways, PTL

\* If drive_sg was found, a job that copies to a drive whose lock was not stolen writes to the
\* tape in the first drive, whichever its own is, and no other such job copies meanwhile.
OneCopies ==
  HasDriveSg =>
    \A w \in Workers : OnTape(w) /\ drive[w] \notin stolen =>
      /\ at[fs[drive[w]]] = FirstDrive
      /\ \A v \in Workers \ {w} : OnTape(v) => drive[v] \in stolen

\* OneCopies is an invariant: the locks let jobs on different drives run at once, and
\* mount_ltfs, which gives ltfs the first drive's device for each of them
\* (src/backend/tape_controller.py:1507), lets one of them copy and the others fail.
THEOREM OneJobCopies == JobsSpec => []OneCopies
<1>1. JobsInv /\ DrivesServe /\ Lib!UsersMounted /\ Lib!OneFileSystem => OneCopies
  <2> SUFFICES ASSUME JobsInv, DrivesServe, Lib!UsersMounted, Lib!OneFileSystem, HasDriveSg,
                      NEW w \in Workers, OnTape(w), drive[w] \notin stolen
               PROVE  /\ at[fs[drive[w]]] = FirstDrive
                      /\ \A v \in Workers \ {w} : OnTape(v) => drive[v] \in stolen
    BY DEF OneCopies
  <2>1. ASSUME NEW v \in Workers, OnTape(v), drive[v] \notin stolen
        PROVE  /\ drive[v] \in Drives /\ v \in Holders(drive[v])
               /\ fs[drive[v]] # NoTape
    <3>1. drive[v] \in Drives /\ v \in Holders(drive[v])
      BY <2>1, OnTapeHolds DEF JobsInv, HasDrive
    <3>2. stage[drive[v]] = "using"
      BY <2>1 DEF DrivesServe
    <3>q. QED
      BY <3>1, <3>2 DEF Lib!UsersMounted
  <2>2. drive[w] \in Drives /\ w \in Holders(drive[w]) /\ fs[drive[w]] # NoTape
    BY <2>1
  <2>3. ASSUME NEW v \in Workers, OnTape(v), drive[v] \notin stolen PROVE v = w
    <3>1. drive[v] = drive[w]
      BY <2>1, <2>2, <2>3 DEF Lib!OneFileSystem
    <3>q. QED
      BY <2>1, <2>2, <2>3, <3>1 DEF JobsInv, SharedOnlyIfStolen, Exclusive
  <2>q. QED
    BY <2>2, <2>3 DEF Lib!OneFileSystem
<1>2. JobsSpec => []Lib!MountsInv
  <2>1. Lib!Spec => []Lib!MountsInv
    BY ShelfFacts, Lib!MountsAlways
  <2>q. QED
    BY <2>1, ImplementsController, PTL
<1>3. JobsSpec => []Lib!OneFileSystem
  <2>1. Lib!Spec => []Lib!OneFileSystem
    BY ShelfFacts, Lib!OneFileSystemMounted
  <2>q. QED
    BY <2>1, ImplementsController, PTL
<1>4. Lib!MountsInv => Lib!UsersMounted
  BY DEF Lib!MountsInv
<1>q. QED
  BY <1>1, <1>2, <1>3, <1>4, JobsAlways, PTL

=============================================================================
