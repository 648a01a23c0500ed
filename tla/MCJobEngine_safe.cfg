SPECIFICATION Spec
CONSTANTS
  j1 = j1  j2 = j2  j3 = j3  d0 = d0  auto = auto  t1 = t1  t2 = t2  o1 = o1
  Jobs = {j1, j2}
  Drives = {d0}
  FirstDrive = d0
  AutoDrive = auto
  DriveOf <- AutoSecond
  Tapes = {t1, t2}
  TapeOf <- TwoTapes
  Ops = {o1}
  OpDrive <- OpOnFirst
  OpTape <- OpOnTape
  Scheduled = {j1}
  Cancellable = {j1, j2}
  Pausable = {j1}
  Watched = {j1}
  MaxResume = 1
  MaxFiles = 1
  MaxRestarts = 1
INVARIANTS TypeOK SharedOnlyIfStolen NoOrphanLock RunningHasWorker LoadedTapeInUse
CHECK_DEADLOCK FALSE
