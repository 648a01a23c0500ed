SPECIFICATION JobsSpec
CONSTANTS
  j1 = j1  j2 = j2  d0 = d0  auto = auto  t1 = t1  t2 = t2  o1 = o1
  Jobs = {j1}
  Drives = {d0}
  FirstDrive = d0
  AutoDrive = auto
  DriveOf <- OnFirst
  Tapes = {t1, t2}
  TapeOf <- OwnTapes
  Ops = {o1}
  OpDrive <- OpFirst
  OpTape <- OpSecond
  Scheduled = {}
  Cancellable = {j1}
  Pausable = {}
  Watched = {}
  MaxResume = 0
  MaxFiles = 1
  MaxRestarts = 1
  Slots = {1, 2}
  NoTape = NoTape
  NoSlot = NoSlot
  HasDriveSg = TRUE
  Faulty = FALSE
  Meddling = TRUE
INVARIANTS UnlockedDrivesIdle CopiesToItsTape
CHECK_DEADLOCK FALSE
