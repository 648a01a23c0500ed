SPECIFICATION FairSpec
CONSTANTS
  j1 = j1  j2 = j2  j3 = j3  d0 = d0  auto = auto  t1 = t1  t2 = t2  o1 = o1
  Jobs = {j1, j2, j3}
  Drives = {d0}
  FirstDrive = d0
  AutoDrive = auto
  DriveOf <- AutoThird
  Tapes = {t1, t2}
  TapeOf <- OneTape
  Ops = {o1}
  OpDrive <- OpOnFirst
  OpTape <- OpOnTape
  Scheduled = {j1}
  Cancellable = {j1, j3}
  Pausable = {j1}
  Watched = {}
  MaxResume = 0
  MaxFiles = 1
  MaxRestarts = 0
PROPERTIES EveryJobConcludes CancelTakesEffect FinalStaysFinal
CHECK_DEADLOCK FALSE
