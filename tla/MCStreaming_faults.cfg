SPECIFICATION FairSpec
CONSTANTS
  r1 = r1  r2 = r2  d0 = d0  d1 = d1
  Runs = {r1, r2}
  RunDrive <- SameDrive
  Count <- FourEach
  Listed <- Sizes
  Size <- BigFirst
  Threads = 2
  MaxQueue = 2
  MaxBytes = 4
  Threshold = 3
  BufferLimit = 2
  Faulty <- SecondFaulty
  Converted = FALSE
  FullDisk = {r1}
  BadDrive = {r1, r2}
  BadDatabase = {r1}
PROPERTIES EveryRunEnds
INVARIANTS TypeOK SizeCounterExact OwnFilesOnly NoRecordLost
CHECK_DEADLOCK FALSE
