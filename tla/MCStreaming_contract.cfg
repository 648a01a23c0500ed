SPECIFICATION Spec
CONSTANTS
  r1 = r1  r2 = r2  d0 = d0  d1 = d1
  Runs = {r1, r2}
  RunDrive <- SameDrive
  Count <- FourEach
  Listed <- Sizes
  Size <- Sizes
  Threads = 2
  MaxQueue = 2
  MaxBytes = 4
  Threshold = 3
  BufferLimit = 2
  Faulty <- OneFaulty
  Converted = FALSE
  FullDisk = {}
  BadDrive = {}
  BadDatabase = {}
INVARIANTS CleanBetweenRuns
PROPERTIES KeepsContract
CHECK_DEADLOCK FALSE
