SPECIFICATION FairSpec
CONSTANTS
  r1 = r1  r2 = r2  d0 = d0  d1 = d1
  Runs = {r1}
  RunDrive <- SameDrive
  Count <- FourEach
  Listed <- OneOfEach
  Size <- OneOfEach
  Threads = 2
  MaxQueue = 2
  MaxBytes = 3
  Threshold = 1
  BufferLimit = 2
  Faulty = {}
  Converted = FALSE
  FullDisk = {}
  BadDrive = {}
  BadDatabase = {}
PROPERTY RoomIsMade
CHECK_DEADLOCK FALSE
