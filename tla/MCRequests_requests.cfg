SPECIFICATION Spec
CONSTANTS
  t1 = t1  t2 = t2  d0 = d0   wipe = wipe  format = format
  Tapes = {t1, t2}
  Drives = {d0}
  Requests = {wipe, format}
  FirstDrive = d0
  NoTape = NoTape
  KindOf <- KindPair
  DriveOf <- SameDrive
  TapesOf <- BulkWipe
  HasDriveSg = TRUE
  Lockable = {t2}
  MaxMoves = 1
  MaxRestarts = 1
INVARIANTS TypeOK EmptyRowsAreEmpty RowsTellOfThreads
PROPERTIES ErasesTheNamedTape LockedTapesKeepData
CHECK_DEADLOCK FALSE
