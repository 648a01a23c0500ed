SPECIFICATION Spec
CONSTANTS
  t1 = t1  t2 = t2  d0 = d0
  NoTape = NoTape
  NoSlot = NoSlot
  Tapes = {t1, t2}
  Slots = {1, 2}
  Drives = {d0}
  FirstDrive = d0
  HasDriveSg = TRUE
  Faulty = TRUE
  Meddling = TRUE
SYMMETRY TapeSymmetry
INVARIANTS TypeOK RecordIsRight UsesItsTape HomeIsFree
