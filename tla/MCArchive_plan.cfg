SPECIFICATION Spec
CONSTANTS
  s1 = s1  s2 = s2  p1 = p1  p2 = p2  v1 = v1  v2 = v2  t1 = t1  t2 = t2
  NoFile = NoFile
  Partial = Partial
  Size <- Sizes
  Sets = {s1}
  Paths = {p1, p2}
  Versions = {v1, v2}
  Tapes = {t1, t2}
  Capacity = 3
  Failing = {p2}
  Unhashed = {p1}
  MaxEdits = 1
  MaxJobs = 2
  MaxEvents = 2
INVARIANTS TypeOK GapsWerePlanned CatalogIsTrue UsageIsRight
PROPERTY SkipsWhatIsThere
SYMMETRY Symmetry
CHECK_DEADLOCK FALSE
