SPECIFICATION Spec
CONSTANTS
  r1 = r1  r2 = r2  w1 = w1
  c1 = c1  c2 = c2  c3 = c3  c4 = c4
  NoConn = NoConn
  Threads = {r1, r2, w1}
  Requests = {r1, r2}
  Workers = {w1}
  Conns = {c1, c2, c3, c4}
  PoolSize = 2
  CatalogSize = 2
  MaxImports = 2
  MaxAudit = 1
  MaxDeaths = 1
  MaxLeaks = 2
SYMMETRY DatabaseSymmetry
INVARIANTS TypeOK PoolIsSound OnlyLeaksLose SerialAuditVerifies ImportsAreWhole
CHECK_DEADLOCK FALSE
