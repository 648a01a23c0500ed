SPECIFICATION FairSpec
CONSTANTS
  t1 = t1  t2 = t2  p1 = p1  r1 = r1
  Tapes = {t1, t2}
  NoTape = NoTape
  Job = Job
  Providers = {p1}
  Choice <- Provided
  FirstTape = t1
  MaxVolumes = 2
  Restores = {r1}
  Needs <- Planned
  MaxConfirms = 1
  MaxRestoreRestarts = 1
INVARIANTS TypeOK SessionIsRight RestoresFromItsTape
PROPERTIES EverybodyEnds
CHECK_DEADLOCK FALSE
