SPECIFICATION Spec
CONSTANTS
  q1 = q1
  q2 = q2
  c = c
  m = m
  Queries = {q1, q2}
  Collector = c
  Main = m
  Retention = 4
  ScrapeInterval = 1
  SnapshotInterval = 3
  MaxGap = 2
  MaxTime = 6
  MaxSetBack = 2
SYMMETRY QuerySymmetry
INVARIANTS
  TypeOK
  LossBounded
  NothingMidWrite
  OutageStillAges
PROPERTY FailedSaveRetried
