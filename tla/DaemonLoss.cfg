SPECIFICATION Spec
CONSTANTS
  q1 = q1
  q2 = q2
  c = c
  m = m
  Queries = {q1}
  Collector = c
  Main = m
  Retention = 9
  ScrapeInterval = 2
  SnapshotInterval = 3
  MaxGap = 2
  MaxTime = 6
  MaxSetBack = 0
INVARIANT LossWithinInterval
