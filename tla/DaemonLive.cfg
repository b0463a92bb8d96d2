SPECIFICATION FairSpec
CONSTANTS
  q1 = q1
  q2 = q2
  c = c
  m = m
  Queries = {q1, q2}
  Collector = c
  Main = m
  Retention = 4
  ScrapeInterval = 1
  SnapshotInterval = 2
  MaxGap = 2
  MaxTime = 3
  MaxSetBack = 0
PROPERTIES
  QueriesAnswered
  SignalStops
