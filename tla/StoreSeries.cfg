SPECIFICATION Spec
CONSTANTS
  k1 = k1
  k2 = k2
  k3 = k3
  memory = memory
  cpu = cpu
  Keys = {k1}
  Names = {memory, cpu}
  NameOf <- MCNameOf
  Retention = 3
  MaxChunkSamples = 3
  MaxChunkSpanFraction = 1
  MaxTime = 10
  MaxGap = 2
INVARIANTS
  HeadsBelowCaps
  ChunksSpanCapped
  AgedOutSeriesGone
  RetentionCeiling
  QueriesExact
