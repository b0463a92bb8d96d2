SPECIFICATION RSpec
CONSTANTS
  k1 = k1
  memory = memory
  Keys = {k1}
  Names = {memory}
  NameOf <- MCNameOf
  OldHistories <- MCOldHistories
  NoFile = NoFile
  Retention = 3
  MaxChunkSamples = 2
  MaxChunkSpanFraction = 1
  MaxTime = 6
  MaxGap = 2
INVARIANTS
  OwnSnapshotLoads
  LoadMatchesPrune
  LoadKeepsWindow
  SeriesWellFormed
