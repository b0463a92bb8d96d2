SPECIFICATION Spec
CONSTANTS
  k1 = k1
  k2 = k2
  k3 = k3
  memory = memory
  cpu = cpu
  Keys = {k1}
  Names = {memory, cpu}
  NameOf <- MCNameOf
  Retention = 4
  MaxChunkSamples = 3
  MaxChunkSpanFraction = 2
  MaxTime = 9
  MaxGap = 1
INVARIANT OverhangCapped
