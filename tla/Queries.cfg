SPECIFICATION ESpec
CONSTANTS
  k1 = k1
  k2 = k2
  k3 = k3
  Keys = {k1, k2, k3}
  Names = {"memory", "cpu"}
  NameOf <- MCNameOf
  LabelsOf <- MCLabelsOf
  NameLabel = "__name__"
  Language <- MCLanguage
  Readings <- MCReadings
  Exprs <- MCExprs
  Depth <- MCDepth
  Named <- MCNamed
  Matchers <- MCMatchers
  Clauses <- MCClauses
  Asked <- MCAsked
  Lookback = 1
  Retention = 2
  MaxChunkSamples = 2
  MaxChunkSpanFraction = 1
  MaxTime = 3
  MaxGap = 2
  Half = 128
  MaxPoints = 5
  DefaultSpan = 3
  DefaultStep = 1
INVARIANTS
  TypeOK
  SeriesWellFormed
  IndexConsistent
  SelectionByLabels
  RateCorrected
  SumCountsEach
  NamedAnswersDetermined
  SampledIsOffered
PROPERTIES
  ImplementsLog
  PastAnswersKept
