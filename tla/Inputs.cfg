SPECIFICATION Spec
CONSTANTS
  negativeZero = negativeZero
  nan = nan
  WordBits = 4
  PayloadBits = 2
  Radix = 2
  MaxScale = 1
  Limit = 7
  Odd = {negativeZero}
  NotFinite = {nan}
  Times = {0, 1, 3, 4}
  Values <- MCValues
  DamagedLength = 3
  NameLabel = "__name__"
  Language <- MCLanguage
  Letters = {"a", "n"}
  Digits = {"1"}
  MaxLength <- MCMaxLength
INVARIANTS
  CodecLossless
  AcceptedIsWhole
  ParserMatchesGrammar
  LexerFaithful
