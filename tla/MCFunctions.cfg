CONSTANTS
  Base = 10
  INTBITS = 14
  LONGBITS = 4
  Numbers <- MCNumbers
  Packings <- MCPackings
  Characters <- MCCharacters
  Texts <- MCTexts
SPECIFICATION Spec
INVARIANTS
  RegisterIsBytes
  DivisionIdentity
  BitsRight
  LowHalfDetermined
  BranchesFit
  RoundTrip
  TranslationsCompute
  DebuggerShowsDecoded
  TokensAreRuns
CHECK_DEADLOCK FALSE
