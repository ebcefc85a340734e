CONSTANTS
  Base = 10
  INTBITS = 8
  LONGBITS = 4
  MAXMEMORY = 56
  PAGESIZE = 16
  RegisterOf <- MCRegisterOf
  REGISTERS_END = 3
  PC = 9
  MAX_CHARS = 2
  Setups <- MCSetups
  Garbage <- MCGarbage
  InputWords <- MCInputWords
  Newline = Newline
  maxSteps = 5
SPECIFICATION Spec
INVARIANTS
  TypeOK
  ZeroIsZero
  LoopBounded
PROPERTIES
  OnlyJumpsJump
  WritesInSpan
  InputReadsBack
  Terminates
CHECK_DEADLOCK FALSE
