CONSTANTS
  Base = 10
  INTBITS = 8
  LONGBITS = 4
  MAXMEMORY = 40
  PAGESIZE = 16
  REGISTERS_END = 2
  PC = 9
  MAX_CHARS = 2
  Setups <- MCSetups
  Garbage <- MCGarbage
  InputWords <- MCInputWords
  Newline = Newline
  maxSteps = 4
  RegisterOf <- MCRegisterOf
  LowerCase <- MCLowerCase
  LongNames = {"alonglabel"}
  CONTINUE = 5
SPECIFICATION DebugSpec
PROPERTIES
  UnknownNamesAnswered
CHECK_DEADLOCK FALSE
