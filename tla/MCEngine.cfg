CONSTANTS
  Base = 10
  INTBITS = 8
  LONGBITS = 4
  MAXMEMORY = 64
  PAGESIZE = 16
  REGISTERS_END = 3
  PC = 9
  MAX_CHARS = 2
  Setups = {}
  Garbage <- MCGarbage
  InputWords <- MCInputWords
  Newline = Newline
  Name <- MCName
  NoLabel = "none"
  RegisterOf <- MCRegisterOf
  LowerCase <- MCLowerCase
  LongNames = {"alonglabel"}
  CONTINUE = 5
  maxSteps = 6
  Sessions <- MCSessions
  Programs <- MCPrograms
SPECIFICATION EngineSpec
INVARIANTS
  EngineTypeOK
  DialogNamesLines
  OnlyLinesRun
PROPERTIES
  ControlFollowsSource
  CallsReturn
  DataReadAsWritten
  ProcessSettles
CHECK_DEADLOCK FALSE
