CONSTANTS
  Base = 10
  INTBITS = 8
  LONGBITS = 4
  MAXMEMORY = 32
  PAGESIZE = 16
  Name <- MCName
  NoLabel = "none"
  RegisterOf <- MCRegisterOf
  Programs <- MCPrograms
SPECIFICATION AssemblerSpec
INVARIANTS
  CommentsIgnored
CHECK_DEADLOCK FALSE
