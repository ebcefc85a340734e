CONSTANTS
  Byte <- MCByte
  PAGESIZE = 2
  RANGECOUNT = 2
  Address <- MCAddress
  Width = {1, 2}
  NoPage = NoPage
  Foreign = Foreign
  Wild = Wild
SPECIFICATION Spec
INVARIANTS
  OutOfRangeReadIsInvalid
CHECK_DEADLOCK FALSE
