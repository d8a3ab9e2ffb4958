SPECIFICATION FairSpec
CONSTANTS
  Bits <- MCBits
  NSect = 4
  Starts <- MCStarts
  FlashAdr = 8
  TosHalf = 4
  TosSize = 7
  TestsSize = 2
  Tos404 <- E
  DateAt = 2
  Today <- MCToday
  Crc <- MCCrc
  Inputs <- MCInputs
  Contents <- MCContents
  High <- MCHigh
  Tries = 2
  MaxFaults = 2
INVARIANTS
  OkIsBootable
PROPERTIES
  RetryHeals
CHECK_DEADLOCK FALSE
