SPECIFICATION FairSpec
CONSTANTS
  Bits <- MCBits
  NSect = 6
  Starts <- MCStarts
  Coldfire = TRUE
  Block = 2
  Wrap = 16
  TosBase = 2
  TosSize = 4
  JumpAt = 0
  Branch <- V
  GuardLow = 2
  GuardHigh = 6
  Files <- MCFiles
  Factory <- MCFactory
  Machines <- MCMachines
  Tries = 2
  MaxFaults = 1
  SizeCap = 8
INVARIANTS
  InBounds
  Restored
PROPERTIES
  GuardedSectors
