SPECIFICATION Spec
CONSTANTS
  Bits <- MCBits
  NSect = 4
  Starts <- MCStarts
  Coldfire = FALSE
  Block = 2
  Wrap = 16
  TosBase = 0
  TosSize = 4
  JumpAt = 0
  Branch <- V
  GuardLow = 0
  GuardHigh = 0
  Files <- MCFiles
  Factory <- MCFactory
  Machines <- MCMachines
  Tries = 2
  MaxFaults = 2
  SizeCap = 6
INVARIANTS
  KeyboardResumed
