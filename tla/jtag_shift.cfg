SPECIFICATION FairSpec
CONSTANTS
  IrLen = 2
  DrLen = 3
  Targets <- MCTargets
  Shifts <- MCShifts
  Goals <- MCGoals
  MaxRepeat = 1
INVARIANTS
  Agrees
  ClockedInPlace
  InstructionLands
  DataLands
PROPERTIES
  CallsReturn
