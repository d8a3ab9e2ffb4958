SPECIFICATION FairSpec
CONSTANTS
  Sectors = 2
  dreg_length = 4
  UserRow = 20
  Files <- MCFiles
  Repeat = 2
  WeakRows = {0, 20, 29}
  MaxFaults = 1
  MaxPresses = 2
  OldDesigns <- MCOld
INVARIANTS
  DoneMeansDesign
  IspLeft
PROPERTIES
  BurnsBlank
  NvramAfterBurn
  SessionEnds
