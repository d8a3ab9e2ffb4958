SPECIFICATION FairSpec
CONSTANTS
  Settings <- MCSettings
  Services = {"app", "acc", "thread", "none"}
  Hour = 2
  Patience = 1
  PipeSize = 1
  Today = 3
  MaxMinutes = 1
  MaxStarts = 2
  MaxActs = 3
CHECK_DEADLOCK FALSE
INVARIANTS
  CurveInOrder
PROPERTIES
  SettingsArrive
