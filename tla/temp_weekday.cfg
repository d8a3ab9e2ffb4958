SPECIFICATION FairSpec
CONSTANTS
  Systems = {"suptime", "sampled"}
  Machines <- MCMachines
  Settings <- MCSettings
  Starts <- MCLateStarts
  Readings <- MCReadings
  FilterLength = 2
  Minutes = 2
  MinuteSlots = 5
  AskSlots = 3
  AlarmSlots = 1
  HotSlots = 1
  MaxDays = 1
  MaxEvents = 1
CHECK_DEADLOCK FALSE
PROPERTIES
  AskedOnNamedDay
