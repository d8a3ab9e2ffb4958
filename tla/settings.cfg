SPECIFICATION Spec
CONSTANTS
  Starts <- MCStarts
  Edits <- MCEdits
  Typed <- MCTyped
CHECK_DEADLOCK FALSE
INVARIANTS
  SettingsTypeOK
  PanelShowsMode
  CursorInForm
PROPERTIES
  ModeStaysLegal
  EepromTested
  OkShownAgain
  LoadGivesSaved
  OkKeepsUntouched
  ShowsChoice
  SaveStores
