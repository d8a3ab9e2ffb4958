SPECIFICATION Spec
CONSTANTS
  Starts <- MCRated
  Edits <- MCEdits
  Typed <- MCTyped
CHECK_DEADLOCK FALSE
INVARIANT
  ClockWithinRating
