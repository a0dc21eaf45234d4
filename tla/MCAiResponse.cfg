CONSTANTS
  MaxNodes = 3
  MaxItems = 3

SPECIFICATION TurnSpec
INVARIANTS
  SpokenIsRemembered
PROPERTY TurnEnds
CHECK_DEADLOCK FALSE
