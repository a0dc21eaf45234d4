CONSTANTS
  x = x
  y = y
  k = k
  one = one
  text = text
  Calls = {c1, c2, c3}
  LIMIT = 1
  WINDOW = 2
  Names = {x, y}
  Path <- MCPath
  Bodies <- MCBodies
  AsNumber <- MCAsNumber
  UNDEF = undefined
  THROWS = throws
  OLD = old
  NONE = NONE

SPECIFICATION CallsSpec
INVARIANTS
  NeverOvercounts
  DelayedOnlyWhenBusy
  ExactWhenAlone
  AllOrNothing
PROPERTY DirectCallsEnd
CHECK_DEADLOCK FALSE
