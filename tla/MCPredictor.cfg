CONSTANTS
  order = order
  book = book
  greet = greet
  amount = amount
  day = day
  Intents = {order, book, greet}
  Stale = stale
  Slots = {amount, day}
  SlotsOf <- MCSlotsOf
  NONE = none
  NULL = NULL

SPECIFICATION PredictorSpec
INVARIANTS
  SlotsAreOfIntent
  NoneIsLast
PROPERTY Classified
CHECK_DEADLOCK FALSE
