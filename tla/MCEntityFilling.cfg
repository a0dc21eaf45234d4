CONSTANTS
  NULL = NULL
  start = start
  menu = menu
  desk = desk
  ask = ask
  other = other
  size = size
  kind = kind
  note = note
  Intents <- MCIntents
  NONE = "none"
  Entities <- MCEntities
  Slots <- MCSlots
  Required <- MCRequired
  Prompted = {size, kind}
  Nodes <- MCNodes
  Start = menu
  Begin = start
  Captures <- MCCaptures
  NextNode <- MCNext
  ElseNode <- MCElse
  Paths <- MCPaths
  Customs <- MCCustoms
  PathNode <- MCPathNode
  Commands = {"help"}
  MaxTurns = 3

SPECIFICATION Spec
INVARIANTS
  StoredIsOpen
  GoToMeetsNoOther
  NoMatchKeepsEntities
PROPERTY
  MatchedIsFilled
