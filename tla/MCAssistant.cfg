CONSTANTS
  NULL = NULL
  mood = mood
  topic = topic
  Vars <- MCVars
  SetNodes <- MCSetNodes
  Messages <- MCMessages
  MAX_TURNS = 2
  MAX_CONTENT_LENGTH = 2
  MaxSteps = 6

SPECIFICATION Spec
INVARIANTS
  WindowIsRecent
  LateOnlyIfGivenUp
  KnowledgeIsCited
CHECK_DEADLOCK FALSE
