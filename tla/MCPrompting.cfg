CONSTANTS
  NULL = NULL
  UNDEF = UNDEF
  menu = menu
  ask = ask
  note = note
  cards = cards
  hint = hint
  help = help
  bye = bye
  Nodes <- MCNodes
  Node <- MCNode
  Intents <- MCIntents
  Repeat <- MCRepeat
  Command <- MCCommand
  Start <- MCStart
  Settings <- MCSettings
  Generated = {"answer", "nothing", "throw"}
  MaxFrames = 2
  MaxFallbacks = 2

SPECIFICATION Spec
INVARIANTS
  PromptsInOrder
  SilenceIsBounded
  SilentUserIsTimed
