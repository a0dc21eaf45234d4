CONSTANTS
  v1 = v1
  v2 = v2
  begin = begin
  f = f
  g = g
  mix = mix
  radio = radio
  news = news
  menu = menu
  check = check
  hook = hook
  old = old
  dead = dead
  any = any
  yes = yes
  no = no
  Nodes <- MCNodes
  Kind <- MCKind
  Versions = {v1, v2}
  DevVersion = v1
  Holds <- MCHolds
  Start <- MCStart
  Paths <- MCPaths
  Outs <- MCOuts
  Port <- MCPort
  PathCodes <- MCPathCodes
  Loops = {news}
  Listens <- MCListens
  CommandNode = menu
  Default = default
  NULL = NULL
  MaxTaken = 2

SPECIFICATION Spec
INVARIANTS
  PausedIsEnded
  StreamHoldsItsPlace
  TransfersAreOwn
  EvenPaths
