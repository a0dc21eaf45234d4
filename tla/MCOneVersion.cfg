CONSTANTS
  v1 = v1  v2 = v2  v3 = v3  R = R  D = D  S = S  E = E
  r0 = r0  q = q  r2 = r2  r3 = r3  r4 = r4
  d0 = d0  d = d  d1 = d1  d2 = d2  d3 = d3  d4 = d4
  s0 = s0  s1 = s1  s2 = s2  s3 = s3  s4 = s4
  e0 = e0  d5 = d5  d6 = d6  d7 = d7  d8 = d8
  go = go  help = help  back = back  again = again
  NULL = NULL
  UNDEF = UNDEF
  Versions <- MCVersions
  Diagrams <- MCDiagrams
  Nodes <- MCNodes
  Events <- MCEvents
  Intents <- MCIntents
  RepeatIntents <- MCRepeatIntents
  VersionOf <- MCVersionOf
  Root <- MCRoot
  Context <- MCContext
  StartNode <- MCStartNode
  Home <- MCHome
  Kind <- MCKind
  NextId <- MCNextId
  ElseId <- MCElseId
  Target <- MCTarget
  Choice <- MCChoice
  NodeScoped <- MCNodeScoped
  Commands <- MCCommands
  STACK_OVERFLOW = 3
  HANDLER_OVERFLOW = 4
  MaxStack = 4
  BaseLoads = {TRUE}
SPECIFICATION Spec
INVARIANT OneVersion
