CONSTANTS
  total = total
  extra = extra
  root = root
  flow = flow
  old = old
  new = new
  Names = {total, extra}
  Values = {0}
  Default = 0
  UNDEF = UNDEF
  ABSENT = ABSENT
  Diagrams = {root, flow}
  Declared <- MCDeclared
  Maps <- MCMaps
  Writes <- MCWrites
  Versions = {old, new}
  VersionNames <- MCVersionNames
  Prepared <- MCPrepared
  NULL = NULL
  MaxStack = 2

SPECIFICATION Spec
INVARIANTS
  HidesOnlyGiven
PROPERTY ImplementsScopes
