CONSTANTS
  NULL = NULL
  Requests = {a, b, c}

SPECIFICATION Spec
SYMMETRY Symmetry
INVARIANTS
  OnlyOverlapsInterfere
  FailedLeavesNoTrace
CHECK_DEADLOCK FALSE
