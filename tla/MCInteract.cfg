CONSTANTS
  MAX_DELEGATION_TURNS = 3
  Outputs <- MCOutputs

SPECIFICATION Spec
INVARIANTS
  AnswerSaysAll
  AnswerIsFinished
  StreamedAsRun
  GoToIsRun
CHECK_DEADLOCK FALSE
