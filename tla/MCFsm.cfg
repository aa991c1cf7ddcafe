SPECIFICATION FsmSpec
CONSTANTS
  State = {A, B, C}
  NULL = NULL
  MaxDepth = 3
  ExitTransitions = FALSE
INVARIANTS
  FsmTypeOK
  EnterExitPaired
