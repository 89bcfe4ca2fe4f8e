CONSTANTS
  Caller = {c1, c2, c3}
  Worker = {w1, w2}
  NULL = NULL
  MaxLevels = 1
  MaxChunks = 1
  WriteLeaves = TRUE
  CloseWhileBusy = FALSE
SPECIFICATION Spec
SYMMETRY Symmetry
INVARIANTS
  TypeOK
  OneBackgroundTask
  NoForgottenWork
  NoWorkAfterEnd
  NoDanglingManual
  NoNullManual
  FlushedWhenOk
PROPERTIES
  ImmInOrder
