CONSTANTS
  Caller = {c1, c2}
  Worker = {w1, w2}
  NULL = NULL
  MaxLevels = 1
  MaxChunks = 1
  WriteLeaves = TRUE
  CloseWhileBusy = FALSE
SPECIFICATION FairSpec
PROPERTIES
  CallReturns
  CloseCompletes
  ImmDrains
