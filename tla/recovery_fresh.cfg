CONSTANTS
  Options <- FreshOptions
  SlashInName = TRUE
  Fresh = TRUE
  CrashKinds = {"process"}
  IoErrors = TRUE
  Remains = TRUE
  BadRecords = TRUE
  MaxFaults = 2
  MaxSeq = 1
  MaxFile = 5
SPECIFICATION Spec
INVARIANTS
  CurrentValid
  NeverHidden
  NoGarbage
