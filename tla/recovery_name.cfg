CONSTANTS
  Options <- ExistingOptions
  SlashInName = FALSE
  Fresh = FALSE
  CrashKinds = {"process"}
  IoErrors = FALSE
  Remains = FALSE
  BadRecords = FALSE
  MaxFaults = 0
  MaxSeq = 1
  MaxFile = 7
SPECIFICATION Spec
INVARIANTS
  Visible
