CONSTANTS
  Options <- CarelessOptions
  SlashInName = TRUE
  Fresh = FALSE
  CrashKinds = {"process"}
  IoErrors = TRUE
  Remains = FALSE
  BadRecords = FALSE
  MaxFaults = 1
  MaxSeq = 1
  MaxFile = 6
SPECIFICATION Spec
INVARIANTS
  FreshSequence
