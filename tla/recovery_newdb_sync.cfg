CONSTANTS
  Options <- CreateOptions
  SlashInName = TRUE
  Fresh = TRUE
  CrashKinds = {"machine"}
  IoErrors = FALSE
  Remains = FALSE
  BadRecords = FALSE
  MaxFaults = 1
  MaxSeq = 1
  MaxFile = 5
SPECIFICATION Spec
INVARIANTS
  CurrentValid
