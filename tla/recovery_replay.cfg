CONSTANTS
  Options <- ExistingOptions
  SlashInName = TRUE
  Fresh = FALSE
  CrashKinds = {"process"}
  IoErrors = FALSE
  Remains = FALSE
  BadRecords = FALSE
  MaxFaults = 0
  MaxSeq = 1
  MaxFile = 7
SPECIFICATION Spec
INVARIANTS
  NoLogReplayedTwice
