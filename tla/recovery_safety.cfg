CONSTANTS
  Options <- ExistingOptions
  SlashInName = TRUE
  Fresh = FALSE
  CrashKinds = {"process", "machine"}
  IoErrors = TRUE
  Remains = FALSE
  BadRecords = FALSE
  MaxFaults = 2
  MaxSeq = 2
  MaxFile = 6
SPECIFICATION Spec
INVARIANTS
  TypeOK
  ManifestComplete
  Durable
  FreshNumber
  FreshSequence
PROPERTIES
  ImplementsStore
