CONSTANTS
  t1 = t1
  Table = {t1}
  Manifest = Manifest
  Tmp = Tmp
  Current = Current
  Inodes = 3
  MaxRecords = 2
  MaxFaults = 0
SPECIFICATION WritableSpec
INVARIANTS
  ManifestNames
CHECK_DEADLOCK FALSE
