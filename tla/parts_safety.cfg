CONSTANTS
  kBlockSize = 16
  Align = 4
  PtrSize = 2
  Sizes <- SmallSizes
  MaxCalls = 5
  o1 = o1
  o2 = o2
  o3 = o3
  p1 = p1
  p2 = p2
  Opener <- Openers
  Process <- Processes
  ProcessOf <- TwoAndOne
  NoProcess = NoProcess
  Batch = {b1, b2}
  Data = {d1}
  CountMod = 8
  MaxOps = 2
  MaxGroup = 2
  MaxLog = 2
  FileSize = 4
  Wanted = {1, 2, 3}
  Radix = 3
  Width = 2
  MaxNumber = 14
  MaxDigits = 3
  HighBit = 32
  A = 3
  MaxDraws = 32
  BufferName = {u1, u2}
  Piece = 4
  MaxReuse = 8
  SizeMod = 32
  Lengths = {0, 3, 4, 9, 30}
  Object = {f1, f2, f3}
  NoFile = NoFile
  MaxFd = 2
  MmapLimit = 1
  FdLimit = 1
  ReadErrors = TRUE
  t1 = t1
  Table = {t1}
  Manifest = Manifest
  Tmp = Tmp
  Current = Current
  Inodes = 3
  MaxRecords = 2
  MaxFaults = 3
SPECIFICATION PartsSpec
INVARIANTS
  TypeOK
  Contained
  Disjoint
  IsAligned
  LockExclusive
  NoStaleLock
  BatchFaithful
  ReplayFaithful
  NotCutShort
  NamesUnderstood
  FullPeriod
  BuffersOwn
  FilesTypeOK
  LimitsHold
  FdsAccounted
  PromisesKept
  CurrentWhole
  DoneStored
  WritesOwnFile
PROPERTIES
  LittleWaste
CHECK_DEADLOCK FALSE
