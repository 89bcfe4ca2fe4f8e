CONSTANTS
  Object = {o1, o2, o3}
  NoFile = NoFile
  MaxFd = 2
  MmapLimit = 1
  FdLimit = 1
  ReadErrors = TRUE
SPECIFICATION FilesSpec
SYMMETRY Symmetry
INVARIANTS
  NoFdLeak
