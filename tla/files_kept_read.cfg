CONSTANTS
  Object = {o1, o2, o3}
  NoFile = NoFile
  MaxFd = 3
  MmapLimit = 1
  FdLimit = 1
  ReadErrors = FALSE
SPECIFICATION FilesSpec
SYMMETRY Symmetry
INVARIANTS
  ReadsOwnFile
