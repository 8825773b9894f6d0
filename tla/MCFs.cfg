CONSTANTS
  Direct = 2
  PerBlock = 2
  NBlocks = 26
  ImageSizes = {0, 4, 7, 11, 16, 17, 27}
  SpareBlocks = {1, 2, 20}
  Sizes = {0, 3, 4, 8, 9, 15, 18, 24}
  Offsets = {0, 3, 8, 17}
  Lengths = {1, 4}
  MaxFileOps = 3
  Names <- NamesDef
  Images <- ImagesDef
  NInodes = 6
  BlockWords = 12
  DirBlocksFree = 2
  MaxDirOps = 3
  Task = {1, 2}
  Inodes = {1}
  FileId = {1, 2, 3}
  FirstFd = 1
  FdMax = 3
  OpenAppend = {TRUE}
  MaxWrites = 1
  Cpu = {c1, c2}
  DName = {n1, n2}
  MaxDentries = 3
  MaxInodes = 2
  LinkTargets <- TargetsDef
  UserPaths <- PathsDef
  SymlinkMax = 3
  MaxCwdDepth = 4
  Reclen <- ReclenDef
  BufSizes = {1, 2, 3, 4}
  MaxGetdents = 6
SPECIFICATION MCSpec
VIEW View
SYMMETRY Symmetry
INVARIANTS
  
  ReadsBack
  
  FilesHeld
  CacheSound
  
  ListingExact
CHECK_DEADLOCK FALSE
