SPECIFICATION Spec
CONSTANTS
  Files <- MCFiles
  Means <- MCMeans
  Name = "cc"
  Trees <- MCTrees
  Paths <- MCPaths
  Configs <- MCConfigs
  Dirs <- MCDirs
  Runfiles <- MCRunfiles
  MaxDepth = 2
  None = None
INVARIANTS
  TypeOK
  OwnerIsWhatRan
  DeclaredMeansOneFile
CHECK_DEADLOCK FALSE
