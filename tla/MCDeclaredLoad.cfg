SPECIFICATION FairLoadSpec
CONSTANTS
  Host = Host
  d1 = d1
  d2 = d2
  a = a
  b = b
  slash = slash
  Dirs = {d1, d2}
  Names = {a, b}
  PathNames = {slash}
  Program = Program
  Unreadable = Unreadable
  Searches <- MCSearches
  NeedLists <- MCNeedLists
INVARIANTS
  TypeOK
  WalkInv
  OnlyInspectedMapped
  RunsWithWholeClosure
PROPERTIES
  ImplementsContract
  WalkAdvances
  Terminates
CHECK_DEADLOCK FALSE
