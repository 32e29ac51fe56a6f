CONSTANTS
  N = 1
  SecTabSize = 2
  ExTabSize = 2
  IndexSize = 3
  Name <- TallNames
  NofSectors = 66
  Start <- AllTrees
  Lengths = {0, 5}
  Crashes = 1
  Room = 11
  MaxOps = 1
  Height = 3
  MaxNames = 10
  HeaderBase = 12
SPECIFICATION DirSpec
INVARIANTS
  WellFormed
  NothingInUseIsFree
  Queries
PROPERTIES
  OperationEffect
