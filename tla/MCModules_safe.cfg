CONSTANTS
  ModName <- Names
  Hole = hole
  Boot = "Kernel"
  Imports <- ImportLists
  Size <- UnequalSizes
  Limit = 5
  Missing = {"Edit"}
  Stale <- EditTexts
  Corrupt = {"Texts"}
  Trapping = {"Texts"}
  MaxRefs = 1
  MaxCount = 2
SPECIFICATION Spec
INVARIANTS
  TypeOK
  NoDanglingImports
  RefcntCoversClients
  ReferencesSafe
  SpaceTiled
  CollectComplete
