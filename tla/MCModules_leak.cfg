CONSTANTS
  ModName <- FourNames
  Hole = hole
  Boot = "Kernel"
  Imports <- FourImportLists
  Size <- FourSizes
  Limit = 7
  Missing = {"Texts"}
  Stale = {}
  Corrupt = {}
  Trapping = {}
  MaxRefs = 0
  MaxCount = 4
SPECIFICATION FairSpec
PROPERTIES
  Returns
