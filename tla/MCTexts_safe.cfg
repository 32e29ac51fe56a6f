CONSTANTS
  plain = plain
  bold = bold
  NoLook = NoLook
  Look <- MCLook
  Lengths <- MCLengths
  MaxPieces = 13
  MaxLen = 3
  MaxOps = 3
  SelectAll = FALSE
  CopyLooksAtEnd = FALSE
SPECIFICATION Spec
INVARIANT TextSound
PROPERTY EditedTextSpec
CHECK_DEADLOCK FALSE
SYMMETRY LooksAlike
