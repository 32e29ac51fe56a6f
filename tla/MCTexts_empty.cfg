CONSTANTS
  plain = plain
  bold = bold
  NoLook = NoLook
  Look <- MCLook
  Lengths <- MCLengths
  MaxPieces = 13
  MaxLen = 4
  MaxOps = 3
  SelectAll = TRUE
  CopyLooksAtEnd = FALSE
SPECIFICATION Spec
INVARIANT WholeText
CHECK_DEADLOCK FALSE
