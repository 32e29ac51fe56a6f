CONSTANTS
  A = A
  B = B
  Name <- Names
  Valid <- ValidNames
  Content <- Contents
  BlkLen = 2
  MaxArgs = 3
  ArgvLen = 2
  CommandsTrap = TRUE
  NoFile = NoFile
SPECIFICATION FairSpec
INVARIANTS
  LineInOrder
PROPERTIES
  TransferSpec
  Answered
CHECK_DEADLOCK FALSE
