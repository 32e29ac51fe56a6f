CONSTANTS
  Object <- Objects
  Shapes <- Mixed
  roots <- Roots
SPECIFICATION FairSpec
CHECK_DEADLOCK FALSE
INVARIANTS
  Untangled
PROPERTIES
  TracingSpec
  Ends
