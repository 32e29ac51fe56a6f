CONSTANTS
  MemLim = 24
  R1 = R1
  R2 = R2
  R3 = R3
  Root <- Roots
  Size = {1, 2, 4, 8}
  MaxNews = 5
  MaxCollects = 2
SYMMETRY Symmetry
SPECIFICATION Spec
INVARIANTS
  Layout
PROPERTIES
  LiveKept
  Collected
