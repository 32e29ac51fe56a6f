CONSTANTS
  SS = 2
  HS = 1
  STS = 1
  XS = 1
  MaxBufs = 2
  R1 = R1
  R2 = R2
  Rider <- Riders
  Byte = {1}
  MaxLength = 4
SYMMETRY Symmetry
SPECIFICATION Spec
INVARIANTS
  BuffersCoherent
  SavedWhole
PROPERTIES
  ByteFileSpec
