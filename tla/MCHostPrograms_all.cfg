CONSTANTS
  EW = 5
  FW = 5
  W = 8
  Operands <- Chosen
  Bits = 4
  Base = 16
  CC = 4
  Wrap = 16
  Divisors <- Periods
  Masks <- SomeMasks
  MaxEvents = 2
  MaxAccess = 2
  MaxNest = 2
  K = 2
  Polls = 3
  Tries = 2
  FSoffset = 4
  Sectors = {1, 2}
  Buffers <- Sources
  MaxCalls = 2
  MaxStops = 2
  Byte = 8
  Addresses = 256
  Programs <- Sources3
  Bootable <- Run
  Images <- ImageFiles
  RAM_SIZE = 20
  ROM_BASE = 20
  ROM_SIZE = 12
  XIO_BASE = 32
  IO_BASE = 48
  Fpu <- AnyFloat
  Commands <- Typed
  MaxCommands = 3
  MaxSignals = 1
  C8 = 8
  C16 = 32
  Disp <- Displacements
  maxCode = 7
  maxTD = 30
  Calls <- CallTo
  Pairs <- PairsTo
  Declarations <- Modules
  Lost = {0, 1, 7, 19}
SPECIFICATION HostSpec
INVARIANT FloatsExact
INVARIANT ProductKept
INVARIANT ResultsExact
INVARIANT LinesAndTicks
PROPERTY Transparent
INVARIANT CardKeepsBlocks
INVARIANT OnePass
INVARIANT Relisted
INVARIANT BranchesCompare
PROPERTY StoresItsBytes
PROPERTY RunsToBreak
INVARIANT ObjectFileRead
CHECK_DEADLOCK FALSE
