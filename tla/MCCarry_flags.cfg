CONSTANTS
  Byte = 8
  Addresses = 256
  Programs <- NoPrograms
  Bootable <- NoPrograms
  Images <- Adding
  RAM_SIZE = 20
  ROM_BASE = 20
  ROM_SIZE = 12
  XIO_BASE = 32
  IO_BASE = 48
  Fpu <- NoFloat
  Commands <- Typed
  MaxCommands = 4
  MaxSignals = 0
SPECIFICATION WorkSpec
PROPERTY CarryKept
CHECK_DEADLOCK FALSE
