SPECIFICATION MCSpec
CONSTANTS
  XLEN = 16
  RISCV_GENERAL_REGISTER_NUMBER = 8
  MemSize = 64
  ReadOnly <- MCReadOnly
  RISCV_PAGESIZE = 8
  Fetches <- MCNoFetches
  Programs <- MCSbbPrograms
PROPERTIES
  MergesAdjacentOperations
CHECK_DEADLOCK FALSE
