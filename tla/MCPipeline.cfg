SPECIFICATION MCSpec
CONSTANTS
  XLEN = 16
  RISCV_GENERAL_REGISTER_NUMBER = 8
  MemSize = 64
  ReadOnly <- MCReadOnly
  RISCV_PAGESIZE = 8
  Fetches <- MCFetches
  Programs <- MCPrograms
INVARIANTS
  PipelineTypeOK
  AliasingIsHarmless
  QuotientAndRemainder
  ProductHalves
  BitLaws
  FactoriesAreDisjoint
  EveryBitCounts
  LaterVersionsAgree
  FetchReadsTheInstruction
  ImmediatesAsCommented
PROPERTIES
  FusedAsSequence
  ScAnswersLastLr
  FaultIsPrecise
CHECK_DEADLOCK FALSE
