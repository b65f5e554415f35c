CONSTANTS
  MockTxs      <- MCMockTxs
  NoType       = "none"
  TypeIdHash   <- MCTypeIdHash
  ElfSize      <- MCElfSize
  TraceSizes   <- MCTraceSizes
  TxSize       = 500
  WarnSize     = 2000000
  MaxInputSize = 1200000
SPECIFICATION Spec
INVARIANTS
  UnfitInputWarned
