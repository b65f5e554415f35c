CONSTANTS
  TxHash    <- MCTxHash
  BlockHash <- MCBlockHash
  Chain     <- MCChain
  Headers   <- MCHeaders
  Data      <- MCData
  Types     <- MCTypes
  Groups    <- MCGroups
  MaxOdd    = 2
SPECIFICATION Spec
INVARIANTS
  TypeOK
  EntriesMatchChain
  IdsIdentifyCalls
  CompleteReplyAccepted
PROPERTIES
  ResolvesAtomically
  RunEnds
