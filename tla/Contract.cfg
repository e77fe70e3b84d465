SPECIFICATION MCSpec
CONSTANTS
  None = None
  OpReturn = OpReturn
  EmptyBytes = EmptyBytes
  NumberOf <- MCNumberOf
  BytesOf <- MCBytesOf
  Size <- MCSize
  P2sh32 <- MCP2sh32
  PushOf <- MCPushOf
  Flipped <- MCFlipped
INVARIANTS
  RunsAreTransactions
  OneProgram
  ClaimedProofsDiffer
  OverheadIsTheRest
  EveryTransactionOnce
  EveryLoadedRunIsEvaluated
  ThreadsContinue
  OnlyRepeatsAreRefused
  ProofIsNotStatement
  StructureIsTransactions
CHECK_DEADLOCK FALSE
