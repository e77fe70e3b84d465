SPECIFICATION MCSpec
CONSTANTS
  None = None
  OpReturn = OpReturn
  EmptyBytes = EmptyBytes
  Radix = 256
  MinPad = 8
  PadGrowth = 32
  NumberOf <- MCNumberOf
  BytesOf <- MCBytesOf
  Size <- MCSize
  Outcome <- MCOutcome
  VmNumber <- MCVmNumber
  DataPush <- MCDataPush
  RawPush <- MCRawPush
  WidthOf <- MCWidthOf
  Envelope <- MCEnvelope
  OpCost <- MCOpCost
INVARIANTS
  GatesEvaluateTransactions
  SampledSeamsAreBound
  ClaimsAreWhole
  PassIsEarned
  GeneralityIsShown
  RankedRowsAreSound
  VerdictsAgree
CHECK_DEADLOCK FALSE
