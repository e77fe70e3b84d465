SPECIFICATION Spec
CONSTANTS
  Runs <- MCRuns
  Inputs <- MCInputs
  ShippedLen <- MCShippedLen
  PadBase <- MCPadBase
  LockingLen <- MCLockingLen
  Evaluate <- MCEvaluate
  RealAccepts <- MCRealAccepts
  ScoreOf <- MCScoreOf
  PadLens <- MCPadLens
INVARIANTS
  InvalidIsUnfixable
CHECK_DEADLOCK FALSE
