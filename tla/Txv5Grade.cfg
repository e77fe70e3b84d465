SPECIFICATION EntrySpec
CONSTANTS
  Runs <- MCRunsOfEntries
  Entries <- MCEntries
  Inputs <- MCInputs
  ShippedLen <- MCShippedLen
  PadBase <- MCPadBase
  LockingLen <- MCLockingLen
  Evaluate <- MCEvaluate
  RealAccepts <- MCRealAccepts
  ScoreOf <- MCScoreOf
  PadLens <- MCPadLens
INVARIANTS
  TypeOK
  PaddingIsLeast
  StandardPadsMore
  FigureIsMeasured
  NeedIsLeast
  SummaryShowsTheWorst
PROPERTIES
  EveryEntryIsGraded
CHECK_DEADLOCK FALSE
