SPECIFICATION MCSpec
CONSTANTS
  bn254 = bn254
  c1 = c1
  c2 = c2
  data = data
  attack = attack
  A = A
  B = B
  NoEntry = NoEntry
  Missing = Missing
  NoFile = NoFile
  Torn = Torn
  NoHash = NoHash
  NoFrontier = NoFrontier
  RegistryFile = RegistryFile
  Ids <- MCIds3
  Curves <- MCCurves
  Official = {}
  Files <- MCFiles
  CodeFiles <- MCCodeFiles
  DataFiles <- MCDataFiles
  PinnedFiles <- MCDataFiles
  RedTeamFiles <- MCRedTeamFiles
  Deps <- MCDeps3
  Contents <- MCContents
  Pin <- MCPin
  Outcome <- MCOutcome
  Throws <- MCThrows
  Omitted = {3}
  Modes <- MCAllModes
  DefaultMode <- MCDefaultMode
  InitOutfiles <- MCInitOutfiles3
  InFlightRemoval = FALSE
  MaxEdits = 1
  MaxKills = 0
INVARIANTS
  SuccessIsCurrent
  DegradedFreezes
