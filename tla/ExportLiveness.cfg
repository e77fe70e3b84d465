SPECIFICATION MCFairSpec
CONSTANTS
  bn254 = bn254
  c1 = c1
  c2 = c2
  data = data
  attack = attack
  A = A
  B = B
  NoEntry = NoEntry
  Missing = Missing
  NoFile = NoFile
  Torn = Torn
  NoHash = NoHash
  NoFrontier = NoFrontier
  RegistryFile = RegistryFile
  Ids <- MCIds
  Curves <- MCCurves
  Official = {}
  Files <- MCFiles
  CodeFiles <- MCCodeFiles
  DataFiles <- MCDataFiles
  PinnedFiles <- MCDataFiles
  RedTeamFiles <- MCRedTeamFiles
  Deps <- MCDeps
  Contents <- MCContents
  Pin <- MCPin
  Outcome <- MCOutcome
  Throws <- MCThrows
  Omitted = {}
  Modes <- MCModes
  DefaultMode <- MCDefaultMode
  InitOutfiles <- MCInitOutfiles
  InFlightRemoval = FALSE
  MaxEdits = 1
  MaxKills = 1
PROPERTIES
  Converges
