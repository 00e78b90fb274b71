SPECIFICATION Spec
CONSTANTS
  v1 = v1
  v2 = v2
  v3 = v3
  Repos <- MCRepos
  Commands <- MCCommands
  Versions <- MCVersions
  Initial <- MCInitial
  Colliding <- MCColliding
  PytestOutcomes <- MCPytestOutcomes
  CheckerOutcomes <- MCCheckerOutcomes
  MaxRuns = 3
  MaxPipelines = 2
  MaxDisturbances = 1
INVARIANTS
  IInv
  ReadyIsEarned
  SealAcceptance
  SidecarCertifiesVerified
  MembersAreBound
  SettledDirectoryIsConsistent
  NegativesAreDetected
CHECK_DEADLOCK FALSE
