SPECIFICATION Spec
CONSTANTS
  v1 = v1
  v2 = v2
  v3 = v3
  Repos <- MCRepos
  Commands <- MCCommands
  Versions <- MCVersions
  Initial <- MCInitial
  Colliding <- MCColliding
  PytestOutcomes <- MCPytestOutcomes
  CheckerOutcomes <- MCCheckerOutcomes
  MaxRuns = 1
  MaxPipelines = 1
  MaxDisturbances = 0
INVARIANT BuildAcceptsItsOwnDirectory
CHECK_DEADLOCK FALSE
