SPECIFICATION FairSpec
CONSTANTS
  MaxLines = 3
  local = local
  a = a
  Own = local
  Remotes <- MCRemotes
  Inputs <- MCInputs
CHECK_DEADLOCK FALSE
INVARIANTS
  RoutesAreRecent
  DrainedAtEnd
PROPERTY EveryLineAnswered
