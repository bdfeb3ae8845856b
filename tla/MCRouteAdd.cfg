SPECIFICATION Spec
CONSTANTS
  MaxRevision = 2
  DiversityBudget = 14
  DiversityPaths = 3
  DigestLess <- MCDigestLess
  Worlds <- PathWorlds
INVARIANT RoutesCanBeAdded
CHECK_DEADLOCK FALSE
