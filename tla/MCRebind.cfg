SPECIFICATION Spec
CONSTANTS
  MaxRevision = 9
  DiversityBudget = 9
  DiversityPaths = 3
  DigestLess <- MCDigestLess
  Worlds <- RebindWorlds
INVARIANTS
  EveryTargetReached
CHECK_DEADLOCK FALSE
