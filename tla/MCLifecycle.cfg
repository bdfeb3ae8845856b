SPECIFICATION Spec
CONSTANTS
  MaxRevision = 9
  DiversityBudget = 9
  DiversityPaths = 3
  DigestLess <- MCDigestLess
  Worlds <- MCWorlds
INVARIANTS
  TypeOK
  ValidPlanReplays
  TargetReached
  RollbackRestores
CHECK_DEADLOCK FALSE
