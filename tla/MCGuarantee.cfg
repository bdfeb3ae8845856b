SPECIFICATION Spec
CONSTANTS
  MaxRevision = 2
  DiversityBudget = 14
  DiversityPaths = 3
  DigestLess <- MCDigestLess
  Worlds <- ShareWorlds
INVARIANT GuaranteesHold
CHECK_DEADLOCK FALSE
