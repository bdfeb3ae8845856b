SPECIFICATION Spec
CONSTANTS
  MaxRevision = 9
  DiversityBudget = 9
  DiversityPaths = 3
  DigestLess <- MCDigestLess
  Worlds <- EvidenceWorlds
INVARIANT ValidMeansSame
CHECK_DEADLOCK FALSE
