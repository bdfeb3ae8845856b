SPECIFICATION Spec
CONSTANTS
  MaxRevision = 2
  DiversityBudget = 14
  DiversityPaths = 3
  DigestLess <- MCDigestLess
  Worlds <- MCWorlds
INVARIANTS
  TypeOK
  EffectsAsserted
  SurvivesDomainLoss
  DiversityExact
  UnorderedStepsCommute
  CompensationUndoes
PROPERTIES
  TombstonesFinal
  ExclusionRespected
CHECK_DEADLOCK FALSE
