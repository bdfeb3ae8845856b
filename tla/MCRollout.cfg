CONSTANTS
  N = 3
  Requests <- AllRequests
  States <- FabricStates
  Pre <- OpPre
  Post <- OpPost
  CanApply <- OpCanApply
  Apply <- OpApply
  Holds <- OpHolds
SPECIFICATION FairRollout
INVARIANTS
  TypeOK
  SearchConsistent
  PlanComplete
  PublishedPlanSafe
  ConditionsFresh
  BestPublished
  CoreUnblocks
  LimitRefusalTruthful
  RolloutSafe
  RolloutAccepted
  RolloutConverges
PROPERTIES
  ImplementsChangeControl
  StopHonoured
  Termination
