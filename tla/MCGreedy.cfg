CONSTANTS
  N = 4
  Requests <- GreedyRequests
  States <- FabricStates
  Pre <- OpPre
  Post <- OpPost
  CanApply <- OpCanApply
  Apply <- OpApply
  Holds <- OpHolds
SPECIFICATION Spec
INVARIANT
  NoSafeOrderingTruthful
