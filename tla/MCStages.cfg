CONSTANTS
  N = 3
  Requests <- Ordinary
  States <- FabricStates
  Pre <- OpPre
  Post <- OpPost
  CanApply <- OpCanApply
  Apply <- OpApply
  Holds <- OpHolds
SPECIFICATION Spec
INVARIANT
  StagesSurviveVerification
