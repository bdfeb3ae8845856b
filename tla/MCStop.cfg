CONSTANTS
  N = 3
  Requests <- Special
  States <- FabricStates
  Pre <- OpPre
  Post <- OpPost
  CanApply <- OpCanApply
  Apply <- OpApply
  Holds <- OpHolds
SPECIFICATION Spec
INVARIANT
  StopNeverPublishes
