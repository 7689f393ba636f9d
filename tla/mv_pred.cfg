SPECIFICATION Spec
CONSTANTS
  TotalMbs = 4
  MaxSlices = 2
  Headers <- AllHeaders
INVARIANTS
  TypeOK
  VectorsFollowStandard
  DirectFollowsStandard
  MotionEdgesFollowStandard
