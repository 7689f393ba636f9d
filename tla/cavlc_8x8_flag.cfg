SPECIFICATION Spec
CONSTANTS
  TotalMbs = 4
  SliceQp = 51
  Headers <- CavlcOnly
INVARIANT
  TransformFlagReachesFilter
