SPECIFICATION Spec
CONSTANTS
  TotalMbs = 4
  SliceQp = 51
  Headers <- AllHeaders
INVARIANTS
  TypeOK
  ContextsFollowStandard
  SamplesFollowStandard
  QpFollowsStandard
  EdgesFollowStandard
  RowsWrittenOnce
