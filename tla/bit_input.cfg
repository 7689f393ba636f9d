SPECIFICATION InputSpec
CONSTANTS
  Contexts = {1, 2, 3}
  InitValues <- MCInitValues
  Qps = {0, 16, 26, 51}
  PcmBytes = 1
  Streams <- MCStreams
  Elements <- MCElements
  Follow <- MCFollow
INVARIANTS
  EngineInRange
  UnitsRecovered
  HeadersRecovered
  ElementsFollowStandard
PROPERTY ImplementsArithmetic
CHECK_DEADLOCK FALSE
