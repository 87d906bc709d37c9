SPECIFICATION Spec
CONSTANTS
  MixedNodes = 4
  MaxNodes = 6
  FanoutNodes = 8
  IotaNodes = 7
  PreparedNodes = 3
  Programs <- MCPrograms
CHECK_DEADLOCK FALSE
INVARIANTS
  EvaluatorOneOwner
  EvaluatorOwnsNothing
  OperandOutlivesTable
  UsesEndLifetimes
  NativeOneOwner
  SlotsReadAreFilled
  SameReleases
