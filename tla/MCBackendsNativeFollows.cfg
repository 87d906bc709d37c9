SPECIFICATION Spec
CONSTANTS
  MixedNodes = 3
  MaxNodes = 3
  FanoutNodes = 5
  IotaNodes = 6
  PreparedNodes = 1
  Programs <- MCPrograms
CHECK_DEADLOCK FALSE
INVARIANTS
  NativeFollows
