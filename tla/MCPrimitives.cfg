SPECIFICATION Spec
CONSTANTS
  IntBits = 5
  ExponentBits = 4
  FractionBits = 1
  Trials <- MCTrials
INVARIANTS
  KernelsMeetReference
  BackendsAgree
  AcceptedTablesServe
  LoweredCallsAreAccepted
