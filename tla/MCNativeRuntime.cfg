SPECIFICATION Spec
CONSTANTS
  Width = 2
  SizeMax = 63
  Setups <- MCSetups
INVARIANTS
  HeapSound
  FailureExplained
  PrintsRoots
  AdmissionsAgree
PROPERTIES
  LoopsEnd
CHECK_DEADLOCK FALSE
