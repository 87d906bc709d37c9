SPECIFICATION Spec
CONSTANTS
  e1 = e1
  e2 = e2
  b1 = b1
  b2 = b2
  User = user
  Nobody = nobody
  Processes = {e1, e2, b1, b2}
  Command <- MCCommands
  UserFiles <- MCUserFiles
  Attempts = 2
SYMMETRY Symmetry
CHECK_DEADLOCK FALSE
INVARIANTS
  OutputWhole
  NothingLeftBehind
PROPERTIES
  OnlySuccessPublishes
  CollisionsHarmNobody
