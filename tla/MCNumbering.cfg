SPECIFICATION Spec
CONSTANTS
  Start = 1
  MaxFolio = 4
  Received = {3}
  SharedFormat = TRUE
  Times = {1, 2}
INVARIANTS
  NumberingTypeOK
  FoliosConsecutive
PROPERTY
  CursorNeverFalls
CHECK_DEADLOCK FALSE
