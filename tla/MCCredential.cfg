SPECIFICATION Spec
CONSTANTS
  MaxAttempt = 2
  MaxVersion = 2
  Requests = {q1, q2}
  Managed <- FirstCredential
SYMMETRY Symmetry
INVARIANT
  TypeOK
  ActiveWasConfirmed
  ActiveIsHeld
  OneActive
CHECK_DEADLOCK FALSE
