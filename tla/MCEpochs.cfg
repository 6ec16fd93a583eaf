SPECIFICATION Spec
CONSTANTS
  p1 = p1
  p2 = p2
  r1 = r1
  r2 = r2
  Policies = {p1}
  NoPins = NoPins
  Builds = {1, 2}
  Requests = {r1, r2}
  Gated = TRUE
  MaxSequence = 2
  MaxCrashes = 1
  MaxRestores = 1
SYMMETRY Interchangeable
INVARIANTS TypeOK CleanIsPublished ReceiptPerEpoch FloorIsHeld ActiveWasAccepted NoFalseQuarantine
PROPERTY GovernanceAdvances
CHECK_DEADLOCK FALSE
