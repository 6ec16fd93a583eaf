SPECIFICATION FairSpec
CONSTANTS
  p1 = p1
  p2 = p2
  r1 = r1
  r2 = r2
  Policies = {p1}
  NoPins = NoPins
  Builds = {1}
  Requests = {r1, r2}
  Gated = FALSE
  MaxSequence = 1
  MaxCrashes = 1
  MaxRestores = 0
PROPERTY SubmissionIsSettled
CHECK_DEADLOCK FALSE
