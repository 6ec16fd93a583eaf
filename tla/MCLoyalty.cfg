SPECIFICATION Spec
CONSTANTS
  Tickets = {t1}
  Requests = {q1, q2}
  Channels <- PlainAndBatch
  Costs = {1}
  Earned = 2
  MaxIntents = 2
SYMMETRY Symmetry
INVARIANT
  TypeOK
  ReversedOnce
  ReversalIsComplete
  ConsumedIsSpent
  ProjectionFollowsLedger
CHECK_DEADLOCK FALSE
