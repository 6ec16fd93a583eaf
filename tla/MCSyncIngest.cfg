SPECIFICATION Spec
CONSTANTS
  Records <- MCRecords
  Batches <- MCBatches
  Requests = {q1, q2}
  MaxSeq = 3
  NoReceipt = NoReceipt
  GapFill = GapFill
  NoRecord = NoRecord
  NoOrigin = NoOrigin
SYMMETRY Symmetry
INVARIANTS
  TypeOK
  ReceiptsContiguous
  ExactlyOnceInOrder
  AcceptedAnswerIsDurable
  StagedAnswerIsHeld
  FreshnessIsHonest
PROPERTY
  RefinesSaleStream
