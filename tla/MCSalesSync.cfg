SPECIFICATION SalesSpec
CONSTANTS
  Invoices = {a, b}
  Stocked = {}
  MaxSeq = 2
  Requests = {q1, q2}
  BatchLimit = 2
  NoInvoice = NoInvoice
  Records <- PosRecords
  Batches <- AnyBatch
  NoReceipt = NoReceipt
  GapFill = GapFill
  NoRecord = NoRecord
  NoOrigin = NoOrigin
SYMMETRY Symmetry
INVARIANTS
  SalesTypeOK
  SyncedIsDurable
  StockReversedOnce
  GapNeedsVoid
