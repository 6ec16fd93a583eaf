SPECIFICATION SalesSpec
CONSTANTS
  Invoices = {a}
  Stocked = {}
  MaxSeq = 3
  Requests = {q1}
  BatchLimit = 2
  NoInvoice = NoInvoice
  Records <- PosRecords
  Batches <- AnyBatch
  NoReceipt = NoReceipt
  GapFill = GapFill
  NoRecord = NoRecord
  NoOrigin = NoOrigin
INVARIANT
  VoidIsNotLost
