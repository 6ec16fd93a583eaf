SPECIFICATION FairSalesSpec
CONSTANTS
  Invoices = {a, b}
  Stocked = {}
  MaxSeq = 3
  Requests = {q1}
  BatchLimit = 2
  NoInvoice = NoInvoice
  Records <- PosRecords
  Batches <- AnyBatch
  NoReceipt = NoReceipt
  GapFill = GapFill
  NoRecord = NoRecord
  NoOrigin = NoOrigin
PROPERTY
  StagedIsDrained
