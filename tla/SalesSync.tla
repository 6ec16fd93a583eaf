----------------------------- MODULE SalesSync -----------------------------
(***************************************************************************)
(* A terminal and the cloud together.  The terminal numbers its documents, *)
(* voids some of them, and hands everything pending to syncBatch in passes *)
(* (SyncService.triggerManualSync: push the sales, then pull what the      *)
(* backoffice did).  The cloud side is SyncIngest, unchanged; this module  *)
(* decides what is posted to it and what becomes of the answers.  An       *)
(* answer may be lost, and its request goes on without anyone waiting.     *)
(***************************************************************************)
EXTENDS SyncIngest, FiniteSets, FiniteSetsExt

CONSTANTS
  Invoices,    \* the sales the terminal may make
  Stocked,     \* those with inventory bindings: they move stock
  BatchLimit,  \* _batchEnvelopeLimit
  NoInvoice    \* no void in progress

VARIABLES
  invoices,   \* the terminal's invoice rows
  reversals,  \* how often an invoice's local stock was given back
  till,       \* the invoice the cashier's void has read
  pass,       \* the sync pass
  posted,     \* every record ever handed to the cloud
  adminVoids  \* invoices the backoffice has voided

posVars == <<invoices, reversals, till, pass, posted, adminVoids>>
salesVars == <<vars, posVars>>

(* A voided invoice is a new document: another key, another sequence.  The *)
(* hash covers both.                                                       *)
RecordOf(kind, i, seq) ==
  [key |-> <<kind, i>>, seq |-> seq, body |-> <<kind, i, seq>>, invoice |-> i,
   canceled |-> kind = "void", moves |-> i \in Stocked, note |-> FALSE,
   origin |-> NoOrigin]

PosRecords == {RecordOf(kind, i, n) : kind \in {"sale", "void"}, i \in Invoices, n \in Seqs}

AnyBatch == SUBSET PosRecords

ASSUME PosAssumption ==
  /\ Records = PosRecords
  /\ Batches = SUBSET Records
  /\ Stocked \subseteq Invoices
  /\ NoInvoice \notin Invoices
  /\ BatchLimit \in Nat \ {0}

NoRow == [state |-> "none", kind |-> "sale", seq |-> 0, sync |-> "pending"]

Resting == [point |-> "idle", request |-> NoInvoice, batch |-> {}, acks |-> {},
            remote |-> NoInvoice, copy |-> NoRow]

SalesInit ==
  /\ Init
  /\ invoices = [i \in Invoices |-> NoRow]
  /\ reversals = [i \in Invoices |-> 0]
  /\ till = NoInvoice
  /\ pass = Resting
  /\ posted = {}
  /\ adminVoids = {}

-----------------------------------------------------------------------------
Issued == {i \in Invoices : invoices[i].state # "none"}

(* getNextInvoiceSourceSequence: one above the highest sequence in use.    *)
NextSequenceByCount == Cardinality(Issued) + 1

NextSequence == Max({invoices[i].seq : i \in Invoices}) + 1

Outbound ==
  {RecordOf(invoices[i].kind, i, invoices[i].seq) :
     i \in {j \in Issued : invoices[j].sync = "pending"}}

(* The first BatchLimit records in sequence order.                         *)
NextBatch ==
  {r \in Outbound : Cardinality({s \in Outbound : s.seq < r.seq}) < BatchLimit}

(* The backoffice sees an invoice as canceled: it voided it, or the        *)
(* terminal's void has arrived.                                            *)
CloudCanceled(i) ==
  \/ i \in adminVoids
  \/ \E n \in DOMAIN ledger : ledger[n].invoice = i /\ ledger[n].canceled

InCloud(i) == \E n \in DOMAIN ledger : ledger[n].invoice = i

-----------------------------------------------------------------------------
(* The cashier: a sale, and a void in two steps.  The row is read and      *)
(* checked first, the reversal is built, and the transaction then writes   *)
(* without looking again.                                                  *)
Sell(i) ==
  /\ invoices[i].state = "none"
  /\ NextSequence \in Seqs
  /\ invoices' = [invoices EXCEPT ![i] = [state |-> "active", kind |-> "sale",
                                          seq |-> NextSequence, sync |-> "pending"]]
  /\ UNCHANGED <<vars, reversals, till, pass, posted, adminVoids>>

ReadForVoidUnchecked(i) ==
  /\ till = NoInvoice
  /\ invoices[i].state # "none"
  /\ till' = i
  /\ UNCHANGED <<vars, invoices, reversals, pass, posted, adminVoids>>

ReadForVoid(i) ==
  /\ till = NoInvoice
  /\ invoices[i].state = "active"
  /\ till' = i
  /\ UNCHANGED <<vars, invoices, reversals, pass, posted, adminVoids>>

CommitVoid ==
  /\ till # NoInvoice
  /\ NextSequence \in Seqs
  /\ invoices' = [invoices EXCEPT ![till] = [state |-> "canceled", kind |-> "void",
                                             seq |-> NextSequence, sync |-> "pending"]]
  /\ reversals' = [reversals EXCEPT ![till] = @ + 1]
  /\ till' = NoInvoice
  /\ UNCHANGED <<vars, pass, posted, adminVoids>>

(* The application is closed or crashes: what is in memory is gone.        *)
Restart ==
  /\ till # NoInvoice \/ pass.point \in {"posted", "acking", "remote"}
  /\ till' = NoInvoice
  /\ pass' = Resting
  /\ UNCHANGED <<vars, invoices, reversals, posted, adminVoids>>

-----------------------------------------------------------------------------
(* The sync pass.                                                          *)
Post(q) ==
  /\ pass.point = "idle"
  /\ Outbound # {}
  /\ Submit(q, NextBatch)
  /\ pass' = [pass EXCEPT !.point = "posted", !.request = q, !.batch = NextBatch]
  /\ posted' = posted \union NextBatch
  /\ UNCHANGED <<invoices, reversals, till, adminVoids>>

NothingToPost ==
  /\ pass.point = "idle"
  /\ Outbound = {}
  /\ pass' = [pass EXCEPT !.point = "pull"]
  /\ UNCHANGED <<vars, invoices, reversals, till, posted, adminVoids>>

ReceiveFirstOnly(q) ==
  /\ pass.point = "posted"
  /\ pass.request = q
  /\ Respond(q)
  /\ pass' = [pass EXCEPT !.point = "acking",
                !.acks = {r.invoice : r \in {s \in pass.batch :
                            answers[q][s] = "ACCEPTED"}}]
  /\ UNCHANGED <<invoices, reversals, till, posted, adminVoids>>

ReceiveStaged(q) ==
  /\ pass.point = "posted"
  /\ pass.request = q
  /\ Respond(q)
  /\ pass' = [pass EXCEPT !.point = "acking",
                !.acks = {r.invoice : r \in {s \in pass.batch :
                            answers[q][s] \in {"ACCEPTED", "DUPLICATE", "STAGED_FUTURE"}}}]
  /\ UNCHANGED <<invoices, reversals, till, posted, adminVoids>>

(* shouldMarkSalesSynced: the records to acknowledge, by invoice.          *)
Receive(q) ==
  /\ pass.point = "posted"
  /\ pass.request = q
  /\ Respond(q)
  /\ pass' = [pass EXCEPT !.point = "acking",
                !.acks = {r.invoice : r \in {s \in pass.batch :
                            answers[q][s] \in {"ACCEPTED", "DUPLICATE"}}}]
  /\ UNCHANGED <<invoices, reversals, till, posted, adminVoids>>

(* The answer is lost or late; the pass goes on with its other domains.    *)
GiveUp ==
  /\ pass.point = "posted"
  /\ pass' = [Resting EXCEPT !.point = "pull"]
  /\ UNCHANGED <<vars, invoices, reversals, till, posted, adminVoids>>

(* A request nobody waits for any more ends.                               *)
RespondToNobody(q) ==
  /\ ~(pass.point = "posted" /\ pass.request = q)
  /\ Respond(q)
  /\ UNCHANGED posVars

(* acknowledgeSaleSync, markAsSynced: by invoice id, whatever the row says *)
(* by now.                                                                 *)
Acknowledge(i) ==
  /\ pass.point = "acking"
  /\ i \in pass.acks
  /\ invoices' = [invoices EXCEPT ![i].sync = "synced"]
  /\ pass' = [pass EXCEPT !.acks = @ \ {i}]
  /\ UNCHANGED <<vars, reversals, till, posted, adminVoids>>

(* The acknowledged movements are not the expected ones: the row stays     *)
(* pending.                                                                *)
AcknowledgeFails(i) ==
  /\ pass.point = "acking"
  /\ i \in pass.acks
  /\ pass' = [pass EXCEPT !.acks = @ \ {i}]
  /\ UNCHANGED <<vars, invoices, reversals, till, posted, adminVoids>>

AcknowledgeEnd ==
  /\ pass.point = "acking"
  /\ pass.acks = {}
  /\ pass' = [Resting EXCEPT !.point = "pull"]
  /\ UNCHANGED <<vars, invoices, reversals, till, posted, adminVoids>>

ReadForRemoteVoidAgain(i) ==
  /\ pass.point = "pull"
  /\ CloudCanceled(i)
  /\ invoices[i].state # "none"
  /\ pass' = [pass EXCEPT !.point = "remote", !.remote = i, !.copy = invoices[i]]
  /\ UNCHANGED <<vars, invoices, reversals, till, posted, adminVoids>>

(* _pullInboundDeltas, the voided invoices: applyRemoteVoid reads the row, *)
(* then writes the copy it read.                                           *)
ReadForRemoteVoid(i) ==
  /\ pass.point = "pull"
  /\ CloudCanceled(i)
  /\ invoices[i].state = "active"
  /\ pass' = [pass EXCEPT !.point = "remote", !.remote = i, !.copy = invoices[i]]
  /\ UNCHANGED <<vars, invoices, reversals, till, posted, adminVoids>>

CommitRemoteVoid ==
  /\ pass.point = "remote"
  /\ invoices' = [invoices EXCEPT ![pass.remote] =
                    [pass.copy EXCEPT !.state = "canceled", !.sync = "synced"]]
  /\ reversals' = [reversals EXCEPT ![pass.remote] = @ + 1]
  /\ pass' = [Resting EXCEPT !.point = "pull"]
  /\ UNCHANGED <<vars, till, posted, adminVoids>>

PullEnd ==
  /\ pass.point = "pull"
  /\ pass' = Resting
  /\ UNCHANGED <<vars, invoices, reversals, till, posted, adminVoids>>

-----------------------------------------------------------------------------
(* voidAdminInvoice, in the backoffice.                                    *)
AdminVoid(i) ==
  /\ InCloud(i)
  /\ ~CloudCanceled(i)
  /\ adminVoids' = adminVoids \union {i}
  /\ UNCHANGED <<vars, invoices, reversals, till, pass, posted>>

Cashier ==
  \/ \E i \in Invoices : Sell(i) \/ ReadForVoid(i)
  \/ CommitVoid

Sync ==
  \/ \E q \in Requests : Post(q) \/ Receive(q)
  \/ NothingToPost
  \/ \E i \in Invoices : Acknowledge(i) \/ ReadForRemoteVoid(i)
  \/ AcknowledgeEnd \/ CommitRemoteVoid \/ PullEnd

Cloud ==
  \/ \E q \in Requests : (Serve(q) \/ Abort(q)) /\ UNCHANGED posVars
  \/ \E q \in Requests : RespondToNobody(q)
  \/ \E n \in Seqs : GraceElapses(n) /\ UNCHANGED posVars

SalesNext ==
  \/ Cashier
  \/ Sync
  \/ Cloud
  \/ GiveUp
  \/ \E i \in Invoices : AcknowledgeFails(i) \/ AdminVoid(i)
  \/ Restart

SalesSpec == SalesInit /\ [][SalesNext]_salesVars

-----------------------------------------------------------------------------
Rows == [state : {"none", "active", "canceled"}, kind : {"sale", "void"},
         seq : 0..MaxSeq, sync : {"pending", "synced"}]

(* The rows of the terminal and the memory of its pass have their shape    *)
(* (InvoiceEntity, SyncService); no stock is given back more than twice.   *)
SalesTypeOK ==
  /\ TypeOK
  /\ invoices \in [Invoices -> Rows]
  /\ reversals \in [Invoices -> 0..2]
  /\ till \in Invoices \union {NoInvoice}
  /\ pass \in [point : {"idle", "posted", "acking", "pull", "remote"},
                request : Requests \union {NoInvoice},
                batch : SUBSET Records,
                acks : SUBSET Invoices,
                remote : Invoices \union {NoInvoice},
                copy : Rows]
  /\ posted \subseteq Records
  /\ adminVoids \subseteq Invoices

(* An invoice the terminal has marked synced is in the cloud: the terminal *)
(* never stops offering a sale that the cloud does not have, whatever      *)
(* answers were lost, late, or for an older state of the row.              *)
SyncedIsDurable == \A i \in Invoices : invoices[i].sync = "synced" => InCloud(i)

(* A sequence is never handed to the cloud for two documents, although a   *)
(* void takes its invoice off the sequence it had and the next number is   *)
(* computed from the rows that are left (getNextInvoiceSourceSequence).    *)
SequenceNotReused == \A r, s \in posted : r.seq = s.seq => r = s

(* A terminal that has voided nothing never has a record held back nor a   *)
(* sequence declared lost: crashes, lost answers and overlapping requests  *)
(* alone make no hole in the stream syncBatch sees.                        *)
GapNeedsVoid ==
  (\E n \in Seqs : receipts[n] = GapFill \/ staged[n] # NoRecord) =>
    \E i \in Invoices : invoices[i].state = "canceled"

(* A void made on the terminal is pending or has reached the cloud:        *)
(* voidInvoice resets syncStatus "so the cancelled invoice re-syncs        *)
(* upstream".                                                              *)
VoidIsNotLost ==
  \A i \in Invoices :
    invoices[i].state = "canceled" => invoices[i].sync = "pending" \/ CloudCanceled(i)

(* The stock of an invoice is given back once, as long as the backoffice   *)
(* keeps out of it: restarts and passes never make a second void of one    *)
(* that is canceled (AC-3).                                                *)
StockReversedOnce ==
  \A i \in Invoices : reversals[i] > 1 => i \in adminVoids

-----------------------------------------------------------------------------
(* Passes run for ever (the timer of SyncService), requests are served,    *)
(* and at some point answers stop being lost and processes stop dying: a   *)
(* terminal gives up only on a request that has died.                      *)
Calm ==
  /\ ~Restart
  /\ \A i \in Invoices : AcknowledgeFails(i) => invoices[i].sync = "synced"
  /\ GiveUp => req[pass.request].pc = "idle"
  /\ \A q \in Requests : ~Abort(q) /\ RefusedForCause(q)

SalesFairness ==
  /\ WF_salesVars(Sync)
  /\ WF_salesVars(GiveUp)
  /\ \A q \in Requests : WF_salesVars((Serve(q) /\ UNCHANGED posVars) \/ RespondToNobody(q))
  /\ \A n \in Seqs : WF_salesVars(GraceElapses(n) /\ UNCHANGED posVars)
  /\ <>[][Calm]_salesVars

FairSalesSpec == SalesSpec /\ SalesFairness

(* A terminal that voids nothing gets every sale to the cloud.             *)
SaleIsDelivered ==
  [](\A i \in Invoices : invoices[i].state # "canceled") =>
    \A i \in Invoices : invoices[i].state = "active" ~> invoices[i].sync = "synced"

(* A held record does not block the stream for ever: the gap policy        *)
(* declares what is missing once the block is old, and a real document is  *)
(* accepted at its sequence or at a later one (a fill is not one).         *)
StreamMovesOn ==
  \A n \in Seqs : staged[n] # NoRecord ~> \E m \in n..MaxSeq : receipts[m] \in Records

(* Every request ends: the drain's unbounded loop stops, and no record of  *)
(* the batch is taken up for ever (syncBatch, drainStagedFutureRecords).   *)
EveryRequestEnds == \A q \in Requests : req[q].pc # "idle" ~> req[q].pc = "idle"

(* What the gap policy says of the rows it finds held: it fills "each      *)
(* missing sequence", and "the device's own retry loop drains the staged   *)
(* rows afterwards" (sequence-gap-policy.service.ts).                      *)
StagedIsDrained ==
  \A n \in Seqs : staged[n] # NoRecord ~> receipts[n] \in Records
=============================================================================
