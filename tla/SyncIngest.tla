----------------------------- MODULE SyncIngest -----------------------------
(***************************************************************************)
(* The cloud side of the sales sync: InvoicesService.syncBatch and the     *)
(* sequence-gap policy, for one device stream (tenant, source device,      *)
(* flow).  Every database transaction of a request is one action, so two   *)
(* requests for the same stream (a retry that overtakes a request the      *)
(* terminal gave up on) interleave between transactions as they do in the  *)
(* program.  A request may die at any point; what it committed stays.      *)
(***************************************************************************)
EXTENDS Naturals, Sequences

CONSTANTS
  Records,    \* the records that may be sent (see RecordsAssumption)
  Batches,    \* the sets of records one request may carry
  Requests,   \* concurrently served syncBatch calls
  MaxSeq,     \* highest source sequence considered
  NoReceipt,  \* no receipt row for a sequence
  GapFill,    \* a fill receipt, GAP_FILL_NO_PAYLOAD
  NoRecord,   \* no record, no row
  NoOrigin    \* the origin of a record that is not a credit note

Seqs == 1..MaxSeq

(* A record has the idempotency key, the source sequence and the payload   *)
(* hash (body) the sender computed, the invoice it carries, whether that   *)
(* is canceled, and whether it moves stock (the correlation ids of its     *)
(* movements are those of the invoice's lines, whatever the record); a     *)
(* credit note also names the invoice it refunds.                          *)
ASSUME RecordsAssumption ==
  /\ MaxSeq \in Nat
  /\ \A r \in Records : /\ r.seq \in Seqs
                        /\ r.note \in BOOLEAN
  /\ NoReceipt \notin Records
  /\ GapFill \notin Records
  /\ NoRecord \notin Records
  /\ NoReceipt # GapFill
  /\ Batches \subseteq SUBSET Records

VARIABLES
  receipts,  \* inventory_sync_receipts: what each sequence was accepted as
  staged,    \* inventory_sync_outbox: the row waiting at each sequence
  aged,      \* sequences whose staged row is older than the grace window
  ledger,    \* invoices and movements, in the order they were committed
  req,       \* the local state of every request
  answers    \* the per-record results each request has collected

durable == <<receipts, staged, aged, ledger>>
vars == <<receipts, staged, aged, ledger, req, answers>>

Statuses == {"ACCEPTED", "DUPLICATE", "STAGED_FUTURE", "REJECTED",
             "BLOCKED_BY_PRIOR_FAILURE", "IDEMPOTENCY_MISMATCH"}

Points == {"idle", "next", "bySeq", "expect", "gap", "stage", "apply",
           "hold", "drain", "drainApply", "drainHold", "drainDelete"}

Idle == [pc |-> "idle", todo |-> {}, blocked |-> FALSE, rec |-> NoRecord,
         row |-> NoRecord, expected |-> 0]

NoAnswers == [r \in Records |-> "NONE"]

Init ==
  /\ receipts = [n \in Seqs |-> NoReceipt]
  /\ staged = [n \in Seqs |-> NoRecord]
  /\ aged = {}
  /\ ledger = << >>
  /\ req = [q \in Requests |-> Idle]
  /\ answers = [q \in Requests |-> NoAnswers]

-----------------------------------------------------------------------------
(* Reads shared by several steps.                                          *)

Accepted == {n \in Seqs : receipts[n] # NoReceipt}

(* The highest accepted sequence, ORDER BY source_sequence DESC.           *)
Watermark ==
  IF Accepted = {} THEN 0
  ELSE CHOOSE n \in Accepted : \A m \in Accepted : m <= n

KeyTaken(r) == \E n \in Seqs : receipts[n] \in Records /\ receipts[n].key = r.key

(* A credit note needs its origin: an invoice that is there, and that is a *)
(* regular sale nothing has canceled.                                      *)
OriginMissing(r) == r.note /\ \A i \in DOMAIN ledger : ledger[i].invoice # r.origin

OriginIsSale(r) ==
  r.note => \A i \in DOMAIN ledger :
              ledger[i].invoice = r.origin => ~(ledger[i].canceled \/ ledger[i].note)

(* A sale whose movements are already there, under the same correlation    *)
(* ids: appendV1Movement refuses a second set.                             *)
CorrelationTaken(r) ==
  r.moves /\ \E i \in DOMAIN ledger : ledger[i].moves /\ ledger[i].invoice = r.invoice

StagedAt(n) == IF n \in Seqs THEN staged[n] ELSE NoRecord

(* The staged row a record would collide with: by key first, then by       *)
(* sequence.                                                               *)
RowsByKey(r) == {n \in Seqs : staged[n] # NoRecord /\ staged[n].key = r.key}

ConflictingRow(r) ==
  IF RowsByKey(r) # {} THEN staged[CHOOSE n \in RowsByKey(r) : TRUE]
  ELSE staged[r.seq]

BlockIsOldAtExpected(expected) == expected \in aged

(* The block has lasted longer than the grace window: judged on the row    *)
(* with the lowest sequence at or above the expected one.                  *)
BlockIsOld(expected) ==
  \E n \in aged : /\ n >= expected
                  /\ \A m \in Seqs : m >= expected /\ m < n => staged[m] = NoRecord

MissingUnchecked(expected, incoming) == {n \in Seqs : n >= expected /\ n < incoming}

(* The sequences the gap policy fills: no receipt yet.  Rows of the outbox *)
(* are not looked at.                                                      *)
Missing(expected, incoming) ==
  {n \in Seqs : n >= expected /\ n < incoming /\ receipts[n] = NoReceipt}

-----------------------------------------------------------------------------
(* Steps of a request's local state.                                       *)

GoTo(q, point) == req' = [req EXCEPT ![q].pc = point]

Answer(q, r, status) == answers' = [answers EXCEPT ![q][r] = status]

LeaveRecordUnblocking(q, r, blocks) ==
  req' = [req EXCEPT ![q] = [pc |-> "next",
                             todo |-> req[q].todo \ {r},
                             blocked |-> req[q].blocked,
                             rec |-> NoRecord,
                             row |-> NoRecord,
                             expected |-> 0]]

(* Leave the current record; blocks adds its stream to blockedStreams.     *)
LeaveRecord(q, r, blocks) ==
  req' = [req EXCEPT ![q] = [pc |-> "next",
                             todo |-> req[q].todo \ {r},
                             blocked |-> req[q].blocked \/ blocks,
                             rec |-> NoRecord,
                             row |-> NoRecord,
                             expected |-> 0]]

Settle(q, r, status, blocks) ==
  /\ Answer(q, r, status)
  /\ LeaveRecord(q, r, blocks)

-----------------------------------------------------------------------------
(* A device posts a batch.                                                 *)
Submit(q, batch) ==
  /\ req[q].pc = "idle"
  /\ req' = [req EXCEPT ![q].pc = "next", ![q].todo = batch]
  /\ UNCHANGED <<durable, answers>>

(* A credit note that breaks the rules of its envelope is refused before   *)
(* anything is looked up, and blocks the rest of its batch.                *)
RejectBoundary(q) ==
  /\ req[q].pc = "next"
  /\ \E r \in req[q].todo :
       /\ \A s \in req[q].todo : r.seq <= s.seq
       /\ r.note
       /\ Settle(q, r, "REJECTED", TRUE)
  /\ UNCHANGED durable

(* The batch is served in source sequence order; a known key is answered   *)
(* from its receipt, whatever the state of the stream.                     *)
LookupByKey(q) ==
  /\ req[q].pc = "next"
  /\ \E r \in req[q].todo :
       /\ \A s \in req[q].todo : r.seq <= s.seq
       /\ \/ /\ ~KeyTaken(r)
             /\ req' = [req EXCEPT ![q].pc = "bySeq", ![q].rec = r]
             /\ UNCHANGED answers
          \/ \E n \in Seqs :
               /\ receipts[n] \in Records
               /\ receipts[n].key = r.key
               /\ Settle(q, r, IF receipts[n].body = r.body THEN "DUPLICATE"
                               ELSE "IDEMPOTENCY_MISMATCH", FALSE)
  /\ UNCHANGED durable

FillAnsweredAsDuplicate(q) ==
  /\ req[q].pc = "bySeq"
  /\ LET r == req[q].rec
         receipt == receipts[r.seq]
     IN \/ /\ receipt # NoReceipt
           /\ Settle(q, r, "DUPLICATE", FALSE)
        \/ /\ receipt = NoReceipt
           /\ req[q].blocked
           /\ Settle(q, r, "BLOCKED_BY_PRIOR_FAILURE", FALSE)
        \/ /\ receipt = NoReceipt
           /\ ~req[q].blocked
           /\ GoTo(q, "expect")
           /\ UNCHANGED answers
  /\ UNCHANGED durable

(* Then the position is looked up: taken by the same payload, taken by     *)
(* another one (or filled), or free; a free position behind a failure of   *)
(* the same batch is refused.                                              *)
LookupBySequence(q) ==
  /\ req[q].pc = "bySeq"
  /\ LET r == req[q].rec
         receipt == receipts[r.seq]
     IN \/ /\ receipt # NoReceipt
           /\ Settle(q, r, IF receipt # GapFill /\ receipt.body = r.body
                           THEN "DUPLICATE" ELSE "IDEMPOTENCY_MISMATCH", FALSE)
        \/ /\ receipt = NoReceipt
           /\ req[q].blocked
           /\ Settle(q, r, "BLOCKED_BY_PRIOR_FAILURE", FALSE)
        \/ /\ receipt = NoReceipt
           /\ ~req[q].blocked
           /\ GoTo(q, "expect")
           /\ UNCHANGED answers
  /\ UNCHANGED durable

ResolveExpected(q) ==
  /\ req[q].pc = "expect"
  /\ LET r == req[q].rec
         expected == Watermark + 1
     IN \/ /\ r.seq < expected
           /\ Settle(q, r, "REJECTED", FALSE)
        \/ /\ r.seq = expected
           /\ GoTo(q, "apply")
           /\ UNCHANGED answers
        \/ /\ r.seq > expected
           /\ req' = [req EXCEPT ![q].pc = "gap", ![q].expected = expected]
           /\ UNCHANGED answers
  /\ UNCHANGED durable

(* The block is old enough: every sequence still without a receipt below   *)
(* the incoming record is declared lost, and the record is applied.        *)
DeclareGap(q) ==
  LET r == req[q].rec
      expected == req[q].expected
  IN /\ req[q].pc = "gap"
     /\ BlockIsOld(expected)
     /\ Missing(expected, r.seq) # {}
     /\ receipts' = [n \in Seqs |-> IF n \in Missing(expected, r.seq)
                                    THEN GapFill ELSE receipts[n]]
     /\ GoTo(q, "apply")
     /\ UNCHANGED <<staged, aged, ledger, answers>>

KeepWaitingUnlessBeaten(q) ==
  LET r == req[q].rec
      expected == req[q].expected
  IN /\ req[q].pc = "gap"
     /\ \/ ~BlockIsOld(expected) /\ GoTo(q, "stage")
        \/ (\E n \in Accepted : n >= expected /\ n < r.seq) /\ GoTo(q, "apply")
     /\ UNCHANGED <<durable, answers>>

KeepWaitingForARow(q) ==
  LET r == req[q].rec
      expected == req[q].expected
  IN /\ req[q].pc = "gap"
     /\ \/ ~BlockIsOld(expected) /\ \E n \in Seqs : n >= expected /\ staged[n] # NoRecord
        \/ \E n \in Accepted : n >= expected /\ n < r.seq
     /\ GoTo(q, "stage")
     /\ UNCHANGED <<durable, answers>>

(* Nothing is declared: the block is young, or another request has written *)
(* some of these receipts since (the gap is filled, or the insert loses    *)
(* the race on the unique index).                                          *)
KeepWaiting(q) ==
  LET r == req[q].rec
      expected == req[q].expected
  IN /\ req[q].pc = "gap"
     /\ \/ ~BlockIsOld(expected)
        \/ \E n \in Accepted : n >= expected /\ n < r.seq
     /\ GoTo(q, "stage")
     /\ UNCHANGED <<durable, answers>>

(* stageFutureRecord: one row per key and per sequence.  A held credit     *)
(* note also blocks the rest of its batch.                                 *)
Stage(q, r) ==
  IF ConflictingRow(r) = NoRecord
  THEN /\ staged' = [staged EXCEPT ![r.seq] = r]
       /\ aged' = aged \ {r.seq}
       /\ Answer(q, r, "STAGED_FUTURE")
  ELSE /\ Answer(q, r, IF ConflictingRow(r).body = r.body THEN "STAGED_FUTURE"
                       ELSE "IDEMPOTENCY_MISMATCH")
       /\ UNCHANGED <<staged, aged>>

StageFuture(q) ==
  /\ req[q].pc \in {"stage", "hold"}
  /\ Stage(q, req[q].rec)
  /\ LeaveRecord(q, req[q].rec, req[q].pc = "hold")
  /\ UNCHANGED <<receipts, ledger>>

-----------------------------------------------------------------------------
(* applyExpectedRecord: invoice, movements and receipt in one transaction, *)
(* refused by the unique indexes when the sequence or the key is taken.    *)
(* An accepted credit note takes its held row away in the same transaction. *)
CanAcceptUnindexed(r) ==
  /\ ~CorrelationTaken(r)
  /\ ~OriginMissing(r)
  /\ OriginIsSale(r)

CanAccept(r) ==
  /\ receipts[r.seq] = NoReceipt
  /\ ~KeyTaken(r)
  /\ ~CorrelationTaken(r)
  /\ ~OriginMissing(r)
  /\ OriginIsSale(r)

HeldRows(r) ==
  {n \in RowsByKey(r) : r.note /\ staged[n].body = r.body}

Commit(q, r) ==
  /\ CanAccept(r)
  /\ receipts' = [receipts EXCEPT ![r.seq] = r]
  /\ ledger' = Append(ledger, r)
  /\ staged' = [n \in Seqs |-> IF n \in HeldRows(r) THEN NoRecord ELSE staged[n]]
  /\ aged' = aged \ HeldRows(r)
  /\ Answer(q, r, "ACCEPTED")

ApplyAcceptSkipping(q) ==
  /\ req[q].pc = "apply"
  /\ Commit(q, req[q].rec)
  /\ req' = [req EXCEPT ![q].pc = "drain", ![q].expected = req[q].rec.seq + 2]

ApplyAccept(q) ==
  /\ req[q].pc = "apply"
  /\ Commit(q, req[q].rec)
  /\ req' = [req EXCEPT ![q].pc = "drain", ![q].expected = req[q].rec.seq + 1]

(* Any failure of the transaction: a business rule, a serialization        *)
(* failure, a unique index.                                                *)
ApplyReject(q) ==
  /\ req[q].pc = "apply"
  /\ Settle(q, req[q].rec, "REJECTED", TRUE)
  /\ UNCHANGED durable

ApplyHold(q) ==
  /\ req[q].pc = "apply"
  /\ OriginMissing(req[q].rec)
  /\ GoTo(q, "hold")
  /\ UNCHANGED <<durable, answers>>

-----------------------------------------------------------------------------
(* drainStagedFutureRecords, after an accepted record: as long as a row    *)
(* waits at the next sequence it is read, applied and deleted, in three    *)
(* transactions; the first row that is not accepted ends the drain.        *)
DrainFindClaiming(q) ==
  /\ req[q].pc = "drain"
  /\ StagedAt(req[q].expected) # NoRecord
  /\ req' = [req EXCEPT ![q].pc = "drainApply",
                        ![q].row = StagedAt(req[q].expected)]
  /\ staged' = [staged EXCEPT ![req[q].expected] = NoRecord]
  /\ aged' = aged \ {req[q].expected}
  /\ UNCHANGED <<receipts, ledger, answers>>

DrainFind(q) ==
  /\ req[q].pc = "drain"
  /\ StagedAt(req[q].expected) # NoRecord
  /\ req' = [req EXCEPT ![q].pc = "drainApply",
                        ![q].row = StagedAt(req[q].expected)]
  /\ UNCHANGED <<durable, answers>>

DrainEnd(q) ==
  /\ req[q].pc = "drain"
  /\ StagedAt(req[q].expected) = NoRecord
  /\ LeaveRecord(q, req[q].rec, FALSE)
  /\ UNCHANGED <<durable, answers>>

DrainAccept(q) ==
  /\ req[q].pc = "drainApply"
  /\ Commit(q, req[q].row)
  /\ GoTo(q, "drainDelete")

DrainReject(q) ==
  /\ req[q].pc = "drainApply"
  /\ Answer(q, req[q].row, "REJECTED")
  /\ LeaveRecord(q, req[q].rec, FALSE)
  /\ UNCHANGED durable

DrainHold(q) ==
  /\ req[q].pc = "drainApply"
  /\ OriginMissing(req[q].row)
  /\ GoTo(q, "drainHold")
  /\ UNCHANGED <<durable, answers>>

DrainHoldStage(q) ==
  /\ req[q].pc = "drainHold"
  /\ Stage(q, req[q].row)
  /\ LeaveRecord(q, req[q].rec, FALSE)
  /\ UNCHANGED <<receipts, ledger>>

(* The applied row is deleted by its id in a transaction of its own: a     *)
(* credit note's row went with its acceptance, so nothing is left to       *)
(* delete under that id.                                                   *)
DrainDelete(q) ==
  LET row == req[q].row
  IN /\ req[q].pc = "drainDelete"
     /\ staged' = [staged EXCEPT ![row.seq] = IF row.note THEN @ ELSE NoRecord]
     /\ aged' = IF row.note THEN aged ELSE aged \ {row.seq}
     /\ req' = [req EXCEPT ![q].pc = "drain", ![q].row = NoRecord,
                           ![q].expected = @ + 1]
     /\ UNCHANGED <<receipts, ledger, answers>>

-----------------------------------------------------------------------------
Respond(q) ==
  /\ req[q].pc = "next"
  /\ req[q].todo = {}
  /\ req' = [req EXCEPT ![q] = Idle]
  /\ answers' = [answers EXCEPT ![q] = NoAnswers]
  /\ UNCHANGED durable

(* The request fails: a query throws, or the process dies.  (When all its  *)
(* records are settled there is nothing left to fail but the answer.)      *)
Abort(q) ==
  /\ req[q].pc # "idle"
  /\ req[q].pc = "next" => req[q].todo # {}
  /\ req' = [req EXCEPT ![q] = Idle]
  /\ answers' = [answers EXCEPT ![q] = NoAnswers]
  /\ UNCHANGED durable

(* The grace window of a staged row elapses.                               *)
GraceElapses(n) ==
  /\ staged[n] # NoRecord
  /\ n \notin aged
  /\ aged' = aged \union {n}
  /\ UNCHANGED <<receipts, staged, ledger, req, answers>>

Apply(q) == ApplyAccept(q) \/ ApplyReject(q) \/ ApplyHold(q)

Drain(q) ==
  \/ DrainFind(q) \/ DrainEnd(q) \/ DrainAccept(q) \/ DrainReject(q)
  \/ DrainHold(q) \/ DrainHoldStage(q) \/ DrainDelete(q)

Serve(q) ==
  \/ RejectBoundary(q) \/ LookupByKey(q) \/ LookupBySequence(q) \/ ResolveExpected(q)
  \/ DeclareGap(q) \/ KeepWaiting(q) \/ StageFuture(q)
  \/ Apply(q) \/ Drain(q)

Next ==
  \/ \E q \in Requests :
       \/ \E batch \in Batches : Submit(q, batch)
       \/ Serve(q) \/ Respond(q) \/ Abort(q)
  \/ \E n \in Seqs : GraceElapses(n)

Spec == Init /\ [][Next]_vars

-----------------------------------------------------------------------------
LocalState == [pc : Points,
               todo : SUBSET Records,
               blocked : BOOLEAN,
               rec : Records \union {NoRecord},
               row : Records \union {NoRecord},
               expected : 0..(MaxSeq + 1)]

(* The state has the shape of the tables and of the handler's local        *)
(* variables (syncBatch and drainStagedFutureRecords).                     *)
TypeOK ==
  /\ receipts \in [Seqs -> Records \union {NoReceipt, GapFill}]
  /\ staged \in [Seqs -> Records \union {NoRecord}]
  /\ aged \subseteq Seqs
  /\ ledger \in Seq(Records)
  /\ req \in [Requests -> LocalState]
  /\ answers \in [Requests -> [Records -> Statuses \union {"NONE"}]]

(* The receipts of a stream have no hole below the watermark, whatever the *)
(* interleaving of the requests that apply, stage, drain and declare gaps  *)
(* for it: what freshness-derivation.ts takes for granted "by construction"*)
(* and resolveExpectedSequence relies on when it reads only the maximum.   *)
ReceiptsContiguous ==
  \A n \in Seqs : receipts[n] # NoReceipt =>
    \A m \in Seqs : m < n => receipts[m] # NoReceipt

(* Documents and inventory movements are committed in source sequence      *)
(* order and once per receipt: two requests that carry the same record, or *)
(* a request and the drain of another, never both commit it                *)
(* (applyExpectedRecord).                                                  *)
ExactlyOnceInOrder ==
  /\ \A i, j \in DOMAIN ledger : i < j => ledger[i].seq < ledger[j].seq
  /\ \A i \in DOMAIN ledger : receipts[ledger[i].seq] = ledger[i]
  /\ \A n \in Seqs : receipts[n] \in Records =>
       \E i \in DOMAIN ledger : ledger[i] = receipts[n]

(* A record answered ACCEPTED or DUPLICATE is in the ledger with the very  *)
(* payload the terminal sent: a terminal that marks it synced loses        *)
(* nothing.  A sequence that was declared lost must not answer so.         *)
AcceptedAnswerIsDurable ==
  \A q \in Requests, r \in Records :
    answers[q][r] \in {"ACCEPTED", "DUPLICATE"} =>
      \E i \in DOMAIN ledger : ledger[i].body = r.body

(* A record answered STAGED_FUTURE stays in the outbox until it is in the  *)
(* ledger: neither a concurrent drain, nor a rejected drain, nor a request *)
(* that dies between applying the row and deleting it, drops it.           *)
StagedAnswerIsHeld ==
  \A q \in Requests, r \in Records :
    answers[q][r] = "STAGED_FUTURE" =>
      \/ \E n \in Seqs : staged[n] # NoRecord /\ staged[n].body = r.body
      \/ \E i \in DOMAIN ledger : ledger[i].body = r.body

(* What keeps these true, as an inductive invariant: a request past the    *)
(* expected-sequence check acts on a position all of whose predecessors    *)
(* have receipts.  Receipts are never taken back, so this outlives the     *)
(* steps of the other requests.                                            *)
Before(n) == \A m \in Seqs : m < n => receipts[m] # NoReceipt

Position(r) ==
  /\ r.pc \notin {"idle", "next"} => r.rec \in Records
  /\ r.pc \in {"gap", "drain", "drainApply", "drainDelete"} => Before(r.expected)
  /\ r.pc = "apply" => Before(r.rec.seq)
  /\ r.pc \in {"drainApply", "drainHold", "drainDelete"} => r.row \in Records
  /\ r.pc \in {"drainApply", "drainDelete"} => r.row.seq = r.expected
  /\ r.pc = "drainDelete" => receipts[r.expected] # NoReceipt

StagedInPlace == \A n \in Seqs : staged[n] # NoRecord => staged[n].seq = n

IngestInv ==
  /\ TypeOK
  /\ ReceiptsContiguous
  /\ StagedInPlace
  /\ \A q \in Requests : Position(req[q])

(* The receipts implement the abstract stream: position n of the log is    *)
(* the receipt of sequence n, up to the watermark.                         *)
Stream == INSTANCE SaleStream WITH log <- [n \in 1..Watermark |-> receipts[n]]

RefinesSaleStream == Stream!Spec

-----------------------------------------------------------------------------
(* A record is refused only by a rule or by an index, no longer by chance.  *)
RefusedForCause(q) ==
  /\ ApplyReject(q) => ~CanAccept(req[q].rec)
  /\ DrainReject(q) => ~CanAccept(req[q].row)
=============================================================================
