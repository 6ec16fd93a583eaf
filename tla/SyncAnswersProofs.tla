-------------------------- MODULE SyncAnswersProofs --------------------------
(***************************************************************************)
(* What the cloud says of a stream can be relied on, for any number of     *)
(* requests, any records, any batches and any highest sequence.  An        *)
(* accepted record is in the ledger because its receipt is; a staged one   *)
(* stays in the outbox until then, because what a drain deletes is what it *)
(* committed; and a stream shown as complete hides nothing.                *)
(***************************************************************************)
EXTENDS SyncFreshness, SyncIngestProofs, FiniteSetTheorems

-----------------------------------------------------------------------------
(* The inductive invariant.                                                *)

(* Every receipt of a record stands for a document in the ledger.          *)
ReceiptsBacked ==
  \A n \in Seqs : receipts[n] \in Records => \E i \in DOMAIN ledger : ledger[i] = receipts[n]

(* A row a drain has read is still in its place, unless its position or    *)
(* its key is taken and the commit will fail.                              *)
RowHeld(r) ==
  r.pc = "drainApply" => \/ staged[r.row.seq] = r.row
                         \/ receipts[r.row.seq] # NoReceipt
                         \/ KeyTaken(r.row)

(* A row a drain is about to delete is the one it has committed.           *)
RowCommitted(r) ==
  r.pc = "drainDelete" => /\ receipts[r.row.seq] = r.row
                          /\ r.row.note \/ staged[r.row.seq] = r.row

DrainsDisjoint ==
  \A p, q \in Requests :
    p # q /\ req[p].pc = "drainDelete" /\ req[q].pc = "drainDelete" =>
      req[p].row.seq # req[q].row.seq

DrainsInv ==
  /\ DrainsDisjoint
  /\ \A q \in Requests : RowHeld(req[q]) /\ RowCommitted(req[q])

AnswersInv ==
  /\ ReceiptsBacked
  /\ DrainsInv
  /\ AcceptedAnswerIsDurable
  /\ StagedAnswerIsHeld
-----------------------------------------------------------------------------
(* What a step does to the tables.                                         *)

InLedger(r) == \E i \in DOMAIN ledger : ledger[i].body = r.body

InOutbox(r) == \E n \in Seqs : staged[n] # NoRecord /\ staged[n].body = r.body

(* A receipt is never taken back nor replaced, a document never removed.   *)
LEMMA ReceiptsKept ==
  ASSUME IngestInv, [Next]_vars
  PROVE  /\ \A n \in Seqs : receipts[n] # NoReceipt => receipts'[n] = receipts[n]
         /\ \A r : InLedger(r) => InLedger(r)'
         /\ \A r : KeyTaken(r) => KeyTaken(r)'
<1>1. CASE \E q \in Requests, r \in Records : Before(r.seq) /\ Commit(q, r)
  <2>1. PICK q \in Requests, r \in Records : Commit(q, r)
    BY <1>1
  <2>2. /\ r.seq \in Seqs /\ receipts[r.seq] = NoReceipt
        /\ receipts' = [receipts EXCEPT ![r.seq] = r]
        /\ ledger' = Append(ledger, r) /\ ledger \in Seq(Records)
    BY <2>1, RecordsAssumption DEF Commit, CanAccept, IngestInv, TypeOK
  <2>3. \A i \in DOMAIN ledger : i \in DOMAIN ledger' /\ ledger'[i] = ledger[i]
    BY <2>2
  <2>4. \A n \in Seqs : receipts[n] # NoReceipt => receipts'[n] = receipts[n]
    BY <2>2 DEF IngestInv, TypeOK
  <2> QED BY <2>3, <2>4, RecordsAssumption DEF InLedger, KeyTaken
<1>2. CASE \E q \in Requests : DeclareGap(q)
  <2>1. /\ \A n \in Seqs : receipts[n] # NoReceipt => receipts'[n] = receipts[n]
        /\ ledger' = ledger
    BY <1>2 DEF DeclareGap, Missing
  <2> QED BY <2>1, RecordsAssumption DEF InLedger, KeyTaken
<1>3. CASE UNCHANGED <<receipts, ledger>>
  BY <1>3 DEF InLedger, KeyTaken
<1> QED BY <1>1, <1>2, <1>3, LedgerSteps

(* Only commits, stagings and drain deletions touch the outbox.            *)
LEMMA OutboxSteps ==
  ASSUME IngestInv, [Next]_vars
  PROVE  \/ \E q \in Requests, r \in Records : Commit(q, r)
         \/ \E q \in Requests, r \in Records : Stage(q, r)
         \/ \E q \in Requests : DrainDelete(q)
         \/ UNCHANGED staged
<1>1. ASSUME NEW q \in Requests, ApplyAccept(q) \/ DrainAccept(q)
      PROVE  \E r \in Records : Commit(q, r)
  BY <1>1 DEF ApplyAccept, DrainAccept, IngestInv, Position
<1>2. ASSUME NEW q \in Requests, StageFuture(q) \/ DrainHoldStage(q)
      PROVE  \E r \in Records : Stage(q, r)
  BY <1>2 DEF StageFuture, DrainHoldStage, IngestInv, Position
<1>3. ASSUME NEW q \in Requests, Serve(q), ~ApplyAccept(q), ~DrainAccept(q), ~StageFuture(q),
             ~DrainHoldStage(q), ~DrainDelete(q)
      PROVE  UNCHANGED staged
  BY <1>3 DEF Serve, Apply, Drain, RejectBoundary, LookupByKey, LookupBySequence, ResolveExpected,
              DeclareGap, KeepWaiting, ApplyReject, ApplyHold, DrainFind, DrainEnd,
              DrainReject, DrainHold, durable
<1>4. ASSUME NEW q \in Requests,
             (\E batch \in Batches : Submit(q, batch)) \/ Respond(q) \/ Abort(q)
      PROVE  UNCHANGED staged
  BY <1>4 DEF Submit, Respond, Abort, durable
<1>5. ASSUME NEW n \in Seqs, GraceElapses(n) PROVE UNCHANGED staged
  BY <1>5 DEF GraceElapses
<1>6. CASE UNCHANGED vars
  BY <1>6 DEF vars
<1> QED BY <1>1, <1>2, <1>3, <1>4, <1>5, <1>6 DEF Next

(* A record is staged only where nothing waits.                            *)
LEMMA StageSpares ==
  ASSUME IngestInv, NEW q \in Requests, NEW r \in Records, Stage(q, r)
  PROVE  \A n \in Seqs : staged[n] # NoRecord => staged'[n] = staged[n]
<1>1. CASE ConflictingRow(r) = NoRecord
  <2>1. r.seq \in Seqs /\ staged' = [staged EXCEPT ![r.seq] = r]
    BY <1>1, RecordsAssumption DEF Stage
  <2>2. RowsByKey(r) = {}
    <3>1. ASSUME RowsByKey(r) # {}
          PROVE  ConflictingRow(r) # NoRecord
      BY <3>1 DEF ConflictingRow, RowsByKey
    <3> QED BY <1>1, <3>1
  <2>3. staged[r.seq] = NoRecord
    BY <1>1, <2>2 DEF ConflictingRow
  <2> QED BY <2>1, <2>3 DEF IngestInv, TypeOK
<1>2. CASE ConflictingRow(r) # NoRecord
  BY <1>2 DEF Stage
<1> QED BY <1>1, <1>2

(* What can happen to a row that waits.                                    *)
LEMMA StagedKept ==
  ASSUME IngestInv, [Next]_vars, NEW n \in Seqs, staged[n] # NoRecord
  PROVE  \/ staged'[n] = staged[n]
         \/ \E q \in Requests, r \in Records :
              Commit(q, r) /\ staged[n].key = r.key /\ staged[n].body = r.body
         \/ \E q \in Requests :
              DrainDelete(q) /\ n = req[q].row.seq /\ ~req[q].row.note
<1>1. ASSUME NEW q \in Requests, NEW r \in Records, Commit(q, r)
      PROVE  staged'[n] = staged[n] \/ (staged[n].key = r.key /\ staged[n].body = r.body)
  BY <1>1 DEF Commit, HeldRows, RowsByKey
<1>2. ASSUME NEW q \in Requests, DrainDelete(q)
      PROVE  staged'[n] = staged[n] \/ (n = req[q].row.seq /\ ~req[q].row.note)
  BY <1>2 DEF DrainDelete, IngestInv, TypeOK
<1>3. ASSUME NEW q \in Requests, NEW r \in Records, Stage(q, r)
      PROVE  staged'[n] = staged[n]
  BY <1>3, StageSpares
<1> QED BY <1>1, <1>2, <1>3, OutboxSteps

-----------------------------------------------------------------------------
(* The drains.                                                             *)

(* Only two steps bring a request to a row it will commit or delete.       *)
LEMMA DrainSteps ==
  ASSUME IngestInv, [Next]_vars, NEW p \in Requests
  PROVE  \/ req'[p].pc = req[p].pc /\ req'[p].row = req[p].row
         \/ req'[p].pc \notin {"drainApply", "drainDelete"}
         \/ DrainFind(p)
         \/ DrainAccept(p)
<1> USE DEF IngestInv, TypeOK
<1>0. \A q \in Requests : req[q] \in LocalState
  OBVIOUS
<1>1. ASSUME NEW q \in Requests, NEW r, NEW b, LeaveRecord(q, r, b)
      PROVE  req'[p] = req[p] \/ req'[p].pc = "next"
  BY <1>1 DEF LeaveRecord
<1>2. ASSUME NEW q \in Requests, NEW point, GoTo(q, point)
      PROVE  req'[p] = req[p] \/ req'[p].pc = point
  BY <1>0, <1>2 DEF GoTo, LocalState
<1>3. ASSUME NEW q \in Requests, RejectBoundary(q) \/ LookupByKey(q)
      PROVE  req'[p] = req[p] \/ req'[p].pc \in {"next", "bySeq"}
  <2>1. CASE \E r, b : LeaveRecord(q, r, b)
    BY <1>1, <2>1
  <2>2. CASE \E r : req' = [req EXCEPT ![q].pc = "bySeq", ![q].rec = r]
    BY <1>0, <2>2 DEF LocalState
  <2> QED BY <1>3, <2>1, <2>2 DEF RejectBoundary, LookupByKey, Settle
<1>4. ASSUME NEW q \in Requests, LookupBySequence(q) \/ ResolveExpected(q)
      PROVE  req'[p] = req[p] \/ req'[p].pc \in {"next", "expect", "apply", "gap"}
  <2>1. CASE \E r, b : LeaveRecord(q, r, b)
    BY <1>1, <2>1
  <2>2. CASE \E point \in {"expect", "apply"} : GoTo(q, point)
    BY <1>2, <2>2
  <2>3. CASE \E e : req' = [req EXCEPT ![q].pc = "gap", ![q].expected = e]
    BY <1>0, <2>3 DEF LocalState
  <2> QED BY <1>4, <2>1, <2>2, <2>3 DEF LookupBySequence, ResolveExpected, Settle
<1>5. ASSUME NEW q \in Requests, DeclareGap(q) \/ KeepWaiting(q) \/ ApplyHold(q) \/ DrainHold(q)
      PROVE  req'[p] = req[p] \/ req'[p].pc \in {"apply", "stage", "hold", "drainHold"}
  BY <1>2, <1>5 DEF DeclareGap, KeepWaiting, ApplyHold, DrainHold
<1>6. ASSUME NEW q \in Requests,
             StageFuture(q) \/ ApplyReject(q) \/ DrainEnd(q) \/ DrainReject(q) \/ DrainHoldStage(q)
      PROVE  req'[p] = req[p] \/ req'[p].pc = "next"
  BY <1>1, <1>6 DEF StageFuture, ApplyReject, DrainEnd, DrainReject, DrainHoldStage, Settle
<1>7. ASSUME NEW q \in Requests, ApplyAccept(q)
      PROVE  req'[p] = req[p] \/ req'[p].pc = "drain"
  BY <1>0, <1>7 DEF ApplyAccept, LocalState
<1>8. ASSUME NEW q \in Requests, DrainFind(q) \/ DrainAccept(q)
      PROVE  req'[p] = req[p] \/ p = q
  BY <1>8 DEF DrainFind, DrainAccept, GoTo
<1>9. ASSUME NEW q \in Requests, DrainDelete(q)
      PROVE  req'[p] = req[p] \/ req'[p].pc = "drain"
  BY <1>0, <1>9 DEF DrainDelete, LocalState
<1>10. ASSUME NEW q \in Requests, NEW batch \in Batches, Submit(q, batch)
       PROVE  req'[p] = req[p] \/ req'[p].pc = "next"
  BY <1>0, <1>10 DEF Submit, LocalState
<1>11. ASSUME NEW q \in Requests, Respond(q) \/ Abort(q)
       PROVE  req'[p] = req[p] \/ req'[p].pc = "idle"
  BY <1>11 DEF Respond, Abort, Idle
<1>12. ASSUME NEW n \in Seqs, GraceElapses(n) PROVE req' = req
  BY <1>12 DEF GraceElapses
<1>13. CASE UNCHANGED vars
  BY <1>13 DEF vars
<1>14. ASSUME NEW q \in Requests, Serve(q)
       PROVE  \/ req'[p] = req[p]
              \/ req'[p].pc \notin {"drainApply", "drainDelete"}
              \/ DrainFind(p) \/ DrainAccept(p)
  BY <1>3, <1>4, <1>5, <1>6, <1>7, <1>8, <1>9, <1>14 DEF Serve, Apply, Drain
<1> QED BY <1>10, <1>11, <1>12, <1>13, <1>14 DEF Next

(* Where a drain stands in relation to the tables.                         *)
LEMMA DrainFacts ==
  ASSUME IngestInv, NEW p \in Requests, req[p].pc \in {"drainApply", "drainDelete"}
  PROVE  /\ req[p].row \in Records /\ req[p].row.seq \in Seqs /\ req[p].row # NoReceipt
         /\ req[p].row # NoRecord
         /\ req[p].pc = "drainDelete" => receipts[req[p].row.seq] # NoReceipt
BY RecordsAssumption DEF IngestInv, Position

(* A row that was read is found again, whatever the other requests do.     *)
LEMMA RowsKept ==
  ASSUME IngestInv, DrainsInv, [Next]_vars, NEW p \in Requests,
         req'[p].pc = req[p].pc, req'[p].row = req[p].row
  PROVE  RowHeld(req[p])' /\ RowCommitted(req[p])'
<1> DEFINE row == req[p].row
<1>1. CASE req[p].pc = "drainApply"
  <2>1. row \in Records /\ row.seq \in Seqs /\ row # NoRecord
    BY <1>1, DrainFacts
  <2>2. CASE receipts[row.seq] # NoReceipt \/ KeyTaken(row)
    <3>1. receipts'[row.seq] # NoReceipt \/ KeyTaken(row)'
      BY <2>1, <2>2, ReceiptsKept
    <3> QED BY <1>1, <3>1 DEF RowHeld, RowCommitted, KeyTaken
  <2>3. CASE staged[row.seq] = row
    <3>1. CASE staged'[row.seq] = staged[row.seq]
      BY <1>1, <2>3, <3>1 DEF RowHeld, RowCommitted
    <3>2. ASSUME NEW q \in Requests, NEW r \in Records, Commit(q, r), row.key = r.key
          PROVE  RowHeld(req[p])' /\ RowCommitted(req[p])'
      <4>1. r.seq \in Seqs /\ receipts'[r.seq] = r
        BY <3>2, RecordsAssumption DEF Commit, IngestInv, TypeOK
      <4>2. \E n \in Seqs : receipts'[n] \in Records /\ receipts'[n].key = req'[p].row.key
        BY <3>2, <4>1
      <4> QED BY <1>1, <4>2 DEF RowHeld, RowCommitted, KeyTaken
    <3>3. ASSUME NEW q \in Requests, DrainDelete(q), row.seq = req[q].row.seq
          PROVE  RowHeld(req[p])' /\ RowCommitted(req[p])'
      <4>1. receipts[row.seq] # NoReceipt
        BY <3>3, DrainFacts DEF DrainDelete
      <4>2. receipts'[row.seq] # NoReceipt
        BY <2>1, <4>1, ReceiptsKept
      <4> QED BY <1>1, <4>2 DEF RowHeld, RowCommitted
    <3> QED BY <2>1, <2>3, <3>1, <3>2, <3>3, StagedKept
  <2> QED BY <1>1, <2>2, <2>3 DEF DrainsInv, RowHeld
<1>2. CASE req[p].pc = "drainDelete"
  <2>1. row \in Records /\ row.seq \in Seqs /\ row # NoRecord /\ row # NoReceipt
    BY <1>2, DrainFacts
  <2>2. receipts[row.seq] = row /\ (row.note \/ staged[row.seq] = row)
    BY <1>2 DEF DrainsInv, RowCommitted
  <2>3. receipts'[row.seq] = row
    BY <2>1, <2>2, ReceiptsKept
  <2>4. row.note \/ staged'[row.seq] = row
    <3>1. CASE row.note
      BY <3>1
    <3>2. CASE staged[row.seq] = row
      <4>1. ASSUME NEW q \in Requests, NEW r \in Records, Commit(q, r), row.key = r.key
            PROVE  FALSE
        BY <2>1, <2>2, <4>1 DEF Commit, CanAccept, KeyTaken
      <4>2. ASSUME NEW q \in Requests, DrainDelete(q), row.seq = req[q].row.seq
            PROVE  FALSE
        <5>1. req[q].pc = "drainDelete" /\ req'[q].pc = "drain"
          BY <4>2 DEF DrainDelete, IngestInv, TypeOK, LocalState
        <5>2. q # p
          BY <1>2, <5>1
        <5> QED BY <1>2, <4>2, <5>1, <5>2 DEF DrainsInv, DrainsDisjoint
      <4> QED BY <2>1, <3>2, <4>1, <4>2, StagedKept
    <3> QED BY <2>2, <3>1, <3>2
  <2> QED BY <1>2, <2>3, <2>4 DEF RowHeld, RowCommitted
<1>3. CASE req[p].pc \notin {"drainApply", "drainDelete"}
  BY <1>3 DEF RowHeld, RowCommitted
<1> QED BY <1>1, <1>2, <1>3

(* The row a drain reads is in its place.                                  *)
LEMMA RowFound ==
  ASSUME IngestInv, NEW p \in Requests, DrainFind(p)
  PROVE  RowHeld(req[p])' /\ RowCommitted(req[p])'
<1>1. /\ req'[p].pc = "drainApply" /\ req'[p].row = StagedAt(req[p].expected)
      /\ StagedAt(req[p].expected) # NoRecord /\ staged' = staged
  BY DEF DrainFind, durable, IngestInv, TypeOK, LocalState
<1>2. req[p].expected \in Seqs /\ req'[p].row = staged[req[p].expected]
  BY <1>1 DEF StagedAt
<1>3. staged[req[p].expected].seq = req[p].expected
  BY <1>1, <1>2 DEF IngestInv, StagedInPlace
<1> QED BY <1>1, <1>2, <1>3 DEF RowHeld, RowCommitted

(* A drain commits the very row that waits, at a position nobody else has  *)
(* committed.                                                              *)
LEMMA RowTaken ==
  ASSUME IngestInv, DrainsInv, NEW p \in Requests, DrainAccept(p)
  PROVE  /\ RowHeld(req[p])' /\ RowCommitted(req[p])'
         /\ req'[p].row = req[p].row
         /\ receipts[req[p].row.seq] = NoReceipt
         /\ \A q \in Requests : q # p => req'[q] = req[q]
<1> DEFINE row == req[p].row
<1>1. req[p].pc = "drainApply" /\ Commit(p, row) /\ GoTo(p, "drainDelete")
  BY DEF DrainAccept
<1>2. row \in Records /\ row.seq \in Seqs /\ row.note \in BOOLEAN
  BY <1>1, DrainFacts, RecordsAssumption
<1>3. /\ req'[p].pc = "drainDelete" /\ req'[p].row = row
      /\ \A q \in Requests : q # p => req'[q] = req[q]
  BY <1>1 DEF GoTo, IngestInv, TypeOK, LocalState
<1>4. receipts[row.seq] = NoReceipt /\ ~KeyTaken(row) /\ receipts'[row.seq] = row
  BY <1>1, <1>2 DEF Commit, CanAccept, IngestInv, TypeOK
<1>5. staged[row.seq] = row
  BY <1>1, <1>4 DEF DrainsInv, RowHeld
<1>6. ~row.note => staged'[row.seq] = row
  BY <1>1, <1>2, <1>5 DEF Commit, HeldRows
<1> QED BY <1>2, <1>3, <1>4, <1>6 DEF RowHeld, RowCommitted

LEMMA DrainsPreserved ==
  ASSUME IngestInv, DrainsInv, [Next]_vars
  PROVE  DrainsInv'
<1>1. ASSUME NEW p \in Requests
      PROVE  RowHeld(req[p])' /\ RowCommitted(req[p])'
  <2>1. CASE req'[p].pc \notin {"drainApply", "drainDelete"}
    BY <2>1 DEF RowHeld, RowCommitted
  <2> QED BY <2>1, DrainSteps, RowsKept, RowFound, RowTaken
<1>2. ASSUME NEW p \in Requests, NEW q \in Requests, p # q,
             req'[p].pc = "drainDelete", req'[q].pc = "drainDelete"
      PROVE  req'[p].row.seq # req'[q].row.seq
  <2>1. ASSUME NEW u \in Requests, NEW w \in Requests, u # w, DrainAccept(u),
               req'[u].pc = "drainDelete", req'[w].pc = "drainDelete"
        PROVE  req'[u].row.seq # req'[w].row.seq
    <3>1. req'[w] = req[w] /\ receipts[req[u].row.seq] = NoReceipt /\ req'[u].row = req[u].row
      BY <2>1, RowTaken
    <3>2. receipts[req[w].row.seq] # NoReceipt
      BY <2>1, <3>1, DrainFacts
    <3> QED BY <3>1, <3>2
  <2>2. ASSUME NEW u \in Requests, req'[u].pc = "drainDelete", ~DrainAccept(u)
        PROVE  req'[u].pc = req[u].pc /\ req'[u].row = req[u].row
    <3>1. ~DrainFind(u)
      BY <2>2 DEF DrainFind, IngestInv, TypeOK, LocalState
    <3> QED BY <2>2, <3>1, DrainSteps
  <2>3. CASE ~DrainAccept(p) /\ ~DrainAccept(q)
    BY <1>2, <2>2, <2>3 DEF DrainsInv, DrainsDisjoint
  <2> QED BY <1>2, <2>1, <2>3
<1> QED BY <1>1, <1>2 DEF DrainsInv, DrainsDisjoint
-----------------------------------------------------------------------------
(* The answers.                                                            *)

(* A commit puts its record into the ledger, with its receipt.             *)
LEMMA CommitBacks ==
  ASSUME IngestInv, NEW q \in Requests, NEW r \in Records, Commit(q, r)
  PROVE  InLedger(r)'
<1>1. ledger' = Append(ledger, r) /\ ledger \in Seq(Records)
  BY DEF Commit, IngestInv, TypeOK
<1>2. Len(ledger) + 1 \in DOMAIN ledger' /\ ledger'[Len(ledger) + 1] = r
  BY <1>1
<1> QED BY <1>2 DEF InLedger

LEMMA BackedPreserved ==
  ASSUME IngestInv, ReceiptsBacked, [Next]_vars
  PROVE  ReceiptsBacked'
<1>1. ASSUME NEW q \in Requests, NEW r \in Records, Commit(q, r)
      PROVE  ReceiptsBacked'
  <2>1. /\ receipts' = [receipts EXCEPT ![r.seq] = r] /\ ledger' = Append(ledger, r)
        /\ ledger \in Seq(Records) /\ r.seq \in Seqs
    BY <1>1, RecordsAssumption DEF Commit, IngestInv, TypeOK
  <2>2. /\ Len(ledger) + 1 \in DOMAIN ledger' /\ ledger'[Len(ledger) + 1] = r
        /\ \A i \in DOMAIN ledger : i \in DOMAIN ledger' /\ ledger'[i] = ledger[i]
    BY <2>1
  <2>3. \A n \in Seqs : receipts'[n] = receipts[n] \/ receipts'[n] = r
    BY <2>1 DEF IngestInv, TypeOK
  <2> QED BY <2>2, <2>3 DEF ReceiptsBacked
<1>2. ASSUME NEW q \in Requests, DeclareGap(q)
      PROVE  ReceiptsBacked'
  <2>1. ledger' = ledger /\ \A n \in Seqs : receipts'[n] \in {receipts[n], GapFill}
    BY <1>2 DEF DeclareGap
  <2> QED BY <2>1, RecordsAssumption DEF ReceiptsBacked
<1>3. CASE UNCHANGED <<receipts, ledger>>
  BY <1>3 DEF ReceiptsBacked
<1> QED BY <1>1, <1>2, <1>3, LedgerSteps

(* A body that waits in the outbox is there afterwards, or in the ledger:  *)
(* what a drain deletes it has committed.                                  *)
LEMMA BodyKept ==
  ASSUME IngestInv, AnswersInv, [Next]_vars, NEW r, InOutbox(r)
  PROVE  InOutbox(r)' \/ InLedger(r)'
<1>1. PICK n \in Seqs : staged[n] # NoRecord /\ staged[n].body = r.body
  BY DEF InOutbox
<1>2. CASE staged'[n] = staged[n]
  BY <1>1, <1>2 DEF InOutbox
<1>3. ASSUME NEW q \in Requests, NEW s \in Records, Commit(q, s), staged[n].body = s.body
      PROVE  InLedger(r)'
  <2>1. InLedger(s)'
    BY <1>3, CommitBacks
  <2> QED BY <1>1, <1>3, <2>1 DEF InLedger
<1>4. ASSUME NEW q \in Requests, DrainDelete(q), n = req[q].row.seq, ~req[q].row.note
      PROVE  InLedger(r)'
  <2>1. req[q].pc = "drainDelete"
    BY <1>4 DEF DrainDelete
  <2>2. staged[n] = req[q].row /\ receipts[n] = req[q].row /\ req[q].row \in Records
    BY <1>4, <2>1, DrainFacts DEF AnswersInv, DrainsInv, RowCommitted
  <2>3. PICK i \in DOMAIN ledger : ledger[i] = req[q].row
    BY <2>2 DEF AnswersInv, ReceiptsBacked
  <2>4. InLedger(r)
    BY <1>1, <2>2, <2>3 DEF InLedger
  <2> QED BY <2>4, ReceiptsKept
<1> QED BY <1>1, <1>2, <1>3, <1>4, StagedKept

(* What an answer promises.                                                *)
Kept(status, r) ==
  /\ status \in {"ACCEPTED", "DUPLICATE"} => InLedger(r)
  /\ status = "STAGED_FUTURE" => InOutbox(r) \/ InLedger(r)

AnswerKept(p, s) == Kept(answers[p][s], s)

LEMMA AnswerAt ==
  ASSUME IngestInv, NEW q \in Requests, NEW r \in Records, NEW st, Answer(q, r, st),
         NEW p \in Requests, NEW s \in Records
  PROVE  answers'[p][s] = IF p = q /\ s = r THEN st ELSE answers[p][s]
BY DEF Answer, IngestInv, TypeOK

(* A stored receipt of the same body is a document in the ledger.          *)
LEMMA DuplicateIsBacked ==
  ASSUME ReceiptsBacked, NEW n \in Seqs, NEW r, receipts[n] \in Records,
         receipts[n].body = r.body
  PROVE  InLedger(r)
BY DEF ReceiptsBacked, InLedger

(* A record is answered STAGED_FUTURE when its body is in the outbox.      *)
LEMMA StageHolds ==
  ASSUME IngestInv, NEW q \in Requests, NEW r \in Records, Stage(q, r)
  PROVE  \E st \in Statuses : /\ Answer(q, r, st)
                              /\ st \notin {"ACCEPTED", "DUPLICATE"}
                              /\ st = "STAGED_FUTURE" => InOutbox(r)'
<1>1. CASE ConflictingRow(r) = NoRecord
  <2>1. r.seq \in Seqs /\ staged' = [staged EXCEPT ![r.seq] = r] /\ r # NoRecord
        /\ Answer(q, r, "STAGED_FUTURE")
    BY <1>1, RecordsAssumption DEF Stage
  <2>2. staged'[r.seq] = r
    BY <2>1 DEF IngestInv, TypeOK
  <2> QED BY <2>1, <2>2 DEF InOutbox, Statuses
<1>2. CASE ConflictingRow(r) # NoRecord
  <2>1. PICK st \in Statuses :
          /\ Answer(q, r, st) /\ staged' = staged
          /\ st \in {"STAGED_FUTURE", "IDEMPOTENCY_MISMATCH"}
          /\ st = "STAGED_FUTURE" => ConflictingRow(r).body = r.body
    BY <1>2 DEF Stage, Statuses
  <2>2. \E n \in Seqs : staged[n] = ConflictingRow(r)
    BY RecordsAssumption DEF ConflictingRow, RowsByKey
  <2> QED BY <1>2, <2>1, <2>2 DEF InOutbox
<1> QED BY <1>1, <1>2

(* An answer that is new in a step is kept by what the step did.           *)
LEMMA AnswerSteps ==
  ASSUME IngestInv, ReceiptsBacked, [Next]_vars, NEW p \in Requests, NEW s \in Records
  PROVE  answers'[p][s] = answers[p][s] \/ AnswerKept(p, s)'
<1>1. ASSUME NEW q \in Requests, NEW r \in Records, NEW st, Answer(q, r, st),
             Kept(st, r)'
      PROVE  answers'[p][s] = answers[p][s] \/ AnswerKept(p, s)'
  <2>1. CASE p = q /\ s = r
    <3>1. answers'[p][s] = st
      BY <1>1, <2>1, AnswerAt
    <3> QED BY <1>1, <2>1, <3>1 DEF Kept, AnswerKept
  <2>2. CASE ~ (p = q /\ s = r)
    BY <1>1, <2>2, AnswerAt
  <2> QED BY <2>1, <2>2
<1>2. ASSUME NEW q \in Requests, NEW r \in Records, Commit(q, r)
      PROVE  answers'[p][s] = answers[p][s] \/ AnswerKept(p, s)'
  <2>1. Kept("ACCEPTED", r)' /\ Answer(q, r, "ACCEPTED")
    BY <1>2, CommitBacks DEF Kept, Commit
  <2> QED BY <1>1, <2>1
<1>3. ASSUME NEW q \in Requests, NEW r \in Records, Stage(q, r)
      PROVE  answers'[p][s] = answers[p][s] \/ AnswerKept(p, s)'
  <2>1. PICK st \in Statuses : /\ Answer(q, r, st)
                               /\ st \notin {"ACCEPTED", "DUPLICATE"}
                               /\ st = "STAGED_FUTURE" => InOutbox(r)'
    BY <1>3, StageHolds
  <2> QED BY <1>1, <2>1 DEF Kept
<1>4. ASSUME NEW q \in Requests, NEW r \in Records,
             NEW st \in {"REJECTED", "BLOCKED_BY_PRIOR_FAILURE", "IDEMPOTENCY_MISMATCH"},
             Answer(q, r, st)
      PROVE  answers'[p][s] = answers[p][s] \/ AnswerKept(p, s)'
  BY <1>1, <1>4 DEF Kept
<1>5. ASSUME NEW q \in Requests, NEW r \in Records, NEW n \in Seqs,
             receipts[n] \in Records, receipts[n].body = r.body, Answer(q, r, "DUPLICATE")
      PROVE  answers'[p][s] = answers[p][s] \/ AnswerKept(p, s)'
  <2>1. InLedger(r)'
    BY <1>5, DuplicateIsBacked, ReceiptsKept
  <2> QED BY <1>1, <1>5, <2>1 DEF Kept
<1>6. ASSUME NEW q \in Requests, LookupByKey(q)
      PROVE  answers'[p][s] = answers[p][s] \/ AnswerKept(p, s)'
  <2>1. PICK r \in req[q].todo :
          \/ UNCHANGED answers
          \/ \E n \in Seqs : /\ receipts[n] \in Records
                             /\ Answer(q, r, IF receipts[n].body = r.body THEN "DUPLICATE"
                                             ELSE "IDEMPOTENCY_MISMATCH")
    BY <1>6 DEF LookupByKey, Settle
  <2>2. r \in Records
    BY DEF IngestInv, TypeOK, LocalState
  <2> QED BY <1>4, <1>5, <2>1, <2>2
<1>7. ASSUME NEW q \in Requests, LookupBySequence(q)
      PROVE  answers'[p][s] = answers[p][s] \/ AnswerKept(p, s)'
  <2> DEFINE r == req[q].rec
  <2>1. r \in Records /\ r.seq \in Seqs
    BY <1>7, RecordsAssumption DEF LookupBySequence, IngestInv, Position
  <2>2. \/ UNCHANGED answers
        \/ Answer(q, r, "BLOCKED_BY_PRIOR_FAILURE")
        \/ Answer(q, r, "IDEMPOTENCY_MISMATCH")
        \/ /\ Answer(q, r, "DUPLICATE")
           /\ receipts[r.seq] \notin {NoReceipt, GapFill} /\ receipts[r.seq].body = r.body
    BY <1>7 DEF LookupBySequence, Settle
  <2>3. receipts[r.seq] \notin {NoReceipt, GapFill} => receipts[r.seq] \in Records
    BY <2>1 DEF IngestInv, TypeOK
  <2> QED BY <1>4, <1>5, <2>1, <2>2, <2>3
<1>8. ASSUME NEW q \in Requests,
             RejectBoundary(q) \/ ResolveExpected(q) \/ ApplyReject(q) \/ DrainReject(q)
      PROVE  answers'[p][s] = answers[p][s] \/ AnswerKept(p, s)'
  <2>1. UNCHANGED answers \/ \E r \in Records : Answer(q, r, "REJECTED")
    <3>1. CASE RejectBoundary(q)
      BY <3>1 DEF RejectBoundary, Settle, IngestInv, TypeOK, LocalState
    <3>2. CASE ResolveExpected(q)
      BY <3>2 DEF ResolveExpected, Settle, IngestInv, Position
    <3>3. CASE ApplyReject(q)
      BY <3>3 DEF ApplyReject, Settle, IngestInv, Position
    <3>4. CASE DrainReject(q)
      BY <3>4 DEF DrainReject, IngestInv, Position
    <3> QED BY <1>8, <3>1, <3>2, <3>3, <3>4
  <2> QED BY <1>4, <2>1
<1>9. ASSUME NEW q \in Requests, ApplyAccept(q) \/ DrainAccept(q)
      PROVE  \E r \in Records : Commit(q, r)
  BY <1>9 DEF ApplyAccept, DrainAccept, IngestInv, Position
<1>10. ASSUME NEW q \in Requests, StageFuture(q) \/ DrainHoldStage(q)
       PROVE  \E r \in Records : Stage(q, r)
  BY <1>10 DEF StageFuture, DrainHoldStage, IngestInv, Position
<1>11. ASSUME NEW q \in Requests,
              \/ DeclareGap(q) \/ KeepWaiting(q) \/ ApplyHold(q) \/ DrainFind(q) \/ DrainEnd(q)
              \/ DrainHold(q) \/ DrainDelete(q) \/ \E batch \in Batches : Submit(q, batch)
       PROVE  UNCHANGED answers
  BY <1>11 DEF DeclareGap, KeepWaiting, ApplyHold, DrainFind, DrainEnd, DrainHold, DrainDelete,
               Submit
<1>12. ASSUME NEW q \in Requests, Respond(q) \/ Abort(q)
       PROVE  answers'[p][s] = answers[p][s] \/ answers'[p][s] = "NONE"
  <2>1. answers' = [answers EXCEPT ![q] = NoAnswers]
    BY <1>12 DEF Respond, Abort
  <2> QED BY <2>1 DEF NoAnswers, IngestInv, TypeOK
<1>13. answers'[p][s] = "NONE" => AnswerKept(p, s)'
  BY DEF Kept, AnswerKept
<1>14. ASSUME NEW n \in Seqs, GraceElapses(n) PROVE UNCHANGED answers
  BY <1>14 DEF GraceElapses
<1>15. CASE UNCHANGED vars
  BY <1>15 DEF vars
<1>16. ASSUME NEW q \in Requests, Serve(q)
       PROVE  answers'[p][s] = answers[p][s] \/ AnswerKept(p, s)'
  BY <1>2, <1>3, <1>6, <1>7, <1>8, <1>9, <1>10, <1>11, <1>16 DEF Serve, Apply, Drain
<1> QED BY <1>11, <1>12, <1>13, <1>14, <1>15, <1>16 DEF Next

(* The two properties say that every answer is kept.                       *)
LEMMA AnswersAreKept ==
  (\A p \in Requests, s \in Records : Kept(answers[p][s], s))
    <=> AcceptedAnswerIsDurable /\ StagedAnswerIsHeld
BY DEF Kept, InLedger, InOutbox, AcceptedAnswerIsDurable, StagedAnswerIsHeld

LEMMA AnswersPreserved ==
  ASSUME IngestInv, AnswersInv, [Next]_vars
  PROVE  AnswersInv'
<1>1. ReceiptsBacked' /\ DrainsInv'
  BY BackedPreserved, DrainsPreserved DEF AnswersInv
<1>2. ASSUME NEW p \in Requests, NEW s \in Records
      PROVE  Kept(answers[p][s], s)'
  <2>1. Kept(answers[p][s], s)
    BY AnswersAreKept DEF AnswersInv
  <2>2. CASE answers'[p][s] = answers[p][s]
    <3>1. InLedger(s) => InLedger(s)'
      BY ReceiptsKept
    <3>2. InOutbox(s) => InOutbox(s)' \/ InLedger(s)'
      BY BodyKept
    <3> QED BY <2>1, <2>2, <3>1, <3>2 DEF Kept
  <2>3. CASE AnswerKept(p, s)'
    BY <2>3 DEF AnswerKept
  <2> QED BY <2>2, <2>3, AnswerSteps DEF AnswersInv
<1>3. AcceptedAnswerIsDurable' /\ StagedAnswerIsHeld'
  BY <1>2 DEF Kept, InLedger, InOutbox, AcceptedAnswerIsDurable, StagedAnswerIsHeld
<1> QED BY <1>1, <1>3 DEF AnswersInv

LEMMA AnswersInitially == Init => AnswersInv
<1> SUFFICES ASSUME Init PROVE AnswersInv
  OBVIOUS
<1>1. ReceiptsBacked
  BY RecordsAssumption DEF Init, ReceiptsBacked
<1>2. DrainsInv
  BY DEF Init, Idle, DrainsInv, DrainsDisjoint, RowHeld, RowCommitted
<1>3. AcceptedAnswerIsDurable /\ StagedAnswerIsHeld
  BY DEF Init, NoAnswers, AcceptedAnswerIsDurable, StagedAnswerIsHeld
<1> QED BY <1>1, <1>2, <1>3 DEF AnswersInv

-----------------------------------------------------------------------------
(* Receipts, drains and answers stay in the relation the invariant         *)
(* describes.                                                              *)
THEOREM AnswersInvariant == Spec => []AnswersInv
<1>1. IngestInv /\ AnswersInv /\ [Next]_vars => AnswersInv'
  BY AnswersPreserved
<1> QED BY <1>1, AnswersInitially, IngestInvariant, PTL DEF Spec

(* A terminal that marks a record synced on ACCEPTED or DUPLICATE loses    *)
(* nothing: the very payload is in the ledger.                             *)
THEOREM AcceptedAnswersAreDurable == Spec => []AcceptedAnswerIsDurable
<1>1. AnswersInv => AcceptedAnswerIsDurable
  BY DEF AnswersInv
<1> QED BY <1>1, AnswersInvariant, PTL

(* A record answered STAGED_FUTURE is never dropped: no drain of another   *)
(* request deletes it before it is in the ledger.                          *)
THEOREM StagedAnswersAreHeld == Spec => []StagedAnswerIsHeld
<1>1. AnswersInv => StagedAnswerIsHeld
  BY DEF AnswersInv
<1> QED BY <1>1, AnswersInvariant, PTL

-----------------------------------------------------------------------------
(* Freshness.                                                              *)

(* A receipt is at the sequence of its record.                             *)
ReceiptsInPlace == \A n \in Seqs : receipts[n] \in Records => receipts[n].seq = n

LEMMA InitInPlace == Init => ReceiptsInPlace
BY RecordsAssumption DEF Init, ReceiptsInPlace

LEMMA InPlacePreserved ==
  ASSUME IngestInv, ReceiptsInPlace, [Next]_vars
  PROVE  ReceiptsInPlace'
<1>1. ASSUME NEW q \in Requests, NEW r \in Records, Commit(q, r)
      PROVE  \A n \in Seqs : receipts'[n] = receipts[n] \/ (receipts'[n] = r /\ r.seq = n)
  BY <1>1 DEF Commit, IngestInv, TypeOK
<1>2. ASSUME NEW q \in Requests, DeclareGap(q)
      PROVE  \A n \in Seqs : receipts'[n] \in {receipts[n], GapFill}
  BY <1>2 DEF DeclareGap
<1> QED BY <1>1, <1>2, LedgerSteps, RecordsAssumption DEF ReceiptsInPlace

(* A count of sequences that is not positive counts none.                  *)
LEMMA CountsNone ==
  ASSUME NEW T \in SUBSET Seqs, ~ (Cardinality(T) > 0)
  PROVE  T = {}
<1>1. IsFiniteSet(Seqs)
  BY FS_Interval, RecordsAssumption DEF Seqs
<1>2. IsFiniteSet(T)
  BY <1>1, FS_Subset
<1>3. Cardinality(T) \in Nat
  BY <1>2, FS_CardinalityType
<1>4. Cardinality(T) = 0
  BY <1>3
<1> QED BY <1>2, <1>4, FS_EmptySet

(* A stream shown as complete has receipts of records only, up to beyond   *)
(* every row of the outbox: if a row and the receipt of its sequence have  *)
(* one key, the row's document is in the ledger.                           *)
LEMMA CompleteHidesNothing ==
  ASSUME IngestInv, ReceiptsBacked,
         \A m \in Seqs : staged[m] # NoRecord /\ receipts[m] \in Records =>
                          receipts[m].key = staged[m].key,
         DeriveTerminalState = "COMPLETE_OR_STALE",
         NEW n \in Seqs, staged[n] # NoRecord
  PROVE  \E i \in DOMAIN ledger : ledger[i].key = staged[n].key
<1>1. ~ StreamHasGap
  BY DEF DeriveTerminalState
<1>2. {m \in Seqs : receipts[m] = GapFill} = {}
  <2>1. ~ (Cardinality({m \in Seqs : receipts[m] = GapFill}) > 0)
    BY <1>1 DEF StreamHasGap, DeclaredGapCount
  <2> QED BY <2>1, CountsNone
<1>3. {m \in Seqs : staged[m] # NoRecord /\ m > Watermark} = {}
  <2>1. ~ (Cardinality({m \in Seqs : staged[m] # NoRecord /\ m > Watermark}) > 0)
    BY <1>1 DEF StreamHasGap, PendingAboveWatermark
  <2> QED BY <2>1, CountsNone
<1>4. receipts[n] # NoReceipt
  <2>1. ~ (n > Watermark)
    BY <1>3
  <2>2. /\ Watermark \in 0..MaxSeq
        /\ \A m \in Seqs : receipts[m] # NoReceipt <=> m <= Watermark
    BY WatermarkProperties DEF IngestInv
  <2> QED BY <2>1, <2>2, RecordsAssumption DEF Seqs
<1>5. receipts[n] \in Records
  BY <1>2, <1>4 DEF IngestInv, TypeOK
<1>6. PICK i \in DOMAIN ledger : ledger[i] = receipts[n]
  BY <1>5 DEF ReceiptsBacked
<1> QED BY <1>5, <1>6

(* A stream whose records do not share a sequence under two keys (which    *)
(* the terminal sees to, SequencesAreNotReused) is shown complete only     *)
(* when every staged document is in the ledger.                            *)
THEOREM FreshnessCanBeTrusted ==
  ASSUME \A r, s \in Records : r.seq = s.seq => r.key = s.key
  PROVE  Spec => []FreshnessIsHonest
<1>1. Init => ReceiptsInPlace
  BY InitInPlace
<1>2. IngestInv /\ ReceiptsInPlace /\ [Next]_vars => ReceiptsInPlace'
  BY InPlacePreserved
<1>3. ASSUME IngestInv, AnswersInv, ReceiptsInPlace PROVE FreshnessIsHonest
  <2>1. ASSUME NEW n \in Seqs, staged[n] # NoRecord, receipts[n] \in Records
        PROVE  receipts[n].key = staged[n].key
    BY <1>3, <2>1 DEF IngestInv, TypeOK, StagedInPlace, ReceiptsInPlace
  <2> QED BY <1>3, <2>1, CompleteHidesNothing DEF AnswersInv, FreshnessIsHonest
<1> QED BY <1>1, <1>2, <1>3, IngestInvariant, AnswersInvariant, PTL DEF Spec
=============================================================================
