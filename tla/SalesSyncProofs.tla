--------------------------- MODULE SalesSyncProofs ---------------------------
(***************************************************************************)
(* A terminal uses the ingest the way SyncIngest lets anyone use it: every *)
(* behaviour of the composition is one of the ingest, so what is proved    *)
(* of the ingest holds for a terminal that crashes, loses answers, voids   *)
(* and posts again.                                                        *)
(***************************************************************************)
EXTENDS SalesSync, SyncAnswersProofs

(* What the rows of the terminal, and the copy a remote void works on,     *)
(* must look like for its batches to be sets of records.                   *)
RowsInv ==
  /\ invoices \in [Invoices -> Rows]
  /\ \A i \in Issued : invoices[i].seq \in Seqs
  /\ pass \in [point : {"idle", "posted", "acking", "pull", "remote"},
               request : Requests \union {NoInvoice},
               batch : SUBSET Records,
               acks : SUBSET Invoices,
               remote : Invoices \union {NoInvoice},
               copy : Rows]
  /\ pass.point = "remote" => pass.copy.seq \in Seqs

(* What is posted is a set of records.                                     *)
LEMMA BatchIsBatch ==
  ASSUME RowsInv
  PROVE  NextBatch \in Batches
<1>1. ASSUME NEW i \in Issued
      PROVE  RecordOf(invoices[i].kind, i, invoices[i].seq) \in PosRecords
  BY DEF RowsInv, Rows, Issued, PosRecords
<1>2. Outbound \subseteq PosRecords
  BY <1>1 DEF Outbound
<1> QED BY <1>2, PosAssumption DEF NextBatch

LEMMA RestingType ==
  Resting \in [point : {"idle"}, request : {NoInvoice}, batch : {{}}, acks : {{}},
               remote : {NoInvoice}, copy : Rows]
BY RecordsAssumption DEF Resting, NoRow, Rows

LEMMA RowsInit == SalesInit => RowsInv
BY RestingType, RecordsAssumption DEF SalesInit, RowsInv, NoRow, Rows, Issued

(* The acknowledgements name invoices of the terminal.                     *)
LEMMA ReceiveKeepsRows ==
  ASSUME RowsInv, NEW q \in Requests, Receive(q)
  PROVE  RowsInv'
<1> DEFINE acks == {r.invoice : r \in {s \in pass.batch :
                       answers[q][s] \in {"ACCEPTED", "DUPLICATE"}}}
<1>1. \A r \in Records : r.invoice \in Invoices
  BY PosAssumption DEF PosRecords, RecordOf
<1>2. acks \in SUBSET Invoices
  BY <1>1 DEF RowsInv
<1>3. /\ pass' = [pass EXCEPT !.point = "acking", !.acks = acks]
      /\ UNCHANGED invoices
  BY DEF Receive
<1> HIDE DEF acks
<1> QED BY <1>2, <1>3 DEF RowsInv, Issued

LEMMA RowsStep == RowsInv /\ [SalesNext]_salesVars => RowsInv'
<1> SUFFICES ASSUME RowsInv, [SalesNext]_salesVars PROVE RowsInv'
  OBVIOUS
<1>t. UNCHANGED <<invoices, pass>> => RowsInv'
  BY DEF RowsInv, Issued
<1>1. ASSUME NEW i \in Invoices, Sell(i) PROVE RowsInv'
  BY <1>1, RecordsAssumption DEF Sell, RowsInv, Rows, Issued, Seqs
<1>2. CASE CommitVoid
  <2> DEFINE row == [state |-> "canceled", kind |-> "void", seq |-> NextSequence,
                     sync |-> "pending"]
  <2>1. /\ NextSequence \in Seqs
        /\ invoices' = [invoices EXCEPT ![till] = row]
        /\ UNCHANGED pass
    BY <1>2 DEF CommitVoid
  <2>2. row \in Rows /\ row.seq \in Seqs
    BY <2>1, RecordsAssumption DEF Rows, Seqs
  <2> HIDE DEF row
  <2>3. \A i \in Invoices : invoices'[i] = invoices[i] \/ invoices'[i] = row
    BY <2>1 DEF RowsInv
  <2>4. invoices' \in [Invoices -> Rows]
    BY <2>1, <2>2 DEF RowsInv
  <2>5. \A i \in Issued' : invoices'[i].seq \in Seqs
    BY <2>2, <2>3 DEF RowsInv, Issued
  <2> QED BY <2>1, <2>4, <2>5 DEF RowsInv
<1>3. ASSUME NEW q \in Requests, Post(q) PROVE RowsInv'
  <2>1. NextBatch \in SUBSET Records
    BY BatchIsBatch, PosAssumption
  <2>2. /\ pass' = [pass EXCEPT !.point = "posted", !.request = q, !.batch = NextBatch]
        /\ UNCHANGED invoices
    BY <1>3 DEF Post
  <2> QED BY <2>1, <2>2 DEF RowsInv, Issued
<1>4. ASSUME NEW q \in Requests, Receive(q) PROVE RowsInv'
  BY <1>4, ReceiveKeepsRows
<1>5. CASE NothingToPost
  BY <1>5 DEF NothingToPost, RowsInv, Issued
<1>6. ASSUME NEW i \in Invoices, Acknowledge(i) PROVE RowsInv'
  <2>1. /\ invoices' = [invoices EXCEPT ![i].sync = "synced"]
        /\ pass' = [pass EXCEPT !.acks = @ \ {i}]
    BY <1>6 DEF Acknowledge
  <2>2. invoices' \in [Invoices -> Rows]
    BY <2>1 DEF RowsInv, Rows
  <2>3. Issued' = Issued /\ \A j \in Invoices : invoices'[j].seq = invoices[j].seq
    BY <2>1 DEF RowsInv, Rows, Issued
  <2>4. /\ pass' \in [point : {"idle", "posted", "acking", "pull", "remote"},
                      request : Requests \union {NoInvoice},
                      batch : SUBSET Records,
                      acks : SUBSET Invoices,
                      remote : Invoices \union {NoInvoice},
                      copy : Rows]
        /\ pass'.point = pass.point /\ pass'.copy = pass.copy
    BY <2>1 DEF RowsInv
  <2> QED BY <2>2, <2>3, <2>4 DEF RowsInv, Issued
<1>7. ASSUME NEW i \in Invoices, AcknowledgeFails(i) PROVE RowsInv'
  BY <1>7 DEF AcknowledgeFails, RowsInv, Issued
<1>8. ASSUME NEW i \in Invoices, ReadForRemoteVoid(i) PROVE RowsInv'
  BY <1>8 DEF ReadForRemoteVoid, RowsInv, Issued
<1>9. CASE CommitRemoteVoid
  <2>1. pass.copy \in Rows /\ pass.copy.seq \in Seqs
    BY <1>9 DEF CommitRemoteVoid, RowsInv
  <2>2. [pass.copy EXCEPT !.state = "canceled", !.sync = "synced"] \in Rows
    BY <2>1 DEF Rows
  <2>3. [pass.copy EXCEPT !.state = "canceled", !.sync = "synced"].seq \in Seqs
    BY <2>1 DEF Rows
  <2>4. [Resting EXCEPT !.point = "pull"]
          \in [point : {"pull"}, request : {NoInvoice}, batch : {{}}, acks : {{}},
               remote : {NoInvoice}, copy : Rows]
    BY RestingType
  <2> QED BY <1>9, <2>2, <2>3, <2>4 DEF CommitRemoteVoid, RowsInv, Issued
<1>10. CASE AcknowledgeEnd \/ GiveUp
  <2>1. [Resting EXCEPT !.point = "pull"]
          \in [point : {"pull"}, request : {NoInvoice}, batch : {{}}, acks : {{}},
               remote : {NoInvoice}, copy : Rows]
    BY RestingType
  <2> QED BY <1>10, <2>1 DEF AcknowledgeEnd, GiveUp, RowsInv, Issued
<1>11. CASE PullEnd \/ Restart
  BY <1>11, RestingType DEF PullEnd, Restart, RowsInv, Issued
<1>12. CASE UNCHANGED salesVars
  BY <1>12, <1>t DEF salesVars, posVars
<1>13. CASE Cloud
  BY <1>13, <1>t DEF Cloud, RespondToNobody, posVars
<1>14. ASSUME NEW i \in Invoices, ReadForVoid(i) \/ AdminVoid(i) PROVE RowsInv'
  BY <1>14, <1>t DEF ReadForVoid, AdminVoid
<1> QED BY <1>1, <1>2, <1>3, <1>4, <1>5, <1>6, <1>7, <1>8, <1>9, <1>10, <1>11,
           <1>12, <1>13, <1>14
        DEF SalesNext, Cashier, Sync

(* Each step of the composition is a step of the ingest or none of its     *)
(* business.                                                               *)
LEMMA StepIsIngestStep == RowsInv /\ [SalesNext]_salesVars => [Next]_vars
<1> SUFFICES ASSUME RowsInv, [SalesNext]_salesVars PROVE Next \/ UNCHANGED vars
  OBVIOUS
<1>1. ASSUME NEW q \in Requests, Post(q) PROVE Next
  BY <1>1, BatchIsBatch DEF Post, Next
<1>2. ASSUME NEW q \in Requests, Receive(q) \/ RespondToNobody(q) PROVE Next
  BY <1>2 DEF Receive, RespondToNobody, Next
<1>3. ASSUME NEW q \in Requests, Serve(q) \/ Abort(q) PROVE Next
  BY <1>3 DEF Next
<1>4. ASSUME NEW n \in Seqs, GraceElapses(n) PROVE Next
  BY <1>4 DEF Next
<1>5. CASE Cloud
  BY <1>2, <1>3, <1>4, <1>5 DEF Cloud
<1>6. ASSUME NEW i \in Invoices,
             \/ Sell(i) \/ ReadForVoid(i) \/ Acknowledge(i) \/ ReadForRemoteVoid(i)
             \/ AcknowledgeFails(i) \/ AdminVoid(i)
      PROVE  UNCHANGED vars
  BY <1>6 DEF Sell, ReadForVoid, Acknowledge, ReadForRemoteVoid, AcknowledgeFails,
              AdminVoid
<1>7. CASE CommitVoid \/ NothingToPost \/ AcknowledgeEnd \/ CommitRemoteVoid \/ PullEnd
  BY <1>7 DEF CommitVoid, NothingToPost, AcknowledgeEnd, CommitRemoteVoid, PullEnd
<1>8. CASE GiveUp \/ Restart \/ UNCHANGED salesVars
  BY <1>8 DEF GiveUp, Restart, salesVars
<1> QED BY <1>1, <1>2, <1>5, <1>6, <1>7, <1>8 DEF SalesNext, Cashier, Sync

(* The composition implements the ingest: a terminal never drives it into  *)
(* a state that SyncIngest, with arbitrary batches, does not have.         *)
THEOREM SalesImplementIngest == SalesSpec => Spec
<1>1. SalesInit => Init /\ RowsInv
  BY RowsInit DEF SalesInit
<1> QED BY <1>1, RowsStep, StepIsIngestStep, PTL DEF SalesSpec, Spec

(* So the receipts of a terminal's stream have no hole, and its documents  *)
(* are in the ledger once and in order.                                    *)
THEOREM TerminalStream == SalesSpec => [](ReceiptsContiguous /\ ExactlyOnceInOrder)
BY SalesImplementIngest, StreamHasNoHole, AppliedExactlyOnceInOrder, PTL

(* The stream of a terminal that sells, voids and is restarted is the      *)
(* abstract stream: the composition refines the ingest, which refines it.  *)
THEOREM TerminalImplementsStream == SalesSpec => RefinesSaleStream
BY SalesImplementIngest, IngestImplementsStream, PTL

(* And what the cloud promises of its answers holds for that terminal.     *)
THEOREM TerminalAnswers == SalesSpec => [](AcceptedAnswerIsDurable /\ StagedAnswerIsHeld)
BY SalesImplementIngest, AcceptedAnswersAreDurable, StagedAnswersAreHeld, PTL

-----------------------------------------------------------------------------
(* What the terminal takes for delivered.                                  *)

(* A document stays in the cloud.                                          *)
LEMMA CloudKeeps ==
  ASSUME IngestInv, [Next]_vars, NEW i, InCloud(i)
  PROVE  InCloud(i)'
<1>1. ASSUME NEW q \in Requests, NEW r \in Records, Commit(q, r)
      PROVE  \A n \in DOMAIN ledger : n \in DOMAIN ledger' /\ ledger'[n] = ledger[n]
  BY <1>1 DEF Commit, IngestInv, TypeOK
<1>2. ASSUME NEW q \in Requests, DeclareGap(q) PROVE UNCHANGED ledger
  BY <1>2 DEF DeclareGap
<1> QED BY <1>1, <1>2, LedgerSteps DEF InCloud

(* A record that is answered ACCEPTED or DUPLICATE has its invoice in the  *)
(* cloud: the payload names it.                                            *)
LEMMA AnsweredIsInCloud ==
  ASSUME IngestInv, AnswersInv, NEW q \in Requests, NEW r \in Records,
         answers[q][r] \in {"ACCEPTED", "DUPLICATE"}
  PROVE  r.invoice \in Invoices /\ InCloud(r.invoice)
<1>1. PICK n \in DOMAIN ledger : ledger[n].body = r.body
  BY DEF AnswersInv, AcceptedAnswerIsDurable
<1>2. ledger[n] \in PosRecords /\ r \in PosRecords
  BY PosAssumption DEF IngestInv, TypeOK
<1>3. \A s \in PosRecords : s.invoice \in Invoices /\ s.invoice = s.body[2]
  BY DEF PosRecords, RecordOf
<1> QED BY <1>1, <1>2, <1>3 DEF InCloud

(* What a pass is about to mark synced, and what the backoffice has        *)
(* voided, is in the cloud.                                                *)
DeliveredInv ==
  /\ SyncedIsDurable
  /\ \A i \in adminVoids : InCloud(i)
  /\ pass.point = "acking" => \A i \in pass.acks : InCloud(i)
  /\ pass.point = "remote" => InCloud(pass.remote)

LEMMA DeliveredInit == SalesInit => DeliveredInv
BY DEF SalesInit, DeliveredInv, SyncedIsDurable, NoRow, Resting

LEMMA DeliveredStep ==
  ASSUME IngestInv, AnswersInv, RowsInv, DeliveredInv, [SalesNext]_salesVars
  PROVE  DeliveredInv'
<1>k. \A i : InCloud(i) => InCloud(i)'
  BY StepIsIngestStep, CloudKeeps
<1>s. ASSUME NEW i \in Invoices, invoices'[i].sync = invoices[i].sync,
             invoices'[i].sync = "synced"
      PROVE  InCloud(i)'
  BY <1>s, <1>k DEF DeliveredInv, SyncedIsDurable
<1>t. ASSUME UNCHANGED <<invoices, adminVoids>>,
             pass' = pass \/ pass'.point \notin {"acking", "remote"}
      PROVE  DeliveredInv'
  BY <1>t, <1>k DEF DeliveredInv, SyncedIsDurable
<1>1. ASSUME NEW i \in Invoices, Sell(i) PROVE DeliveredInv'
  <2>1. \A j \in Invoices : invoices'[j] = invoices[j] \/ invoices'[j].sync = "pending"
    BY <1>1 DEF Sell, RowsInv
  <2> QED BY <1>1, <2>1, <1>k DEF Sell, DeliveredInv, SyncedIsDurable
<1>2. CASE CommitVoid
  <2>1. \A j \in Invoices : invoices'[j] = invoices[j] \/ invoices'[j].sync = "pending"
    BY <1>2 DEF CommitVoid, RowsInv
  <2> QED BY <1>2, <2>1, <1>k DEF CommitVoid, DeliveredInv, SyncedIsDurable
<1>3. ASSUME NEW q \in Requests, Post(q) PROVE DeliveredInv'
  <2>1. pass'.point = "posted"
    BY <1>3 DEF Post, RowsInv
  <2> QED BY <1>3, <2>1, <1>t DEF Post
<1>4. ASSUME NEW q \in Requests, Receive(q) PROVE DeliveredInv'
  <2>1. /\ pass'.point = "acking"
        /\ pass'.acks = {r.invoice : r \in {s \in pass.batch :
                            answers[q][s] \in {"ACCEPTED", "DUPLICATE"}}}
        /\ UNCHANGED <<invoices, adminVoids>>
    BY <1>4 DEF Receive, RowsInv
  <2>2. \A i \in pass'.acks : InCloud(i)
    BY <2>1, AnsweredIsInCloud DEF RowsInv
  <2> QED BY <2>1, <2>2, <1>k DEF DeliveredInv, SyncedIsDurable
<1>5. ASSUME NEW i \in Invoices, Acknowledge(i) PROVE DeliveredInv'
  <2>1. /\ InCloud(i)
        /\ \A j \in Invoices : j # i => invoices'[j] = invoices[j]
        /\ pass'.point = "acking" /\ pass'.acks \subseteq pass.acks
        /\ pass.point = "acking"
        /\ UNCHANGED adminVoids
    BY <1>5 DEF Acknowledge, RowsInv, DeliveredInv
  <2> QED BY <2>1, <1>k DEF DeliveredInv, SyncedIsDurable
<1>6. ASSUME NEW i \in Invoices, AcknowledgeFails(i) PROVE DeliveredInv'
  <2>1. /\ pass'.point = "acking" /\ pass'.acks \subseteq pass.acks
        /\ pass.point = "acking"
        /\ UNCHANGED <<invoices, adminVoids>>
    BY <1>6 DEF AcknowledgeFails, RowsInv
  <2> QED BY <2>1, <1>k DEF DeliveredInv, SyncedIsDurable
<1>7. ASSUME NEW i \in Invoices, ReadForRemoteVoid(i) PROVE DeliveredInv'
  <2>1. InCloud(i)
    BY <1>7 DEF ReadForRemoteVoid, CloudCanceled, InCloud, DeliveredInv
  <2>2. pass'.point = "remote" /\ pass'.remote = i /\ UNCHANGED <<invoices, adminVoids>>
    BY <1>7 DEF ReadForRemoteVoid, RowsInv
  <2> QED BY <2>1, <2>2, <1>k DEF DeliveredInv, SyncedIsDurable
<1>8. CASE CommitRemoteVoid
  <2>1. /\ InCloud(pass.remote)
        /\ \A j \in Invoices : j # pass.remote => invoices'[j] = invoices[j]
        /\ UNCHANGED adminVoids
    BY <1>8 DEF CommitRemoteVoid, RowsInv, DeliveredInv
  <2>2. pass'.point = "pull"
    BY <1>8, RestingType DEF CommitRemoteVoid
  <2> QED BY <2>1, <2>2, <1>k DEF DeliveredInv, SyncedIsDurable
<1>9. ASSUME NEW i \in Invoices, AdminVoid(i) PROVE DeliveredInv'
  <2>1. InCloud(i) /\ adminVoids' = adminVoids \union {i} /\ UNCHANGED <<invoices, pass>>
    BY <1>9 DEF AdminVoid
  <2> QED BY <2>1, <1>k DEF DeliveredInv, SyncedIsDurable
<1>10. CASE NothingToPost \/ AcknowledgeEnd \/ GiveUp \/ PullEnd \/ Restart
  <2>1. UNCHANGED <<invoices, adminVoids>> /\ pass'.point \in {"pull", "idle"}
    BY <1>10, RestingType
       DEF NothingToPost, AcknowledgeEnd, GiveUp, PullEnd, Restart, RowsInv
  <2> QED BY <2>1, <1>t
<1>11. CASE Cloud \/ UNCHANGED salesVars
  BY <1>11, <1>t DEF Cloud, RespondToNobody, posVars, salesVars
<1>12. ASSUME NEW i \in Invoices, ReadForVoid(i) PROVE DeliveredInv'
  BY <1>12, <1>t DEF ReadForVoid
<1> QED BY <1>1, <1>2, <1>3, <1>4, <1>5, <1>6, <1>7, <1>8, <1>9, <1>10, <1>11, <1>12
        DEF SalesNext, Cashier, Sync

(* The facts about the ingest that the terminal's side builds on.          *)
LEMMA TerminalBasics == SalesSpec => [](IngestInv /\ AnswersInv /\ RowsInv)
<1>1. SalesInit => RowsInv
  BY RowsInit
<1>2. SalesSpec => []RowsInv
  BY <1>1, RowsStep, PTL DEF SalesSpec
<1> QED BY <1>2, SalesImplementIngest, IngestInvariant, AnswersInvariant, PTL

(* An invoice the terminal has marked synced is in the cloud, for any      *)
(* number of sales, voids, requests, restarts and lost answers.            *)
THEOREM SyncedSalesAreDurable == SalesSpec => []SyncedIsDurable
<1>1. DeliveredInv => SyncedIsDurable
  BY DEF DeliveredInv
<1>2. IngestInv /\ AnswersInv /\ RowsInv /\ DeliveredInv /\ [SalesNext]_salesVars
        => DeliveredInv'
  BY DeliveredStep
<1> QED BY <1>1, <1>2, DeliveredInit, TerminalBasics, PTL DEF SalesSpec

-----------------------------------------------------------------------------
(* Where the cloud's records come from: whatever the ingest holds was      *)
(* handed to it.                                                           *)
Known(P) ==
  /\ \A n \in DOMAIN ledger : ledger[n] \in P
  /\ \A n \in Seqs : staged[n] \in P \union {NoRecord}
  /\ \A q \in Requests : /\ req[q].todo \subseteq P
                         /\ req[q].rec \in P \union {NoRecord}
                         /\ req[q].row \in P \union {NoRecord}

(* A step of a request takes its records from those it already holds.      *)
LEMMA RequestSteps ==
  ASSUME IngestInv, NEW P, Known(P), NEW q \in Requests, Serve(q) \/ Respond(q) \/ Abort(q),
         NEW p \in Requests
  PROVE  /\ req'[p].todo \subseteq P
         /\ req'[p].rec \in P \union {NoRecord}
         /\ req'[p].row \in P \union {NoRecord}
<1> USE DEF Known
<1>0. req \in [Requests -> LocalState]
  BY DEF IngestInv, TypeOK
<1>1. ASSUME NEW r, NEW b, LeaveRecord(q, r, b)
      PROVE  req'[p].todo \subseteq P /\ req'[p].rec \in P \union {NoRecord}
               /\ req'[p].row \in P \union {NoRecord}
  BY <1>0, <1>1 DEF LeaveRecord
<1>2. ASSUME NEW point, GoTo(q, point)
      PROVE  req'[p].todo \subseteq P /\ req'[p].rec \in P \union {NoRecord}
               /\ req'[p].row \in P \union {NoRecord}
  BY <1>0, <1>2 DEF GoTo, LocalState
<1>3. CASE RejectBoundary(q)
  BY <1>1, <1>3 DEF RejectBoundary, Settle
<1>4. CASE LookupByKey(q)
  <2>1. PICK r \in req[q].todo :
          \/ req' = [req EXCEPT ![q].pc = "bySeq", ![q].rec = r]
          \/ LeaveRecord(q, r, FALSE)
    BY <1>4 DEF LookupByKey, Settle
  <2>2. CASE req' = [req EXCEPT ![q].pc = "bySeq", ![q].rec = r]
    BY <1>0, <2>2 DEF LocalState
  <2> QED BY <1>1, <2>1, <2>2
<1>5. CASE LookupBySequence(q)
  BY <1>1, <1>2, <1>5 DEF LookupBySequence, Settle
<1>6. CASE ResolveExpected(q)
  <2>1. CASE req' = [req EXCEPT ![q].pc = "gap", ![q].expected = Watermark + 1]
    BY <1>0, <2>1 DEF LocalState
  <2> QED BY <1>1, <1>2, <1>6, <2>1 DEF ResolveExpected, Settle
<1>7. CASE DeclareGap(q) \/ KeepWaiting(q) \/ ApplyHold(q) \/ DrainHold(q) \/ DrainAccept(q)
  BY <1>2, <1>7 DEF DeclareGap, KeepWaiting, ApplyHold, DrainHold, DrainAccept
<1>8. CASE StageFuture(q) \/ ApplyReject(q) \/ DrainEnd(q) \/ DrainReject(q) \/ DrainHoldStage(q)
  BY <1>1, <1>8 DEF StageFuture, ApplyReject, Settle, DrainEnd, DrainReject, DrainHoldStage
<1>9. CASE ApplyAccept(q)
  <2>1. req' = [req EXCEPT ![q].pc = "drain", ![q].expected = req[q].rec.seq + 1]
    BY <1>9 DEF ApplyAccept
  <2> QED BY <1>0, <2>1 DEF LocalState
<1>10. CASE DrainFind(q)
  <2>1. /\ req' = [req EXCEPT ![q].pc = "drainApply", ![q].row = StagedAt(req[q].expected)]
        /\ StagedAt(req[q].expected) \in P \union {NoRecord}
    BY <1>10 DEF DrainFind, StagedAt
  <2> QED BY <1>0, <2>1 DEF LocalState
<1>11. CASE DrainDelete(q)
  <2>1. req' = [req EXCEPT ![q].pc = "drain", ![q].row = NoRecord, ![q].expected = @ + 1]
    BY <1>11 DEF DrainDelete
  <2> QED BY <1>0, <2>1 DEF LocalState
<1>12. CASE Respond(q) \/ Abort(q)
  <2>1. req' = [req EXCEPT ![q] = Idle]
    BY <1>12 DEF Respond, Abort
  <2> QED BY <1>0, <2>1 DEF Idle
<1> QED BY <1>3, <1>4, <1>5, <1>6, <1>7, <1>8, <1>9, <1>10, <1>11, <1>12
        DEF Serve, Apply, Drain

(* What is committed or staged is a record of a request.                   *)
LEMMA TablesStep ==
  ASSUME IngestInv, NEW P, Known(P), [Next]_vars
  PROVE  /\ \A n \in DOMAIN ledger' : ledger'[n] \in P
         /\ \A n \in Seqs : staged'[n] \in P \union {NoRecord}
<1> USE DEF Known
<1>0. ledger \in Seq(Records) /\ staged \in [Seqs -> Records \union {NoRecord}]
  BY DEF IngestInv, TypeOK
<1>1. ASSUME NEW q \in Requests, NEW r \in P \union {NoRecord}, r \in Records, Commit(q, r)
      PROVE  /\ \A n \in DOMAIN ledger' : ledger'[n] \in P
             /\ \A n \in Seqs : staged'[n] \in P \union {NoRecord}
  <2>1. r \in P
    BY <1>1, RecordsAssumption
  <2>2. ledger' = Append(ledger, r)
        /\ staged' = [n \in Seqs |-> IF n \in HeldRows(r) THEN NoRecord ELSE staged[n]]
    BY <1>1 DEF Commit
  <2>3. \A n \in DOMAIN ledger' :
          ledger'[n] = r \/ (n \in DOMAIN ledger /\ ledger'[n] = ledger[n])
    <3>1. DOMAIN ledger = 1..Len(ledger) /\ DOMAIN ledger' = 1..(Len(ledger) + 1)
      BY <1>0, <1>1, <2>2
    <3>2. \A n \in 1..(Len(ledger) + 1) : n = Len(ledger) + 1 \/ n \in 1..Len(ledger)
      BY <1>0
    <3> QED BY <1>0, <1>1, <2>2, <3>1, <3>2
  <2> QED BY <2>1, <2>2, <2>3
<1>2. ASSUME NEW q \in Requests, NEW r \in P \union {NoRecord}, Stage(q, r), UNCHANGED ledger
      PROVE  /\ \A n \in DOMAIN ledger' : ledger'[n] \in P
             /\ \A n \in Seqs : staged'[n] \in P \union {NoRecord}
  BY <1>0, <1>2 DEF Stage
<1>3. ASSUME NEW q \in Requests, ApplyAccept(q) \/ DrainAccept(q)
      PROVE  \E r \in P \union {NoRecord} : r \in Records /\ Commit(q, r)
  BY <1>3 DEF ApplyAccept, DrainAccept, IngestInv, Position
<1>4. ASSUME NEW q \in Requests, StageFuture(q) \/ DrainHoldStage(q)
      PROVE  (\E r \in P \union {NoRecord} : Stage(q, r)) /\ UNCHANGED ledger
  BY <1>4 DEF StageFuture, DrainHoldStage
<1>5. ASSUME NEW q \in Requests, DrainDelete(q)
      PROVE  /\ \A n \in DOMAIN ledger' : ledger'[n] \in P
             /\ \A n \in Seqs : staged'[n] \in P \union {NoRecord}
  BY <1>0, <1>5 DEF DrainDelete
<1>6. ASSUME NEW q \in Requests, Serve(q), ~ApplyAccept(q), ~DrainAccept(q), ~StageFuture(q),
             ~DrainHoldStage(q), ~DrainDelete(q)
      PROVE  UNCHANGED <<ledger, staged>>
  BY <1>6 DEF Serve, RejectBoundary, LookupByKey, LookupBySequence, ResolveExpected, DeclareGap,
       KeepWaiting, Apply, ApplyReject, ApplyHold, Drain, DrainFind, DrainEnd, DrainReject,
       DrainHold, durable
<1>7. ASSUME NEW q \in Requests, (\E b \in Batches : Submit(q, b)) \/ Respond(q) \/ Abort(q)
      PROVE  UNCHANGED <<ledger, staged>>
  BY <1>7 DEF Submit, Respond, Abort, durable
<1>8. ASSUME NEW n \in Seqs, GraceElapses(n) PROVE UNCHANGED <<ledger, staged>>
  BY <1>8 DEF GraceElapses
<1>9. CASE UNCHANGED vars
  BY <1>9 DEF vars
<1> QED BY <1>1, <1>2, <1>3, <1>4, <1>5, <1>6, <1>7, <1>8, <1>9 DEF Next

(* The ingest stays within what it was handed.                             *)
LEMMA KnownStep ==
  ASSUME IngestInv, NEW P, Known(P),
         \/ \E q \in Requests : Serve(q) \/ Respond(q) \/ Abort(q)
         \/ \E q \in Requests, b \in Batches : b \subseteq P /\ Submit(q, b)
         \/ \E n \in Seqs : GraceElapses(n)
         \/ UNCHANGED vars
  PROVE  Known(P)'
<1>0. req \in [Requests -> LocalState]
  BY DEF IngestInv, TypeOK
<1>1. ASSUME NEW p \in Requests
      PROVE  /\ req'[p].todo \subseteq P
             /\ req'[p].rec \in P \union {NoRecord}
             /\ req'[p].row \in P \union {NoRecord}
  <2>1. ASSUME NEW q \in Requests, NEW b \in Batches, b \subseteq P, Submit(q, b)
        PROVE  /\ req'[p].todo \subseteq P
               /\ req'[p].rec \in P \union {NoRecord}
               /\ req'[p].row \in P \union {NoRecord}
    <3>1. req' = [req EXCEPT ![q].pc = "next", ![q].todo = b] /\ b \subseteq P
      BY <2>1 DEF Submit
    <3> QED BY <1>0, <3>1 DEF LocalState, Known
  <2>2. CASE UNCHANGED req
    BY <2>2 DEF Known
  <2>3. ASSUME NEW n \in Seqs, GraceElapses(n) PROVE UNCHANGED req
    BY <2>3 DEF GraceElapses
  <2> QED BY <2>1, <2>2, <2>3, RequestSteps DEF vars
<1>2. /\ \A n \in DOMAIN ledger' : ledger'[n] \in P
      /\ \A n \in Seqs : staged'[n] \in P \union {NoRecord}
  <2>1. [Next]_vars
    BY DEF Next
  <2> QED BY <2>1, TablesStep
<1> QED BY <1>1, <1>2 DEF Known

(* Nothing reaches the cloud that the terminal has not posted.             *)
LEMMA PostedStep ==
  ASSUME IngestInv, RowsInv, Known(posted), [SalesNext]_salesVars
  PROVE  Known(posted)'
<1>1. posted \subseteq posted'
  BY DEF SalesNext, Cashier, Sync, Cloud, Sell, ReadForVoid, CommitVoid, Post, Receive,
         NothingToPost, Acknowledge, ReadForRemoteVoid, AcknowledgeEnd, CommitRemoteVoid,
         PullEnd, RespondToNobody, GiveUp, AcknowledgeFails, AdminVoid, Restart, posVars,
         salesVars
<1>2. ASSUME NEW P, posted \subseteq P
      PROVE  Known(P)
  BY <1>2 DEF Known
<1>3. ASSUME NEW q \in Requests, Post(q)
      PROVE  \E b \in Batches : b \subseteq posted' /\ Submit(q, b)
  BY <1>3, BatchIsBatch DEF Post
<1>4. ASSUME NEW q \in Requests, Receive(q) \/ RespondToNobody(q)
      PROVE  Respond(q)
  BY <1>4 DEF Receive, RespondToNobody
<1>5. ASSUME NEW i \in Invoices,
             \/ Sell(i) \/ ReadForVoid(i) \/ Acknowledge(i) \/ ReadForRemoteVoid(i)
             \/ AcknowledgeFails(i) \/ AdminVoid(i)
      PROVE  UNCHANGED vars
  BY <1>5 DEF Sell, ReadForVoid, Acknowledge, ReadForRemoteVoid, AcknowledgeFails,
              AdminVoid
<1>6. ASSUME \/ CommitVoid \/ NothingToPost \/ AcknowledgeEnd \/ CommitRemoteVoid \/ PullEnd
             \/ GiveUp \/ Restart \/ UNCHANGED salesVars
      PROVE  UNCHANGED vars
  BY <1>6 DEF CommitVoid, NothingToPost, AcknowledgeEnd, CommitRemoteVoid, PullEnd,
              GiveUp, Restart, salesVars
<1>7. \/ \E q \in Requests : Serve(q) \/ Respond(q) \/ Abort(q)
      \/ \E q \in Requests, b \in Batches : b \subseteq posted' /\ Submit(q, b)
      \/ \E n \in Seqs : GraceElapses(n)
      \/ UNCHANGED vars
  BY <1>3, <1>4, <1>5, <1>6 DEF SalesNext, Cashier, Sync, Cloud
<1>8. PICK P : P = posted'
  OBVIOUS
<1>9. Known(P)
  BY <1>1, <1>2, <1>8
<1>10. Known(P)'
  BY <1>7, <1>8, <1>9, KnownStep
<1> QED BY <1>8, <1>10 DEF Known

-----------------------------------------------------------------------------
(* Voids.  Till and pass may each have read the row of an invoice before   *)
(* it was canceled and give its stock back later.  The terminal's own void *)
(* cannot come back to it as a remote one: what the cloud has of it was    *)
(* posted from a row that was canceled already.                            *)
Reading(i) ==
  (IF till = i THEN 1 ELSE 0) + (IF pass.point = "remote" /\ pass.remote = i THEN 1 ELSE 0)

Accountable(i) ==
  /\ invoices[i].state # "canceled" => reversals[i] = 0
  /\ reversals[i] + Reading(i) <= 2
  /\ i \notin adminVoids => reversals[i] <= 1
  /\ i \notin adminVoids /\ till = i => invoices[i].state = "active"

PlacesInv ==
  /\ posted \subseteq Records
  /\ adminVoids \subseteq Invoices
  /\ till \in Invoices \union {NoInvoice}
  /\ reversals \in [Invoices -> Nat]

CanceledInv ==
  /\ \A r \in posted : r.canceled => invoices[r.invoice].state = "canceled"
  /\ \A i \in Invoices : invoices[i].kind = "void" => invoices[i].state = "canceled"
  /\ pass.point = "remote" => pass.remote \in adminVoids

VoidsInv ==
  /\ Known(posted)
  /\ PlacesInv
  /\ CanceledInv
  /\ \A i \in Invoices : Accountable(i)

LEMMA VoidsInit == SalesInit => VoidsInv
<1> SUFFICES ASSUME SalesInit PROVE VoidsInv
  OBVIOUS
<1>1. Known(posted)
  BY DEF SalesInit, Init, Idle, Known
<1>2. PlacesInv
  BY DEF SalesInit, PlacesInv
<1>3. CanceledInv
  BY DEF SalesInit, CanceledInv, NoRow, Resting
<1>4. ASSUME NEW i \in Invoices PROVE Accountable(i)
  BY <1>4, PosAssumption DEF SalesInit, Accountable, Reading, NoRow, Resting
<1> QED BY <1>1, <1>2, <1>3, <1>4 DEF VoidsInv

LEMMA PlacesStep ==
  ASSUME RowsInv, PlacesInv, CanceledInv, [SalesNext]_salesVars
  PROVE  PlacesInv'
<1> USE DEF PlacesInv
<1>1. ASSUME NEW q \in Requests, Post(q) PROVE PlacesInv'
  BY <1>1, BatchIsBatch, PosAssumption DEF Post
<1>2. ASSUME NEW i \in Invoices, ReadForVoid(i) PROVE PlacesInv'
  BY <1>2 DEF ReadForVoid
<1>3. CASE CommitVoid
  <2>1. reversals' = [reversals EXCEPT ![till] = @ + 1] /\ till \in Invoices
    BY <1>3 DEF CommitVoid
  <2>2. reversals' \in [Invoices -> Nat]
    BY <2>1
  <2> QED BY <1>3, <2>2 DEF CommitVoid
<1>4. CASE CommitRemoteVoid
  <2>1. reversals' = [reversals EXCEPT ![pass.remote] = @ + 1] /\ pass.remote \in Invoices
    BY <1>4 DEF CommitRemoteVoid, CanceledInv
  <2>2. reversals' \in [Invoices -> Nat]
    BY <2>1
  <2> QED BY <1>4, <2>2 DEF CommitRemoteVoid
<1>5. CASE Restart
  BY <1>5 DEF Restart
<1>6. ASSUME NEW i \in Invoices, AdminVoid(i) PROVE PlacesInv'
  BY <1>6 DEF AdminVoid
<1>7. ASSUME UNCHANGED <<posted, adminVoids, till, reversals>> PROVE PlacesInv'
  BY <1>7
<1>8. ASSUME NEW i \in Invoices,
             Sell(i) \/ Acknowledge(i) \/ ReadForRemoteVoid(i) \/ AcknowledgeFails(i)
      PROVE  PlacesInv'
  BY <1>7, <1>8 DEF Sell, Acknowledge, ReadForRemoteVoid, AcknowledgeFails
<1>9. CASE NothingToPost \/ AcknowledgeEnd \/ PullEnd \/ GiveUp \/ UNCHANGED salesVars
  BY <1>7, <1>9 DEF NothingToPost, AcknowledgeEnd, PullEnd, GiveUp, salesVars, posVars
<1>10. CASE Cloud \/ \E q \in Requests : Receive(q)
  BY <1>7, <1>10 DEF Cloud, RespondToNobody, Receive, posVars
<1> QED BY <1>1, <1>2, <1>3, <1>4, <1>5, <1>6, <1>8, <1>9, <1>10
        DEF SalesNext, Cashier, Sync

(* A canceled row stays canceled.                                          *)
LEMMA CanceledStays ==
  ASSUME RowsInv, [SalesNext]_salesVars, NEW i \in Invoices
  PROVE  /\ invoices[i].state = "canceled" => invoices'[i].state = "canceled"
         /\ \/ invoices'[i].kind = invoices[i].kind /\ invoices'[i].state = invoices[i].state
            \/ invoices'[i].state = "canceled"
            \/ invoices'[i].kind = "sale" /\ invoices'[i].state = "active"
<1>1. ASSUME NEW j \in Invoices, Sell(j)
      PROVE  \/ invoices'[i] = invoices[i]
             \/ /\ invoices[i].state = "none"
                /\ invoices'[i].kind = "sale" /\ invoices'[i].state = "active"
  BY <1>1 DEF Sell, RowsInv
<1>2. CASE CommitVoid
  <2>1. invoices'[i] = invoices[i] \/ invoices'[i].state = "canceled"
    BY <1>2 DEF CommitVoid, RowsInv
  <2> QED BY <2>1
<1>3. CASE CommitRemoteVoid
  <2>1. invoices'[i] = invoices[i] \/ invoices'[i] = [pass.copy EXCEPT !.state = "canceled",
                                                                        !.sync = "synced"]
    BY <1>3 DEF CommitRemoteVoid, RowsInv
  <2>2. pass.copy \in Rows
    BY DEF RowsInv
  <2> QED BY <2>1, <2>2 DEF Rows
<1>4. ASSUME NEW j \in Invoices, Acknowledge(j)
      PROVE  invoices'[i].kind = invoices[i].kind /\ invoices'[i].state = invoices[i].state
  BY <1>4 DEF Acknowledge, RowsInv, Rows
<1>5. ASSUME NEW j \in Invoices, ReadForRemoteVoid(j) \/ AcknowledgeFails(j) \/ AdminVoid(j)
                                   \/ ReadForVoid(j)
      PROVE  UNCHANGED invoices
  BY <1>5 DEF ReadForRemoteVoid, AcknowledgeFails, AdminVoid, ReadForVoid
<1>6. ASSUME NEW q \in Requests, Post(q) \/ Receive(q) PROVE UNCHANGED invoices
  BY <1>6 DEF Post, Receive
<1>7. ASSUME \/ NothingToPost \/ AcknowledgeEnd \/ PullEnd \/ GiveUp \/ Restart \/ Cloud
             \/ UNCHANGED salesVars
      PROVE  UNCHANGED invoices
  BY <1>7 DEF NothingToPost, AcknowledgeEnd, PullEnd, GiveUp, Restart, Cloud, RespondToNobody,
              salesVars, posVars
<1> QED BY <1>1, <1>2, <1>3, <1>4, <1>5, <1>6, <1>7 DEF SalesNext, Cashier, Sync

(* A remote void starts only for an invoice the backoffice has voided.     *)
LEMMA RemoteIsAdmin ==
  ASSUME IngestInv, RowsInv, VoidsInv, NEW i \in Invoices, ReadForRemoteVoid(i)
  PROVE  i \in adminVoids
<1>1. ASSUME NEW n \in DOMAIN ledger, ledger[n].invoice = i, ledger[n].canceled
      PROVE  FALSE
  <2>1. ledger[n] \in posted
    BY DEF VoidsInv, Known
  <2>2. invoices[i].state = "canceled"
    BY <1>1, <2>1 DEF VoidsInv, CanceledInv
  <2> QED BY <2>2 DEF ReadForRemoteVoid
<1> QED BY <1>1 DEF ReadForRemoteVoid, CloudCanceled

LEMMA CanceledStep ==
  ASSUME IngestInv, RowsInv, VoidsInv, [SalesNext]_salesVars
  PROVE  CanceledInv'
<1>1. \A i \in Invoices : invoices'[i].kind = "void" => invoices'[i].state = "canceled"
  <2>1. ASSUME NEW i \in Invoices, invoices'[i].kind = "void"
        PROVE  invoices'[i].state = "canceled"
    BY <2>1, CanceledStays DEF VoidsInv, CanceledInv
  <2> QED BY <2>1
<1>2. \A r \in posted : r.canceled => invoices'[r.invoice].state = "canceled"
  <2>1. ASSUME NEW r \in posted PROVE r.invoice \in Invoices
    BY PosAssumption DEF VoidsInv, PlacesInv, PosRecords, RecordOf
  <2>2. ASSUME NEW r \in posted, r.canceled PROVE invoices'[r.invoice].state = "canceled"
    <3>1. invoices[r.invoice].state = "canceled"
      BY <2>2 DEF VoidsInv, CanceledInv
    <3> QED BY <2>1, <3>1, CanceledStays
  <2> QED BY <2>2
<1>3. ASSUME NEW q \in Requests, Post(q) PROVE CanceledInv'
  <2>1. ASSUME NEW r \in NextBatch, r.canceled PROVE invoices[r.invoice].state = "canceled"
    <3>1. PICK i \in Issued : r = RecordOf(invoices[i].kind, i, invoices[i].seq)
      BY DEF NextBatch, Outbound
    <3>2. i \in Invoices /\ r.invoice = i /\ invoices[i].kind = "void"
      BY <2>1, <3>1 DEF RecordOf, Issued
    <3> QED BY <3>2 DEF VoidsInv, CanceledInv
  <2>2. posted' = posted \union NextBatch /\ UNCHANGED invoices
    BY <1>3 DEF Post
  <2>3. pass'.point = "posted"
    BY <1>3 DEF Post, RowsInv
  <2> QED BY <1>1, <1>2, <2>1, <2>2, <2>3 DEF CanceledInv
<1>t. ASSUME UNCHANGED posted, pass'.point = "remote" => pass'.remote \in adminVoids'
      PROVE  CanceledInv'
  BY <1>1, <1>2, <1>t DEF CanceledInv
<1>4. ASSUME NEW i \in Invoices, ReadForRemoteVoid(i) PROVE CanceledInv'
  <2>1. pass'.remote = i /\ UNCHANGED <<posted, adminVoids>>
    BY <1>4 DEF ReadForRemoteVoid, RowsInv
  <2> QED BY <1>4, <1>t, <2>1, RemoteIsAdmin
<1>5. ASSUME NEW i \in Invoices, Sell(i) \/ ReadForVoid(i) \/ AdminVoid(i) PROVE CanceledInv'
  BY <1>5, <1>t DEF Sell, ReadForVoid, AdminVoid, VoidsInv, CanceledInv
<1>6. ASSUME NEW i \in Invoices, Acknowledge(i) \/ AcknowledgeFails(i) PROVE CanceledInv'
  <2>1. pass'.point = "acking" /\ UNCHANGED posted
    BY <1>6 DEF Acknowledge, AcknowledgeFails, RowsInv
  <2> QED BY <1>t, <2>1
<1>7. ASSUME NEW q \in Requests, Receive(q) PROVE CanceledInv'
  <2>1. pass'.point = "acking" /\ UNCHANGED posted
    BY <1>7 DEF Receive, RowsInv
  <2> QED BY <1>t, <2>1
<1>8. CASE \/ NothingToPost \/ AcknowledgeEnd \/ CommitRemoteVoid \/ PullEnd \/ GiveUp
           \/ Restart
  <2>1. pass'.point \in {"pull", "idle"} /\ UNCHANGED posted
    BY <1>8, RestingType DEF NothingToPost, AcknowledgeEnd, CommitRemoteVoid, PullEnd, GiveUp,
                             Restart, RowsInv
  <2> QED BY <1>t, <2>1
<1>9. CASE CommitVoid \/ Cloud \/ UNCHANGED salesVars
  BY <1>9, <1>t DEF CommitVoid, Cloud, RespondToNobody, posVars, salesVars, VoidsInv, CanceledInv
<1> QED BY <1>3, <1>4, <1>5, <1>6, <1>7, <1>8, <1>9 DEF SalesNext, Cashier, Sync

(* Only a void gives stock back, and it has read the row before.           *)
LEMMA AccountableStep ==
  ASSUME IngestInv, RowsInv, VoidsInv, [SalesNext]_salesVars, NEW i \in Invoices
  PROVE  Accountable(i)'
<1>p. /\ Accountable(i) /\ reversals \in [Invoices -> Nat] /\ Reading(i) \in 0..2
      /\ i # NoInvoice
  BY PosAssumption DEF VoidsInv, PlacesInv, Reading
<1>t. ASSUME UNCHANGED reversals, adminVoids \subseteq adminVoids',
             invoices'[i].state = invoices[i].state,
             till' = till \/ till' = NoInvoice,
             pass'.point = "remote" => pass.point = "remote" /\ pass'.remote = pass.remote
      PROVE  Accountable(i)'
  <2>1. Reading(i)' \in 0..2 /\ Reading(i)' <= Reading(i)
    BY <1>p, <1>t DEF Reading
  <2> QED BY <1>p, <1>t, <2>1 DEF Accountable
<1>1. ASSUME NEW j \in Invoices, Sell(j) PROVE Accountable(i)'
  <2>1. /\ UNCHANGED <<reversals, adminVoids, till, pass>>
        /\ invoices'[i] = invoices[i] \/ (invoices[i].state = "none" /\ invoices'[i].state = "active")
    BY <1>1 DEF Sell, RowsInv
  <2>2. Reading(i)' = Reading(i)
    BY <2>1 DEF Reading
  <2> QED BY <1>p, <2>1, <2>2 DEF Accountable
<1>2. CASE CommitVoid
  <2>1. CASE till = i
    <3>1. /\ reversals'[i] = reversals[i] + 1 /\ invoices'[i].state = "canceled"
          /\ till' = NoInvoice /\ UNCHANGED <<pass, adminVoids>>
      BY <1>2, <2>1, <1>p DEF CommitVoid, RowsInv
    <3>2. Reading(i)' \in 0..2 /\ Reading(i)' + 1 = Reading(i)
      BY <1>p, <2>1, <3>1 DEF Reading
    <3> QED BY <1>p, <2>1, <3>1, <3>2 DEF Accountable
  <2>2. CASE till # i
    <3>1. /\ reversals'[i] = reversals[i] /\ invoices'[i] = invoices[i]
          /\ till' = NoInvoice /\ UNCHANGED <<pass, adminVoids>>
      BY <1>2, <2>2, <1>p DEF CommitVoid, RowsInv
    <3>2. Reading(i)' = Reading(i)
      BY <1>p, <2>2, <3>1 DEF Reading
    <3> QED BY <1>p, <2>2, <3>1, <3>2 DEF Accountable
  <2> QED BY <2>1, <2>2
<1>3. CASE CommitRemoteVoid
  <2>0. pass'.point = "pull" /\ UNCHANGED <<till, adminVoids>>
    BY <1>3, RestingType DEF CommitRemoteVoid
  <2>1. CASE pass.remote = i
    <3>1. /\ reversals'[i] = reversals[i] + 1 /\ pass.point = "remote"
          /\ invoices'[i].state = "canceled" /\ i \in adminVoids
      BY <1>3, <2>1, <1>p DEF CommitRemoteVoid, RowsInv, Rows, VoidsInv, CanceledInv
    <3>2. Reading(i)' \in 0..2 /\ Reading(i)' + 1 = Reading(i)
      BY <1>p, <2>0, <2>1, <3>1 DEF Reading
    <3> QED BY <1>p, <2>0, <2>1, <3>1, <3>2 DEF Accountable
  <2>2. CASE pass.remote # i
    <3>1. reversals'[i] = reversals[i] /\ invoices'[i] = invoices[i]
      BY <1>3, <2>2, <1>p DEF CommitRemoteVoid, RowsInv
    <3>2. Reading(i)' = Reading(i)
      BY <1>p, <2>0, <2>2, <3>1 DEF Reading
    <3> QED BY <1>p, <2>0, <3>1, <3>2 DEF Accountable
  <2> QED BY <2>1, <2>2
<1>4. ASSUME NEW j \in Invoices, ReadForVoid(j) PROVE Accountable(i)'
  <2>1. /\ till = NoInvoice /\ till' = j /\ invoices[j].state = "active"
        /\ UNCHANGED <<invoices, reversals, pass, adminVoids>>
    BY <1>4 DEF ReadForVoid
  <2>2. CASE j = i
    <3>1. Reading(i)' \in 0..2 /\ reversals[i] = 0
      BY <1>p, <2>1, <2>2 DEF Reading, Accountable
    <3> QED BY <1>p, <2>1, <2>2, <3>1 DEF Accountable
  <2>3. CASE j # i
    <3>1. Reading(i)' = Reading(i)
      BY <1>p, <2>1, <2>3 DEF Reading
    <3> QED BY <1>p, <2>1, <2>3, <3>1 DEF Accountable
  <2> QED BY <2>2, <2>3
<1>5. ASSUME NEW j \in Invoices, ReadForRemoteVoid(j) PROVE Accountable(i)'
  <2>1. /\ pass.point = "pull" /\ invoices[j].state = "active"
        /\ pass'.point = "remote" /\ pass'.remote = j
        /\ UNCHANGED <<invoices, reversals, till, adminVoids>>
    BY <1>5 DEF ReadForRemoteVoid, RowsInv
  <2>2. CASE j = i
    <3>1. Reading(i)' \in 0..2 /\ reversals[i] = 0
      BY <1>p, <2>1, <2>2 DEF Reading, Accountable
    <3> QED BY <1>p, <2>1, <2>2, <3>1 DEF Accountable
  <2>3. CASE j # i
    <3>1. Reading(i)' = Reading(i)
      BY <1>p, <2>1, <2>3 DEF Reading
    <3> QED BY <1>p, <2>1, <2>3, <3>1 DEF Accountable
  <2> QED BY <2>2, <2>3
<1>6. ASSUME NEW j \in Invoices, Acknowledge(j) PROVE Accountable(i)'
  <2>1. invoices'[i].state = invoices[i].state /\ pass'.point = "acking"
    BY <1>6 DEF Acknowledge, RowsInv, Rows
  <2> QED BY <1>6, <1>t, <2>1 DEF Acknowledge
<1>7. ASSUME NEW j \in Invoices, AcknowledgeFails(j) \/ AdminVoid(j) PROVE Accountable(i)'
  <2>1. pass'.point = pass.point /\ pass'.remote = pass.remote
    BY <1>7 DEF AcknowledgeFails, AdminVoid, RowsInv
  <2> QED BY <1>7, <1>t, <2>1 DEF AcknowledgeFails, AdminVoid
<1>8. ASSUME NEW q \in Requests, Post(q) \/ Receive(q) PROVE Accountable(i)'
  <2>1. pass'.point \in {"posted", "acking"}
    BY <1>8 DEF Post, Receive, RowsInv
  <2> QED BY <1>8, <1>t, <2>1 DEF Post, Receive
<1>9. CASE NothingToPost \/ AcknowledgeEnd \/ PullEnd \/ GiveUp \/ Restart
  <2>1. pass'.point \in {"pull", "idle"}
    BY <1>9, RestingType DEF NothingToPost, AcknowledgeEnd, PullEnd, GiveUp, Restart, RowsInv
  <2> QED BY <1>9, <1>t, <2>1 DEF NothingToPost, AcknowledgeEnd, PullEnd, GiveUp, Restart
<1>10. CASE Cloud \/ UNCHANGED salesVars
  BY <1>10, <1>t DEF Cloud, RespondToNobody, posVars, salesVars
<1> QED BY <1>1, <1>2, <1>3, <1>4, <1>5, <1>6, <1>7, <1>8, <1>9, <1>10
        DEF SalesNext, Cashier, Sync

LEMMA VoidsStep ==
  ASSUME IngestInv, RowsInv, VoidsInv, [SalesNext]_salesVars
  PROVE  VoidsInv'
<1>1. Known(posted)'
  BY PostedStep DEF VoidsInv
<1>2. PlacesInv'
  BY PlacesStep DEF VoidsInv
<1> QED BY <1>1, <1>2, CanceledStep, AccountableStep DEF VoidsInv

(* Who holds which invoice, and what was posted of it.                     *)
THEOREM VoidsInvariant == SalesSpec => []VoidsInv
<1>1. IngestInv /\ RowsInv /\ VoidsInv /\ [SalesNext]_salesVars => VoidsInv'
  BY VoidsStep
<1> QED BY <1>1, VoidsInit, TerminalBasics, PTL DEF SalesSpec

(* The stock of an invoice is given back twice only when the backoffice    *)
(* has voided it too, for any number of passes and restarts.               *)
THEOREM StockIsReversedOnce == SalesSpec => []StockReversedOnce
<1>1. VoidsInv => StockReversedOnce
  BY DEF VoidsInv, PlacesInv, Accountable, StockReversedOnce
<1> QED BY <1>1, VoidsInvariant, PTL

(* The terminal's rows and the memory of its pass keep their shape.        *)
THEOREM TerminalTypes == SalesSpec => []SalesTypeOK
<1>1. ASSUME IngestInv, RowsInv, VoidsInv PROVE SalesTypeOK
  <2>1. ASSUME NEW i \in Invoices PROVE reversals[i] \in 0..2
    <3>1. reversals[i] \in Nat /\ Reading(i) \in Nat /\ reversals[i] + Reading(i) <= 2
      BY <1>1 DEF VoidsInv, PlacesInv, Accountable, Reading
    <3> QED BY <3>1
  <2>2. reversals \in [Invoices -> 0..2]
    BY <1>1, <2>1 DEF VoidsInv, PlacesInv
  <2> QED BY <1>1, <2>2 DEF IngestInv, RowsInv, VoidsInv, PlacesInv, SalesTypeOK
<1> QED BY <1>1, TerminalBasics, VoidsInvariant, PTL

-----------------------------------------------------------------------------
(* Sequences.  The next number is above those of all rows, but a void takes*)
(* its row off a number, and a remote void puts the one it has read back.  *)
(* What is posted stays at or below a number that is still there.          *)
RowSeq(i) ==
  IF pass.point = "remote" /\ pass.remote = i THEN pass.copy.seq ELSE invoices[i].seq

NumbersInv ==
  /\ SequenceNotReused
  /\ \A r \in posted : \E i \in Invoices : r.seq <= RowSeq(i)
  /\ pass.point = "remote" =>
       /\ pass.copy.seq <= invoices[pass.remote].seq
       /\ \A j \in Issued : j # pass.remote => invoices[j].seq # pass.copy.seq
  /\ \A i, j \in Issued : i # j => invoices[i].seq # invoices[j].seq
  /\ \A i \in Issued, r \in posted :
       invoices[i].sync = "pending" /\ r.seq = invoices[i].seq =>
         r = RecordOf(invoices[i].kind, i, invoices[i].seq)

LEMMA NumbersInit == SalesInit => NumbersInv
BY DEF SalesInit, NumbersInv, SequenceNotReused, NoRow, Resting, Issued

(* The number a document gets is above those of all rows, by one.          *)
LEMMA NextIsAbove ==
  ASSUME RowsInv, NEW i \in Invoices
  PROVE  /\ NextSequence \in Nat /\ invoices[i].seq < NextSequence
         /\ \E j \in Invoices : NextSequence = invoices[j].seq + 1
<1> DEFINE S == {invoices[j].seq : j \in Invoices}
<1>0. MaxSeq \in Nat
  BY RecordsAssumption
<1>1. S \subseteq 0..MaxSeq /\ invoices[i].seq \in S
  <2>1. ASSUME NEW j \in Invoices PROVE invoices[j].seq \in 0..MaxSeq
    BY DEF RowsInv, Rows
  <2> QED BY <2>1
<1>2. NextSequence = (CHOOSE x \in S : \A y \in S : x >= y) + 1
  BY DEF NextSequence, Max
<1> HIDE DEF S
<1>3. \E x \in S : \A y \in S : x >= y
  <2>1. CASE S \ {0} = {}
    <3>1. \A y \in S : y = 0
      BY <2>1
    <3>2. 0 \in S
      BY <1>1, <3>1
    <3>3. \A y \in S : 0 >= y
      BY <3>1
    <3> QED BY <3>2, <3>3
  <2>2. CASE S \ {0} # {}
    <3>1. S \ {0} \subseteq Seqs
      BY <1>1, RecordsAssumption DEF Seqs
    <3>2. PICK n \in S \ {0} : \A m \in S \ {0} : m <= n
      BY <2>2, <3>1, GreatestSequence
    <3> QED BY <1>1, <3>1, <3>2, RecordsAssumption DEF Seqs
  <2> QED BY <2>1, <2>2
<1> DEFINE top == CHOOSE x \in S : \A y \in S : x >= y
<1>4. top \in S /\ \A y \in S : top >= y
  BY <1>3
<1>5. NextSequence = top + 1
  BY <1>2
<1> HIDE DEF top
<1>6. invoices[i].seq \in 0..MaxSeq /\ top \in 0..MaxSeq /\ top >= invoices[i].seq
  BY <1>1, <1>4
<1>7. \E j \in Invoices : top = invoices[j].seq
  BY <1>4 DEF S
<1> QED BY <1>0, <1>5, <1>6, <1>7

(* A new document is above everything that was posted.                     *)
LEMMA NewIsAbove ==
  ASSUME RowsInv, VoidsInv, NumbersInv, NEW r \in posted
  PROVE  r.seq < NextSequence
<1>1. PICK i \in Invoices : r.seq <= RowSeq(i)
  BY DEF NumbersInv
<1>2. r.seq \in Nat /\ RowSeq(i) \in Nat /\ invoices[i].seq \in Nat
  BY PosAssumption, RecordsAssumption
     DEF VoidsInv, PlacesInv, RowSeq, RowsInv, Rows, PosRecords, RecordOf, Seqs
<1>3. RowSeq(i) <= invoices[i].seq
  BY <1>2 DEF RowSeq, NumbersInv
<1> QED BY <1>1, <1>2, <1>3, NextIsAbove

(* A row that takes the next number takes one that is above all others.    *)
LEMMA NewRowKeepsNumbers ==
  ASSUME RowsInv, VoidsInv, NumbersInv, NEW i \in Invoices, NEW row,
         row.seq = NextSequence, row.state # "none",
         invoices' = [invoices EXCEPT ![i] = row], UNCHANGED <<pass, posted>>
  PROVE  NumbersInv'
<1>1. /\ \A j \in Invoices : j # i => invoices'[j] = invoices[j]
      /\ invoices'[i] = row
      /\ \A j \in Invoices : invoices[j].seq \in Nat
      /\ pass.copy.seq \in Nat
  BY RecordsAssumption DEF RowsInv, Rows
<1>2. NextSequence \in Nat /\ \A j \in Invoices : invoices[j].seq < NextSequence
  BY NextIsAbove
<1>3. \A r \in posted : r.seq \in Nat /\ r.seq < NextSequence
  BY NewIsAbove, PosAssumption, RecordsAssumption DEF VoidsInv, PlacesInv, Seqs
<1>4. \A j \in Issued' : j = i \/ (j \in Issued /\ invoices'[j] = invoices[j])
  BY <1>1 DEF Issued
<1>5. SequenceNotReused'
  BY DEF NumbersInv, SequenceNotReused
<1>6. ASSUME NEW r \in posted PROVE \E j \in Invoices : r.seq <= RowSeq(j)'
  <2>1. PICK j \in Invoices : r.seq <= RowSeq(j)
    BY DEF NumbersInv
  <2>2. RowSeq(j)' = RowSeq(j) \/ RowSeq(j)' = NextSequence
    BY <1>1 DEF RowSeq
  <2> QED BY <1>2, <1>3, <2>1, <2>2
<1>7. ASSUME pass.point = "remote"
      PROVE  /\ pass.copy.seq <= invoices'[pass.remote].seq
             /\ \A j \in Issued' : j # pass.remote => invoices'[j].seq # pass.copy.seq
  <2>1. pass.remote \in Invoices /\ pass.copy.seq <= invoices[pass.remote].seq
    BY <1>7 DEF VoidsInv, PlacesInv, CanceledInv, NumbersInv
  <2>2. pass.copy.seq < NextSequence
    BY <1>1, <1>2, <2>1
  <2>3. pass.copy.seq <= invoices'[pass.remote].seq
    BY <1>1, <1>2, <2>1, <2>2
  <2> QED BY <1>1, <1>2, <1>4, <1>7, <2>2, <2>3 DEF NumbersInv
<1>8. ASSUME NEW j \in Issued', NEW k \in Issued', j # k
      PROVE  invoices'[j].seq # invoices'[k].seq
  <2>1. j \in Invoices /\ k \in Invoices
    BY DEF Issued
  <2> QED BY <1>1, <1>2, <1>4, <1>8, <2>1 DEF NumbersInv
<1>9. ASSUME NEW j \in Issued', NEW r \in posted,
             invoices'[j].sync = "pending", r.seq = invoices'[j].seq
      PROVE  r = RecordOf(invoices'[j].kind, j, invoices'[j].seq)
  <2>1. j # i
    BY <1>1, <1>2, <1>3, <1>9
  <2> QED BY <1>4, <1>9, <2>1 DEF NumbersInv
<1> QED BY <1>5, <1>6, <1>7, <1>8, <1>9 DEF NumbersInv

(* What is posted in a pass is new, or was posted before as it is.         *)
LEMMA PostKeepsNumbers ==
  ASSUME RowsInv, NumbersInv, NEW q \in Requests, Post(q)
  PROVE  NumbersInv'
<1>1. /\ pass.point = "idle" /\ pass'.point = "posted"
      /\ posted' = posted \union NextBatch /\ UNCHANGED invoices
  BY DEF Post, RowsInv
<1>2. ASSUME NEW r \in NextBatch
      PROVE  \E i \in Issued : /\ invoices[i].sync = "pending"
                               /\ r = RecordOf(invoices[i].kind, i, invoices[i].seq)
  BY DEF NextBatch, Outbound
<1>3. \A i \in Invoices : RowSeq(i)' = invoices[i].seq /\ RowSeq(i) = invoices[i].seq
  BY <1>1 DEF RowSeq
<1>4. ASSUME NEW r \in NextBatch, NEW s \in posted', r.seq = s.seq
      PROVE  r = s
  <2>1. PICK i \in Issued : /\ invoices[i].sync = "pending"
                            /\ r = RecordOf(invoices[i].kind, i, invoices[i].seq)
    BY <1>2
  <2>2. r.seq = invoices[i].seq
    BY <2>1 DEF RecordOf
  <2>3. CASE s \in posted
    BY <1>4, <2>1, <2>2, <2>3 DEF NumbersInv
  <2>4. CASE s \in NextBatch
    <3>1. PICK j \in Issued : s = RecordOf(invoices[j].kind, j, invoices[j].seq)
      BY <1>2, <2>4
    <3>2. s.seq = invoices[j].seq
      BY <3>1 DEF RecordOf
    <3>3. i = j
      BY <1>4, <2>2, <3>2 DEF NumbersInv
    <3> QED BY <2>1, <3>1, <3>3
  <2> QED BY <1>1, <2>3, <2>4
<1>5. SequenceNotReused'
  BY <1>1, <1>4 DEF NumbersInv, SequenceNotReused
<1>6. ASSUME NEW r \in posted' PROVE \E i \in Invoices : r.seq <= RowSeq(i)'
  <2>1. CASE r \in posted
    BY <1>3, <2>1 DEF NumbersInv
  <2>2. CASE r \in NextBatch
    <3>1. PICK i \in Issued : r = RecordOf(invoices[i].kind, i, invoices[i].seq)
      BY <1>2, <2>2
    <3>2. r.seq = invoices[i].seq /\ i \in Invoices /\ invoices[i].seq \in Int
      BY <3>1, RecordsAssumption DEF RecordOf, Issued, RowsInv, Rows
    <3> QED BY <1>3, <3>2
  <2> QED BY <1>1, <2>1, <2>2
<1>7. ASSUME NEW i \in Issued, NEW r \in posted', invoices[i].sync = "pending",
             r.seq = invoices[i].seq
      PROVE  r = RecordOf(invoices[i].kind, i, invoices[i].seq)
  <2>1. CASE r \in posted
    BY <1>7, <2>1 DEF NumbersInv
  <2>2. CASE r \in NextBatch
    <3>1. PICK j \in Issued : r = RecordOf(invoices[j].kind, j, invoices[j].seq)
      BY <1>2, <2>2
    <3>2. invoices[j].seq = invoices[i].seq
      BY <1>7, <3>1 DEF RecordOf
    <3>3. i = j
      BY <3>2 DEF NumbersInv
    <3> QED BY <3>1, <3>3
  <2> QED BY <1>1, <2>1, <2>2
<1>8. Issued' = Issued
  BY <1>1 DEF Issued
<1> QED BY <1>1, <1>5, <1>6, <1>7, <1>8 DEF NumbersInv

(* Rows keep their numbers, and the pass reads none.                       *)
LEMMA FrameKeepsNumbers ==
  ASSUME RowsInv, RowsInv', VoidsInv, NumbersInv, UNCHANGED posted,
         \A i \in Invoices :
           /\ invoices'[i].state = invoices[i].state
           /\ invoices'[i].kind = invoices[i].kind
           /\ invoices'[i].seq = invoices[i].seq
           /\ invoices'[i].sync = "pending" => invoices[i].sync = "pending",
         pass'.point = "remote" => pass' = pass
  PROVE  NumbersInv'
<1>1. Issued' = Issued
  BY DEF Issued
<1>2. ASSUME NEW r \in posted PROVE \E i \in Invoices : r.seq <= RowSeq(i)'
  <2>1. PICK i \in Invoices : r.seq <= RowSeq(i)
    BY DEF NumbersInv
  <2>2. r.seq \in Nat /\ RowSeq(i) \in Nat /\ RowSeq(i)' \in Nat
    BY PosAssumption, RecordsAssumption
       DEF VoidsInv, PlacesInv, RowSeq, RowsInv, Rows, PosRecords, RecordOf, Seqs
  <2>3. RowSeq(i) <= RowSeq(i)'
    <3>1. CASE pass'.point = "remote"
      <4>1. RowSeq(i)' = RowSeq(i)
        BY <3>1 DEF RowSeq
      <4> QED BY <2>2, <4>1
    <3>2. CASE pass'.point # "remote"
      <4>1. RowSeq(i)' = invoices[i].seq
        BY <3>2 DEF RowSeq
      <4>2. RowSeq(i) = invoices[i].seq \/ RowSeq(i) <= invoices[i].seq
        BY DEF RowSeq, NumbersInv
      <4> QED BY <2>2, <4>1, <4>2
    <3> QED BY <3>1, <3>2
  <2> QED BY <2>1, <2>2, <2>3
<1>3. ASSUME pass'.point = "remote"
      PROVE  /\ pass'.copy.seq <= invoices'[pass'.remote].seq
             /\ \A j \in Issued' : j # pass'.remote => invoices'[j].seq # pass'.copy.seq
  <2>1. pass.remote \in Invoices
    BY <1>3 DEF VoidsInv, PlacesInv, CanceledInv
  <2> QED BY <1>1, <1>3, <2>1 DEF NumbersInv, Issued
<1>4. \A i, j \in Issued' : i # j => invoices'[i].seq # invoices'[j].seq
  BY <1>1 DEF NumbersInv, Issued
<1>5. ASSUME NEW i \in Issued', NEW r \in posted, invoices'[i].sync = "pending",
             r.seq = invoices'[i].seq
      PROVE  r = RecordOf(invoices'[i].kind, i, invoices'[i].seq)
  <2>1. i \in Issued /\ i \in Invoices
    BY <1>1 DEF Issued
  <2> QED BY <1>5, <2>1 DEF NumbersInv
<1>6. SequenceNotReused'
  BY DEF NumbersInv, SequenceNotReused
<1> QED BY <1>2, <1>3, <1>4, <1>5, <1>6 DEF NumbersInv

(* The pass reads a row, and later puts its number back.                   *)
LEMMA RemoteKeepsNumbers ==
  ASSUME RowsInv, VoidsInv, NumbersInv,
         CommitRemoteVoid \/ \E i \in Invoices : ReadForRemoteVoid(i)
  PROVE  NumbersInv'
<1>1. ASSUME NEW i \in Invoices, ReadForRemoteVoid(i) PROVE NumbersInv'
  <2>1. /\ pass.point = "pull" /\ pass'.point = "remote" /\ pass'.remote = i
        /\ pass'.copy = invoices[i] /\ i \in Issued
        /\ UNCHANGED <<invoices, posted>>
    BY <1>1 DEF ReadForRemoteVoid, RowsInv, Issued
  <2>2. \A j \in Invoices : RowSeq(j)' = RowSeq(j)
    BY <2>1 DEF RowSeq
  <2>3. invoices[i].seq <= invoices[i].seq
    BY RecordsAssumption DEF RowsInv, Rows
  <2>4. Issued' = Issued
    BY <2>1 DEF Issued
  <2>5. \A r \in posted' : \E j \in Invoices : r.seq <= RowSeq(j)'
    BY <2>1, <2>2 DEF NumbersInv
  <2> QED BY <2>1, <2>3, <2>4, <2>5 DEF NumbersInv, SequenceNotReused
<1>2. CASE CommitRemoteVoid
  <2> DEFINE i == pass.remote
  <2>1. /\ pass.point = "remote" /\ pass'.point = "pull" /\ i \in Invoices
        /\ UNCHANGED posted
    BY <1>2, RestingType DEF CommitRemoteVoid, VoidsInv, PlacesInv, CanceledInv
  <2>2. /\ \A j \in Invoices : j # i => invoices'[j] = invoices[j]
        /\ invoices'[i].seq = pass.copy.seq /\ invoices'[i].sync = "synced"
    BY <1>2, <2>1 DEF CommitRemoteVoid, RowsInv, Rows
  <2> HIDE DEF i
  <2>3. \A j \in Invoices : RowSeq(j)' = RowSeq(j)
    BY <2>1, <2>2 DEF RowSeq, i
  <2>4. \A j \in Issued' : j = i \/ (j \in Issued /\ invoices'[j] = invoices[j])
    BY <2>2 DEF Issued
  <2>5. ASSUME NEW j \in Issued', NEW k \in Issued', j # k
        PROVE  invoices'[j].seq # invoices'[k].seq
    BY <2>1, <2>2, <2>4, <2>5 DEF NumbersInv, i
  <2>6. \A r \in posted' : \E j \in Invoices : r.seq <= RowSeq(j)'
    BY <2>1, <2>3 DEF NumbersInv
  <2>7. ASSUME NEW j \in Issued', NEW r \in posted', invoices'[j].sync = "pending",
               r.seq = invoices'[j].seq
        PROVE  r = RecordOf(invoices'[j].kind, j, invoices'[j].seq)
    <3>1. j \in Issued /\ invoices'[j] = invoices[j]
      BY <2>2, <2>4, <2>7
    <3> QED BY <2>1, <2>7, <3>1 DEF NumbersInv
  <2>8. SequenceNotReused'
    BY <2>1 DEF NumbersInv, SequenceNotReused
  <2> QED BY <2>1, <2>5, <2>6, <2>7, <2>8 DEF NumbersInv
<1> QED BY <1>1, <1>2

LEMMA NumbersStep ==
  ASSUME RowsInv, VoidsInv, NumbersInv, [SalesNext]_salesVars
  PROVE  NumbersInv'
<1>0. RowsInv'
  BY RowsStep
<1>t. ASSUME UNCHANGED <<invoices, posted>>, pass'.point = "remote" => pass' = pass
      PROVE  NumbersInv'
  BY <1>0, <1>t, FrameKeepsNumbers
<1>1. ASSUME NEW i \in Invoices, Sell(i) PROVE NumbersInv'
  BY <1>1, NewRowKeepsNumbers DEF Sell
<1>2. CASE CommitVoid
  <2>1. till \in Invoices
    BY <1>2 DEF CommitVoid, VoidsInv, PlacesInv
  <2> QED BY <1>2, <2>1, NewRowKeepsNumbers DEF CommitVoid
<1>3. ASSUME NEW q \in Requests, Post(q) PROVE NumbersInv'
  BY <1>3, PostKeepsNumbers
<1>4. ASSUME NEW i \in Invoices, ReadForRemoteVoid(i) PROVE NumbersInv'
  BY <1>4, RemoteKeepsNumbers
<1>5. CASE CommitRemoteVoid
  BY <1>5, RemoteKeepsNumbers
<1>6. ASSUME NEW i \in Invoices, Acknowledge(i) PROVE NumbersInv'
  <2>1. \A j \in Invoices :
          /\ invoices'[j].state = invoices[j].state
          /\ invoices'[j].kind = invoices[j].kind
          /\ invoices'[j].seq = invoices[j].seq
          /\ invoices'[j].sync = "pending" => invoices[j].sync = "pending"
    BY <1>6 DEF Acknowledge, RowsInv, Rows
  <2>2. pass'.point = "acking" /\ UNCHANGED posted
    BY <1>6 DEF Acknowledge, RowsInv
  <2> QED BY <1>0, <2>1, <2>2, FrameKeepsNumbers
<1>7. ASSUME NEW i \in Invoices, ReadForVoid(i) \/ AcknowledgeFails(i) \/ AdminVoid(i)
      PROVE  NumbersInv'
  BY <1>7, <1>t DEF ReadForVoid, AcknowledgeFails, AdminVoid, RowsInv
<1>8. ASSUME NEW q \in Requests, Receive(q) PROVE NumbersInv'
  <2>1. pass'.point = "acking"
    BY <1>8 DEF Receive, RowsInv
  <2> QED BY <1>8, <2>1, <1>t DEF Receive
<1>9. CASE NothingToPost \/ AcknowledgeEnd \/ PullEnd \/ GiveUp \/ Restart
  <2>1. pass'.point \in {"pull", "idle"}
    BY <1>9, RestingType DEF NothingToPost, AcknowledgeEnd, PullEnd, GiveUp, Restart, RowsInv
  <2> QED BY <1>9, <1>t, <2>1 DEF NothingToPost, AcknowledgeEnd, PullEnd, GiveUp, Restart
<1>10. CASE Cloud \/ UNCHANGED salesVars
  BY <1>10, <1>t DEF Cloud, RespondToNobody, posVars, salesVars
<1> QED BY <1>1, <1>2, <1>3, <1>4, <1>5, <1>6, <1>7, <1>8, <1>9, <1>10
        DEF SalesNext, Cashier, Sync

LEMMA NumbersInvariant == SalesSpec => []NumbersInv
<1>1. RowsInv /\ VoidsInv /\ NumbersInv /\ [SalesNext]_salesVars => NumbersInv'
  BY NumbersStep
<1> QED BY <1>1, NumbersInit, TerminalBasics, VoidsInvariant, PTL DEF SalesSpec

(* No sequence is handed over for two documents, for any number of sales,  *)
(* voids on both sides, passes and restarts.                               *)
THEOREM SequencesAreNotReused == SalesSpec => []SequenceNotReused
<1>1. NumbersInv => SequenceNotReused
  BY DEF NumbersInv
<1> QED BY <1>1, NumbersInvariant, PTL

-----------------------------------------------------------------------------
(* Freshness.  All the cloud holds or works on has been handed over, so a  *)
(* sequence names one document in its tables too.                          *)
HandedOver(x) ==
  /\ x.todo \subseteq posted
  /\ {x.rec, x.row} \subseteq posted \union {NoRecord}

OnlyPosted ==
  /\ \A n \in Seqs : staged[n] \in posted \union {NoRecord}
  /\ \A n \in Seqs : receipts[n] \in posted \union {NoReceipt, GapFill}
  /\ \A q \in Requests : HandedOver(req[q])

LEMMA OnlyPostedInit == SalesInit => OnlyPosted
BY DEF SalesInit, Init, Idle, OnlyPosted, HandedOver

(* A step of a request that takes up, leaves or moves on with what it has. *)
LEMMA RequestHandedOver ==
  ASSUME IngestInv, OnlyPosted, UNCHANGED posted, NEW q \in Requests, NEW x,
         req' = [req EXCEPT ![q] = x], HandedOver(x)
  PROVE  \A p \in Requests : HandedOver(req[p])'
BY DEF IngestInv, TypeOK, OnlyPosted, HandedOver

LEMMA ServeHandsOver ==
  ASSUME IngestInv, OnlyPosted, UNCHANGED posted, NEW q \in Requests, Serve(q)
  PROVE  \A p \in Requests : HandedOver(req[p])'
<1>0. req[q] \in LocalState /\ HandedOver(req[q])
  BY DEF IngestInv, TypeOK, OnlyPosted
<1>l. ASSUME NEW r, NEW blocks, LeaveRecord(q, r, blocks)
      PROVE  \A p \in Requests : HandedOver(req[p])'
  <2>1. HandedOver([pc |-> "next", todo |-> req[q].todo \ {r},
                    blocked |-> req[q].blocked \/ blocks,
                    rec |-> NoRecord, row |-> NoRecord, expected |-> 0])
    BY <1>0 DEF HandedOver
  <2> QED BY <1>l, <2>1, RequestHandedOver DEF LeaveRecord
<1>g. ASSUME NEW point, GoTo(q, point) PROVE \A p \in Requests : HandedOver(req[p])'
  BY <1>g, <1>0 DEF GoTo, IngestInv, TypeOK, LocalState, OnlyPosted, HandedOver
<1>1. CASE RejectBoundary(q)
  BY <1>1, <1>l DEF RejectBoundary, Settle
<1>2. CASE LookupByKey(q)
  <2>1. ASSUME NEW r \in req[q].todo, req' = [req EXCEPT ![q].pc = "bySeq", ![q].rec = r]
        PROVE  \A p \in Requests : HandedOver(req[p])'
    BY <2>1, <1>0 DEF IngestInv, TypeOK, LocalState, OnlyPosted, HandedOver
  <2> QED BY <1>2, <2>1, <1>l DEF LookupByKey, Settle
<1>3. CASE LookupBySequence(q)
  BY <1>3, <1>l, <1>g DEF LookupBySequence, Settle
<1>4. CASE ResolveExpected(q)
  <2>1. ASSUME NEW n, req' = [req EXCEPT ![q].pc = "gap", ![q].expected = n]
        PROVE  \A p \in Requests : HandedOver(req[p])'
    BY <2>1, <1>0 DEF IngestInv, TypeOK, LocalState, OnlyPosted, HandedOver
  <2> QED BY <1>4, <2>1, <1>l, <1>g DEF ResolveExpected, Settle
<1>5. CASE DeclareGap(q) \/ KeepWaiting(q)
  BY <1>5, <1>g DEF DeclareGap, KeepWaiting
<1>6. CASE StageFuture(q)
  BY <1>6, <1>l DEF StageFuture
<1>7. CASE ApplyAccept(q)
  BY <1>7, <1>0 DEF ApplyAccept, IngestInv, TypeOK, LocalState, OnlyPosted, HandedOver
<1>8. CASE ApplyReject(q) \/ ApplyHold(q)
  BY <1>8, <1>l, <1>g DEF ApplyReject, ApplyHold, Settle
<1>9. CASE DrainFind(q)
  BY <1>9, <1>0 DEF DrainFind, StagedAt, IngestInv, TypeOK, LocalState, OnlyPosted, HandedOver
<1>10. CASE DrainEnd(q) \/ DrainReject(q) \/ DrainHoldStage(q)
  BY <1>10, <1>l DEF DrainEnd, DrainReject, DrainHoldStage
<1>11. CASE DrainAccept(q) \/ DrainHold(q)
  BY <1>11, <1>g DEF DrainAccept, DrainHold
<1>12. CASE DrainDelete(q)
  BY <1>12, <1>0 DEF DrainDelete, IngestInv, TypeOK, LocalState, OnlyPosted, HandedOver
<1> QED BY <1>1, <1>2, <1>3, <1>4, <1>5, <1>6, <1>7, <1>8, <1>9, <1>10, <1>11, <1>12
        DEF Serve, Apply, Drain

(* What a step of a request writes to the tables it had taken up.          *)
LEMMA TablesHandedOver ==
  ASSUME IngestInv, OnlyPosted, UNCHANGED posted, NEW q \in Requests, Serve(q)
  PROVE  /\ \A n \in Seqs : staged'[n] \in posted \union {NoRecord}
         /\ \A n \in Seqs : receipts'[n] \in posted \union {NoReceipt, GapFill}
<1>0. /\ req[q] \in LocalState /\ HandedOver(req[q]) /\ Position(req[q])
      /\ staged \in [Seqs -> Records \union {NoRecord}]
      /\ receipts \in [Seqs -> Records \union {NoReceipt, GapFill}]
      /\ NoRecord \notin Records
  BY RecordsAssumption DEF IngestInv, TypeOK, OnlyPosted
<1>c. ASSUME NEW r \in posted, Commit(q, r)
      PROVE  /\ \A n \in Seqs : staged'[n] \in posted \union {NoRecord}
             /\ \A n \in Seqs : receipts'[n] \in posted \union {NoReceipt, GapFill}
  BY <1>c, <1>0 DEF Commit, OnlyPosted
<1>s. ASSUME NEW r \in posted, Stage(q, r)
      PROVE  \A n \in Seqs : staged'[n] \in posted \union {NoRecord}
  BY <1>s, <1>0 DEF Stage, OnlyPosted
<1>1. CASE ApplyAccept(q)
  <2>1. req[q].rec \in posted
    BY <1>1, <1>0 DEF ApplyAccept, Position, HandedOver
  <2> QED BY <1>1, <2>1, <1>c DEF ApplyAccept
<1>2. CASE DrainAccept(q)
  <2>1. req[q].row \in posted
    BY <1>2, <1>0 DEF DrainAccept, Position, HandedOver
  <2> QED BY <1>2, <2>1, <1>c DEF DrainAccept
<1>3. CASE StageFuture(q)
  <2>1. req[q].rec \in posted
    BY <1>3, <1>0 DEF StageFuture, Position, HandedOver
  <2> QED BY <1>3, <2>1, <1>s DEF StageFuture, OnlyPosted
<1>4. CASE DrainHoldStage(q)
  <2>1. req[q].row \in posted
    BY <1>4, <1>0 DEF DrainHoldStage, Position, HandedOver
  <2> QED BY <1>4, <2>1, <1>s DEF DrainHoldStage, OnlyPosted
<1>5. CASE DeclareGap(q)
  BY <1>5, <1>0 DEF DeclareGap, OnlyPosted
<1>6. CASE DrainDelete(q)
  BY <1>6, <1>0 DEF DrainDelete, OnlyPosted
<1>7. ASSUME ~ApplyAccept(q), ~DrainAccept(q), ~StageFuture(q), ~DrainHoldStage(q),
             ~DeclareGap(q), ~DrainDelete(q)
      PROVE  UNCHANGED <<staged, receipts>>
  BY <1>7 DEF Serve, Apply, Drain, RejectBoundary, LookupByKey, LookupBySequence,
              ResolveExpected, KeepWaiting, ApplyReject, ApplyHold, DrainFind, DrainEnd,
              DrainReject, DrainHold, durable
<1> QED BY <1>1, <1>2, <1>3, <1>4, <1>5, <1>6, <1>7 DEF OnlyPosted

LEMMA OnlyPostedStep ==
  ASSUME IngestInv, OnlyPosted, [SalesNext]_salesVars
  PROVE  OnlyPosted'
<1>1. ASSUME NEW q \in Requests, Post(q) PROVE OnlyPosted'
  <2>1. /\ posted' = posted \union NextBatch
        /\ UNCHANGED <<staged, receipts>>
        /\ req' = [req EXCEPT ![q].pc = "next", ![q].todo = NextBatch]
    BY <1>1 DEF Post, Submit, durable
  <2>2. ASSUME NEW p \in Requests PROVE HandedOver(req[p])'
    <3>1. /\ req'[p].todo \in {req[p].todo, NextBatch}
          /\ req'[p].rec = req[p].rec /\ req'[p].row = req[p].row
      BY <2>1 DEF IngestInv, TypeOK, LocalState
    <3> QED BY <2>1, <3>1 DEF OnlyPosted, HandedOver
  <2> QED BY <2>1, <2>2 DEF OnlyPosted
<1>2. ASSUME NEW q \in Requests, Serve(q), UNCHANGED posted PROVE OnlyPosted'
  BY <1>2, ServeHandsOver, TablesHandedOver DEF OnlyPosted
<1>3. ASSUME NEW q \in Requests, Respond(q) \/ Abort(q), UNCHANGED posted PROVE OnlyPosted'
  <2>1. HandedOver(Idle)
    BY DEF Idle, HandedOver
  <2>2. \A p \in Requests : HandedOver(req[p])'
    BY <1>3, <2>1, RequestHandedOver DEF Respond, Abort
  <2> QED BY <1>3, <2>2 DEF Respond, Abort, durable, OnlyPosted
<1>4. ASSUME UNCHANGED <<staged, receipts, req, posted>> PROVE OnlyPosted'
  BY <1>4 DEF OnlyPosted, HandedOver
<1>5. CASE Cloud
  BY <1>5, <1>2, <1>3, <1>4 DEF Cloud, RespondToNobody, GraceElapses, posVars
<1>6. ASSUME NEW q \in Requests, Receive(q) PROVE OnlyPosted'
  BY <1>6, <1>3 DEF Receive
<1>7. ASSUME NEW i \in Invoices,
             \/ Sell(i) \/ ReadForVoid(i) \/ Acknowledge(i) \/ ReadForRemoteVoid(i)
             \/ AcknowledgeFails(i) \/ AdminVoid(i)
      PROVE  OnlyPosted'
  BY <1>7, <1>4 DEF Sell, ReadForVoid, Acknowledge, ReadForRemoteVoid, AcknowledgeFails,
                    AdminVoid, vars
<1>8. CASE \/ CommitVoid \/ NothingToPost \/ AcknowledgeEnd \/ CommitRemoteVoid \/ PullEnd
           \/ GiveUp \/ Restart \/ UNCHANGED salesVars
  BY <1>8, <1>4 DEF CommitVoid, NothingToPost, AcknowledgeEnd, CommitRemoteVoid, PullEnd,
                    GiveUp, Restart, salesVars, posVars, vars
<1> QED BY <1>1, <1>5, <1>6, <1>7, <1>8 DEF SalesNext, Cashier, Sync

(* A terminal's stream is shown as complete only when every document still *)
(* in the outbox is in the ledger: the terminal sees to what the cloud     *)
(* takes for granted, that a sequence stands for one key.                  *)
THEOREM TerminalFreshness == SalesSpec => []FreshnessIsHonest
<1>1. IngestInv /\ OnlyPosted /\ [SalesNext]_salesVars => OnlyPosted'
  BY OnlyPostedStep
<1>2. IngestInv /\ ReceiptsInPlace /\ [Next]_vars => ReceiptsInPlace'
  BY InPlacePreserved
<1>3. ASSUME IngestInv, AnswersInv, ReceiptsInPlace, OnlyPosted, SequenceNotReused
      PROVE  FreshnessIsHonest
  <2>1. ASSUME NEW n \in Seqs, staged[n] # NoRecord, receipts[n] \in Records
        PROVE  receipts[n].key = staged[n].key
    <3>1. staged[n] \in posted /\ receipts[n] \in posted
      BY <1>3, <2>1, RecordsAssumption DEF OnlyPosted
    <3>2. staged[n].seq = n /\ receipts[n].seq = n
      BY <1>3, <2>1 DEF IngestInv, StagedInPlace, ReceiptsInPlace
    <3> QED BY <1>3, <3>1, <3>2 DEF SequenceNotReused
  <2> QED BY <1>3, <2>1, CompleteHidesNothing DEF AnswersInv, FreshnessIsHonest
<1>4. Init => ReceiptsInPlace
  BY InitInPlace
<1> QED BY <1>1, <1>2, <1>3, <1>4, OnlyPostedInit, SequencesAreNotReused, SalesImplementIngest,
           IngestInvariant, AnswersInvariant, PTL DEF SalesSpec, Spec

-----------------------------------------------------------------------------
(* Gaps.  As long as nothing is voided the rows fill the numbers from one  *)
(* on, and what lies below a record of a request is accepted, is before it *)
(* in its batch, or has been refused and blocks it.  No request then gets  *)
(* as far as staging a record or declaring a gap.                          *)
NothingVoided == \A i \in Invoices : invoices[i].state # "canceled"

BatchInOrder(x) ==
  /\ \A r \in x.todo, m \in Seqs :
       m < r.seq => x.blocked \/ receipts[m] # NoReceipt \/ \E s \in x.todo : s.seq = m
  /\ x.pc \in {"idle", "next", "bySeq", "expect", "apply", "drain"}
  /\ x.pc \notin {"idle", "next"} => x.rec \in x.todo /\ \A s \in x.todo : x.rec.seq <= s.seq
  /\ x.pc \in {"expect", "apply"} => Before(x.rec.seq)
  /\ x.pc = "drain" => receipts[x.rec.seq] # NoReceipt

NothingWaits == \A n \in Seqs : staged[n] = NoRecord /\ receipts[n] # GapFill

RowsDense ==
  /\ \A i \in Invoices : invoices[i].state = "none" => invoices[i].seq = 0
  /\ \A i \in Invoices, m \in Seqs :
       m <= invoices[i].seq => \E j \in Invoices : invoices[j].seq = m
  /\ \A r \in posted : r.seq = invoices[r.invoice].seq

NothingLost ==
  /\ NothingWaits
  /\ RowsDense
  /\ \A q \in Requests : BatchInOrder(req[q])

LEMMA NothingLostInit == SalesInit => NothingLost
BY RecordsAssumption
   DEF SalesInit, Init, Idle, NoRow, NothingLost, NothingWaits, RowsDense, BatchInOrder, Seqs

(* What the others accept keeps a batch in order.                          *)
LEMMA OthersKeepOrder ==
  ASSUME IngestInv, NEW p \in Requests, BatchInOrder(req[p]), req'[p] = req[p],
         \A n \in Seqs : receipts[n] # NoReceipt => receipts'[n] # NoReceipt
  PROVE  BatchInOrder(req[p])'
<1>1. req[p].pc = "drain" => req[p].rec.seq \in Seqs
  BY RecordsAssumption DEF IngestInv, Position
<1> QED BY <1>1 DEF BatchInOrder, Before

(* A record is left when it is accepted, or when it blocks what follows.   *)
LEMMA LeaveInOrder ==
  ASSUME IngestInv, NEW q \in Requests, NEW r, NEW b \in BOOLEAN, LeaveRecord(q, r, b),
         BatchInOrder(req[q]), b \/ req[q].blocked \/ receipts'[r.seq] # NoReceipt,
         \A n \in Seqs : receipts[n] # NoReceipt => receipts'[n] # NoReceipt
  PROVE  BatchInOrder(req[q])'
<1>1. req' = [req EXCEPT ![q] = [pc |-> "next", todo |-> req[q].todo \ {r},
                                 blocked |-> req[q].blocked \/ b, rec |-> NoRecord,
                                 row |-> NoRecord, expected |-> 0]]
  BY DEF LeaveRecord
<1>2. req \in [Requests -> LocalState]
  BY DEF IngestInv, TypeOK
<1>3. /\ req'[q].pc = "next" /\ req'[q].todo = req[q].todo \ {r}
      /\ req'[q].blocked = (req[q].blocked \/ b)
  BY <1>1, <1>2
<1>4. ASSUME NEW s \in req[q].todo \ {r}, NEW m \in Seqs, m < s.seq
      PROVE  \/ req'[q].blocked \/ receipts'[m] # NoReceipt
             \/ \E t \in req[q].todo \ {r} : t.seq = m
  BY <1>3, <1>4 DEF BatchInOrder
<1> QED BY <1>3, <1>4 DEF BatchInOrder

(* While nothing is voided, a record with the key of a receipt is it.      *)
LEMMA SameKeyIsAccepted ==
  ASSUME IngestInv, ExactlyOnceInOrder, VoidsInv, RowsDense,
         NEW r \in posted, NEW n \in Seqs, receipts[n] \in Records, receipts[n].key = r.key
  PROVE  receipts[r.seq] # NoReceipt
<1>1. PICK k \in DOMAIN ledger : ledger[k] = receipts[n]
  BY DEF ExactlyOnceInOrder
<1>2. ledger[k] \in posted /\ posted \subseteq PosRecords
  BY PosAssumption DEF VoidsInv, Known, PlacesInv
<1>3. \A s \in PosRecords : s.invoice = s.key[2]
  BY DEF PosRecords, RecordOf
<1>4. ledger[k].seq = r.seq
  BY <1>1, <1>2, <1>3 DEF RowsDense
<1>5. receipts[r.seq] = ledger[k]
  BY <1>4 DEF ExactlyOnceInOrder
<1> QED BY <1>1, <1>5, RecordsAssumption

(* A request goes on only at a position whose predecessors are accepted,   *)
(* and settles nothing else without blocking.                              *)
LEMMA RequestKeepsOrder ==
  ASSUME IngestInv, ExactlyOnceInOrder, VoidsInv, NothingLost, NEW q \in Requests,
         Serve(q) \/ Respond(q) \/ Abort(q),
         \A n \in Seqs : receipts[n] # NoReceipt => receipts'[n] # NoReceipt
  PROVE  BatchInOrder(req[q])' /\ NothingWaits'
<1> DEFINE rec == req[q].rec
<1>0. /\ req \in [Requests -> LocalState] /\ req[q] \in LocalState
      /\ BatchInOrder(req[q]) /\ Position(req[q])
      /\ \A r \in Records : ~r.note /\ r.seq \in Seqs
      /\ posted \subseteq Records /\ req[q].todo \subseteq posted
  BY RecordsAssumption, PosAssumption
     DEF IngestInv, TypeOK, NothingLost, VoidsInv, Known, PlacesInv, PosRecords, RecordOf
<1>p. req[q].pc \in {"idle", "next", "bySeq", "expect", "apply", "drain"}
  BY <1>0 DEF BatchInOrder
<1>u. UNCHANGED durable => NothingWaits'
  BY DEF durable, NothingLost, NothingWaits
<1>l. ASSUME NEW r, NEW b \in BOOLEAN, LeaveRecord(q, r, b), UNCHANGED durable,
             b \/ req[q].blocked \/ receipts[r.seq] # NoReceipt
      PROVE  BatchInOrder(req[q])' /\ NothingWaits'
  BY <1>0, <1>l, <1>u, LeaveInOrder DEF durable
<1>1. CASE RejectBoundary(q)
  BY <1>0, <1>1 DEF RejectBoundary
<1>2. CASE LookupByKey(q)
  <2>1. PICK r \in req[q].todo :
          /\ \A s \in req[q].todo : r.seq <= s.seq
          /\ \/ req' = [req EXCEPT ![q].pc = "bySeq", ![q].rec = r]
             \/ /\ \E n \in Seqs : receipts[n] \in Records /\ receipts[n].key = r.key
                /\ LeaveRecord(q, r, FALSE)
    BY <1>2 DEF LookupByKey, Settle
  <2>2. UNCHANGED durable
    BY <1>2 DEF LookupByKey
  <2>3. CASE req' = [req EXCEPT ![q].pc = "bySeq", ![q].rec = r]
    <3>1. /\ req'[q].pc = "bySeq" /\ req'[q].rec = r
          /\ req'[q].todo = req[q].todo /\ req'[q].blocked = req[q].blocked
      BY <1>0, <2>3 DEF LocalState
    <3>2. BatchInOrder(req[q])'
      BY <1>0, <2>1, <2>2, <3>1 DEF BatchInOrder, durable
    <3> QED BY <1>u, <2>2, <3>2
  <2>4. CASE /\ \E n \in Seqs : receipts[n] \in Records /\ receipts[n].key = r.key
             /\ LeaveRecord(q, r, FALSE)
    <3>1. receipts[r.seq] # NoReceipt
      BY <1>0, <2>1, <2>4, SameKeyIsAccepted DEF NothingLost
    <3> QED BY <1>l, <2>2, <2>4, <3>1
  <2> QED BY <2>1, <2>3, <2>4
<1>g. ASSUME NEW point \in {"expect", "apply"}, req[q].pc \in {"bySeq", "expect"},
             GoTo(q, point), Before(rec.seq), UNCHANGED durable
      PROVE  BatchInOrder(req[q])' /\ NothingWaits'
  <2>1. /\ req'[q].pc = point /\ req'[q].rec = rec
        /\ req'[q].todo = req[q].todo /\ req'[q].blocked = req[q].blocked
    BY <1>0, <1>g DEF GoTo, LocalState
  <2>2. BatchInOrder(req[q])'
    BY <1>0, <1>g, <2>1 DEF BatchInOrder, Before, durable
  <2> QED BY <1>u, <1>g, <2>2
<1>3. CASE LookupBySequence(q)
  <2>1. /\ UNCHANGED durable /\ req[q].pc = "bySeq"
        /\ \/ receipts[rec.seq] # NoReceipt /\ LeaveRecord(q, rec, FALSE)
           \/ req[q].blocked /\ LeaveRecord(q, rec, FALSE)
           \/ ~req[q].blocked /\ GoTo(q, "expect")
    BY <1>3 DEF LookupBySequence, Settle
  <2>2. ASSUME ~req[q].blocked PROVE Before(rec.seq)
    <3>1. rec \in req[q].todo /\ \A s \in req[q].todo : rec.seq <= s.seq
      BY <1>0, <2>1 DEF BatchInOrder
    <3>2. ASSUME NEW m \in Seqs, m < rec.seq PROVE receipts[m] # NoReceipt
      <4>1. ASSUME NEW s \in req[q].todo, s.seq = m PROVE FALSE
        <5>1. rec.seq <= m /\ m < rec.seq /\ rec.seq \in Seqs
          BY <1>0, <3>1, <3>2, <4>1
        <5> QED BY <5>1, RecordsAssumption DEF Seqs
      <4> QED BY <1>0, <2>2, <3>1, <3>2, <4>1 DEF BatchInOrder
    <3> QED BY <3>2 DEF Before
  <2> QED BY <1>g, <1>l, <2>1, <2>2
<1>4. CASE ResolveExpected(q)
  <2>1. UNCHANGED durable /\ req[q].pc = "expect" /\ Before(rec.seq) /\ rec.seq \in Seqs
    BY <1>0, <1>4 DEF ResolveExpected, BatchInOrder, Position
  <2>2. /\ Watermark \in 0..MaxSeq
        /\ \A n \in Seqs : receipts[n] # NoReceipt <=> n <= Watermark
    BY WatermarkProperties DEF IngestInv
  <2>3. CASE rec.seq < Watermark + 1 /\ LeaveRecord(q, rec, FALSE)
    <3>1. receipts[rec.seq] # NoReceipt
      BY <2>1, <2>2, <2>3, RecordsAssumption DEF Seqs
    <3> QED BY <1>l, <2>1, <2>3, <3>1
  <2>4. CASE GoTo(q, "apply")
    BY <1>g, <2>1, <2>4
  <2>5. CASE rec.seq > Watermark + 1
    <3>1. Watermark + 1 \in Seqs /\ Watermark + 1 < rec.seq
      BY <2>1, <2>2, <2>5, RecordsAssumption DEF Seqs
    <3>2. receipts[Watermark + 1] # NoReceipt
      BY <2>1, <3>1 DEF Before
    <3> QED BY <2>2, <3>1, <3>2
  <2> QED BY <1>4, <2>3, <2>4, <2>5 DEF ResolveExpected, Settle
<1>5. CASE DeclareGap(q) \/ KeepWaiting(q) \/ StageFuture(q) \/ ApplyHold(q)
  BY <1>0, <1>p, <1>5 DEF DeclareGap, KeepWaiting, StageFuture, ApplyHold, OriginMissing, Position
<1>6. CASE ApplyAccept(q)
  <2>1. /\ req[q].pc = "apply" /\ rec \in Records /\ rec \in req[q].todo
        /\ \A s \in req[q].todo : rec.seq <= s.seq
    BY <1>0, <1>6 DEF ApplyAccept, Position, BatchInOrder
  <2>2. /\ req' = [req EXCEPT ![q].pc = "drain", ![q].expected = rec.seq + 1]
        /\ receipts' = [receipts EXCEPT ![rec.seq] = rec]
        /\ staged' = [n \in Seqs |-> IF n \in HeldRows(rec) THEN NoRecord ELSE staged[n]]
    BY <1>6 DEF ApplyAccept, Commit
  <2>3. /\ req'[q].pc = "drain" /\ req'[q].rec = rec
        /\ req'[q].todo = req[q].todo /\ req'[q].blocked = req[q].blocked
    BY <1>0, <2>2 DEF LocalState
  <2>4. receipts'[rec.seq] # NoReceipt
    BY <1>0, <2>1, <2>2, RecordsAssumption DEF IngestInv, TypeOK
  <2>5. BatchInOrder(req[q])'
    BY <1>0, <2>1, <2>3, <2>4 DEF BatchInOrder
  <2>6. NothingWaits'
    BY <2>1, <2>2, RecordsAssumption DEF NothingLost, NothingWaits, IngestInv, TypeOK
  <2> QED BY <2>5, <2>6
<1>7. CASE ApplyReject(q)
  BY <1>l, <1>7 DEF ApplyReject, Settle
<1>8. CASE DrainEnd(q)
  <2>1. receipts[rec.seq] # NoReceipt
    BY <1>0, <1>8 DEF DrainEnd, BatchInOrder
  <2> QED BY <1>l, <1>8, <2>1 DEF DrainEnd
<1>9. CASE DrainFind(q)
  BY <1>9 DEF DrainFind, StagedAt, NothingLost, NothingWaits
<1>10. CASE DrainAccept(q) \/ DrainReject(q) \/ DrainHold(q) \/ DrainHoldStage(q) \/ DrainDelete(q)
  BY <1>p, <1>10 DEF DrainAccept, DrainReject, DrainHold, DrainHoldStage, DrainDelete
<1>11. CASE Respond(q) \/ Abort(q)
  <2>1. req' = [req EXCEPT ![q] = Idle] /\ UNCHANGED durable
    BY <1>11 DEF Respond, Abort
  <2>2. BatchInOrder(req[q])'
    BY <1>0, <2>1 DEF Idle, BatchInOrder
  <2> QED BY <1>u, <2>1, <2>2
<1> QED BY <1>1, <1>2, <1>3, <1>4, <1>5, <1>6, <1>7, <1>8, <1>9, <1>10, <1>11
        DEF Serve, Apply, Drain

(* Every row is in a batch, in the cloud, or behind the whole batch.       *)
LEMMA BatchTakesTheLowest ==
  ASSUME RowsInv, NumbersInv, NEW r \in NextBatch, NEW s \in Outbound, s.seq < r.seq
  PROVE  s \in NextBatch
<1> DEFINE below(t) == {u \in Outbound : u.seq < t.seq}
           place == [u \in below(r) |-> u.seq]
<1>1. ASSUME NEW u \in Outbound
      PROVE  \E i \in Issued : /\ u = RecordOf(invoices[i].kind, i, invoices[i].seq)
                               /\ u.seq = invoices[i].seq /\ u.seq \in Seqs
  BY DEF Outbound, RecordOf, RowsInv, Issued
<1>2. ASSUME NEW u \in Outbound, NEW v \in Outbound, u.seq = v.seq PROVE u = v
  <2>1. PICK i \in Issued : /\ u = RecordOf(invoices[i].kind, i, invoices[i].seq)
                            /\ u.seq = invoices[i].seq
    BY <1>1
  <2>2. PICK j \in Issued : /\ v = RecordOf(invoices[j].kind, j, invoices[j].seq)
                            /\ v.seq = invoices[j].seq
    BY <1>1
  <2>3. i = j
    BY <1>2, <2>1, <2>2 DEF NumbersInv
  <2> QED BY <2>1, <2>2, <2>3
<1>3. place \in Injection(below(r), Seqs)
  BY <1>1, <1>2 DEF Injection, IsInjective
<1>4. IsFiniteSet(Seqs)
  BY FS_Interval, RecordsAssumption DEF Seqs
<1>5. IsFiniteSet(below(r))
  BY <1>3, <1>4, FS_Injection
<1>6. below(s) \in SUBSET below(r)
  <2>1. ASSUME NEW u \in Outbound, u.seq < s.seq PROVE u.seq < r.seq
    <3>1. u.seq \in Seqs /\ s.seq \in Seqs /\ r.seq \in Seqs
      BY <1>1 DEF NextBatch
    <3> QED BY <2>1, <3>1, RecordsAssumption DEF Seqs
  <2> QED BY <2>1
<1>7. /\ IsFiniteSet(below(s))
      /\ Cardinality(below(s)) <= Cardinality(below(r))
  BY <1>5, <1>6, FS_Subset
<1>8. Cardinality(below(s)) \in Nat /\ Cardinality(below(r)) \in Nat
  BY <1>5, <1>7, FS_CardinalityType
<1>9. Cardinality(below(r)) < BatchLimit
  BY DEF NextBatch
<1>10. Cardinality(below(s)) < BatchLimit
  BY <1>7, <1>8, <1>9, PosAssumption
<1> QED BY <1>10 DEF NextBatch

(* A synced row's sequence is accepted.                                    *)
LEMMA SyncedIsAccepted ==
  ASSUME IngestInv, ExactlyOnceInOrder, SyncedIsDurable, VoidsInv, RowsDense,
         NEW i \in Invoices, invoices[i].sync = "synced"
  PROVE  receipts[invoices[i].seq] # NoReceipt
<1>1. PICK k \in DOMAIN ledger : ledger[k].invoice = i
  BY DEF SyncedIsDurable, InCloud
<1>2. ledger[k] \in posted /\ ledger[k] \in Records
  BY DEF VoidsInv, Known, PlacesInv
<1>3. ledger[k].seq = invoices[i].seq
  BY <1>1, <1>2 DEF RowsDense
<1>4. receipts[ledger[k].seq] = ledger[k]
  BY DEF ExactlyOnceInOrder
<1> QED BY <1>2, <1>3, <1>4, RecordsAssumption

LEMMA PostKeepsOrder ==
  ASSUME IngestInv, ExactlyOnceInOrder, SyncedIsDurable, RowsInv, VoidsInv, NumbersInv,
         NothingLost, NEW q \in Requests, Post(q)
  PROVE  NothingLost'
<1>1. /\ UNCHANGED <<receipts, staged, invoices>> /\ posted' = posted \union NextBatch
      /\ req' = [req EXCEPT ![q].pc = "next", ![q].todo = NextBatch]
  BY DEF Post, Submit, durable
<1>2. req'[q].pc = "next" /\ req'[q].todo = NextBatch /\ \A p \in Requests : p # q => req'[p] = req[p]
  BY <1>1 DEF IngestInv, TypeOK, LocalState
<1>3. ASSUME NEW r \in NextBatch
      PROVE  \E i \in Issued : /\ i \in Invoices /\ r.invoice = i
                               /\ r.seq = invoices[i].seq /\ r.seq \in Seqs
  BY DEF NextBatch, Outbound, RecordOf, Issued, RowsInv
<1>4. ASSUME NEW r \in NextBatch, NEW m \in Seqs, m < r.seq
      PROVE  receipts[m] # NoReceipt \/ \E s \in NextBatch : s.seq = m
  <2>1. PICK i \in Invoices : r.seq = invoices[i].seq /\ r.seq \in Seqs
    BY <1>3
  <2>2. m <= invoices[i].seq
    BY <1>4, <2>1, RecordsAssumption DEF Seqs
  <2>3. PICK j \in Invoices : invoices[j].seq = m
    BY <2>2 DEF NothingLost, RowsDense
  <2>4. j \in Issued
    BY <2>3, RecordsAssumption DEF NothingLost, RowsDense, Issued, Seqs
  <2>5. CASE invoices[j].sync = "synced"
    BY <2>3, <2>5, SyncedIsAccepted DEF NothingLost
  <2>6. CASE invoices[j].sync = "pending"
    <3>1. PICK s \in Outbound : s = RecordOf(invoices[j].kind, j, invoices[j].seq)
      BY <2>4, <2>6 DEF Outbound
    <3>2. s.seq = m
      BY <2>3, <3>1 DEF RecordOf
    <3>3. s \in NextBatch
      BY <1>4, <3>2, BatchTakesTheLowest
    <3> QED BY <3>2, <3>3
  <2> QED BY <2>5, <2>6 DEF RowsInv, Rows
<1>5. BatchInOrder(req[q])'
  BY <1>1, <1>2, <1>4 DEF BatchInOrder
<1>6. \A p \in Requests : p # q => BatchInOrder(req[p])'
  BY <1>1, <1>2, OthersKeepOrder DEF NothingLost
<1>7. RowsDense'
  BY <1>1, <1>3 DEF NothingLost, RowsDense
<1> QED BY <1>1, <1>5, <1>6, <1>7 DEF NothingLost, NothingWaits

(* Rows that keep their numbers stay dense.                                *)
LEMMA FrameKeepsDense ==
  ASSUME VoidsInv, RowsDense, UNCHANGED posted,
         \A i \in Invoices : /\ invoices'[i].seq = invoices[i].seq
                             /\ invoices'[i].state = invoices[i].state
  PROVE  RowsDense'
<1>1. \A r \in posted : r.invoice \in Invoices
  BY PosAssumption DEF VoidsInv, PlacesInv, PosRecords, RecordOf
<1> QED BY <1>1 DEF RowsDense

LEMMA SellKeepsDense ==
  ASSUME RowsInv, VoidsInv, RowsDense, NEW i \in Invoices, Sell(i)
  PROVE  RowsDense'
<1>1. /\ invoices[i].state = "none" /\ invoices[i].seq = 0 /\ UNCHANGED posted
      /\ \A j \in Invoices : j # i => invoices'[j] = invoices[j]
      /\ invoices'[i].seq = NextSequence /\ invoices'[i].state = "active"
  BY DEF Sell, RowsInv, RowsDense
<1>2. PICK top \in Invoices : NextSequence = invoices[top].seq + 1
  BY NextIsAbove
<1>3. \A j \in Invoices : invoices[j].seq \in Nat /\ invoices[j].seq < NextSequence
  BY NextIsAbove, RecordsAssumption DEF RowsInv, Rows
<1>4. ASSUME NEW j \in Invoices, NEW m \in Seqs, m <= invoices'[j].seq
      PROVE  \E k \in Invoices : invoices'[k].seq = m
  <2>1. m \in Nat /\ m # 0 /\ m <= NextSequence
    BY <1>1, <1>2, <1>3, <1>4, RecordsAssumption DEF Seqs
  <2>2. CASE m = NextSequence
    BY <1>1, <2>2
  <2>3. CASE m # NextSequence
    <3>1. m <= invoices[top].seq
      BY <1>2, <1>3, <2>1, <2>3
    <3>2. PICK k \in Invoices : invoices[k].seq = m
      BY <3>1 DEF RowsDense
    <3> QED BY <1>1, <2>1, <3>2
  <2> QED BY <2>2, <2>3
<1>5. ASSUME NEW r \in posted PROVE r.seq = invoices'[r.invoice].seq
  <2>1. r.invoice \in Invoices /\ r.seq \in Seqs
    BY PosAssumption DEF VoidsInv, PlacesInv, PosRecords, RecordOf
  <2>2. r.invoice # i
    BY <1>1, <2>1, RecordsAssumption DEF RowsDense, Seqs
  <2> QED BY <1>1, <2>1, <2>2 DEF RowsDense
<1> QED BY <1>1, <1>4, <1>5 DEF RowsDense

LEMMA NothingLostStep ==
  ASSUME IngestInv, ExactlyOnceInOrder, SyncedIsDurable, RowsInv, VoidsInv, NumbersInv,
         NothingVoided => NothingLost, [SalesNext]_salesVars, NothingVoided'
  PROVE  NothingLost'
<1>0. NothingLost
  BY CanceledStays DEF NothingVoided
<1>r. \A n \in Seqs : receipts[n] # NoReceipt => receipts'[n] # NoReceipt
  BY StepIsIngestStep, ReceiptsKept, RecordsAssumption
<1>v. ASSUME UNCHANGED vars, RowsDense' PROVE NothingLost'
  <2>1. \A q \in Requests : BatchInOrder(req[q])'
    BY <1>0, <1>v, OthersKeepOrder DEF NothingLost, vars
  <2> QED BY <1>0, <1>v, <2>1 DEF NothingLost, NothingWaits, vars
<1>d. ASSUME UNCHANGED <<invoices, posted>> PROVE RowsDense'
  BY <1>0, <1>d, FrameKeepsDense DEF NothingLost
<1>q. ASSUME NEW q \in Requests, Serve(q) \/ Respond(q) \/ Abort(q),
             UNCHANGED <<invoices, posted>>
      PROVE  NothingLost'
  <2>1. BatchInOrder(req[q])' /\ NothingWaits'
    BY <1>0, <1>q, <1>r, RequestKeepsOrder
  <2>2. \A p \in Requests : p # q => req'[p] = req[p]
    BY <1>q DEF IngestInv, TypeOK, Serve, Respond, Abort, RejectBoundary, LookupByKey,
         LookupBySequence, ResolveExpected, DeclareGap, KeepWaiting, StageFuture, Apply,
         ApplyAccept, ApplyReject, ApplyHold, Drain, DrainFind, DrainEnd, DrainAccept,
         DrainReject, DrainHold, DrainHoldStage, DrainDelete, Settle, LeaveRecord, GoTo
  <2>3. \A p \in Requests : p # q => BatchInOrder(req[p])'
    BY <1>0, <1>r, <2>2, OthersKeepOrder DEF NothingLost
  <2> QED BY <1>d, <1>q, <2>1, <2>3 DEF NothingLost
<1>1. ASSUME NEW i \in Invoices, Sell(i) PROVE NothingLost'
  BY <1>0, <1>1, <1>v, SellKeepsDense DEF Sell, NothingLost
<1>2. ASSUME NEW q \in Requests, Post(q) PROVE NothingLost'
  BY <1>0, <1>2, PostKeepsOrder
<1>3. CASE CommitVoid
  <2>1. till \in Invoices /\ invoices'[till].state = "canceled"
    BY <1>3 DEF CommitVoid, VoidsInv, PlacesInv, RowsInv
  <2> QED BY <2>1 DEF NothingVoided
<1>4. CASE CommitRemoteVoid
  <2>1. pass.remote \in Invoices
    BY <1>4 DEF CommitRemoteVoid, VoidsInv, PlacesInv, CanceledInv
  <2>2. invoices'[pass.remote] = [pass.copy EXCEPT !.state = "canceled", !.sync = "synced"]
    BY <1>4, <2>1 DEF CommitRemoteVoid, RowsInv
  <2>3. invoices'[pass.remote].state = "canceled"
    BY <2>2 DEF RowsInv, Rows
  <2> QED BY <2>1, <2>3 DEF NothingVoided
<1>5. ASSUME NEW i \in Invoices, Acknowledge(i) PROVE NothingLost'
  <2>1. \A j \in Invoices : /\ invoices'[j].seq = invoices[j].seq
                            /\ invoices'[j].state = invoices[j].state
    BY <1>5 DEF Acknowledge, RowsInv, Rows
  <2>2. UNCHANGED <<vars, posted>>
    BY <1>5 DEF Acknowledge
  <2> QED BY <1>0, <1>v, <2>1, <2>2, FrameKeepsDense DEF NothingLost
<1>6. ASSUME NEW i \in Invoices,
             ReadForVoid(i) \/ ReadForRemoteVoid(i) \/ AcknowledgeFails(i) \/ AdminVoid(i)
      PROVE  NothingLost'
  BY <1>d, <1>v, <1>6 DEF ReadForVoid, ReadForRemoteVoid, AcknowledgeFails, AdminVoid
<1>7. CASE NothingToPost \/ AcknowledgeEnd \/ PullEnd \/ GiveUp \/ Restart \/ UNCHANGED salesVars
  BY <1>d, <1>v, <1>7 DEF NothingToPost, AcknowledgeEnd, PullEnd, GiveUp, Restart, salesVars,
                          posVars
<1>8. ASSUME NEW q \in Requests, Receive(q) PROVE NothingLost'
  BY <1>q, <1>8 DEF Receive
<1>9. CASE Cloud
  <2>1. ASSUME NEW n \in Seqs, GraceElapses(n) PROVE FALSE
    BY <1>0, <2>1 DEF GraceElapses, NothingLost, NothingWaits
  <2> QED BY <1>9, <1>q, <2>1 DEF Cloud, RespondToNobody, posVars
<1> QED BY <1>1, <1>2, <1>3, <1>4, <1>5, <1>6, <1>7, <1>8, <1>9
        DEF SalesNext, Cashier, Sync

(* A terminal that has voided nothing never has a record held back nor a   *)
(* sequence declared lost, for any number of sales, overlapping requests,  *)
(* lost answers and restarts: holes come from voids only.                  *)
THEOREM GapsComeFromVoids == SalesSpec => []GapNeedsVoid
<1> DEFINE Inv == NothingVoided => NothingLost
<1>1. SalesInit => Inv
  BY NothingLostInit
<1>2. /\ IngestInv /\ ExactlyOnceInOrder /\ SyncedIsDurable /\ RowsInv /\ VoidsInv
      /\ NumbersInv /\ Inv /\ [SalesNext]_salesVars
      => Inv'
  BY NothingLostStep
<1>3. Inv => GapNeedsVoid
  BY DEF NothingVoided, NothingLost, NothingWaits, GapNeedsVoid
<1> HIDE DEF Inv
<1> QED BY <1>1, <1>2, <1>3, TerminalBasics, TerminalStream, SyncedSalesAreDurable,
           VoidsInvariant, NumbersInvariant, PTL DEF SalesSpec
=============================================================================
