-------------------------- MODULE SyncIngestProofs --------------------------
(***************************************************************************)
(* What SyncIngest guarantees for any number of requests, any records, any *)
(* batches and any highest sequence.                                       *)
(***************************************************************************)
EXTENDS SyncIngest, TLAPS, WellFoundedInduction

(* A nonempty set of accepted sequences has a greatest element.            *)
LEMMA GreatestSequence ==
  ASSUME NEW T, T \subseteq Seqs, T # {}
  PROVE  \E n \in T : \A m \in T : m <= n
<1> DEFINE D == {k \in Nat : k <= MaxSeq /\ MaxSeq - k \in T}
<1>1. MaxSeq \in Nat
  BY RecordsAssumption
<1>2. PICK t \in T : TRUE
  OBVIOUS
<1>3. /\ t \in Nat
      /\ t <= MaxSeq
  BY <1>1, <1>2 DEF Seqs
<1>4. MaxSeq - t \in D
  <2>1. MaxSeq - (MaxSeq - t) = t
    BY <1>1, <1>3
  <2> QED BY <1>1, <1>2, <1>3, <2>1
<1>5. D \subseteq Nat /\ D # {}
  BY <1>4
<1> HIDE DEF D
<1>6. PICK k \in D : \A j \in D : ~ (<<j, k>> \in OpToRel(<, Nat))
  BY <1>5, NatLessThanWellFounded, WFMin
<1>7. \A j \in D : ~ (j < k)
  BY <1>5, <1>6 DEF OpToRel
<1>8. MaxSeq - k \in T /\ k \in Nat /\ k <= MaxSeq
  BY <1>6 DEF D
<1>9. ASSUME NEW m \in T PROVE m <= MaxSeq - k
  <2>1. m \in Nat /\ m <= MaxSeq
    BY <1>1, <1>9 DEF Seqs
  <2>2. MaxSeq - (MaxSeq - m) = m
    BY <1>1, <2>1
  <2>3. MaxSeq - m \in D
    BY <1>1, <1>9, <2>1, <2>2 DEF D
  <2>4. ~ (MaxSeq - m < k)
    BY <1>7, <2>3
  <2> QED BY <1>1, <1>8, <2>1, <2>4
<1> QED BY <1>8, <1>9

(* The watermark read by resolveExpectedSequence is an accepted sequence,  *)
(* and in a contiguous stream everything below the next one is accepted.   *)
LEMMA WatermarkProperties ==
  ASSUME TypeOK, ReceiptsContiguous
  PROVE  /\ Watermark \in 0..MaxSeq
         /\ \A n \in Seqs : receipts[n] # NoReceipt <=> n <= Watermark
<1>1. MaxSeq \in Nat
  BY RecordsAssumption
<1>2. CASE Accepted = {}
  BY <1>1, <1>2 DEF Watermark, Accepted, Seqs
<1>3. CASE Accepted # {}
  <2>1. Accepted \subseteq Seqs
    BY DEF Accepted
  <2>2. \E n \in Accepted : \A m \in Accepted : m <= n
    BY <1>3, <2>1, GreatestSequence
  <2>3. Watermark \in Accepted /\ \A m \in Accepted : m <= Watermark
    BY <1>3, <2>2 DEF Watermark
  <2>4. Watermark \in Seqs /\ receipts[Watermark] # NoReceipt
    BY <2>3 DEF Accepted
  <2>5. ASSUME NEW n \in Seqs, n <= Watermark PROVE receipts[n] # NoReceipt
    BY <1>1, <2>4, <2>5 DEF ReceiptsContiguous, Seqs
  <2>6. ASSUME NEW n \in Seqs, receipts[n] # NoReceipt PROVE n <= Watermark
    BY <2>3, <2>6 DEF Accepted
  <2> QED BY <1>1, <2>4, <2>5, <2>6 DEF Seqs
<1> QED BY <1>2, <1>3

-----------------------------------------------------------------------------
(* The initial state.                                                      *)
LEMMA InitInv == Init => IngestInv
<1> SUFFICES ASSUME Init PROVE IngestInv
  OBVIOUS
<1> USE RecordsAssumption DEF Init, LocalState
<1>1. TypeOK
  <2>1. Idle \in [pc : Points, todo : SUBSET Records, blocked : BOOLEAN,
                 rec : Records \union {NoRecord}, row : Records \union {NoRecord},
                 expected : 0..(MaxSeq + 1)]
    BY DEF Idle, Points
  <2>2. NoAnswers \in [Records -> Statuses \union {"NONE"}]
    BY DEF NoAnswers
  <2>3. << >> \in Seq(Records)
    OBVIOUS
  <2> QED BY <2>1, <2>2, <2>3 DEF TypeOK
<1>2. ReceiptsContiguous /\ StagedInPlace
  BY DEF ReceiptsContiguous, StagedInPlace
<1>3. \A q \in Requests : Position(req[q])
  BY DEF Position, Idle
<1> QED BY <1>1, <1>2, <1>3 DEF IngestInv

-----------------------------------------------------------------------------
(* Steps of one request.                                                   *)

(* What the other requests rely on outlives a step that moves only request *)
(* q and takes no receipt back.                                            *)
LEMMA OthersKeepPosition ==
  ASSUME NEW q \in Requests,
         \A p \in Requests : Position(req[p]),
         \A p \in Requests : p # q => req'[p] = req[p],
         \A n \in Seqs : receipts[n] # NoReceipt => receipts'[n] # NoReceipt
  PROVE  \A p \in Requests : p # q => Position(req[p])'
BY RecordsAssumption DEF Position, Before

(* LeaveRecord returns to the next record of the batch.                    *)
LEMMA LeaveRecordStep ==
  ASSUME TypeOK, NEW q \in Requests, NEW r, NEW b \in BOOLEAN, LeaveRecord(q, r, b)
  PROVE  /\ req' \in [Requests -> LocalState]
         /\ req'[q].pc = "next"
         /\ \A p \in Requests : p # q => req'[p] = req[p]
<1>1. req[q] \in LocalState
  BY DEF TypeOK
<1>2. [pc |-> "next", todo |-> req[q].todo \ {r}, blocked |-> req[q].blocked \/ b,
       rec |-> NoRecord, row |-> NoRecord, expected |-> 0] \in LocalState
  BY <1>1, RecordsAssumption DEF LocalState, Points
<1> QED BY <1>2 DEF TypeOK, LeaveRecord

(* An answer is recorded for one record of one request.                    *)
LEMMA AnswerStep ==
  ASSUME TypeOK, NEW q \in Requests, NEW r \in Records, NEW st \in Statuses,
         Answer(q, r, st)
  PROVE  answers' \in [Requests -> [Records -> Statuses \union {"NONE"}]]
BY DEF TypeOK, Answer

(* A step that only settles the current record keeps the invariant.        *)
LEMMA SettleStep ==
  ASSUME IngestInv, NEW q \in Requests, NEW r \in Records,
         NEW st \in Statuses, NEW b \in BOOLEAN,
         Settle(q, r, st, b), UNCHANGED durable
  PROVE  IngestInv'
<1> USE DEF IngestInv
<1>1. /\ req' \in [Requests -> LocalState]
      /\ req'[q].pc = "next"
      /\ \A p \in Requests : p # q => req'[p] = req[p]
  BY LeaveRecordStep DEF Settle
<1>2. answers' \in [Requests -> [Records -> Statuses \union {"NONE"}]]
  BY AnswerStep DEF Settle
<1>3. TypeOK' /\ ReceiptsContiguous' /\ StagedInPlace'
  BY <1>1, <1>2 DEF TypeOK, durable, ReceiptsContiguous, StagedInPlace
<1>4. Position(req[q])'
  BY <1>1 DEF Position
<1>5. \A p \in Requests : p # q => Position(req[p])'
  BY <1>1, OthersKeepPosition DEF durable
<1> QED BY <1>3, <1>4, <1>5

(* What every commit and every staging does to the tables.                 *)
TablesInv ==
  /\ receipts \in [Seqs -> Records \union {NoReceipt, GapFill}]
  /\ staged \in [Seqs -> Records \union {NoRecord}]
  /\ aged \subseteq Seqs
  /\ ledger \in Seq(Records)
  /\ answers \in [Requests -> [Records -> Statuses \union {"NONE"}]]
  /\ ReceiptsContiguous
  /\ StagedInPlace

(* A record is committed at a position all of whose predecessors have      *)
(* receipts, so the stream stays contiguous.                               *)
LEMMA CommitStep ==
  ASSUME IngestInv, NEW q \in Requests, NEW r \in Records, Before(r.seq), Commit(q, r)
  PROVE  /\ TablesInv'
         /\ receipts'[r.seq] = r
         /\ \A n \in Seqs : receipts[n] # NoReceipt => receipts'[n] # NoReceipt
<1> USE RecordsAssumption DEF IngestInv, TypeOK, Commit
<1>1. r.seq \in Seqs /\ r # NoReceipt
  OBVIOUS
<1>2. receipts' \in [Seqs -> Records \union {NoReceipt, GapFill}]
  BY <1>1
<1>3. staged' \in [Seqs -> Records \union {NoRecord}] /\ aged' \subseteq Seqs
  BY <1>1
<1>4. ledger' \in Seq(Records)
  BY <1>1
<1>5. answers' \in [Requests -> [Records -> Statuses \union {"NONE"}]]
  BY AnswerStep DEF Statuses
<1>6. \A n \in Seqs : receipts'[n] = IF n = r.seq THEN r ELSE receipts[n]
  BY <1>1
<1>7. ReceiptsContiguous'
  <2> SUFFICES ASSUME NEW n \in Seqs, NEW m \in Seqs, receipts'[n] # NoReceipt, m < n
               PROVE  receipts'[m] # NoReceipt
    BY DEF ReceiptsContiguous
  <2>1. CASE n = r.seq
    BY <1>1, <1>6, <2>1 DEF Before
  <2>2. CASE n # r.seq
    BY <1>1, <1>6, <2>2 DEF ReceiptsContiguous
  <2> QED BY <2>1, <2>2
<1>8. StagedInPlace'
  BY DEF StagedInPlace
<1> QED BY <1>1, <1>2, <1>3, <1>4, <1>5, <1>6, <1>7, <1>8 DEF TablesInv

(* A record is staged at its own sequence, or not at all.                  *)
LEMMA StageStep ==
  ASSUME IngestInv, NEW q \in Requests, NEW r \in Records, Stage(q, r),
         UNCHANGED <<receipts, ledger>>
  PROVE  TablesInv'
<1> USE RecordsAssumption DEF IngestInv, TypeOK
<1>1. PICK st \in {"STAGED_FUTURE", "IDEMPOTENCY_MISMATCH"} : Answer(q, r, st)
  BY DEF Stage
<1>2. /\ staged' \in [Seqs -> Records \union {NoRecord}]
      /\ aged' \subseteq Seqs
      /\ StagedInPlace'
  <2>1. CASE ConflictingRow(r) = NoRecord
    BY <2>1 DEF Stage, StagedInPlace
  <2>2. CASE ConflictingRow(r) # NoRecord
    BY <2>2 DEF Stage, StagedInPlace
  <2> QED BY <2>1, <2>2
<1>3. answers' \in [Requests -> [Records -> Statuses \union {"NONE"}]]
  BY <1>1, AnswerStep DEF Statuses
<1> QED BY <1>2, <1>3 DEF TablesInv, ReceiptsContiguous

(* The invariant after a step of request q, from its parts: the tables and *)
(* the new local state of the request.                                     *)
LEMMA StepInv ==
  ASSUME IngestInv, NEW q \in Requests, NEW v \in LocalState,
         req' = [req EXCEPT ![q] = v],
         TablesInv',
         \A n \in Seqs : receipts[n] # NoReceipt => receipts'[n] # NoReceipt,
         Position(req[q])'
  PROVE  IngestInv'
<1>1. req' \in [Requests -> LocalState] /\ \A p \in Requests : p # q => req'[p] = req[p]
  BY DEF IngestInv, TypeOK
<1>2. \A p \in Requests : p # q => Position(req[p])'
  BY <1>1, OthersKeepPosition DEF IngestInv
<1> QED BY <1>1, <1>2 DEF IngestInv, TypeOK, TablesInv

(* The tables after a step that leaves them alone.                         *)
LEMMA TablesUnchanged ==
  ASSUME IngestInv, UNCHANGED durable, UNCHANGED answers
  PROVE  TablesInv'
BY DEF IngestInv, TypeOK, TablesInv, durable, ReceiptsContiguous, StagedInPlace

(* A step that only moves request q, to a local state that is in position. *)
LEMMA MoveStep ==
  ASSUME IngestInv, NEW q \in Requests, NEW v \in LocalState, Position(v),
         req' = [req EXCEPT ![q] = v], UNCHANGED durable, UNCHANGED answers
  PROVE  IngestInv'
<1>1. Position(req[q])'
  BY DEF IngestInv, TypeOK, durable, Position, Before
<1> QED BY <1>1, TablesUnchanged, StepInv DEF durable

-----------------------------------------------------------------------------
(* Every action of a request keeps the invariant.                          *)

LEMMA SubmitInv ==
  ASSUME IngestInv, NEW q \in Requests, NEW batch \in Batches, Submit(q, batch)
  PROVE  IngestInv'
<1> DEFINE v == [req[q] EXCEPT !.pc = "next", !.todo = batch]
<1>1. req[q] \in LocalState
  BY DEF IngestInv, TypeOK
<1>2. v \in LocalState /\ v.pc = "next"
  BY <1>1, RecordsAssumption DEF LocalState, Points
<1>3. req' = [req EXCEPT ![q] = v]
  BY DEF Submit
<1> HIDE DEF v
<1>4. Position(v)
  BY <1>2 DEF Position
<1> QED BY <1>2, <1>3, <1>4, MoveStep DEF Submit

LEMMA RejectBoundaryInv ==
  ASSUME IngestInv, NEW q \in Requests, RejectBoundary(q)
  PROVE  IngestInv'
<1>1. PICK r \in req[q].todo : Settle(q, r, "REJECTED", TRUE)
  BY DEF RejectBoundary
<1>2. r \in Records /\ UNCHANGED durable
  BY DEF RejectBoundary, IngestInv, TypeOK, LocalState
<1> QED BY <1>1, <1>2, SettleStep DEF Statuses

LEMMA LookupByKeyInv ==
  ASSUME IngestInv, NEW q \in Requests, LookupByKey(q)
  PROVE  IngestInv'
<1>1. PICK r \in req[q].todo :
        \/ /\ req' = [req EXCEPT ![q].pc = "bySeq", ![q].rec = r]
           /\ UNCHANGED answers
        \/ \E n \in Seqs :
              Settle(q, r, IF receipts[n].body = r.body THEN "DUPLICATE"
                           ELSE "IDEMPOTENCY_MISMATCH", FALSE)
  BY DEF LookupByKey
<1>2. req[q] \in LocalState /\ r \in Records /\ UNCHANGED durable
  BY DEF IngestInv, TypeOK, LocalState, LookupByKey
<1>3. CASE req' = [req EXCEPT ![q].pc = "bySeq", ![q].rec = r] /\ UNCHANGED answers
  <2> DEFINE v == [req[q] EXCEPT !.pc = "bySeq", !.rec = r]
  <2>1. v \in LocalState /\ v.pc = "bySeq" /\ v.rec = r
    BY <1>2 DEF LocalState, Points
  <2>2. req' = [req EXCEPT ![q] = v]
    BY <1>3
  <2> HIDE DEF v
  <2>3. Position(v)
    BY <1>2, <2>1 DEF Position
  <2> QED BY <1>2, <1>3, <2>1, <2>2, <2>3, MoveStep
<1>4. ASSUME NEW n \in Seqs,
             Settle(q, r, IF receipts[n].body = r.body THEN "DUPLICATE"
                          ELSE "IDEMPOTENCY_MISMATCH", FALSE)
      PROVE  IngestInv'
  BY <1>2, <1>4, SettleStep DEF Statuses
<1> QED BY <1>1, <1>3, <1>4

(* A request that only changes its program point, to one that claims no    *)
(* more than the point it leaves.                                          *)
LEMMA GoToInv ==
  ASSUME IngestInv, NEW q \in Requests, NEW point \in Points, GoTo(q, point),
         UNCHANGED durable, UNCHANGED answers,
         Position([req[q] EXCEPT !.pc = point])
  PROVE  IngestInv'
<1> DEFINE v == [req[q] EXCEPT !.pc = point]
<1>1. v \in LocalState
  BY DEF IngestInv, TypeOK, LocalState
<1>2. req' = [req EXCEPT ![q] = v]
  BY DEF GoTo
<1>3. Position(v)
  OBVIOUS
<1> HIDE DEF v
<1> QED BY <1>1, <1>2, <1>3, MoveStep

LEMMA LookupBySequenceInv ==
  ASSUME IngestInv, NEW q \in Requests, LookupBySequence(q)
  PROVE  IngestInv'
<1>1. /\ req[q] \in LocalState
      /\ req[q].pc = "bySeq"
      /\ req[q].rec \in Records
      /\ UNCHANGED durable
  BY DEF IngestInv, TypeOK, Position, LookupBySequence
<1>2. CASE \E st \in Statuses : Settle(q, req[q].rec, st, FALSE)
  BY <1>1, <1>2, SettleStep
<1>3. CASE GoTo(q, "expect") /\ UNCHANGED answers
  <2>1. Position([req[q] EXCEPT !.pc = "expect"])
    BY <1>1 DEF Position, LocalState
  <2> QED BY <1>1, <1>3, <2>1, GoToInv DEF Points
<1>4. \/ \E st \in Statuses : Settle(q, req[q].rec, st, FALSE)
      \/ GoTo(q, "expect") /\ UNCHANGED answers
  BY DEF LookupBySequence, Statuses
<1> QED BY <1>2, <1>3, <1>4

LEMMA ResolveExpectedInv ==
  ASSUME IngestInv, NEW q \in Requests, ResolveExpected(q)
  PROVE  IngestInv'
<1> DEFINE r == req[q].rec
           expected == Watermark + 1
<1>1. /\ req[q] \in LocalState
      /\ req[q].pc = "expect"
      /\ r \in Records
      /\ UNCHANGED durable
  BY DEF IngestInv, TypeOK, Position, ResolveExpected
<1>2. /\ expected \in 1..(MaxSeq + 1)
      /\ Before(expected)
  BY WatermarkProperties, RecordsAssumption DEF IngestInv, Before, Seqs
<1>3. CASE r.seq < expected /\ Settle(q, r, "REJECTED", FALSE)
  BY <1>1, <1>3, SettleStep DEF Statuses
<1>4. CASE r.seq = expected /\ GoTo(q, "apply") /\ UNCHANGED answers
  <2>1. Position([req[q] EXCEPT !.pc = "apply"])
    BY <1>1, <1>2, <1>4 DEF Position, LocalState
  <2> QED BY <1>1, <1>4, <2>1, GoToInv DEF Points
<1>5. CASE /\ req' = [req EXCEPT ![q].pc = "gap", ![q].expected = expected]
           /\ UNCHANGED answers
  <2> DEFINE v == [req[q] EXCEPT !.pc = "gap", !.expected = expected]
  <2>1. v \in LocalState /\ v.pc = "gap" /\ v.expected = expected /\ v.rec = r
    <3>1. expected \in 0..(MaxSeq + 1)
      BY <1>2, RecordsAssumption
    <3> HIDE DEF expected
    <3> QED BY <1>1, <3>1 DEF LocalState, Points
  <2>2. req' = [req EXCEPT ![q] = v]
    BY <1>5
  <2> HIDE DEF v
  <2>3. Position(v)
    BY <1>1, <1>2, <2>1 DEF Position
  <2> QED BY <1>1, <1>5, <2>1, <2>2, <2>3, MoveStep
<1> QED BY <1>3, <1>4, <1>5 DEF ResolveExpected

(* Filling every missing sequence below the incoming record puts receipts  *)
(* on all of its predecessors, and leaves no hole.                         *)
LEMMA DeclareGapInv ==
  ASSUME IngestInv, NEW q \in Requests, DeclareGap(q)
  PROVE  IngestInv'
<1> DEFINE r == req[q].rec
           v == [req[q] EXCEPT !.pc = "apply"]
<1>1. /\ req[q] \in LocalState
      /\ r \in Records
      /\ r.seq \in Seqs
      /\ Before(req[q].expected)
      /\ Missing(req[q].expected, r.seq) # {}
  BY RecordsAssumption DEF IngestInv, TypeOK, Position, DeclareGap
<1>2. receipts' = [n \in Seqs |-> IF n \in Missing(req[q].expected, r.seq)
                                 THEN GapFill ELSE receipts[n]]
  BY DEF DeclareGap
<1>3. \A n \in Seqs : receipts[n] # NoReceipt => receipts'[n] = receipts[n]
  BY <1>2 DEF Missing
<1>4. \A n \in Seqs : n < r.seq => receipts'[n] # NoReceipt
  <2> SUFFICES ASSUME NEW n \in Seqs, n < r.seq PROVE receipts'[n] # NoReceipt
    OBVIOUS
  <2>1. CASE n < req[q].expected
    BY <1>1, <1>3, <2>1 DEF Before, IngestInv, TypeOK
  <2>2. CASE n >= req[q].expected
    BY <1>2, <2>2, RecordsAssumption DEF Missing
  <2>3. n \in Nat /\ req[q].expected \in Nat
    BY <1>1 DEF LocalState, Seqs
  <2> QED BY <2>1, <2>2, <2>3
<1>5. \A n \in Seqs : n >= r.seq => receipts'[n] = receipts[n]
  BY <1>1, <1>2 DEF Missing, Seqs
<1>6. ReceiptsContiguous'
  <2> SUFFICES ASSUME NEW n \in Seqs, NEW m \in Seqs, receipts'[n] # NoReceipt, m < n
               PROVE  receipts'[m] # NoReceipt
    BY DEF ReceiptsContiguous
  <2>1. CASE m < r.seq
    BY <1>4, <2>1
  <2>2. CASE m >= r.seq
    BY <1>1, <1>5, <2>2 DEF ReceiptsContiguous, IngestInv, Seqs
  <2> QED BY <1>1, <2>1, <2>2 DEF Seqs
<1>7. receipts' \in [Seqs -> Records \union {NoReceipt, GapFill}]
  BY <1>2 DEF IngestInv, TypeOK
<1>8. TablesInv'
  BY <1>6, <1>7 DEF DeclareGap, TablesInv, IngestInv, TypeOK, StagedInPlace
<1>9. v \in LocalState /\ v.pc = "apply" /\ v.rec = r
  BY <1>1 DEF LocalState, Points
<1>10. req' = [req EXCEPT ![q] = v]
  BY DEF DeclareGap, GoTo
<1> HIDE DEF v, r
<1>11. req'[q] = v
  BY <1>10 DEF IngestInv, TypeOK
<1>12. Position(req[q])'
  BY <1>1, <1>4, <1>9, <1>11 DEF Position, Before
<1>13. \A n \in Seqs : receipts[n] # NoReceipt => receipts'[n] # NoReceipt
  BY <1>3
<1> QED BY <1>8, <1>9, <1>10, <1>12, <1>13, StepInv

LEMMA KeepWaitingInv ==
  ASSUME IngestInv, NEW q \in Requests, KeepWaiting(q)
  PROVE  IngestInv'
<1>1. req[q] \in LocalState /\ req[q].pc = "gap" /\ req[q].rec \in Records
  BY DEF IngestInv, TypeOK, Position, KeepWaiting
<1>2. Position([req[q] EXCEPT !.pc = "stage"])
  BY <1>1 DEF Position, LocalState
<1> QED BY <1>2, GoToInv DEF KeepWaiting, Points

(* The staging of a record or of a held row ends the current record.       *)
LEMMA StageAndLeaveInv ==
  ASSUME IngestInv, NEW q \in Requests, NEW r \in Records, NEW s \in Records,
         NEW b \in BOOLEAN, Stage(q, r), LeaveRecord(q, s, b),
         UNCHANGED <<receipts, ledger>>
  PROVE  IngestInv'
<1>1. /\ req' \in [Requests -> LocalState]
      /\ req'[q].pc = "next"
      /\ \A p \in Requests : p # q => req'[p] = req[p]
  BY LeaveRecordStep DEF IngestInv
<1>2. TablesInv'
  BY StageStep
<1>3. Position(req[q])'
  BY <1>1 DEF Position
<1>4. \A p \in Requests : p # q => Position(req[p])'
  BY <1>1, OthersKeepPosition DEF IngestInv
<1> QED BY <1>1, <1>2, <1>3, <1>4 DEF IngestInv, TypeOK, TablesInv

LEMMA StageFutureInv ==
  ASSUME IngestInv, NEW q \in Requests, StageFuture(q)
  PROVE  IngestInv'
<1>1. req[q].rec \in Records
  BY DEF IngestInv, Position, StageFuture
<1>2. (req[q].pc = "hold") \in BOOLEAN
  OBVIOUS
<1> QED BY <1>1, <1>2, StageAndLeaveInv DEF StageFuture

LEMMA ApplyInv ==
  ASSUME IngestInv, NEW q \in Requests, Apply(q)
  PROVE  IngestInv'
<1> DEFINE r == req[q].rec
<1>1. /\ req[q] \in LocalState
      /\ req[q].pc = "apply"
      /\ r \in Records
      /\ r.seq \in Seqs
      /\ Before(r.seq)
  BY RecordsAssumption
     DEF IngestInv, TypeOK, Position, Apply, ApplyAccept, ApplyReject, ApplyHold
<1>2. CASE ApplyAccept(q)
  <2> DEFINE v == [req[q] EXCEPT !.pc = "drain", !.expected = r.seq + 1]
  <2>1. /\ TablesInv'
        /\ receipts'[r.seq] = r
        /\ \A n \in Seqs : receipts[n] # NoReceipt => receipts'[n] # NoReceipt
    BY <1>1, <1>2, CommitStep DEF ApplyAccept
  <2>2. r.seq + 1 \in 0..(MaxSeq + 1)
    BY <1>1, RecordsAssumption DEF Seqs
  <2>3. v \in LocalState /\ v.pc = "drain" /\ v.expected = r.seq + 1 /\ v.rec = r
    BY <1>1, <2>2 DEF LocalState, Points
  <2>4. req' = [req EXCEPT ![q] = v]
    BY <1>2 DEF ApplyAccept
  <2>5. \A m \in Seqs : m < r.seq + 1 => receipts'[m] # NoReceipt
    BY <1>1, <2>1, RecordsAssumption DEF Before, Seqs
  <2> HIDE DEF v, r
  <2>6. req'[q] = v
    BY <2>4 DEF IngestInv, TypeOK
  <2>7. Position(req[q])'
    BY <1>1, <2>3, <2>5, <2>6 DEF Position, Before
  <2> QED BY <2>1, <2>3, <2>4, <2>7, StepInv
<1>3. CASE ApplyReject(q)
  BY <1>1, <1>3, SettleStep DEF ApplyReject, Statuses
<1>4. CASE ApplyHold(q)
  <2>1. Position([req[q] EXCEPT !.pc = "hold"])
    BY <1>1 DEF Position, LocalState
  <2> QED BY <1>4, <2>1, GoToInv DEF ApplyHold, Points
<1> QED BY <1>2, <1>3, <1>4 DEF Apply

(* The drain of the rows behind an accepted record: the row it reads sits  *)
(* at the expected sequence, so it may be committed there.                 *)
LEMMA DrainInv ==
  ASSUME IngestInv, NEW q \in Requests, Drain(q)
  PROVE  IngestInv'
<1> DEFINE rec == req[q].rec
           row == req[q].row
           next == req[q].expected
<1>1. /\ req[q] \in LocalState
      /\ req[q].pc \in {"drain", "drainApply", "drainHold", "drainDelete"}
      /\ rec \in Records
      /\ next \in 0..(MaxSeq + 1)
  BY DEF IngestInv, TypeOK, LocalState, Position, Drain, DrainFind, DrainEnd, DrainAccept,
         DrainReject, DrainHold, DrainHoldStage, DrainDelete
<1>2. CASE DrainFind(q)
  <2> DEFINE found == StagedAt(next)
             v == [req[q] EXCEPT !.pc = "drainApply", !.row = found]
  <2>1. /\ next \in Seqs
        /\ found = staged[next]
        /\ found \in Records
        /\ found.seq = next
    BY <1>2 DEF DrainFind, StagedAt, IngestInv, TypeOK, StagedInPlace
  <2>2. req' = [req EXCEPT ![q] = v]
    BY <1>2 DEF DrainFind
  <2> HIDE DEF found
  <2>3. /\ v \in LocalState /\ v.pc = "drainApply" /\ v.row = found
        /\ v.rec = rec /\ v.expected = next
    BY <1>1, <2>1 DEF LocalState, Points
  <2>4. Before(next)
    BY <1>2 DEF DrainFind, IngestInv, Position
  <2> HIDE DEF v
  <2>5. Position(v)
    BY <1>1, <2>1, <2>3, <2>4 DEF Position
  <2> QED BY <1>2, <2>2, <2>3, <2>5, MoveStep DEF DrainFind
<1>3. CASE DrainEnd(q)
  <2>1. /\ req' \in [Requests -> LocalState]
        /\ req'[q].pc = "next"
        /\ \A p \in Requests : p # q => req'[p] = req[p]
    BY <1>3, LeaveRecordStep DEF DrainEnd, IngestInv
  <2>2. Position(req[q])'
    BY <2>1 DEF Position
  <2>3. \A p \in Requests : p # q => Position(req[p])'
    BY <1>3, <2>1, OthersKeepPosition DEF IngestInv, DrainEnd, durable
  <2>4. TablesInv'
    BY <1>3, TablesUnchanged DEF DrainEnd
  <2> QED BY <2>1, <2>2, <2>3, <2>4 DEF IngestInv, TypeOK, TablesInv
<1>4. CASE DrainAccept(q)
  <2> DEFINE v == [req[q] EXCEPT !.pc = "drainDelete"]
  <2>1. row \in Records /\ row.seq = next /\ Before(next)
    BY <1>4 DEF DrainAccept, IngestInv, Position
  <2>2. /\ TablesInv'
        /\ receipts'[next] # NoReceipt
        /\ \A n \in Seqs : receipts[n] # NoReceipt => receipts'[n] # NoReceipt
    BY <1>4, <2>1, CommitStep, RecordsAssumption DEF DrainAccept
  <2>3. /\ v \in LocalState /\ v.pc = "drainDelete" /\ v.row = row
        /\ v.rec = rec /\ v.expected = next
    BY <1>1 DEF LocalState, Points
  <2>4. req' = [req EXCEPT ![q] = v]
    BY <1>4 DEF DrainAccept, GoTo
  <2> HIDE DEF v
  <2>5. req'[q] = v
    BY <2>4 DEF IngestInv, TypeOK
  <2> HIDE DEF rec, row, next
  <2>6. Position(req[q])'
    BY <1>1, <2>1, <2>2, <2>3, <2>5 DEF Position, Before
  <2> QED BY <2>2, <2>3, <2>4, <2>6, StepInv
<1>5. CASE DrainReject(q)
  <2>1. row \in Records
    BY <1>5 DEF DrainReject, IngestInv, Position
  <2>2. /\ req' \in [Requests -> LocalState]
        /\ req'[q].pc = "next"
        /\ \A p \in Requests : p # q => req'[p] = req[p]
    BY <1>5, LeaveRecordStep DEF DrainReject, IngestInv
  <2>3. answers' \in [Requests -> [Records -> Statuses \union {"NONE"}]]
    BY <1>5, <2>1, AnswerStep DEF DrainReject, IngestInv, Statuses
  <2>4. Position(req[q])'
    BY <2>2 DEF Position
  <2>5. \A p \in Requests : p # q => Position(req[p])'
    BY <1>5, <2>2, OthersKeepPosition DEF IngestInv, DrainReject, durable
  <2>6. TypeOK' /\ ReceiptsContiguous' /\ StagedInPlace'
    BY <1>5, <2>2, <2>3
       DEF DrainReject, IngestInv, TypeOK, durable, ReceiptsContiguous, StagedInPlace
  <2> QED BY <2>4, <2>5, <2>6 DEF IngestInv
<1>6. CASE DrainHold(q)
  <2>1. row \in Records
    BY <1>6 DEF DrainHold, IngestInv, Position
  <2>2. Position([req[q] EXCEPT !.pc = "drainHold"])
    BY <1>1, <2>1 DEF Position, LocalState
  <2> QED BY <1>6, <2>2, GoToInv DEF DrainHold, Points
<1>7. CASE DrainHoldStage(q)
  <2>1. row \in Records
    BY <1>7 DEF DrainHoldStage, IngestInv, Position
  <2> QED BY <1>1, <1>7, <2>1, StageAndLeaveInv DEF DrainHoldStage
<1>8. CASE DrainDelete(q)
  <2> DEFINE v == [req[q] EXCEPT !.pc = "drain", !.row = NoRecord, !.expected = next + 1]
  <2>1. /\ row \in Records
        /\ row.seq = next
        /\ next \in Seqs
        /\ Before(next)
        /\ receipts[next] # NoReceipt
    BY <1>8, RecordsAssumption DEF DrainDelete, IngestInv, Position
  <2>2. next + 1 \in 0..(MaxSeq + 1)
    BY <2>1, RecordsAssumption DEF Seqs
  <2>3. v \in LocalState /\ v.pc = "drain" /\ v.rec = rec /\ v.expected = next + 1
    BY <1>1, <2>2 DEF LocalState, Points
  <2>4. req' = [req EXCEPT ![q] = v]
    BY <1>8 DEF DrainDelete
  <2>5. Before(next + 1)
    BY <2>1, RecordsAssumption DEF Before, Seqs
  <2> HIDE DEF v
  <2>6. req'[q] = v /\ UNCHANGED receipts
    BY <1>8, <2>4 DEF DrainDelete, IngestInv, TypeOK
  <2>7. Position(req[q])'
    BY <1>1, <2>3, <2>5, <2>6 DEF Position, Before
  <2>8. TablesInv'
    BY <1>8, <2>1 DEF DrainDelete, TablesInv, IngestInv, TypeOK, StagedInPlace,
                      ReceiptsContiguous
  <2> QED BY <2>3, <2>4, <2>6, <2>7, <2>8, StepInv
<1> QED BY <1>2, <1>3, <1>4, <1>5, <1>6, <1>7, <1>8 DEF Drain

LEMMA EndInv ==
  ASSUME IngestInv, NEW q \in Requests, Respond(q) \/ Abort(q)
  PROVE  IngestInv'
<1>1. /\ req' = [req EXCEPT ![q] = Idle]
      /\ answers' = [answers EXCEPT ![q] = NoAnswers]
      /\ UNCHANGED durable
  BY DEF Respond, Abort
<1>2. Idle \in LocalState /\ Idle.pc = "idle"
  BY RecordsAssumption DEF Idle, LocalState, Points
<1>3. NoAnswers \in [Records -> Statuses \union {"NONE"}]
  BY DEF NoAnswers
<1>4. req'[q].pc = "idle"
  BY <1>1, <1>2 DEF IngestInv, TypeOK
<1>5. Position(req[q])'
  BY <1>4 DEF Position
<1>6. TablesInv'
  BY <1>1, <1>3 DEF durable, TablesInv, IngestInv, TypeOK, ReceiptsContiguous, StagedInPlace
<1> QED BY <1>1, <1>2, <1>5, <1>6, StepInv DEF durable

(* The invariant is inductive.                                             *)
LEMMA NextInv == IngestInv /\ [Next]_vars => IngestInv'
<1> SUFFICES ASSUME IngestInv, [Next]_vars PROVE IngestInv'
  OBVIOUS
<1>1. ASSUME NEW q \in Requests, Serve(q) PROVE IngestInv'
  BY <1>1, RejectBoundaryInv, LookupByKeyInv, LookupBySequenceInv, ResolveExpectedInv, DeclareGapInv,
     KeepWaitingInv, StageFutureInv, ApplyInv, DrainInv DEF Serve
<1>2. ASSUME NEW q \in Requests, NEW batch \in Batches, Submit(q, batch) PROVE IngestInv'
  BY <1>2, SubmitInv
<1>3. ASSUME NEW q \in Requests, Respond(q) \/ Abort(q) PROVE IngestInv'
  BY <1>3, EndInv
<1>4. ASSUME NEW n \in Seqs, GraceElapses(n) PROVE IngestInv'
  BY <1>4 DEF GraceElapses, IngestInv, TypeOK, ReceiptsContiguous, StagedInPlace,
              Position, Before
<1>5. CASE UNCHANGED vars
  BY <1>5 DEF vars, IngestInv, TypeOK, ReceiptsContiguous, StagedInPlace, Position, Before
<1> QED BY <1>1, <1>2, <1>3, <1>4, <1>5 DEF Next

-----------------------------------------------------------------------------
(* The invariant holds throughout every behaviour of the ingest.           *)
THEOREM IngestInvariant == Spec => []IngestInv
BY InitInv, NextInv, PTL DEF Spec

(* The tables and the handlers' local variables keep their shape.          *)
THEOREM TypeCorrect == Spec => []TypeOK
<1>1. IngestInv => TypeOK
  BY DEF IngestInv
<1> QED BY <1>1, IngestInvariant, PTL

(* No interleaving of applies, stagings, drains and gap declarations       *)
(* leaves a hole in the accepted receipts of a stream.                     *)
THEOREM StreamHasNoHole == Spec => []ReceiptsContiguous
<1>1. IngestInv => ReceiptsContiguous
  BY DEF IngestInv
<1> QED BY <1>1, IngestInvariant, PTL

-----------------------------------------------------------------------------
(* Only two steps touch the receipts and the ledger: a commit, and the     *)
(* declaration of a gap.                                                   *)
LEMMA LedgerSteps ==
  ASSUME IngestInv, [Next]_vars
  PROVE  \/ \E q \in Requests, r \in Records : Before(r.seq) /\ Commit(q, r)
         \/ \E q \in Requests : DeclareGap(q)
         \/ UNCHANGED <<receipts, ledger>>
<1>1. ASSUME NEW q \in Requests, ApplyAccept(q)
      PROVE  \E r \in Records : Before(r.seq) /\ Commit(q, r)
  BY <1>1 DEF ApplyAccept, IngestInv, Position
<1>2. ASSUME NEW q \in Requests, DrainAccept(q)
      PROVE  \E r \in Records : Before(r.seq) /\ Commit(q, r)
  BY <1>2 DEF DrainAccept, IngestInv, Position
<1>3. ASSUME NEW q \in Requests, Serve(q), ~ApplyAccept(q), ~DrainAccept(q), ~DeclareGap(q)
      PROVE  UNCHANGED <<receipts, ledger>>
  BY <1>3 DEF Serve, Apply, Drain, RejectBoundary, LookupByKey, LookupBySequence, ResolveExpected,
              KeepWaiting, StageFuture, ApplyReject, ApplyHold, DrainFind, DrainEnd,
              DrainReject, DrainHold, DrainHoldStage, DrainDelete, durable
<1>4. ASSUME NEW q \in Requests,
             (\E batch \in Batches : Submit(q, batch)) \/ Respond(q) \/ Abort(q)
      PROVE  UNCHANGED <<receipts, ledger>>
  BY <1>4 DEF Submit, Respond, Abort, durable
<1>5. ASSUME NEW n \in Seqs, GraceElapses(n) PROVE UNCHANGED <<receipts, ledger>>
  BY <1>5 DEF GraceElapses
<1>6. CASE UNCHANGED vars
  BY <1>6 DEF vars
<1> QED BY <1>1, <1>2, <1>3, <1>4, <1>5, <1>6 DEF Next

(* A commit lands behind everything the ledger already holds.              *)
LEMMA ExactlyOnceStep ==
  ASSUME IngestInv, ExactlyOnceInOrder, [Next]_vars
  PROVE  ExactlyOnceInOrder'
<1> USE RecordsAssumption DEF IngestInv, TypeOK
<1>1. ASSUME NEW q \in Requests, NEW r \in Records, Before(r.seq), Commit(q, r)
      PROVE  ExactlyOnceInOrder'
  <2>1. /\ r.seq \in Seqs
        /\ receipts[r.seq] = NoReceipt
        /\ receipts' = [receipts EXCEPT ![r.seq] = r]
        /\ ledger' = Append(ledger, r)
    BY <1>1 DEF Commit, CanAccept
  <2>2. /\ Len(ledger) \in Nat
        /\ DOMAIN ledger = 1..Len(ledger)
        /\ DOMAIN ledger' = 1..(Len(ledger) + 1)
        /\ \A i \in DOMAIN ledger : ledger'[i] = ledger[i]
        /\ ledger'[Len(ledger) + 1] = r
    BY <2>1
  <2>3. \A i \in DOMAIN ledger : ledger[i] \in Records /\ receipts[ledger[i].seq] = ledger[i]
    BY DEF ExactlyOnceInOrder
  <2>4. \A i \in DOMAIN ledger : ledger[i].seq < r.seq
    <3> SUFFICES ASSUME NEW i \in DOMAIN ledger PROVE ledger[i].seq < r.seq
      OBVIOUS
    <3>1. ledger[i].seq \in Seqs /\ receipts[ledger[i].seq] # NoReceipt
      BY <2>3
    <3>2. ledger[i].seq # r.seq /\ ~ (r.seq < ledger[i].seq)
      BY <2>1, <3>1 DEF ReceiptsContiguous
    <3> QED BY <2>1, <3>1, <3>2 DEF Seqs
  <2>5. ASSUME NEW i \in DOMAIN ledger', NEW j \in DOMAIN ledger', i < j
        PROVE  ledger'[i].seq < ledger'[j].seq
    <3>1. i \in DOMAIN ledger /\ ledger'[i] = ledger[i]
      BY <2>2, <2>5
    <3>2. CASE j \in DOMAIN ledger
      <4>1. ledger'[j] = ledger[j] /\ ledger[i].seq < ledger[j].seq
        BY <2>2, <2>5, <3>1, <3>2 DEF ExactlyOnceInOrder
      <4> QED BY <3>1, <4>1
    <3>3. CASE j = Len(ledger) + 1
      BY <2>2, <2>4, <3>1, <3>3
    <3> QED BY <2>2, <3>2, <3>3
  <2>6. \A i \in DOMAIN ledger' : receipts'[ledger'[i].seq] = ledger'[i]
    <3> SUFFICES ASSUME NEW i \in DOMAIN ledger'
                 PROVE  receipts'[ledger'[i].seq] = ledger'[i]
      OBVIOUS
    <3>1. CASE i \in DOMAIN ledger
      BY <2>1, <2>2, <2>3, <2>4, <3>1
    <3>2. CASE i = Len(ledger) + 1
      BY <2>1, <2>2, <3>2
    <3> QED BY <2>2, <3>1, <3>2
  <2>7. ASSUME NEW n \in Seqs, receipts'[n] \in Records
        PROVE  \E i \in DOMAIN ledger' : ledger'[i] = receipts'[n]
    <3>1. CASE n = r.seq
      <4>1. receipts'[n] = r /\ Len(ledger) + 1 \in DOMAIN ledger'
        BY <2>1, <2>2, <3>1
      <4> QED BY <2>2, <4>1
    <3>2. CASE n # r.seq
      <4>1. receipts'[n] = receipts[n]
        BY <2>1, <3>2
      <4>2. PICK i \in DOMAIN ledger : ledger[i] = receipts[n]
        BY <2>7, <4>1 DEF ExactlyOnceInOrder
      <4> QED BY <2>2, <4>1, <4>2
    <3> QED BY <3>1, <3>2
  <2> QED BY <2>5, <2>6, <2>7 DEF ExactlyOnceInOrder
<1>2. ASSUME NEW q \in Requests, DeclareGap(q)
      PROVE  ExactlyOnceInOrder'
  <2>1. /\ UNCHANGED ledger
        /\ \A n \in Seqs : receipts[n] # NoReceipt => receipts'[n] = receipts[n]
        /\ \A n \in Seqs : receipts'[n] \in Records => receipts'[n] = receipts[n]
    BY <1>2 DEF DeclareGap, Missing
  <2>2. \A i \in DOMAIN ledger : ledger[i].seq \in Seqs /\ ledger[i] # NoReceipt
    OBVIOUS
  <2> QED BY <2>1, <2>2 DEF ExactlyOnceInOrder
<1>3. CASE UNCHANGED <<receipts, ledger>>
  BY <1>3 DEF ExactlyOnceInOrder
<1> QED BY <1>1, <1>2, <1>3, LedgerSteps

(* Every accepted document is in the ledger once, at the receipt of its    *)
(* own sequence, and the ledger follows the order of the sequences.        *)
THEOREM AppliedExactlyOnceInOrder == Spec => []ExactlyOnceInOrder
<1>1. Init => ExactlyOnceInOrder
  BY RecordsAssumption DEF Init, ExactlyOnceInOrder
<1>2. IngestInv /\ ExactlyOnceInOrder /\ [Next]_vars => ExactlyOnceInOrder'
  BY ExactlyOnceStep
<1> QED BY <1>1, <1>2, IngestInvariant, PTL DEF Spec

-----------------------------------------------------------------------------
(* The ingest implements the abstract stream of SaleStream: seen through   *)
(* the receipts up to the watermark, every step appends one document at    *)
(* its own position, gives up the positions below an incoming one, or      *)
(* changes nothing.                                                        *)
streamLog == [n \in 1..Watermark |-> receipts[n]]

(* What the invariant says of the watermark, before and after a step.      *)
WatermarkIsBoundary ==
  /\ Watermark \in 0..MaxSeq
  /\ \A n \in Seqs : receipts[n] # NoReceipt <=> n <= Watermark

LEMMA WatermarkInv == IngestInv => WatermarkIsBoundary
BY WatermarkProperties DEF IngestInv, WatermarkIsBoundary

LEMMA NextWatermark == IngestInv /\ [Next]_vars => WatermarkIsBoundary'
<1>1. IngestInv' => WatermarkIsBoundary'
  BY WatermarkInv, PTL
<1> QED BY <1>1, NextInv

(* A commit appends the record at the position it was issued for.          *)
LEMMA CommitRefines ==
  ASSUME IngestInv, [Next]_vars, NEW q \in Requests, NEW r \in Records,
         Before(r.seq), Commit(q, r)
  PROVE  Stream!Accept(r)
<1> USE RecordsAssumption DEF IngestInv, TypeOK
<1>1. /\ r.seq \in Seqs
      /\ receipts[r.seq] = NoReceipt
      /\ ~KeyTaken(r)
      /\ receipts' = [receipts EXCEPT ![r.seq] = r]
  BY DEF Commit, CanAccept
<1>2. /\ Watermark \in 0..MaxSeq
      /\ \A n \in Seqs : receipts[n] # NoReceipt <=> n <= Watermark
  BY WatermarkInv DEF WatermarkIsBoundary
<1>3. /\ Watermark' \in 0..MaxSeq
      /\ \A n \in Seqs : receipts'[n] # NoReceipt <=> n <= Watermark'
  BY NextWatermark DEF WatermarkIsBoundary
<1>4. Watermark = r.seq - 1
  <2>1. ~ (r.seq <= Watermark)
    BY <1>1, <1>2
  <2>2. r.seq - 1 = 0 \/ r.seq - 1 \in Seqs
    BY <1>1 DEF Seqs
  <2>3. r.seq - 1 \in Seqs => r.seq - 1 <= Watermark
    BY <1>1, <1>2 DEF Before, Seqs
  <2> QED BY <1>1, <1>2, <2>1, <2>2, <2>3 DEF Seqs
<1>5. Watermark' = r.seq
  <2>1. r.seq <= Watermark'
    BY <1>1, <1>3
  <2>2. Watermark' \in Seqs
    BY <1>1, <1>3, <2>1 DEF Seqs
  <2>3. receipts'[Watermark'] # NoReceipt
    BY <1>3, <2>2
  <2>4. CASE Watermark' # r.seq
    <3>1. receipts[Watermark'] # NoReceipt
      BY <1>1, <2>2, <2>3, <2>4
    <3> QED BY <1>1, <1>2, <1>4, <2>1, <2>2, <2>4, <3>1 DEF Seqs
  <2> QED BY <2>4
<1> DEFINE old == [n \in 1..Watermark |-> receipts[n]]
           new == [n \in 1..Watermark' |-> receipts'[n]]
<1>6. old \in Seq(Records \union {NoReceipt, GapFill}) /\ Len(old) = Watermark
  BY <1>2 DEF Seqs
<1>7. new = Append(old, r)
  BY <1>1, <1>2, <1>4, <1>5, <1>6 DEF Seqs
<1>8. \A n \in DOMAIN old : old[n] # GapFill => old[n].key # r.key
  <2> SUFFICES ASSUME NEW n \in 1..Watermark, receipts[n] # GapFill
               PROVE  receipts[n].key # r.key
    OBVIOUS
  <2>1. n \in Seqs /\ receipts[n] # NoReceipt
    BY <1>2 DEF Seqs
  <2> QED BY <1>1, <2>1 DEF KeyTaken
<1>9. r.seq = Len(old) + 1
  BY <1>1, <1>4, <1>6 DEF Seqs
<1> QED BY <1>7, <1>8, <1>9 DEF Stream!Accept

(* A gap declaration gives up the positions between the log's end and the  *)
(* incoming record.                                                        *)
LEMMA DeclareGapRefines ==
  ASSUME IngestInv, [Next]_vars, NEW q \in Requests, DeclareGap(q)
  PROVE  \E upTo \in 1..MaxSeq : Stream!DeclareLost(upTo)
<1> DEFINE r == req[q].rec
           first == req[q].expected
           old == [n \in 1..Watermark |-> receipts[n]]
           new == [n \in 1..Watermark' |-> receipts'[n]]
<1> USE RecordsAssumption DEF IngestInv, TypeOK
<1>1. /\ r.seq \in Seqs
      /\ first \in 0..(MaxSeq + 1)
      /\ Before(first)
      /\ receipts' = [n \in Seqs |-> IF n \in Missing(first, r.seq)
                                     THEN GapFill ELSE receipts[n]]
  BY DEF DeclareGap, Position, LocalState
<1>2. PICK gap \in Seqs : gap < r.seq /\ receipts[gap] = NoReceipt
  BY DEF DeclareGap, Missing
<1>3. /\ Watermark \in 0..MaxSeq
      /\ \A n \in Seqs : receipts[n] # NoReceipt <=> n <= Watermark
  BY WatermarkInv DEF WatermarkIsBoundary
<1>4. /\ Watermark' \in 0..MaxSeq
      /\ \A n \in Seqs : receipts'[n] # NoReceipt <=> n <= Watermark'
  BY NextWatermark DEF WatermarkIsBoundary
<1>5. Watermark < gap
  BY <1>2, <1>3 DEF Seqs
<1>6. receipts'[r.seq] = NoReceipt
  BY <1>1, <1>2, <1>3, <1>5 DEF Missing, Seqs
<1>7. \A n \in Seqs : n < r.seq => receipts'[n] # NoReceipt
  <2> SUFFICES ASSUME NEW n \in Seqs, n < r.seq PROVE receipts'[n] # NoReceipt
    OBVIOUS
  <2>1. CASE n < first
    BY <1>1, <2>1 DEF Before, Missing
  <2>2. CASE n >= first
    BY <1>1, <2>2 DEF Missing
  <2> QED BY <1>1, <2>1, <2>2 DEF Seqs
<1>8. Watermark' = r.seq - 1
  <2>1. Watermark' < r.seq
    BY <1>1, <1>4, <1>6 DEF Seqs
  <2>2. r.seq - 1 \in Seqs
    BY <1>1, <1>2 DEF Seqs
  <2>3. r.seq - 1 <= Watermark'
    BY <1>1, <1>4, <1>7, <2>2 DEF Seqs
  <2> QED BY <1>1, <1>4, <2>1, <2>3 DEF Seqs
<1>9. Watermark' \in 1..MaxSeq /\ Watermark' > Watermark
  BY <1>1, <1>2, <1>3, <1>5, <1>8 DEF Seqs
<1>10. Len(old) = Watermark
  BY <1>3 DEF Seqs
<1>11. \A n \in Seqs : receipts'[n] = IF n <= Watermark THEN receipts[n]
                                      ELSE IF n < r.seq THEN GapFill ELSE receipts[n]
  <2> SUFFICES ASSUME NEW n \in Seqs
               PROVE  receipts'[n] = IF n <= Watermark THEN receipts[n]
                                     ELSE IF n < r.seq THEN GapFill ELSE receipts[n]
    OBVIOUS
  <2>1. CASE receipts[n] # NoReceipt
    BY <1>1, <1>3, <2>1 DEF Missing
  <2>2. CASE receipts[n] = NoReceipt
    BY <1>1, <1>3, <2>2 DEF Missing, Before, Seqs
  <2> QED BY <2>1, <2>2
<1>12. new = [n \in 1..Watermark' |-> IF n <= Len(old) THEN old[n] ELSE GapFill]
  <2> SUFFICES ASSUME NEW n \in 1..Watermark'
               PROVE  receipts'[n] = IF n <= Watermark THEN receipts[n] ELSE GapFill
    BY <1>3, <1>10
  <2> QED BY <1>1, <1>8, <1>9, <1>11 DEF Seqs
<1> QED BY <1>9, <1>10, <1>12 DEF Stream!DeclareLost

(* Every behaviour of the ingest is a behaviour of the abstract stream.    *)
THEOREM IngestImplementsStream == Spec => RefinesSaleStream
<1>1. Init => Stream!Init
  <2> SUFFICES ASSUME Init PROVE [n \in 1..Watermark |-> receipts[n]] = << >>
    BY DEF Stream!Init
  <2>1. Watermark = 0
    BY DEF Init, Watermark, Accepted
  <2> QED BY <2>1
<1>2. IngestInv /\ [Next]_vars => [Stream!Next]_streamLog
  <2> SUFFICES ASSUME IngestInv, [Next]_vars PROVE Stream!Next \/ UNCHANGED streamLog
    OBVIOUS
  <2>1. ASSUME NEW q \in Requests, NEW r \in Records, Before(r.seq), Commit(q, r)
        PROVE  Stream!Next
    BY <2>1, CommitRefines DEF Stream!Next
  <2>2. ASSUME NEW q \in Requests, DeclareGap(q)
        PROVE  Stream!Next
    BY <2>2, DeclareGapRefines DEF Stream!Next
  <2>3. CASE UNCHANGED <<receipts, ledger>>
    BY <2>3 DEF streamLog, Watermark, Accepted
  <2> QED BY <2>1, <2>2, <2>3, LedgerSteps
<1> QED BY <1>1, <1>2, IngestInvariant, PTL DEF Spec, RefinesSaleStream, Stream!Spec, streamLog

(* What a receipt says is final: no retry, no drain and no gap declaration *)
(* replaces a document by a mark or by another document, fills a position  *)
(* declared lost after all, or empties one.                                *)
THEOREM ReceiptsAreFinal ==
  Spec => [][\A n \in Seqs : receipts[n] # NoReceipt => receipts'[n] = receipts[n]]_vars
<1>1. IngestInv /\ [Next]_vars =>
        [\A n \in Seqs : receipts[n] # NoReceipt => receipts'[n] = receipts[n]]_vars
  <2> SUFFICES ASSUME IngestInv, [Next]_vars, NEW n \in Seqs, receipts[n] # NoReceipt
               PROVE  receipts'[n] = receipts[n]
    OBVIOUS
  <2>1. ASSUME NEW q \in Requests, NEW r \in Records, Commit(q, r)
        PROVE  receipts'[n] = receipts[n]
    BY <2>1 DEF Commit, CanAccept, IngestInv, TypeOK
  <2>2. ASSUME NEW q \in Requests, DeclareGap(q)
        PROVE  receipts'[n] = receipts[n]
    BY <2>2 DEF DeclareGap, Missing
  <2> QED BY <2>1, <2>2, LedgerSteps
<1> QED BY <1>1, IngestInvariant, PTL DEF Spec
=============================================================================
