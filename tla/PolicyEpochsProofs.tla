------------------------- MODULE PolicyEpochsProofs -------------------------
(***************************************************************************)
(* What holds of staff-policy epochs for any policies, builds, requests    *)
(* and bounds.  EpochInv is the inductive invariant: types, publication,   *)
(* the backend's ledger of acknowledgements, the terminal against it, and  *)
(* what is true as long as the backend lost no data.                       *)
(***************************************************************************)
EXTENDS PolicyEpochs, SequenceTheorems, TLAPS

Snapshots == [policy : Policies, decision : {"disabled", "eligible"}]

Below(c, d) == Len(c) <= Len(d) /\ c = Prefix(d, Len(c))

GrantedIn(c, set) == \A n \in 1..Len(c) : Prefix(c, n) \in set

TypeInv ==
  /\ TypeOK
  /\ snapshots \in Seq(Snapshots)
  /\ Genesis \notin epochs
  /\ pull.answer.status = "deliver" => pull.answer.epoch # Genesis

PublicationInv ==
  /\ CleanIsPublished
  /\ publisher.on => publisher.staff = staff

LedgerInv ==
  /\ ReceiptPerEpoch
  /\ GrantedIn(floor, granted)
  /\ \A r \in Requests :
       /\ acks[r].step = "accepting" =>
            /\ Len(acks[r].claim) = Len(acks[r].floor) + 1
            /\ Previous(acks[r].claim) = acks[r].floor
       /\ acks[r].step = "accepted" => GrantedIn(acks[r].claim, granted)
  /\ GrantedIn(term.active, granted)

TerminalInv ==
  /\ FloorIsHeld
  /\ term.phase = "active" => term.candidate = Genesis
  /\ term.phase \in {"pending", "submitting"} => term.candidate # Genesis
  /\ term.candidate # Genesis => Previous(term.candidate) = term.active
  /\ pull.ack # "none" => pull.step \in {"reconciling", "acknowledging"}
  /\ pull.step = "received" => term.phase = "pending"
  /\ \A r \in Requests :
       acks[r].step # "none" =>
         \/ Below(acks[r].claim, term.active)
         \/ acks[r].claim = term.candidate /\ term.phase \in {"submitting", "loss"}

LosslessInv ==
  restores = 0 =>
    /\ term.phase # "loss"
    /\ \A e, f \in epochs : Len(e) = Len(f) => e = f
    /\ term.candidate # Genesis => term.candidate \in epochs
    /\ pull.answer.status = "deliver" => pull.answer.epoch \in epochs
    /\ pull.answer.status # "recovery"
    /\ Below(term.active, floor)
    /\ term.floor = Len(term.active)
    /\ pull.floor <= Len(floor)
    /\ \A r \in Requests :
         /\ acks[r].step = "accepted" => Below(acks[r].claim, floor)
         /\ pull.ack = r =>
              /\ acks[r].claim = term.candidate
              /\ term.phase = "submitting"
              /\ acks[r].step # "rejected"

EpochInv ==
  TypeInv /\ PublicationInv /\ LedgerInv /\ TerminalInv /\ LosslessInv

-----------------------------------------------------------------------------
(* Chains and their prefixes.                                              *)

LEMMA ChainIsSeq ==
  /\ \A c \in Chains : c \in Seq(Entries) /\ Len(c) \in 0..MaxSequence
  /\ \A c \in Seq(Entries) : Len(c) <= MaxSequence => c \in Chains
  /\ Genesis \in Chains /\ Len(Genesis) = 0
<1>1. ASSUME NEW c \in Chains
      PROVE  c \in Seq(Entries) /\ Len(c) \in 0..MaxSequence
  <2>1. PICK n \in 0..MaxSequence : c \in [1..n -> Entries]
    BY DEF Chains
  <2>2. c \in Seq(Entries) /\ Len(c) = n
    BY <2>1, IsASeq, EpochAssumption
  <2> QED BY <2>2
<1>2. ASSUME NEW c \in Seq(Entries), Len(c) <= MaxSequence
      PROVE  c \in Chains
  <2>1. c \in [1..Len(c) -> Entries] /\ Len(c) \in Nat
    BY LenProperties
  <2>2. Len(c) \in 0..MaxSequence
    BY <1>2, <2>1, EpochAssumption
  <2> QED BY <2>1, <2>2 DEF Chains
<1>3. Genesis \in Seq(Entries) /\ Len(Genesis) = 0
  BY DEF Genesis
<1>4. Genesis \in Chains
  <2>1. Len(Genesis) <= MaxSequence
    BY <1>3, EpochAssumption
  <2> QED BY <1>2, <1>3, <2>1
<1> QED BY <1>1, <1>2, <1>3, <1>4

(* A prefix is a chain of its length with the same entries; prefixes of a  *)
(* prefix are prefixes.                                                    *)
LEMMA PrefixIsChain ==
  ASSUME NEW c \in Chains, NEW n \in 0..Len(c)
  PROVE  /\ Prefix(c, n) \in Chains
         /\ Len(Prefix(c, n)) = n
         /\ Prefix(c, Len(c)) = c
         /\ Prefix(c, 0) = Genesis
         /\ \A m \in 0..n : Prefix(Prefix(c, n), m) = Prefix(c, m)
<1>1. c \in Seq(Entries) /\ Len(c) \in 0..MaxSequence
  BY ChainIsSeq
<1>2. ASSUME NEW k \in 0..Len(c)
      PROVE  /\ Prefix(c, k) \in Seq(Entries)
             /\ Len(Prefix(c, k)) = k
             /\ \A i \in 1..k : Prefix(c, k)[i] = c[i]
  <2>1. k \in 0..MaxSequence /\ 1 \in 1..Len(c)+1 /\ k \in 0..Len(c)
    BY <1>1, EpochAssumption
  <2>2. CASE k = 0
    BY <1>1, <2>2, SubSeqEmpty, EmptySeq DEF Prefix
  <2>3. CASE k # 0
    <3>1. k \in 1..Len(c)
      BY <2>1, <2>3
    <3>2. /\ SubSeq(c, 1, k) \in Seq(Entries)
          /\ Len(SubSeq(c, 1, k)) = IF 1 <= k THEN k - 1 + 1 ELSE 0
          /\ \A i \in 1..k-1+1 : SubSeq(c, 1, k)[i] = c[1 + i - 1]
      BY <1>1, <3>1, SubSeqProperties
    <3> QED BY <3>1, <3>2 DEF Prefix
  <2> QED BY <2>2, <2>3
<1>3. Prefix(c, n) \in Chains
  <2>1. Prefix(c, n) \in Seq(Entries) /\ Len(Prefix(c, n)) = n /\ n <= MaxSequence
    BY <1>1, <1>2, EpochAssumption
  <2> QED BY <2>1, ChainIsSeq
<1>4. Prefix(c, Len(c)) = c
  BY <1>1, SubSeqFull DEF Prefix
<1>5. Prefix(c, 0) = Genesis
  BY <1>1, SubSeqEmpty DEF Prefix, Genesis
<1>6. ASSUME NEW m \in 0..n
      PROVE  Prefix(Prefix(c, n), m) = Prefix(c, m)
  <2>1. m \in 0..Len(c)
    BY <1>1
  <2>2. CASE m = 0
    BY <1>2, <2>2, SubSeqEmpty DEF Prefix
  <2>3. CASE m # 0
    <3>1. SubSeq(SubSeq(c, 1, n), 1, m) = SubSeq(c, 1, m)
      BY <1>1, <2>3, SubSeqOfSubSeq
    <3> QED BY <3>1 DEF Prefix
  <2> QED BY <2>2, <2>3
<1> QED BY <1>2, <1>3, <1>4, <1>5, <1>6

(* An epoch and the one before it.                                         *)
LEMMA SuccessorOfChain ==
  ASSUME NEW c \in Chains, NEW d \in Chains, d # Genesis, Previous(d) = c
  PROVE  /\ Len(d) = Len(c) + 1
         /\ \A n \in 0..Len(c) : Prefix(d, n) = Prefix(c, n)
         /\ Below(c, d)
<1>1. Len(c) \in 0..MaxSequence /\ Len(d) \in 0..MaxSequence /\ d \in Seq(Entries)
  BY ChainIsSeq
<1>2. Len(d) # 0
  BY <1>1, EmptySeq DEF Genesis
<1>3. Len(d) - 1 \in 0..Len(d)
  BY <1>1, <1>2, EpochAssumption
<1>4. Len(c) = Len(d) - 1 /\ c = Prefix(d, Len(d) - 1)
  BY <1>3, PrefixIsChain DEF Previous
<1>5. \A n \in 0..Len(c) : Prefix(d, n) = Prefix(c, n)
  BY <1>3, <1>4, PrefixIsChain
<1> QED BY <1>1, <1>4, <1>5, EpochAssumption DEF Below

LEMMA AppendIsChain ==
  ASSUME NEW c \in Chains, NEW e \in Entries, Len(c) + 1 <= MaxSequence
  PROVE  /\ Append(c, e) \in Chains
         /\ Len(Append(c, e)) = Len(c) + 1
         /\ Append(c, e) # Genesis
<1>1. c \in Seq(Entries) /\ Len(c) \in Nat
  BY ChainIsSeq, EpochAssumption
<1>2. Append(c, e) \in Seq(Entries) /\ Len(Append(c, e)) = Len(c) + 1
  BY <1>1, AppendProperties
<1>3. Append(c, e) \in Chains
  BY <1>2, ChainIsSeq
<1>4. Append(c, e) # Genesis
  <2>1. Len(Append(c, e)) # 0 /\ Len(Genesis) = 0
    BY <1>1, <1>2, ChainIsSeq
  <2> QED BY <2>1
<1> QED BY <1>2, <1>3, <1>4

LEMMA BelowIsTransitive ==
  ASSUME NEW b \in Chains, NEW c \in Chains, NEW d \in Chains, Below(b, c), Below(c, d)
  PROVE  Below(b, d)
<1>1. Len(b) \in 0..Len(c) /\ Len(c) \in 0..Len(d) /\ Len(d) \in Nat
  BY ChainIsSeq, EpochAssumption DEF Below
<1>2. Prefix(Prefix(d, Len(c)), Len(b)) = Prefix(d, Len(b))
  BY <1>1, PrefixIsChain
<1> QED BY <1>1, <1>2 DEF Below

LEMMA BelowItself ==
  ASSUME NEW c \in Chains
  PROVE  Below(c, c) /\ Below(Genesis, c)
<1>1. Len(c) \in 0..Len(c) /\ 0 \in 0..Len(c) /\ Len(c) \in Nat
  BY ChainIsSeq, EpochAssumption
<1> QED BY <1>1, PrefixIsChain, ChainIsSeq DEF Below

LEMMA PrefixIsBelow ==
  ASSUME NEW c \in Chains, NEW n \in 0..Len(c)
  PROVE  Below(Prefix(c, n), c)
<1>1. Len(c) \in Nat
  BY ChainIsSeq, EpochAssumption
<1> QED BY <1>1, PrefixIsChain DEF Below

-----------------------------------------------------------------------------
(* Types.                                                                  *)

LEMMA TypesInitially == Init => TypeInv
<1> SUFFICES ASSUME Init PROVE TypeInv
  OBVIOUS
<1>1. Genesis \in Chains /\ Len(Genesis) = 0
  BY ChainIsSeq
<1>2. /\ snapshots \in Seq(Snapshots) /\ Len(snapshots) = 0
      /\ receipts = <<>> /\ DOMAIN receipts = {}
  BY DEF Init
<1>3. acks \in [Requests -> [step : {"none", "arrived", "new", "accepting", "accepted",
                                    "rejected", "failed"},
                            claim : Chains, floor : Chains]]
  BY <1>1 DEF Init, NoAck
<1>4. /\ term \in [phase : {"active", "pending", "submitting", "loss"}, active : Chains,
                   candidate : Chains, floor : 0..MaxSequence, deferred : BOOLEAN]
      /\ pull \in [step : {"idle", "asked", "checked", "reconcile", "reconciling", "consume",
                           "received", "acknowledging"},
                   floor : 0..MaxSequence,
                   answer : [status : {"none", "deliver", "disabled", "upgrade", "recovery"},
                             epoch : Chains],
                   ack : Requests \cup {"none"}]
      /\ pull.answer.status = "none"
  BY <1>1, EpochAssumption DEF Init, NoPull, NoAnswer
<1>5. /\ staff \in Policies \cup {NoPins} /\ dirty \in BOOLEAN
      /\ publisher \in [on : BOOLEAN, staff : Policies \cup {NoPins}]
      /\ cohort \subseteq Builds /\ build \in Builds
      /\ epochs = {} /\ floor = Genesis /\ granted = {}
      /\ crashes \in Nat /\ restores \in Nat
  BY DEF Init, NoPublication
<1>6. Len(snapshots) <= MaxSequence
  BY <1>2, EpochAssumption
<1> QED
  BY <1>1, <1>2, <1>3, <1>4, <1>5, <1>6 DEF TypeInv, TypeOK

(* A restored backup cuts the ledger, the epochs and the snapshots short.  *)
LEMMA RestoreRewinds ==
  ASSUME Restore
  PROVE  \E n \in 0..Len(floor), kept \in 0..1, m \in 0..Len(snapshots) :
           /\ floor' = Prefix(floor, n)
           /\ receipts' = SubSeq(receipts, 1, n)
           /\ epochs' = {e \in epochs : Len(e) <= n + kept}
           /\ snapshots' = SubSeq(snapshots, 1, m)
BY DEF Restore

AckRecords ==
  [step : {"none", "arrived", "new", "accepting", "accepted", "rejected", "failed"},
   claim : Chains, floor : Chains]

Pulls ==
  [step : {"idle", "asked", "checked", "reconcile", "reconciling", "consume", "received",
           "acknowledging"},
   floor : 0..MaxSequence,
   answer : [status : {"none", "deliver", "disabled", "upgrade", "recovery"}, epoch : Chains],
   ack : Requests \cup {"none"}]

(* The records the steps write.                                            *)
LEMMA RecordTypes ==
  ASSUME TypeInv
  PROVE  /\ acks \in [Requests -> AckRecords] /\ NoAck \in AckRecords
         /\ NoPull \in Pulls /\ NoPull.answer.status = "none" /\ AfterAck \in Pulls
         /\ AfterAck.answer = pull.answer
         /\ \A status \in {"none", "deliver", "disabled", "upgrade", "recovery"}, e \in Chains :
              Answered(status, e) \in Pulls /\ Answered(status, e).answer = [status |-> status, epoch |-> e]
<1>0. Genesis \in Chains /\ 0 \in 0..MaxSequence
  BY ChainIsSeq, EpochAssumption
<1>1. acks \in [Requests -> AckRecords] /\ pull \in Pulls
  BY DEF TypeInv, TypeOK, AckRecords, Pulls
<1>2. NoAck \in AckRecords
  BY <1>0 DEF NoAck, AckRecords
<1>3. NoPull \in Pulls /\ NoPull.answer.status = "none"
  BY <1>0 DEF NoPull, NoAnswer, Pulls
<1>4. AfterAck \in Pulls /\ AfterAck.answer = pull.answer
  BY <1>1 DEF AfterAck, Pulls
<1>5. ASSUME NEW status \in {"none", "deliver", "disabled", "upgrade", "recovery"}, NEW e \in Chains
      PROVE  /\ Answered(status, e) \in Pulls
             /\ Answered(status, e).answer = [status |-> status, epoch |-> e]
  BY <1>1 DEF Answered, Pulls
<1> QED BY <1>1, <1>2, <1>3, <1>4, <1>5

(* A step of acknowledgements, of the terminal or of the pull.             *)
LEMMA TerminalStepTypes ==
  ASSUME TypeInv, UNCHANGED <<backend, build, bounds, granted>>,
         acks' \in [Requests -> AckRecords], pull' \in Pulls,
         pull'.answer.status = "deliver" => pull'.answer.epoch # Genesis,
         term' \in [phase : {"active", "pending", "submitting", "loss"}, active : Chains,
                    candidate : Chains, floor : 0..MaxSequence, deferred : BOOLEAN]
  PROVE  TypeInv'
BY DEF TypeInv, TypeOK, AckRecords, Pulls, backend, bounds

LEMMA TypesPreserved ==
  ASSUME EpochInv, [Next]_vars
  PROVE  TypeInv'
<1>y. TypeInv
  BY DEF EpochInv
<1>r. /\ acks \in [Requests -> AckRecords] /\ pull \in Pulls
      /\ pull.answer.status = "deliver" => pull.answer.epoch # Genesis
      /\ term \in [phase : {"active", "pending", "submitting", "loss"}, active : Chains,
                   candidate : Chains, floor : 0..MaxSequence, deferred : BOOLEAN]
  BY <1>y DEF TypeInv, TypeOK, AckRecords, Pulls
<1>6. CASE CheckFloor
  <2>1. pull' \in Pulls /\ (pull'.answer.status = "deliver" => pull'.answer.epoch # Genesis)
    <3>1. CASE pull' = Answered("recovery", Genesis)
      <4>1. Genesis \in Chains
        BY ChainIsSeq, EpochAssumption
      <4>2. /\ Answered("recovery", Genesis) \in Pulls
            /\ Answered("recovery", Genesis).answer = [status |-> "recovery", epoch |-> Genesis]
        BY <1>y, <4>1, RecordTypes
      <4> QED BY <3>1, <4>2
    <3>2. CASE pull' = [pull EXCEPT !.step = "checked"]
      BY <1>r, <3>2 DEF Pulls
    <3> QED BY <1>6, <3>1, <3>2 DEF CheckFloor
  <2> QED BY <1>6, <1>y, <1>r, <2>1, TerminalStepTypes DEF CheckFloor
<1>9. ASSUME NEW r \in Requests, AckLookup(r) \/ AckDecide(r) \/ AckForgotten(r)
      PROVE  TypeInv'
  <2>1. floor \in Chains
    BY <1>y DEF TypeInv, TypeOK
  <2>2. acks' \in [Requests -> AckRecords]
    <3>1. CASE AckLookup(r)
      BY <1>r, <3>1 DEF AckLookup, AckRecords
    <3>2. CASE AckDecide(r)
      <4>1. Verdict(acks[r].claim) \in {"accepting", "accepted", "rejected", "failed"}
        BY DEF Verdict
      <4>2. acks' = [acks EXCEPT ![r].step = Verdict(acks[r].claim), ![r].floor = floor]
        BY <3>2 DEF AckDecide
      <4> QED BY <1>r, <2>1, <4>1, <4>2 DEF AckRecords
    <3>3. CASE AckForgotten(r)
      BY <1>r, <1>y, <3>3, RecordTypes DEF AckForgotten
    <3> QED BY <1>9, <3>1, <3>2, <3>3
  <2> QED BY <1>9, <1>y, <1>r, <2>2, TerminalStepTypes DEF AckLookup, AckDecide, AckForgotten
<1>13. ASSUME NEW r \in Requests, ReconcilePosts(r) \/ Submit(r)
       PROVE  TypeInv'
  <2>1. term' \in [phase : {"active", "pending", "submitting", "loss"}, active : Chains,
                  candidate : Chains, floor : 0..MaxSequence, deferred : BOOLEAN]
    <3>1. term' = [term EXCEPT !.phase = "submitting", !.deferred = FALSE]
      BY <1>13 DEF ReconcilePosts, Submit, Submitted
    <3> QED BY <1>r, <3>1
  <2>2. acks' \in [Requests -> AckRecords]
    <3>1. acks' = [acks EXCEPT ![r] = [NoAck EXCEPT !.step = "arrived",
                                                     !.claim = term.candidate]]
      BY <1>13 DEF ReconcilePosts, Submit, Post
    <3>2. [NoAck EXCEPT !.step = "arrived", !.claim = term.candidate] \in AckRecords
      BY <1>r, <1>y, RecordTypes DEF AckRecords
    <3> QED BY <1>r, <3>1, <3>2
  <2>3. pull' \in Pulls /\ pull'.answer = pull.answer
    <3>1. \E step \in {"reconciling", "acknowledging"} :
            pull' = [pull EXCEPT !.step = step, !.ack = r]
      BY <1>13 DEF ReconcilePosts, Submit
    <3> QED BY <1>r, <3>1 DEF Pulls
  <2> QED BY <1>13, <1>y, <1>r, <2>1, <2>2, <2>3, TerminalStepTypes DEF ReconcilePosts, Submit
<1>14. ASSUME NEW r \in Requests, AckAnswered(r)
       PROVE  TypeInv'
  <2>1. /\ Len(term.candidate) \in 0..MaxSequence /\ Genesis \in Chains
        /\ term' \in {Quarantined, Confirmed, term}
    BY <1>14, <1>r, ChainIsSeq, EpochAssumption DEF AckAnswered
  <2>2. term' \in [phase : {"active", "pending", "submitting", "loss"}, active : Chains,
                  candidate : Chains, floor : 0..MaxSequence, deferred : BOOLEAN]
    <3>1. CASE term' = Quarantined
      BY <1>r, <3>1 DEF Quarantined
    <3>2. CASE term' = Confirmed
      BY <1>r, <2>1, <3>2 DEF Confirmed
    <3> QED BY <1>r, <2>1, <3>1, <3>2
  <2>3. acks' \in [Requests -> AckRecords] /\ pull' = AfterAck
    BY <1>14, <1>r, <1>y, RecordTypes DEF AckAnswered
  <2> QED BY <1>14, <1>y, <1>r, <2>2, <2>3, RecordTypes, TerminalStepTypes DEF AckAnswered
<1>15. ASSUME NEW r \in Requests, AckUnanswered(r)
       PROVE  TypeInv'
  <2>1. /\ acks' \in [Requests -> AckRecords] /\ pull' = AfterAck /\ term' = term
        /\ UNCHANGED <<backend, build, bounds, granted>>
    BY <1>15, <1>r, <1>y, RecordTypes DEF AckUnanswered, TimedOut
  <2> QED BY <1>y, <1>r, <2>1, RecordTypes, TerminalStepTypes
<1> USE DEF EpochInv, TypeInv, TypeOK, backend, bounds
<1>0. Genesis \in Chains /\ Len(Genesis) \in 0..MaxSequence
  BY ChainIsSeq, EpochAssumption
<1>1. CASE ChangeStaff
  BY <1>1 DEF ChangeStaff
<1>2. CASE StartPublication
  BY <1>2 DEF StartPublication
<1>3. CASE FinishPublication
  <2>1. /\ snapshots' \in Seq(Snapshots) /\ Len(snapshots') <= MaxSequence
        /\ dirty' \in BOOLEAN
    <3>1. CASE publisher.staff = NoPins \/ snapshots' = snapshots
      BY <1>3, <3>1 DEF FinishPublication
    <3>2. CASE publisher.staff # NoPins /\ snapshots' # snapshots
      <4>1. /\ dirty' = FALSE /\ Len(snapshots) < MaxSequence
            /\ snapshots' = Append(snapshots, NewSnapshot)
        BY <1>3, <3>2 DEF FinishPublication
      <4>2. NewSnapshot \in Snapshots
        BY <3>2 DEF NewSnapshot, Snapshots, Decision
      <4>3. Len(snapshots) \in Nat /\ Len(snapshots') = Len(snapshots) + 1
            /\ snapshots' \in Seq(Snapshots)
        BY <4>1, <4>2, AppendProperties, LenProperties
      <4>4. Len(snapshots') <= MaxSequence
        <5>1. Len(snapshots) < MaxSequence
          BY <4>1
        <5> QED BY <4>3, <5>1, EpochAssumption
      <4>5. dirty' \in BOOLEAN
        BY <4>1
      <4> QED BY <4>3, <4>4, <4>5
    <3> QED BY <3>1, <3>2
  <2>2. publisher' \in [on : BOOLEAN, staff : Policies \cup {NoPins}]
    BY <1>3 DEF FinishPublication, NoPublication
  <2> QED BY <1>3, <2>1, <2>2 DEF FinishPublication
<1>4. CASE ChangeCohort
  BY <1>4 DEF ChangeCohort
<1>5. CASE StartPull
  BY <1>0, <1>5 DEF StartPull, NoPull, NoAnswer
<1>7. CASE Materialize
  <2>0. Len(floor) \in Nat /\ Len(snapshots) \in Nat
    BY ChainIsSeq, LenProperties, EpochAssumption
  <2>1. CASE Len(snapshots) < Next1 \/ build \notin cohort
    <3>1. epochs' = epochs /\ \E status \in {"none", "disabled"} : pull' = Answered(status, Genesis)
      BY <1>7, <2>1 DEF Materialize
    <3>2. /\ pull' \in [step : {"idle", "asked", "checked", "reconcile", "reconciling", "consume",
                          "received", "acknowledging"},
                  floor : 0..MaxSequence,
                  answer : [status : {"none", "deliver", "disabled", "upgrade", "recovery"},
                            epoch : Chains],
                  ack : Requests \cup {"none"}]
          /\ pull'.answer.status = "deliver" => pull'.answer.epoch # Genesis
      <4>1. PICK status \in {"none", "disabled"} : pull' = Answered(status, Genesis)
        BY <3>1
      <4> QED BY <1>0, <4>1 DEF Answered
    <3> QED BY <1>7, <3>1, <3>2 DEF Materialize
  <2>2. CASE ~(Len(snapshots) < Next1) /\ build \in cohort
    <3> DEFINE row == IF Stored = {} THEN Projected ELSE CHOOSE e \in Stored : TRUE
    <3>1. Next1 \in 1..Len(snapshots) /\ Next1 <= MaxSequence
      BY <2>0, <2>2, EpochAssumption DEF Next1
    <3>2. snapshots[Next1].policy \in Policies
      <4>1. snapshots[Next1] \in Snapshots
        BY <3>1, ElementOfSeq
      <4> QED BY <4>1 DEF Snapshots
    <3>3. Projected \in Chains /\ Projected # Genesis
      BY <3>1, <3>2, AppendIsChain DEF Projected, Next1, Entries
    <3>4. row \in Chains /\ row # Genesis
      BY <3>3 DEF Stored
    <3>5. /\ epochs' = epochs \cup {row}
          /\ pull' = IF Last(row).build = build THEN Answered("deliver", row)
                     ELSE Answered("upgrade", Genesis)
      BY <1>7, <2>2 DEF Materialize
    <3> HIDE DEF row
    <3>6. epochs' \subseteq Chains /\ Genesis \notin epochs'
      BY <3>4, <3>5
    <3>7. /\ pull' \in [step : {"idle", "asked", "checked", "reconcile", "reconciling",
                                "consume", "received", "acknowledging"},
                        floor : 0..MaxSequence,
                        answer : [status : {"none", "deliver", "disabled", "upgrade",
                                            "recovery"},
                                  epoch : Chains],
                        ack : Requests \cup {"none"}]
          /\ pull'.answer.status = "deliver" => pull'.answer.epoch # Genesis
      BY <1>0, <3>4, <3>5 DEF Answered
    <3> QED BY <1>7, <3>6, <3>7 DEF Materialize
  <2> QED BY <2>1, <2>2
<1>8. CASE PullFails
  BY <1>0, <1>8, EpochAssumption DEF PullFails, NoPull, NoAnswer
<1>10. ASSUME NEW r \in Requests, AckCommit(r)
       PROVE  TypeInv'
  <2>1. CASE Commits(acks[r])
    <3>1. /\ floor' = acks[r].claim /\ granted' = granted \cup {acks[r].claim}
          /\ receipts' = Append(receipts, acks[r].claim)
          /\ acks' = [acks EXCEPT ![r].step = "accepted"]
      BY <1>10, <2>1 DEF AckCommit
    <3>2. acks[r].claim \in Chains
      OBVIOUS
    <3>3. receipts \in Seq(Chains)
      <4>1. Len(floor) \in Nat /\ DOMAIN receipts = 1..Len(floor)
        BY ChainIsSeq, EpochAssumption DEF LedgerInv, ReceiptPerEpoch
      <4>2. receipts \in [1..Len(floor) -> Chains]
        BY <4>1 DEF LedgerInv, ReceiptPerEpoch
      <4> QED BY <4>1, <4>2, IsASeq
    <3>4. receipts' \in Seq(Chains)
      BY <3>1, <3>2, <3>3, AppendProperties
    <3>5. \A i \in DOMAIN receipts' : receipts'[i] \in Chains
      BY <3>4, ElementOfSeq, LenProperties
    <3>6. acks' \in [Requests -> AckRecords]
      BY <1>r, <3>1 DEF AckRecords
    <3> QED BY <1>10, <3>1, <3>2, <3>5, <3>6 DEF AckCommit, AckRecords
  <2>2. CASE ~Commits(acks[r])
    <3>1. acks' \in [Requests -> AckRecords]
      BY <1>10, <1>r, <2>2 DEF AckCommit, AckRecords
    <3> QED BY <1>10, <2>2, <3>1 DEF AckCommit, AckRecords
  <2> QED BY <2>1, <2>2
<1>11. CASE ReconcileNothing \/ ConsumeStatus \/ ConsumeNothing
  BY <1>0, <1>11, EpochAssumption
     DEF ReconcileNothing, ConsumeStatus, ConsumeNothing, NoPull, NoAnswer
<1>12. CASE ReconcileDefers \/ SubmitDefers \/ ConsumeRecovery \/ ConsumeConflict
  <2> USE DEF ReconcileDefers, SubmitDefers, ConsumeRecovery, ConsumeConflict
  <2>1. term' = Deferred \/ term' = Quarantined
    BY <1>12
  <2>2. term' \in [phase : {"active", "pending", "submitting", "loss"}, active : Chains,
                  candidate : Chains, floor : 0..MaxSequence, deferred : BOOLEAN]
    BY <2>1 DEF Deferred, Quarantined
  <2>3. /\ pull' \in [step : {"idle", "asked", "checked", "reconcile", "reconciling", "consume",
                          "received", "acknowledging"},
                  floor : 0..MaxSequence,
                  answer : [status : {"none", "deliver", "disabled", "upgrade", "recovery"},
                            epoch : Chains],
                  ack : Requests \cup {"none"}]
        /\ pull'.answer.status = "deliver" => pull'.answer.epoch # Genesis
    BY <1>0, <1>12, EpochAssumption DEF NoPull, NoAnswer
  <2> QED BY <1>12, <2>2, <2>3
<1>16. CASE Receive
  BY <1>0, <1>16 DEF Receive
<1>17. CASE Crash
  BY <1>0, <1>17, EpochAssumption DEF Crash, NoPull, NoAnswer
<1>18. CASE Restore
  <2>1. PICK n \in 0..Len(floor), kept \in 0..1, m \in 0..Len(snapshots) :
          /\ floor' = Prefix(floor, n)
          /\ receipts' = SubSeq(receipts, 1, n)
          /\ epochs' = {e \in epochs : Len(e) <= n + kept}
          /\ snapshots' = SubSeq(snapshots, 1, m)
    BY <1>18, RestoreRewinds
  <2>2. floor' \in Chains
    BY <2>1, PrefixIsChain
  <2>3. snapshots' \in Seq(Snapshots) /\ Len(snapshots') <= MaxSequence
    <3>1. Len(snapshots) \in Nat /\ \A i \in 1..m : snapshots[i] \in Snapshots
      BY LenProperties, ElementOfSeq
    <3>2. /\ SubSeq(snapshots, 1, m) \in Seq(Snapshots)
          /\ Len(SubSeq(snapshots, 1, m)) = IF 1 <= m THEN m - 1 + 1 ELSE 0
      BY <3>1, SubSeqProperties
    <3> QED BY <2>1, <3>1, <3>2, EpochAssumption
  <2>4. \A i \in DOMAIN receipts' : receipts'[i] \in Chains
    <3>1. Len(floor) \in Nat /\ DOMAIN receipts = 1..Len(floor)
      BY ChainIsSeq, EpochAssumption DEF LedgerInv, ReceiptPerEpoch
    <3>2. \A i \in 1..n : receipts[i] \in Chains
      BY <3>1
    <3>3. SubSeq(receipts, 1, n) \in Seq(Chains)
      BY <3>1, <3>2, SubSeqProperties
    <3> QED BY <2>1, <3>3, ElementOfSeq, LenProperties
  <2>5. acks' \in [Requests -> [step : {"none", "arrived", "new", "accepting", "accepted",
                                       "rejected", "failed"},
                               claim : Chains, floor : Chains]]
    BY <1>0, <1>18 DEF Restore, NoAck
  <2> QED BY <1>18, <2>1, <2>2, <2>3, <2>4, <2>5 DEF Restore, NoPublication
<1>19. CASE UNCHANGED vars
  BY <1>19 DEF vars
<1> QED
  BY <1>1, <1>2, <1>3, <1>4, <1>5, <1>6, <1>7, <1>8, <1>9, <1>10, <1>11, <1>12, <1>13,
     <1>14, <1>15, <1>16, <1>17, <1>18, <1>19 DEF Next, Ack, Reconcile, Consume

-----------------------------------------------------------------------------
(* Publication.                                                            *)

LEMMA PublicationPreserved ==
  ASSUME EpochInv, [Next]_vars
  PROVE  PublicationInv'
<1> USE DEF EpochInv, PublicationInv, CleanIsPublished
<1>1. CASE ChangeStaff
  BY <1>1 DEF ChangeStaff
<1>2. CASE StartPublication
  BY <1>2 DEF StartPublication
<1>3. CASE FinishPublication
  <2>1. CASE publisher.staff = NoPins
    BY <1>3, <2>1 DEF FinishPublication, NoPublication
  <2>2. CASE publisher.staff # NoPins
    <3>1. snapshots' # <<>> /\ Last(snapshots') = NewSnapshot
      <4>1. CASE snapshots # <<>> /\ Last(snapshots) = NewSnapshot
        BY <1>3, <2>2, <4>1 DEF FinishPublication
      <4>2. CASE ~(snapshots # <<>> /\ Last(snapshots) = NewSnapshot)
        <5>1. snapshots' = Append(snapshots, NewSnapshot)
          BY <1>3, <2>2, <4>2 DEF FinishPublication
        <5>2. NewSnapshot \in Snapshots /\ snapshots \in Seq(Snapshots)
          BY <2>2 DEF NewSnapshot, Snapshots, Decision, TypeInv, TypeOK
        <5>3. /\ Len(snapshots') = Len(snapshots) + 1 /\ Len(snapshots) \in Nat
              /\ snapshots'[Len(snapshots) + 1] = NewSnapshot
          BY <5>1, <5>2, AppendProperties, LenProperties
        <5>4. snapshots' # <<>>
          BY <5>1, <5>2, AppendProperties
        <5> QED BY <5>3, <5>4 DEF Last
      <4> QED BY <4>1, <4>2
    <3>2. publisher.staff = staff /\ staff' = staff /\ publisher' = NoPublication
      BY <1>3 DEF FinishPublication
    <3>3. NewSnapshot.policy = staff
      BY <3>2 DEF NewSnapshot
    <3> QED BY <3>1, <3>2, <3>3 DEF NoPublication
  <2> QED BY <2>1, <2>2
<1>4. CASE Restore
  BY <1>4 DEF Restore, NoPublication
<1>5. CASE UNCHANGED <<staff, dirty, publisher, snapshots>>
  BY <1>5 DEF Last
<1>6. ASSUME NEW r \in Requests, \/ Ack(r) \/ AckForgotten(r) \/ AckAnswered(r)
                               \/ AckUnanswered(r) \/ Submit(r) \/ ReconcilePosts(r)
      PROVE  PublicationInv'
  BY <1>5, <1>6 DEF Ack, AckLookup, AckDecide, AckCommit, AckForgotten, AckAnswered,
                    AckUnanswered, Submit, ReconcilePosts, backend
<1>7. CASE \/ ChangeCohort \/ StartPull \/ CheckFloor \/ Materialize \/ PullFails
           \/ ReconcileNothing \/ ReconcileDefers \/ Consume \/ Crash \/ UNCHANGED vars
  BY <1>5, <1>7 DEF ChangeCohort, StartPull, CheckFloor, Materialize, PullFails,
                    ReconcileNothing, ReconcileDefers, Consume, ConsumeRecovery, ConsumeStatus,
                    ConsumeNothing, ConsumeConflict, Receive, SubmitDefers, Crash, vars, backend
<1> QED
  BY <1>1, <1>2, <1>3, <1>4, <1>6, <1>7 DEF Next, Reconcile

-----------------------------------------------------------------------------
(* The ledger of acknowledgements.                                         *)

(* A chain is granted when its predecessor was and it is now.              *)
LEMMA GrantedGrows ==
  ASSUME NEW g, NEW h, g \subseteq h, NEW c \in Chains, GrantedIn(c, g)
  PROVE  /\ GrantedIn(c, h)
         /\ \A n \in 0..Len(c) : GrantedIn(Prefix(c, n), h)
         /\ \A d \in Chains : d # Genesis /\ Previous(d) = c /\ d \in h => GrantedIn(d, h)
<1>1. GrantedIn(c, h)
  BY DEF GrantedIn
<1>2. ASSUME NEW n \in 0..Len(c)
      PROVE  GrantedIn(Prefix(c, n), h)
  <2>1. Len(Prefix(c, n)) = n /\ \A m \in 0..n : Prefix(Prefix(c, n), m) = Prefix(c, m)
    BY PrefixIsChain
  <2>2. Len(c) \in Nat /\ \A m \in 1..n : m \in 0..n /\ m \in 1..Len(c)
    BY ChainIsSeq, EpochAssumption
  <2> QED BY <2>1, <2>2 DEF GrantedIn
<1>3. ASSUME NEW d \in Chains, d # Genesis, Previous(d) = c, d \in h
      PROVE  GrantedIn(d, h)
  <2>1. /\ Len(d) = Len(c) + 1 /\ Len(c) \in Nat
        /\ \A n \in 0..Len(c) : Prefix(d, n) = Prefix(c, n)
    BY <1>3, SuccessorOfChain, ChainIsSeq, EpochAssumption
  <2>2. ASSUME NEW n \in 1..Len(d)
        PROVE  Prefix(d, n) \in h
    <3>1. CASE n = Len(d)
      BY <1>3, <2>1, <3>1, PrefixIsChain
    <3>2. CASE n # Len(d)
      <4>1. n \in 1..Len(c) /\ n \in 0..Len(c)
        BY <2>1, <3>2
      <4> QED BY <2>1, <4>1 DEF GrantedIn
    <3> QED BY <3>1, <3>2
  <2> QED BY <2>2 DEF GrantedIn
<1> QED BY <1>1, <1>2, <1>3

LEMMA CommitKeepsLedger ==
  ASSUME EpochInv, TypeInv', NEW r \in Requests, AckCommit(r)
  PROVE  LedgerInv'
<1> USE DEF EpochInv
<1> DEFINE claim == acks[r].claim
<1>0. /\ acks[r].step = "accepting" /\ r \in DOMAIN acks /\ claim \in Chains /\ floor \in Chains
      /\ term' = term /\ term.active \in Chains
      /\ \A p \in Requests : acks[p].claim \in Chains
  BY DEF AckCommit, TypeInv, TypeOK
<1>1. CASE Commits(acks[r])
  <2>1. /\ receipts' = Append(receipts, claim) /\ floor' = claim /\ floor = acks[r].floor
        /\ granted' = granted \cup {claim}
        /\ acks' = [acks EXCEPT ![r].step = "accepted"]
    BY <1>1 DEF AckCommit, Commits
  <2>2. Len(claim) = Len(floor) + 1 /\ Previous(claim) = floor
    BY <1>0, <2>1 DEF LedgerInv
  <2>3. Len(floor) \in Nat /\ claim # Genesis
    BY <1>0, <2>2, ChainIsSeq, EpochAssumption
  <2>4. \A n \in 0..Len(floor) : Prefix(claim, n) = Prefix(floor, n)
    BY <1>0, <2>2, <2>3, SuccessorOfChain
  <2>5. ReceiptPerEpoch'
    <3>1. receipts \in [1..Len(floor) -> Chains]
      <4>1. \A i \in 1..Len(floor) : Prefix(floor, i) \in Chains
        BY <1>0, <2>3, PrefixIsChain
      <4> QED BY <4>1 DEF LedgerInv, ReceiptPerEpoch
    <3>2. receipts \in Seq(Chains) /\ Len(receipts) = Len(floor)
      BY <2>3, <3>1, IsASeq
    <3>3. /\ receipts' \in Seq(Chains) /\ Len(receipts') = Len(floor) + 1
          /\ \A i \in 1..Len(floor) : receipts'[i] = receipts[i]
          /\ receipts'[Len(floor) + 1] = claim
      BY <1>0, <2>1, <3>2, AppendProperties
    <3>4. receipts' = [i \in 1..Len(receipts') |-> receipts'[i]]
      BY <3>3, LenProperties
    <3>5. ASSUME NEW i \in 1..Len(claim)
          PROVE  receipts'[i] = Prefix(claim, i)
      <4>1. CASE i = Len(claim)
        BY <1>0, <2>2, <3>3, <4>1, PrefixIsChain
      <4>2. CASE i # Len(claim)
        <5>1. i \in 1..Len(floor) /\ i \in 0..Len(floor)
          BY <2>2, <2>3, <4>2
        <5>2. receipts[i] = Prefix(floor, i)
          BY <5>1 DEF LedgerInv, ReceiptPerEpoch
        <5> QED BY <2>4, <3>3, <5>1, <5>2
      <4> QED BY <4>1, <4>2
    <3> QED BY <2>1, <2>2, <3>3, <3>4, <3>5 DEF ReceiptPerEpoch
  <2>6. granted \subseteq granted' /\ claim \in granted'
    BY <2>1
  <2>7. GrantedIn(claim, granted')
    BY <1>0, <2>2, <2>3, <2>6, GrantedGrows DEF LedgerInv
  <2>8. \A c \in Chains : GrantedIn(c, granted) => GrantedIn(c, granted')
    BY <2>6, GrantedGrows
  <2>9. ASSUME NEW p \in Requests
        PROVE  /\ acks'[p].step = "accepting" =>
                      /\ Len(acks'[p].claim) = Len(acks'[p].floor) + 1
                      /\ Previous(acks'[p].claim) = acks'[p].floor
               /\ acks'[p].step = "accepted" => GrantedIn(acks'[p].claim, granted')
    <3>1. CASE p = r
      <4>1. acks'[p].step = "accepted" /\ acks'[p].claim = claim
        BY <1>0, <2>1, <3>1 DEF TypeInv, TypeOK
      <4> QED BY <2>7, <4>1
    <3>2. CASE p # r
      <4>1. acks'[p] = acks[p]
        BY <2>1, <3>2 DEF TypeInv, TypeOK
      <4> QED BY <1>0, <2>8, <4>1 DEF LedgerInv
    <3> QED BY <3>1, <3>2
  <2>10. GrantedIn(floor', granted') /\ GrantedIn(term'.active, granted')
    BY <1>0, <2>1, <2>7, <2>8 DEF LedgerInv
  <2> HIDE DEF claim
  <2> QED BY <2>5, <2>9, <2>10 DEF LedgerInv
<1>2. CASE ~Commits(acks[r])
  <2>1. /\ acks' = [acks EXCEPT ![r].step = "failed"]
        /\ UNCHANGED <<receipts, floor, granted>>
    BY <1>2 DEF AckCommit
  <2>2. \A p \in Requests : p # r => acks'[p] = acks[p]
    BY <2>1 DEF TypeInv, TypeOK
  <2>3. acks'[r].step = "failed"
    BY <2>1 DEF TypeInv, TypeOK
  <2> QED BY <1>0, <2>1, <2>2, <2>3 DEF LedgerInv, ReceiptPerEpoch
<1> QED BY <1>1, <1>2

(* Steps that leave the ledger and the active epoch alone.                 *)
LEMMA QuietForLedger ==
  ASSUME \/ ChangeStaff \/ StartPublication \/ FinishPublication \/ ChangeCohort
         \/ StartPull \/ CheckFloor \/ Materialize \/ PullFails
         \/ ReconcileNothing \/ ConsumeStatus \/ ConsumeNothing \/ Crash \/ UNCHANGED vars
         \/ (TypeInv /\ (\/ ReconcileDefers \/ SubmitDefers \/ ConsumeRecovery
                         \/ ConsumeConflict \/ Receive))
  PROVE  UNCHANGED <<floor, receipts, granted, acks>> /\ term'.active = term.active
<1>1. CASE ChangeStaff
  BY <1>1 DEF ChangeStaff, backend
<1>2. CASE StartPublication
  BY <1>2 DEF StartPublication, backend
<1>3. CASE FinishPublication
  BY <1>3 DEF FinishPublication, backend
<1>4. CASE ChangeCohort
  BY <1>4 DEF ChangeCohort, backend
<1>5. CASE StartPull
  BY <1>5 DEF StartPull, backend
<1>6. CASE CheckFloor
  BY <1>6 DEF CheckFloor, backend
<1>7. CASE Materialize
  BY <1>7 DEF Materialize, backend
<1>8. CASE PullFails
  BY <1>8 DEF PullFails, backend
<1>9. CASE ReconcileNothing
  BY <1>9 DEF ReconcileNothing, backend
<1>10. CASE ConsumeStatus
  BY <1>10 DEF ConsumeStatus, backend
<1>11. CASE ConsumeNothing
  BY <1>11 DEF ConsumeNothing, backend
<1>12. CASE Crash
  BY <1>12 DEF Crash, backend
<1>13. CASE UNCHANGED vars
  BY <1>13 DEF vars, backend
<1>14. CASE TypeInv /\ ReconcileDefers
  BY <1>14 DEF ReconcileDefers, backend, Deferred, Quarantined, TypeInv, TypeOK
<1>15. CASE TypeInv /\ SubmitDefers
  BY <1>15 DEF SubmitDefers, backend, Deferred, Quarantined, TypeInv, TypeOK
<1>16. CASE TypeInv /\ ConsumeRecovery
  BY <1>16 DEF ConsumeRecovery, backend, Deferred, Quarantined, TypeInv, TypeOK
<1>17. CASE TypeInv /\ ConsumeConflict
  BY <1>17 DEF ConsumeConflict, backend, Deferred, Quarantined, TypeInv, TypeOK
<1>18. CASE TypeInv /\ Receive
  BY <1>18 DEF Receive, backend, Deferred, Quarantined, TypeInv, TypeOK
<1> QED BY <1>1, <1>2, <1>3, <1>4, <1>5, <1>6, <1>7, <1>8, <1>9, <1>10, <1>11, <1>12, <1>13, <1>14, <1>15, <1>16, <1>17, <1>18

LEMMA LedgerPreserved ==
  ASSUME EpochInv, TypeInv', [Next]_vars
  PROVE  LedgerInv'
<1> USE DEF EpochInv
<1>0. /\ floor \in Chains /\ term.active \in Chains /\ Len(floor) \in Nat
      /\ \A r \in Requests : acks[r].claim \in Chains
      /\ NoAck.step = "none"
  BY ChainIsSeq, EpochAssumption DEF TypeInv, TypeOK, NoAck
<1>1. ASSUME UNCHANGED <<floor, receipts, granted, acks>>, term'.active = term.active
      PROVE  LedgerInv'
  BY <1>1 DEF LedgerInv, ReceiptPerEpoch
(* An acknowledgement that is new, dropped or still only asked for.        *)
<1>2. ASSUME NEW r \in Requests, UNCHANGED <<floor, receipts, granted>>,
             term'.active = term.active,
             \A p \in Requests : p # r => acks'[p] = acks[p],
             acks'[r].step \notin {"accepting", "accepted"}
      PROVE  LedgerInv'
  BY <1>2 DEF LedgerInv, ReceiptPerEpoch
<1>3. CASE \/ ChangeStaff \/ StartPublication \/ FinishPublication \/ ChangeCohort
           \/ StartPull \/ CheckFloor \/ Materialize \/ PullFails
           \/ ReconcileNothing \/ ConsumeStatus \/ ConsumeNothing \/ Crash \/ UNCHANGED vars
  <2>1. UNCHANGED <<floor, receipts, granted, acks>> /\ term'.active = term.active
    BY <1>3, QuietForLedger
  <2> QED BY <1>1, <2>1
<1>4. CASE ReconcileDefers \/ SubmitDefers \/ ConsumeRecovery \/ ConsumeConflict \/ Receive
  <2>1. UNCHANGED <<floor, receipts, granted, acks>> /\ term'.active = term.active
    BY <1>0, <1>4, QuietForLedger
  <2> QED BY <1>1, <2>1
<1>5. ASSUME NEW r \in Requests, AckLookup(r) \/ AckDecide(r)
      PROVE  LedgerInv'
  <2>1. \A p \in Requests : p # r => acks'[p] = acks[p]
    BY <1>5 DEF AckLookup, AckDecide, TypeInv, TypeOK
  <2>2. acks'[r].claim = acks[r].claim /\ UNCHANGED <<floor, receipts, granted, term>>
    BY <1>5 DEF AckLookup, AckDecide, TypeInv, TypeOK, backend
  <2>3. acks'[r].step = "accepted" => GrantedIn(acks[r].claim, granted)
    <3>1. acks'[r].step = "accepted" => Accepted(acks[r].claim)
      BY <1>5 DEF AckLookup, AckDecide, Verdict, TypeInv, TypeOK
    <3>2. ASSUME Accepted(acks[r].claim)
          PROVE  GrantedIn(acks[r].claim, granted)
      <4>1. PICK i \in 1..Len(floor) : acks[r].claim = Prefix(floor, i)
        BY <3>2 DEF Accepted, LedgerInv, ReceiptPerEpoch
      <4>2. i \in 0..Len(floor)
        BY <1>0
      <4> QED BY <1>0, <4>1, <4>2, GrantedGrows DEF LedgerInv
    <3> QED BY <3>1, <3>2
  <2>4. acks'[r].step = "accepting" =>
          /\ Len(acks'[r].claim) = Len(acks'[r].floor) + 1
          /\ Previous(acks'[r].claim) = acks'[r].floor
    <3>1. CASE AckLookup(r)
      BY <3>1 DEF AckLookup, TypeInv, TypeOK
    <3>2. CASE AckDecide(r)
      <4>1. acks'[r].step = Verdict(acks[r].claim) /\ acks'[r].floor = floor
        BY <3>2 DEF AckDecide, TypeInv, TypeOK
      <4>2. Verdict(acks[r].claim) = "accepting" =>
              Len(acks[r].claim) = Len(floor) + 1 /\ Previous(acks[r].claim) = floor
        BY DEF Verdict
      <4> QED BY <2>2, <4>1, <4>2
    <3> QED BY <1>5, <3>1, <3>2
  <2> QED BY <2>1, <2>2, <2>3, <2>4 DEF LedgerInv, ReceiptPerEpoch
<1>6. ASSUME NEW r \in Requests, AckCommit(r)
      PROVE  LedgerInv'
  BY <1>6, CommitKeepsLedger
<1>7. ASSUME NEW r \in Requests, AckForgotten(r)
      PROVE  LedgerInv'
  <2>1. acks'[r] = NoAck /\ \A p \in Requests : p # r => acks'[p] = acks[p]
    BY <1>7 DEF AckForgotten, TypeInv, TypeOK
  <2> QED BY <1>0, <1>2, <1>7, <2>1 DEF AckForgotten, backend
<1>8. ASSUME NEW r \in Requests, ReconcilePosts(r) \/ Submit(r)
      PROVE  LedgerInv'
  <2>1. acks'[r].step = "arrived" /\ \A p \in Requests : p # r => acks'[p] = acks[p]
    <3>1. acks' = [acks EXCEPT ![r] = [NoAck EXCEPT !.step = "arrived",
                                                     !.claim = term.candidate]]
      BY <1>8 DEF ReconcilePosts, Submit, Post
    <3>2. [NoAck EXCEPT !.step = "arrived", !.claim = term.candidate].step = "arrived"
      BY DEF NoAck
    <3>3. acks \in [Requests -> AckRecords]
      BY RecordTypes
    <3> QED BY <3>1, <3>2, <3>3
  <2>2. term'.active = term.active
    <3>1. term' = [term EXCEPT !.phase = "submitting", !.deferred = FALSE]
      BY <1>8 DEF ReconcilePosts, Submit, Submitted
    <3>2. term \in [phase : {"active", "pending", "submitting", "loss"}, active : Chains,
                    candidate : Chains, floor : 0..MaxSequence, deferred : BOOLEAN]
      BY DEF TypeInv, TypeOK
    <3> QED BY <3>1, <3>2
  <2> QED BY <1>2, <1>8, <2>1, <2>2 DEF ReconcilePosts, Submit, backend
<1>9. ASSUME NEW r \in Requests, AckUnanswered(r)
      PROVE  LedgerInv'
  <2>1. acks' = acks \/ (acks'[r] = NoAck /\ \A p \in Requests : p # r => acks'[p] = acks[p])
    BY <1>9 DEF AckUnanswered, TypeInv, TypeOK
  <2> QED BY <1>0, <1>1, <1>2, <1>9, <2>1 DEF AckUnanswered, TimedOut, backend
<1>10. ASSUME NEW r \in Requests, AckAnswered(r)
       PROVE  LedgerInv'
  <2>1. /\ acks'[r] = NoAck /\ \A p \in Requests : p # r => acks'[p] = acks[p]
        /\ UNCHANGED <<floor, receipts, granted>>
    BY <1>10 DEF AckAnswered, TypeInv, TypeOK, backend
  <2>2. GrantedIn(term'.active, granted)
    <3>1. CASE acks[r].step = "accepted" /\ term.candidate = acks[r].claim /\ term' = Confirmed
      <4>1. term'.active = acks[r].claim
        BY <3>1 DEF Confirmed, TypeInv, TypeOK
      <4> QED BY <3>1, <4>1 DEF LedgerInv
    <3>2. CASE term' = Quarantined \/ term' = term
      BY <3>2 DEF Quarantined, LedgerInv, TypeInv, TypeOK
    <3> QED BY <1>10, <3>1, <3>2 DEF AckAnswered
  <2> QED BY <1>0, <2>1, <2>2 DEF LedgerInv, ReceiptPerEpoch
<1>11. CASE Restore
  <2>1. PICK n \in 0..Len(floor) :
          /\ floor' = Prefix(floor, n)
          /\ receipts' = SubSeq(receipts, 1, n)
    BY <1>11, RestoreRewinds
  <2>2. /\ UNCHANGED <<term, granted>> /\ \A p \in Requests : acks'[p].step = "none"
    BY <1>0, <1>11 DEF Restore
  <2>3. Len(floor') = n /\ \A i \in 0..n : Prefix(floor', i) = Prefix(floor, i)
    BY <1>0, <2>1, PrefixIsChain
  <2>4. ReceiptPerEpoch'
    <3>1. n \in Nat /\ n <= Len(floor)
      BY <1>0
    <3>2. \A i \in 1..n : i \in 0..Len(floor) /\ i \in 0..n /\ i \in 1..Len(floor)
      BY <1>0, <3>1
    <3>3. \A i \in 1..n : receipts[i] = Prefix(floor, i) /\ receipts[i] \in Chains
      BY <1>0, <3>2, PrefixIsChain DEF LedgerInv, ReceiptPerEpoch
    <3>4. /\ SubSeq(receipts, 1, n) \in Seq(Chains)
          /\ Len(SubSeq(receipts, 1, n)) = n
          /\ \A i \in 1..n : SubSeq(receipts, 1, n)[i] = receipts[i]
      <4>1. /\ SubSeq(receipts, 1, n) \in Seq(Chains)
            /\ Len(SubSeq(receipts, 1, n)) = IF 1 <= n THEN n - 1 + 1 ELSE 0
            /\ \A i \in 1..n-1+1 : SubSeq(receipts, 1, n)[i] = receipts[1 + i - 1]
        BY <3>1, <3>3, SubSeqProperties
      <4> QED BY <3>1, <4>1
    <3>5. receipts' = [i \in 1..n |-> receipts'[i]]
      BY <2>1, <3>4, LenProperties
    <3>6. \A i \in 1..n : receipts'[i] = Prefix(floor', i)
      BY <2>1, <2>3, <3>2, <3>3, <3>4
    <3> QED BY <2>3, <3>5, <3>6 DEF ReceiptPerEpoch
  <2>5. GrantedIn(floor', granted)
    BY <1>0, <2>1, GrantedGrows DEF LedgerInv
  <2> QED BY <2>2, <2>4, <2>5 DEF LedgerInv
<1> QED
  BY <1>3, <1>4, <1>5, <1>6, <1>7, <1>8, <1>9, <1>10, <1>11 DEF Next, Ack, Reconcile, Consume

-----------------------------------------------------------------------------
(* The terminal and the floor.                                             *)

(* What a request claims, against what the terminal holds.                 *)
Covered(claim, t) ==
  \/ Below(claim, t.active)
  \/ claim = t.candidate /\ t.phase \in {"submitting", "loss"}

(* The chains of a state, their lengths, and how the floor and the claims  *)
(* are covered.                                                            *)
LEMMA ChainFacts ==
  ASSUME EpochInv
  PROVE  /\ floor \in Chains /\ Len(floor) \in Nat
         /\ term.active \in Chains /\ Len(term.active) \in Nat
         /\ term.candidate \in Chains /\ Len(term.candidate) \in Nat
         /\ pull.answer.epoch \in Chains
         /\ \A r \in Requests : acks[r].claim \in Chains
         /\ NoAck.step = "none" /\ NoPull.ack = "none" /\ NoPull.step = "idle"
         /\ FloorIsHeld <=> Covered(floor, term)
         /\ \A r \in Requests : acks[r].step # "none" => Covered(acks[r].claim, term)
<1>1. FloorIsHeld <=> Covered(floor, term)
  BY DEF FloorIsHeld, Covered, Below
<1>2. \A r \in Requests : acks[r].step # "none" => Covered(acks[r].claim, term)
  BY DEF Covered, EpochInv, TerminalInv
<1> QED
  BY <1>1, <1>2, ChainIsSeq, EpochAssumption
     DEF EpochInv, TypeInv, TypeOK, NoAck, NoPull

(* A terminal that moves on covers what it covered.                        *)
LEMMA CoveredStays ==
  ASSUME EpochInv, TypeInv',
         \/ term' \in {term, Deferred, Quarantined}
         \/ term' = Submitted /\ term.phase \in {"pending", "submitting"}
         \/ term' = Confirmed /\ term.phase = "submitting"
         \/ term.phase = "active" /\ term'.active = term.active
  PROVE  \A c \in Chains : Covered(c, term) => Covered(c, term')
<1> SUFFICES ASSUME NEW c \in Chains, Covered(c, term)
             PROVE  Covered(c, term')
  OBVIOUS
<1>0. /\ term.active \in Chains /\ term.candidate \in Chains
      /\ term.phase = "active" => term.candidate = Genesis
      /\ term.phase \in {"pending", "submitting"} => term.candidate # Genesis
      /\ term.candidate # Genesis => Previous(term.candidate) = term.active
  BY ChainFacts DEF EpochInv, TerminalInv
<1>1. CASE term' \in {term, Deferred, Quarantined}
  BY <1>1 DEF Covered, Deferred, Quarantined, EpochInv, TypeInv, TypeOK
<1>2. CASE term' = Submitted
  BY <1>2 DEF Covered, Submitted, EpochInv, TypeInv, TypeOK
<1>3. CASE term' = Confirmed /\ term.phase = "submitting"
  <2>1. term'.active = term.candidate
    BY <1>3 DEF Confirmed, EpochInv, TypeInv, TypeOK
  <2>2. Below(term.active, term.candidate)
    BY <1>0, <1>3, SuccessorOfChain
  <2>3. Below(c, term.candidate)
    <3>1. CASE c = term.candidate
      BY <3>1, BelowItself
    <3>2. CASE Below(c, term.active)
      BY <1>0, <2>2, <3>2, BelowIsTransitive
    <3> QED BY <3>1, <3>2 DEF Covered
  <2> QED BY <2>1, <2>3 DEF Covered
<1>4. CASE term.phase = "active" /\ term'.active = term.active
  BY <1>4 DEF Covered
<1> QED BY <1>1, <1>2, <1>3, <1>4

(* How a terminal's row may change.                                        *)
LEMMA TerminalMoves ==
  ASSUME EpochInv, [Next]_vars
  PROVE  \/ term' \in {term, Deferred, Quarantined}
         \/ term' = Submitted /\ term.phase \in {"pending", "submitting"}
         \/ term' = Confirmed /\ term.phase = "submitting"
         \/ Receive
<1>1. CASE \/ ChangeStaff \/ StartPublication \/ FinishPublication \/ ChangeCohort
           \/ StartPull \/ CheckFloor \/ Materialize \/ PullFails
           \/ ReconcileNothing \/ ConsumeStatus \/ ConsumeNothing \/ Crash \/ Restore
           \/ UNCHANGED vars
  BY <1>1 DEF ChangeStaff, StartPublication, FinishPublication, ChangeCohort, StartPull,
              CheckFloor, Materialize, PullFails, ReconcileNothing, ConsumeStatus,
              ConsumeNothing, Crash, Restore, vars
<1>2. CASE ReconcileDefers \/ SubmitDefers \/ ConsumeRecovery \/ ConsumeConflict \/ Receive
  BY <1>2 DEF ReconcileDefers, SubmitDefers, ConsumeRecovery, ConsumeConflict
<1>3. ASSUME NEW r \in Requests, AckLookup(r) \/ AckDecide(r) \/ AckCommit(r) \/ AckForgotten(r)
      PROVE  term' = term
  BY <1>3 DEF AckLookup, AckDecide, AckCommit, AckForgotten
<1>4. ASSUME NEW r \in Requests, ReconcilePosts(r)
      PROVE  term' = Submitted /\ term.phase \in {"pending", "submitting"}
  BY <1>4 DEF ReconcilePosts, Resumes
<1>5. ASSUME NEW r \in Requests, Submit(r)
      PROVE  term' = Submitted /\ term.phase \in {"pending", "submitting"}
  BY <1>5 DEF Submit, EpochInv, TerminalInv
<1>6. ASSUME NEW r \in Requests, AckUnanswered(r)
      PROVE  term' = term
  BY <1>6 DEF AckUnanswered, TimedOut
<1>7. ASSUME NEW r \in Requests, AckAnswered(r)
      PROVE  \/ term' \in {term, Quarantined}
             \/ term' = Confirmed /\ term.phase = "submitting"
  BY <1>7 DEF AckAnswered
<1> QED
  BY <1>1, <1>2, <1>3, <1>4, <1>5, <1>6, <1>7 DEF Next, Ack, Reconcile, Consume

LEMMA PhasesPreserved ==
  ASSUME EpochInv, [Next]_vars
  PROVE  /\ term'.phase = "active" => term'.candidate = Genesis
         /\ term'.phase \in {"pending", "submitting"} => term'.candidate # Genesis
         /\ term'.candidate # Genesis => Previous(term'.candidate) = term'.active
<1> USE DEF EpochInv, TerminalInv, TypeInv, TypeOK
<1>1. CASE term' \in {term, Deferred, Quarantined}
  BY <1>1 DEF Deferred, Quarantined
<1>2. CASE term' = Submitted /\ term.phase \in {"pending", "submitting"}
  BY <1>2 DEF Submitted
<1>3. CASE term' = Confirmed /\ term.phase = "submitting"
  BY <1>3 DEF Confirmed
<1>4. CASE Receive
  <2>1. /\ term'.phase = "pending" /\ term'.active = term.active
        /\ term'.candidate = pull.answer.epoch
        /\ pull.answer.epoch # Genesis /\ Previous(pull.answer.epoch) = term.active
    BY <1>4 DEF Receive, Acceptable
  <2> QED BY <2>1
<1> QED BY <1>1, <1>2, <1>3, <1>4, TerminalMoves

LEMMA PullPreserved ==
  ASSUME EpochInv, [Next]_vars
  PROVE  /\ pull'.ack # "none" => pull'.step \in {"reconciling", "acknowledging"}
         /\ pull'.step = "received" => term'.phase = "pending"
<1> USE DEF EpochInv, TerminalInv
<1>0. /\ NoPull.ack = "none" /\ NoPull.step = "idle"
      /\ pull \in [step : {"idle", "asked", "checked", "reconcile", "reconciling", "consume",
                           "received", "acknowledging"},
                   floor : 0..MaxSequence,
                   answer : [status : {"none", "deliver", "disabled", "upgrade", "recovery"},
                             epoch : Chains],
                   ack : Requests \cup {"none"}]
  BY DEF TypeInv, TypeOK, NoPull
<1>1. CASE pull' = pull /\ term' = term
  BY <1>1
<1>2. CASE pull' = NoPull
  BY <1>0, <1>2
<1>3. CASE \/ ChangeStaff \/ StartPublication \/ FinishPublication \/ ChangeCohort \/ Restore
           \/ UNCHANGED vars
  BY <1>1, <1>3 DEF ChangeStaff, StartPublication, FinishPublication, ChangeCohort, Restore, vars
<1>4. ASSUME NEW r \in Requests, Ack(r) \/ AckForgotten(r)
      PROVE  pull' = pull /\ term' = term
  BY <1>4 DEF Ack, AckLookup, AckDecide, AckCommit, AckForgotten
<1>5. CASE StartPull
  <2>1. pull'.step = "asked" /\ pull'.ack = "none"
    BY <1>5 DEF StartPull, NoPull
  <2> QED BY <2>1
<1>6. CASE CheckFloor \/ Materialize
  <2>1. pull'.step \in {"reconcile", "checked"} /\ pull'.ack = pull.ack
    BY <1>0, <1>6 DEF CheckFloor, Materialize, Answered
  <2>2. pull.step \in {"asked", "checked"}
    BY <1>6 DEF CheckFloor, Materialize
  <2> QED BY <2>1, <2>2
<1>7. CASE PullFails \/ ConsumeRecovery \/ ConsumeStatus \/ ConsumeNothing \/ ConsumeConflict
           \/ SubmitDefers \/ Crash
  BY <1>2, <1>7 DEF PullFails, ConsumeRecovery, ConsumeStatus, ConsumeNothing, ConsumeConflict,
                    SubmitDefers, Crash
<1>8. CASE ReconcileNothing \/ ReconcileDefers
  <2>1. pull'.step = "consume" /\ pull'.ack = pull.ack /\ pull.step = "reconcile"
    BY <1>0, <1>8 DEF ReconcileNothing, ReconcileDefers
  <2> QED BY <2>1
<1>9. CASE Receive
  <2>1. pull'.ack = pull.ack /\ pull.step = "consume" /\ term'.phase = "pending"
    BY <1>0, <1>9 DEF Receive, TypeInv, TypeOK
  <2> QED BY <2>1
<1>10. ASSUME NEW r \in Requests, ReconcilePosts(r) \/ Submit(r)
       PROVE  pull'.step \in {"reconciling", "acknowledging"}
  BY <1>0, <1>10 DEF ReconcilePosts, Submit
<1>11. ASSUME NEW r \in Requests, AckAnswered(r) \/ AckUnanswered(r)
       PROVE  pull'.step \in {"consume", "idle"} /\ pull'.ack = "none"
  BY <1>0, <1>11 DEF AckAnswered, AckUnanswered, AfterAck
<1> QED
  BY <1>1, <1>3, <1>4, <1>5, <1>6, <1>7, <1>8, <1>9, <1>10, <1>11
     DEF Next, Reconcile, Consume

LEMMA FloorCovered ==
  ASSUME EpochInv, TypeInv', [Next]_vars
  PROVE  Covered(floor', term')
<1> USE ChainFacts
<1>0. \A c \in Chains : Covered(c, term) => Covered(c, term')
  <2>1. Receive => term.phase = "active" /\ term'.active = term.active
    BY DEF Receive, EpochInv, TypeInv, TypeOK
  <2> QED BY <2>1, TerminalMoves, CoveredStays
<1>1. CASE floor' = floor
  BY <1>0, <1>1 DEF EpochInv, TerminalInv
<1>2. ASSUME NEW r \in Requests, AckCommit(r), floor' # floor
      PROVE  Covered(floor', term')
  <2>1. floor' = acks[r].claim /\ acks[r].step # "none"
    BY <1>2 DEF AckCommit
  <2> QED BY <1>0, <2>1
<1>3. CASE Restore
  <2>1. term' = term /\ \E n \in 0..Len(floor) : floor' = Prefix(floor, n)
    BY <1>3 DEF Restore
  <2>2. PICK n \in 0..Len(floor) : floor' = Prefix(floor, n)
    BY <2>1
  <2>3. Prefix(floor, n) \in Chains /\ Below(Prefix(floor, n), floor)
    BY PrefixIsChain, PrefixIsBelow
  <2>4. CASE Below(floor, term.active)
    <3>1. Below(floor', term.active)
      BY <2>2, <2>3, <2>4, BelowIsTransitive
    <3> QED BY <2>1, <3>1 DEF Covered
  <2>5. CASE floor = term.candidate /\ term.phase \in {"submitting", "loss"}
    <3>1. CASE n = Len(floor)
      BY <1>0, <2>2, <2>5, <3>1, PrefixIsChain DEF Covered
    <3>2. CASE n # Len(floor)
      <4>1. Len(floor) # 0 /\ floor # Genesis
        BY <3>2, ChainIsSeq
      <4>2. Previous(floor) = term.active
        BY <2>5, <4>1 DEF EpochInv, TerminalInv
      <4>3. /\ Len(floor) = Len(term.active) + 1
            /\ \A m \in 0..Len(term.active) : Prefix(floor, m) = Prefix(term.active, m)
        BY <4>1, <4>2, SuccessorOfChain
      <4>4. n \in 0..Len(term.active)
        BY <3>2, <4>3
      <4>5. Below(Prefix(term.active, n), term.active)
        BY <4>4, PrefixIsBelow
      <4> QED BY <2>1, <2>2, <4>3, <4>4, <4>5 DEF Covered
    <3> QED BY <3>1, <3>2
  <2> QED BY <2>4, <2>5 DEF Covered, EpochInv, TerminalInv
<1>4. CASE \/ ChangeStaff \/ StartPublication \/ FinishPublication \/ ChangeCohort
           \/ StartPull \/ CheckFloor \/ Materialize \/ PullFails
           \/ ReconcileNothing \/ ReconcileDefers \/ Consume \/ Crash \/ UNCHANGED vars
  BY <1>1, <1>4 DEF ChangeStaff, StartPublication, FinishPublication, ChangeCohort, StartPull,
                    CheckFloor, Materialize, PullFails, ReconcileNothing, ReconcileDefers,
                    Consume, ConsumeRecovery, ConsumeStatus, ConsumeNothing, ConsumeConflict,
                    Receive, SubmitDefers, Crash, vars, backend
<1>5. ASSUME NEW r \in Requests, \/ AckLookup(r) \/ AckDecide(r) \/ AckForgotten(r)
                               \/ AckAnswered(r) \/ AckUnanswered(r) \/ Submit(r)
                               \/ ReconcilePosts(r)
      PROVE  floor' = floor
  BY <1>5 DEF AckLookup, AckDecide, AckForgotten, AckAnswered, AckUnanswered, Submit,
              ReconcilePosts, backend
<1> QED BY <1>1, <1>2, <1>3, <1>4, <1>5 DEF Next, Ack, Reconcile

LEMMA ClaimsCovered ==
  ASSUME EpochInv, TypeInv', [Next]_vars
  PROVE  \A r \in Requests : acks'[r].step # "none" => Covered(acks'[r].claim, term')
<1> USE ChainFacts
<1>0. \A r \in Requests : acks[r].step # "none" => Covered(acks[r].claim, term')
  <2>1. Receive => term.phase = "active" /\ term'.active = term.active
    BY DEF Receive, EpochInv, TypeInv, TypeOK
  <2> QED BY <2>1, TerminalMoves, CoveredStays
<1>1. CASE acks' = acks
  BY <1>0, <1>1
<1>2. ASSUME NEW r \in Requests, \A p \in Requests : p # r => acks'[p] = acks[p],
             \/ acks'[r].step = "none"
             \/ acks[r].step # "none" /\ acks'[r].claim = acks[r].claim
             \/ Covered(acks'[r].claim, term')
      PROVE  \A p \in Requests : acks'[p].step # "none" => Covered(acks'[p].claim, term')
  BY <1>0, <1>2
<1>3. CASE \/ ChangeStaff \/ StartPublication \/ FinishPublication \/ ChangeCohort
           \/ StartPull \/ CheckFloor \/ Materialize \/ PullFails
           \/ ReconcileNothing \/ ReconcileDefers \/ Consume \/ Crash \/ UNCHANGED vars
  BY <1>1, <1>3 DEF ChangeStaff, StartPublication, FinishPublication, ChangeCohort, StartPull,
                    CheckFloor, Materialize, PullFails, ReconcileNothing, ReconcileDefers,
                    Consume, ConsumeRecovery, ConsumeStatus, ConsumeNothing, ConsumeConflict,
                    Receive, SubmitDefers, Crash, vars
<1>4. ASSUME NEW r \in Requests, AckLookup(r) \/ AckDecide(r) \/ AckCommit(r)
      PROVE  \A p \in Requests : acks'[p].step # "none" => Covered(acks'[p].claim, term')
  <2>1. /\ \A p \in Requests : p # r => acks'[p] = acks[p]
        /\ acks[r].step # "none" /\ acks'[r].claim = acks[r].claim
    BY <1>4 DEF AckLookup, AckDecide, AckCommit, EpochInv, TypeInv, TypeOK
  <2> QED BY <1>2, <2>1
<1>5. ASSUME NEW r \in Requests, AckForgotten(r) \/ AckAnswered(r)
      PROVE  \A p \in Requests : acks'[p].step # "none" => Covered(acks'[p].claim, term')
  <2>1. (\A p \in Requests : p # r => acks'[p] = acks[p]) /\ acks'[r] = NoAck
    BY <1>5 DEF AckForgotten, AckAnswered, EpochInv, TypeInv, TypeOK
  <2> QED BY <1>2, <2>1
<1>6. ASSUME NEW r \in Requests, AckUnanswered(r)
      PROVE  \A p \in Requests : acks'[p].step # "none" => Covered(acks'[p].claim, term')
  <2>1. \/ acks' = acks
        \/ (\A p \in Requests : p # r => acks'[p] = acks[p]) /\ acks'[r] = NoAck
    BY <1>6 DEF AckUnanswered, EpochInv, TypeInv, TypeOK
  <2> QED BY <1>1, <1>2, <2>1
<1>7. ASSUME NEW r \in Requests, Submit(r) \/ ReconcilePosts(r)
      PROVE  \A p \in Requests : acks'[p].step # "none" => Covered(acks'[p].claim, term')
  <2>1. acks' = [acks EXCEPT ![r] = [step |-> "arrived", claim |-> term.candidate,
                                     floor |-> Genesis]]
    BY <1>7 DEF Submit, ReconcilePosts, Post, NoAck
  <2>2. /\ \A p \in Requests : p # r => acks'[p] = acks[p]
        /\ acks'[r].claim = term.candidate
    BY <2>1 DEF EpochInv, TypeInv, TypeOK
  <2>3. term'.phase = "submitting" /\ term'.candidate = term.candidate
    BY <1>7 DEF Submit, ReconcilePosts, Submitted, EpochInv, TypeInv, TypeOK
  <2>4. Covered(acks'[r].claim, term')
    BY <2>2, <2>3 DEF Covered
  <2> QED BY <1>2, <2>2, <2>4
<1>8. CASE Restore
  <2>1. \A r \in Requests : acks'[r] = NoAck
    BY <1>8 DEF Restore
  <2> QED BY <2>1
<1> QED BY <1>3, <1>4, <1>5, <1>6, <1>7, <1>8 DEF Next, Ack, Reconcile

LEMMA TerminalPreserved ==
  ASSUME EpochInv, TypeInv', [Next]_vars
  PROVE  TerminalInv'
<1>1. FloorIsHeld'
  BY FloorCovered DEF Covered, Below, FloorIsHeld
<1>2. \A r \in Requests : acks'[r].step # "none" =>
        \/ Below(acks'[r].claim, term'.active)
        \/ acks'[r].claim = term'.candidate /\ term'.phase \in {"submitting", "loss"}
  BY ClaimsCovered DEF Covered
<1> QED BY <1>1, <1>2, PhasesPreserved, PullPreserved DEF TerminalInv

-----------------------------------------------------------------------------
(* As long as the backend loses nothing.                                   *)

(* An accepted row is of a prefix of the floor.                            *)
LEMMA AcceptedIsBelow ==
  ASSUME EpochInv, NEW c, Accepted(c)
  PROVE  Below(c, floor)
<1>1. PICK i \in 1..Len(floor) : c = Prefix(floor, i)
  BY DEF Accepted, EpochInv, LedgerInv, ReceiptPerEpoch
<1>2. i \in 0..Len(floor)
  BY ChainFacts
<1> QED BY <1>1, <1>2, ChainFacts, PrefixIsBelow

(* A commit moves the floor one epoch on.                                  *)
LEMMA CommitIsAbove ==
  ASSUME EpochInv, NEW r \in Requests, AckCommit(r), floor' # floor
  PROVE  floor' = acks[r].claim /\ Below(floor, floor')
<1>1. floor' = acks[r].claim /\ floor = acks[r].floor /\ acks[r].step = "accepting"
  BY DEF AckCommit, Commits
<1>2. Len(acks[r].claim) = Len(floor) + 1 /\ Previous(acks[r].claim) = floor
  BY <1>1 DEF EpochInv, LedgerInv
<1>3. acks[r].claim # Genesis
  BY <1>2, ChainFacts, ChainIsSeq
<1> QED BY <1>1, <1>2, <1>3, ChainFacts, SuccessorOfChain

LEMMA FloorGrows ==
  ASSUME EpochInv, [Next]_vars, ~Restore
  PROVE  Below(floor, floor') /\ epochs \subseteq epochs' /\ restores' = restores
<1>1. CASE floor' = floor /\ epochs' = epochs /\ restores' = restores
  BY <1>1, ChainFacts, BelowItself
<1>2. ASSUME NEW r \in Requests, AckCommit(r)
      PROVE  Below(floor, floor') /\ epochs \subseteq epochs' /\ restores' = restores
  BY <1>2, ChainFacts, BelowItself, CommitIsAbove DEF AckCommit, bounds
<1>3. CASE Materialize
  <2>1. floor' = floor /\ restores' = restores /\ epochs \subseteq epochs'
    BY <1>3 DEF Materialize, bounds
  <2> QED BY <2>1, ChainFacts, BelowItself
<1>4. CASE \/ ChangeStaff \/ StartPublication \/ FinishPublication \/ ChangeCohort
           \/ StartPull \/ CheckFloor \/ PullFails
           \/ ReconcileNothing \/ ReconcileDefers \/ Consume \/ Crash \/ UNCHANGED vars
  BY <1>1, <1>4 DEF ChangeStaff, StartPublication, FinishPublication, ChangeCohort, StartPull,
                    CheckFloor, PullFails, ReconcileNothing, ReconcileDefers,
                    Consume, ConsumeRecovery, ConsumeStatus, ConsumeNothing, ConsumeConflict,
                    Receive, SubmitDefers, Crash, vars, backend, bounds
<1>5. ASSUME NEW r \in Requests, \/ AckLookup(r) \/ AckDecide(r) \/ AckForgotten(r)
                               \/ AckAnswered(r) \/ AckUnanswered(r) \/ Submit(r)
                               \/ ReconcilePosts(r)
      PROVE  floor' = floor /\ epochs' = epochs /\ restores' = restores
  BY <1>5 DEF AckLookup, AckDecide, AckForgotten, AckAnswered, AckUnanswered, Submit,
              ReconcilePosts, backend, bounds
<1> QED BY <1>1, <1>2, <1>3, <1>4, <1>5 DEF Next, Ack, Reconcile

(* The epochs stay one per sequence, and what is delivered is one of them. *)
LEMMA EpochsUnique ==
  ASSUME EpochInv, [Next]_vars, ~Restore, restores = 0
  PROVE  /\ \A e, f \in epochs' : Len(e) = Len(f) => e = f
         /\ pull'.answer.status = "deliver" => pull'.answer.epoch \in epochs'
         /\ pull'.answer.status # "recovery"
<1> USE DEF EpochInv, LosslessInv
<1>0. pull \in [step : {"idle", "asked", "checked", "reconcile", "reconciling", "consume",
                        "received", "acknowledging"},
                floor : 0..MaxSequence,
                answer : [status : {"none", "deliver", "disabled", "upgrade", "recovery"},
                          epoch : Chains],
                ack : Requests \cup {"none"}]
  BY DEF TypeInv, TypeOK
<1>1. CASE Materialize
  <2>1. CASE Len(snapshots) < Next1 \/ build \notin cohort
    <3>1. /\ epochs' = epochs
          /\ \E status \in {"none", "disabled"} : pull' = Answered(status, Genesis)
      BY <1>1, <2>1 DEF Materialize
    <3>2. pull'.answer.status \in {"none", "disabled"}
      BY <1>0, <3>1 DEF Answered
    <3> QED BY <3>1, <3>2
  <2>2. CASE ~(Len(snapshots) < Next1) /\ build \in cohort
    <3> DEFINE row == IF Stored = {} THEN Projected ELSE CHOOSE e \in Stored : TRUE
    <3>1. /\ epochs' = epochs \cup {row}
          /\ pull' = IF Last(row).build = build THEN Answered("deliver", row)
                     ELSE Answered("upgrade", Genesis)
      BY <1>1, <2>2 DEF Materialize
    <3>2. Stored # {} => row \in epochs
      BY DEF Stored
    <3>3. Stored = {} => Len(row) = Next1 /\ \A e \in epochs : Len(e) # Next1
      <4>1. Next1 \in 1..Len(snapshots) /\ Next1 = Len(floor) + 1 /\ Next1 <= MaxSequence
        <5>1. Len(snapshots) \in Nat /\ Len(snapshots) <= MaxSequence
          BY LenProperties DEF TypeInv, TypeOK
        <5> QED BY <2>2, <5>1, ChainFacts, EpochAssumption DEF Next1
      <4>2. snapshots[Next1] \in Snapshots
        BY <4>1, ElementOfSeq DEF TypeInv
      <4>3. [policy |-> snapshots[Next1].policy, build |-> build] \in Entries
        BY <4>2 DEF Snapshots, Entries, TypeInv, TypeOK
      <4>4. Len(Projected) = Next1
        BY <4>1, <4>3, ChainFacts, AppendIsChain DEF Projected
      <4> QED BY <4>4 DEF Stored
    <3> HIDE DEF row
    <3>4. \A e, f \in epochs' : Len(e) = Len(f) => e = f
      BY <3>1, <3>2, <3>3
    <3>5. /\ pull'.answer.status \in {"deliver", "upgrade"}
          /\ pull'.answer.status = "deliver" => pull'.answer.epoch = row
      BY <1>0, <3>1 DEF Answered
    <3> QED BY <3>1, <3>4, <3>5
  <2> QED BY <2>1, <2>2
<1>2. ASSUME epochs' = epochs,
             \/ pull'.answer = pull.answer
             \/ pull'.answer.status = "none"
      PROVE  /\ \A e, f \in epochs' : Len(e) = Len(f) => e = f
             /\ pull'.answer.status = "deliver" => pull'.answer.epoch \in epochs'
             /\ pull'.answer.status # "recovery"
  BY <1>2
<1>3. NoPull.answer.status = "none"
  BY DEF NoPull, NoAnswer
<1>4. CASE CheckFloor
  <2>1. pull.floor <= Len(floor) /\ pull.floor \in Int /\ epochs' = epochs
    BY <1>0, <1>4, EpochAssumption DEF CheckFloor, backend
  <2>2. pull' = [pull EXCEPT !.step = "checked"]
    BY <1>4, <2>1, ChainFacts DEF CheckFloor
  <2> QED BY <1>0, <1>2, <2>1, <2>2
<1>5. CASE PullFails \/ ConsumeRecovery \/ ConsumeStatus \/ ConsumeNothing \/ ConsumeConflict
           \/ SubmitDefers \/ Crash
  BY <1>2, <1>3, <1>5 DEF PullFails, ConsumeRecovery, ConsumeStatus, ConsumeNothing,
                          ConsumeConflict, SubmitDefers, Crash, backend
<1>6. CASE StartPull
  <2>1. pull'.answer.status = "none" /\ epochs' = epochs
    BY <1>6 DEF StartPull, NoPull, NoAnswer, backend
  <2> QED BY <1>2, <2>1
<1>7. CASE \/ ChangeStaff \/ StartPublication \/ FinishPublication \/ ChangeCohort
           \/ ReconcileNothing \/ ReconcileDefers \/ Receive \/ UNCHANGED vars
  <2>1. pull'.answer = pull.answer /\ epochs' = epochs
    BY <1>0, <1>7 DEF ChangeStaff, StartPublication, FinishPublication, ChangeCohort,
                      ReconcileNothing, ReconcileDefers, Receive, vars, backend
  <2> QED BY <1>2, <2>1
<1>8. ASSUME NEW r \in Requests, \/ Ack(r) \/ AckForgotten(r) \/ AckAnswered(r)
                               \/ AckUnanswered(r) \/ Submit(r) \/ ReconcilePosts(r)
      PROVE  pull'.answer = pull.answer /\ epochs' = epochs
  BY <1>0, <1>8 DEF Ack, AckLookup, AckDecide, AckCommit, AckForgotten, AckAnswered,
                    AckUnanswered, AfterAck, Submit, ReconcilePosts, backend
<1> QED BY <1>1, <1>2, <1>4, <1>5, <1>6, <1>7, <1>8 DEF Next, Reconcile, Consume

(* The claim a terminal waits for is never refused: the floor is the epoch *)
(* before it or the claim itself.                                          *)
LEMMA AwaitedIsNotRejected ==
  ASSUME EpochInv, restores = 0, NEW r \in Requests, pull.ack = r
  PROVE  Verdict(acks[r].claim) \in {"accepted", "accepting"}
<1> DEFINE claim == acks[r].claim
<1>1. /\ claim = term.candidate /\ term.phase = "submitting" /\ claim \in epochs
      /\ claim # Genesis /\ Previous(claim) = term.active /\ Below(term.active, floor)
  BY DEF EpochInv, LosslessInv, TerminalInv
<1>2. Len(claim) = Len(term.active) + 1
  BY <1>1, ChainFacts, SuccessorOfChain
<1>3. CASE Below(floor, term.active)
  <2>1. Len(floor) = Len(term.active)
    BY <1>1, <1>3, ChainFacts DEF Below
  <2>2. floor = term.active
    BY <1>3, <2>1, ChainFacts, PrefixIsChain DEF Below
  <2>3. Len(claim) # Len(floor)
    BY <1>2, <2>1, ChainFacts
  <2> QED BY <1>1, <1>2, <2>2, <2>3 DEF Verdict
<1>4. CASE floor = claim
  <2>1. Len(floor) \in 1..Len(floor) /\ Len(floor) \in 0..Len(floor)
    BY <1>2, <1>4, ChainFacts
  <2>2. receipts[Len(floor)] = floor /\ DOMAIN receipts = 1..Len(floor)
    BY <2>1, ChainFacts, PrefixIsChain DEF EpochInv, LedgerInv, ReceiptPerEpoch
  <2>3. Accepted(claim)
    BY <1>4, <2>1, <2>2 DEF Accepted
  <2> QED BY <1>1, <1>4, <2>3 DEF Verdict
<1> QED BY <1>1, <1>3, <1>4, ChainFacts DEF Covered, EpochInv, TerminalInv

(* The terminal follows the floor and is never quarantined.                *)
LEMMA TerminalFollows ==
  ASSUME EpochInv, TypeInv', [Next]_vars, ~Restore, restores = 0
  PROVE  /\ term'.phase # "loss"
         /\ term'.candidate # Genesis => term'.candidate \in epochs'
         /\ Below(term'.active, floor')
         /\ term'.floor = Len(term'.active)
<1>0. /\ term.phase # "loss" /\ term.floor = Len(term.active)
      /\ Below(term.active, floor) /\ Below(floor, floor') /\ epochs \subseteq epochs'
      /\ term.candidate # Genesis => term.candidate \in epochs
      /\ floor' \in Chains
      /\ term \in [phase : {"active", "pending", "submitting", "loss"}, active : Chains,
                   candidate : Chains, floor : 0..MaxSequence, deferred : BOOLEAN]
  BY FloorGrows DEF EpochInv, LosslessInv, TypeInv, TypeOK
<1>1. Below(term.active, floor')
  BY <1>0, ChainFacts, BelowIsTransitive
<1>2. CASE term' = term \/ term' = Deferred
  BY <1>0, <1>1, <1>2 DEF Deferred
<1>3. CASE term' = Submitted
  BY <1>0, <1>1, <1>3 DEF Submitted
<1>4. CASE Receive
  <2>1. /\ pull.answer.epoch \in epochs
        /\ term' = [term EXCEPT !.phase = "pending", !.candidate = pull.answer.epoch,
                                !.deferred = FALSE]
    BY <1>4 DEF Receive, EpochInv, LosslessInv
  <2> QED BY <1>0, <1>1, <2>1
<1>5. ASSUME NEW r \in Requests, AckAnswered(r)
      PROVE  /\ term'.phase # "loss"
             /\ term'.candidate # Genesis => term'.candidate \in epochs'
             /\ Below(term'.active, floor')
             /\ term'.floor = Len(term'.active)
  <2>1. acks[r].step # "rejected" /\ acks[r].step = "accepted" /\ floor' = floor
    BY <1>5 DEF AckAnswered, EpochInv, LosslessInv, backend
  <2>2. CASE term' = term
    BY <1>2, <2>2
  <2>3. CASE term' = Confirmed /\ term.candidate = acks[r].claim
    <3>1. /\ term'.phase = "active" /\ term'.candidate = Genesis
          /\ term'.active = acks[r].claim /\ term'.floor = Len(acks[r].claim)
      BY <1>0, <2>3 DEF Confirmed
    <3>2. Below(acks[r].claim, floor)
      BY <2>1 DEF EpochInv, LosslessInv
    <3> QED BY <2>1, <3>1, <3>2
  <2> QED BY <1>5, <2>1, <2>2, <2>3 DEF AckAnswered
<1>6. ~ConsumeRecovery
  BY DEF ConsumeRecovery, EpochInv, LosslessInv
<1>7. ~ConsumeConflict
  <2> SUFFICES ASSUME ConsumeConflict
               PROVE  FALSE
    OBVIOUS
  <2>1. /\ pull.answer.epoch \in epochs /\ term.candidate \in epochs
        /\ Len(pull.answer.epoch) = Len(term.candidate)
        /\ pull.answer.epoch # term.candidate
    BY DEF ConsumeConflict, Conflicts, EpochInv, LosslessInv
  <2> QED BY <2>1 DEF EpochInv, LosslessInv
<1>8. CASE \/ ChangeStaff \/ StartPublication \/ FinishPublication \/ ChangeCohort
           \/ StartPull \/ CheckFloor \/ Materialize \/ PullFails
           \/ ReconcileNothing \/ ConsumeStatus \/ ConsumeNothing \/ Crash \/ UNCHANGED vars
  BY <1>2, <1>8 DEF ChangeStaff, StartPublication, FinishPublication, ChangeCohort, StartPull,
                    CheckFloor, Materialize, PullFails, ReconcileNothing, ConsumeStatus,
                    ConsumeNothing, Crash, vars
<1>9. CASE ReconcileDefers \/ SubmitDefers
  BY <1>2, <1>9 DEF ReconcileDefers, SubmitDefers
<1>10. ASSUME NEW r \in Requests, \/ Ack(r) \/ AckForgotten(r) \/ AckUnanswered(r)
       PROVE  term' = term
  BY <1>10 DEF Ack, AckLookup, AckDecide, AckCommit, AckForgotten, AckUnanswered, TimedOut
<1>11. ASSUME NEW r \in Requests, Submit(r) \/ ReconcilePosts(r)
       PROVE  term' = Submitted
  BY <1>11 DEF Submit, ReconcilePosts
<1> QED
  BY <1>2, <1>3, <1>4, <1>5, <1>6, <1>7, <1>8, <1>9, <1>10, <1>11 DEF Next, Reconcile, Consume

LEMMA PullFloorIsBelow ==
  ASSUME EpochInv, TypeInv', [Next]_vars, ~Restore, restores = 0
  PROVE  pull'.floor <= Len(floor')
<1>0. /\ pull.floor <= Len(floor) /\ pull.floor \in Int /\ term.floor = Len(term.active)
      /\ Len(floor) \in Nat /\ Len(floor') \in Nat /\ Len(floor) <= Len(floor')
      /\ Len(term.active) <= Len(floor) /\ Len(term.active) \in Nat
      /\ pull \in [step : {"idle", "asked", "checked", "reconcile", "reconciling", "consume",
                           "received", "acknowledging"},
                   floor : 0..MaxSequence,
                   answer : [status : {"none", "deliver", "disabled", "upgrade", "recovery"},
                             epoch : Chains],
                   ack : Requests \cup {"none"}]
  <2>1. pull.floor \in Int
    BY EpochAssumption DEF EpochInv, TypeInv, TypeOK
  <2>2. Len(floor') \in Nat
    BY ChainIsSeq, EpochAssumption DEF TypeInv, TypeOK
  <2> QED
    BY <2>1, <2>2, FloorGrows, ChainFacts
       DEF EpochInv, LosslessInv, TypeInv, TypeOK, Below
<1>1. CASE pull'.floor = pull.floor \/ pull'.floor = 0
  BY <1>0, <1>1
<1>2. NoPull.floor = 0
  BY DEF NoPull
<1>3. CASE StartPull
  <2>1. pull'.floor = term.floor
    BY <1>3 DEF StartPull, NoPull
  <2> QED BY <1>0, <2>1
<1>4. CASE PullFails \/ ConsumeRecovery \/ ConsumeStatus \/ ConsumeNothing \/ ConsumeConflict
           \/ SubmitDefers \/ Crash
  BY <1>1, <1>2, <1>4 DEF PullFails, ConsumeRecovery, ConsumeStatus, ConsumeNothing,
                          ConsumeConflict, SubmitDefers, Crash
<1>5. CASE \/ ChangeStaff \/ StartPublication \/ FinishPublication \/ ChangeCohort
           \/ CheckFloor \/ ReconcileNothing \/ ReconcileDefers \/ Receive
           \/ UNCHANGED vars
  <2>1. pull'.floor = pull.floor
    BY <1>0, <1>5 DEF ChangeStaff, StartPublication, FinishPublication, ChangeCohort, CheckFloor,
                      Answered, ReconcileNothing, ReconcileDefers, Receive, vars
  <2> QED BY <1>1, <2>1
<1>6. CASE Materialize
  <2>1. pull'.floor = pull.floor
    BY <1>0, <1>6 DEF Materialize, Answered
  <2> QED BY <1>1, <2>1
<1>7. ASSUME NEW r \in Requests, \/ Ack(r) \/ AckForgotten(r) \/ AckAnswered(r)
                               \/ AckUnanswered(r) \/ Submit(r) \/ ReconcilePosts(r)
      PROVE  pull'.floor = pull.floor
  BY <1>0, <1>7 DEF Ack, AckLookup, AckDecide, AckCommit, AckForgotten, AckAnswered,
                    AckUnanswered, AfterAck, Submit, ReconcilePosts
<1> QED BY <1>1, <1>3, <1>4, <1>5, <1>6, <1>7 DEF Next, Reconcile, Consume

(* Accepted claims lie on the floor; the one that is awaited is the        *)
(* candidate's.                                                            *)
LEMMA ClaimsFollow ==
  ASSUME EpochInv, TypeInv', [Next]_vars, ~Restore, restores = 0
  PROVE  \A r \in Requests :
           /\ acks'[r].step = "accepted" => Below(acks'[r].claim, floor')
           /\ pull'.ack = r =>
                /\ acks'[r].claim = term'.candidate
                /\ term'.phase = "submitting"
                /\ acks'[r].step # "rejected"
<1> DEFINE Follows(r) ==
      /\ acks'[r].step = "accepted" => Below(acks'[r].claim, floor')
      /\ pull'.ack = r =>
           /\ acks'[r].claim = term'.candidate
           /\ term'.phase = "submitting"
           /\ acks'[r].step # "rejected"
<1>0. /\ "none" \notin Requests /\ NoPull.ack = "none" /\ NoAck.step = "none"
      /\ floor' \in Chains
      /\ acks \in [Requests -> [step : {"none", "arrived", "new", "accepting", "accepted",
                                        "rejected", "failed"},
                                claim : Chains, floor : Chains]]
      /\ pull \in [step : {"idle", "asked", "checked", "reconcile", "reconciling", "consume",
                           "received", "acknowledging"},
                   floor : 0..MaxSequence,
                   answer : [status : {"none", "deliver", "disabled", "upgrade", "recovery"},
                             epoch : Chains],
                   ack : Requests \cup {"none"}]
  BY ChainFacts, EpochAssumption DEF EpochInv, TypeInv, TypeOK
<1>1. \A r \in Requests : acks[r].step = "accepted" => Below(acks[r].claim, floor')
  BY <1>0, FloorGrows, ChainFacts, BelowIsTransitive DEF EpochInv, LosslessInv
<1>2. \A r \in Requests : pull.ack = r =>
        acks[r].claim = term.candidate /\ term.phase = "submitting" /\ acks[r].step # "rejected"
  BY DEF EpochInv, LosslessInv
<1>3. ASSUME NEW r \in Requests, acks'[r] = acks[r],
             pull'.ack = "none" \/ (pull'.ack = pull.ack /\ term' = term)
      PROVE  Follows(r)
  BY <1>0, <1>1, <1>2, <1>3
<1>4. ASSUME NEW r \in Requests, acks'[r].step = "none",
             pull'.ack # r
      PROVE  Follows(r)
  BY <1>4
<1>5. CASE \/ ChangeStaff \/ StartPublication \/ FinishPublication \/ ChangeCohort
           \/ StartPull \/ CheckFloor \/ Materialize \/ PullFails
           \/ ReconcileNothing \/ ConsumeStatus \/ ConsumeNothing \/ Crash \/ UNCHANGED vars
  <2>1. acks' = acks /\ term' = term
    BY <1>5 DEF ChangeStaff, StartPublication, FinishPublication, ChangeCohort, StartPull,
                CheckFloor, Materialize, PullFails, ReconcileNothing, ConsumeStatus,
                ConsumeNothing, Crash, vars
  <2>2. pull'.ack = "none" \/ pull'.ack = pull.ack
    <3>1. CASE StartPull \/ PullFails \/ ConsumeStatus \/ ConsumeNothing \/ Crash
      BY <1>0, <3>1 DEF StartPull, PullFails, ConsumeStatus, ConsumeNothing, Crash, NoPull
    <3>2. CASE \/ ChangeStaff \/ StartPublication \/ FinishPublication \/ ChangeCohort
               \/ ReconcileNothing \/ UNCHANGED vars
      BY <1>0, <3>2 DEF ChangeStaff, StartPublication, FinishPublication, ChangeCohort,
                        ReconcileNothing, vars
    <3>3. CASE CheckFloor \/ Materialize
      BY <1>0, <3>3 DEF CheckFloor, Materialize, Answered
    <3> QED BY <1>5, <3>1, <3>2, <3>3
  <2> QED BY <1>3, <2>1, <2>2
<1>6. CASE ReconcileDefers \/ SubmitDefers \/ ConsumeRecovery \/ ConsumeConflict \/ Receive
  <2>1. acks' = acks
    BY <1>6 DEF ReconcileDefers, SubmitDefers, ConsumeRecovery, ConsumeConflict, Receive
  <2>2. pull.step \notin {"reconciling", "acknowledging"}
    BY <1>6 DEF ReconcileDefers, SubmitDefers, ConsumeRecovery, ConsumeConflict, Receive
  <2>3. pull.ack = "none"
    BY <2>2 DEF EpochInv, TerminalInv
  <2>4. pull'.ack = "none"
    BY <1>0, <1>6, <2>3 DEF ReconcileDefers, SubmitDefers, ConsumeRecovery, ConsumeConflict, Receive
  <2> QED BY <1>3, <2>1, <2>4
<1>7. ASSUME NEW q \in Requests, AckLookup(q) \/ AckDecide(q) \/ AckCommit(q)
      PROVE  \A r \in Requests : Follows(r)
  <2>1. /\ pull' = pull /\ term' = term
        /\ \A r \in Requests : r # q => acks'[r] = acks[r]
        /\ acks'[q].claim = acks[q].claim
    BY <1>0, <1>7 DEF AckLookup, AckDecide, AckCommit
  <2>2. acks'[q].step = "accepted" => Below(acks[q].claim, floor')
    <3>1. CASE AckCommit(q)
      <4>1. CASE Commits(acks[q])
        <5>1. floor' = acks[q].claim
          BY <3>1, <4>1 DEF AckCommit
        <5> QED BY <1>0, <5>1, BelowItself
      <4>2. CASE ~Commits(acks[q])
        BY <1>0, <3>1, <4>2 DEF AckCommit
      <4> QED BY <4>1, <4>2
    <3>2. CASE AckLookup(q) \/ AckDecide(q)
      <4>1. acks'[q].step = "accepted" => Accepted(acks[q].claim)
        BY <1>0, <3>2 DEF AckLookup, AckDecide, Verdict
      <4>2. floor' = floor
        BY <3>2 DEF AckLookup, AckDecide, backend
      <4> QED BY <4>1, <4>2, AcceptedIsBelow
    <3> QED BY <1>7, <3>1, <3>2
  <2>3. pull.ack = q => acks'[q].step # "rejected"
    <3>1. CASE AckLookup(q) \/ AckCommit(q)
      BY <1>0, <3>1 DEF AckLookup, AckCommit
    <3>2. CASE AckDecide(q)
      <4>1. acks'[q].step = Verdict(acks[q].claim)
        BY <1>0, <3>2 DEF AckDecide
      <4> QED BY <4>1, AwaitedIsNotRejected
    <3> QED BY <1>7, <3>1, <3>2
  <2>4. Follows(q)
    BY <1>2, <2>1, <2>2, <2>3
  <2> QED BY <1>3, <2>1, <2>4
<1>8. ASSUME NEW q \in Requests, AckForgotten(q) \/ AckAnswered(q)
      PROVE  \A r \in Requests : Follows(r)
  <2>1. /\ acks'[q].step = "none"
        /\ \A r \in Requests : r # q => acks'[r] = acks[r]
    BY <1>0, <1>8 DEF AckForgotten, AckAnswered
  <2>2. CASE AckForgotten(q)
    <3>1. pull' = pull /\ term' = term /\ pull.ack # q
      BY <2>2 DEF AckForgotten
    <3> QED BY <1>3, <1>4, <2>1, <3>1
  <2>3. CASE AckAnswered(q)
    <3>1. pull'.ack = "none"
      BY <1>0, <2>3 DEF AckAnswered, AfterAck
    <3> QED BY <1>0, <1>3, <1>4, <2>1, <3>1
  <2> QED BY <1>8, <2>2, <2>3
<1>9. ASSUME NEW q \in Requests, AckUnanswered(q)
      PROVE  \A r \in Requests : Follows(r)
  <2>1. /\ pull'.ack = "none"
        /\ \A r \in Requests : acks'[r] = acks[r] \/ acks'[r].step = "none"
    BY <1>0, <1>9 DEF AckUnanswered, AfterAck
  <2> QED BY <1>0, <1>3, <1>4, <2>1
<1>10. ASSUME NEW q \in Requests, Submit(q) \/ ReconcilePosts(q)
       PROVE  \A r \in Requests : Follows(r)
  <2>1. acks' = [acks EXCEPT ![q] = [step |-> "arrived", claim |-> term.candidate,
                                     floor |-> Genesis]]
    BY <1>10 DEF Submit, ReconcilePosts, Post, NoAck
  <2>2. /\ \A r \in Requests : r # q => acks'[r] = acks[r]
        /\ acks'[q].claim = term.candidate /\ acks'[q].step = "arrived"
    BY <1>0, <2>1
  <2>3. term'.phase = "submitting" /\ term'.candidate = term.candidate
    BY <1>10 DEF Submit, ReconcilePosts, Submitted, EpochInv, TypeInv, TypeOK
  <2>4. pull'.ack = q
    BY <1>0, <1>10 DEF Submit, ReconcilePosts
  <2> QED BY <1>1, <2>2, <2>3, <2>4
<1> QED
  BY <1>5, <1>6, <1>7, <1>8, <1>9, <1>10 DEF Next, Ack, Reconcile, Consume

LEMMA LosslessPreserved ==
  ASSUME EpochInv, TypeInv', [Next]_vars
  PROVE  LosslessInv'
<1>1. CASE Restore
  <2>1. restores' = restores + 1 /\ restores \in Nat
    BY <1>1 DEF Restore, EpochInv, TypeInv, TypeOK
  <2> QED BY <2>1 DEF LosslessInv
<1>2. CASE ~Restore
  <2>1. restores' = restores
    BY <1>2, FloorGrows
  <2>2. CASE restores = 0
    BY <1>2, <2>2, TerminalFollows, EpochsUnique, PullFloorIsBelow, ClaimsFollow
       DEF LosslessInv, Below
  <2> QED BY <2>1, <2>2 DEF LosslessInv
<1> QED BY <1>1, <1>2

-----------------------------------------------------------------------------
(* The theorems.                                                           *)

LEMMA EpochInvInitially == Init => EpochInv
<1> SUFFICES ASSUME Init PROVE EpochInv
  OBVIOUS
<1>0. Genesis \in Chains /\ Len(Genesis) = 0 /\ Below(Genesis, Genesis)
  BY ChainIsSeq, BelowItself
<1>1. PublicationInv
  BY DEF Init, PublicationInv, CleanIsPublished, NoPublication
<1>2. LedgerInv
  <2>1. ReceiptPerEpoch
    BY <1>0 DEF Init, ReceiptPerEpoch
  <2>2. GrantedIn(floor, granted) /\ GrantedIn(term.active, granted)
    BY <1>0 DEF Init, GrantedIn
  <2>3. \A r \in Requests : acks[r].step = "none"
    BY DEF Init, NoAck
  <2> QED BY <2>1, <2>2, <2>3 DEF LedgerInv
<1>3. TerminalInv
  <2>1. FloorIsHeld
    BY <1>0 DEF Init, FloorIsHeld, Below
  <2>2. \A r \in Requests : acks[r].step = "none"
    BY DEF Init, NoAck
  <2>3. pull.ack = "none" /\ pull.step = "idle"
    BY DEF Init, NoPull
  <2>4. term.phase = "active" /\ term.candidate = Genesis
    BY DEF Init
  <2> QED BY <2>1, <2>2, <2>3, <2>4 DEF TerminalInv
<1>4. LosslessInv
  <2>1. \A r \in Requests : acks[r].step = "none" /\ pull.ack # r
    BY EpochAssumption DEF Init, NoAck, NoPull
  <2>2. pull.answer.status = "none" /\ pull.floor = 0
    BY DEF Init, NoPull, NoAnswer
  <2>3. /\ term.phase = "active" /\ term.candidate = Genesis /\ term.active = Genesis
        /\ term.floor = 0 /\ epochs = {} /\ floor = Genesis
    BY DEF Init
  <2> QED BY <1>0, <2>1, <2>2, <2>3 DEF LosslessInv
<1> QED BY <1>1, <1>2, <1>3, <1>4, TypesInitially DEF EpochInv

LEMMA EpochInvPreserved == EpochInv /\ [Next]_vars => EpochInv'
<1> SUFFICES ASSUME EpochInv, [Next]_vars PROVE EpochInv'
  OBVIOUS
<1>1. TypeInv'
  BY TypesPreserved
<1> QED
  BY <1>1, PublicationPreserved, LedgerPreserved, TerminalPreserved, LosslessPreserved
     DEF EpochInv

(* EpochInv holds in every reachable state.                                *)
THEOREM EpochInvariant == Spec => []EpochInv
BY EpochInvInitially, EpochInvPreserved, PTL DEF Spec

(* Chains, rows and phases stay in range: materializeWithin never projects *)
(* beyond the snapshots, nor a restore or an acknowledgement beyond it.    *)
THEOREM EpochTypes == Spec => []TypeOK
<1>1. EpochInv => TypeOK
  BY DEF EpochInv, TypeInv
<1> QED BY <1>1, EpochInvariant, PTL

(* A staff change committed is never hidden behind a clean marker.         *)
THEOREM StaffChangesArePublished == Spec => []CleanIsPublished
<1>1. EpochInv => CleanIsPublished
  BY DEF EpochInv, PublicationInv
<1> QED BY <1>1, EpochInvariant, PTL

(* acknowledge writes one accepted row per epoch, in order, whatever       *)
(* requests race: the rows are the floor's prefixes.                       *)
THEOREM OneReceiptPerEpoch == Spec => []ReceiptPerEpoch
<1>1. EpochInv => ReceiptPerEpoch
  BY DEF EpochInv, LedgerInv
<1> QED BY <1>1, EpochInvariant, PTL

(* The backend never runs ahead of what the terminal holds: its floor is   *)
(* an epoch the terminal governs by or has stopped authorizing for.        *)
THEOREM FloorIsAlwaysHeld == Spec => []FloorIsHeld
<1>1. EpochInv => FloorIsHeld
  BY DEF EpochInv, TerminalInv
<1> QED BY <1>1, EpochInvariant, PTL

(* The terminal authorizes only under epochs whose acknowledgement the     *)
(* backend accepted, even when the backend has since lost that.            *)
THEOREM OnlyAcceptedEpochsGovern == Spec => []ActiveWasAccepted
<1>1. EpochInv => ActiveWasAccepted
  BY DEF EpochInv, LedgerInv, GrantedIn, ActiveWasAccepted
<1> QED BY <1>1, EpochInvariant, PTL

(* What governs a terminal is replaced only by its own successor: not by   *)
(* what a late answer names, nor by what a restored backend delivers anew. *)
THEOREM GovernanceOnlyAdvances == Spec => GovernanceAdvances
<1>1. EpochInv /\ [Next]_vars =>
        [term'.active # term.active => /\ Len(term'.active) = Len(term.active) + 1
                                       /\ Previous(term'.active) = term.active]_vars
  <2> SUFFICES ASSUME EpochInv, [Next]_vars, term'.active # term.active
               PROVE  /\ Len(term'.active) = Len(term.active) + 1
                      /\ Previous(term'.active) = term.active
    OBVIOUS
  <2>1. CASE \/ term' \in {term, Deferred, Quarantined, Submitted} \/ Receive
    BY <2>1 DEF Deferred, Quarantined, Submitted, Receive, EpochInv, TypeInv, TypeOK
  <2>2. CASE term' = Confirmed /\ term.phase = "submitting"
    <3>1. term'.active = term.candidate
      BY <2>2 DEF Confirmed, EpochInv, TypeInv, TypeOK
    <3>2. term.candidate # Genesis /\ Previous(term.candidate) = term.active
      BY <2>2 DEF EpochInv, TerminalInv
    <3> QED BY <3>1, <3>2, ChainFacts, SuccessorOfChain
  <2> QED BY <2>1, <2>2, TerminalMoves
<1> QED BY <1>1, EpochInvariant, PTL DEF Spec, GovernanceAdvances

(* Only a backend that lost data quarantines a terminal.                   *)
THEOREM QuarantineMeansLoss == Spec => []NoFalseQuarantine
<1>1. EpochInv => NoFalseQuarantine
  BY DEF EpochInv, LosslessInv, TypeInv, TypeOK, NoFalseQuarantine
<1> QED BY <1>1, EpochInvariant, PTL
=============================================================================
