---------------------------- MODULE PolicyEpochs ----------------------------
(***************************************************************************)
(* Staff-policy epochs: how a change of the staff (who may authorize what, *)
(* with which PIN) reaches a terminal that authorizes offline.             *)
(*                                                                         *)
(* The backend marks the tenant dirty with every change, publishes numbered*)
(* snapshots, and writes, for one terminal and one POS build, the epoch    *)
(* after the last one the terminal acknowledged.  A pull delivers it; the  *)
(* terminal stores it as a candidate (transaction R), stops authorizing    *)
(* (S), acknowledges it, and lets it govern only when the receipt is       *)
(* stored (C).  Requests and answers are lost, an acknowledgement that     *)
(* timed out may still be at work in the backend next to its retry, the    *)
(* application dies between any two transactions and may come back as      *)
(* another build, and the backend may be restored from a backup.           *)
(*                                                                         *)
(* An epoch is written as the chain of entries that leads to it, which is  *)
(* what its digest commits to: its sequence is the length of the chain and *)
(* the empty chain is GENESIS.  One tenant, one terminal and one backend   *)
(* build; policies are opaque values.                                      *)
(***************************************************************************)
EXTENDS Integers, Sequences, FiniteSets

CONSTANTS
  Policies,      \* what the staff tables may say
  NoPins,        \* staff tables without any PIN: no policy can be projected
  Builds,        \* POS builds
  Requests,      \* acknowledgement requests the backend may hold at once
  Gated,         \* whether an outbox is registered with the drain gate
  MaxSequence,   \* bound on the snapshots
  MaxCrashes,    \* bound on crashes and upgrades
  MaxRestores    \* bound on restores of the backend

ASSUME EpochAssumption ==
  /\ NoPins \notin Policies
  /\ "none" \notin Requests
  /\ Gated \in BOOLEAN
  /\ MaxSequence \in Nat /\ MaxCrashes \in Nat /\ MaxRestores \in Nat

VARIABLES
  staff,      \* backend: what the staff tables say
  dirty,      \* backend: the tenant's publication marker
  publisher,  \* backend: the publication that holds the marker's row lock
  snapshots,  \* backend: policy snapshots, in sequence
  cohort,     \* backend: the builds an operator enabled
  epochs,     \* backend: epoch rows of the terminal
  floor,      \* backend: the epoch the terminal has acknowledged
  receipts,   \* backend: accepted acknowledgements, in the order they committed
  acks,       \* backend: acknowledgements in progress
  build,      \* terminal: its build
  term,       \* terminal: its row of human_auth_terminal_state
  pull,       \* terminal: the pull in progress
  crashes, restores,
  granted     \* history: every epoch the backend ever accepted

backend == <<staff, dirty, publisher, snapshots, cohort, epochs, floor, receipts>>
bounds == <<crashes, restores>>
vars == <<backend, acks, build, term, pull, bounds, granted>>

Entries == [policy : Policies, build : Builds]
Chains == UNION {[1..n -> Entries] : n \in 0..MaxSequence}
Genesis == <<>>

Last(chain) == chain[Len(chain)]
Prefix(chain, n) == SubSeq(chain, 1, n)
Previous(chain) == Prefix(chain, Len(chain) - 1)

NoPublication == [on |-> FALSE, staff |-> NoPins]
NoAck == [step |-> "none", claim |-> Genesis, floor |-> Genesis]
NoAnswer == [status |-> "none", epoch |-> Genesis]
NoPull == [step |-> "idle", floor |-> 0, answer |-> NoAnswer, ack |-> "none"]

Init ==
  /\ staff \in Policies
  /\ dirty = TRUE
  /\ publisher = NoPublication
  /\ snapshots = <<>>
  /\ cohort \in SUBSET Builds
  /\ epochs = {}
  /\ floor = Genesis
  /\ receipts = <<>>
  /\ acks = [r \in Requests |-> NoAck]
  /\ build \in Builds
  /\ term = [phase |-> "active", active |-> Genesis, candidate |-> Genesis,
             floor |-> 0, deferred |-> FALSE]
  /\ pull = NoPull
  /\ crashes = 0 /\ restores = 0
  /\ granted = {}

-----------------------------------------------------------------------------
(* Backend: publication.                                                   *)

(* A change of the staff and its dirty mark commit together; the mark      *)
(* waits for the marker's row, which a publication locks.                  *)
ChangeStaffUnmarked ==
  /\ ~publisher.on
  /\ staff' \in (Policies \cup {NoPins}) \ {staff}
  /\ UNCHANGED <<dirty, publisher, snapshots, cohort, epochs, floor, receipts,
                 acks, build, term, pull, bounds, granted>>

ChangeStaff ==
  /\ ~publisher.on
  /\ staff' \in (Policies \cup {NoPins}) \ {staff}
  /\ dirty' = TRUE
  /\ UNCHANGED <<publisher, snapshots, cohort, epochs, floor, receipts,
                 acks, build, term, pull, bounds, granted>>

(* publishWithin: lock and read the marker, read the staff ...             *)
StartPublication ==
  /\ ~publisher.on
  /\ dirty
  /\ publisher' = [on |-> TRUE, staff |-> staff]
  /\ UNCHANGED <<staff, dirty, snapshots, cohort, epochs, floor, receipts,
                 acks, build, term, pull, bounds, granted>>

Decision == IF cohort = {} THEN "disabled" ELSE "eligible"

NewSnapshot == [policy |-> publisher.staff, decision |-> Decision]

(* ... then publish a snapshot unless the newest says the same; a policy   *)
(* that cannot be projected leaves the tenant dirty.                       *)
FinishPublication ==
  /\ publisher.on
  /\ IF publisher.staff = NoPins
     THEN UNCHANGED <<dirty, snapshots>>
     ELSE /\ dirty' = FALSE
          /\ IF snapshots # <<>> /\ Last(snapshots) = NewSnapshot
             THEN UNCHANGED snapshots
             ELSE /\ Len(snapshots) < MaxSequence
                  /\ snapshots' = Append(snapshots, NewSnapshot)
  /\ publisher' = NoPublication
  /\ UNCHANGED <<staff, cohort, epochs, floor, receipts,
                 acks, build, term, pull, bounds, granted>>

ChangeCohort ==
  /\ cohort' \in (SUBSET Builds) \ {cohort}
  /\ UNCHANGED <<staff, dirty, publisher, snapshots, epochs, floor, receipts,
                 acks, build, term, pull, bounds, granted>>

-----------------------------------------------------------------------------
(* A pull, up to its answer.  It reports the floor as the terminal has it. *)
StartPull ==
  /\ pull.step = "idle"
  /\ pull' = [NoPull EXCEPT !.step = "asked", !.floor = term.floor]
  /\ UNCHANGED <<backend, acks, build, term, bounds, granted>>

Answered(status, epoch) ==
  [pull EXCEPT !.step = "reconcile", !.answer = [status |-> status, epoch |-> epoch]]

(* negotiate, first transaction: is the terminal ahead of the backend?     *)
CheckFloor ==
  /\ pull.step = "asked"
  /\ pull' = IF pull.floor > Len(floor)
             THEN Answered("recovery", Genesis)
             ELSE [pull EXCEPT !.step = "checked"]
  /\ UNCHANGED <<backend, acks, build, term, bounds, granted>>

(* materializeWithin: the epoch after the floor, written once for the      *)
(* build that first asked for it, and read back.                           *)
Next1 == Len(floor) + 1

Projected == Append(floor, [policy |-> snapshots[Next1].policy, build |-> build])

Stored == {e \in epochs : Len(e) = Next1}

Materialize ==
  /\ pull.step = "checked"
  /\ IF Len(snapshots) < Next1
     THEN pull' = Answered("none", Genesis) /\ UNCHANGED epochs
     ELSE IF build \notin cohort
     THEN pull' = Answered("disabled", Genesis) /\ UNCHANGED epochs
     ELSE LET row == IF Stored = {} THEN Projected ELSE CHOOSE e \in Stored : TRUE
          IN /\ epochs' = epochs \cup {row}
             /\ pull' = IF Last(row).build = build
                        THEN Answered("deliver", row)
                        ELSE Answered("upgrade", Genesis)
  /\ UNCHANGED <<staff, dirty, publisher, snapshots, cohort, floor, receipts,
                 acks, build, term, bounds, granted>>

(* The request or its answer is lost.                                      *)
PullFails ==
  /\ pull.step \in {"asked", "reconcile"}
  /\ pull' = NoPull
  /\ UNCHANGED <<backend, acks, build, term, bounds, granted>>

-----------------------------------------------------------------------------
(* Backend: an acknowledgement.  An accepted row with the claim's key      *)
(* answers it at once; otherwise the claim is judged against the floor and *)
(* the epoch, and an acceptance writes its row and moves the floor.        *)
Accepted(chain) == \E i \in DOMAIN receipts : receipts[i] = chain

AckLookup(r) ==
  /\ acks[r].step = "arrived"
  /\ acks' = [acks EXCEPT ![r].step = IF Accepted(acks[r].claim) THEN "accepted" ELSE "new"]
  /\ UNCHANGED <<backend, build, term, pull, bounds, granted>>

(* decideAcknowledgement                                                   *)
VerdictStale(claim) ==
  IF claim \notin epochs \/ Len(claim) # Len(floor) + 1 \/ Previous(claim) # floor
  THEN "rejected" ELSE "accepting"

Verdict(claim) ==
  IF claim \notin epochs THEN "rejected"
  ELSE IF Len(claim) = Len(floor)
  THEN IF Accepted(claim) THEN "accepted" ELSE "failed"
  ELSE IF Len(claim) # Len(floor) + 1 \/ Previous(claim) # floor THEN "rejected"
  ELSE "accepting"

AckDecide(r) ==
  /\ acks[r].step = "new"
  /\ acks' = [acks EXCEPT ![r].step = Verdict(acks[r].claim), ![r].floor = floor]
  /\ UNCHANGED <<backend, build, term, pull, bounds, granted>>

(* The unique indexes on accepted rows, and the compare-and-set on floor.  *)
CommitsAnyway(ack) == TRUE

Commits(ack) ==
  /\ \A i \in DOMAIN receipts : Len(receipts[i]) # Len(ack.claim)
  /\ floor = ack.floor

AckCommit(r) ==
  /\ acks[r].step = "accepting"
  /\ IF Commits(acks[r])
     THEN /\ receipts' = Append(receipts, acks[r].claim)
          /\ floor' = acks[r].claim
          /\ granted' = granted \cup {acks[r].claim}
          /\ acks' = [acks EXCEPT ![r].step = "accepted"]
     ELSE /\ acks' = [acks EXCEPT ![r].step = "failed"]
          /\ UNCHANGED <<receipts, floor, granted>>
  /\ UNCHANGED <<staff, dirty, publisher, snapshots, cohort, epochs,
                 build, term, pull, bounds>>

(* An answer nobody waits for any more.                                    *)
AckForgotten(r) ==
  /\ acks[r].step \in {"accepted", "rejected", "failed"}
  /\ pull.ack # r
  /\ acks' = [acks EXCEPT ![r] = NoAck]
  /\ UNCHANGED <<backend, build, term, pull, bounds, granted>>

-----------------------------------------------------------------------------
(* Terminal: reconciliation, at every pull before the answer is consumed.  *)
(* Only a submitted candidate, or one the drain gate deferred, is resumed. *)
Post(r, from) ==
  /\ acks[r] = NoAck
  /\ acks' = [acks EXCEPT ![r] = [NoAck EXCEPT !.step = "arrived", !.claim = from.candidate]]

(* submitCandidateAcknowledgement, transaction S: the drain gate may hold  *)
(* the candidate back, otherwise authorization stops.                      *)
Deferred == [term EXCEPT !.deferred = TRUE]
Submitted == [term EXCEPT !.phase = "submitting", !.deferred = FALSE]

ResumesDeferred == term.phase = "pending" /\ term.deferred

Resumes == term.phase = "submitting" \/ (term.phase = "pending" /\ term.deferred)

ReconcileNothing ==
  /\ pull.step = "reconcile"
  /\ ~Resumes
  /\ pull' = [pull EXCEPT !.step = "consume"]
  /\ UNCHANGED <<backend, acks, build, term, bounds, granted>>

ReconcileDefers ==
  /\ pull.step = "reconcile"
  /\ Gated /\ term.phase = "pending" /\ term.deferred
  /\ term' = Deferred
  /\ pull' = [pull EXCEPT !.step = "consume"]
  /\ UNCHANGED <<backend, acks, build, bounds, granted>>

ReconcilePosts(r) ==
  /\ pull.step = "reconcile"
  /\ Resumes
  /\ term' = Submitted
  /\ Post(r, term)
  /\ pull' = [pull EXCEPT !.step = "reconciling", !.ack = r]
  /\ UNCHANGED <<backend, build, bounds, granted>>

(* _submitOhacAcknowledgement, once the answer is there: transaction C     *)
(* stores the receipt and lets the candidate govern, a rejection is        *)
(* integrity loss, anything else leaves the claim to the next pull.        *)
AfterAck == [pull EXCEPT !.step = IF @ = "reconciling" THEN "consume" ELSE "idle",
                         !.ack = "none"]

ConfirmedOneAhead ==
  [term EXCEPT !.phase = "active", !.active = term.candidate, !.candidate = Genesis,
               !.floor = Len(term.candidate) + 1]

Confirmed ==
  [term EXCEPT !.phase = "active", !.active = term.candidate, !.candidate = Genesis,
               !.floor = Len(term.candidate)]

Quarantined == [term EXCEPT !.phase = "loss"]

TimedOutConfirming == IF term.phase = "submitting" THEN Confirmed ELSE term

TimedOutDropping == [term EXCEPT !.phase = "active", !.candidate = Genesis]

TimedOut == term

AckAnswered(r) ==
  /\ pull.ack = r
  /\ acks[r].step \in {"accepted", "rejected"}
  /\ term' = IF acks[r].step = "rejected" THEN Quarantined
             ELSE IF term.phase = "submitting" /\ term.candidate = acks[r].claim THEN Confirmed
             ELSE term
  /\ acks' = [acks EXCEPT ![r] = NoAck]
  /\ pull' = AfterAck
  /\ UNCHANGED <<backend, build, bounds, granted>>

(* A timeout, a server error, a receipt that could not be stored; the      *)
(* request may have been lost on its way, or go on without the terminal.   *)
AckUnanswered(r) ==
  /\ pull.ack = r
  /\ acks' \in {acks} \cup
       (IF acks[r].step = "arrived" THEN {[acks EXCEPT ![r] = NoAck]} ELSE {})
  /\ term' = TimedOut
  /\ pull' = AfterAck
  /\ UNCHANGED <<backend, build, bounds, granted>>

-----------------------------------------------------------------------------
(* Terminal: _consumeHumanAuthorizationEpoch.                              *)

(* The backend says the terminal is ahead of it.                           *)
ConsumeRecovery ==
  /\ pull.step = "consume"
  /\ pull.answer.status = "recovery"
  /\ term' = Quarantined
  /\ pull' = NoPull
  /\ UNCHANGED <<backend, acks, build, bounds, granted>>

ConsumeStatus ==
  /\ pull.step = "consume"
  /\ pull.answer.status \in {"none", "disabled", "upgrade"}
  /\ pull' = NoPull
  /\ UNCHANGED <<backend, acks, build, term, bounds, granted>>

(* validateEpochAcceptance and decideEpochReceive.                         *)
AcceptableOnAnyBase(epoch) == Last(epoch).build = build

Acceptable(epoch) ==
  /\ Last(epoch).build = build
  /\ Previous(epoch) = term.active

Conflicts(epoch) ==
  /\ term.candidate # Genesis
  /\ Len(epoch) = Len(term.candidate)
  /\ epoch # term.candidate

(* Stale, out of line, or what the candidate already is: nothing happens.  *)
(* Transaction R refuses a terminal that is not ACTIVE.                    *)
ConsumeNothing ==
  /\ pull.step = "consume"
  /\ pull.answer.status = "deliver"
  /\ LET epoch == pull.answer.epoch
     IN \/ ~Acceptable(epoch)
        \/ epoch = term.candidate
        \/ ~Conflicts(epoch) /\ term.phase # "active"
  /\ pull' = NoPull
  /\ UNCHANGED <<backend, acks, build, term, bounds, granted>>

ConsumeConflict ==
  /\ pull.step = "consume"
  /\ pull.answer.status = "deliver"
  /\ Acceptable(pull.answer.epoch)
  /\ Conflicts(pull.answer.epoch)
  /\ term' = Quarantined
  /\ pull' = NoPull
  /\ UNCHANGED <<backend, acks, build, bounds, granted>>

(* Transaction R.                                                          *)
Receive ==
  /\ pull.step = "consume"
  /\ pull.answer.status = "deliver"
  /\ Acceptable(pull.answer.epoch)
  /\ pull.answer.epoch # term.candidate /\ ~Conflicts(pull.answer.epoch)
  /\ term.phase = "active"
  /\ term' = [term EXCEPT !.phase = "pending", !.candidate = pull.answer.epoch,
                          !.deferred = FALSE]
  /\ pull' = [pull EXCEPT !.step = "received"]
  /\ UNCHANGED <<backend, acks, build, bounds, granted>>

SubmitDefers ==
  /\ pull.step = "received"
  /\ Gated
  /\ term' = Deferred
  /\ pull' = NoPull
  /\ UNCHANGED <<backend, acks, build, bounds, granted>>

(* Transaction S, then the request.                                        *)
Submit(r) ==
  /\ pull.step = "received"
  /\ term' = Submitted
  /\ Post(r, term)
  /\ pull' = [pull EXCEPT !.step = "acknowledging", !.ack = r]
  /\ UNCHANGED <<backend, build, bounds, granted>>

-----------------------------------------------------------------------------
(* The application dies; it may come back as another build.                *)
Crash ==
  /\ crashes < MaxCrashes
  /\ crashes' = crashes + 1
  /\ build' \in Builds
  /\ pull' = NoPull
  /\ UNCHANGED <<backend, acks, term, restores, granted>>

(* The backend is restored from a backup: the tables end earlier than they *)
(* did.  The tenant is taken to be dirty in the backup.                    *)
Restore ==
  /\ restores < MaxRestores
  /\ restores' = restores + 1
  /\ \E n \in 0..Len(floor), kept \in 0..1, m \in 0..Len(snapshots) :
       LET back == {e \in epochs : Len(e) <= n + kept}
       IN /\ \A e \in back : Len(e) <= m
          /\ floor' = Prefix(floor, n)
          /\ receipts' = SubSeq(receipts, 1, n)
          /\ epochs' = back
          /\ snapshots' = SubSeq(snapshots, 1, m)
  /\ staff' \in Policies
  /\ dirty' = TRUE
  /\ publisher' = NoPublication
  /\ acks' = [r \in Requests |-> NoAck]
  /\ UNCHANGED <<cohort, build, term, pull, crashes, granted>>

Ack(r) == AckLookup(r) \/ AckDecide(r) \/ AckCommit(r)

Consume ==
  \/ ConsumeRecovery \/ ConsumeStatus \/ ConsumeNothing \/ ConsumeConflict
  \/ Receive \/ SubmitDefers

Reconcile ==
  ReconcileNothing \/ ReconcileDefers \/ \E r \in Requests : ReconcilePosts(r)

Next ==
  \/ ChangeStaff \/ StartPublication \/ FinishPublication \/ ChangeCohort
  \/ StartPull \/ CheckFloor \/ Materialize \/ PullFails
  \/ \E r \in Requests :
       Ack(r) \/ AckForgotten(r) \/ AckAnswered(r) \/ AckUnanswered(r) \/ Submit(r)
  \/ Reconcile \/ Consume
  \/ Crash \/ Restore

(* The terminal pulls again and again and gives no answer up before its    *)
(* time, the backend finishes what it has started, and a request that is   *)
(* sent again and again arrives, and is answered in time, now and then.    *)
Fairness ==
  /\ WF_vars(\/ StartPull \/ Materialize \/ Consume
             \/ \E r \in Requests : Submit(r) \/ AckUnanswered(r))
  /\ WF_vars(\E r \in Requests : Ack(r) \/ AckForgotten(r))
  /\ SF_vars(CheckFloor)
  /\ SF_vars(Reconcile)
  /\ SF_vars(\E r \in Requests : AckLookup(r) /\ pull.ack = r)
  /\ SF_vars(\E r \in Requests : AckDecide(r) /\ pull.ack = r)
  /\ SF_vars(\E r \in Requests : AckAnswered(r))

Spec == Init /\ [][Next]_vars

FairSpec == Spec /\ Fairness

-----------------------------------------------------------------------------
TypeOK ==
  /\ staff \in Policies \cup {NoPins} /\ dirty \in BOOLEAN
  /\ publisher \in [on : BOOLEAN, staff : Policies \cup {NoPins}]
  /\ Len(snapshots) <= MaxSequence
  /\ cohort \subseteq Builds /\ build \in Builds
  /\ epochs \subseteq Chains /\ floor \in Chains /\ granted \subseteq Chains
  /\ \A i \in DOMAIN receipts : receipts[i] \in Chains
  /\ acks \in [Requests -> [step : {"none", "arrived", "new", "accepting", "accepted",
                                    "rejected", "failed"},
                            claim : Chains, floor : Chains]]
  /\ term \in [phase : {"active", "pending", "submitting", "loss"}, active : Chains,
               candidate : Chains, floor : 0..MaxSequence, deferred : BOOLEAN]
  /\ pull \in [step : {"idle", "asked", "checked", "reconcile", "reconciling", "consume",
                       "received", "acknowledging"},
               floor : 0..MaxSequence,
               answer : [status : {"none", "deliver", "disabled", "upgrade", "recovery"},
                         epoch : Chains],
               ack : Requests \cup {"none"}]
  /\ crashes \in Nat /\ restores \in Nat

(* A committed staff change is never left unpublished behind a clean       *)
(* marker, whatever publications run next to it.                           *)
CleanIsPublished ==
  ~dirty => snapshots # <<>> /\ Last(snapshots).policy = staff

(* The accepted acknowledgements are one per epoch, in order, up to the    *)
(* floor: no retry, no request that was given up and no race of two of     *)
(* them records an acceptance the floor does not show.                     *)
ReceiptPerEpoch == receipts = [i \in 1..Len(floor) |-> Prefix(floor, i)]

(* What the backend takes the terminal to have is what the terminal governs*)
(* by or holds, stored, as the candidate it has stopped authorizing for.   *)
FloorIsHeld ==
  \/ Len(floor) <= Len(term.active) /\ floor = Prefix(term.active, Len(floor))
  \/ floor = term.candidate /\ term.phase \in {"submitting", "loss"}

(* The terminal authorizes only under an epoch the backend has accepted its*)
(* acknowledgement of, and the whole chain before it too.                  *)
ActiveWasAccepted == \A n \in 1..Len(term.active) : Prefix(term.active, n) \in granted

(* What governs is replaced only by its own successor: no late answer, no  *)
(* retry and no restored backend, which delivers earlier epochs anew, sets *)
(* the terminal back or makes it skip an epoch.                            *)
GovernanceAdvances ==
  [][term'.active # term.active =>
       /\ Len(term'.active) = Len(term.active) + 1
       /\ Previous(term'.active) = term.active]_vars

(* Nothing but a backend that lost data quarantines a terminal: no lost    *)
(* answer, no retry, no race and no crash does, and nothing would ever     *)
(* bring the terminal back.                                                *)
NoFalseQuarantine == term.phase = "loss" => restores > 0

(* An acknowledgement that was begun is settled: the epoch governs, or the *)
(* terminal is quarantined.  Authorization is not frozen for ever.         *)
SubmissionIsSettled == term.phase = "submitting" ~> term.phase # "submitting"
=============================================================================
