-------------------------------- MODULE Loyalty --------------------------------
(***************************************************************************)
(* The loyalty ledger of one customer in the cloud.  Terminals append      *)
(* EARN and REDEEM movements (LoyaltySyncIngestionService, or syncBatch in *)
(* its SERIALIZABLE transaction); the dashboard reserves, consolidates and *)
(* voids redemptions and reverses tickets (RedemptionService); an operator *)
(* rebuilds the projection and attributes movements that arrived before    *)
(* there was a program (LoyaltyProgramBackfillService).  Every append      *)
(* checks for its key, inserts, sums what it can see, and saves the sum as *)
(* the balance; several requests do so at once, and the process may die    *)
(* and lose its redemption intents.                                        *)
(*                                                                         *)
(* There is one program, which is activated and deactivated. Rewards are   *)
(* their cost; snapshots, versions and the ambiguity of several programs   *)
(* (the record is then refused before anything is read) are left out, and  *)
(* so is customers.points_balance, summed and saved like the projection:   *)
(* without a projection the ledger has no EARN, and it is not enough for a *)
(* reward.                                                                 *)
(***************************************************************************)
EXTENDS Integers, FiniteSets, FiniteSetsExt

CONSTANTS
  Tickets,     \* tickets of the customer
  Requests,    \* requests the server works on at once
  Channels,    \* how terminals send movements: in a batch or not, with a program or not
  Costs,       \* what rewards cost
  Earned,      \* what a ticket earns
  MaxIntents   \* bound on the redemption intents of one process

ASSUME LoyaltyAssumption ==
  /\ IsFiniteSet(Tickets)
  /\ Channels \subseteq [from : {"terminal"}, batch : BOOLEAN, declared : BOOLEAN]
  /\ Costs \subseteq Nat \ {0}
  /\ Earned \in Nat \ {0}
  /\ MaxIntents \in Nat

VARIABLES
  ledger,      \* the rows of customer_point_transactions
  projection,  \* the customer's row of customer_loyalty_account_projection
  active,      \* the program is ACTIVE
  intents,     \* RedemptionService.intents: memory of the process
  work,        \* what each request is doing
  drift,       \* history: what the last writer left of the projection
  reversed     \* history: movements a completed reversal had found

store == <<ledger, projection>>
history == <<drift, reversed>>
vars == <<store, active, intents, work, history>>

Kinds == {"earn", "redeem", "reversal"}
IntentIds == 1..MaxIntents
Cloud == [from |-> "cloud", batch |-> FALSE, declared |-> TRUE]
NoRow == [kind |-> "none", source |-> Cloud, ticket |-> "none", of |-> "none",
          units |-> 0, tagged |-> FALSE, copy |-> 0]
NoIntent == [status |-> "none", ticket |-> "none", cost |-> 0]
Idle == [op |-> "none", point |-> "idle", row |-> NoRow, base |-> 0, beaten |-> FALSE,
         intent |-> 0, todo |-> {}, found |-> {}]

Init ==
  /\ ledger = {}
  /\ projection = [exists |-> FALSE, balance |-> 0]
  /\ active \in BOOLEAN
  /\ intents = [i \in IntentIds |-> NoIntent]
  /\ work = [q \in Requests |-> Idle]
  /\ drift = "none" /\ reversed = {}

-----------------------------------------------------------------------------
(* A key names one request to record something, an identity what the       *)
(* unique indexes of the table let exist once.  A terminal's REDEEM of a   *)
(* ticket has the same key over either route (loyalty:redeem:<ticket>:...), *)
(* its EARN one that names the program, or failing that the movement.      *)
(* Those of the cloud name the tenant first (loyalty:redeem:<tenant>:...,  *)
(* loyalty:reversal:<tenant>:...), so the two sides meet in the indexes    *)
(* only.                                                                   *)
Key(r) == <<r.source.from, r.source.declared \/ r.kind # "earn", r.kind, r.ticket, r.of>>

Identity(r) == <<r.kind, r.ticket, r.of>>

Total(rows) == MapThenSumSet(LAMBDA r : r.units, rows)

Balance == Total({r \in ledger : r.tagged})

IsReversed(m) ==
  \E r \in ledger : r.kind = "reversal" /\ r.ticket = m.ticket /\ r.of = m.kind

(* The other requests, once one has committed: what they read is stale.    *)
Overtaken(q) ==
  [p \in Requests |-> IF p = q \/ work[p] = Idle THEN work[p]
                     ELSE [work[p] EXCEPT !.beaten = TRUE]]

(* A writer that was overtaken may have saved a sum that lacks a movement. *)
Drift(w) == IF w.beaten THEN "overtaken" ELSE "none"

(* Where a request goes when its append is over.                           *)
Recorded(w) ==
  CASE w.op = "redeem" -> [w EXCEPT !.point = "recorded"]
    [] w.op = "reverse" -> [w EXCEPT !.point = "reverse", !.row = NoRow]
    [] OTHER -> Idle

-----------------------------------------------------------------------------
(* A movement of a terminal; one without a program is given the program    *)
(* that is ACTIVE, and an EARN that has none is not recorded.              *)
PosRecord(q) ==
  /\ work[q] = Idle
  /\ \E t \in Tickets, kind \in {"earn", "redeem"}, source \in Channels, cost \in Costs :
       work' = [work EXCEPT ![q] =
                  [Idle EXCEPT !.op = "pos",
                               !.point = IF source.declared THEN "find" ELSE "resolve",
                               !.row = [NoRow EXCEPT
                                          !.kind = kind, !.source = source, !.ticket = t,
                                          !.units = IF kind = "earn" THEN Earned ELSE -cost,
                                          !.tagged = source.declared]]]
  /\ UNCHANGED <<store, active, intents, history>>

ResolveProgram(q) ==
  /\ work[q].point = "resolve"
  /\ work' = [work EXCEPT ![q] =
                IF ~active /\ @.row.kind = "earn" THEN Idle
                ELSE [@ EXCEPT !.point = "find", !.row.tagged = active]]
  /\ UNCHANGED <<store, active, intents, history>>

(* The find of appendTransactionBody.  A row with this key is the answer   *)
(* if it says the same, and a conflict if it does not; a movement without  *)
(* a program agrees with any.  (A record of a batch that has its receipt   *)
(* is answered from it by syncBatch, with the same effect: none.)          *)
Find(q) ==
  LET w == work[q]
      same == {r \in ledger : Key(r) = Key(w.row)}
      agrees == \A r \in same : r.units = w.row.units /\ (w.row.tagged => r.tagged)
  IN
  /\ w.point = "find"
  /\ work' = [work EXCEPT ![q] =
                IF same = {} THEN [w EXCEPT !.point = "insert", !.base = Balance,
                                            !.beaten = FALSE]
                ELSE IF agrees THEN Recorded(w)
                ELSE Idle]
  /\ UNCHANGED <<store, active, intents, history>>

InsertUnindexed(q) ==
  LET w == work[q] IN
  /\ w.point = "insert"
  /\ work' = [work EXCEPT ![q].point = IF w.row.source.batch THEN "commit" ELSE "sum"]
  /\ UNCHANGED <<store, active, intents, history>>

(* The insert waits for a transaction that has inserted the same identity  *)
(* and fails if that one commits.                                          *)
Insert(q) ==
  LET w == work[q] IN
  /\ w.point = "insert"
  /\ \A p \in Requests \ {q} :
       work[p].point \in {"sum", "commit"} => Identity(work[p].row) # Identity(w.row)
  /\ work' = [work EXCEPT ![q] =
                IF \E r \in ledger : Identity(r) = Identity(w.row) THEN Idle
                ELSE [w EXCEPT !.point = IF w.row.source.batch THEN "commit" ELSE "sum"]]
  /\ UNCHANGED <<store, active, intents, history>>

(* Sums what is committed when the statement runs (updateProjection, and   *)
(* rebuildProjection, which have no row of their own or theirs inserted).  *)
Sum(q) ==
  /\ work[q].point = "sum"
  /\ work' = [work EXCEPT ![q] = [@ EXCEPT !.point = "commit", !.base = Balance,
                                           !.beaten = FALSE]]
  /\ UNCHANGED <<store, active, intents, history>>

(* The transaction of an append commits: the row is there and the sums are *)
(* saved as read.  A SERIALIZABLE one fails instead when a row it saves    *)
(* was saved by another meanwhile.                                         *)
Commit(q) ==
  LET w == work[q]
      row == [w.row EXCEPT !.copy = Cardinality({r \in ledger : Identity(r) = Identity(w.row)})]
  IN
  /\ w.point = "commit" /\ w.op \notin {"rebuild", "backfill"}
  /\ IF w.row.source.batch /\ w.beaten
     THEN work' = [work EXCEPT ![q] = Idle] /\ UNCHANGED <<store, drift>>
     ELSE /\ ledger' = ledger \cup {row}
          /\ projection' = IF row.tagged
                           THEN [exists |-> TRUE, balance |-> w.base + row.units]
                           ELSE projection
          /\ drift' = IF row.tagged THEN Drift(w) ELSE drift
          /\ work' = [Overtaken(q) EXCEPT ![q] = Recorded(w)]
  /\ UNCHANGED <<active, intents, reversed>>

-----------------------------------------------------------------------------
(* rebuildProjection, and commitBackfill: scan, attribute and rebuild are  *)
(* three transactions.                                                     *)
Rebuild(q) ==
  /\ work[q] = Idle
  /\ work' = [work EXCEPT ![q] = [Idle EXCEPT !.op = "rebuild", !.point = "sum"]]
  /\ UNCHANGED <<store, active, intents, history>>

RebuildCommitAdding(q) ==
  /\ work[q].point = "commit" /\ work[q].op \in {"rebuild", "backfill"}
  /\ projection' = [exists |-> TRUE, balance |-> projection.balance + work[q].base]
  /\ drift' = Drift(work[q])
  /\ work' = [Overtaken(q) EXCEPT ![q] = Idle]
  /\ UNCHANGED <<ledger, active, intents, reversed>>

RebuildCommit(q) ==
  /\ work[q].point = "commit" /\ work[q].op \in {"rebuild", "backfill"}
  /\ projection' = [exists |-> TRUE, balance |-> work[q].base]
  /\ drift' = Drift(work[q])
  /\ work' = [Overtaken(q) EXCEPT ![q] = Idle]
  /\ UNCHANGED <<ledger, active, intents, reversed>>

(* The scan only looks for movements without a program.                    *)
BackfillScan(q) ==
  /\ work[q] = Idle /\ active
  /\ IF \A r \in ledger : r.tagged
     THEN UNCHANGED work
     ELSE work' = [work EXCEPT ![q] = [Idle EXCEPT !.op = "backfill", !.point = "attribute"]]
  /\ UNCHANGED <<store, active, intents, history>>

BackfillAttribute(q) ==
  /\ work[q].point = "attribute"
  /\ ledger' = {[r EXCEPT !.tagged = TRUE] : r \in ledger}
  /\ drift' = "attributed"
  /\ work' = [Overtaken(q) EXCEPT ![q].point = "sum"]
  /\ UNCHANGED <<projection, active, intents, reversed>>

-----------------------------------------------------------------------------
(* createRedemptionIntent: the balance is read in a transaction of its     *)
(* own; then the intents are searched and the new one set without a pause. *)
(* Its id is a fresh one: here the next in order.                          *)
ReadBalance(q) ==
  /\ work[q] = Idle /\ active
  /\ \E t \in Tickets, cost \in Costs :
       /\ projection.exists /\ cost <= projection.balance
       /\ work' = [work EXCEPT ![q] =
                     [Idle EXCEPT !.op = "create", !.point = "create",
                                  !.row.ticket = t, !.row.units = -cost]]
  /\ UNCHANGED <<store, active, intents, history>>

CreateIntent(q) ==
  LET w == work[q] IN
  /\ w.point = "create"
  /\ work' = [work EXCEPT ![q] = Idle]
  /\ IF \E i \in IntentIds :
          intents[i].ticket = w.row.ticket /\ intents[i].status \in {"pending", "consumed"}
     THEN UNCHANGED intents
     ELSE \E i \in IntentIds :
            /\ intents[i] = NoIntent /\ \A j \in 1..(i - 1) : intents[j] # NoIntent
            /\ intents' = [intents EXCEPT ![i] =
                             [status |-> "pending", ticket |-> w.row.ticket,
                              cost |-> -w.row.units]]
  /\ UNCHANGED <<store, active, history>>

(* consolidateRedemption: the status is looked at before the append and    *)
(* set after it.                                                           *)
Consolidate(q) ==
  /\ work[q] = Idle
  /\ \E i \in IntentIds :
       /\ intents[i].status = "pending"
       /\ work' = [work EXCEPT ![q] =
                     [Idle EXCEPT !.op = "redeem", !.point = "find", !.intent = i,
                                  !.row = [NoRow EXCEPT
                                             !.kind = "redeem", !.source = Cloud,
                                             !.ticket = intents[i].ticket,
                                             !.units = -intents[i].cost, !.tagged = TRUE]]]
  /\ UNCHANGED <<store, active, intents, history>>

(* The append may have failed.                                             *)
MarkConsumedAnyway(q) ==
  /\ work[q].op = "redeem" /\ work[q].point \in {"recorded", "insert"}
  /\ intents' = [intents EXCEPT ![work[q].intent].status = "consumed"]
  /\ work' = [work EXCEPT ![q] = Idle]
  /\ UNCHANGED <<store, active, history>>

MarkConsumed(q) ==
  /\ work[q].point = "recorded"
  /\ intents' = [intents EXCEPT ![work[q].intent].status = "consumed"]
  /\ work' = [work EXCEPT ![q] = Idle]
  /\ UNCHANGED <<store, active, history>>

VoidIntent(i) ==
  /\ intents[i].status = "pending"
  /\ intents' = [intents EXCEPT ![i].status = "voided"]
  /\ UNCHANGED <<store, active, work, history>>

(* reverseTicketLoyalty: one read of what is to be reversed, then one      *)
(* append per movement; an append that fails ends the request.             *)
ReadMovements(q) ==
  /\ work[q] = Idle
  /\ \E t \in Tickets :
       LET found == {m \in ledger : m.ticket = t /\ m.kind \in {"earn", "redeem"}
                                    /\ ~IsReversed(m)}
       IN /\ found # {}
          /\ work' = [work EXCEPT ![q] =
                        [Idle EXCEPT !.op = "reverse", !.point = "reverse",
                                     !.todo = found, !.found = found]]
  /\ UNCHANGED <<store, active, intents, history>>

ReverseNext(q) ==
  LET w == work[q] IN
  /\ w.point = "reverse"
  /\ \E m \in w.todo :
       work' = [work EXCEPT ![q] =
                  [w EXCEPT !.point = "find", !.todo = w.todo \ {m},
                            !.row = [NoRow EXCEPT
                                       !.kind = "reversal", !.source = Cloud,
                                       !.ticket = m.ticket, !.of = m.kind,
                                       !.units = -m.units, !.tagged = m.tagged]]]
  /\ UNCHANGED <<store, active, intents, history>>

ReverseDoneEarly(q) ==
  /\ work[q].point = "reverse"
  /\ reversed' = reversed \cup work[q].found
  /\ work' = [work EXCEPT ![q] = Idle]
  /\ UNCHANGED <<store, active, intents, drift>>

ReverseDone(q) ==
  /\ work[q].point = "reverse" /\ work[q].todo = {}
  /\ reversed' = reversed \cup work[q].found
  /\ work' = [work EXCEPT ![q] = Idle]
  /\ UNCHANGED <<store, active, intents, drift>>

-----------------------------------------------------------------------------
(* The operator changes the program's status; requests that have looked at *)
(* it go on with what they saw.                                            *)
ActivateProgram ==
  /\ ~active
  /\ active' = TRUE
  /\ UNCHANGED <<store, intents, work, history>>

DeactivateProgram ==
  /\ active
  /\ active' = FALSE
  /\ UNCHANGED <<store, intents, work, history>>

(* The process dies: open transactions roll back and the intents are gone. *)
Crash ==
  /\ work' = [q \in Requests |-> Idle]
  /\ intents' = [i \in IntentIds |-> NoIntent]
  /\ UNCHANGED <<store, active, history>>

Next ==
  \/ \E q \in Requests :
       \/ PosRecord(q) \/ ResolveProgram(q) \/ Find(q) \/ Insert(q) \/ Sum(q) \/ Commit(q)
       \/ Rebuild(q) \/ RebuildCommit(q) \/ BackfillScan(q) \/ BackfillAttribute(q)
       \/ ReadBalance(q) \/ CreateIntent(q) \/ Consolidate(q) \/ MarkConsumed(q)
       \/ ReadMovements(q) \/ ReverseNext(q) \/ ReverseDone(q)
  \/ \E i \in IntentIds : VoidIntent(i)
  \/ ActivateProgram \/ DeactivateProgram
  \/ Crash

Spec == Init /\ [][Next]_vars

-----------------------------------------------------------------------------
Rows ==
  [kind : Kinds, source : Channels \cup {Cloud}, ticket : Tickets,
   of : {"none", "earn", "redeem"}, units : Int, tagged : BOOLEAN, copy : {0}]

(* The rows of the ledger are one per identity (copy 0), whatever appends  *)
(* them at once.                                                           *)
TypeOK ==
  /\ ledger \subseteq Rows
  /\ projection \in [exists : BOOLEAN, balance : Int]
  /\ active \in BOOLEAN
  /\ intents \in [IntentIds ->
                   {NoIntent} \cup [status : {"pending", "consumed", "voided"},
                                   ticket : Tickets, cost : Costs]]
  /\ DOMAIN work = Requests
  /\ \A q \in Requests :
       /\ work[q].op \in {"none", "pos", "rebuild", "backfill", "create", "redeem", "reverse"}
       /\ work[q].point \in {"idle", "resolve", "find", "insert", "sum", "commit", "attribute",
                             "create", "recorded", "reverse"}
       /\ work[q].base \in Int /\ work[q].beaten \in BOOLEAN
       /\ work[q].intent \in {0} \cup IntentIds
       /\ work[q].todo \subseteq work[q].found
  /\ drift \in {"none", "overtaken", "attributed"}

(* A movement is reversed at most once and by its own amount, whoever      *)
(* reverses the ticket at the same time and whatever died half way.        *)
ReversedOnce ==
  \A m \in {r \in ledger : r.kind # "reversal"} :
    LET reversals == {r \in ledger : r.kind = "reversal" /\ r.ticket = m.ticket
                                     /\ r.of = m.kind}
    IN /\ Cardinality(reversals) <= 1
       /\ \A r \in reversals : r.units = -m.units

(* A reversal that was answered has reversed all it had found.             *)
ReversalIsComplete == \A m \in reversed : IsReversed(m)

(* A consumed intent has been paid for: the ticket has its REDEEM.         *)
ConsumedIsSpent ==
  \A i \in IntentIds : intents[i].status = "consumed" =>
    \E r \in ledger : r.kind = "redeem" /\ r.ticket = intents[i].ticket
                      /\ r.units = -intents[i].cost

(* The projection is the sum of the ledger unless its last writer was      *)
(* overtaken by another transaction or a backfill stopped half way: these  *)
(* are the only two ways for it to drift, and the next undisturbed write   *)
(* repairs both.                                                           *)
ProjectionFollowsLedger == drift = "none" => projection.balance = Balance
=============================================================================
