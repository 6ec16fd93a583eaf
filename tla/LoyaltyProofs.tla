---------------------------- MODULE LoyaltyProofs ----------------------------
(***************************************************************************)
(* What holds of the loyalty ledger for any tickets, costs, channels and   *)
(* number of requests: movements are reversed once, a reversal that was    *)
(* answered is complete, a consumed intent was paid for, and the           *)
(* projection is the sum of the ledger unless one of two things happened.  *)
(* The sums come first: a fold over a set does not depend on its order.    *)
(***************************************************************************)
EXTENDS Loyalty, FiniteSetTheorems, TLAPS

(* Sums over sets.  The library folds a set element by element, in an      *)
(* order that is chosen; the lemmas say that the fold is well defined and  *)
(* that the order does not matter.                                         *)
Pick(s) == CHOOSE x \in s : TRUE

Sums(g, S) ==
  g = [s \in SUBSET S |-> IF s = {} THEN 0 ELSE Pick(s).units + g[s \ {Pick(s)}]]

LEMMA TotalDef == ASSUME NEW S PROVE Total(S) = (CHOOSE g : Sums(g, S))[S]
BY DEF Total, MapThenSumSet, MapThenFoldSet, Sums, Pick

LEMMA Picked == ASSUME NEW S, S # {} PROVE Pick(S) \in S
BY DEF Pick

(* What fails of some subset of a finite set fails of a smallest one.      *)
LEMMA Smallest ==
  ASSUME NEW S, IsFiniteSet(S), NEW B \in SUBSET (SUBSET S), B # {}
  PROVE  \E T \in B : \A U \in B : U \subseteq T => U = T
<1>1. IsWellFoundedOn(StrictSubsetOrdering(S), SUBSET S)
  BY FS_StrictSubsetOrderingWellFounded, FS_FiniteSubsetsOfFinite
<1>2. PICK T \in B : \A U \in B : <<U, T>> \notin StrictSubsetOrdering(S)
  BY <1>1, WFMin
<1>3. ASSUME NEW U \in B, U \subseteq T, U # T PROVE FALSE
  <2>1. <<U, T>> \in StrictSubsetOrdering(S)
    BY <1>3 DEF StrictSubsetOrdering
  <2> QED BY <1>2, <2>1
<1> QED BY <1>3

(* Two ways to sum the subsets of two sets agree on the subsets of both.   *)
LEMMA SumsAgree ==
  ASSUME NEW S, NEW R \in SUBSET S, NEW g, NEW h, IsFiniteSet(R), Sums(g, S), Sums(h, R)
  PROVE  \A T \in SUBSET R : g[T] = h[T]
<1> DEFINE B == {T \in SUBSET R : g[T] # h[T]}
<1> SUFFICES ASSUME B # {} PROVE FALSE
  OBVIOUS
<1>1. PICK T \in B : \A U \in B : U \subseteq T => U = T
  <2>1. B \in SUBSET (SUBSET R)
    OBVIOUS
  <2> HIDE DEF B
  <2> QED BY <2>1, Smallest
<1>2. T # {}
  BY <1>1 DEF Sums
<1>3. Pick(T) \in T
  BY <1>2, Picked
<1>4. T \ {Pick(T)} \in SUBSET R /\ T \ {Pick(T)} \subseteq T /\ T \ {Pick(T)} # T
  BY <1>1, <1>3
<1>5. g[T \ {Pick(T)}] = h[T \ {Pick(T)}]
  BY <1>1, <1>4
<1>6. g[T] = Pick(T).units + g[T \ {Pick(T)}]
  BY <1>1, <1>2 DEF Sums
<1>7. h[T] = Pick(T).units + h[T \ {Pick(T)}]
  BY <1>1, <1>2 DEF Sums
<1> QED BY <1>1, <1>5, <1>6, <1>7

LEMMA TotalOfSums ==
  ASSUME NEW S, IsFiniteSet(S), NEW g, Sums(g, S), NEW T \in SUBSET S, NEW h, Sums(h, T)
  PROVE  Total(T) = g[T]
<1>1. IsFiniteSet(T)
  BY FS_Subset
<1> DEFINE f == CHOOSE f : Sums(f, T)
<1>2. Sums(f, T)
  OBVIOUS
<1>3. Total(T) = f[T]
  BY TotalDef
<1> HIDE DEF f
<1>4. g[T] = f[T]
  BY <1>1, <1>2, SumsAgree
<1> QED BY <1>3, <1>4

(* The subsets of a finite set can be summed.                              *)
LEMMA CanBeSummed ==
  ASSUME NEW S, IsFiniteSet(S)
  PROVE  \E g : Sums(g, S)
<1> DEFINE B == {T \in SUBSET S : ~ \E g : Sums(g, T)}
<1> SUFFICES ASSUME B # {} PROVE FALSE
  OBVIOUS
<1>1. PICK T \in B : \A U \in B : U \subseteq T => U = T
  <2>1. B \in SUBSET (SUBSET S)
    OBVIOUS
  <2> HIDE DEF B
  <2> QED BY <2>1, Smallest
<1>2. ASSUME NEW U \in SUBSET T, U # T PROVE \E g : Sums(g, U)
  BY <1>1, <1>2
<1> DEFINE g == [s \in SUBSET T |-> IF s = {} THEN 0
                                   ELSE Pick(s).units + Total(s \ {Pick(s)})]
<1>3. ASSUME NEW s \in SUBSET T, s # {} PROVE Total(s \ {Pick(s)}) = g[s \ {Pick(s)}]
  <2> DEFINE U == s \ {Pick(s)}
  <2>1. Pick(s) \in s
    BY <1>3, Picked
  <2>2. U \in SUBSET T /\ U # T
    BY <2>1
  <2> HIDE DEF U
  <2>3. PICK h : Sums(h, U)
    BY <1>2, <2>2
  <2>4. IsFiniteSet(T) /\ IsFiniteSet(U)
    BY <1>1, <2>2, FS_Subset
  <2>5. Total(U) = h[U]
    BY <2>3, <2>4, TotalOfSums
  <2>6. CASE U = {}
    BY <2>3, <2>5, <2>6 DEF Sums, U
  <2>7. CASE U # {}
    <3>1. Pick(U) \in U
      BY <2>7, Picked
    <3>2. U \ {Pick(U)} \in SUBSET U /\ U \ {Pick(U)} \in SUBSET T /\ U \ {Pick(U)} # T
      BY <2>2, <3>1
    <3>3. PICK f : Sums(f, U \ {Pick(U)})
      BY <1>2, <3>2
    <3>4. Total(U \ {Pick(U)}) = h[U \ {Pick(U)}]
      BY <2>3, <2>4, <3>2, <3>3, TotalOfSums
    <3>5. h[U] = Pick(U).units + h[U \ {Pick(U)}]
      BY <2>3, <2>7 DEF Sums
    <3>6. g[U] = Pick(U).units + Total(U \ {Pick(U)})
      BY <2>2, <2>7
    <3> QED BY <2>5, <3>4, <3>5, <3>6 DEF U
  <2> QED BY <2>6, <2>7
<1>4. g = [s \in SUBSET T |-> IF s = {} THEN 0 ELSE Pick(s).units + g[s \ {Pick(s)}]]
  BY <1>3
<1>5. Sums(g, T)
  BY <1>4 DEF Sums
<1> QED BY <1>1, <1>5

(* The equation of the fold.                                               *)
LEMMA TotalEmpty == Total({}) = 0
<1>1. PICK g : Sums(g, {})
  BY CanBeSummed, FS_EmptySet
<1>2. Total({}) = g[{}]
  BY <1>1, FS_EmptySet, TotalOfSums
<1> QED BY <1>1, <1>2 DEF Sums

LEMMA TotalPick ==
  ASSUME NEW S, IsFiniteSet(S), S # {}
  PROVE  Total(S) = Pick(S).units + Total(S \ {Pick(S)})
<1>1. PICK g : Sums(g, S)
  BY CanBeSummed
<1>2. S \ {Pick(S)} \in SUBSET S
  OBVIOUS
<1>3. IsFiniteSet(S \ {Pick(S)})
  BY <1>2, FS_Subset
<1>4. PICK h : Sums(h, S \ {Pick(S)})
  BY <1>3, CanBeSummed
<1>5. Total(S) = g[S] /\ Total(S \ {Pick(S)}) = g[S \ {Pick(S)}]
  BY <1>1, <1>2, <1>4, TotalOfSums
<1>6. g[S] = Pick(S).units + g[S \ {Pick(S)}]
  BY <1>1 DEF Sums
<1> QED BY <1>5, <1>6

LEMMA TotalInt ==
  ASSUME NEW S, IsFiniteSet(S), \A r \in S : r.units \in Int
  PROVE  Total(S) \in Int
<1> DEFINE B == {T \in SUBSET S : Total(T) \notin Int}
<1> SUFFICES ASSUME B # {} PROVE FALSE
  OBVIOUS
<1>1. PICK T \in B : \A U \in B : U \subseteq T => U = T
  <2>1. B \in SUBSET (SUBSET S)
    OBVIOUS
  <2> HIDE DEF B
  <2> QED BY <2>1, Smallest
<1>2. Total(T) \notin Int /\ T \in SUBSET S
  BY <1>1
<1>3. T # {} /\ IsFiniteSet(T)
  <2>1. T # {}
    BY <1>2, TotalEmpty
  <2> QED BY <1>2, <2>1, FS_Subset
<1>4. Pick(T) \in T
  BY <1>3, Picked
<1>5. T \ {Pick(T)} \in SUBSET S /\ T \ {Pick(T)} \subseteq T /\ T \ {Pick(T)} # T
  BY <1>1, <1>4
<1>6. Total(T \ {Pick(T)}) \in Int
  BY <1>1, <1>5
<1>7. Pick(T).units \in Int
  BY <1>1, <1>4
<1>8. Total(T) = Pick(T).units + Total(T \ {Pick(T)})
  BY <1>3, TotalPick
<1> QED BY <1>2, <1>6, <1>7, <1>8

(* Any element may be taken first.                                         *)
LEMMA TotalRemove ==
  ASSUME NEW S, IsFiniteSet(S), \A r \in S : r.units \in Int, NEW x \in S
  PROVE  Total(S) = x.units + Total(S \ {x})
<1> DEFINE B == {T \in SUBSET S : \E y \in T : Total(T) # y.units + Total(T \ {y})}
<1> SUFFICES ASSUME B # {} PROVE FALSE
  OBVIOUS
<1>1. PICK T \in B : \A U \in B : U \subseteq T => U = T
  <2>1. B \in SUBSET (SUBSET S)
    OBVIOUS
  <2> HIDE DEF B
  <2> QED BY <2>1, Smallest
<1>2. PICK y \in T : Total(T) # y.units + Total(T \ {y})
  BY <1>1
<1> DEFINE p == Pick(T)
<1>3. p \in T /\ T # {}
  BY <1>2, Picked
<1> HIDE DEF p
<1>4. IsFiniteSet(T) /\ IsFiniteSet(T \ {y}) /\ IsFiniteSet(T \ {p})
      /\ IsFiniteSet((T \ {p}) \ {y})
  BY <1>1, FS_Subset, FS_RemoveElement
<1>5. Total(T) = p.units + Total(T \ {p})
  BY <1>3, <1>4, TotalPick DEF p
<1>6. p # y
  BY <1>2, <1>5
<1>7. T \ {p} \notin B /\ T \ {y} \notin B
  BY <1>1, <1>2, <1>3
<1>8. y \in T \ {p} /\ p \in T \ {y} /\ T \ {p} \in SUBSET S /\ T \ {y} \in SUBSET S
  BY <1>1, <1>2, <1>3, <1>6
<1>9. Total(T \ {p}) = y.units + Total((T \ {p}) \ {y})
  BY <1>7, <1>8
<1>10. Total(T \ {y}) = p.units + Total((T \ {y}) \ {p})
  BY <1>7, <1>8
<1>11. (T \ {p}) \ {y} = (T \ {y}) \ {p}
  OBVIOUS
<1>12. p.units \in Int /\ y.units \in Int
  BY <1>1, <1>2, <1>3
<1>13. Total((T \ {p}) \ {y}) \in Int
  BY <1>1, <1>4, TotalInt
<1>14. Total(T) = p.units + (y.units + Total((T \ {p}) \ {y}))
  BY <1>5, <1>9
<1>15. Total(T \ {y}) = p.units + Total((T \ {p}) \ {y})
  BY <1>10, <1>11
<1>16. Total(T) = y.units + Total(T \ {y})
  BY <1>12, <1>13, <1>14, <1>15
<1> QED BY <1>2, <1>16

LEMMA TotalAdd ==
  ASSUME NEW S, IsFiniteSet(S), NEW x, x \notin S, \A r \in S \union {x} : r.units \in Int
  PROVE  Total(S \union {x}) = Total(S) + x.units
<1>1. IsFiniteSet(S \union {x}) /\ (S \union {x}) \ {x} = S
  BY FS_AddElement
<1>2. Total(S \union {x}) = x.units + Total(S)
  BY <1>1, TotalRemove
<1>3. x.units \in Int /\ Total(S) \in Int
  BY TotalInt
<1> QED BY <1>2, <1>3

-----------------------------------------------------------------------------
Appends == {"pos", "redeem", "reverse"}

Recording(w) == w.op \in Appends /\ w.point \in {"find", "insert", "sum", "commit"}

(* Inserted in a transaction that is still open.                           *)
Pending(w) == w.op \in Appends /\ w.point \in {"sum", "commit"}

Phase(w) ==
  \/ w.op = "none" /\ w.point = "idle"
  \/ w.op = "create" /\ w.point = "create"
  \/ w.op = "rebuild" /\ w.point \in {"sum", "commit"}
  \/ w.op = "backfill" /\ w.point \in {"attribute", "sum", "commit"}
  \/ w.op = "pos" /\ w.point = "resolve"
  \/ w.op = "redeem" /\ w.point = "recorded"
  \/ w.op = "reverse" /\ w.point = "reverse"
  \/ Recording(w)

(* What a request appends.                                                 *)
Appended(w) ==
  /\ Recording(w) \/ w.op = "pos" => w.row \in Rows
  /\ w.op = "pos" => w.row.kind \in {"earn", "redeem"} /\ w.row.of = "none"
  /\ w.op = "redeem" => w.row.kind = "redeem" /\ w.row.of = "none" /\ w.row.source = Cloud
  /\ w.op = "reverse" /\ Recording(w) => w.row.kind = "reversal"
  /\ w.op = "create" => w.row.ticket \in Tickets /\ -w.row.units \in Costs

Spent(i) ==
  \E r \in ledger : r.kind = "redeem" /\ r.ticket = intents[i].ticket
                    /\ r.units = -intents[i].cost

(* A consolidation stays with its intent.                                  *)
Consolidating(w) ==
  w.op = "redeem" =>
    /\ w.intent \in IntentIds /\ intents[w.intent].status # "none"
    /\ w.row.ticket = intents[w.intent].ticket /\ w.row.units = -intents[w.intent].cost
    /\ w.point = "recorded" => Spent(w.intent)

InLedger(m) ==
  \E s \in ledger : s.kind = m.kind /\ s.ticket = m.ticket /\ s.units = m.units

(* A reversal has found movements that stay in the ledger, and has reversed*)
(* all it has taken up but the one it is appending for.                    *)
Reversing(w) ==
  w.op = "reverse" =>
    /\ w.todo \subseteq w.found /\ w.found \subseteq Rows
    /\ \A m \in w.found : m.kind \in {"earn", "redeem"} /\ InLedger(m)
    /\ w.point = "reverse" => \A m \in w.found \ w.todo : IsReversed(m)
    /\ Recording(w) =>
         /\ \E m \in w.found : w.row.of = m.kind /\ w.row.ticket = m.ticket
                               /\ w.row.units = -m.units
         /\ \A m \in w.found \ w.todo :
              IsReversed(m) \/ (m.kind = w.row.of /\ m.ticket = w.row.ticket)

Sound(w) ==
  /\ DOMAIN w = DOMAIN Idle
  /\ Phase(w) /\ Appended(w) /\ Consolidating(w) /\ Reversing(w)
  /\ Pending(w) => \A r \in ledger : Identity(r) # Identity(w.row)

LedgerInv ==
  /\ ledger \subseteq Rows
  /\ \A r, s \in ledger : Identity(r) = Identity(s) => r = s
  /\ \A r \in ledger : r.kind # "reversal" => r.of = "none"
  /\ \A r \in ledger : r.kind = "reversal" =>
       \E m \in ledger : m.kind # "reversal" /\ m.kind = r.of /\ m.ticket = r.ticket
                         /\ r.units = -m.units

IntentsInv ==
  /\ intents \in [IntentIds ->
                   {NoIntent} \cup [status : {"pending", "consumed", "voided"},
                                   ticket : Tickets, cost : Costs]]
  /\ ConsumedIsSpent

WorkInv ==
  /\ work = [q \in Requests |-> work[q]]
  /\ \A q \in Requests : Sound(work[q])
  /\ \A p, q \in Requests :
       p # q /\ Pending(work[p]) /\ Pending(work[q]) =>
         Identity(work[p].row) # Identity(work[q].row)

LoyaltyInv ==
  LedgerInv /\ IntentsInv /\ WorkInv /\ active \in BOOLEAN /\ ReversalIsComplete

-----------------------------------------------------------------------------
(* Movements and intents that were there are there after the step; a       *)
(* backfill may have given a movement its program.                         *)
LedgerKept ==
  \A r \in ledger : \E s \in ledger' :
    s.kind = r.kind /\ s.ticket = r.ticket /\ s.of = r.of /\ s.units = r.units

IntentsKept ==
  \A i \in IntentIds : intents[i].status # "none" =>
    /\ intents'[i].status # "none"
    /\ intents'[i].ticket = intents[i].ticket /\ intents'[i].cost = intents[i].cost

LEMMA FactsKept ==
  ASSUME LedgerKept
  PROVE  /\ \A m : InLedger(m) => InLedger(m)'
         /\ \A m : IsReversed(m) => IsReversed(m)'
<1>1. ASSUME NEW m, InLedger(m) PROVE InLedger(m)'
  BY <1>1 DEF LedgerKept, InLedger
<1>2. ASSUME NEW m, IsReversed(m) PROVE IsReversed(m)'
  BY <1>2 DEF LedgerKept, IsReversed
<1> QED BY <1>1, <1>2

LEMMA SpentKept ==
  ASSUME LedgerKept, IntentsKept, NEW i \in IntentIds, intents[i].status # "none", Spent(i)
  PROVE  Spent(i)'
BY DEF LedgerKept, IntentsKept, Spent

(* A request that only waits, or loses a race, stays what it was.          *)
LEMMA SoundKept ==
  ASSUME LedgerKept, IntentsKept, NEW q \in Requests, Sound(work[q]),
         DOMAIN work'[q] = DOMAIN work[q],
         work'[q].op = work[q].op, work'[q].point = work[q].point,
         work'[q].row = work[q].row, work'[q].intent = work[q].intent,
         work'[q].todo = work[q].todo, work'[q].found = work[q].found,
         Pending(work[q]) => \A r \in ledger' : Identity(r) # Identity(work[q].row)
  PROVE  Sound(work[q])'
<1>1. (DOMAIN work[q] = DOMAIN Idle)' /\ Phase(work[q])' /\ Appended(work[q])'
  BY DEF Sound, Phase, Appended, Recording
<1>2. Consolidating(work[q])'
  BY SpentKept DEF Sound, Consolidating, IntentsKept
<1>3. Reversing(work[q])'
  BY FactsKept DEF Sound, Reversing, Recording
<1>4. Pending(work[q])' => (\A r \in ledger : Identity(r) # Identity(work[q].row))'
  BY DEF Pending, Identity
<1> QED BY <1>1, <1>2, <1>3, <1>4 DEF Sound

(* A step of one request that leaves the tables alone.                     *)
LEMMA LocalStep ==
  ASSUME LoyaltyInv, NEW q \in Requests, UNCHANGED <<ledger, intents, active, reversed>>,
         work' = [work EXCEPT ![q] = work'[q]], Sound(work[q])',
         \A p \in Requests \ {q} :
           Pending(work[p]) /\ Pending(work[q])' =>
             Identity(work[p].row) # Identity(work[q].row)'
  PROVE  LoyaltyInv'
<1>1. LedgerInv' /\ IntentsInv' /\ (active \in BOOLEAN)' /\ ReversalIsComplete'
  BY DEF LoyaltyInv, LedgerInv, IntentsInv, ConsumedIsSpent, ReversalIsComplete, IsReversed
<1>2. LedgerKept /\ IntentsKept
  BY DEF LedgerKept, IntentsKept
<1>3. \A p \in Requests \ {q} : work'[p] = work[p]
  BY DEF LoyaltyInv, WorkInv
<1>4. ASSUME NEW p \in Requests PROVE Sound(work[p])'
  <2>1. CASE p = q
    BY <2>1
  <2>2. CASE p # q
    <3>1. work'[p] = work[p] /\ Sound(work[p])
      BY <1>3, <2>2 DEF LoyaltyInv, WorkInv
    <3>2. Pending(work[p]) => \A r \in ledger' : Identity(r) # Identity(work[p].row)
      BY <3>1 DEF Sound
    <3> QED BY <1>2, <3>1, <3>2, SoundKept
  <2> QED BY <2>1, <2>2
<1>5. (work = [p \in Requests |-> work[p]])'
  BY DEF LoyaltyInv, WorkInv
<1>6. ASSUME NEW p \in Requests, NEW o \in Requests, p # o, Pending(work[p])', Pending(work[o])'
      PROVE  Identity(work[p].row)' # Identity(work[o].row)'
  <2>1. CASE p = q
    BY <1>3, <1>6, <2>1 DEF Pending, Identity
  <2>2. CASE o = q
    BY <1>3, <1>6, <2>2 DEF Pending, Identity
  <2>3. CASE p # q /\ o # q
    BY <1>3, <1>6, <2>3 DEF Pending, Identity, LoyaltyInv, WorkInv
  <2> QED BY <2>1, <2>2, <2>3
<1>7. WorkInv'
  BY <1>4, <1>5, <1>6 DEF WorkInv
<1> QED BY <1>1, <1>7 DEF LoyaltyInv

(* One that starts, is over, or only has nothing in the tables yet.        *)
LEMMA QuietStep ==
  ASSUME LoyaltyInv, NEW q \in Requests, UNCHANGED <<ledger, intents, active, reversed>>,
         work' = [work EXCEPT ![q] = work'[q]], Sound(work[q])',
         ~Pending(work[q])'
  PROVE  LoyaltyInv'
BY LocalStep

-----------------------------------------------------------------------------
(* What a step that is local to a request makes of it.                     *)
LEMMA WorkFacts ==
  ASSUME LoyaltyInv, NEW q \in Requests
  PROVE  /\ Sound(work[q]) /\ DOMAIN work = Requests
         /\ \A v : [work EXCEPT ![q] = v][q] = v
BY DEF LoyaltyInv, WorkInv

LEMMA IdleSound == Sound(Idle) /\ ~Pending(Idle)
BY DEF Sound, Idle, Phase, Appended, Consolidating, Reversing, Recording, Pending, Appends

LEMMA BecomesIdle ==
  ASSUME LoyaltyInv, NEW q \in Requests, UNCHANGED <<ledger, intents, active, reversed>>,
         work' = [work EXCEPT ![q] = Idle]
  PROVE  LoyaltyInv'
<1>1. work'[q] = Idle
  BY WorkFacts
<1>2. Sound(work[q])' /\ ~Pending(work[q])'
  BY <1>1 DEF Sound, Idle, Phase, Appended, Consolidating, Reversing, Recording, Pending, Appends
<1>3. work' = [work EXCEPT ![q] = work'[q]]
  BY <1>1
<1> QED BY <1>2, <1>3, QuietStep

LEMMA PosRecordStep ==
  ASSUME LoyaltyInv, NEW q \in Requests, PosRecord(q)
  PROVE  LoyaltyInv'
<1>1. PICK t \in Tickets, kind \in {"earn", "redeem"}, source \in Channels, cost \in Costs :
        work' = [work EXCEPT ![q] =
                  [Idle EXCEPT !.op = "pos",
                               !.point = IF source.declared THEN "find" ELSE "resolve",
                               !.row = [NoRow EXCEPT
                                          !.kind = kind, !.source = source, !.ticket = t,
                                          !.units = IF kind = "earn" THEN Earned ELSE -cost,
                                          !.tagged = source.declared]]]
  BY DEF PosRecord
<1> DEFINE units == IF kind = "earn" THEN Earned ELSE -cost
           point == IF source.declared THEN "find" ELSE "resolve"
           tagged == source.declared
<1>2. units \in Int /\ point \in {"find", "resolve"} /\ tagged \in BOOLEAN
  BY LoyaltyAssumption
<1> HIDE DEF units, point, tagged
<1> DEFINE row == [NoRow EXCEPT !.kind = kind, !.source = source, !.ticket = t,
                                !.units = units, !.tagged = tagged]
<1>3. row \in [kind : {kind}, source : {source}, ticket : {t}, of : {"none"},
               units : {units}, tagged : {tagged}, copy : {0}]
  BY DEF NoRow
<1>4. work' = [work EXCEPT ![q] = [Idle EXCEPT !.op = "pos", !.point = point, !.row = row]]
  BY <1>1 DEF units, point, tagged
<1> HIDE DEF row
<1> DEFINE v == [Idle EXCEPT !.op = "pos", !.point = point, !.row = row]
<1>5. DOMAIN v = DOMAIN Idle /\ v.op = "pos" /\ v.point = point /\ v.row = row
  BY DEF Idle
<1>6. work' = [work EXCEPT ![q] = v]
  BY <1>4
<1> HIDE DEF v
<1>7. work'[q] = v
  BY <1>6, WorkFacts
<1>8. row \in Rows /\ row.kind \in {"earn", "redeem"} /\ row.of = "none"
  BY <1>2, <1>3 DEF Rows, Kinds
<1>9. Sound(work[q])' /\ ~Pending(work[q])'
  BY <1>2, <1>5, <1>7, <1>8
     DEF Sound, Phase, Appended, Consolidating, Reversing, Recording, Pending, Appends
<1> QED BY <1>6, <1>7, <1>9, QuietStep DEF PosRecord, store, history

LEMMA ResolveProgramStep ==
  ASSUME LoyaltyInv, NEW q \in Requests, ResolveProgram(q)
  PROVE  LoyaltyInv'
<1>1. CASE ~active /\ work[q].row.kind = "earn"
  BY <1>1, BecomesIdle DEF ResolveProgram, store, history
<1>2. CASE active \/ work[q].row.kind # "earn"
  <2>1. work' = [work EXCEPT ![q] = [@ EXCEPT !.point = "find", !.row.tagged = active]]
    BY <1>2 DEF ResolveProgram
  <2>2. work'[q] = [work[q] EXCEPT !.point = "find", !.row.tagged = active]
    BY <2>1, WorkFacts
  <2>3. /\ Sound(work[q]) /\ work[q].op = "pos"
    BY WorkFacts DEF ResolveProgram, Sound, Phase, Recording
  <2>4. /\ DOMAIN work'[q] = DOMAIN Idle /\ work'[q].op = "pos" /\ work'[q].point = "find"
        /\ work'[q].row = [work[q].row EXCEPT !.tagged = active]
    BY <2>2, <2>3 DEF Sound, Idle
  <2>5. work[q].row \in Rows /\ work[q].row.kind \in {"earn", "redeem"} /\ work[q].row.of = "none"
    BY <2>3 DEF Sound, Appended
  <2>6. work'[q].row \in Rows /\ work'[q].row.kind \in {"earn", "redeem"}
        /\ work'[q].row.of = "none"
    BY <2>4, <2>5 DEF Rows, LoyaltyInv
  <2>7. Sound(work[q])' /\ ~Pending(work[q])'
    BY <2>4, <2>6
       DEF Sound, Phase, Appended, Consolidating, Reversing, Recording, Pending, Appends
  <2>8. work' = [work EXCEPT ![q] = work'[q]]
    BY <2>1, <2>2
  <2> QED BY <2>7, <2>8, QuietStep DEF ResolveProgram, store, history
<1> QED BY <1>1, <1>2

(* The point a request stands at tells what it does.                       *)
LEMMA AtFind ==
  ASSUME NEW w, Phase(w), w.point \in {"find", "insert"}
  PROVE  Recording(w)
BY DEF Phase

(* Nothing found: the request goes on to insert its row.                   *)
LEMMA FindNothing ==
  ASSUME LoyaltyInv, NEW q \in Requests, work[q].point = "find",
         work' = [work EXCEPT ![q] = [work[q] EXCEPT !.point = "insert", !.base = Balance,
                                                     !.beaten = FALSE]],
         UNCHANGED <<ledger, intents, active, reversed>>
  PROVE  LoyaltyInv'
<1> DEFINE v == [work[q] EXCEPT !.point = "insert", !.base = Balance, !.beaten = FALSE]
<1>1. Sound(work[q]) /\ Recording(work[q])
  BY WorkFacts, AtFind DEF Sound
<1>2. /\ DOMAIN v = DOMAIN Idle /\ v.op = work[q].op /\ v.point = "insert"
      /\ v.row = work[q].row /\ v.intent = work[q].intent
      /\ v.todo = work[q].todo /\ v.found = work[q].found
  BY <1>1 DEF Sound, Idle
<1>3. work' = [work EXCEPT ![q] = v]
  OBVIOUS
<1> HIDE DEF v
<1>4. work'[q] = v
  BY <1>3, WorkFacts
<1>5. /\ (DOMAIN work[q] = DOMAIN Idle)' /\ Phase(work[q])' /\ Appended(work[q])'
      /\ ~Pending(work[q])'
  BY <1>1, <1>2, <1>4 DEF Sound, Phase, Appended, Recording, Pending
<1>6. Consolidating(work[q])' /\ Reversing(work[q])'
  BY <1>1, <1>2, <1>4
     DEF Sound, Consolidating, Reversing, Recording, Spent, InLedger, IsReversed
<1>7. Sound(work[q])'
  BY <1>5, <1>6 DEF Sound
<1> QED BY <1>3, <1>4, <1>5, <1>7, QuietStep

(* An append that is over leaves its movement in the ledger.               *)
LEMMA RecordedSound ==
  ASSUME LoyaltyInv, LedgerKept, IntentsKept, NEW q \in Requests, Recording(work[q]),
         work'[q] = Recorded(work[q]),
         \E r \in ledger' : /\ r.kind = work[q].row.kind /\ r.ticket = work[q].row.ticket
                            /\ r.of = work[q].row.of
                            /\ work[q].op = "redeem" => r.units = work[q].row.units
  PROVE  Sound(work[q])' /\ ~Pending(work[q])'
<1>1. Sound(work[q])
  BY WorkFacts
<1>2. CASE work[q].op = "pos"
  <2>1. work'[q] = Idle
    BY <1>2 DEF Recorded
  <2> QED
    BY <2>1 DEF Sound, Idle, Phase, Appended, Consolidating, Reversing, Recording, Pending, Appends
<1>3. CASE work[q].op = "redeem"
  <2> DEFINE v == [work[q] EXCEPT !.point = "recorded"]
  <2>1. work'[q] = v
    BY <1>3 DEF Recorded
  <2>2. /\ DOMAIN v = DOMAIN Idle /\ v.op = "redeem" /\ v.point = "recorded"
        /\ v.row = work[q].row /\ v.intent = work[q].intent
    BY <1>1, <1>3 DEF Sound, Idle
  <2> HIDE DEF v
  <2>3. /\ work[q].intent \in IntentIds /\ (intents[work[q].intent].status # "none")'
        /\ work[q].row.ticket = intents'[work[q].intent].ticket
        /\ work[q].row.units = -intents'[work[q].intent].cost
    BY <1>1, <1>3, <2>1, <2>2 DEF Sound, Consolidating, IntentsKept
  <2>4. Spent(work[q].intent)'
    BY <1>1, <1>3, <2>1, <2>2, <2>3 DEF Sound, Appended, Spent
  <2>5. Consolidating(work[q])'
    BY <2>1, <2>2, <2>3, <2>4 DEF Consolidating
  <2> QED BY <1>1, <1>3, <2>1, <2>2, <2>5
             DEF Sound, Phase, Appended, Reversing, Recording, Pending, Appends
<1>4. CASE work[q].op = "reverse"
  <2> DEFINE v == [work[q] EXCEPT !.point = "reverse", !.row = NoRow]
  <2>1. work'[q] = v
    BY <1>4 DEF Recorded
  <2>2. /\ DOMAIN v = DOMAIN Idle /\ v.op = "reverse" /\ v.point = "reverse"
        /\ v.todo = work[q].todo /\ v.found = work[q].found
    BY <1>1, <1>4 DEF Sound, Idle
  <2> HIDE DEF v
  <2>3. work[q].row.kind = "reversal"
    BY <1>1, <1>4 DEF Sound, Appended
  <2>4. \A m \in work[q].found \ work[q].todo : IsReversed(m)'
    <3>1. ASSUME NEW m \in work[q].found \ work[q].todo, IsReversed(m) PROVE IsReversed(m)'
      BY <3>1, FactsKept
    <3>2. ASSUME NEW m \in work[q].found \ work[q].todo,
                 m.kind = work[q].row.of /\ m.ticket = work[q].row.ticket
          PROVE  IsReversed(m)'
      BY <2>3, <3>2 DEF IsReversed
    <3> QED BY <1>1, <1>4, <3>1, <3>2 DEF Sound, Reversing
  <2>5. Reversing(work[q])'
    BY <1>1, <1>4, <2>1, <2>2, <2>4, FactsKept DEF Sound, Reversing, Recording
  <2> QED BY <1>1, <1>4, <2>1, <2>2, <2>5
             DEF Sound, Phase, Appended, Consolidating, Recording, Pending, Appends
<1> QED BY <1>2, <1>3, <1>4 DEF Recording, Appends

LEMMA FindStep ==
  ASSUME LoyaltyInv, NEW q \in Requests, Find(q)
  PROVE  LoyaltyInv'
<1> DEFINE w == work[q]
           same == {r \in ledger : Key(r) = Key(w.row)}
           agrees == \A r \in same : r.units = w.row.units /\ (w.row.tagged => r.tagged)
<1>1. UNCHANGED <<ledger, intents, active, reversed>> /\ w.point = "find"
  BY DEF Find, store, history
<1>2. Sound(w) /\ Recording(w)
  BY <1>1, WorkFacts, AtFind DEF Sound
<1>3. CASE same = {}
  BY <1>1, <1>3, FindNothing DEF Find
<1>4. CASE same # {} /\ agrees
  <2>1. work' = [work EXCEPT ![q] = Recorded(work[q])]
    BY <1>4 DEF Find
  <2>2. PICK r \in ledger : Key(r) = Key(w.row) /\ r \in same
    BY <1>4
  <2>3. r.kind = w.row.kind /\ r.ticket = w.row.ticket /\ r.of = w.row.of
    BY <2>2 DEF Key
  <2>4. r.units = w.row.units
    BY <1>4, <2>2
  <2>5. LedgerKept /\ IntentsKept
    BY <1>1 DEF LedgerKept, IntentsKept
  <2>6. work'[q] = Recorded(work[q])
    BY <2>1, WorkFacts
  <2>7. Sound(work[q])' /\ ~Pending(work[q])'
    BY <1>1, <1>2, <2>2, <2>3, <2>4, <2>5, <2>6, RecordedSound
  <2>8. work' = [work EXCEPT ![q] = work'[q]]
    BY <2>1, <2>6
  <2> QED BY <1>1, <2>7, <2>8, QuietStep
<1>5. CASE same # {} /\ ~agrees
  BY <1>1, <1>5, BecomesIdle DEF Find
<1> QED BY <1>3, <1>4, <1>5

(* The insert waits for the open transactions with the same identity, and  *)
(* fails on a committed one.                                               *)
LEMMA InsertStep ==
  ASSUME LoyaltyInv, NEW q \in Requests, Insert(q)
  PROVE  LoyaltyInv'
<1>1. UNCHANGED <<ledger, intents, active, reversed>> /\ work[q].point = "insert"
  BY DEF Insert, store, history
<1>2. CASE \E r \in ledger : Identity(r) = Identity(work[q].row)
  BY <1>1, <1>2, BecomesIdle DEF Insert
<1>3. CASE ~ \E r \in ledger : Identity(r) = Identity(work[q].row)
  <2> DEFINE point == IF work[q].row.source.batch THEN "commit" ELSE "sum"
             v == [work[q] EXCEPT !.point = point]
  <2>1. work' = [work EXCEPT ![q] = v]
    BY <1>3 DEF Insert
  <2>2. point \in {"sum", "commit"}
    OBVIOUS
  <2> HIDE DEF point
  <2>3. Sound(work[q]) /\ Recording(work[q])
    BY <1>1, WorkFacts, AtFind DEF Sound
  <2>4. /\ DOMAIN v = DOMAIN Idle /\ v.op = work[q].op /\ v.point = point
        /\ v.row = work[q].row /\ v.intent = work[q].intent
        /\ v.todo = work[q].todo /\ v.found = work[q].found
    BY <2>3 DEF Sound, Idle
  <2> HIDE DEF v
  <2>5. work'[q] = v
    BY <2>1, WorkFacts
  <2>6. (DOMAIN work[q] = DOMAIN Idle)' /\ Phase(work[q])' /\ Appended(work[q])'
    BY <2>2, <2>3, <2>4, <2>5 DEF Sound, Phase, Appended, Recording
  <2>7. Consolidating(work[q])' /\ Reversing(work[q])'
    BY <1>1, <2>2, <2>3, <2>4, <2>5
       DEF Sound, Consolidating, Reversing, Recording, Spent, InLedger, IsReversed
  <2>8. (\A r \in ledger : Identity(r) # Identity(work[q].row))'
    BY <1>1, <1>3, <2>4, <2>5 DEF Identity
  <2>9. Sound(work[q])'
    BY <2>6, <2>7, <2>8 DEF Sound
  <2>10. \A p \in Requests \ {q} :
           Pending(work[p]) => Identity(work[p].row) # Identity(work[q].row)'
    <3>1. \A p \in Requests \ {q} :
            work[p].point \in {"sum", "commit"} => Identity(work[p].row) # Identity(work[q].row)
      BY DEF Insert
    <3>2. Identity(work[q].row)' = Identity(work[q].row)
      BY <2>4, <2>5 DEF Identity
    <3> QED BY <3>1, <3>2 DEF Pending
  <2> QED BY <1>1, <2>1, <2>5, <2>9, <2>10, LocalStep
<1> QED BY <1>2, <1>3

LEMMA SumStep ==
  ASSUME LoyaltyInv, NEW q \in Requests, Sum(q)
  PROVE  LoyaltyInv'
<1> DEFINE v == [work[q] EXCEPT !.point = "commit", !.base = Balance, !.beaten = FALSE]
<1>1. work[q].point = "sum" /\ work' = [work EXCEPT ![q] = v]
      /\ UNCHANGED <<ledger, intents, active, reversed>>
  BY DEF Sum, store, history
<1>2. Sound(work[q])
  BY WorkFacts
<1>3. /\ DOMAIN v = DOMAIN Idle /\ v.op = work[q].op /\ v.point = "commit"
      /\ v.row = work[q].row /\ v.intent = work[q].intent
      /\ v.todo = work[q].todo /\ v.found = work[q].found
  BY <1>2 DEF Sound, Idle
<1> HIDE DEF v
<1>4. work'[q] = v
  BY <1>1, WorkFacts
<1>5. (DOMAIN work[q] = DOMAIN Idle)' /\ Phase(work[q])' /\ Appended(work[q])'
  BY <1>1, <1>2, <1>3, <1>4 DEF Sound, Phase, Appended, Recording
<1>6. Consolidating(work[q])' /\ Reversing(work[q])'
  BY <1>1, <1>2, <1>3, <1>4
     DEF Sound, Consolidating, Reversing, Recording, Spent, InLedger, IsReversed
<1>7. Pending(work[q])' => (\A r \in ledger : Identity(r) # Identity(work[q].row))'
  BY <1>1, <1>2, <1>3, <1>4 DEF Sound, Pending, Identity
<1>8. Sound(work[q])'
  BY <1>5, <1>6, <1>7 DEF Sound
<1>9. \A p \in Requests \ {q} :
        Pending(work[p]) /\ Pending(work[q])' => Identity(work[p].row) # Identity(work[q].row)'
  BY <1>1, <1>3, <1>4 DEF Pending, Identity, LoyaltyInv, WorkInv
<1> QED BY <1>1, <1>4, <1>8, <1>9, LocalStep

(* What starts without a row: a rebuild, a backfill, an intent.            *)
LEMMA StartsSound ==
  ASSUME LoyaltyInv, NEW q \in Requests, UNCHANGED <<ledger, intents, active, reversed>>,
         work' = [work EXCEPT ![q] = work'[q]],
         DOMAIN work'[q] = DOMAIN Idle, Phase(work[q])',
         work'[q].op \in {"rebuild", "backfill", "create"},
         work'[q].op = "create" => work'[q].row.ticket \in Tickets /\ -work'[q].row.units \in Costs
  PROVE  LoyaltyInv'
<1>1. Sound(work[q])' /\ ~Pending(work[q])'
  BY DEF Sound, Appended, Consolidating, Reversing, Recording, Pending, Appends
<1> QED BY <1>1, QuietStep

LEMMA RebuildStep ==
  ASSUME LoyaltyInv, NEW q \in Requests, Rebuild(q)
  PROVE  LoyaltyInv'
<1>1. work' = [work EXCEPT ![q] = [Idle EXCEPT !.op = "rebuild", !.point = "sum"]]
      /\ UNCHANGED <<ledger, intents, active, reversed>>
  BY DEF Rebuild, store, history
<1>2. work'[q] = [Idle EXCEPT !.op = "rebuild", !.point = "sum"]
  BY <1>1, WorkFacts
<1>3. DOMAIN work'[q] = DOMAIN Idle /\ work'[q].op = "rebuild" /\ work'[q].point = "sum"
  BY <1>2 DEF Idle
<1>4. Phase(work[q])'
  BY <1>3 DEF Phase
<1>5. work' = [work EXCEPT ![q] = work'[q]]
  BY <1>1, <1>2
<1> QED BY <1>1, <1>3, <1>4, <1>5, StartsSound

LEMMA BackfillScanStep ==
  ASSUME LoyaltyInv, NEW q \in Requests, BackfillScan(q)
  PROVE  LoyaltyInv'
<1>1. UNCHANGED <<ledger, intents, active, reversed>>
  BY DEF BackfillScan, store, history
<1>2. CASE \A r \in ledger : r.tagged
  <2>1. UNCHANGED work
    BY <1>2 DEF BackfillScan
  <2> QED BY <1>1, <2>1 DEF LoyaltyInv, LedgerInv, IntentsInv, WorkInv, ConsumedIsSpent, Sound,
        Phase, Appended, Consolidating, Reversing, Recording, Pending, Spent, InLedger, IsReversed,
        Identity, ReversalIsComplete
<1>3. CASE ~ \A r \in ledger : r.tagged
  <2>1. work' = [work EXCEPT ![q] = [Idle EXCEPT !.op = "backfill", !.point = "attribute"]]
    BY <1>3 DEF BackfillScan
  <2>2. work'[q] = [Idle EXCEPT !.op = "backfill", !.point = "attribute"]
    BY <2>1, WorkFacts
  <2>3. DOMAIN work'[q] = DOMAIN Idle /\ work'[q].op = "backfill"
        /\ work'[q].point = "attribute"
    BY <2>2 DEF Idle
  <2>4. Phase(work[q])'
    BY <2>3 DEF Phase
  <2>5. work' = [work EXCEPT ![q] = work'[q]]
    BY <2>1, <2>2
  <2> QED BY <1>1, <2>3, <2>4, <2>5, StartsSound
<1> QED BY <1>2, <1>3

LEMMA ReadBalanceStep ==
  ASSUME LoyaltyInv, NEW q \in Requests, ReadBalance(q)
  PROVE  LoyaltyInv'
<1>1. PICK t \in Tickets, cost \in Costs :
        work' = [work EXCEPT ![q] = [Idle EXCEPT !.op = "create", !.point = "create",
                                                 !.row.ticket = t, !.row.units = -cost]]
  BY DEF ReadBalance
<1>2. UNCHANGED <<ledger, intents, active, reversed>>
  BY DEF ReadBalance, store, history
<1> DEFINE v == [Idle EXCEPT !.op = "create", !.point = "create",
                             !.row.ticket = t, !.row.units = -cost]
<1>3. DOMAIN v = DOMAIN Idle /\ v.op = "create" /\ v.point = "create"
      /\ v.row.ticket = t /\ v.row.units = -cost
  BY DEF Idle, NoRow
<1>4. work' = [work EXCEPT ![q] = v]
  BY <1>1
<1> HIDE DEF v
<1>5. work'[q] = v
  BY <1>4, WorkFacts
<1>6. -(-cost) \in Costs
  BY LoyaltyAssumption
<1>7. Phase(work[q])'
  BY <1>3, <1>5 DEF Phase
<1> QED BY <1>2, <1>3, <1>4, <1>5, <1>6, <1>7, StartsSound

LEMMA ConsolidateStep ==
  ASSUME LoyaltyInv, NEW q \in Requests, Consolidate(q)
  PROVE  LoyaltyInv'
<1>1. PICK i \in IntentIds :
        /\ intents[i].status = "pending"
        /\ work' = [work EXCEPT ![q] =
                     [Idle EXCEPT !.op = "redeem", !.point = "find", !.intent = i,
                                  !.row = [NoRow EXCEPT
                                             !.kind = "redeem", !.source = Cloud,
                                             !.ticket = intents[i].ticket,
                                             !.units = -intents[i].cost, !.tagged = TRUE]]]
  BY DEF Consolidate
<1>2. UNCHANGED <<ledger, intents, active, reversed>>
  BY DEF Consolidate, store, history
<1> DEFINE ticket == intents[i].ticket
           units == -intents[i].cost
<1>3. ticket \in Tickets /\ units \in Int
  BY <1>1, LoyaltyAssumption DEF LoyaltyInv, IntentsInv, NoIntent
<1>4. (intents[i].status # "none")' /\ (intents[i].ticket)' = ticket
      /\ -intents'[i].cost = units
  BY <1>1, <1>2
<1> HIDE DEF ticket, units
<1> DEFINE row == [NoRow EXCEPT !.kind = "redeem", !.source = Cloud, !.ticket = ticket,
                                !.units = units, !.tagged = TRUE]
<1>5. row \in [kind : {"redeem"}, source : {Cloud}, ticket : {ticket}, of : {"none"},
               units : {units}, tagged : {TRUE}, copy : {0}]
  BY DEF NoRow
<1>6. work' = [work EXCEPT ![q] = [Idle EXCEPT !.op = "redeem", !.point = "find", !.intent = i,
                                               !.row = row]]
  BY <1>1 DEF ticket, units
<1> HIDE DEF row
<1> DEFINE v == [Idle EXCEPT !.op = "redeem", !.point = "find", !.intent = i, !.row = row]
<1>7. DOMAIN v = DOMAIN Idle /\ v.op = "redeem" /\ v.point = "find" /\ v.row = row
      /\ v.intent = i
  BY DEF Idle
<1>8. work' = [work EXCEPT ![q] = v]
  BY <1>6
<1> HIDE DEF v
<1>9. work'[q] = v
  BY <1>8, WorkFacts
<1>10. row \in Rows /\ row.kind = "redeem" /\ row.of = "none" /\ row.source = Cloud
       /\ row.ticket = ticket /\ row.units = units
  BY <1>3, <1>5 DEF Rows, Kinds
<1>11. Consolidating(work[q])'
  BY <1>4, <1>7, <1>9, <1>10 DEF Consolidating
<1>12. Sound(work[q])' /\ ~Pending(work[q])'
  BY <1>7, <1>9, <1>10, <1>11
     DEF Sound, Phase, Appended, Reversing, Recording, Pending, Appends
<1> QED BY <1>2, <1>8, <1>9, <1>12, QuietStep

LEMMA ReadMovementsStep ==
  ASSUME LoyaltyInv, NEW q \in Requests, ReadMovements(q)
  PROVE  LoyaltyInv'
<1>1. PICK t \in Tickets :
        work' = [work EXCEPT ![q] =
                   [Idle EXCEPT !.op = "reverse", !.point = "reverse",
                      !.todo = {m \in ledger : m.ticket = t /\ m.kind \in {"earn", "redeem"}
                                               /\ ~IsReversed(m)},
                      !.found = {m \in ledger : m.ticket = t /\ m.kind \in {"earn", "redeem"}
                                                /\ ~IsReversed(m)}]]
  BY DEF ReadMovements
<1>2. UNCHANGED <<ledger, intents, active, reversed>>
  BY DEF ReadMovements, store, history
<1> DEFINE found == {m \in ledger : m.ticket = t /\ m.kind \in {"earn", "redeem"}
                                    /\ ~IsReversed(m)}
<1>3. \A m \in found : m \in ledger /\ m.kind \in {"earn", "redeem"}
  OBVIOUS
<1>4. work' = [work EXCEPT ![q] = [Idle EXCEPT !.op = "reverse", !.point = "reverse",
                                               !.todo = found, !.found = found]]
  BY <1>1
<1> HIDE DEF found
<1> DEFINE v == [Idle EXCEPT !.op = "reverse", !.point = "reverse",
                             !.todo = found, !.found = found]
<1>5. DOMAIN v = DOMAIN Idle /\ v.op = "reverse" /\ v.point = "reverse"
      /\ v.todo = found /\ v.found = found
  BY DEF Idle
<1>6. work' = [work EXCEPT ![q] = v]
  BY <1>4
<1> HIDE DEF v
<1>7. work'[q] = v
  BY <1>6, WorkFacts
<1>8. found \subseteq Rows /\ \A m \in found : InLedger(m)'
  BY <1>2, <1>3 DEF LoyaltyInv, LedgerInv, InLedger
<1>9. Reversing(work[q])'
  BY <1>3, <1>5, <1>7, <1>8 DEF Reversing, Recording
<1>10. Sound(work[q])' /\ ~Pending(work[q])'
  BY <1>5, <1>7, <1>9
     DEF Sound, Phase, Appended, Consolidating, Recording, Pending, Appends
<1> QED BY <1>2, <1>6, <1>7, <1>10, QuietStep

LEMMA ReverseNextStep ==
  ASSUME LoyaltyInv, NEW q \in Requests, ReverseNext(q)
  PROVE  LoyaltyInv'
<1>1. PICK m \in work[q].todo :
        work' = [work EXCEPT ![q] =
                   [work[q] EXCEPT !.point = "find", !.todo = work[q].todo \ {m},
                                   !.row = [NoRow EXCEPT
                                              !.kind = "reversal", !.source = Cloud,
                                              !.ticket = m.ticket, !.of = m.kind,
                                              !.units = -m.units, !.tagged = m.tagged]]]
  BY DEF ReverseNext
<1>2. UNCHANGED <<ledger, intents, active, reversed>> /\ work[q].point = "reverse"
  BY DEF ReverseNext, store, history
<1>3. Sound(work[q]) /\ work[q].op = "reverse"
  BY <1>2, WorkFacts DEF Sound, Phase, Recording
<1> DEFINE ticket == m.ticket
           of == m.kind
           units == -m.units
           tagged == m.tagged
<1>4. /\ m \in work[q].found /\ ticket \in Tickets /\ of \in {"earn", "redeem"}
      /\ units \in Int /\ tagged \in BOOLEAN
  BY <1>3 DEF Sound, Reversing, Rows
<1>5. m.ticket = ticket /\ m.kind = of /\ -m.units = units
  OBVIOUS
<1> HIDE DEF ticket, of, units, tagged
<1> DEFINE row == [NoRow EXCEPT !.kind = "reversal", !.source = Cloud, !.ticket = ticket,
                                !.of = of, !.units = units, !.tagged = tagged]
<1>6. row \in [kind : {"reversal"}, source : {Cloud}, ticket : {ticket}, of : {of},
               units : {units}, tagged : {tagged}, copy : {0}]
  BY DEF NoRow
<1>7. work' = [work EXCEPT ![q] = [work[q] EXCEPT !.point = "find", !.todo = work[q].todo \ {m},
                                                  !.row = row]]
  BY <1>1 DEF ticket, of, units, tagged
<1> HIDE DEF row
<1> DEFINE v == [work[q] EXCEPT !.point = "find", !.todo = work[q].todo \ {m}, !.row = row]
<1>8. DOMAIN v = DOMAIN Idle /\ v.op = "reverse" /\ v.point = "find" /\ v.row = row
      /\ v.todo = work[q].todo \ {m} /\ v.found = work[q].found
  BY <1>3 DEF Sound, Idle
<1>9. work' = [work EXCEPT ![q] = v]
  BY <1>7
<1> HIDE DEF v
<1>10. work'[q] = v
  BY <1>9, WorkFacts
<1>11. row \in Rows /\ row.kind = "reversal" /\ row.of = of /\ row.ticket = ticket
       /\ row.units = units
  BY <1>4, <1>6 DEF Rows, Kinds
<1>12. Reversing(work[q])'
  <2>1. \A x \in work[q].found : x.kind \in {"earn", "redeem"} /\ InLedger(x)'
    BY <1>2, <1>3 DEF Sound, Reversing, InLedger
  <2>2. \A x \in work[q].found \ (work[q].todo \ {m}) :
          IsReversed(x)' \/ (x.kind = row.of /\ x.ticket = row.ticket)
    BY <1>2, <1>3, <1>5, <1>11 DEF Sound, Reversing, IsReversed
  <2> QED BY <1>3, <1>4, <1>5, <1>8, <1>10, <1>11, <2>1, <2>2 DEF Sound, Reversing
<1>13. Sound(work[q])' /\ ~Pending(work[q])'
  BY <1>8, <1>10, <1>11, <1>12
     DEF Sound, Phase, Appended, Consolidating, Recording, Pending, Appends
<1> QED BY <1>2, <1>9, <1>10, <1>13, QuietStep

-----------------------------------------------------------------------------
(* Steps that change the tables.  Every other request stays what it was,   *)
(* except that it may have been overtaken.                                 *)
Stays(p) ==
  /\ DOMAIN work'[p] = DOMAIN work[p]
  /\ work'[p].op = work[p].op /\ work'[p].point = work[p].point
  /\ work'[p].row = work[p].row /\ work'[p].intent = work[p].intent
  /\ work'[p].todo = work[p].todo /\ work'[p].found = work[p].found

LEMMA WorkKept ==
  ASSUME LoyaltyInv, LedgerKept, IntentsKept,
         (work = [p \in Requests |-> work[p]])',
         \A p \in Requests :
           \/ Stays(p) /\ (Pending(work[p]) =>
                             \A r \in ledger' : Identity(r) # Identity(work[p].row))
           \/ Sound(work[p])' /\ ~Pending(work[p])'
  PROVE  WorkInv'
<1>1. ASSUME NEW p \in Requests PROVE Sound(work[p])'
  <2>1. CASE Sound(work[p])'
    BY <2>1
  <2>2. CASE Stays(p) /\ (Pending(work[p]) =>
                            \A r \in ledger' : Identity(r) # Identity(work[p].row))
    BY <2>2, WorkFacts, SoundKept DEF Stays
  <2> QED BY <2>1, <2>2
<1>2. ASSUME NEW p \in Requests, NEW o \in Requests, p # o, Pending(work[p])', Pending(work[o])'
      PROVE  Identity(work[p].row)' # Identity(work[o].row)'
  <2>1. Stays(p) /\ Stays(o)
    BY <1>2
  <2> QED BY <1>2, <2>1 DEF Stays, Pending, Identity, LoyaltyInv, WorkInv
<1> QED BY <1>1, <1>2 DEF WorkInv

LEMMA OvertakenStays ==
  ASSUME LoyaltyInv, NEW q \in Requests, NEW p \in Requests, work'[p] = Overtaken(q)[p]
  PROVE  Stays(p)
<1>1. DOMAIN work[p] = DOMAIN Idle
  BY WorkFacts DEF Sound
<1>2. CASE work'[p] = work[p]
  BY <1>2 DEF Stays
<1>3. CASE work'[p] = [work[p] EXCEPT !.beaten = TRUE]
  BY <1>1, <1>3 DEF Stays, Idle
<1> QED BY <1>2, <1>3 DEF Overtaken

LEMMA IdleLater ==
  ASSUME NEW p \in Requests, work'[p] = Idle
  PROVE  Sound(work[p])' /\ ~Pending(work[p])'
BY DEF Sound, Idle, Phase, Appended, Consolidating, Reversing, Recording, Pending, Appends

(* The tables keep what they say when only rows or intents are added.      *)
LEMMA TablesKept ==
  ASSUME LoyaltyInv, UNCHANGED ledger
  PROVE  LedgerInv' /\ LedgerKept
BY DEF LoyaltyInv, LedgerInv, LedgerKept

LEMMA IntentsUntouched ==
  ASSUME LoyaltyInv, LedgerKept, UNCHANGED intents
  PROVE  IntentsInv' /\ IntentsKept
<1>1. IntentsKept
  BY DEF IntentsKept
<1>2. ASSUME NEW i \in IntentIds, intents[i].status = "consumed" PROVE Spent(i)'
  BY <1>1, <1>2, SpentKept DEF LoyaltyInv, IntentsInv, ConsumedIsSpent, Spent
<1> QED BY <1>1, <1>2 DEF LoyaltyInv, IntentsInv, ConsumedIsSpent, Spent

LEMMA ReversedKept ==
  ASSUME LoyaltyInv, LedgerKept, UNCHANGED reversed
  PROVE  ReversalIsComplete'
BY FactsKept DEF LoyaltyInv, ReversalIsComplete

(* A request is over, and its step added no movement.                      *)
LEMMA RequestOver ==
  ASSUME LoyaltyInv, UNCHANGED ledger, IntentsKept, NEW q \in Requests,
         work' = [work EXCEPT ![q] = Idle]
  PROVE  WorkInv'
<1>1. LedgerKept
  BY TablesKept
<1>2. \A p \in Requests : work'[p] = IF p = q THEN Idle ELSE work[p]
  BY WorkFacts
<1>3. ASSUME NEW p \in Requests, p # q
      PROVE  Stays(p) /\ (Pending(work[p]) =>
                            \A r \in ledger' : Identity(r) # Identity(work[p].row))
  BY <1>2, <1>3, WorkFacts DEF Stays, Sound
<1>4. Sound(work[q])' /\ ~Pending(work[q])'
  BY <1>2, IdleLater
<1>5. (work = [p \in Requests |-> work[p]])'
  BY DEF LoyaltyInv, WorkInv
<1> QED BY <1>1, <1>3, <1>4, <1>5, WorkKept

LEMMA ReverseDoneStep ==
  ASSUME LoyaltyInv, NEW q \in Requests, ReverseDone(q)
  PROVE  LoyaltyInv'
<1>1. UNCHANGED <<ledger, intents, active>> /\ work' = [work EXCEPT ![q] = Idle]
      /\ reversed' = reversed \cup work[q].found
  BY DEF ReverseDone, store
<1>2. Sound(work[q]) /\ work[q].op = "reverse"
  BY WorkFacts DEF Sound, Phase, Recording, ReverseDone
<1>3. \A m \in work[q].found : IsReversed(m)
  BY <1>2 DEF Sound, Reversing, ReverseDone
<1>4. ReversalIsComplete'
  BY <1>1, <1>3 DEF LoyaltyInv, ReversalIsComplete, IsReversed
<1>5. LedgerInv' /\ IntentsInv' /\ IntentsKept
  BY <1>1, TablesKept, IntentsUntouched
<1> QED BY <1>1, <1>4, <1>5, RequestOver DEF LoyaltyInv

LEMMA CreateIntentStep ==
  ASSUME LoyaltyInv, NEW q \in Requests, CreateIntent(q)
  PROVE  LoyaltyInv'
<1>1. UNCHANGED <<ledger, active, reversed>> /\ work' = [work EXCEPT ![q] = Idle]
      /\ work[q].point = "create"
  BY DEF CreateIntent, store, history
<1>2. CASE UNCHANGED intents
  BY <1>1, <1>2, BecomesIdle
<1>3. CASE \E i \in IntentIds :
             /\ intents[i] = NoIntent
             /\ intents' = [intents EXCEPT ![i] = [status |-> "pending",
                                                  ticket |-> work[q].row.ticket,
                                                  cost |-> -work[q].row.units]]
  <2>1. PICK i \in IntentIds :
             /\ intents[i] = NoIntent
             /\ intents' = [intents EXCEPT ![i] = [status |-> "pending",
                                                  ticket |-> work[q].row.ticket,
                                                  cost |-> -work[q].row.units]]
    BY <1>3
  <2>2. work[q].row.ticket \in Tickets /\ -work[q].row.units \in Costs
    BY <1>1, WorkFacts DEF Sound, Phase, Appended, Recording
  <2>3. \A j \in IntentIds \ {i} : intents'[j] = intents[j]
    BY <2>1 DEF LoyaltyInv, IntentsInv
  <2>4. intents'[i] = [status |-> "pending", ticket |-> work[q].row.ticket,
                       cost |-> -work[q].row.units]
    BY <2>1 DEF LoyaltyInv, IntentsInv
  <2>5. IntentsKept
    BY <2>1, <2>3 DEF IntentsKept, NoIntent
  <2>6. (intents \in [IntentIds ->
                        {NoIntent} \cup [status : {"pending", "consumed", "voided"},
                                        ticket : Tickets, cost : Costs]])'
    BY <2>1, <2>2 DEF LoyaltyInv, IntentsInv
  <2>7. ASSUME NEW j \in IntentIds, intents'[j].status = "consumed" PROVE Spent(j)'
    <3>1. j # i
      BY <2>4, <2>7
    <3> QED BY <1>1, <2>3, <2>7, <3>1 DEF LoyaltyInv, IntentsInv, ConsumedIsSpent, Spent
  <2>8. IntentsInv'
    BY <2>6, <2>7 DEF IntentsInv, ConsumedIsSpent, Spent
  <2> QED BY <1>1, <2>5, <2>8, TablesKept, RequestOver, ReversedKept DEF LoyaltyInv
<1> QED BY <1>2, <1>3 DEF CreateIntent

(* The intent of a consolidation is marked after its movement was recorded.*)
LEMMA MarkConsumedStep ==
  ASSUME LoyaltyInv, NEW q \in Requests, MarkConsumed(q)
  PROVE  LoyaltyInv'
<1> DEFINE i == work[q].intent
<1>1. /\ UNCHANGED <<ledger, active, reversed>> /\ work' = [work EXCEPT ![q] = Idle]
      /\ intents' = [intents EXCEPT ![i].status = "consumed"]
  BY DEF MarkConsumed, store, history
<1>2. Sound(work[q]) /\ work[q].op = "redeem" /\ work[q].point = "recorded"
  BY WorkFacts DEF Sound, Phase, Recording, MarkConsumed
<1>3. i \in IntentIds /\ intents[i].status # "none" /\ Spent(i)
  BY <1>2 DEF Sound, Consolidating
<1>4. intents[i] \in [status : {"pending", "consumed", "voided"}, ticket : Tickets, cost : Costs]
  BY <1>3 DEF LoyaltyInv, IntentsInv, NoIntent
<1> HIDE DEF i
<1>5. /\ \A j \in IntentIds \ {i} : intents'[j] = intents[j]
      /\ intents'[i] = [intents[i] EXCEPT !.status = "consumed"]
  BY <1>1, <1>3 DEF LoyaltyInv, IntentsInv
<1>6. /\ intents'[i] \in [status : {"pending", "consumed", "voided"}, ticket : Tickets, cost : Costs]
      /\ intents'[i].status = "consumed" /\ intents'[i].ticket = intents[i].ticket
      /\ intents'[i].cost = intents[i].cost
  BY <1>4, <1>5
<1>7. IntentsKept
  BY <1>5, <1>6 DEF IntentsKept
<1>8. (intents \in [IntentIds ->
                      {NoIntent} \cup [status : {"pending", "consumed", "voided"},
                                      ticket : Tickets, cost : Costs]])'
  BY <1>1, <1>5, <1>6 DEF LoyaltyInv, IntentsInv
<1>9. ASSUME NEW j \in IntentIds, intents'[j].status = "consumed" PROVE Spent(j)'
  <2>1. CASE j = i
    BY <1>1, <1>3, <1>6, <2>1 DEF Spent
  <2>2. CASE j # i
    BY <1>1, <1>5, <1>9, <2>2 DEF LoyaltyInv, IntentsInv, ConsumedIsSpent, Spent
  <2> QED BY <2>1, <2>2
<1>10. IntentsInv'
  BY <1>8, <1>9 DEF IntentsInv, ConsumedIsSpent, Spent
<1> QED BY <1>1, <1>7, <1>10, TablesKept, RequestOver, ReversedKept DEF LoyaltyInv

(* Requests are where they were.                                           *)
LEMMA WorkUntouched ==
  ASSUME LoyaltyInv, UNCHANGED <<ledger, work>>, IntentsKept
  PROVE  WorkInv'
<1>1. ASSUME NEW p \in Requests
      PROVE  Stays(p) /\ (Pending(work[p]) =>
                            \A r \in ledger' : Identity(r) # Identity(work[p].row))
  BY WorkFacts DEF Stays, Sound
<1>2. (work = [p \in Requests |-> work[p]])'
  BY DEF LoyaltyInv, WorkInv
<1> QED BY <1>1, <1>2, TablesKept, WorkKept

LEMMA VoidIntentStep ==
  ASSUME LoyaltyInv, NEW i \in IntentIds, VoidIntent(i)
  PROVE  LoyaltyInv'
<1>1. /\ UNCHANGED <<ledger, active, reversed, work>> /\ intents[i].status = "pending"
      /\ intents' = [intents EXCEPT ![i].status = "voided"]
  BY DEF VoidIntent, store, history
<1>2. intents[i] \in [status : {"pending", "consumed", "voided"}, ticket : Tickets, cost : Costs]
  BY <1>1 DEF LoyaltyInv, IntentsInv, NoIntent
<1>3. /\ \A j \in IntentIds \ {i} : intents'[j] = intents[j]
      /\ intents'[i] = [intents[i] EXCEPT !.status = "voided"]
  BY <1>1 DEF LoyaltyInv, IntentsInv
<1>4. /\ intents'[i] \in [status : {"pending", "consumed", "voided"}, ticket : Tickets, cost : Costs]
      /\ intents'[i].status = "voided" /\ intents'[i].ticket = intents[i].ticket
      /\ intents'[i].cost = intents[i].cost
  BY <1>2, <1>3
<1>5. IntentsKept
  BY <1>3, <1>4 DEF IntentsKept
<1>6. (intents \in [IntentIds ->
                      {NoIntent} \cup [status : {"pending", "consumed", "voided"},
                                      ticket : Tickets, cost : Costs]])'
  BY <1>1, <1>3, <1>4 DEF LoyaltyInv, IntentsInv
<1>7. ASSUME NEW j \in IntentIds, intents'[j].status = "consumed" PROVE Spent(j)'
  BY <1>1, <1>3, <1>4, <1>7 DEF LoyaltyInv, IntentsInv, ConsumedIsSpent, Spent
<1>8. IntentsInv'
  BY <1>6, <1>7 DEF IntentsInv, ConsumedIsSpent, Spent
<1> QED BY <1>1, <1>5, <1>8, TablesKept, WorkUntouched, ReversedKept DEF LoyaltyInv

LEMMA NothingStep ==
  ASSUME LoyaltyInv, UNCHANGED <<ledger, intents, work, reversed>>, active' \in BOOLEAN
  PROVE  LoyaltyInv'
BY TablesKept, IntentsUntouched, WorkUntouched, ReversedKept DEF LoyaltyInv

(* A crash forgets intents and requests alike.                             *)
LEMMA CrashStep == LoyaltyInv /\ Crash => LoyaltyInv'
<1> SUFFICES ASSUME LoyaltyInv, Crash PROVE LoyaltyInv'
  OBVIOUS
<1>1. /\ UNCHANGED <<ledger, active, reversed>> /\ work' = [q \in Requests |-> Idle]
      /\ intents' = [i \in IntentIds |-> NoIntent]
  BY DEF Crash, store, history
<1>2. IntentsInv'
  BY <1>1 DEF IntentsInv, ConsumedIsSpent, NoIntent
<1>3. \A p \in Requests : Sound(work[p])' /\ ~Pending(work[p])'
  BY <1>1, IdleLater
<1>4. WorkInv'
  BY <1>1, <1>3 DEF WorkInv, Pending
<1> QED BY <1>1, <1>2, <1>4, TablesKept, ReversedKept DEF LoyaltyInv

LEMMA RebuildCommitStep ==
  ASSUME LoyaltyInv, NEW q \in Requests, RebuildCommit(q)
  PROVE  LoyaltyInv'
<1>1. UNCHANGED <<ledger, active, intents, reversed>>
      /\ work' = [Overtaken(q) EXCEPT ![q] = Idle]
  BY DEF RebuildCommit
<1>2. LedgerKept /\ IntentsKept
  BY <1>1, TablesKept, IntentsUntouched
<1>3. \A p \in Requests : work'[p] = IF p = q THEN Idle ELSE Overtaken(q)[p]
  BY <1>1 DEF Overtaken
<1>4. ASSUME NEW p \in Requests, p # q
      PROVE  Stays(p) /\ (Pending(work[p]) =>
                            \A r \in ledger' : Identity(r) # Identity(work[p].row))
  BY <1>1, <1>3, <1>4, OvertakenStays, WorkFacts DEF Sound
<1>5. Sound(work[q])' /\ ~Pending(work[q])'
  BY <1>3, IdleLater
<1>6. (work = [p \in Requests |-> work[p]])'
  BY <1>1 DEF Overtaken
<1>7. WorkInv'
  BY <1>2, <1>4, <1>5, <1>6, WorkKept
<1> QED BY <1>1, <1>7, TablesKept, IntentsUntouched, ReversedKept DEF LoyaltyInv

(* A backfill changes what no key, identity or amount depends on.          *)
LEMMA BackfillAttributeStep ==
  ASSUME LoyaltyInv, NEW q \in Requests, BackfillAttribute(q)
  PROVE  LoyaltyInv'
<1> DEFINE e(r) == [r EXCEPT !.tagged = TRUE]
<1>1. /\ UNCHANGED <<active, intents, reversed>> /\ work[q].point = "attribute"
      /\ ledger' = {e(r) : r \in ledger}
      /\ work' = [Overtaken(q) EXCEPT ![q].point = "sum"]
  BY DEF BackfillAttribute
<1>2. ASSUME NEW r \in ledger
      PROVE  /\ e(r) \in Rows /\ e(r).kind = r.kind /\ e(r).ticket = r.ticket /\ e(r).of = r.of
             /\ e(r).units = r.units
  <2>1. r \in Rows
    BY DEF LoyaltyInv, LedgerInv
  <2> QED BY <2>1 DEF Rows
<1>3. \A x \in ledger' : \E r \in ledger : x = e(r)
  BY <1>1
<1>4. \A r \in ledger : e(r) \in ledger'
  BY <1>1
<1> HIDE DEF e
<1>5. LedgerKept
  BY <1>2, <1>4 DEF LedgerKept
<1>6. LedgerInv'
  <2>1. ledger' \subseteq Rows
    BY <1>2, <1>3
  <2>2. ASSUME NEW x \in ledger', NEW y \in ledger', Identity(x) = Identity(y) PROVE x = y
    <3>1. PICK r \in ledger : x = e(r)
      BY <1>3
    <3>2. PICK s \in ledger : y = e(s)
      BY <1>3
    <3>3. Identity(r) = Identity(s)
      BY <1>2, <2>2, <3>1, <3>2 DEF Identity
    <3> QED BY <3>1, <3>2, <3>3 DEF LoyaltyInv, LedgerInv
  <2>3. ASSUME NEW x \in ledger', x.kind # "reversal" PROVE x.of = "none"
    BY <1>2, <1>3, <2>3 DEF LoyaltyInv, LedgerInv
  <2>4. ASSUME NEW x \in ledger', x.kind = "reversal"
        PROVE  \E y \in ledger' : y.kind # "reversal" /\ y.kind = x.of /\ y.ticket = x.ticket
                                  /\ x.units = -y.units
    <3>1. PICK r \in ledger : x = e(r)
      BY <1>3
    <3>2. PICK m \in ledger : m.kind # "reversal" /\ m.kind = r.of /\ m.ticket = r.ticket
                              /\ r.units = -m.units
      BY <1>2, <2>4, <3>1 DEF LoyaltyInv, LedgerInv
    <3> QED BY <1>2, <1>4, <3>1, <3>2
  <2> QED BY <2>1, <2>2, <2>3, <2>4 DEF LedgerInv
<1>7. IntentsInv' /\ IntentsKept
  BY <1>1, <1>5, IntentsUntouched
<1>8. Sound(work[q]) /\ work[q].op = "backfill"
  BY <1>1, WorkFacts DEF Sound, Phase, Recording
<1>9. \A p \in Requests \ {q} : work'[p] = Overtaken(q)[p]
  BY <1>1 DEF Overtaken
<1>10. ASSUME NEW p \in Requests, p # q
       PROVE  Stays(p) /\ (Pending(work[p]) =>
                             \A r \in ledger' : Identity(r) # Identity(work[p].row))
  <2>1. Stays(p)
    BY <1>9, <1>10, OvertakenStays
  <2>2. ASSUME Pending(work[p]), NEW x \in ledger' PROVE Identity(x) # Identity(work[p].row)
    <3>1. PICK r \in ledger : x = e(r)
      BY <1>3
    <3>2. Identity(r) # Identity(work[p].row)
      BY <2>2, WorkFacts DEF Sound
    <3> QED BY <1>2, <3>1, <3>2 DEF Identity
  <2> QED BY <2>1, <2>2
<1>11. Sound(work[q])' /\ ~Pending(work[q])'
  <2>1. Overtaken(q)[q] = work[q]
    BY DEF Overtaken
  <2>2. work'[q] = [work[q] EXCEPT !.point = "sum"]
    BY <1>1, <2>1 DEF Overtaken
  <2>3. DOMAIN work'[q] = DOMAIN Idle /\ work'[q].op = "backfill" /\ work'[q].point = "sum"
    BY <1>8, <2>2 DEF Sound, Idle
  <2> QED BY <2>3 DEF Sound, Phase, Appended, Consolidating, Reversing, Recording, Pending, Appends
<1>12. (work = [p \in Requests |-> work[p]])'
  BY <1>1 DEF Overtaken
<1>13. WorkInv'
  BY <1>5, <1>7, <1>10, <1>11, <1>12, WorkKept
<1> QED BY <1>1, <1>5, <1>6, <1>7, <1>13, ReversedKept DEF LoyaltyInv

(* A commit adds the one row nobody else has inserted.                     *)
LEMMA CommitStep ==
  ASSUME LoyaltyInv, NEW q \in Requests, Commit(q)
  PROVE  LoyaltyInv'
<1> DEFINE w == work[q]
           row == [w.row EXCEPT
                     !.copy = Cardinality({r \in ledger : Identity(r) = Identity(w.row)})]
<1>1. UNCHANGED <<active, intents, reversed>> /\ w.point = "commit"
      /\ w.op \notin {"rebuild", "backfill"}
  BY DEF Commit
<1>2. Sound(w) /\ Recording(w) /\ Pending(w)
  BY <1>1, WorkFacts DEF Sound, Phase, Recording, Pending
<1>3. CASE w.row.source.batch /\ w.beaten
  <2>1. UNCHANGED ledger /\ work' = [work EXCEPT ![q] = Idle]
    BY <1>3 DEF Commit, store
  <2> QED BY <1>1, <2>1, BecomesIdle
<1>4. CASE ~(w.row.source.batch /\ w.beaten)
  <2>1. ledger' = ledger \cup {row} /\ work' = [Overtaken(q) EXCEPT ![q] = Recorded(w)]
    BY <1>4 DEF Commit
  <2>2. \A r \in ledger : Identity(r) # Identity(w.row)
    BY <1>2 DEF Sound
  <2>3. /\ row \in Rows /\ row.kind = w.row.kind /\ row.ticket = w.row.ticket
        /\ row.of = w.row.of /\ row.units = w.row.units
    <3>1. {r \in ledger : Identity(r) = Identity(w.row)} = {}
      BY <2>2
    <3>2. row = [w.row EXCEPT !.copy = 0]
      BY <3>1, FS_EmptySet
    <3>3. w.row \in Rows
      BY <1>2 DEF Sound, Appended
    <3> QED BY <3>2, <3>3 DEF Rows
  <2> HIDE DEF row
  <2>4. Identity(row) = Identity(w.row)
    BY <2>3 DEF Identity
  <2>5. LedgerKept
    BY <2>1 DEF LedgerKept
  <2>6. IntentsInv' /\ IntentsKept
    BY <1>1, <2>5, IntentsUntouched
  <2>7. LedgerInv'
    <3>1. ledger' \subseteq Rows
      BY <2>1, <2>3 DEF LoyaltyInv, LedgerInv
    <3>2. ASSUME NEW r \in ledger', NEW s \in ledger', Identity(r) = Identity(s) PROVE r = s
      BY <2>1, <2>2, <2>4, <3>2 DEF LoyaltyInv, LedgerInv
    <3>3. row.kind # "reversal" => row.of = "none"
      BY <1>2, <2>3 DEF Sound, Appended, Recording, Appends
    <3>4. row.kind = "reversal" =>
            \E m \in ledger : m.kind # "reversal" /\ m.kind = row.of /\ m.ticket = row.ticket
                              /\ row.units = -m.units
      <4>1. SUFFICES ASSUME row.kind = "reversal"
                     PROVE  \E m \in ledger : m.kind # "reversal" /\ m.kind = row.of
                                              /\ m.ticket = row.ticket /\ row.units = -m.units
        OBVIOUS
      <4>2. w.op = "reverse"
        BY <1>2, <2>3, <4>1 DEF Sound, Appended, Recording, Appends
      <4>3. PICK m \in w.found : w.row.of = m.kind /\ w.row.ticket = m.ticket
                                 /\ w.row.units = -m.units
        BY <1>2, <4>2 DEF Sound, Reversing
      <4>4. m.kind \in {"earn", "redeem"} /\ InLedger(m)
        BY <1>2, <4>2 DEF Sound, Reversing
      <4> QED BY <2>3, <4>3, <4>4 DEF InLedger
    <3> QED BY <2>1, <3>1, <3>2, <3>3, <3>4 DEF LoyaltyInv, LedgerInv
  <2>8. work'[q] = Recorded(w)
    BY <2>1 DEF Overtaken
  <2>9. Sound(work[q])' /\ ~Pending(work[q])'
    <3>1. row \in ledger'
      BY <2>1
    <3> QED BY <1>2, <2>3, <2>5, <2>6, <2>8, <3>1, RecordedSound
  <2>10. ASSUME NEW p \in Requests, p # q
         PROVE  Stays(p) /\ (Pending(work[p]) =>
                               \A r \in ledger' : Identity(r) # Identity(work[p].row))
    <3>1. work'[p] = Overtaken(q)[p]
      BY <2>1, <2>10 DEF Overtaken
    <3>2. Pending(work[p]) => Identity(work[p].row) # Identity(w.row)
      BY <1>2, <2>10 DEF LoyaltyInv, WorkInv
    <3>3. Pending(work[p]) => \A r \in ledger : Identity(r) # Identity(work[p].row)
      BY WorkFacts DEF Sound
    <3> QED BY <2>1, <2>4, <3>1, <3>2, <3>3, OvertakenStays
  <2>11. (work = [p \in Requests |-> work[p]])'
    BY <2>1 DEF Overtaken
  <2>12. WorkInv'
    BY <2>5, <2>6, <2>9, <2>10, <2>11, WorkKept
  <2> QED BY <1>1, <2>5, <2>6, <2>7, <2>12, ReversedKept DEF LoyaltyInv
<1> QED BY <1>3, <1>4

-----------------------------------------------------------------------------
(* Ledger, intents and requests stay in the relation the invariant says,   *)
(* whatever is under way at once and whatever a crash forgets.             *)
THEOREM LoyaltyInvariant == Spec => []LoyaltyInv
<1>1. Init => LoyaltyInv
  <2> SUFFICES ASSUME Init PROVE LoyaltyInv
    OBVIOUS
  <2>1. LedgerInv /\ active \in BOOLEAN /\ ReversalIsComplete
    BY DEF Init, LedgerInv, ReversalIsComplete
  <2>2. IntentsInv
    BY DEF Init, IntentsInv, ConsumedIsSpent, NoIntent
  <2>3. WorkInv
    BY IdleSound DEF Init, WorkInv
  <2> QED BY <2>1, <2>2, <2>3 DEF LoyaltyInv
<1>2. LoyaltyInv /\ [Next]_vars => LoyaltyInv'
  <2> SUFFICES ASSUME LoyaltyInv, [Next]_vars PROVE LoyaltyInv'
    OBVIOUS
  <2>1. ASSUME NEW q \in Requests,
               PosRecord(q) \/ ResolveProgram(q) \/ Find(q) \/ Insert(q) \/ Sum(q) \/ Commit(q)
               \/ Rebuild(q) \/ RebuildCommit(q) \/ BackfillScan(q) \/ BackfillAttribute(q)
        PROVE  LoyaltyInv'
    BY <2>1, PosRecordStep, ResolveProgramStep, FindStep, InsertStep, SumStep, CommitStep,
       RebuildStep, RebuildCommitStep, BackfillScanStep, BackfillAttributeStep
  <2>2. ASSUME NEW q \in Requests,
               ReadBalance(q) \/ CreateIntent(q) \/ Consolidate(q) \/ MarkConsumed(q)
               \/ ReadMovements(q) \/ ReverseNext(q) \/ ReverseDone(q)
        PROVE  LoyaltyInv'
    BY <2>2, ReadBalanceStep, CreateIntentStep, ConsolidateStep, MarkConsumedStep,
       ReadMovementsStep, ReverseNextStep, ReverseDoneStep
  <2>3. CASE \E i \in IntentIds : VoidIntent(i)
    BY <2>3, VoidIntentStep
  <2>4. CASE ActivateProgram \/ DeactivateProgram
    BY <2>4, NothingStep DEF ActivateProgram, DeactivateProgram, store, history
  <2>5. CASE Crash
    BY <2>5, CrashStep
  <2>6. CASE UNCHANGED vars
    <3>1. active' \in BOOLEAN
      BY <2>6 DEF vars, LoyaltyInv
    <3> QED BY <2>6, <3>1, NothingStep DEF vars, store, history
  <2> QED BY <2>1, <2>2, <2>3, <2>4, <2>5, <2>6 DEF Next
<1> QED BY <1>1, <1>2, PTL DEF Spec

(* A movement is reversed at most once and by its own amount.              *)
THEOREM MovementsAreReversedOnce == Spec => []ReversedOnce
<1>1. ASSUME LoyaltyInv PROVE ReversedOnce
  <2> SUFFICES ASSUME NEW m \in ledger, m.kind # "reversal"
               PROVE  LET reversals == {r \in ledger : r.kind = "reversal" /\ r.ticket = m.ticket
                                                       /\ r.of = m.kind}
                      IN /\ Cardinality(reversals) <= 1
                         /\ \A r \in reversals : r.units = -m.units
    BY DEF ReversedOnce
  <2> DEFINE reversals == {r \in ledger : r.kind = "reversal" /\ r.ticket = m.ticket
                                          /\ r.of = m.kind}
  <2>1. LedgerInv
    BY <1>1 DEF LoyaltyInv
  <2>2. \A r, s \in reversals : r = s
    BY <2>1 DEF LedgerInv, Identity
  <2>3. ASSUME NEW r \in reversals PROVE r.units = -m.units
    <3>1. PICK x \in ledger : x.kind # "reversal" /\ x.kind = r.of /\ x.ticket = r.ticket
                              /\ r.units = -x.units
      BY <2>1 DEF LedgerInv
    <3>2. x = m
      BY <2>1, <3>1 DEF LedgerInv, Identity
    <3> QED BY <3>1, <3>2
  <2> HIDE DEF reversals
  <2>4. Cardinality(reversals) <= 1
    <3>1. CASE reversals = {}
      BY <3>1, FS_EmptySet
    <3>2. CASE reversals # {}
      <4>1. PICK r : r \in reversals
        BY <3>2
      <4>2. reversals = {r}
        BY <2>2, <4>1
      <4>3. Cardinality({r}) = 1
        BY FS_Singleton
      <4> QED BY <4>2, <4>3
    <3> QED BY <3>1, <3>2
  <2> QED BY <2>3, <2>4 DEF reversals
<1> QED BY <1>1, LoyaltyInvariant, PTL

(* A reversal that was answered has reversed all it had found.             *)
THEOREM ReversalsAreComplete == Spec => []ReversalIsComplete
<1>1. LoyaltyInv => ReversalIsComplete
  BY DEF LoyaltyInv
<1> QED BY <1>1, LoyaltyInvariant, PTL

(* A consumed intent was paid for: its ticket has the REDEEM.              *)
THEOREM ConsumedIntentsAreSpent == Spec => []ConsumedIsSpent
<1>1. LoyaltyInv => ConsumedIsSpent
  BY DEF LoyaltyInv, IntentsInv
<1> QED BY <1>1, LoyaltyInvariant, PTL

-----------------------------------------------------------------------------
(* What a request has read of the ledger: until it is overtaken, the sum   *)
(* it is about to save is the balance.                                     *)
Reckoned(w) ==
  /\ w.base \in Int /\ w.beaten \in BOOLEAN /\ w.intent \in {0} \cup IntentIds
  /\ w.todo \subseteq w.found
  /\ w.point \in {"insert", "commit"} /\ ~w.beaten => w.base = Balance

MoneyInv ==
  /\ IsFiniteSet(ledger)
  /\ projection \in [exists : BOOLEAN, balance : Int]
  /\ drift \in {"none", "overtaken", "attributed"}
  /\ \A q \in Requests : Reckoned(work[q])
  /\ ProjectionFollowsLedger

LEMMA BalanceInt == LoyaltyInv /\ MoneyInv => Balance \in Int
<1> SUFFICES ASSUME LoyaltyInv, MoneyInv PROVE Balance \in Int
  OBVIOUS
<1> DEFINE S == {r \in ledger : r.tagged}
<1>1. IsFiniteSet(S)
  BY FS_Subset DEF MoneyInv
<1>2. \A r \in S : r.units \in Int
  BY DEF LoyaltyInv, LedgerInv, Rows
<1> HIDE DEF S
<1>3. Total(S) \in Int
  BY <1>1, <1>2, TotalInt
<1> QED BY <1>3 DEF Balance, S

(* A row that was not there adds its units, if it belongs to the program.  *)
LEMMA BalanceOfOneMore ==
  ASSUME NEW L, IsFiniteSet(L), L \subseteq Rows, NEW row \in Rows, row \notin L
  PROVE  Total({r \in L \cup {row} : r.tagged})
           = Total({r \in L : r.tagged}) + (IF row.tagged THEN row.units ELSE 0)
<1> DEFINE S == {r \in L : r.tagged}
<1>1. IsFiniteSet(S)
  BY FS_Subset
<1>2. \A r \in S \cup {row} : r.units \in Int
  BY DEF Rows
<1>3. row \notin S /\ row.tagged \in BOOLEAN
  BY DEF Rows
<1>4. CASE row.tagged
  <2>1. {r \in L \cup {row} : r.tagged} = S \cup {row}
    BY <1>4
  <2> HIDE DEF S
  <2>2. Total(S \cup {row}) = Total(S) + row.units
    BY <1>1, <1>2, <1>3, TotalAdd
  <2> QED BY <1>4, <2>1, <2>2 DEF S
<1>5. CASE ~row.tagged
  <2>1. {r \in L \cup {row} : r.tagged} = S
    BY <1>5
  <2>2. \A r \in S : r.units \in Int
    BY <1>2
  <2> HIDE DEF S
  <2>3. Total(S) \in Int
    BY <1>1, <2>2, TotalInt
  <2>4. Total(S) = Total(S) + (IF row.tagged THEN row.units ELSE 0)
    BY <1>5, <2>3
  <2> QED BY <2>1, <2>4 DEF S
<1> QED BY <1>3, <1>4, <1>5

(* A step that is local to a request.                                      *)
LEMMA LocalReckoning ==
  ASSUME LoyaltyInv, MoneyInv, NEW q \in Requests, UNCHANGED <<ledger, projection, drift>>,
         work' = [work EXCEPT ![q] = work'[q]], Reckoned(work[q])'
  PROVE  MoneyInv'
<1>1. Balance' = Balance
  BY DEF Balance
<1>2. ASSUME NEW p \in Requests PROVE Reckoned(work[p])'
  <2>1. CASE p = q
    BY <2>1
  <2>2. CASE p # q
    <3>1. work'[p] = work[p]
      BY <2>2 DEF LoyaltyInv, WorkInv
    <3> QED BY <1>1, <3>1 DEF MoneyInv, Reckoned
  <2> QED BY <2>1, <2>2
<1>3. ProjectionFollowsLedger'
  BY <1>1 DEF MoneyInv, ProjectionFollowsLedger
<1> QED BY <1>2, <1>3 DEF MoneyInv

LEMMA IdleReckoned ==
  ASSUME NEW q \in Requests, work'[q] = Idle
  PROVE  Reckoned(work[q])'
BY DEF Reckoned, Idle

(* What starts has read nothing, and what goes on keeps what it has read.  *)
LEMMA StartReckoned ==
  ASSUME NEW q \in Requests, work'[q].point \notin {"insert", "commit"},
         work'[q].base = 0, work'[q].beaten \in BOOLEAN, work'[q].intent \in {0} \cup IntentIds,
         work'[q].todo \subseteq work'[q].found
  PROVE  Reckoned(work[q])'
BY DEF Reckoned

LEMMA GoesOnReckoned ==
  ASSUME MoneyInv, NEW q \in Requests, work'[q].point \notin {"insert", "commit"},
         work'[q].base = work[q].base, work'[q].beaten = work[q].beaten,
         work'[q].intent = work[q].intent, work'[q].todo \subseteq work'[q].found
  PROVE  Reckoned(work[q])'
BY DEF Reckoned, MoneyInv

LEMMA StaysReckoned ==
  ASSUME MoneyInv, UNCHANGED <<ledger, projection, drift, work>>
  PROVE  MoneyInv'
<1>1. Balance' = Balance
  BY DEF Balance
<1> QED BY <1>1 DEF MoneyInv, Reckoned, ProjectionFollowsLedger

LEMMA BecomesIdleReckoned ==
  ASSUME LoyaltyInv, MoneyInv, NEW q \in Requests, UNCHANGED <<ledger, projection, drift>>,
         work' = [work EXCEPT ![q] = Idle]
  PROVE  MoneyInv'
<1>1. work'[q] = Idle
  BY WorkFacts
<1>2. work' = [work EXCEPT ![q] = work'[q]]
  BY <1>1
<1> QED BY <1>1, <1>2, IdleReckoned, LocalReckoning

(* What a request that was idle starts with.                               *)
LEMMA StartStep ==
  ASSUME LoyaltyInv, MoneyInv, NEW q \in Requests, UNCHANGED <<ledger, projection, drift>>,
         NEW v, work' = [work EXCEPT ![q] = v], v.point \notin {"insert", "commit"},
         v.base = 0, v.beaten \in BOOLEAN, v.intent \in {0} \cup IntentIds, v.todo \subseteq v.found
  PROVE  MoneyInv'
<1>1. work'[q] = v
  BY WorkFacts
<1>2. work' = [work EXCEPT ![q] = work'[q]]
  BY <1>1
<1>3. Reckoned(work[q])'
  BY <1>1, StartReckoned
<1> QED BY <1>2, <1>3, LocalReckoning

LEMMA PosRecordReckoned ==
  ASSUME LoyaltyInv, MoneyInv, NEW q \in Requests, PosRecord(q)
  PROVE  MoneyInv'
<1>1. PICK t \in Tickets, kind \in {"earn", "redeem"}, source \in Channels, cost \in Costs :
        work' = [work EXCEPT ![q] =
                  [Idle EXCEPT !.op = "pos",
                               !.point = IF source.declared THEN "find" ELSE "resolve",
                               !.row = [NoRow EXCEPT
                                          !.kind = kind, !.source = source, !.ticket = t,
                                          !.units = IF kind = "earn" THEN Earned ELSE -cost,
                                          !.tagged = source.declared]]]
  BY DEF PosRecord
<1> DEFINE point == IF source.declared THEN "find" ELSE "resolve"
           row == [NoRow EXCEPT !.kind = kind, !.source = source, !.ticket = t,
                                !.units = IF kind = "earn" THEN Earned ELSE -cost,
                                !.tagged = source.declared]
<1>2. point \notin {"insert", "commit"}
  OBVIOUS
<1>3. work' = [work EXCEPT ![q] = [Idle EXCEPT !.op = "pos", !.point = point, !.row = row]]
  BY <1>1
<1> HIDE DEF point, row
<1> DEFINE v == [Idle EXCEPT !.op = "pos", !.point = point, !.row = row]
<1>4. v.point = point /\ v.base = 0 /\ v.beaten \in BOOLEAN /\ v.intent = 0 /\ v.todo = {}
  BY DEF Idle
<1>5. work' = [work EXCEPT ![q] = v]
  BY <1>3
<1> HIDE DEF v
<1> QED BY <1>2, <1>4, <1>5, StartStep DEF PosRecord, store, history

LEMMA ResolveProgramReckoned ==
  ASSUME LoyaltyInv, MoneyInv, NEW q \in Requests, ResolveProgram(q)
  PROVE  MoneyInv'
<1>1. UNCHANGED <<ledger, projection, drift>>
  BY DEF ResolveProgram, store, history
<1>2. CASE ~active /\ work[q].row.kind = "earn"
  BY <1>1, <1>2, BecomesIdleReckoned DEF ResolveProgram
<1>3. CASE ~(~active /\ work[q].row.kind = "earn")
  <2>1. work' = [work EXCEPT ![q] = [@ EXCEPT !.point = "find", !.row.tagged = active]]
    BY <1>3 DEF ResolveProgram
  <2>2. work'[q] = [work[q] EXCEPT !.point = "find", !.row.tagged = active]
    BY <2>1, WorkFacts
  <2>3. DOMAIN work[q] = DOMAIN Idle /\ Reckoned(work[q])
    BY WorkFacts DEF Sound, MoneyInv
  <2>4. /\ work'[q].point = "find" /\ work'[q].base = work[q].base
        /\ work'[q].beaten = work[q].beaten /\ work'[q].intent = work[q].intent
        /\ work'[q].todo = work[q].todo /\ work'[q].found = work[q].found
    BY <2>2, <2>3 DEF Idle
  <2>5. work'[q].todo \subseteq work'[q].found
    BY <2>3, <2>4 DEF Reckoned
  <2>6. Reckoned(work[q])'
    BY <2>4, <2>5, GoesOnReckoned
  <2>7. work' = [work EXCEPT ![q] = work'[q]]
    BY <2>1, <2>2
  <2> QED BY <1>1, <2>6, <2>7, LocalReckoning
<1> QED BY <1>2, <1>3

(* What is left of a request when its append is over.                      *)
LEMMA RecordedReckoned ==
  ASSUME LoyaltyInv, MoneyInv, NEW q \in Requests, Recording(work[q]),
         work'[q] = Recorded(work[q])
  PROVE  Reckoned(work[q])'
<1>1. DOMAIN work[q] = DOMAIN Idle /\ Reckoned(work[q])
  BY WorkFacts DEF Sound, MoneyInv
<1>2. CASE work[q].op = "pos"
  BY <1>2, IdleReckoned DEF Recorded
<1>3. CASE work[q].op = "redeem"
  <2>1. work'[q] = [work[q] EXCEPT !.point = "recorded"]
    BY <1>3 DEF Recorded
  <2>2. /\ work'[q].point = "recorded" /\ work'[q].base = work[q].base
        /\ work'[q].beaten = work[q].beaten /\ work'[q].intent = work[q].intent
        /\ work'[q].todo = work[q].todo /\ work'[q].found = work[q].found
    BY <1>1, <2>1 DEF Idle
  <2>3. work'[q].todo \subseteq work'[q].found
    BY <1>1, <2>2 DEF Reckoned
  <2> QED BY <2>2, <2>3, GoesOnReckoned
<1>4. CASE work[q].op = "reverse"
  <2>1. work'[q] = [work[q] EXCEPT !.point = "reverse", !.row = NoRow]
    BY <1>4 DEF Recorded
  <2>2. /\ work'[q].point = "reverse" /\ work'[q].base = work[q].base
        /\ work'[q].beaten = work[q].beaten /\ work'[q].intent = work[q].intent
        /\ work'[q].todo = work[q].todo /\ work'[q].found = work[q].found
    BY <1>1, <2>1 DEF Idle
  <2>3. work'[q].todo \subseteq work'[q].found
    BY <1>1, <2>2 DEF Reckoned
  <2> QED BY <2>2, <2>3, GoesOnReckoned
<1> QED BY <1>2, <1>3, <1>4 DEF Recording, Appends

(* A request that has just summed holds the balance.                       *)
LEMMA SummedReckoned ==
  ASSUME LoyaltyInv, MoneyInv, NEW q \in Requests, UNCHANGED ledger,
         NEW point \in {"insert", "commit"},
         work' = [work EXCEPT ![q] = [work[q] EXCEPT !.point = point, !.base = Balance,
                                                     !.beaten = FALSE]]
  PROVE  Reckoned(work[q])'
<1>1. DOMAIN work[q] = DOMAIN Idle /\ Reckoned(work[q])
  BY WorkFacts DEF Sound, MoneyInv
<1>2. work'[q] = [work[q] EXCEPT !.point = point, !.base = Balance, !.beaten = FALSE]
  BY WorkFacts
<1>3. /\ work'[q].base = Balance /\ work'[q].beaten = FALSE
      /\ work'[q].intent = work[q].intent
      /\ work'[q].todo = work[q].todo /\ work'[q].found = work[q].found
  <2>1. {"base", "beaten", "intent", "todo", "found"} \subseteq DOMAIN work[q]
    BY <1>1 DEF Idle
  <2> QED BY <1>2, <2>1
<1>4. Balance' = Balance /\ Balance \in Int
  BY BalanceInt DEF Balance
<1> QED BY <1>1, <1>3, <1>4 DEF Reckoned

LEMMA FindReckoned ==
  ASSUME LoyaltyInv, MoneyInv, NEW q \in Requests, Find(q)
  PROVE  MoneyInv'
<1> DEFINE w == work[q]
           same == {r \in ledger : Key(r) = Key(w.row)}
           agrees == \A r \in same : r.units = w.row.units /\ (w.row.tagged => r.tagged)
<1>1. UNCHANGED <<ledger, projection, drift>> /\ w.point = "find"
  BY DEF Find, store, history
<1>2. Recording(w)
  BY <1>1, WorkFacts, AtFind DEF Sound
<1>3. CASE same = {}
  <2>1. work' = [work EXCEPT ![q] = [work[q] EXCEPT !.point = "insert", !.base = Balance,
                                                    !.beaten = FALSE]]
    BY <1>3 DEF Find
  <2>2. Reckoned(work[q])'
    BY <1>1, <2>1, SummedReckoned
  <2>3. work' = [work EXCEPT ![q] = work'[q]]
    BY <2>1, WorkFacts
  <2> QED BY <1>1, <2>2, <2>3, LocalReckoning
<1>4. CASE same # {} /\ agrees
  <2>1. work' = [work EXCEPT ![q] = Recorded(work[q])]
    BY <1>4 DEF Find
  <2>2. work'[q] = Recorded(work[q])
    BY <2>1, WorkFacts
  <2>3. Reckoned(work[q])'
    BY <1>2, <2>2, RecordedReckoned
  <2>4. work' = [work EXCEPT ![q] = work'[q]]
    BY <2>1, <2>2
  <2> QED BY <1>1, <2>3, <2>4, LocalReckoning
<1>5. CASE same # {} /\ ~agrees
  BY <1>1, <1>5, BecomesIdleReckoned DEF Find
<1> QED BY <1>3, <1>4, <1>5

(* An insert into an open transaction keeps what was read before it.       *)
LEMMA InsertReckoned ==
  ASSUME LoyaltyInv, MoneyInv, NEW q \in Requests, Insert(q)
  PROVE  MoneyInv'
<1>1. UNCHANGED <<ledger, projection, drift>> /\ work[q].point = "insert"
  BY DEF Insert, store, history
<1>2. CASE \E r \in ledger : Identity(r) = Identity(work[q].row)
  BY <1>1, <1>2, BecomesIdleReckoned DEF Insert
<1>3. CASE ~ \E r \in ledger : Identity(r) = Identity(work[q].row)
  <2> DEFINE point == IF work[q].row.source.batch THEN "commit" ELSE "sum"
             v == [work[q] EXCEPT !.point = point]
  <2>1. work' = [work EXCEPT ![q] = v]
    BY <1>3 DEF Insert
  <2> HIDE DEF point
  <2>2. DOMAIN work[q] = DOMAIN Idle /\ Reckoned(work[q])
    BY WorkFacts DEF Sound, MoneyInv
  <2>3. /\ v.base = work[q].base /\ v.beaten = work[q].beaten /\ v.intent = work[q].intent
        /\ v.todo = work[q].todo /\ v.found = work[q].found
    BY <2>2 DEF Idle
  <2> HIDE DEF v
  <2>4. work'[q] = v
    BY <2>1, WorkFacts
  <2>5. Balance' = Balance
    BY <1>1 DEF Balance
  <2>6. Reckoned(work[q])'
    BY <1>1, <2>2, <2>3, <2>4, <2>5 DEF Reckoned
  <2> QED BY <1>1, <2>1, <2>4, <2>6, LocalReckoning
<1> QED BY <1>2, <1>3

LEMMA SumReckoned ==
  ASSUME LoyaltyInv, MoneyInv, NEW q \in Requests, Sum(q)
  PROVE  MoneyInv'
<1>1. /\ UNCHANGED <<ledger, projection, drift>>
      /\ work' = [work EXCEPT ![q] = [work[q] EXCEPT !.point = "commit", !.base = Balance,
                                                     !.beaten = FALSE]]
  BY DEF Sum, store, history
<1>2. Reckoned(work[q])'
  BY <1>1, SummedReckoned
<1>3. work' = [work EXCEPT ![q] = work'[q]]
  BY <1>1, WorkFacts
<1> QED BY <1>1, <1>2, <1>3, LocalReckoning

LEMMA RebuildReckoned ==
  ASSUME LoyaltyInv, MoneyInv, NEW q \in Requests, Rebuild(q)
  PROVE  MoneyInv'
<1> DEFINE v == [Idle EXCEPT !.op = "rebuild", !.point = "sum"]
<1>1. v.point = "sum" /\ v.base = 0 /\ v.beaten \in BOOLEAN /\ v.intent = 0 /\ v.todo = {}
  BY DEF Idle
<1>2. work' = [work EXCEPT ![q] = v] /\ UNCHANGED <<ledger, projection, drift>>
  BY DEF Rebuild, store, history
<1> HIDE DEF v
<1> QED BY <1>1, <1>2, StartStep

LEMMA BackfillScanReckoned ==
  ASSUME LoyaltyInv, MoneyInv, NEW q \in Requests, BackfillScan(q)
  PROVE  MoneyInv'
<1>1. UNCHANGED <<ledger, projection, drift>>
  BY DEF BackfillScan, store, history
<1>2. CASE \A r \in ledger : r.tagged
  BY <1>1, <1>2, StaysReckoned DEF BackfillScan
<1>3. CASE ~ \A r \in ledger : r.tagged
  <2> DEFINE v == [Idle EXCEPT !.op = "backfill", !.point = "attribute"]
  <2>1. v.point = "attribute" /\ v.base = 0 /\ v.beaten \in BOOLEAN /\ v.intent = 0 /\ v.todo = {}
    BY DEF Idle
  <2>2. work' = [work EXCEPT ![q] = v]
    BY <1>3 DEF BackfillScan
  <2> HIDE DEF v
  <2> QED BY <1>1, <2>1, <2>2, StartStep
<1> QED BY <1>2, <1>3

LEMMA ReadBalanceReckoned ==
  ASSUME LoyaltyInv, MoneyInv, NEW q \in Requests, ReadBalance(q)
  PROVE  MoneyInv'
<1>1. PICK t \in Tickets, cost \in Costs :
        work' = [work EXCEPT ![q] = [Idle EXCEPT !.op = "create", !.point = "create",
                                                 !.row.ticket = t, !.row.units = -cost]]
  BY DEF ReadBalance
<1> DEFINE v == [Idle EXCEPT !.op = "create", !.point = "create",
                             !.row.ticket = t, !.row.units = -cost]
<1>2. v.point = "create" /\ v.base = 0 /\ v.beaten \in BOOLEAN /\ v.intent = 0 /\ v.todo = {}
  BY DEF Idle
<1>3. work' = [work EXCEPT ![q] = v] /\ UNCHANGED <<ledger, projection, drift>>
  BY <1>1 DEF ReadBalance, store, history
<1> HIDE DEF v
<1> QED BY <1>2, <1>3, StartStep

LEMMA ConsolidateReckoned ==
  ASSUME LoyaltyInv, MoneyInv, NEW q \in Requests, Consolidate(q)
  PROVE  MoneyInv'
<1>1. PICK i \in IntentIds :
        work' = [work EXCEPT ![q] =
                     [Idle EXCEPT !.op = "redeem", !.point = "find", !.intent = i,
                                  !.row = [NoRow EXCEPT
                                             !.kind = "redeem", !.source = Cloud,
                                             !.ticket = intents[i].ticket,
                                             !.units = -intents[i].cost, !.tagged = TRUE]]]
  BY DEF Consolidate
<1> DEFINE row == [NoRow EXCEPT !.kind = "redeem", !.source = Cloud,
                                !.ticket = intents[i].ticket,
                                !.units = -intents[i].cost, !.tagged = TRUE]
<1>2. work' = [work EXCEPT ![q] = [Idle EXCEPT !.op = "redeem", !.point = "find", !.intent = i,
                                               !.row = row]]
  BY <1>1
<1> HIDE DEF row
<1> DEFINE v == [Idle EXCEPT !.op = "redeem", !.point = "find", !.intent = i, !.row = row]
<1>3. v.point = "find" /\ v.base = 0 /\ v.beaten \in BOOLEAN /\ v.intent = i /\ v.todo = {}
  BY DEF Idle
<1>4. work' = [work EXCEPT ![q] = v] /\ UNCHANGED <<ledger, projection, drift>>
  BY <1>2 DEF Consolidate, store, history
<1> HIDE DEF v
<1> QED BY <1>3, <1>4, StartStep

LEMMA ReadMovementsReckoned ==
  ASSUME LoyaltyInv, MoneyInv, NEW q \in Requests, ReadMovements(q)
  PROVE  MoneyInv'
<1>1. PICK found : work' = [work EXCEPT ![q] =
                              [Idle EXCEPT !.op = "reverse", !.point = "reverse",
                                           !.todo = found, !.found = found]]
  BY DEF ReadMovements
<1> DEFINE v == [Idle EXCEPT !.op = "reverse", !.point = "reverse",
                             !.todo = found, !.found = found]
<1>2. v.point = "reverse" /\ v.base = 0 /\ v.beaten \in BOOLEAN /\ v.intent = 0
      /\ v.todo = found /\ v.found = found
  BY DEF Idle
<1>3. work' = [work EXCEPT ![q] = v] /\ UNCHANGED <<ledger, projection, drift>>
  BY <1>1 DEF ReadMovements, store, history
<1> HIDE DEF v
<1> QED BY <1>2, <1>3, StartStep

LEMMA ReverseNextReckoned ==
  ASSUME LoyaltyInv, MoneyInv, NEW q \in Requests, ReverseNext(q)
  PROVE  MoneyInv'
<1>1. PICK m, row :
        work' = [work EXCEPT ![q] =
                   [work[q] EXCEPT !.point = "find", !.todo = work[q].todo \ {m}, !.row = row]]
  BY DEF ReverseNext
<1>2. UNCHANGED <<ledger, projection, drift>>
  BY DEF ReverseNext, store, history
<1>3. DOMAIN work[q] = DOMAIN Idle /\ Reckoned(work[q])
  BY WorkFacts DEF Sound, MoneyInv
<1>4. work'[q] = [work[q] EXCEPT !.point = "find", !.todo = work[q].todo \ {m}, !.row = row]
  BY <1>1, WorkFacts
<1>5. /\ work'[q].point = "find" /\ work'[q].base = work[q].base
      /\ work'[q].beaten = work[q].beaten /\ work'[q].intent = work[q].intent
      /\ work'[q].todo = work[q].todo \ {m} /\ work'[q].found = work[q].found
  BY <1>3, <1>4 DEF Idle
<1>6. work'[q].todo \subseteq work'[q].found
  BY <1>3, <1>5 DEF Reckoned
<1>7. Reckoned(work[q])'
  BY <1>5, <1>6, GoesOnReckoned
<1>8. work' = [work EXCEPT ![q] = work'[q]]
  BY <1>1, <1>4
<1> QED BY <1>2, <1>7, <1>8, LocalReckoning

(* A request that is overtaken may hold any sum: it is marked.             *)
LEMMA OvertakenReckoned ==
  ASSUME LoyaltyInv, MoneyInv, NEW q \in Requests, NEW p \in Requests, p # q,
         work'[p] = Overtaken(q)[p]
  PROVE  Reckoned(work[p])'
<1>1. DOMAIN work[p] = DOMAIN Idle /\ Reckoned(work[p])
  BY WorkFacts DEF Sound, MoneyInv
<1>2. CASE work[p] = Idle
  BY <1>2, IdleReckoned DEF Overtaken
<1>3. CASE work[p] # Idle
  <2>1. work'[p] = [work[p] EXCEPT !.beaten = TRUE]
    BY <1>3 DEF Overtaken
  <2>2. /\ work'[p].beaten = TRUE /\ work'[p].base = work[p].base
        /\ work'[p].intent = work[p].intent
        /\ work'[p].todo = work[p].todo /\ work'[p].found = work[p].found
    BY <1>1, <2>1 DEF Idle
  <2>3. work'[p].beaten \in BOOLEAN /\ ~(~work'[p].beaten)
    BY <2>2
  <2> QED BY <1>1, <2>2, <2>3 DEF Reckoned
<1> QED BY <1>2, <1>3

(* The sum that is saved is the balance unless its writer was overtaken.   *)
LEMMA RebuildCommitReckoned ==
  ASSUME LoyaltyInv, MoneyInv, NEW q \in Requests, RebuildCommit(q)
  PROVE  MoneyInv'
<1>1. /\ work[q].point = "commit" /\ UNCHANGED ledger
      /\ projection' = [exists |-> TRUE, balance |-> work[q].base]
      /\ drift' = Drift(work[q])
      /\ work' = [Overtaken(q) EXCEPT ![q] = Idle]
  BY DEF RebuildCommit
<1>2. Reckoned(work[q])
  BY DEF MoneyInv
<1>3. Balance' = Balance
  BY <1>1 DEF Balance
<1>4. ASSUME NEW p \in Requests PROVE Reckoned(work[p])'
  <2>1. CASE p = q
    BY <1>1, <2>1, IdleReckoned DEF Overtaken
  <2>2. CASE p # q
    <3>1. work'[p] = Overtaken(q)[p]
      BY <1>1, <2>2 DEF Overtaken
    <3> QED BY <2>2, <3>1, OvertakenReckoned
  <2> QED BY <2>1, <2>2
<1>5. projection' \in [exists : BOOLEAN, balance : Int] /\ projection'.balance = work[q].base
  BY <1>1, <1>2 DEF Reckoned
<1>6. drift' \in {"none", "overtaken", "attributed"} /\ (drift' = "none" => ~work[q].beaten)
  BY <1>1 DEF Drift
<1>7. ProjectionFollowsLedger'
  BY <1>1, <1>2, <1>3, <1>5, <1>6 DEF ProjectionFollowsLedger, Reckoned
<1>8. IsFiniteSet(ledger)'
  BY <1>1 DEF MoneyInv
<1> QED BY <1>4, <1>5, <1>6, <1>7, <1>8 DEF MoneyInv

LEMMA BackfillAttributeReckoned ==
  ASSUME LoyaltyInv, MoneyInv, NEW q \in Requests, BackfillAttribute(q)
  PROVE  MoneyInv'
<1>1. /\ work[q].point = "attribute" /\ UNCHANGED projection
      /\ ledger' = {[r EXCEPT !.tagged = TRUE] : r \in ledger}
      /\ drift' = "attributed"
      /\ work' = [Overtaken(q) EXCEPT ![q].point = "sum"]
  BY DEF BackfillAttribute
<1>2. IsFiniteSet(ledger)'
  <2> DEFINE f == [r \in ledger |-> [r EXCEPT !.tagged = TRUE]]
  <2>1. f \in Surjection(ledger, ledger')
    BY <1>1 DEF Surjection
  <2> HIDE DEF f
  <2> QED BY <2>1, FS_Surjection DEF MoneyInv
<1>3. DOMAIN work[q] = DOMAIN Idle /\ Reckoned(work[q])
  BY WorkFacts DEF Sound, MoneyInv
<1>4. work'[q] = [work[q] EXCEPT !.point = "sum"]
  BY <1>1 DEF Overtaken
<1>5. /\ work'[q].point = "sum" /\ work'[q].base = work[q].base
      /\ work'[q].beaten = work[q].beaten /\ work'[q].intent = work[q].intent
      /\ work'[q].todo = work[q].todo /\ work'[q].found = work[q].found
  BY <1>3, <1>4 DEF Idle
<1>6. work'[q].todo \subseteq work'[q].found
  BY <1>3, <1>5 DEF Reckoned
<1>7. Reckoned(work[q])'
  BY <1>5, <1>6, GoesOnReckoned
<1>8. ASSUME NEW p \in Requests, p # q PROVE Reckoned(work[p])'
  <2>1. work'[p] = Overtaken(q)[p]
    BY <1>1, <1>8 DEF Overtaken
  <2> QED BY <1>8, <2>1, OvertakenReckoned
<1> QED BY <1>1, <1>2, <1>7, <1>8 DEF MoneyInv, ProjectionFollowsLedger

LEMMA CommitReckoned ==
  ASSUME LoyaltyInv, MoneyInv, NEW q \in Requests, Commit(q)
  PROVE  MoneyInv'
<1> DEFINE w == work[q]
           row == [w.row EXCEPT
                     !.copy = Cardinality({r \in ledger : Identity(r) = Identity(w.row)})]
<1>1. w.point = "commit" /\ w.op \notin {"rebuild", "backfill"}
  BY DEF Commit
<1>2. Sound(w) /\ Recording(w) /\ Pending(w) /\ Reckoned(w)
  BY <1>1, WorkFacts DEF Sound, Phase, Recording, Pending, MoneyInv
<1>3. CASE w.row.source.batch /\ w.beaten
  <2>1. UNCHANGED <<ledger, projection, drift>> /\ work' = [work EXCEPT ![q] = Idle]
    BY <1>3 DEF Commit, store
  <2> QED BY <2>1, BecomesIdleReckoned
<1>4. CASE ~(w.row.source.batch /\ w.beaten)
  <2>1. /\ ledger' = ledger \cup {row}
        /\ projection' = IF row.tagged
                         THEN [exists |-> TRUE, balance |-> w.base + row.units]
                         ELSE projection
        /\ drift' = IF row.tagged THEN Drift(w) ELSE drift
        /\ work' = [Overtaken(q) EXCEPT ![q] = Recorded(w)]
    BY <1>4 DEF Commit
  <2>2. \A r \in ledger : Identity(r) # Identity(w.row)
    BY <1>2 DEF Sound
  <2>3. row \in Rows /\ Identity(row) = Identity(w.row)
    <3>1. {r \in ledger : Identity(r) = Identity(w.row)} = {}
      BY <2>2
    <3>2. row = [w.row EXCEPT !.copy = 0]
      BY <3>1, FS_EmptySet
    <3>3. w.row \in Rows
      BY <1>2 DEF Sound, Appended
    <3> QED BY <3>2, <3>3 DEF Rows, Identity
  <2> HIDE DEF row
  <2>4. row \notin ledger /\ row.units \in Int /\ row.tagged \in BOOLEAN
    BY <2>2, <2>3 DEF Rows
  <2>5. IsFiniteSet(ledger) /\ ledger \subseteq Rows
    BY DEF MoneyInv, LoyaltyInv, LedgerInv
  <2>6. Balance' = Balance + (IF row.tagged THEN row.units ELSE 0)
    BY <2>1, <2>3, <2>4, <2>5, BalanceOfOneMore DEF Balance
  <2>7. IsFiniteSet(ledger)'
    BY <2>1, <2>5, FS_AddElement
  <2>8. Reckoned(work[q])'
    <3>1. work'[q] = Recorded(w)
      BY <2>1 DEF Overtaken
    <3> QED BY <1>2, <3>1, RecordedReckoned
  <2>9. ASSUME NEW p \in Requests, p # q PROVE Reckoned(work[p])'
    <3>1. work'[p] = Overtaken(q)[p]
      BY <2>1, <2>9 DEF Overtaken
    <3> QED BY <2>9, <3>1, OvertakenReckoned
  <2>10. CASE row.tagged
    <3>1. projection' = [exists |-> TRUE, balance |-> w.base + row.units] /\ drift' = Drift(w)
      BY <2>1, <2>10
    <3>2. projection' \in [exists : BOOLEAN, balance : Int]
          /\ projection'.balance = w.base + row.units
      BY <1>2, <2>4, <3>1 DEF Reckoned
    <3>3. drift' \in {"none", "overtaken", "attributed"} /\ (drift' = "none" => ~w.beaten)
      BY <3>1 DEF Drift
    <3>4. drift' = "none" => w.base = Balance
      BY <1>1, <1>2, <3>3 DEF Reckoned
    <3>5. Balance' = Balance + row.units
      BY <2>6, <2>10
    <3>6. ProjectionFollowsLedger'
      BY <3>2, <3>4, <3>5 DEF ProjectionFollowsLedger
    <3> QED BY <2>7, <2>8, <2>9, <3>2, <3>3, <3>6 DEF MoneyInv
  <2>11. CASE ~row.tagged
    <3>1. UNCHANGED <<projection, drift>>
      BY <2>1, <2>11
    <3>2. Balance' = Balance
      BY <2>6, <2>11, BalanceInt
    <3>3. ProjectionFollowsLedger'
      BY <3>1, <3>2 DEF MoneyInv, ProjectionFollowsLedger
    <3> QED BY <2>7, <2>8, <2>9, <3>1, <3>3 DEF MoneyInv
  <2> QED BY <2>4, <2>10, <2>11
<1> QED BY <1>3, <1>4

LEMMA CrashReckoned == LoyaltyInv /\ MoneyInv /\ Crash => MoneyInv'
<1> SUFFICES ASSUME LoyaltyInv, MoneyInv, Crash PROVE MoneyInv'
  OBVIOUS
<1>1. UNCHANGED <<ledger, projection, drift>> /\ work' = [q \in Requests |-> Idle]
  BY DEF Crash, store, history
<1>2. \A q \in Requests : Reckoned(work[q])'
  BY <1>1, IdleReckoned
<1>3. Balance' = Balance
  BY <1>1 DEF Balance
<1> QED BY <1>1, <1>2, <1>3 DEF MoneyInv, ProjectionFollowsLedger

(* The sums that are read, saved and overtaken: a request that is not      *)
(* overtaken holds the balance until it has saved it.                      *)
THEOREM MoneyInvariant == Spec => [](LoyaltyInv /\ MoneyInv)
<1>1. Init => MoneyInv
  <2> SUFFICES ASSUME Init PROVE MoneyInv
    OBVIOUS
  <2>1. ledger = {} /\ projection = [exists |-> FALSE, balance |-> 0] /\ drift = "none"
    BY DEF Init
  <2>2. \A q \in Requests : work[q] = Idle
    BY DEF Init
  <2>3. ASSUME NEW q \in Requests PROVE Reckoned(work[q])
    <3>1. work[q] = Idle
      BY <2>2
    <3> QED BY <3>1 DEF Reckoned, Idle
  <2>4. {r \in ledger : r.tagged} = {}
    BY <2>1
  <2>5. Balance = 0
    BY <2>4, TotalEmpty DEF Balance
  <2> QED BY <2>1, <2>3, <2>5, FS_EmptySet DEF MoneyInv, ProjectionFollowsLedger
<1>2. LoyaltyInv /\ MoneyInv /\ [Next]_vars => MoneyInv'
  <2> SUFFICES ASSUME LoyaltyInv, MoneyInv, [Next]_vars PROVE MoneyInv'
    OBVIOUS
  <2>1. ASSUME NEW q \in Requests,
               PosRecord(q) \/ ResolveProgram(q) \/ Find(q) \/ Insert(q) \/ Sum(q) \/ Commit(q)
               \/ Rebuild(q) \/ RebuildCommit(q) \/ BackfillScan(q) \/ BackfillAttribute(q)
        PROVE  MoneyInv'
    BY <2>1, PosRecordReckoned, ResolveProgramReckoned, FindReckoned, InsertReckoned,
       SumReckoned, CommitReckoned, RebuildReckoned, RebuildCommitReckoned,
       BackfillScanReckoned, BackfillAttributeReckoned
  <2>2. ASSUME NEW q \in Requests,
               CreateIntent(q) \/ MarkConsumed(q) \/ ReverseDone(q)
        PROVE  MoneyInv'
    <3>1. UNCHANGED <<ledger, projection, drift>> /\ work' = [work EXCEPT ![q] = Idle]
      BY <2>2 DEF CreateIntent, MarkConsumed, ReverseDone, store, history
    <3> QED BY <3>1, BecomesIdleReckoned
  <2>3. ASSUME NEW q \in Requests,
               ReadBalance(q) \/ Consolidate(q) \/ ReadMovements(q) \/ ReverseNext(q)
        PROVE  MoneyInv'
    BY <2>3, ReadBalanceReckoned, ConsolidateReckoned, ReadMovementsReckoned,
       ReverseNextReckoned
  <2>4. CASE (\E i \in IntentIds : VoidIntent(i)) \/ ActivateProgram \/ DeactivateProgram
             \/ UNCHANGED vars
    <3>1. UNCHANGED <<ledger, projection, drift, work>>
      BY <2>4 DEF VoidIntent, ActivateProgram, DeactivateProgram, vars, store, history
    <3> QED BY <3>1, StaysReckoned
  <2>5. CASE Crash
    BY <2>5, CrashReckoned
  <2> QED BY <2>1, <2>2, <2>3, <2>4, <2>5 DEF Next
<1> QED BY <1>1, <1>2, LoyaltyInvariant, PTL DEF Spec

(* The projection is the sum of the ledger unless its last writer was      *)
(* overtaken or a backfill stopped half way: for any number of requests at *)
(* once these are the only ways for it to drift.                           *)
THEOREM ProjectionIsBalance == Spec => []ProjectionFollowsLedger
<1>1. MoneyInv => ProjectionFollowsLedger
  BY DEF MoneyInv
<1> QED BY <1>1, MoneyInvariant, PTL

(* Rows, projection, intents and requests keep their shape.                *)
THEOREM LoyaltyTypes == Spec => []TypeOK
<1>1. LoyaltyInv /\ MoneyInv => TypeOK
  <2> SUFFICES ASSUME LoyaltyInv, MoneyInv PROVE TypeOK
    OBVIOUS
  <2>1. ASSUME NEW q \in Requests
        PROVE  /\ work[q].op \in {"none", "pos", "rebuild", "backfill", "create", "redeem",
                                  "reverse"}
               /\ work[q].point \in {"idle", "resolve", "find", "insert", "sum", "commit",
                                     "attribute", "create", "recorded", "reverse"}
    BY WorkFacts DEF Sound, Phase, Recording, Appends
  <2>2. ASSUME NEW q \in Requests
        PROVE  /\ work[q].base \in Int /\ work[q].beaten \in BOOLEAN
               /\ work[q].intent \in {0} \cup IntentIds /\ work[q].todo \subseteq work[q].found
    BY DEF MoneyInv, Reckoned
  <2>3. ledger \subseteq Rows /\ active \in BOOLEAN /\ DOMAIN work = Requests
    BY DEF LoyaltyInv, LedgerInv, WorkInv
  <2>4. intents \in [IntentIds ->
                      {NoIntent} \cup [status : {"pending", "consumed", "voided"},
                                      ticket : Tickets, cost : Costs]]
    BY DEF LoyaltyInv, IntentsInv
  <2>5. projection \in [exists : BOOLEAN, balance : Int]
        /\ drift \in {"none", "overtaken", "attributed"}
    BY DEF MoneyInv
  <2> QED BY <2>1, <2>2, <2>3, <2>4, <2>5 DEF TypeOK
<1> QED BY <1>1, MoneyInvariant, PTL
==============================================================================
