------------------------- MODULE CloudSessionProofs -------------------------
(***************************************************************************)
(* What the coordinator guarantees for any number of generations, epochs,  *)
(* logins and restarts.                                                    *)
(***************************************************************************)
EXTENDS CloudSession, TLAPS

-----------------------------------------------------------------------------
(* The inductive invariant.                                                *)

(* The generation a process has got to.                                    *)
Horizon(m) == IF m.current # NoRecord THEN m.current.gen ELSE m.known

InCommitted(s) == slots[s].phase = "committed"

(* No two committed records of one generation; the last verified record,   *)
(* or a newer one, is in some slot.                                        *)
SlotInv ==
  /\ InCommitted("a") /\ InCommitted("b") => slots["a"].gen # slots["b"].gen
  /\ firm > 0 => \E s \in Slots : InCommitted(s) /\ slots[s].gen >= firm

(* A process that has read the slots is not behind them, and writes a      *)
(* generation beyond them.                                                 *)
HorizonInv ==
  /\ seen => Horizon(mem) >= firm
  /\ seen /\ op.kind = "none" =>
       \A s \in Slots : InCommitted(s) => slots[s].gen <= Horizon(mem)
  /\ seen /\ op.kind # "none" =>
       /\ op.record.gen >= firm
       /\ \A s \in Slots : InCommitted(s) => slots[s].gen <= op.record.gen

(* A process that never saw the keystore fail knows which slot it must not *)
(* overwrite.                                                              *)
Untouched == mem.slot = "none" /\ \A s \in Slots : slots[s] = Absent

SafeSlot ==
  /\ mem.slot \in Slots
  /\ InCommitted(mem.slot)
  /\ slots[mem.slot].gen < op.record.gen
  /\ \A s \in Slots : InCommitted(s) => slots[s].gen <= slots[mem.slot].gen

WriteInv ==
  /\ (op.kind = "none") <=> (op.point = "idle")
  /\ op.kind = "none" => op = NoOp
  /\ circuit = "available" /\ (mem.current # NoRecord \/ op.kind # "none") => seen
  /\ circuit = "available" /\ op.kind = "none" /\ mem.current # NoRecord =>
       /\ mem.slot \in Slots /\ InCommitted(mem.slot)
       /\ slots[mem.slot].gen = mem.current.gen
  /\ circuit = "available" /\ op.point = "prepare" =>
       op.slot = OtherSlot(mem.slot) /\ (Untouched \/ SafeSlot)
  /\ circuit = "available" /\ op.point = "commit" =>
       /\ ~InCommitted(op.slot)
       /\ \A s \in Slots : InCommitted(s) => slots[s].gen < op.record.gen
  /\ circuit = "available" /\ op.point = "finish" => op.durable
  /\ op.durable =>
       /\ op.point = "finish" /\ seen
       /\ slots[op.slot] = [op.record EXCEPT !.phase = "committed"]

(* What was logged out is out of memory, out of reach of every intent, and *)
(* in the slots overruled by a newer record or by the barrier.             *)
Overruled(s) ==
  \/ slots[s].session = 0
  \/ slots[s].session > out
  \/ \E t \in Slots : InCommitted(t) /\ slots[t].gen > slots[s].gen
  \/ Rejects(slots[s].gen)

LogoutInv ==
  /\ out <= logins
  /\ \A c \in Clients : intents[c].point # "none" =>
       /\ intents[c].epoch <= mem.epoch
       /\ op.kind = "clear" => intents[c].epoch < mem.epoch
  /\ op.kind = "clear" =>
       /\ op.record.session = 0 /\ mem.current.session = 0
       /\ op.barred => barrier = op.record.gen
  /\ op.kind # "none" => op.record.gen > 0
  /\ ~blind =>
       /\ op.kind = "clear" => seen
       /\ op.kind = "commit" => op.record.session > out
       /\ mem.current.session # 0 => mem.current.session > out
       /\ \A c \in Clients :
            intents[c].point = "ready" /\ intents[c].epoch = mem.epoch =>
              intents[c].session > out
       /\ \A s \in Slots : InCommitted(s) => Overruled(s)

SessionInv == TypeOK /\ SlotInv /\ HorizonInv /\ WriteInv /\ LogoutInv
-----------------------------------------------------------------------------
(* Reading the store.                                                      *)

(* A slot holds a record, and the winner is the newest committed one.      *)
LEMMA SlotFacts ==
  ASSUME TypeOK
  PROVE  /\ Slots = {"a", "b"}
         /\ \A s \in Slots : /\ slots[s].gen \in Generations /\ slots[s].gen \in Nat
                             /\ slots[s].session \in Nat /\ slots[s].writer \in 0..MaxEpoch
                             /\ slots[s] \in Records
         /\ mem.current.gen \in Nat /\ mem.known \in Nat /\ Horizon(mem) \in Nat
         /\ op.record.gen \in Nat /\ barrier \in Nat /\ firm \in Nat
         /\ mem.epoch \in Nat /\ mem.current.session \in Nat
BY SessionAssumption DEF TypeOK, Slots, Records, Generations, Horizon

LEMMA WinnerFacts ==
  ASSUME TypeOK, Committed # {}
  PROVE  /\ Winner \in Slots /\ InCommitted(Winner)
         /\ \A s \in Slots : InCommitted(s) => slots[s].gen <= slots[Winner].gen
<1>1. \E s \in Committed : \A t \in Committed : slots[t].gen <= slots[s].gen
  BY SlotFacts DEF Committed, Slots
<1>2. Winner \in Committed /\ \A t \in Committed : slots[t].gen <= slots[Winner].gen
  BY <1>1 DEF Winner
<1> QED BY <1>2 DEF Committed, InCommitted

(* What a call finds when it has recovered: the memory never falls behind, *)
(* and a keystore that still works names the slot that must be spared.     *)
Spared(m) ==
  IF m.slot = "none" THEN m.current = NoRecord /\ \A s \in Slots : slots[s] = Absent
  ELSE /\ m.slot \in Slots /\ InCommitted(m.slot)
       /\ slots[m.slot].gen = Horizon(m)

Recovered(l) ==
  /\ l.mem \in [current : Records, slot : Slots \cup {"none"}, known : Generations,
                epoch : 0..MaxEpoch]
  /\ l.circuit \in {"available", "degraded"} /\ l.seen \in BOOLEAN
  /\ seen => l.seen
  /\ l.mem.epoch >= mem.epoch
  /\ l.seen => /\ Horizon(l.mem) >= firm
               /\ \A s \in Slots : InCommitted(s) => slots[s].gen <= Horizon(l.mem)
  /\ l.circuit = "available" => l.seen /\ Spared(l.mem)
  /\ ~blind /\ l.mem.current.session # 0 => l.mem.current.session > out

LEMMA LoadsRecover ==
  ASSUME SessionInv, op = NoOp, NEW l \in Loads
  PROVE  Recovered(l)
<1>0. /\ TypeOK /\ op.kind = "none"
      /\ NoRecord \in Records /\ NoRecord.gen = 0 /\ NoRecord.session = 0
  BY SessionAssumption DEF SessionInv, NoOp, NoRecord, Absent, Records, Generations
<1>1. CASE mem.current # NoRecord
  <2>1. l = [mem |-> mem, circuit |-> circuit, seen |-> seen]
    BY <1>1 DEF Loads
  <2>2. l.circuit = "available" => l.seen /\ Spared(l.mem)
    <3>1. circuit = "available" => seen /\ mem.slot \in Slots /\ InCommitted(mem.slot)
                                   /\ slots[mem.slot].gen = mem.current.gen
      BY <1>0, <1>1 DEF SessionInv, WriteInv
    <3>2. mem.slot \in Slots => mem.slot # "none"
      BY DEF Slots
    <3> QED BY <1>1, <2>1, <3>1, <3>2 DEF Spared, Horizon
  <2>3. l.seen => /\ Horizon(l.mem) >= firm
                  /\ \A s \in Slots : InCommitted(s) => slots[s].gen <= Horizon(l.mem)
    BY <1>0, <2>1 DEF SessionInv, HorizonInv
  <2> QED BY <1>0, <2>1, <2>2, <2>3, SlotFacts DEF Recovered, SessionInv, LogoutInv, TypeOK
<1>2. CASE mem.current = NoRecord /\ l = [mem |-> mem, circuit |-> "degraded", seen |-> seen]
  <2>1. l.seen => /\ Horizon(l.mem) >= firm
                  /\ \A s \in Slots : InCommitted(s) => slots[s].gen <= Horizon(l.mem)
    BY <1>0, <1>2 DEF SessionInv, HorizonInv
  <2> QED BY <1>0, <1>2, <2>1, SlotFacts DEF Recovered, SessionInv, LogoutInv, TypeOK
<1>3. ASSUME mem.current = NoRecord, circuit = "available", NEW m \in Readings,
             l = [mem |-> m, circuit |-> circuit, seen |-> TRUE]
      PROVE  Recovered(l)
  <2>1. CASE Committed = {}
    <3>1. (\A s \in Slots : slots[s] = Absent) /\ m = [mem EXCEPT !.slot = "none"]
      BY <1>3, <2>1 DEF Readings
    <3>2. \A s \in Slots : ~InCommitted(s)
      BY <3>1 DEF InCommitted, Absent
    <3>3. firm = 0
      BY <1>0, <3>2, SlotFacts DEF SessionInv, SlotInv
    <3>4. m.current = NoRecord /\ m.known = mem.known /\ m.slot = "none" /\ m.epoch = mem.epoch
      BY <1>0, <1>3, <3>1 DEF TypeOK
    <3>5. m \in [current : Records, slot : Slots \cup {"none"}, known : Generations,
                 epoch : 0..MaxEpoch]
      BY <1>0, <3>1 DEF TypeOK
    <3> QED BY <1>0, <1>3, <3>1, <3>2, <3>3, <3>4, <3>5, SlotFacts
            DEF Recovered, Spared, Horizon
  <2>2. CASE Committed # {}
    <3> DEFINE w == Winner
    <3>0. /\ w \in Slots /\ InCommitted(w) /\ w # "none"
          /\ \A s \in Slots : InCommitted(s) => slots[s].gen <= slots[w].gen
          /\ slots[w] \in Records /\ slots[w].gen \in Generations
          /\ slots[w].writer \in 0..MaxEpoch /\ slots[w].gen \in Nat
      BY <1>0, <2>2, WinnerFacts, SlotFacts DEF Slots
    <3>1. slots[w].gen >= firm
      BY <1>0, <3>0, SlotFacts DEF SessionInv, SlotInv
    <3>2. slots[w] # NoRecord
      BY <3>0 DEF InCommitted, NoRecord, Absent
    <3>3. m = Rejected \/ (~Rejects(slots[w].gen) /\ m = Adopted)
      BY <1>3, <2>2 DEF Readings
    <3>4. CASE m = Rejected
      <4>1. /\ m = [mem EXCEPT !.slot = w, !.known = slots[w].gen]
        BY <3>4 DEF Rejected
      <4>2. /\ m.current = NoRecord /\ m.known = slots[w].gen /\ m.slot = w
            /\ m.epoch = mem.epoch
        BY <1>0, <1>3, <4>1 DEF TypeOK
      <4>3. m \in [current : Records, slot : Slots \cup {"none"}, known : Generations,
                   epoch : 0..MaxEpoch]
        BY <1>0, <3>0, <4>1 DEF TypeOK
      <4> HIDE DEF w
      <4> QED BY <1>0, <1>3, <3>0, <3>1, <4>2, <4>3, SlotFacts DEF Recovered, Spared, Horizon
    <3>5. CASE ~Rejects(slots[w].gen) /\ m = Adopted
      <4>1. m = [mem EXCEPT !.current = slots[w], !.slot = w, !.known = slots[w].gen,
                            !.epoch = Larger(mem.epoch, slots[w].writer)]
        BY <3>5 DEF Adopted
      <4>2. Larger(mem.epoch, slots[w].writer) \in 0..MaxEpoch
            /\ Larger(mem.epoch, slots[w].writer) >= mem.epoch
        BY <1>0, <3>0, SessionAssumption DEF Larger, TypeOK
      <4>3. /\ m.current = slots[w] /\ m.known = slots[w].gen /\ m.slot = w
            /\ m.epoch = Larger(mem.epoch, slots[w].writer)
        BY <1>0, <4>1 DEF TypeOK
      <4>4. m \in [current : Records, slot : Slots \cup {"none"}, known : Generations,
                   epoch : 0..MaxEpoch]
        BY <1>0, <3>0, <4>1, <4>2 DEF TypeOK
      <4>5. ~blind /\ slots[w].session # 0 => slots[w].session > out
        <5>1. ~blind => Overruled(w)
          BY <3>0 DEF SessionInv, LogoutInv
        <5>2. ~ \E t \in Slots : InCommitted(t) /\ slots[t].gen > slots[w].gen
          BY <1>0, <3>0, SlotFacts
        <5> QED BY <3>5, <5>1, <5>2 DEF Overruled
      <4> HIDE DEF w
      <4>6. Horizon(l.mem) = slots[w].gen
        BY <1>3, <3>2, <4>3 DEF Horizon
      <4> QED BY <1>0, <1>3, <3>0, <3>1, <4>2, <4>3, <4>4, <4>5, <4>6 DEF Recovered, Spared
    <3> QED BY <3>3, <3>4, <3>5
  <2> QED BY <2>1, <2>2
<1> QED BY <1>1, <1>2, <1>3 DEF Loads
(* Calls that write nothing.                                               *)

(* Recovering, and moving the epoch on, disturbs neither the slots nor     *)
(* what is known of them.                                                  *)
LEMMA RecoveringIsSafe ==
  ASSUME SessionInv, op = NoOp, NEW l \in Loads,
         mem'.current = l.mem.current, mem'.slot = l.mem.slot, mem'.known = l.mem.known,
         circuit' = l.circuit, seen' = l.seen, op' = NoOp,
         UNCHANGED <<slots, firm>>
  PROVE  SlotInv' /\ HorizonInv' /\ WriteInv'
<1>1. Recovered(l) /\ TypeOK
  BY LoadsRecover DEF SessionInv
<1>2. Horizon(mem') = Horizon(l.mem) /\ op'.kind = "none" /\ op'.point = "idle" /\ ~op'.durable
  BY DEF Horizon, NoOp
<1>3. SlotInv'
  BY DEF SessionInv, SlotInv, InCommitted
<1>4. HorizonInv'
  BY <1>1, <1>2 DEF HorizonInv, Recovered, InCommitted
<1>5. circuit' = "available" => seen'
  BY <1>1 DEF Recovered
<1>6. circuit' = "available" /\ mem'.current # NoRecord =>
        /\ mem'.slot \in Slots /\ InCommitted(mem.slot)'
        /\ slots'[mem'.slot].gen = mem'.current.gen
  <2>1. l.circuit = "available" => Spared(l.mem)
    BY <1>1 DEF Recovered
  <2> QED BY <2>1 DEF Spared, InCommitted, Horizon
<1>7. WriteInv'
  BY <1>2, <1>5, <1>6 DEF WriteInv
<1> QED BY <1>3, <1>4, <1>7

(* An intent older than the epoch stays older, whatever the epoch becomes. *)
LEMMA OverruledStays ==
  ASSUME SessionInv, UNCHANGED <<slots, barrier, out>>
  PROVE  \A s \in Slots : Overruled(s) => Overruled(s)'
BY DEF Overruled, InCommitted, Rejects

LEMMA ReserveKeeps ==
  ASSUME SessionInv, NEW c \in Clients, Reserve(c)
  PROVE  SessionInv'
<1>0. PICK l \in Loads :
        /\ l.mem.epoch < MaxEpoch
        /\ c = "login" => logins < MaxLogins
        /\ mem' = [l.mem EXCEPT !.epoch = @ + 1]
        /\ circuit' = l.circuit
        /\ seen' = l.seen
        /\ logins' = IF c = "login" THEN logins + 1 ELSE logins
        /\ intents' =
             [intents EXCEPT ![c] =
                [point |-> IF c = "login" THEN "ready" ELSE "reserved",
                 epoch |-> l.mem.epoch + 1,
                 gen |-> l.mem.current.gen, writer |-> l.mem.current.writer,
                 session |-> IF c = "login" THEN logins' ELSE 0]]
  BY DEF Reserve
<1>1. /\ op = NoOp /\ op' = NoOp
      /\ UNCHANGED <<slots, barrier, restarts, blind, out, firm>>
  BY DEF Reserve, store
<1>2. Recovered(l) /\ TypeOK /\ l.mem.epoch \in Nat /\ mem.epoch \in Nat
  BY <1>1, LoadsRecover, SlotFacts, SessionAssumption DEF SessionInv, Recovered
<1>3. /\ mem'.current = l.mem.current /\ mem'.slot = l.mem.slot /\ mem'.known = l.mem.known
      /\ mem'.epoch = l.mem.epoch + 1
  BY <1>0, <1>2 DEF Recovered
<1>4. SlotInv' /\ HorizonInv' /\ WriteInv'
  BY <1>0, <1>1, <1>3, RecoveringIsSafe
<1>5. mem' \in [current : Records, slot : Slots \cup {"none"}, known : Generations,
                epoch : 0..MaxEpoch]
  BY <1>0, <1>2, SessionAssumption DEF Recovered
<1>6. logins \in Nat /\ logins' \in Nat /\ logins' >= logins
      /\ (c = "login" => logins' = logins + 1)
  BY <1>0, <1>2 DEF TypeOK
<1>7. intents' \in [Clients -> [point : {"none", "reserved", "ready"}, epoch : 0..MaxEpoch,
                                gen : Generations, writer : 0..MaxEpoch, session : Nat]]
  <2>1. l.mem.current \in Records
    BY <1>2 DEF Recovered
  <2>2. [point |-> IF c = "login" THEN "ready" ELSE "reserved",
         epoch |-> l.mem.epoch + 1,
         gen |-> l.mem.current.gen, writer |-> l.mem.current.writer,
         session |-> IF c = "login" THEN logins' ELSE 0]
          \in [point : {"none", "reserved", "ready"}, epoch : 0..MaxEpoch,
               gen : Generations, writer : 0..MaxEpoch, session : Nat]
    BY <1>0, <1>2, <1>6, <2>1, SessionAssumption DEF Records
  <2> QED BY <1>0, <1>2, <2>2 DEF TypeOK
<1>8. TypeOK'
  BY <1>0, <1>1, <1>2, <1>5, <1>6, <1>7 DEF TypeOK, Recovered
<1>9. LogoutInv'
  <2>1. /\ out \in Nat /\ out <= logins
        /\ \A d \in Clients : intents[d].epoch \in Nat
        /\ \A d \in Clients : intents[d].point # "none" => intents[d].epoch <= mem.epoch
    BY <1>1, <1>2 DEF SessionInv, LogoutInv, TypeOK
  <2>2. \A d \in Clients : d # c => intents'[d] = intents[d]
    BY <1>0
  <2>3. /\ intents'[c].epoch = mem'.epoch
        /\ intents'[c].point = "ready" => intents'[c].session = logins + 1
    BY <1>0, <1>2, <1>3, <1>6 DEF TypeOK
  <2>4. mem'.epoch \in Nat /\ mem'.epoch > mem.epoch
    BY <1>2, <1>3 DEF Recovered
  <2>5. \A d \in Clients : intents'[d].point # "none" => intents'[d].epoch <= mem'.epoch
    BY <1>2, <2>1, <2>2, <2>3, <2>4
  <2>6. \A d \in Clients : intents'[d].point = "ready" /\ intents'[d].epoch = mem'.epoch =>
          intents'[d].session > out
    BY <1>2, <1>6, <2>1, <2>2, <2>3, <2>4
  <2>7. op'.kind = "none"
    BY <1>1 DEF NoOp
  <2>8. ~blind /\ mem'.current.session # 0 => mem'.current.session > out
    BY <1>2, <1>3 DEF Recovered
  <2>9. ~blind => \A s \in Slots : InCommitted(s)' => Overruled(s)'
    BY <1>1, OverruledStays DEF SessionInv, LogoutInv, InCommitted
  <2> QED BY <1>1, <1>6, <2>1, <2>5, <2>6, <2>7, <2>8, <2>9 DEF LogoutInv
<1> QED BY <1>4, <1>8, <1>9 DEF SessionInv

LEMMA ReadForRefreshKeeps ==
  ASSUME SessionInv, ReadForRefresh
  PROVE  SessionInv'
<1>0. PICK l \in Loads :
        /\ mem' = l.mem
        /\ circuit' = l.circuit
        /\ seen' = l.seen
        /\ intents' =
             [intents EXCEPT !["refresh"] =
                IF l.mem.current.session = 0 THEN NoIntent
                ELSE [@ EXCEPT !.point = "ready", !.session = l.mem.current.session]]
  BY DEF ReadForRefresh
<1>1. /\ op = NoOp /\ op' = NoOp /\ intents["refresh"].point = "reserved"
      /\ UNCHANGED <<slots, barrier, restarts, logins, blind, out, firm>>
  BY DEF ReadForRefresh, store
<1>2. Recovered(l) /\ TypeOK /\ "refresh" \in Clients /\ l.mem.epoch \in Nat
      /\ mem.epoch \in Nat /\ l.mem.current.session \in Nat
  BY <1>1, LoadsRecover, SlotFacts, SessionAssumption
  DEF SessionInv, Recovered, Clients, Records
<1>4. SlotInv' /\ HorizonInv' /\ WriteInv'
  BY <1>0, <1>1, RecoveringIsSafe
<1>7. /\ \A d \in Clients : d # "refresh" => intents'[d] = intents[d]
      /\ \/ intents'["refresh"] = NoIntent
         \/ /\ intents'["refresh"].session = l.mem.current.session
            /\ l.mem.current.session # 0
            /\ intents'["refresh"].epoch = intents["refresh"].epoch
      /\ intents' \in [Clients -> [point : {"none", "reserved", "ready"}, epoch : 0..MaxEpoch,
                                   gen : Generations, writer : 0..MaxEpoch, session : Nat]]
  <2> DEFINE T == [point : {"none", "reserved", "ready"}, epoch : 0..MaxEpoch,
                   gen : Generations, writer : 0..MaxEpoch, session : Nat]
             i == intents["refresh"]
             j == [i EXCEPT !.point = "ready", !.session = l.mem.current.session]
  <2>1. NoIntent \in T
    BY SessionAssumption DEF NoIntent, Generations
  <2>2. i \in T /\ intents \in [Clients -> T]
    BY <1>2 DEF TypeOK
  <2>3. j \in T /\ j.session = l.mem.current.session /\ j.epoch = i.epoch
    BY <1>2, <2>2
  <2>4. intents' = [intents EXCEPT !["refresh"] =
                      IF l.mem.current.session = 0 THEN NoIntent ELSE j]
    BY <1>0
  <2> HIDE DEF j
  <2>5. CASE l.mem.current.session = 0
    BY <1>2, <2>1, <2>2, <2>4, <2>5
  <2>6. CASE l.mem.current.session # 0
    BY <1>2, <2>2, <2>3, <2>4, <2>6
  <2> QED BY <2>5, <2>6
<1>8. TypeOK'
  BY <1>0, <1>1, <1>2, <1>7 DEF TypeOK, Recovered
<1>9. LogoutInv'
  <2>1. /\ out <= logins
        /\ \A d \in Clients : intents[d].epoch \in Nat
        /\ \A d \in Clients : intents[d].point # "none" => intents[d].epoch <= mem.epoch
        /\ ~blind => \A d \in Clients :
             intents[d].point = "ready" /\ intents[d].epoch = mem.epoch => intents[d].session > out
    BY <1>1, <1>2 DEF SessionInv, LogoutInv, TypeOK
  <2>2. mem'.epoch = l.mem.epoch /\ l.mem.epoch >= mem.epoch
    BY <1>0, <1>2 DEF Recovered
  <2>3. \A d \in Clients : intents'[d].point # "none" => intents'[d].epoch <= mem'.epoch
    BY <1>1, <1>2, <1>7, <2>1, <2>2 DEF NoIntent
  <2>4. ~blind /\ l.mem.current.session # 0 => l.mem.current.session > out
    BY <1>2 DEF Recovered
  <2>5. ASSUME ~blind, NEW d \in Clients, intents'[d].point = "ready",
               intents'[d].epoch = mem'.epoch
        PROVE  intents'[d].session > out
    <3>1. CASE d = "refresh"
      BY <1>7, <2>4, <2>5, <3>1 DEF NoIntent
    <3>2. CASE d # "refresh"
      BY <1>2, <1>7, <2>1, <2>2, <2>5, <3>2
    <3> QED BY <3>1, <3>2
  <2>7. op'.kind = "none"
    BY <1>1 DEF NoOp
  <2>9. ~blind => \A s \in Slots : InCommitted(s)' => Overruled(s)'
    BY <1>1, OverruledStays DEF SessionInv, LogoutInv, InCommitted
  <2> QED BY <1>0, <1>1, <2>1, <2>3, <2>4, <2>5, <2>7, <2>9 DEF LogoutInv
<1> QED BY <1>4, <1>8, <1>9 DEF SessionInv
LEMMA RefreshFailsKeeps ==
  ASSUME SessionInv, RefreshFails
  PROVE  SessionInv'
<1>0. /\ "refresh" \in Clients /\ TypeOK
      /\ UNCHANGED <<slots, barrier, circuit, mem, op, restarts, logins, seen, blind, out, firm>>
      /\ intents' = [intents EXCEPT !["refresh"] = NoIntent]
  BY DEF RefreshFails, Clients, SessionInv, store, history
<1>1. SlotInv' /\ HorizonInv' /\ WriteInv'
  BY <1>0 DEF SessionInv, SlotInv, HorizonInv, WriteInv, InCommitted, Horizon, Untouched, SafeSlot
<1>2. \A c \in Clients : intents'[c] = intents[c] \/ intents'[c].point = "none"
  BY <1>0 DEF TypeOK, NoIntent
<1>3. intents' \in [Clients -> [point : {"none", "reserved", "ready"}, epoch : 0..MaxEpoch,
                                gen : Generations, writer : 0..MaxEpoch, session : Nat]]
  <2>1. NoIntent \in [point : {"none", "reserved", "ready"}, epoch : 0..MaxEpoch,
                      gen : Generations, writer : 0..MaxEpoch, session : Nat]
    BY SessionAssumption DEF NoIntent, Generations
  <2> QED BY <1>0, <2>1 DEF TypeOK
<1>4. TypeOK'
  BY <1>0, <1>3 DEF TypeOK
<1>5. LogoutInv'
  <2>1. \A s \in Slots : Overruled(s) => Overruled(s)'
    BY <1>0, OverruledStays
  <2> QED BY <1>0, <1>2, <2>1 DEF SessionInv, LogoutInv, InCommitted
<1> QED BY <1>1, <1>4, <1>5 DEF SessionInv

(* A record that is about to be written is newer than everything in the    *)
(* slots, and goes to the slot that need not be spared.                    *)
LEMMA StartIsSafe ==
  ASSUME SessionInv, op = NoOp, NEW l \in Loads, NEW b \in {0, barrier},
         mem'.slot = l.mem.slot, circuit' = l.circuit, seen' = l.seen,
         op'.kind \in {"commit", "clear"}, op'.point = "prepare", ~op'.durable,
         op'.slot = OtherSlot(l.mem.slot), op'.record.gen = Base(l.mem, b) + 1,
         Horizon(mem') \in {Horizon(l.mem), op'.record.gen},
         UNCHANGED <<slots, firm>>
  PROVE  /\ SlotInv' /\ HorizonInv' /\ WriteInv'
         /\ op'.record.gen \in Nat /\ op'.record.gen > 0
         /\ seen' => \A s \in Slots : InCommitted(s) => slots[s].gen < op'.record.gen
<1>1. Recovered(l) /\ TypeOK
  BY LoadsRecover DEF SessionInv
<1>2. l.mem.current.gen \in Nat /\ l.mem.known \in Nat /\ b \in Nat
  BY <1>1, SlotFacts, SessionAssumption DEF Recovered, Records, Generations
<1>3. Horizon(l.mem) \in Nat /\ op'.record.gen > Horizon(l.mem)
      /\ op'.record.gen \in Nat
  BY <1>2 DEF Base, Larger, Horizon
<1>4. SlotInv'
  BY DEF SessionInv, SlotInv, InCommitted
<1>5. firm \in Nat /\ \A s \in Slots : slots[s].gen \in Nat
  BY <1>1, SlotFacts
<1>6. seen' => Horizon(l.mem) >= firm
               /\ \A s \in Slots : InCommitted(s) => slots[s].gen <= Horizon(l.mem)
  BY <1>1 DEF Recovered
<1>7. seen' => op'.record.gen >= firm
               /\ \A s \in Slots : InCommitted(s) => slots[s].gen < op'.record.gen
  BY <1>3, <1>5, <1>6
<1>8. HorizonInv'
  BY <1>3, <1>5, <1>6, <1>7 DEF HorizonInv, InCommitted
<1>9. circuit' = "available" => seen' /\ Spared(l.mem)
  BY <1>1 DEF Recovered
<1>10. circuit' = "available" => Untouched' \/ SafeSlot'
  <2>1. CASE l.mem.slot = "none"
    BY <1>9, <2>1 DEF Spared, Untouched
  <2>2. CASE l.mem.slot # "none"
    BY <1>3, <1>6, <1>9, <2>2 DEF Spared, SafeSlot, InCommitted
  <2> QED BY <2>1, <2>2
<1>11. WriteInv'
  BY <1>9, <1>10 DEF WriteInv
<1> QED BY <1>3, <1>4, <1>7, <1>8, <1>11

LEMMA StartCommitKeeps ==
  ASSUME SessionInv, NEW c \in Clients, StartCommit(c)
  PROVE  SessionInv'
<1> DEFINE T == [point : {"none", "reserved", "ready"}, epoch : 0..MaxEpoch,
                 gen : Generations, writer : 0..MaxEpoch, session : Nat]
<1>0. PICK l \in Loads, b \in {0, barrier} :
        /\ mem' = l.mem
        /\ circuit' = l.circuit
        /\ seen' = l.seen
        /\ IF Fresh(intents[c], l.mem)
           THEN /\ Base(l.mem, b) < MaxGeneration
                /\ op' = [kind |-> "commit", slot |-> OtherSlot(l.mem.slot), point |-> "prepare",
                          durable |-> FALSE, barred |-> FALSE,
                          record |-> [gen |-> Base(l.mem, b) + 1, writer |-> intents[c].epoch,
                                      phase |-> "prepared", session |-> intents[c].session]]
           ELSE op' = op
  BY DEF StartCommit
<1>1. /\ op = NoOp /\ intents[c].point = "ready"
      /\ intents' = [intents EXCEPT ![c] = NoIntent]
      /\ UNCHANGED <<slots, barrier, restarts, logins, blind, out, firm>>
  BY DEF StartCommit, store
<1>2. Recovered(l) /\ TypeOK /\ l.mem.epoch \in Nat /\ mem.epoch \in Nat
      /\ intents \in [Clients -> T]
  BY <1>1, LoadsRecover, SlotFacts, SessionAssumption DEF SessionInv, Recovered, TypeOK
<1>3. /\ \A d \in Clients : d # c => intents'[d] = intents[d]
      /\ intents'[c] = NoIntent
      /\ intents' \in [Clients -> T]
  <2>1. NoIntent \in T
    BY SessionAssumption DEF NoIntent, Generations
  <2> QED BY <1>1, <1>2, <2>1
<1>4. mem'.epoch >= mem.epoch /\ mem'.epoch = l.mem.epoch
  BY <1>0, <1>2 DEF Recovered
<1>5. /\ out <= logins
      /\ \A d \in Clients : intents[d].epoch \in Nat
      /\ \A d \in Clients : intents[d].point # "none" => intents[d].epoch <= mem.epoch
      /\ ~blind => \A d \in Clients :
           intents[d].point = "ready" /\ intents[d].epoch = mem.epoch => intents[d].session > out
  BY <1>1, <1>2 DEF SessionInv, LogoutInv, TypeOK
(* What the remaining intents and the slots satisfy, whatever was decided. *)
<1>6. /\ out' <= logins'
      /\ \A d \in Clients : intents'[d].point # "none" => intents'[d].epoch <= mem'.epoch
      /\ ~blind' => \A d \in Clients :
           intents'[d].point = "ready" /\ intents'[d].epoch = mem'.epoch =>
             intents'[d].session > out'
  BY <1>1, <1>2, <1>3, <1>4, <1>5 DEF NoIntent
<1>7. ~blind' => /\ mem'.current.session # 0 => mem'.current.session > out'
                 /\ \A s \in Slots : InCommitted(s)' => Overruled(s)'
  <2>1. ~blind /\ mem'.current.session # 0 => mem'.current.session > out
    BY <1>0, <1>2 DEF Recovered
  <2>2. ~blind => \A s \in Slots : InCommitted(s)' => Overruled(s)'
    BY <1>1, OverruledStays DEF SessionInv, LogoutInv, InCommitted
  <2> QED BY <1>1, <2>1, <2>2
<1>8. CASE ~Fresh(intents[c], l.mem)
  <2>1. op' = NoOp
    BY <1>0, <1>1, <1>8
  <2>2. SlotInv' /\ HorizonInv' /\ WriteInv'
    BY <1>0, <1>1, <2>1, RecoveringIsSafe
  <2>3. TypeOK'
    BY <1>0, <1>1, <1>2, <1>3, <2>1 DEF TypeOK, Recovered
  <2>4. LogoutInv'
    BY <1>6, <1>7, <2>1 DEF LogoutInv, NoOp
  <2> QED BY <2>2, <2>3, <2>4 DEF SessionInv
<1>9. CASE Fresh(intents[c], l.mem)
  <2>1. /\ Base(l.mem, b) < MaxGeneration
        /\ op'.kind = "commit" /\ op'.point = "prepare" /\ op'.durable = FALSE
        /\ op'.barred = FALSE
        /\ op'.slot = OtherSlot(l.mem.slot)
        /\ op'.record.gen = Base(l.mem, b) + 1 /\ op'.record.session = intents[c].session
    BY <1>0, <1>9
  <2>2. /\ SlotInv' /\ HorizonInv' /\ WriteInv'
        /\ op'.record.gen \in Nat /\ op'.record.gen > 0
    <3>1. Horizon(mem') \in {Horizon(l.mem), op'.record.gen}
      BY <1>0
    <3>2. mem'.slot = l.mem.slot
      BY <1>0
    <3> QED BY <1>0, <1>1, <2>1, <3>1, <3>2, StartIsSafe
  <2>3. op' \in [kind : {"none", "commit", "clear"}, record : Records, slot : Slots,
                 point : {"idle", "prepare", "commit", "finish"},
                 durable : BOOLEAN, barred : BOOLEAN]
    <3>1. [gen |-> Base(l.mem, b) + 1, writer |-> intents[c].epoch,
           phase |-> "prepared", session |-> intents[c].session] \in Records
      <4>1. Base(l.mem, b) + 1 \in Generations
        <5>1. l.mem.current.gen \in Nat /\ l.mem.known \in Nat /\ b \in Nat
          BY <1>2, SlotFacts, SessionAssumption DEF Recovered, Records, Generations
        <5>2. Base(l.mem, b) \in Nat
          BY <5>1 DEF Base, Larger
        <5> QED BY <2>1, <5>2, SessionAssumption DEF Generations
      <4>2. intents[c].epoch \in 0..MaxEpoch /\ intents[c].session \in Nat
        BY <1>2
      <4> QED BY <4>1, <4>2 DEF Records
    <3>2. OtherSlot(l.mem.slot) \in Slots
      BY DEF OtherSlot, Slots
    <3>3. op' = [kind |-> "commit", slot |-> OtherSlot(l.mem.slot), point |-> "prepare",
                 durable |-> FALSE, barred |-> FALSE,
                 record |-> [gen |-> Base(l.mem, b) + 1, writer |-> intents[c].epoch,
                             phase |-> "prepared", session |-> intents[c].session]]
      BY <1>0, <1>9
    <3> QED BY <3>1, <3>2, <3>3
  <2>4. TypeOK'
    BY <1>0, <1>1, <1>2, <1>3, <2>3 DEF TypeOK, Recovered
  <2>5. ~blind => intents[c].session > out
    <3>1. intents[c].epoch = l.mem.epoch
      BY <1>9 DEF Fresh
    <3> QED BY <1>1, <1>2, <1>4, <1>5, <3>1
  <2>6. LogoutInv'
    BY <1>1, <1>6, <1>7, <2>1, <2>2, <2>5 DEF LogoutInv
  <2> QED BY <2>2, <2>4, <2>6 DEF SessionInv
<1> QED BY <1>8, <1>9

LEMMA StartClearKeeps ==
  ASSUME SessionInv, StartClear
  PROVE  SessionInv'
<1>0. PICK l \in Loads, b \in {0, barrier}, barred \in BOOLEAN :
        LET gen == Base(l.mem, b) + 1
            record == [gen |-> gen, writer |-> l.mem.epoch + 1, phase |-> "prepared",
                       session |-> 0]
        IN /\ gen <= MaxGeneration
           /\ l.mem.epoch < MaxEpoch
           /\ mem' = [l.mem EXCEPT !.epoch = @ + 1,
                                   !.current = [record EXCEPT !.phase = "committed"]]
           /\ circuit' = l.circuit
           /\ seen' = l.seen
           /\ blind' = (blind \/ ~l.seen)
           /\ barrier' = IF barred THEN gen ELSE barrier
           /\ op' = [kind |-> "clear", slot |-> OtherSlot(l.mem.slot), point |-> "prepare",
                     durable |-> FALSE, barred |-> barred, record |-> record]
  BY DEF StartClear
<1> DEFINE gen == Base(l.mem, b) + 1
           record == [gen |-> gen, writer |-> l.mem.epoch + 1, phase |-> "prepared",
                      session |-> 0]
           held == [gen |-> gen, writer |-> l.mem.epoch + 1, phase |-> "committed",
                    session |-> 0]
<1>1. /\ op = NoOp
      /\ UNCHANGED <<slots, intents, restarts, logins, out, firm>>
  BY DEF StartClear
<1>2. Recovered(l) /\ TypeOK /\ l.mem.epoch \in Nat /\ mem.epoch \in Nat
      /\ \A s \in Slots : slots[s].gen \in Nat
  BY <1>1, LoadsRecover, SlotFacts, SessionAssumption DEF SessionInv, Recovered
<1>3. /\ gen <= MaxGeneration /\ l.mem.epoch < MaxEpoch
      /\ mem' = [l.mem EXCEPT !.epoch = l.mem.epoch + 1, !.current = held]
      /\ op' = [kind |-> "clear", slot |-> OtherSlot(l.mem.slot), point |-> "prepare",
                durable |-> FALSE, barred |-> barred, record |-> record]
      /\ circuit' = l.circuit /\ seen' = l.seen /\ blind' = (blind \/ ~l.seen)
      /\ barrier' = IF barred THEN gen ELSE barrier
  <2>1. [record EXCEPT !.phase = "committed"] = held
    OBVIOUS
  <2>2. mem' = [l.mem EXCEPT !.epoch = l.mem.epoch + 1,
                             !.current = [record EXCEPT !.phase = "committed"]]
    BY <1>0
  <2>3. mem' = [l.mem EXCEPT !.epoch = l.mem.epoch + 1, !.current = held]
    BY <2>1, <2>2
  <2>4. gen <= MaxGeneration /\ l.mem.epoch < MaxEpoch
    BY <1>0
  <2>5. op' = [kind |-> "clear", slot |-> OtherSlot(l.mem.slot), point |-> "prepare",
               durable |-> FALSE, barred |-> barred, record |-> record]
    BY <1>0
  <2>6. barrier' = IF barred THEN gen ELSE barrier
    BY <1>0
  <2> QED BY <1>0, <2>3, <2>4, <2>5, <2>6
<1>4. gen \in Nat /\ gen > 0
  <2>1. l.mem.current.gen \in Nat /\ l.mem.known \in Nat /\ b \in Nat
    BY <1>2, SlotFacts, SessionAssumption DEF Recovered, Records, Generations
  <2> QED BY <2>1 DEF Base, Larger
<1> HIDE DEF gen
<1>5. /\ mem'.epoch = l.mem.epoch + 1 /\ mem'.current = held /\ mem'.slot = l.mem.slot
      /\ op'.kind = "clear" /\ op'.point = "prepare" /\ op'.durable = FALSE
      /\ op'.barred = barred /\ op'.slot = OtherSlot(l.mem.slot)
      /\ op'.record.gen = gen /\ op'.record.session = 0
  BY <1>2, <1>3 DEF Recovered
<1>6. held \in Records /\ record \in Records /\ OtherSlot(l.mem.slot) \in Slots
  BY <1>2, <1>3, <1>4, SessionAssumption DEF Records, Generations, OtherSlot, Slots
<1>7. /\ mem' \in [current : Records, slot : Slots \cup {"none"}, known : Generations,
                   epoch : 0..MaxEpoch]
  <2>1. l.mem.epoch + 1 \in 0..MaxEpoch
    BY <1>2, <1>3, SessionAssumption
  <2> HIDE DEF held
  <2> QED BY <1>2, <1>3, <1>6, <2>1 DEF Recovered
<1>8. op' \in [kind : {"none", "commit", "clear"}, record : Records, slot : Slots,
               point : {"idle", "prepare", "commit", "finish"},
               durable : BOOLEAN, barred : BOOLEAN]
  BY <1>3, <1>6
<1>9. barrier' \in Generations
  BY <1>2, <1>3, <1>4, SessionAssumption DEF TypeOK, Generations
<1>10. TypeOK'
  BY <1>1, <1>2, <1>3, <1>7, <1>8, <1>9 DEF TypeOK, Recovered
<1>11. /\ SlotInv' /\ HorizonInv' /\ WriteInv'
       /\ seen' => \A s \in Slots : InCommitted(s) => slots[s].gen < gen
  <2>1. Horizon(mem') = gen
    BY <1>5 DEF Horizon, NoRecord, Absent
  <2>2. op'.record.gen = Base(l.mem, b) + 1
    BY <1>5 DEF gen
  <2>3. Horizon(mem') \in {Horizon(l.mem), op'.record.gen}
    BY <1>5, <2>1
  <2> QED BY <1>1, <1>3, <1>5, <2>2, <2>3, StartIsSafe
<1>12. LogoutInv'
  <2>1. /\ out <= logins
        /\ \A d \in Clients : intents[d].epoch \in Nat
        /\ \A d \in Clients : intents[d].point # "none" => intents[d].epoch <= mem.epoch
    BY <1>1, <1>2 DEF SessionInv, LogoutInv, TypeOK
  <2>2. mem'.epoch \in Nat /\ mem'.epoch > mem.epoch
    BY <1>2, <1>5 DEF Recovered
  <2>3. \A d \in Clients : intents'[d].point # "none" => intents'[d].epoch < mem'.epoch
                                                       /\ intents'[d].epoch \in Nat
    BY <1>1, <1>2, <2>1, <2>2
  <2>4. ~blind' => ~blind /\ seen'
    BY <1>3
  <2>5. ASSUME ~blind', NEW s \in Slots, InCommitted(s)'
        PROVE  Overruled(s)'
    <3>1. InCommitted(s) /\ Overruled(s) /\ slots[s].gen < gen
      BY <1>1, <1>11, <2>4, <2>5 DEF SessionInv, LogoutInv, InCommitted
    <3>2. CASE barred
      BY <1>1, <1>2, <1>3, <1>4, <3>1, <3>2 DEF Overruled, Rejects
    <3>3. CASE ~barred
      BY <1>1, <1>3, <3>1, <3>3 DEF Overruled, Rejects, InCommitted
    <3> QED BY <3>2, <3>3
  <2>6. mem'.current.session = 0
    BY <1>5
  <2>7. op'.barred => barrier' = op'.record.gen
    BY <1>3, <1>5
  <2>8. \A d \in Clients : intents'[d].point # "none" =>
          intents'[d].epoch <= mem'.epoch /\ intents'[d].epoch # mem'.epoch
    BY <2>2, <2>3
  <2> QED BY <1>1, <1>4, <1>5, <2>1, <2>3, <2>4, <2>5, <2>6, <2>7, <2>8 DEF LogoutInv
<1> QED BY <1>10, <1>11, <1>12 DEF SessionInv
-----------------------------------------------------------------------------
(* Writing the slots.                                                      *)

(* The write spares the slot that holds what was verified: the record goes *)
(* in as prepared beside it, and as committed it overrules it.             *)
LEMMA WrittenIsSafe ==
  ASSUME SessionInv, op.point \in {"prepare", "commit"}, circuit = "available",
         slots' = Written, op'.slot = op.slot, mem' = mem,
         UNCHANGED <<firm, barrier, out>>
  PROVE  /\ SlotInv'
         /\ slots' \in [Slots -> Records]
         /\ \A s \in Slots : InCommitted(s)' => slots'[s].gen <= op.record.gen
         /\ op.point = "prepare" =>
              /\ ~InCommitted(op.slot)'
              /\ \A s \in Slots : InCommitted(s)' => slots'[s].gen < op.record.gen
         /\ op.point = "commit" => slots'[op.slot] = [op.record EXCEPT !.phase = "committed"]
         /\ ~blind => \A s \in Slots : InCommitted(s)' => Overruled(s)'
<1> DEFINE w == [op.record EXCEPT !.phase = IF op.point = "prepare" THEN "prepared"
                                            ELSE "committed"]
<1>0. /\ TypeOK /\ op.kind # "none" /\ op.slot \in Slots /\ op.record \in Records
      /\ op.record.gen \in Nat /\ firm \in Nat /\ out \in Nat /\ op.record.session \in Nat
      /\ \A s \in Slots : slots[s].gen \in Nat
      /\ slots \in [Slots -> Records]
      /\ op.kind \in {"commit", "clear"}
      /\ Slots = {"a", "b"}
  BY SlotFacts, SessionAssumption DEF SessionInv, WriteInv, TypeOK, Records
<1>1. /\ w \in Records /\ w.gen = op.record.gen /\ w.session = op.record.session
      /\ w.phase = IF op.point = "prepare" THEN "prepared" ELSE "committed"
  BY <1>0 DEF Records
<1>2. slots' = [slots EXCEPT ![op.slot] = w]
  BY DEF Written
<1>2a. op.point = "commit" => w = [op.record EXCEPT !.phase = "committed"]
  OBVIOUS
<1> HIDE DEF w
<1>3. /\ slots'[op.slot] = w
      /\ \A s \in Slots : s # op.slot => slots'[s] = slots[s]
      /\ slots' \in [Slots -> Records]
  BY <1>0, <1>1, <1>2
<1>4. CASE op.point = "prepare"
  <2>1. ~InCommitted(op.slot)'
    BY <1>1, <1>3, <1>4 DEF InCommitted
  <2>2. \A s \in Slots : InCommitted(s)' => s # op.slot /\ InCommitted(s) /\ slots'[s] = slots[s]
    BY <1>3, <2>1 DEF InCommitted
  <2>3. op.slot = OtherSlot(mem.slot) /\ (Untouched \/ SafeSlot)
    BY <1>4 DEF SessionInv, WriteInv
  <2>4. CASE Untouched
    <3>1. \A s \in Slots : ~InCommitted(s)
      BY <2>4 DEF Untouched, InCommitted, Absent
    <3>2. firm = 0
      BY <1>0, <3>1 DEF SessionInv, SlotInv
    <3>3. \A s \in Slots : ~InCommitted(s)'
      BY <2>2, <3>1
    <3> QED BY <1>0, <1>3, <1>4, <2>1, <3>2, <3>3 DEF SlotInv
  <2>5. CASE SafeSlot
    <3>1. /\ mem.slot \in Slots /\ InCommitted(mem.slot) /\ slots[mem.slot].gen < op.record.gen
          /\ \A s \in Slots : InCommitted(s) => slots[s].gen <= slots[mem.slot].gen
      BY <2>5 DEF SafeSlot
    <3>2. mem.slot # op.slot
      BY <1>0, <2>3, <3>1 DEF OtherSlot
    <3>3. slots'[mem.slot] = slots[mem.slot] /\ InCommitted(mem.slot)'
      BY <1>3, <3>1, <3>2 DEF InCommitted
    <3>4. \A s \in Slots : InCommitted(s)' => s = mem.slot
      BY <1>0, <2>2, <3>1, <3>2
    <3>5. firm > 0 => slots[mem.slot].gen >= firm
      BY <1>0, <3>1 DEF SessionInv, SlotInv
    <3>6. SlotInv'
      BY <1>0, <2>1, <3>1, <3>3, <3>5 DEF SlotInv
    <3>7. ~blind => Overruled(mem.slot)'
      <4>1. ~blind => Overruled(mem.slot)
        BY <3>1 DEF SessionInv, LogoutInv
      <4>2. ~ \E s \in Slots : InCommitted(s) /\ slots[s].gen > slots[mem.slot].gen
        BY <1>0, <3>1
      <4> QED BY <3>3, <4>1, <4>2 DEF Overruled, Rejects
    <3>8. \A s \in Slots : InCommitted(s)' => slots'[s].gen < op.record.gen
      BY <3>1, <3>3, <3>4
    <3>9. \A s \in Slots : InCommitted(s)' => slots'[s].gen <= op.record.gen
      BY <1>0, <3>1, <3>3, <3>4
    <3> QED BY <1>3, <1>4, <2>1, <3>4, <3>6, <3>7, <3>8, <3>9
  <2> QED BY <2>3, <2>4, <2>5
<1>5. CASE op.point = "commit"
  <2>1. /\ ~InCommitted(op.slot)
        /\ \A s \in Slots : InCommitted(s) => slots[s].gen < op.record.gen
    BY <1>5 DEF SessionInv, WriteInv
  <2>2. InCommitted(op.slot)' /\ slots'[op.slot].gen = op.record.gen
        /\ slots'[op.slot].session = op.record.session
    BY <1>1, <1>3, <1>5 DEF InCommitted
  <2>3. \A s \in Slots : s # op.slot /\ InCommitted(s)' =>
          InCommitted(s) /\ slots'[s].gen < op.record.gen
    BY <1>3, <2>1 DEF InCommitted
  <2>4. \A s \in Slots : InCommitted(s)' => slots'[s].gen <= op.record.gen
    BY <1>0, <1>3, <2>2, <2>3
  <2>5. SlotInv'
    <3>1. InCommitted("a")' /\ InCommitted("b")' => slots'["a"].gen # slots'["b"].gen
      BY <1>0, <1>3, <2>2, <2>3
    <3>2. firm > 0 => \E s \in Slots : InCommitted(s)' /\ slots'[s].gen >= firm
      <4>1. ASSUME firm > 0
            PROVE  \E s \in Slots : InCommitted(s) /\ slots[s].gen >= firm
        BY <4>1 DEF SessionInv, SlotInv
      <4>2. ASSUME firm > 0, NEW s \in Slots, InCommitted(s), slots[s].gen >= firm
            PROVE  InCommitted(s)' /\ slots'[s].gen >= firm
        BY <1>3, <2>1, <4>2 DEF InCommitted
      <4> QED BY <4>1, <4>2
    <3> QED BY <3>1, <3>2 DEF SlotInv
  <2>6. ~blind => \A s \in Slots : InCommitted(s)' => Overruled(s)'
    <3>1. ~blind => op.record.session = 0 \/ op.record.session > out
      BY <1>0 DEF SessionInv, LogoutInv
    <3>2. ~blind => Overruled(op.slot)'
      BY <2>2, <3>1 DEF Overruled
    <3>3. \A s \in Slots : s # op.slot /\ InCommitted(s)' => Overruled(s)'
      BY <1>0, <1>3, <2>2, <2>3 DEF Overruled
    <3> QED BY <3>2, <3>3
  <2> QED BY <1>2a, <1>3, <1>5, <2>4, <2>5, <2>6
<1> QED BY <1>4, <1>5

LEMMA WriteKeeps ==
  ASSUME SessionInv, Write
  PROVE  SessionInv'
<1>0. /\ op.point \in {"prepare", "commit"} /\ circuit = "available" /\ slots' = Written
      /\ op' = [op EXCEPT !.point = IF op.point = "prepare" THEN "commit" ELSE "finish",
                          !.durable = op.point = "commit"]
      /\ UNCHANGED <<barrier, circuit, mem, intents, restarts, logins, seen, blind, out, firm>>
      /\ TypeOK
  BY DEF Write, history, SessionInv
<1>1. /\ op'.kind = op.kind /\ op'.record = op.record /\ op'.slot = op.slot
      /\ op'.barred = op.barred
      /\ op.point = "prepare" => op'.point = "commit" /\ op'.durable = FALSE
      /\ op.point = "commit" => op'.point = "finish" /\ op'.durable = TRUE
      /\ op' \in [kind : {"none", "commit", "clear"}, record : Records, slot : Slots,
                  point : {"idle", "prepare", "commit", "finish"},
                  durable : BOOLEAN, barred : BOOLEAN]
  BY <1>0 DEF TypeOK
<1>2. /\ SlotInv'
      /\ slots' \in [Slots -> Records]
      /\ \A s \in Slots : InCommitted(s)' => slots'[s].gen <= op.record.gen
      /\ op.point = "prepare" =>
           /\ ~InCommitted(op.slot)'
           /\ \A s \in Slots : InCommitted(s)' => slots'[s].gen < op.record.gen
      /\ op.point = "commit" => slots'[op.slot] = [op.record EXCEPT !.phase = "committed"]
      /\ ~blind => \A s \in Slots : InCommitted(s)' => Overruled(s)'
  BY <1>0, <1>1, WrittenIsSafe
<1>3. op.kind # "none" /\ seen
  BY <1>0 DEF SessionInv, WriteInv
<1>4. TypeOK'
  BY <1>0, <1>1, <1>2 DEF TypeOK
<1>5. HorizonInv'
  <2>1. Horizon(mem') = Horizon(mem) /\ firm' = firm /\ seen' = seen
    BY <1>0
  <2>2. seen => Horizon(mem) >= firm /\ op.record.gen >= firm
    BY <1>3 DEF SessionInv, HorizonInv
  <2>3. op'.kind # "none" /\ op'.record.gen = op.record.gen
    BY <1>1, <1>3
  <2> QED BY <1>2, <2>1, <2>2, <2>3 DEF HorizonInv
<1>6. WriteInv'
  <2>1. CASE op.point = "prepare"
    BY <1>0, <1>1, <1>2, <1>3, <2>1 DEF WriteInv, InCommitted
  <2>2. CASE op.point = "commit"
    BY <1>0, <1>1, <1>2, <1>3, <2>2 DEF WriteInv
  <2> QED BY <1>0, <2>1, <2>2
<1>7. LogoutInv'
  BY <1>0, <1>1, <1>2 DEF SessionInv, LogoutInv
<1> QED BY <1>2, <1>4, <1>5, <1>6, <1>7 DEF SessionInv

LEMMA WriteFailsKeeps ==
  ASSUME SessionInv, WriteFails
  PROVE  SessionInv'
<1>0. /\ op.point \in {"prepare", "commit"} /\ circuit' = "degraded"
      /\ slots' \in IF circuit = "available" THEN {slots, Written} ELSE {slots}
      /\ op' = [op EXCEPT !.point = "finish"]
      /\ UNCHANGED <<barrier, mem, intents, restarts, logins, seen, blind, out, firm>>
      /\ TypeOK
  BY DEF WriteFails, history, SessionInv
<1>1. /\ op'.kind = op.kind /\ op'.record = op.record /\ op'.slot = op.slot
      /\ op'.barred = op.barred /\ op'.point = "finish" /\ op'.durable = op.durable
      /\ op' \in [kind : {"none", "commit", "clear"}, record : Records, slot : Slots,
                  point : {"idle", "prepare", "commit", "finish"},
                  durable : BOOLEAN, barred : BOOLEAN]
  BY <1>0 DEF TypeOK
<1>2. /\ SlotInv'
      /\ slots' \in [Slots -> Records]
      /\ seen => \A s \in Slots : InCommitted(s)' => slots'[s].gen <= op.record.gen
      /\ ~blind => \A s \in Slots : InCommitted(s)' => Overruled(s)'
  <2>1. CASE slots' = slots
    <3>1. op.kind # "none"
      BY <1>0 DEF SessionInv, WriteInv
    <3>2. \A s \in Slots : Overruled(s) => Overruled(s)'
      BY <1>0, <2>1, OverruledStays
    <3> QED BY <1>0, <2>1, <3>1, <3>2
            DEF SessionInv, SlotInv, HorizonInv, LogoutInv, InCommitted, TypeOK
  <2>2. CASE circuit = "available" /\ slots' = Written
    BY <1>0, <1>1, <2>2, WrittenIsSafe
  <2> QED BY <1>0, <2>1, <2>2
<1>3. op.kind # "none" /\ ~op.durable
  BY <1>0 DEF SessionInv, WriteInv
<1>4. TypeOK'
  BY <1>0, <1>1, <1>2 DEF TypeOK
<1>5. HorizonInv'
  <2>1. Horizon(mem') = Horizon(mem) /\ firm' = firm /\ seen' = seen
    BY <1>0
  <2>2. seen => Horizon(mem) >= firm /\ op.record.gen >= firm
    BY <1>3 DEF SessionInv, HorizonInv
  <2>3. op'.kind # "none" /\ op'.record.gen = op.record.gen
    BY <1>1, <1>3
  <2> QED BY <1>2, <2>1, <2>2, <2>3 DEF HorizonInv
<1>6. WriteInv'
  BY <1>0, <1>2, <1>3 DEF WriteInv
<1>7. LogoutInv'
  BY <1>0, <1>1, <1>2 DEF SessionInv, LogoutInv
<1> QED BY <1>2, <1>4, <1>5, <1>6, <1>7 DEF SessionInv
(* A record that was verified is the newest in the slots; one that was not *)
(* leaves the keystore out of use.                                         *)
LEMMA FinishIsSafe ==
  ASSUME SessionInv, op.point = "finish", mem' = Published, op' = NoOp,
         firm' = IF op.durable THEN op.record.gen ELSE firm,
         UNCHANGED <<slots, circuit, seen>>
  PROVE  /\ SlotInv' /\ HorizonInv' /\ WriteInv'
         /\ mem' \in [current : Records, slot : Slots \cup {"none"}, known : Generations,
                      epoch : 0..MaxEpoch]
         /\ firm' \in Generations
         /\ mem'.current.session = op.record.session /\ mem'.epoch = mem.epoch
         /\ op.durable =>
              /\ InCommitted(op.slot) /\ slots[op.slot].gen = op.record.gen
              /\ slots[op.slot].session = op.record.session
              /\ \A s \in Slots : s # op.slot /\ InCommitted(s) => slots[s].gen < op.record.gen
<1> DEFINE held == [op.record EXCEPT !.phase = "committed"]
<1>0. /\ TypeOK /\ op.kind # "none" /\ op.slot \in Slots /\ op.record \in Records
      /\ op.record.gen \in Nat /\ firm \in Nat
      /\ \A s \in Slots : slots[s].gen \in Nat
      /\ Slots = {"a", "b"}
      /\ NoOp.kind = "none" /\ NoOp.point = "idle" /\ NoOp.durable = FALSE
  BY SlotFacts DEF SessionInv, WriteInv, TypeOK, NoOp
<1>1. /\ held \in Records /\ held.gen = op.record.gen /\ held.session = op.record.session
      /\ held.phase = "committed" /\ held # NoRecord
  BY <1>0 DEF Records, NoRecord, Absent
<1>2. mem' = [mem EXCEPT !.current = held, !.slot = op.slot]
  BY DEF Published
<1>3. op.durable => seen /\ slots[op.slot] = held
  BY DEF SessionInv, WriteInv
<1>4. circuit = "available" => op.durable
  BY DEF SessionInv, WriteInv
<1> HIDE DEF held
<1>5. /\ mem' \in [current : Records, slot : Slots \cup {"none"}, known : Generations,
                   epoch : 0..MaxEpoch]
      /\ mem'.current = held /\ mem'.slot = op.slot /\ mem'.epoch = mem.epoch
  BY <1>0, <1>1, <1>2 DEF TypeOK
<1>6. firm' \in Generations
  BY <1>0 DEF TypeOK, Records
<1>7. Horizon(mem') = op.record.gen
  BY <1>1, <1>5 DEF Horizon
<1>8. op.durable => InCommitted(op.slot) /\ slots[op.slot].gen = op.record.gen
                    /\ slots[op.slot].session = op.record.session
  BY <1>1, <1>3 DEF InCommitted
<1>9. seen => op.record.gen >= firm
              /\ \A s \in Slots : InCommitted(s) => slots[s].gen <= op.record.gen
  BY <1>0 DEF SessionInv, HorizonInv
<1>10. op.durable =>
         \A s \in Slots : s # op.slot /\ InCommitted(s) => slots[s].gen < op.record.gen
  <2>1. \A s \in Slots : s # op.slot /\ InCommitted(s) /\ InCommitted(op.slot) =>
          slots[s].gen # slots[op.slot].gen
    BY <1>0 DEF SessionInv, SlotInv
  <2> QED BY <1>0, <1>3, <1>8, <1>9, <2>1
<1>11. SlotInv'
  <2>1. InCommitted("a")' /\ InCommitted("b")' => slots'["a"].gen # slots'["b"].gen
    BY DEF SessionInv, SlotInv, InCommitted
  <2>2. firm' > 0 => \E s \in Slots : InCommitted(s)' /\ slots'[s].gen >= firm'
    <3>1. CASE op.durable
      BY <1>0, <1>8, <3>1 DEF InCommitted
    <3>2. CASE ~op.durable
      BY <3>2 DEF SessionInv, SlotInv, InCommitted
    <3> QED BY <3>1, <3>2
  <2> QED BY <2>1, <2>2 DEF SlotInv
<1>12. HorizonInv'
  <2>1. seen' => Horizon(mem') >= firm'
    BY <1>0, <1>7, <1>9
  <2>2. seen' => \A s \in Slots : InCommitted(s)' => slots'[s].gen <= Horizon(mem')
    BY <1>7, <1>9 DEF InCommitted
  <2> QED BY <1>0, <2>1, <2>2 DEF HorizonInv
<1>13. WriteInv'
  BY <1>0, <1>1, <1>3, <1>4, <1>5, <1>8 DEF WriteInv, InCommitted
<1> QED BY <1>1, <1>5, <1>6, <1>8, <1>10, <1>11, <1>12, <1>13

(* A verified record overrules what is in the other slot, whatever becomes *)
(* of the barrier.                                                         *)
LEMMA FinishCommitKeeps ==
  ASSUME SessionInv, FinishCommit
  PROVE  SessionInv'
<1>0. /\ op.kind = "commit" /\ op.point = "finish" /\ mem' = Published /\ op' = NoOp
      /\ barrier' \in IF op.durable THEN {0, barrier} ELSE {barrier}
      /\ firm' = IF op.durable THEN op.record.gen ELSE firm
      /\ UNCHANGED <<slots, circuit, intents, restarts, logins, seen, blind, out>>
      /\ TypeOK
  BY DEF FinishCommit, SessionInv
<1>1. /\ SlotInv' /\ HorizonInv' /\ WriteInv'
      /\ mem' \in [current : Records, slot : Slots \cup {"none"}, known : Generations,
                   epoch : 0..MaxEpoch]
      /\ firm' \in Generations
      /\ mem'.current.session = op.record.session /\ mem'.epoch = mem.epoch
      /\ op.durable =>
           /\ InCommitted(op.slot) /\ slots[op.slot].gen = op.record.gen
           /\ slots[op.slot].session = op.record.session
           /\ \A s \in Slots : s # op.slot /\ InCommitted(s) => slots[s].gen < op.record.gen
  BY <1>0, FinishIsSafe
<1>2. barrier' \in Generations /\ (barrier' = barrier \/ op.durable)
  BY <1>0, SessionAssumption DEF TypeOK, Generations
<1>3. NoOp \in [kind : {"none", "commit", "clear"}, record : Records, slot : Slots,
                point : {"idle", "prepare", "commit", "finish"},
                durable : BOOLEAN, barred : BOOLEAN]
      /\ NoOp.kind = "none"
  BY SessionAssumption DEF NoOp, NoRecord, Absent, Records, Generations, Slots
<1>4. TypeOK'
  BY <1>0, <1>1, <1>2, <1>3 DEF TypeOK
<1>5. ~blind => op.record.session > out
  BY <1>0 DEF SessionInv, LogoutInv
<1>6. ASSUME ~blind, NEW s \in Slots, InCommitted(s)
      PROVE  Overruled(s)'
  <2>1. CASE op.durable /\ s = op.slot
    BY <1>0, <1>1, <1>5, <1>6, <2>1 DEF Overruled
  <2>2. CASE op.durable /\ s # op.slot
    <3>1. op.slot \in Slots
      BY <1>0 DEF TypeOK
    <3> QED BY <1>0, <1>1, <1>6, <2>2, <3>1 DEF Overruled, InCommitted
  <2>3. CASE ~op.durable
    <3>1. Overruled(s)
      BY <1>6 DEF SessionInv, LogoutInv
    <3> QED BY <1>0, <1>2, <2>3, <3>1, OverruledStays
  <2> QED BY <2>1, <2>2, <2>3
<1>7. LogoutInv'
  BY <1>0, <1>1, <1>3, <1>5, <1>6 DEF SessionInv, LogoutInv, InCommitted
<1> QED BY <1>1, <1>4, <1>7 DEF SessionInv

(* What a logout puts out of reach: the slots by the tombstone or by the   *)
(* barrier, the intents by their epoch.                                    *)
LEMMA FinishClearKeeps ==
  ASSUME SessionInv, FinishClear
  PROVE  SessionInv'
<1>0. /\ op.kind = "clear" /\ op.point = "finish" /\ mem' = Published /\ op' = NoOp
      /\ firm' = IF op.durable THEN op.record.gen ELSE firm
      /\ out' = IF op.durable \/ op.barred THEN logins ELSE out
      /\ UNCHANGED <<slots, barrier, circuit, intents, restarts, logins, seen, blind>>
      /\ TypeOK
  BY DEF FinishClear, SessionInv, store
<1>1. /\ SlotInv' /\ HorizonInv' /\ WriteInv'
      /\ mem' \in [current : Records, slot : Slots \cup {"none"}, known : Generations,
                   epoch : 0..MaxEpoch]
      /\ firm' \in Generations
      /\ mem'.current.session = op.record.session /\ mem'.epoch = mem.epoch
      /\ op.durable =>
           /\ InCommitted(op.slot) /\ slots[op.slot].gen = op.record.gen
           /\ slots[op.slot].session = op.record.session
           /\ \A s \in Slots : s # op.slot /\ InCommitted(s) => slots[s].gen < op.record.gen
  BY <1>0, FinishIsSafe
<1>3. NoOp \in [kind : {"none", "commit", "clear"}, record : Records, slot : Slots,
                point : {"idle", "prepare", "commit", "finish"},
                durable : BOOLEAN, barred : BOOLEAN]
      /\ NoOp.kind = "none"
  BY SessionAssumption DEF NoOp, NoRecord, Absent, Records, Generations, Slots
<1>4. TypeOK'
  BY <1>0, <1>1, <1>3 DEF TypeOK
<1>5. /\ op.record.session = 0 /\ op.record.gen > 0 /\ out <= logins
      /\ op.barred => barrier = op.record.gen
      /\ \A c \in Clients : intents[c].point # "none" => intents[c].epoch <= mem.epoch
      /\ \A c \in Clients : intents[c].point # "none" => intents[c].epoch < mem.epoch
  BY <1>0 DEF SessionInv, LogoutInv
<1>6. ASSUME ~blind, NEW s \in Slots, InCommitted(s)
      PROVE  Overruled(s)'
  <2>1. CASE op.durable /\ s = op.slot
    BY <1>0, <1>1, <1>5, <2>1 DEF Overruled
  <2>2. CASE op.durable /\ s # op.slot
    <3>1. op.slot \in Slots
      BY <1>0 DEF TypeOK
    <3> QED BY <1>0, <1>1, <1>6, <2>2, <3>1 DEF Overruled, InCommitted
  <2>3. CASE ~op.durable /\ op.barred
    <3>1. seen
      BY <1>0, <1>6 DEF SessionInv, LogoutInv
    <3>2. slots[s].gen <= op.record.gen
      BY <1>0, <1>6, <3>1 DEF SessionInv, HorizonInv
    <3>3. op.record.gen \in Nat
      BY <1>0, SlotFacts
    <3> QED BY <1>0, <1>5, <2>3, <3>2, <3>3 DEF Overruled, Rejects
  <2>4. CASE ~op.durable /\ ~op.barred
    <3>1. Overruled(s) /\ out' = out
      BY <1>0, <1>6, <2>4 DEF SessionInv, LogoutInv
    <3> QED BY <1>0, <3>1, OverruledStays
  <2> QED BY <2>1, <2>2, <2>3, <2>4
<1>7. LogoutInv'
  <2>1. out' <= logins'
    <3>1. logins \in Nat
      BY <1>0 DEF TypeOK
    <3> QED BY <1>0, <1>5, <3>1
  <2>2. \A c \in Clients : intents'[c].point # "none" =>
          intents'[c].epoch <= mem'.epoch /\ intents'[c].epoch # mem'.epoch
    <3>1. \A c \in Clients : intents[c].epoch \in Nat /\ mem.epoch \in Nat
      BY <1>0, SessionAssumption DEF TypeOK
    <3> QED BY <1>0, <1>1, <1>5, <3>1
  <2>3. mem'.current.session = 0
    BY <1>1, <1>5
  <2> QED BY <1>0, <1>3, <1>6, <2>1, <2>2, <2>3 DEF LogoutInv, InCommitted
<1> QED BY <1>1, <1>4, <1>7 DEF SessionInv

LEMMA RestartKeeps ==
  ASSUME SessionInv, Restart
  PROVE  SessionInv'
<1>0. /\ mem' = ColdMemory /\ circuit' = "available" /\ op' = NoOp /\ seen' = FALSE
      /\ intents' = [c \in Clients |-> NoIntent]
      /\ restarts' = restarts + 1
      /\ UNCHANGED <<slots, barrier, logins, blind, out, firm>>
      /\ TypeOK
  BY DEF Restart, store, SessionInv
<1>1. SlotInv' /\ HorizonInv'
  BY <1>0 DEF SessionInv, SlotInv, HorizonInv, InCommitted
<1>2. WriteInv'
  BY <1>0 DEF WriteInv, NoOp, ColdMemory
<1>3. NoOp \in [kind : {"none", "commit", "clear"}, record : Records, slot : Slots,
                point : {"idle", "prepare", "commit", "finish"},
                durable : BOOLEAN, barred : BOOLEAN]
  BY SessionAssumption DEF NoOp, NoRecord, Absent, Records, Generations, Slots
<1>4. ColdMemory \in [current : Records, slot : Slots \cup {"none"}, known : Generations,
                      epoch : 0..MaxEpoch]
  BY SessionAssumption DEF ColdMemory, NoRecord, Absent, Records, Generations
<1>5. intents' \in [Clients -> [point : {"none", "reserved", "ready"}, epoch : 0..MaxEpoch,
                                gen : Generations, writer : 0..MaxEpoch, session : Nat]]
  BY <1>0, SessionAssumption DEF NoIntent, Generations
<1>6. TypeOK'
  <2>1. seen' \in BOOLEAN /\ blind' \in BOOLEAN
    BY <1>0 DEF TypeOK
  <2>2. restarts' \in Nat
    BY <1>0 DEF TypeOK
  <2>3. /\ slots' \in [Slots -> Records] /\ barrier' \in Generations
        /\ logins' \in Nat /\ out' \in Nat /\ firm' \in Generations
    BY <1>0 DEF TypeOK
  <2>4. circuit' \in {"available", "degraded"}
    BY <1>0
  <2> QED BY <1>0, <1>3, <1>4, <1>5, <2>1, <2>2, <2>3, <2>4 DEF TypeOK
<1>7. LogoutInv'
  <2>1. \A s \in Slots : Overruled(s) => Overruled(s)'
    BY <1>0, OverruledStays
  <2>2. \A c \in Clients : intents'[c].point = "none"
    BY <1>0 DEF NoIntent
  <2>3. op'.kind = "none" /\ mem'.current.session = 0
    BY <1>0 DEF NoOp, ColdMemory, NoRecord, Absent
  <2> QED BY <1>0, <2>1, <2>2, <2>3 DEF SessionInv, LogoutInv, InCommitted
<1> QED BY <1>1, <1>2, <1>6, <1>7 DEF SessionInv

-----------------------------------------------------------------------------
(* The theorems.                                                           *)

LEMMA SessionInvInitially == Init => SessionInv
<1> SUFFICES ASSUME Init PROVE SessionInv
  OBVIOUS
<1>1. \A s \in Slots : slots[s] = Absent /\ ~InCommitted(s)
  BY DEF Init, InCommitted, Absent
<1>2. TypeOK
  <2>1. Absent \in Records /\ NoRecord \in Records
    BY SessionAssumption DEF Absent, NoRecord, Records, Generations
  <2>2. NoOp \in [kind : {"none", "commit", "clear"}, record : Records, slot : Slots,
                  point : {"idle", "prepare", "commit", "finish"},
                  durable : BOOLEAN, barred : BOOLEAN]
    BY <2>1 DEF NoOp, Slots
  <2>3. ColdMemory \in [current : Records, slot : Slots \cup {"none"}, known : Generations,
                        epoch : 0..MaxEpoch]
    BY <2>1, SessionAssumption DEF ColdMemory, Generations
  <2>4. NoIntent \in [point : {"none", "reserved", "ready"}, epoch : 0..MaxEpoch,
                      gen : Generations, writer : 0..MaxEpoch, session : Nat]
    BY SessionAssumption DEF NoIntent, Generations
  <2>5. slots \in [Slots -> Records] /\ intents \in [Clients ->
          [point : {"none", "reserved", "ready"}, epoch : 0..MaxEpoch,
           gen : Generations, writer : 0..MaxEpoch, session : Nat]]
    BY <2>1, <2>4 DEF Init
  <2>6. /\ barrier \in Generations /\ firm \in Generations
        /\ restarts \in Nat /\ logins \in Nat /\ out \in Nat
    BY SessionAssumption DEF Init, Generations
  <2>7. seen \in BOOLEAN /\ blind \in BOOLEAN
    BY DEF Init
  <2>8. circuit \in {"available", "degraded"} /\ mem = ColdMemory /\ op = NoOp
    BY DEF Init
  <2> QED BY <2>2, <2>3, <2>5, <2>6, <2>7, <2>8 DEF TypeOK
<1>3. SlotInv /\ HorizonInv
  BY <1>1 DEF Init, SlotInv, HorizonInv, Slots
<1>4. WriteInv
  BY DEF Init, WriteInv, NoOp, ColdMemory
<1>5. LogoutInv
  BY <1>1 DEF Init, LogoutInv, NoOp, NoIntent, ColdMemory, NoRecord, Absent
<1> QED BY <1>2, <1>3, <1>4, <1>5 DEF SessionInv

LEMMA SessionInvPreserved == SessionInv /\ [Next]_vars => SessionInv'
<1> SUFFICES ASSUME SessionInv, [Next]_vars PROVE SessionInv'
  OBVIOUS
<1>1. ASSUME NEW c \in Clients, Reserve(c) \/ StartCommit(c) PROVE SessionInv'
  BY <1>1, ReserveKeeps, StartCommitKeeps
<1>2. CASE UNCHANGED vars
  <2>1. UNCHANGED <<slots, barrier, circuit, mem, intents, op, restarts, logins, seen, blind,
                    out, firm>>
    BY <1>2 DEF vars, store, history
  <2>2. TypeOK'
    BY <2>1 DEF SessionInv, TypeOK
  <2>3. SlotInv' /\ HorizonInv'
    BY <2>1 DEF SessionInv, SlotInv, HorizonInv, InCommitted, Horizon
  <2>4. WriteInv'
    BY <2>1 DEF SessionInv, WriteInv, InCommitted, Untouched, SafeSlot
  <2>5. \A s \in Slots : Overruled(s) => Overruled(s)'
    BY <2>1, OverruledStays
  <2>6. LogoutInv'
    BY <2>1, <2>5 DEF SessionInv, LogoutInv, InCommitted
  <2> QED BY <2>2, <2>3, <2>4, <2>6 DEF SessionInv
<1> QED BY <1>1, <1>2, ReadForRefreshKeeps, RefreshFailsKeeps, StartClearKeeps, WriteKeeps,
           WriteFailsKeeps, FinishCommitKeeps, FinishClearKeeps, RestartKeeps DEF Next

(* The slots, the memory, the operation under way and what was logged out  *)
(* stay in the relation the invariant describes.                           *)
THEOREM SessionInvariant == Spec => []SessionInv
BY SessionInvInitially, SessionInvPreserved, PTL DEF Spec

(* The state of the coordinator and of its stores keeps its types.         *)
THEOREM SessionTypes == Spec => []TypeOK
<1>1. SessionInv => TypeOK
  BY DEF SessionInv
<1> QED BY <1>1, SessionInvariant, PTL

(* A login that was logged out by a process that could read the slots      *)
(* never authenticates again.                                              *)
THEOREM LogoutIsFinal == Spec => []LogoutHolds
<1>1. SessionInv => LogoutHolds
  BY DEF SessionInv, LogoutInv, LogoutHolds
<1> QED BY <1>1, SessionInvariant, PTL

(* A process that has read the slots is never behind the last record that  *)
(* was verified.                                                           *)
THEOREM VerifiedRecordWins == Spec => []NewestDurableWins
<1>1. SessionInv => NewestDurableWins
  BY DEF SessionInv, HorizonInv, NewestDurableWins, Horizon
<1> QED BY <1>1, SessionInvariant, PTL

(* Once a record was verified, the store can be loaded after a crash at    *)
(* any point.                                                              *)
THEOREM StoreStaysLoadable == Spec => []DurableIsLoadable
<1>1. SessionInv => DurableIsLoadable
  <2>1. \A s \in Slots : s \in Committed <=> InCommitted(s)
    BY DEF Committed, InCommitted
  <2>2. SlotInv => (firm > 0 => Committed # {})
    BY <2>1 DEF SlotInv
  <2>3. SlotInv => ~Ambiguous
    BY <2>1 DEF SlotInv, Ambiguous, Slots
  <2> QED BY <2>2, <2>3 DEF SessionInv, DurableIsLoadable
<1> QED BY <1>1, SessionInvariant, PTL

-----------------------------------------------------------------------------
(* The order of the logins.  No session is newer than the last login; of   *)
(* the intents under way only the one reserved last can still commit, and  *)
(* a refresh among them carries the session that is current.               *)
OrderInv ==
  /\ mem.current.session <= logins
  /\ op.record.session <= logins
  /\ \A s \in Slots : slots[s].session <= logins
  /\ intents["login"].point # "none" => intents["login"].session = logins
  /\ intents["login"].point # "none" /\ intents["refresh"].point # "none" =>
       intents["login"].epoch # intents["refresh"].epoch
  /\ intents["refresh"].point = "ready" =>
       /\ intents["refresh"].session # 0
       /\ intents["refresh"].epoch = mem.epoch =>
            intents["refresh"].session = mem.current.session
  /\ op.kind = "commit" =>
       /\ op.record.session >= mem.current.session
       /\ \A c \in Clients : intents[c].point # "none" => intents[c].epoch < mem.epoch

LEMMA OrderFacts ==
  ASSUME SessionInv
  PROVE  /\ mem.current.session \in Nat /\ op.record.session \in Nat /\ logins \in Nat
         /\ \A s \in Slots : slots[s].session \in Nat
         /\ Clients = {"login", "refresh"}
         /\ \A c \in Clients : /\ intents[c].session \in Nat /\ intents[c].epoch \in Nat
                               /\ intents[c].point # "none" => intents[c].epoch <= mem.epoch
         /\ mem.epoch \in Nat
         /\ NoOp.kind = "none" /\ NoOp.record.session = 0 /\ NoRecord.session = 0
         /\ NoIntent.point = "none"
<1>1. /\ mem.current \in Records /\ op.record \in Records /\ mem.epoch \in 0..MaxEpoch
      /\ slots \in [Slots -> Records] /\ logins \in Nat
      /\ intents \in [Clients -> [point : {"none", "reserved", "ready"}, epoch : 0..MaxEpoch,
                                  gen : Generations, writer : 0..MaxEpoch, session : Nat]]
  BY DEF SessionInv, TypeOK
<1>2. \A c \in Clients : /\ intents[c].session \in Nat /\ intents[c].epoch \in Nat
                         /\ intents[c].point # "none" => intents[c].epoch <= mem.epoch
  BY <1>1, SessionAssumption DEF SessionInv, LogoutInv
<1> QED BY <1>1, <1>2, SessionAssumption
        DEF Records, Clients, NoOp, NoRecord, Absent, NoIntent

(* Recovering finds what is in memory, or, with nothing there, a session   *)
(* of some login; the epoch does not go back.                              *)
LEMMA LoadsInOrder ==
  ASSUME SessionInv, OrderInv, op = NoOp, NEW l \in Loads
  PROVE  /\ l.mem.current.session \in Nat /\ l.mem.current.session <= logins
         /\ l.mem.epoch \in Nat /\ l.mem.epoch >= mem.epoch
         /\ mem.current.session # 0 => l.mem = mem
         /\ l.mem \in [current : Records, slot : Slots \cup {"none"}, known : Generations,
                       epoch : 0..MaxEpoch]
<1>1. Recovered(l) /\ TypeOK
  BY LoadsRecover DEF SessionInv
<1>2. /\ l.mem.current.session \in Nat /\ l.mem.epoch \in Nat /\ l.mem.epoch >= mem.epoch
      /\ l.mem \in [current : Records, slot : Slots \cup {"none"}, known : Generations,
                    epoch : 0..MaxEpoch]
  BY <1>1, SessionAssumption DEF Recovered, Records
<1>3. CASE mem.current # NoRecord
  <2>1. l.mem = mem
    BY <1>3 DEF Loads
  <2> QED BY <1>2, <2>1 DEF OrderInv
<1>4. CASE mem.current = NoRecord
  <2>1. mem.current.session = 0
    BY <1>4, OrderFacts
  <2>2. l.mem = mem \/ l.mem \in Readings
    BY <1>4 DEF Loads
  <2>3. CASE l.mem = mem
    BY <1>2, <2>1, <2>3 DEF OrderInv
  <2>4. CASE l.mem \in Readings /\ Committed = {}
    <3>1. l.mem = [mem EXCEPT !.slot = "none"]
      BY <2>4 DEF Readings
    <3>2. l.mem.current = mem.current
      BY <1>1, <3>1 DEF TypeOK
    <3> QED BY <1>2, <2>1, <3>2 DEF OrderInv
  <2>5. CASE l.mem \in Readings /\ Committed # {}
    <3>1. Winner \in Slots
      BY <1>1, <2>5, WinnerFacts
    <3>2. l.mem = Rejected \/ l.mem = Adopted
      BY <2>5 DEF Readings
    <3>3. l.mem.current = mem.current \/ l.mem.current = slots[Winner]
      BY <1>1, <3>2 DEF Rejected, Adopted, TypeOK
    <3> QED BY <1>2, <2>1, <3>1, <3>3 DEF OrderInv
  <2> QED BY <2>2, <2>3, <2>4, <2>5
<1> QED BY <1>3, <1>4

LEMMA ReserveInOrder ==
  ASSUME SessionInv, OrderInv, NEW c \in Clients, Reserve(c)
  PROVE  /\ OrderInv'
         /\ mem.current.session # 0 => mem'.current.session = mem.current.session
<1>0. PICK l \in Loads :
        /\ mem' = [l.mem EXCEPT !.epoch = @ + 1]
        /\ logins' = IF c = "login" THEN logins + 1 ELSE logins
        /\ intents' =
             [intents EXCEPT ![c] =
                [point |-> IF c = "login" THEN "ready" ELSE "reserved",
                 epoch |-> l.mem.epoch + 1,
                 gen |-> l.mem.current.gen, writer |-> l.mem.current.writer,
                 session |-> IF c = "login" THEN logins' ELSE 0]]
  BY DEF Reserve
<1>1. op = NoOp /\ op' = NoOp /\ slots' = slots /\ intents[c] = NoIntent
  BY DEF Reserve, store
<1>2. /\ l.mem.current.session \in Nat /\ l.mem.current.session <= logins
      /\ l.mem.epoch \in Nat /\ l.mem.epoch >= mem.epoch
      /\ mem.current.session # 0 => l.mem = mem
      /\ l.mem \in [current : Records, slot : Slots \cup {"none"}, known : Generations,
                    epoch : 0..MaxEpoch]
  BY <1>1, LoadsInOrder
<1>3. mem'.current = l.mem.current /\ mem'.epoch = l.mem.epoch + 1
  BY <1>0, <1>2
<1>4. /\ \A d \in Clients : d # c => intents'[d] = intents[d]
      /\ intents'[c].epoch = mem'.epoch
      /\ c = "login" => intents'[c].session = logins'
      /\ c = "refresh" => intents'[c].point = "reserved"
  BY <1>0, <1>3 DEF SessionInv, TypeOK
<1>5. logins' \in Nat /\ logins' >= logins /\ (c # "login" => logins' = logins)
  BY <1>0, OrderFacts
<1>6. \A d \in Clients : d # c /\ intents'[d].point # "none" => intents'[d].epoch < mem'.epoch
  BY <1>2, <1>3, <1>4, OrderFacts
<1>7. /\ mem'.current.session <= logins' /\ op'.record.session <= logins'
      /\ op'.kind # "commit"
      /\ \A s \in Slots : slots'[s].session <= logins'
  <2>1. op'.record.session = 0 /\ op'.kind = "none"
    BY <1>1, OrderFacts
  <2>2. \A s \in Slots : slots'[s].session <= logins /\ slots'[s].session \in Nat
    BY <1>1, OrderFacts DEF OrderInv
  <2> QED BY <1>2, <1>3, <1>5, <2>1, <2>2, OrderFacts
<1>8. CASE c = "login"
  <2>1. /\ intents'["login"].session = logins' /\ intents'["login"].epoch = mem'.epoch
        /\ intents'["refresh"] = intents["refresh"]
        /\ intents'["refresh"].point # "none" => intents'["refresh"].epoch < mem'.epoch
        /\ mem'.epoch \in Nat /\ intents'["refresh"].epoch \in Nat
    BY <1>2, <1>3, <1>4, <1>6, <1>8, OrderFacts
  <2>2. intents'["refresh"].point = "ready" => intents'["refresh"].session # 0
    BY <2>1 DEF OrderInv
  <2> QED BY <1>2, <1>3, <1>7, <2>1, <2>2 DEF OrderInv
<1>9. CASE c = "refresh"
  <2>1. /\ intents'["login"] = intents["login"] /\ logins' = logins
        /\ intents'["refresh"].point = "reserved" /\ intents'["refresh"].epoch = mem'.epoch
        /\ intents'["login"].point # "none" => intents'["login"].epoch < mem'.epoch
        /\ mem'.epoch \in Nat /\ intents'["login"].epoch \in Nat
    BY <1>2, <1>3, <1>4, <1>5, <1>6, <1>9, OrderFacts
  <2>2. intents'["login"].point # "none" => intents'["login"].session = logins'
    BY <2>1 DEF OrderInv
  <2> QED BY <1>2, <1>3, <1>7, <2>1, <2>2 DEF OrderInv
<1> QED BY <1>8, <1>9 DEF Clients

LEMMA ReadInOrder ==
  ASSUME SessionInv, OrderInv, ReadForRefresh
  PROVE  /\ OrderInv'
         /\ mem.current.session # 0 => mem'.current.session = mem.current.session
<1>0. PICK l \in Loads :
        /\ mem' = l.mem
        /\ intents' =
             [intents EXCEPT !["refresh"] =
                IF l.mem.current.session = 0 THEN NoIntent
                ELSE [@ EXCEPT !.point = "ready", !.session = l.mem.current.session]]
  BY DEF ReadForRefresh
<1>1. /\ op = NoOp /\ op' = NoOp /\ slots' = slots /\ logins' = logins
      /\ intents["refresh"].point = "reserved"
  BY DEF ReadForRefresh, store
<1>2. /\ l.mem.current.session \in Nat /\ l.mem.current.session <= logins
      /\ mem.current.session # 0 => l.mem = mem
  BY <1>1, LoadsInOrder
<1>3. /\ intents'["login"] = intents["login"]
      /\ \/ intents'["refresh"].point = "none"
         \/ /\ intents'["refresh"].point = "ready"
            /\ intents'["refresh"].epoch = intents["refresh"].epoch
            /\ intents'["refresh"].session = l.mem.current.session
            /\ l.mem.current.session # 0
  <2>1. /\ intents \in [Clients -> [point : {"none", "reserved", "ready"}, epoch : 0..MaxEpoch,
                                    gen : Generations, writer : 0..MaxEpoch, session : Nat]]
        /\ "login" \in Clients /\ "refresh" \in Clients
    BY DEF SessionInv, TypeOK, Clients
  <2>2. CASE l.mem.current.session = 0
    BY <1>0, <2>1, <2>2 DEF NoIntent
  <2>3. CASE l.mem.current.session # 0
    BY <1>0, <2>1, <2>3
  <2> QED BY <2>2, <2>3
<1>4. /\ op'.record.session <= logins' /\ op'.kind # "commit"
      /\ \A s \in Slots : slots'[s].session <= logins'
  BY <1>1, OrderFacts DEF OrderInv
<1>5. /\ intents'["login"].point # "none" => intents'["login"].session = logins'
      /\ intents'["login"].point # "none" /\ intents'["refresh"].point # "none" =>
           intents'["login"].epoch # intents'["refresh"].epoch
  BY <1>1, <1>3 DEF OrderInv
<1> QED BY <1>0, <1>1, <1>2, <1>3, <1>4, <1>5 DEF OrderInv

(* Only the intent reserved last passes the check, and its session is not  *)
(* older than the current one.                                             *)
LEMMA StartCommitInOrder ==
  ASSUME SessionInv, OrderInv, NEW c \in Clients, StartCommit(c)
  PROVE  /\ OrderInv'
         /\ mem.current.session # 0 => mem'.current.session = mem.current.session
<1>0. PICK l \in Loads, b \in {0, barrier} :
        /\ mem' = l.mem
        /\ IF Fresh(intents[c], l.mem)
           THEN op' = [kind |-> "commit", slot |-> OtherSlot(l.mem.slot), point |-> "prepare",
                       durable |-> FALSE, barred |-> FALSE,
                       record |-> [gen |-> Base(l.mem, b) + 1, writer |-> intents[c].epoch,
                                   phase |-> "prepared", session |-> intents[c].session]]
           ELSE op' = op
  BY DEF StartCommit
<1>1. /\ op = NoOp /\ slots' = slots /\ logins' = logins
      /\ intents[c].point = "ready" /\ intents' = [intents EXCEPT ![c] = NoIntent]
  BY DEF StartCommit, store
<1>2. /\ l.mem.current.session \in Nat /\ l.mem.current.session <= logins
      /\ l.mem.epoch \in Nat /\ l.mem.epoch >= mem.epoch
      /\ mem.current.session # 0 => l.mem = mem
  BY <1>1, LoadsInOrder
<1>3. /\ intents'[c].point = "none"
      /\ \A d \in Clients : d # c => intents'[d] = intents[d]
  BY <1>1, OrderFacts DEF SessionInv, TypeOK
<1>4. ASSUME intents["refresh"].point = "ready", intents["refresh"].epoch = l.mem.epoch
      PROVE  intents["refresh"].session = l.mem.current.session
  <2>1. intents["refresh"].epoch = mem.epoch
    BY <1>2, <1>4, OrderFacts
  <2> QED BY <1>2, <1>4, <2>1 DEF OrderInv
<1>5. \A s \in Slots : slots'[s].session <= logins'
  BY <1>1 DEF OrderInv
<1>6. /\ intents'["login"].point # "none" => intents'["login"].session = logins'
      /\ ~ (intents'["login"].point # "none" /\ intents'["refresh"].point # "none")
      /\ intents'["refresh"].point = "ready" =>
           /\ intents'["refresh"].session # 0
           /\ intents'["refresh"].epoch = mem'.epoch =>
                intents'["refresh"].session = mem'.current.session
  <2>1. CASE c = "login"
    BY <1>0, <1>1, <1>3, <1>4, <2>1, OrderFacts DEF OrderInv
  <2>2. CASE c = "refresh"
    BY <1>1, <1>3, <2>2, OrderFacts DEF OrderInv
  <2> QED BY <2>1, <2>2 DEF Clients
<1>7. CASE Fresh(intents[c], l.mem)
  <2>1. /\ op'.kind = "commit" /\ op'.record.session = intents[c].session
        /\ intents[c].epoch = l.mem.epoch
    BY <1>0, <1>7 DEF Fresh
  <2>2. l.mem.epoch = mem.epoch
    BY <1>1, <1>2, <2>1, OrderFacts
  <2>3. /\ intents[c].session >= l.mem.current.session
        /\ intents[c].session <= logins
    <3>1. CASE c = "login"
      BY <1>1, <1>2, <3>1, OrderFacts DEF OrderInv
    <3>2. CASE c = "refresh"
      BY <1>1, <1>2, <1>4, <2>1, <3>2, OrderFacts
    <3> QED BY <3>1, <3>2 DEF Clients
  <2>4. \A d \in Clients : intents'[d].point # "none" => intents'[d].epoch < mem'.epoch
    <3>1. ASSUME NEW d \in Clients, d # c, intents[d].point # "none"
          PROVE  intents[d].epoch # intents[c].epoch
      BY <1>1, <3>1, OrderFacts DEF OrderInv
    <3> QED BY <1>0, <1>3, <2>1, <2>2, <3>1, OrderFacts
  <2> QED BY <1>0, <1>1, <1>2, <1>5, <1>6, <2>1, <2>3, <2>4 DEF OrderInv
<1>8. CASE ~Fresh(intents[c], l.mem)
  <2>1. op'.kind = "none" /\ op'.record.session <= logins'
    BY <1>0, <1>1, <1>8, OrderFacts
  <2> QED BY <1>0, <1>1, <1>2, <1>5, <1>6, <2>1 DEF OrderInv
<1> QED BY <1>7, <1>8

LEMMA ClearInOrder ==
  ASSUME SessionInv, OrderInv, StartClear
  PROVE  OrderInv' /\ mem'.current.session = 0
<1>0. PICK l \in Loads, b \in {0, barrier}, barred \in BOOLEAN :
        LET gen == Base(l.mem, b) + 1
            record == [gen |-> gen, writer |-> l.mem.epoch + 1, phase |-> "prepared",
                       session |-> 0]
        IN /\ gen <= MaxGeneration
           /\ l.mem.epoch < MaxEpoch
           /\ mem' = [l.mem EXCEPT !.epoch = @ + 1,
                                   !.current = [record EXCEPT !.phase = "committed"]]
           /\ circuit' = l.circuit
           /\ seen' = l.seen
           /\ blind' = (blind \/ ~l.seen)
           /\ barrier' = IF barred THEN gen ELSE barrier
           /\ op' = [kind |-> "clear", slot |-> OtherSlot(l.mem.slot), point |-> "prepare",
                     durable |-> FALSE, barred |-> barred, record |-> record]
  BY DEF StartClear
<1>1. op = NoOp /\ UNCHANGED <<slots, intents, logins>>
  BY DEF StartClear
<1>2. /\ l.mem.epoch \in Nat /\ l.mem.epoch >= mem.epoch
      /\ l.mem \in [current : Records, slot : Slots \cup {"none"}, known : Generations,
                    epoch : 0..MaxEpoch]
  BY <1>1, LoadsInOrder
<1>3. /\ mem'.epoch = l.mem.epoch + 1 /\ mem'.current.session = 0
      /\ op'.kind = "clear" /\ op'.record.session = 0
  BY <1>0, <1>2
<1>4. intents["refresh"].point = "ready" => intents["refresh"].epoch # mem'.epoch
  BY <1>2, <1>3, OrderFacts
<1>5. 0 <= logins
  BY OrderFacts
<1> QED BY <1>1, <1>3, <1>4, <1>5 DEF OrderInv

LEMMA WritesInOrder ==
  ASSUME SessionInv, OrderInv, Write \/ WriteFails
  PROVE  OrderInv' /\ mem' = mem
<1>1. /\ UNCHANGED <<mem, intents, logins>> /\ slots' \in {slots, Written}
      /\ op'.kind = op.kind /\ op'.record = op.record
  <2>1. op \in [kind : {"none", "commit", "clear"}, record : Records, slot : Slots,
                point : {"idle", "prepare", "commit", "finish"},
                durable : BOOLEAN, barred : BOOLEAN]
    BY DEF SessionInv, TypeOK
  <2>2. CASE Write
    BY <2>1, <2>2 DEF Write, history
  <2>3. CASE WriteFails
    BY <2>1, <2>3 DEF WriteFails, history
  <2> QED BY <2>2, <2>3
<1>2. \A s \in Slots : slots'[s].session <= logins
  <2>1. CASE slots' = slots
    BY <2>1 DEF OrderInv
  <2>2. CASE slots' = Written
    <3>1. op.record \in Records /\ slots \in [Slots -> Records]
      BY DEF SessionInv, TypeOK
    <3>2. \A s \in Slots : slots'[s].session \in {slots[s].session, op.record.session}
      BY <2>2, <3>1 DEF Written, Records
    <3> QED BY <3>2 DEF OrderInv
  <2> QED BY <1>1, <2>1, <2>2
<1> QED BY <1>1, <1>2 DEF OrderInv

LEMMA FinishInOrder ==
  ASSUME SessionInv, OrderInv, FinishCommit \/ FinishClear
  PROVE  /\ OrderInv'
         /\ mem'.current.session = 0 \/ mem'.current.session >= mem.current.session
<1>1. /\ UNCHANGED <<slots, intents, logins>> /\ op' = NoOp
      /\ mem'.current.session = op.record.session /\ mem'.epoch = mem.epoch
  BY FinishIsSafe DEF FinishCommit, FinishClear, store
<1>2. \A c \in Clients : intents[c].point # "none" => intents[c].epoch < mem.epoch
  BY DEF FinishCommit, FinishClear, SessionInv, LogoutInv, OrderInv
<1>3. op.record.session = 0 \/ op.record.session >= mem.current.session
  BY DEF FinishCommit, FinishClear, SessionInv, LogoutInv, OrderInv
<1>4. intents["refresh"].point = "ready" => intents["refresh"].epoch # mem.epoch
  BY <1>2, OrderFacts
<1>5. op'.kind # "commit" /\ op'.record.session <= logins
  BY <1>1, OrderFacts
<1> QED BY <1>1, <1>3, <1>4, <1>5 DEF OrderInv

LEMMA RestartInOrder ==
  ASSUME SessionInv, OrderInv, Restart
  PROVE  OrderInv' /\ mem'.current.session = 0
<1>1. /\ mem'.current.session = 0 /\ op' = NoOp /\ UNCHANGED <<slots, logins>>
      /\ \A c \in Clients : intents'[c].point = "none"
  BY DEF Restart, store, ColdMemory, NoRecord, Absent, NoIntent
<1> QED BY <1>1, OrderFacts DEF OrderInv

LEMMA OrderStep ==
  ASSUME SessionInv, OrderInv, [Next]_vars
  PROVE  /\ OrderInv'
         /\ \/ mem.current.session = 0 \/ mem'.current.session = 0
            \/ mem'.current.session >= mem.current.session
<1>0. mem.current.session \in Nat
  BY OrderFacts
<1>1. CASE RefreshFails
  <2>1. /\ UNCHANGED <<slots, mem, op, logins>>
        /\ intents'["login"] = intents["login"] /\ intents'["refresh"].point = "none"
        /\ \A c \in Clients : intents'[c].point # "none" => intents'[c] = intents[c]
    BY <1>1, OrderFacts DEF RefreshFails, store, history, SessionInv, TypeOK
  <2> QED BY <1>0, <2>1 DEF OrderInv
<1>2. CASE UNCHANGED vars
  BY <1>0, <1>2 DEF OrderInv, vars, store, history
<1>3. ASSUME NEW c \in Clients, Reserve(c) \/ StartCommit(c)
      PROVE  /\ OrderInv'
             /\ mem.current.session # 0 => mem'.current.session = mem.current.session
  BY <1>3, ReserveInOrder, StartCommitInOrder
<1> QED BY <1>0, <1>1, <1>2, <1>3, ReadInOrder, ClearInOrder, WritesInOrder, FinishInOrder,
           RestartInOrder DEF Next

(* A later login is not pushed aside by what is still under way for an     *)
(* earlier one.                                                            *)
THEOREM LaterLoginsStay == Spec => LaterLoginStays
<1>1. Init => OrderInv
  BY DEF Init, OrderInv, NoOp, NoIntent, ColdMemory, NoRecord, Absent, Slots, Clients
<1>2. SessionInv /\ OrderInv /\ [Next]_vars =>
        /\ OrderInv'
        /\ [mem.current.session # 0 /\ mem'.current.session # 0 =>
              mem'.current.session >= mem.current.session]_vars
  BY OrderStep
<1> QED BY <1>1, <1>2, SessionInvariant, PTL DEF Spec, LaterLoginStays
=============================================================================
