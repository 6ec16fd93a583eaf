---------------------------- MODULE CloudSession ----------------------------
(***************************************************************************)
(* The cloud session a terminal keeps between runs of the application.     *)
(* CloudCredentialCoordinator holds it in memory, writes it alternately to *)
(* two slots of a keystore that may hang, and writes a revocation barrier  *)
(* outside the keystore when the user logs out.  A login and a refresh     *)
(* reserve an intent, talk to the server, and commit it if nothing newer   *)
(* was reserved or committed meanwhile.  The application may die between   *)
(* any two writes.                                                         *)
(*                                                                         *)
(* A session is the number of the login it stems from; 0 stands for the    *)
(* CLEARED tombstone.  Tokens, checksums and the slot hint (an             *)
(* optimization the code never decides by) are left out, and so is the     *)
(* comparison by time in the barrier: both generations are always there.   *)
(***************************************************************************)
EXTENDS Integers

CONSTANTS
  MaxGeneration,  \* bound on the generations of records
  MaxEpoch,       \* bound on _processEpoch
  MaxLogins,      \* bound on the logins
  MaxRestarts     \* bound on the restarts

ASSUME SessionAssumption ==
  MaxGeneration \in Nat /\ MaxEpoch \in Nat /\ MaxLogins \in Nat /\ MaxRestarts \in Nat

VARIABLES
  slots,     \* what the two keystore slots hold
  barrier,   \* generation of the revocation barrier, 0 when there is none
  circuit,   \* the keystore's circuit breaker
  mem,       \* the coordinator: _current, _currentSlot, _lastKnownGeneration, _processEpoch
  intents,   \* the login and the refresh in flight
  op,        \* the commit or clear that holds the lock
  restarts,  \* how often the application was started again
  logins,    \* history: logins that reserved an intent
  seen,      \* history: this process has read the slots
  blind,     \* history: a process that had not read the slots has logged out
  out,       \* history: logins up to here were logged out
  firm       \* history: generation of the last record verified in its slot

store == <<slots, barrier>>
history == <<restarts, logins, seen, blind, out, firm>>
vars == <<slots, barrier, circuit, mem, intents, op, history>>

Slots == {"a", "b"}
Clients == {"login", "refresh"}
Generations == 0..MaxGeneration
Records ==
  [gen : Generations, writer : 0..MaxEpoch, phase : {"absent", "prepared", "committed"},
   session : Nat]

Absent == [gen |-> 0, writer |-> 0, phase |-> "absent", session |-> 0]
NoRecord == Absent
NoIntent == [point |-> "none", epoch |-> 0, gen |-> 0, writer |-> 0, session |-> 0]
NoOp == [kind |-> "none", record |-> NoRecord, slot |-> "a", point |-> "idle",
         durable |-> FALSE, barred |-> FALSE]
ColdMemory == [current |-> NoRecord, slot |-> "none", known |-> 0, epoch |-> 0]

Init ==
  /\ slots = [s \in Slots |-> Absent]
  /\ barrier = 0
  /\ circuit = "available"
  /\ mem = ColdMemory
  /\ intents = [c \in Clients |-> NoIntent]
  /\ op = NoOp
  /\ restarts = 0 /\ logins = 0 /\ seen = FALSE /\ blind = FALSE /\ out = 0 /\ firm = 0

-----------------------------------------------------------------------------
Larger(m, n) == IF m < n THEN n ELSE m

Committed == {s \in Slots : slots[s].phase = "committed"}

WinnerOldest == CHOOSE s \in Committed : \A t \in Committed : slots[s].gen <= slots[t].gen

Winner == CHOOSE s \in Committed : \A t \in Committed : slots[t].gen <= slots[s].gen

Ambiguous ==
  /\ Committed = Slots
  /\ slots["a"].gen = slots["b"].gen
  /\ slots["a"] # slots["b"]

Rejects(gen) == barrier # 0 /\ gen <= barrier

(* _recover with readable slots: what the winning slot does to the memory. *)
(* A barrier that cannot be read rejects like one that does.               *)
Adopted ==
  [mem EXCEPT !.current = slots[Winner], !.slot = Winner, !.known = slots[Winner].gen,
              !.epoch = Larger(@, slots[Winner].writer)]

Rejected == [mem EXCEPT !.slot = Winner, !.known = slots[Winner].gen]

Readings ==
  IF Committed = {}
  THEN IF \A s \in Slots : slots[s] = Absent
       THEN {[mem EXCEPT !.slot = "none"]}
       ELSE {}
  ELSE IF Ambiguous
  THEN {}
  ELSE {Rejected} \cup (IF Rejects(slots[Winner].gen) THEN {} ELSE {Adopted})

(* _recover: memory first, then the slots.  A keystore failure opens the   *)
(* circuit for the rest of the process; a store without a committed record *)
(* that is not empty makes the call throw, and has no outcome here.        *)
Loads ==
  IF mem.current # NoRecord
  THEN {[mem |-> mem, circuit |-> circuit, seen |-> seen]}
  ELSE {[mem |-> mem, circuit |-> "degraded", seen |-> seen]} \cup
       {[mem |-> m, circuit |-> circuit, seen |-> TRUE] :
          m \in IF circuit = "available" THEN Readings ELSE {}}

(* The generation a new record builds on; `b` is the barrier as read.      *)
Base(m, b) == Larger(IF m.current # NoRecord THEN m.current.gen ELSE m.known, b)

OtherSlotSame(s) == IF s = "none" THEN "a" ELSE s

OtherSlotCold(s) == IF s = "a" THEN "b" ELSE IF s = "b" THEN "a" ELSE s

OtherSlot(s) == IF s = "a" THEN "b" ELSE "a"

-----------------------------------------------------------------------------
(* reserveIntent, for a login (whose answer is already there) or a refresh.*)
Reserve(c) ==
  /\ op = NoOp
  /\ intents[c] = NoIntent
  /\ \E l \in Loads :
       /\ l.mem.epoch < MaxEpoch
       /\ c = "login" => logins < MaxLogins
       /\ mem' = [l.mem EXCEPT !.epoch = @ + 1]
       /\ circuit' = l.circuit
       /\ seen' = l.seen
       /\ logins' = IF c = "login" THEN logins + 1 ELSE logins
       /\ intents' =
            [intents EXCEPT ![c] =
               [point |-> IF c = "login" THEN "ready" ELSE "reserved",
                epoch |-> l.mem.epoch + 1,
                gen |-> l.mem.current.gen, writer |-> l.mem.current.writer,
                session |-> IF c = "login" THEN logins' ELSE 0]]
  /\ UNCHANGED <<store, op, restarts, blind, out, firm>>

(* The refresh reads the credentials it will renew; without any, or after  *)
(* a logout, it gives up.  Its answer may come at any later time.          *)
ReadForRefresh ==
  /\ op = NoOp
  /\ intents["refresh"].point = "reserved"
  /\ \E l \in Loads :
       /\ mem' = l.mem
       /\ circuit' = l.circuit
       /\ seen' = l.seen
       /\ intents' =
            [intents EXCEPT !["refresh"] =
               IF l.mem.current.session = 0 THEN NoIntent
               ELSE [@ EXCEPT !.point = "ready", !.session = l.mem.current.session]]
  /\ UNCHANGED <<store, op, restarts, logins, blind, out, firm>>

RefreshFails ==
  /\ intents["refresh"].point = "ready"
  /\ intents' = [intents EXCEPT !["refresh"] = NoIntent]
  /\ UNCHANGED <<store, circuit, mem, op, history>>

FreshUnchecked(i, m) == TRUE

Fresh(i, m) ==
  /\ i.epoch = m.epoch
  /\ i.gen = m.current.gen
  /\ i.writer = m.current.writer

(* commit, up to the first write: a stale intent is dropped.               *)
StartCommit(c) ==
  /\ op = NoOp
  /\ intents[c].point = "ready"
  /\ intents' = [intents EXCEPT ![c] = NoIntent]
  /\ \E l \in Loads, b \in {0, barrier} :
       /\ mem' = l.mem
       /\ circuit' = l.circuit
       /\ seen' = l.seen
       /\ IF Fresh(intents[c], l.mem)
          THEN /\ Base(l.mem, b) < MaxGeneration
               /\ op' = [kind |-> "commit", slot |-> OtherSlot(l.mem.slot), point |-> "prepare",
                         durable |-> FALSE, barred |-> FALSE,
                         record |-> [gen |-> Base(l.mem, b) + 1, writer |-> intents[c].epoch,
                                     phase |-> "prepared", session |-> intents[c].session]]
          ELSE op' = op
  /\ UNCHANGED <<store, restarts, logins, blind, out, firm>>

(* clear, up to the first keystore write: every intent in flight becomes   *)
(* stale, the session is gone from memory, and the barrier is written      *)
(* outside the keystore, which may fail.                                   *)
StartClear ==
  /\ op = NoOp
  /\ \E l \in Loads, b \in {0, barrier}, barred \in BOOLEAN :
       LET gen == Base(l.mem, b) + 1
           record == [gen |-> gen, writer |-> l.mem.epoch + 1, phase |-> "prepared",
                      session |-> 0]
       IN /\ gen <= MaxGeneration
          /\ l.mem.epoch < MaxEpoch
          /\ mem' = [l.mem EXCEPT !.epoch = @ + 1,
                                  !.current = [record EXCEPT !.phase = "committed"]]
          /\ circuit' = l.circuit
          /\ seen' = l.seen
          /\ blind' = (blind \/ ~l.seen)
          /\ barrier' = IF barred THEN gen ELSE barrier
          /\ op' = [kind |-> "clear", slot |-> OtherSlot(l.mem.slot), point |-> "prepare",
                    durable |-> FALSE, barred |-> barred, record |-> record]
  /\ UNCHANGED <<slots, intents, restarts, logins, out, firm>>

-----------------------------------------------------------------------------
(* _persist: the record goes to the other slot as PREPARED, is read back,  *)
(* goes there as COMMITTED, and is read back.                              *)
Written ==
  [slots EXCEPT ![op.slot] =
     [op.record EXCEPT !.phase = IF op.point = "prepare" THEN "prepared" ELSE "committed"]]

Write ==
  /\ op.point \in {"prepare", "commit"}
  /\ circuit = "available"
  /\ slots' = Written
  /\ op' = [op EXCEPT !.point = IF @ = "prepare" THEN "commit" ELSE "finish",
                      !.durable = op.point = "commit"]
  /\ UNCHANGED <<barrier, circuit, mem, intents, history>>

(* The write or its read-back fails, whether or not it reached the slot:   *)
(* the circuit opens and nothing more is written in this process.          *)
WriteFails ==
  /\ op.point \in {"prepare", "commit"}
  /\ slots' \in IF circuit = "available" THEN {slots, Written} ELSE {slots}
  /\ circuit' = "degraded"
  /\ op' = [op EXCEPT !.point = "finish"]
  /\ UNCHANGED <<barrier, mem, intents, history>>

(* The record is the current one either way.  A verified commit lifts the  *)
(* barrier (which may fail); a clear that left no durable trace throws.    *)
Published ==
  [mem EXCEPT !.current = [op.record EXCEPT !.phase = "committed"], !.slot = op.slot]

FinishCommit ==
  /\ op.kind = "commit" /\ op.point = "finish"
  /\ mem' = Published
  /\ barrier' \in IF op.durable THEN {0, barrier} ELSE {barrier}
  /\ firm' = IF op.durable THEN op.record.gen ELSE firm
  /\ op' = NoOp
  /\ UNCHANGED <<slots, circuit, intents, restarts, logins, seen, blind, out>>

FinishClear ==
  /\ op.kind = "clear" /\ op.point = "finish"
  /\ mem' = Published
  /\ firm' = IF op.durable THEN op.record.gen ELSE firm
  /\ out' = IF op.durable \/ op.barred THEN logins ELSE out
  /\ op' = NoOp
  /\ UNCHANGED <<store, circuit, intents, restarts, logins, seen, blind>>

(* The application dies and starts again.                                  *)
Restart ==
  /\ restarts < MaxRestarts
  /\ restarts' = restarts + 1
  /\ mem' = ColdMemory
  /\ circuit' = "available"
  /\ intents' = [c \in Clients |-> NoIntent]
  /\ op' = NoOp
  /\ seen' = FALSE
  /\ UNCHANGED <<store, logins, blind, out, firm>>

Next ==
  \/ \E c \in Clients : Reserve(c) \/ StartCommit(c)
  \/ ReadForRefresh
  \/ RefreshFails
  \/ StartClear
  \/ Write
  \/ WriteFails
  \/ FinishCommit
  \/ FinishClear
  \/ Restart

Spec == Init /\ [][Next]_vars

-----------------------------------------------------------------------------
TypeOK ==
  /\ slots \in [Slots -> Records]
  /\ barrier \in Generations
  /\ circuit \in {"available", "degraded"}
  /\ mem \in [current : Records, slot : Slots \cup {"none"}, known : Generations,
              epoch : 0..MaxEpoch]
  /\ intents \in [Clients -> [point : {"none", "reserved", "ready"}, epoch : 0..MaxEpoch,
                              gen : Generations, writer : 0..MaxEpoch, session : Nat]]
  /\ op \in [kind : {"none", "commit", "clear"}, record : Records, slot : Slots,
             point : {"idle", "prepare", "commit", "finish"},
             durable : BOOLEAN, barred : BOOLEAN]
  /\ restarts \in Nat /\ logins \in Nat /\ out \in Nat
  /\ seen \in BOOLEAN /\ blind \in BOOLEAN
  /\ firm \in Generations

(* A login that was logged out never authenticates again, in this process  *)
(* or after any number of restarts: not from a slot the logout could not   *)
(* overwrite, not from a refresh that was under way, not after another     *)
(* login.  As long as every logout ran in a process that could read the    *)
(* slots.                                                                  *)
LogoutHolds ==
  ~blind /\ mem.current.session # 0 => mem.current.session > out

(* The session a process works with gives way to that of a later login or  *)
(* to none, never to an earlier one: not when the answer to a refresh of   *)
(* the earlier session arrives while the later login is being committed.   *)
LaterLoginStays ==
  [][mem.current.session # 0 /\ mem'.current.session # 0 =>
       mem'.current.session >= mem.current.session]_vars

(* What a process works with is never older than the last record that was  *)
(* verified in its slot, once the process has read the slots.              *)
NewestDurableWins == seen /\ mem.current # NoRecord => mem.current.gen >= firm

(* Once a record was verified, some slot always holds a committed record,  *)
(* and never two of one generation: the store can be loaded after a crash  *)
(* at any point.  (Before the first, a crash between the two writes leaves *)
(* a store that every later call refuses.)                                 *)
DurableIsLoadable == firm > 0 => Committed # {} /\ ~Ambiguous
=============================================================================
