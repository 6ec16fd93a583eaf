-------------------------- MODULE DeviceCredential --------------------------
(***************************************************************************)
(* The credential a terminal synchronizes with.  The server issues it for  *)
(* an activation attempt in numbered versions (DeviceSyncCredentialService)*)
(* and every operation there reads rows, checks them and saves them in a   *)
(* transaction that locks nothing.  The terminal bootstraps in phases      *)
(* (DeviceSyncBootstrapCoordinator): provision, stage, confirm, commit; it *)
(* keeps an active record and a staged candidate in two stores, the        *)
(* preferred keystore, which may fail for the rest of a process, and a     *)
(* fallback table.  Answers are lost, requests outlive those who sent      *)
(* them, and the application dies between any two writes.                  *)
(*                                                                         *)
(* A record is its attempt (which stands for the device identity) and its  *)
(* version; the secret goes with it.  Expiry of an ACTIVE credential and   *)
(* failures of the fallback table are left out.                            *)
(***************************************************************************)
EXTENDS Integers, Sequences

CONSTANTS
  MaxAttempt,  \* bound on the identities the terminal takes
  MaxVersion,  \* bound on the versions of one attempt's credential
  Requests,    \* requests of the terminal that can be under way at once
  Managed      \* bound: the credentials the backoffice revokes or retires

ASSUME CredentialAssumption ==
  /\ MaxAttempt \in Nat \ {0} /\ MaxVersion \in Nat \ {0}
  /\ Managed \subseteq [attempt : 1..MaxAttempt, version : 1..MaxVersion]

VARIABLES
  status,     \* the credential rows
  request,    \* requests of the terminal the server is working on
  admin,      \* a revocation or retirement under way in the backoffice
  identity,   \* the terminal's device identity
  stores,     \* what both stores hold
  circuit,    \* the keystore's circuit breaker
  boot,       \* the bootstrap in progress
  confirmed,  \* history: credentials the server made ACTIVE
  refused,    \* history: credentials the terminal was told cannot be confirmed
  mixed       \* history: asked for a credential with one of another identity in store

server == <<status, request, admin>>
terminal == <<identity, stores, circuit, boot>>
history == <<confirmed, refused, mixed>>
vars == <<server, terminal, history>>

Attempts == 1..MaxAttempt
Versions == 1..MaxVersion
Credentials == [attempt : Attempts, version : Versions]
None == [attempt |-> 0, version |-> 0]
Statuses == {"none", "pending", "lapsed", "active", "retired", "revoked"}
Areas == {"active", "candidate"}
NoRequest == [kind |-> "none", cred |-> None, point |-> "none", answer |-> "none"]
NoAdmin == [kind |-> "none", cred |-> None]
Resting == [point |-> "idle", cred |-> None, request |-> "none", todo |-> <<>>, next |-> "idle"]

Init ==
  /\ status = [a \in Attempts |-> [v \in Versions |-> "none"]]
  /\ request = [q \in Requests |-> NoRequest]
  /\ admin = NoAdmin
  /\ identity = 1
  /\ stores = [preferred |-> [active |-> None, candidate |-> None],
               fallback |-> [active |-> None, candidate |-> None]]
  /\ circuit = "available"
  /\ boot = Resting
  /\ confirmed = {}
  /\ refused = {}
  /\ mixed = FALSE

-----------------------------------------------------------------------------
(* The two stores.  A read takes the record of the higher version and      *)
(* copies it to the other store; equal versions of different credentials   *)
(* are a conflict and the read throws (no outcome).                        *)
HigherVersion(p, f) == IF p.version >= f.version THEN p ELSE f

Copied(area, c) == [s \in DOMAIN stores |-> [stores[s] EXCEPT ![area] = c]]

(* Reads(area): every outcome of readCredential or readCandidate.          *)
Reads(area) ==
  LET p == stores.preferred[area]
      f == stores.fallback[area]
      failed == [cred |-> f, stores |-> stores, circuit |-> "degraded"]
      best == HigherVersion(p, f)
      read == [cred |-> best, stores |-> Copied(area, best), circuit |-> "available"]
  IN {failed} \cup
     (IF circuit = "degraded" \/ (p.version = f.version /\ p # f) THEN {}
      ELSE {read})

Write(s, area, c) == [store |-> s, area |-> area, cred |-> c]

Stage(c) == <<Write("preferred", "candidate", c), Write("fallback", "candidate", c)>>

(* Each store copies its candidate to the active area, then deletes it.    *)
Commit(c) ==
  <<Write("preferred", "active", c), Write("preferred", "candidate", None),
    Write("fallback", "active", c), Write("fallback", "candidate", None)>>

Clear ==
  <<Write("preferred", "active", None), Write("preferred", "candidate", None),
    Write("fallback", "active", None), Write("fallback", "candidate", None)>>

Done(w) == [stores EXCEPT ![w.store][w.area] = w.cred]

-----------------------------------------------------------------------------
(* The terminal.  bootstrap: a staged candidate is confirmed before        *)
(* anything else is looked at.                                             *)
Send(q, kind, c) ==
  /\ request[q] = NoRequest
  /\ request' = [request EXCEPT ![q] =
                   [kind |-> kind, cred |-> c, point |-> "sent", answer |-> "none"]]
  /\ boot' = [Resting EXCEPT !.point = kind, !.cred = c, !.request = q]

ReadCandidate ==
  /\ boot.point = "idle"
  /\ \E r \in Reads("candidate") :
       /\ stores' = r.stores
       /\ circuit' = r.circuit
       /\ IF r.cred = None
          THEN boot' = [boot EXCEPT !.point = "missing"] /\ UNCHANGED request
          ELSE \E q \in Requests : Send(q, "confirm", r.cred)
  /\ UNCHANGED <<status, admin, identity, history>>

(* An active record of this identity ends the bootstrap; one of an earlier *)
(* identity is cleared.                                                    *)
ReadActive ==
  /\ boot.point = "missing"
  /\ \E r \in Reads("active") :
       /\ stores' = r.stores
       /\ circuit' = r.circuit
       /\ boot' = IF r.cred = None THEN [boot EXCEPT !.point = "absent"]
                  ELSE IF r.cred.attempt = identity THEN Resting
                  ELSE [boot EXCEPT !.point = "writing", !.todo = Clear, !.next = "absent"]
  /\ UNCHANGED <<server, identity, history>>

Provision ==
  /\ boot.point = "absent"
  /\ \E q \in Requests : Send(q, "provision", [attempt |-> identity, version |-> 0])
  /\ mixed' = (mixed \/ \E s \in DOMAIN stores, area \in Areas :
                         stores[s][area].attempt \notin {0, identity})
  /\ UNCHANGED <<status, admin, identity, stores, circuit, confirmed, refused>>

(* One store write.  The keystore may fail, and then fails for the rest of *)
(* the process; the fallback goes on alone.                                *)
WriteStore ==
  /\ boot.point = "writing" /\ boot.todo # <<>>
  /\ LET w == Head(boot.todo)
     IN /\ \/ /\ w.store = "fallback" \/ circuit = "available"
              /\ stores' = Done(w)
              /\ UNCHANGED circuit
           \/ /\ w.store = "preferred"
              /\ stores' \in IF circuit = "available" THEN {stores, Done(w)} ELSE {stores}
              /\ circuit' = "degraded"
        /\ boot' = [boot EXCEPT !.todo = Tail(@)]
  /\ UNCHANGED <<server, identity, history>>

(* A staged candidate is read back and must be the one that was staged;    *)
(* only then is it confirmed.                                              *)
VerifyStaged ==
  /\ boot.point = "writing" /\ boot.todo = <<>> /\ boot.next = "verify"
  /\ \E r \in Reads("candidate") :
       /\ stores' = r.stores
       /\ circuit' = r.circuit
       /\ IF r.cred = boot.cred
          THEN \E q \in Requests : Send(q, "confirm", r.cred)
          ELSE /\ boot' = [Resting EXCEPT
                             !.point = "writing",
                             !.todo = <<Write("preferred", "candidate", None),
                                        Write("fallback", "candidate", None)>>]
               /\ UNCHANGED request
  /\ UNCHANGED <<status, admin, identity, history>>

WritesDone ==
  /\ boot.point = "writing" /\ boot.todo = <<>> /\ boot.next # "verify"
  /\ boot' = [Resting EXCEPT !.point = boot.next]
  /\ UNCHANGED <<server, identity, stores, circuit, history>>

(* The answers.  Of a refusal to confirm the terminal only understands     *)
(* DEVICE_RECOVERY_REQUIRED and DEVICE_REVOKED, which confirm never sends: *)
(* the candidate stays.                                                    *)
ProvisionAnsweredAnyway ==
  LET q == boot.request IN
  /\ boot.point = "provision" /\ request[q].point = "answered"
  /\ boot' = [Resting EXCEPT !.point = "writing", !.cred = request[q].cred,
                             !.todo = Stage(request[q].cred), !.next = "verify"]
  /\ request' = [request EXCEPT ![q] = NoRequest]
  /\ UNCHANGED <<status, admin, identity, stores, circuit, history>>

ProvisionAnswered ==
  LET q == boot.request IN
  /\ boot.point = "provision" /\ request[q].point = "answered"
  /\ boot' =
       IF request[q].answer = "secret"
       THEN [Resting EXCEPT !.point = "writing", !.cred = request[q].cred,
                            !.todo = Stage(request[q].cred), !.next = "verify"]
       ELSE Resting
  /\ request' = [request EXCEPT ![q] = NoRequest]
  /\ UNCHANGED <<status, admin, identity, stores, circuit, history>>

ConfirmAnsweredRegardless ==
  LET q == boot.request IN
  /\ boot.point = "confirm" /\ request[q].point = "answered"
  /\ boot' = [Resting EXCEPT !.point = "writing",
                             !.todo = Stage(boot.cred) \o Commit(boot.cred)]
  /\ request' = [request EXCEPT ![q] = NoRequest]
  /\ UNCHANGED <<status, admin, identity, stores, circuit, history>>

ConfirmAnswered ==
  LET q == boot.request IN
  /\ boot.point = "confirm" /\ request[q].point = "answered"
  /\ boot' =
       IF request[q].answer = "active" /\ boot.cred.attempt = identity
       THEN [Resting EXCEPT !.point = "writing",
                            !.todo = Stage(boot.cred) \o Commit(boot.cred)]
       ELSE Resting
  /\ request' = [request EXCEPT ![q] = NoRequest]
  /\ refused' = IF request[q].answer = "refused" THEN refused \cup {boot.cred} ELSE refused
  /\ UNCHANGED <<status, admin, identity, stores, circuit, confirmed, mixed>>

GiveUpAndDrop ==
  /\ boot.point \in {"provision", "confirm"}
  /\ boot' = [Resting EXCEPT !.point = "writing",
                             !.todo = <<Write("preferred", "candidate", None),
                                        Write("fallback", "candidate", None)>>]
  /\ UNCHANGED <<server, identity, stores, circuit, history>>

(* The answer does not come in time, or the application dies: the request  *)
(* goes on without anyone waiting.                                         *)
GiveUp ==
  /\ boot.point \in {"provision", "confirm"}
  /\ boot' = Resting
  /\ UNCHANGED <<server, identity, stores, circuit, history>>

Restart ==
  /\ boot # Resting \/ circuit = "degraded"
  /\ boot' = Resting
  /\ circuit' = "available"
  /\ UNCHANGED <<server, identity, stores, history>>

(* The terminal is activated again, as another device.                     *)
Relink ==
  /\ boot = Resting
  /\ identity < MaxAttempt
  /\ identity' = identity + 1
  /\ UNCHANGED <<server, stores, circuit, boot, history>>

-----------------------------------------------------------------------------
(* The server.  Every operation is two steps: it reads and checks, and     *)
(* later it saves what it computed from what it read.                      *)
StatusOf(c) == status[c.attempt][c.version]

Issued(a) == {v \in Versions : status[a][v] # "none"}

Latest(a) == IF Issued(a) = {} THEN 0 ELSE CHOOSE v \in Issued(a) : \A w \in Issued(a) : w <= v

SetStatus(c, s) == [status EXCEPT ![c.attempt][c.version] = s]

Answer(q, answer, c) ==
  request' = [request EXCEPT ![q].point = "answered", ![q].answer = answer, ![q].cred = c]

ReadProvision(q) ==
  LET a == request[q].cred.attempt
      latest == [attempt |-> a, version |-> Latest(a)]
      seen == IF latest.version = 0 THEN "none" ELSE StatusOf(latest)
  IN
  /\ request[q].kind = "provision" /\ request[q].point = "sent"
  /\ CASE seen = "active" -> Answer(q, "noSecret", latest)
       [] seen \in {"revoked", "retired"} -> Answer(q, "recovery", latest)
       [] OTHER -> request' = [request EXCEPT ![q].point = "read", ![q].cred = latest]
  /\ UNCHANGED <<status, admin, terminal, history>>

(* The pending version is retired and the next one created; the unique     *)
(* index makes the whole transaction fail when it exists already.          *)
SaveProvision(q) ==
  LET c == request[q].cred
      created == [c EXCEPT !.version = @ + 1]
  IN
  /\ request[q].kind = "provision" /\ request[q].point = "read"
  /\ c.version < MaxVersion
  /\ IF StatusOf(created) # "none"
     THEN Answer(q, "error", c) /\ UNCHANGED status
     ELSE /\ status' = [status EXCEPT ![c.attempt] =
                          [v \in Versions |-> IF v = created.version THEN "pending"
                                              ELSE IF v = c.version THEN "retired" ELSE @[v]]]
          /\ Answer(q, "secret", created)
  /\ UNCHANGED <<admin, terminal, history>>

ReadConfirm(q) ==
  LET c == request[q].cred IN
  /\ request[q].kind = "confirm" /\ request[q].point = "sent"
  /\ CASE StatusOf(c) = "active" -> Answer(q, "active", c)
       [] StatusOf(c) = "pending" -> request' = [request EXCEPT ![q].point = "read"]
       [] OTHER -> Answer(q, "refused", c)
  /\ UNCHANGED <<status, admin, terminal, history>>

SaveConfirm(q) ==
  LET c == request[q].cred IN
  /\ request[q].kind = "confirm" /\ request[q].point = "read"
  /\ status' = SetStatus(c, "active")
  /\ confirmed' = confirmed \cup {c}
  /\ Answer(q, "active", c)
  /\ UNCHANGED <<admin, terminal, refused, mixed>>

(* Nobody waits for this answer any more.                                  *)
AnswerLost(q) ==
  /\ request[q].point = "answered"
  /\ boot.request # q
  /\ request' = [request EXCEPT ![q] = NoRequest]
  /\ UNCHANGED <<status, admin, terminal, history>>

AdminRead(c, kind) ==
  /\ admin = NoAdmin
  /\ StatusOf(c) # "none"
  /\ kind = "revoked" => StatusOf(c) \notin {"revoked", "retired"}
  /\ admin' = [kind |-> kind, cred |-> c]
  /\ UNCHANGED <<status, request, terminal, history>>

AdminSave ==
  /\ admin # NoAdmin
  /\ status' = SetStatus(admin.cred, admin.kind)
  /\ admin' = NoAdmin
  /\ UNCHANGED <<request, terminal, history>>

(* Fifteen minutes pass without a confirmation.                            *)
Lapse(c) ==
  /\ StatusOf(c) = "pending"
  /\ status' = SetStatus(c, "lapsed")
  /\ UNCHANGED <<request, admin, terminal, history>>

Terminal ==
  \/ ReadCandidate \/ ReadActive \/ Provision \/ WriteStore \/ VerifyStaged \/ WritesDone
  \/ ProvisionAnswered \/ ConfirmAnswered \/ GiveUp \/ Restart \/ Relink

Server ==
  \/ \E q \in Requests :
       \/ ReadProvision(q) \/ SaveProvision(q)
       \/ ReadConfirm(q) \/ SaveConfirm(q)
       \/ AnswerLost(q)
  \/ \E c \in Credentials : Lapse(c)
  \/ \E c \in Managed, kind \in {"revoked", "retired"} : AdminRead(c, kind)
  \/ AdminSave

Next == Terminal \/ Server

Spec == Init /\ [][Next]_vars

-----------------------------------------------------------------------------
(* What is stored, sent and confirmed is a credential the server can have  *)
(* issued: a version is never 0, an identity never one not yet taken.      *)
TypeOK ==
  /\ status \in [Attempts -> [Versions -> Statuses]]
  /\ request \in [Requests -> [kind : {"none", "provision", "confirm"},
                               cred : [attempt : 0..MaxAttempt, version : 0..MaxVersion],
                               point : {"none", "sent", "read", "answered"},
                               answer : {"none", "secret", "noSecret", "recovery", "error",
                                         "active", "refused"}]]
  /\ admin \in {NoAdmin} \cup [kind : {"revoked", "retired"}, cred : Credentials]
  /\ identity \in Attempts
  /\ stores \in [{"preferred", "fallback"} -> [Areas -> Credentials \cup {None}]]
  /\ circuit \in {"available", "degraded"}
  /\ boot.point \in {"idle", "missing", "absent", "provision", "confirm", "writing"}
  /\ confirmed \subseteq Credentials /\ refused \subseteq Credentials
  /\ mixed \in BOOLEAN

Held(c) == \E s \in DOMAIN stores, area \in Areas : stores[s][area] = c

(* What the terminal works with was confirmed by the server: neither the   *)
(* copying between the stores nor a crash between two of their writes      *)
(* promotes a candidate of its own.                                        *)
ActiveWasConfirmed ==
  \A s \in DOMAIN stores :
    stores[s].active # None => stores[s].active \in confirmed

(* A credential that is ACTIVE on the server for this device can be used:  *)
(* the terminal holds its secret, as active or as candidate, whatever was  *)
(* lost, delayed or interrupted.  As long as no store still held a record  *)
(* of another identity when it was asked for: versions are compared across *)
(* identities, and the older identity may win.                             *)
ActiveIsHeld ==
  ~mixed => \A c \in Credentials :
              c.attempt = identity /\ StatusOf(c) = "active" => Held(c)

(* At most one version is ACTIVE for this device, although a confirmation  *)
(* that was read long ago is saved whatever has been issued meanwhile: what*)
(* may still be confirmed is held, so that nothing newer is asked for.     *)
(* Under the same condition.                                               *)
OneActive ==
  ~mixed => \A c, d \in Credentials :
              /\ c.attempt = identity /\ d.attempt = identity
              /\ StatusOf(c) = "active" /\ StatusOf(d) = "active"
              => c = d

(* A candidate the server has refused for good does not stay staged.       *)
RefusedIsDropped == boot = Resting => stores.fallback.candidate \notin refused
=============================================================================
