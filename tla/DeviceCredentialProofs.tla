------------------------ MODULE DeviceCredentialProofs ------------------------
(***************************************************************************)
(* A terminal works only with a credential the server has confirmed, and   *)
(* holds the secret of the one that is ACTIVE for it, for any number of    *)
(* identities, versions and requests, whatever is lost, delayed or         *)
(* interrupted, and however the keystore fails.                            *)
(***************************************************************************)
EXTENDS DeviceCredential, TLAPS, WellFoundedInduction, SequenceTheorems

-----------------------------------------------------------------------------
(* The inductive invariant.  A write to an active area carries a confirmed *)
(* credential, from the moment the answer it follows from is read: writes  *)
(* of a bootstrap outlive the answer, and other requests confirm meanwhile.*)
AnyCredential == [attempt : 0..MaxAttempt, version : 0..MaxVersion]

Writes == [store : {"preferred", "fallback"}, area : Areas, cred : Credentials \cup {None}]

Requested == [kind : {"none", "provision", "confirm"},
              cred : AnyCredential,
              point : {"none", "sent", "read", "answered"},
              answer : {"none", "secret", "noSecret", "recovery", "error",
                        "active", "refused"}]

Stored == [{"preferred", "fallback"} -> [Areas -> Credentials \cup {None}]]

SafeWrites == {w \in Writes : w.area = "active" => w.cred \in confirmed \cup {None}}

RowsInv ==
  /\ status \in [Attempts -> [Versions -> Statuses]]
  /\ admin \in {NoAdmin} \cup [kind : {"revoked", "retired"}, cred : Credentials]
  /\ confirmed \subseteq Credentials
  /\ \A c \in Credentials : StatusOf(c) = "active" => c \in confirmed

Honest(r) ==
  /\ r.kind = "confirm" => r.cred \in Credentials
  /\ r.kind = "provision" => r.cred.attempt \in Attempts
  /\ r.answer = "secret" => r.cred \in Credentials
  /\ r.answer = "active" => r.cred \in confirmed
  /\ r.point \in {"sent", "read"} => r.answer = "none"

RequestsInv ==
  /\ request \in [Requests -> Requested]
  /\ \A q \in Requests : Honest(request[q])

StoresInv ==
  /\ stores \in Stored
  /\ circuit \in {"available", "degraded"}
  /\ ActiveWasConfirmed

Boots == [point : {"idle", "missing", "absent", "provision", "confirm", "writing"},
          cred : AnyCredential,
          request : Requests \cup {"none"},
          todo : Seq(SafeWrites),
          next : {"idle", "absent", "verify"}]

Awaited ==
  boot.point = "confirm" =>
    /\ boot.cred \in Credentials
    /\ boot.request \in Requests
    /\ request[boot.request].kind = "confirm"
    /\ request[boot.request].cred = boot.cred

Staging ==
  /\ boot.point = "provision" => boot.request \in Requests
  /\ boot.next = "verify" => boot.cred \in Credentials

BootInv ==
  /\ boot \in Boots
  /\ Awaited
  /\ Staging

RestInv ==
  /\ identity \in Attempts
  /\ refused \subseteq Credentials
  /\ mixed \in BOOLEAN

CredentialInv == RowsInv /\ RequestsInv /\ StoresInv /\ BootInv /\ RestInv

-----------------------------------------------------------------------------
(* The data.                                                               *)
LEMMA CredentialFacts ==
  /\ None \in AnyCredential /\ None \notin Credentials
  /\ Credentials \subseteq AnyCredential
  /\ \A c \in Credentials : c.attempt \in Attempts /\ c.version \in Versions
  /\ Resting \in Boots
  /\ NoRequest \in Requested
BY CredentialAssumption
   DEF None, AnyCredential, Credentials, Attempts, Versions, Resting, Boots, NoRequest, Requested

(* The latest version of an attempt that has any.                          *)
LEMMA LatestVersion ==
  ASSUME NEW a \in Attempts
  PROVE  /\ Latest(a) \in 0..MaxVersion
         /\ Latest(a) = 0 \/ Latest(a) \in Issued(a)
<1>1. Issued(a) \subseteq Versions /\ MaxVersion \in Nat
  BY CredentialAssumption DEF Issued
<1>2. CASE Issued(a) = {}
  BY <1>1, <1>2 DEF Latest
<1>3. CASE Issued(a) # {}
  <2> DEFINE D == {k \in Nat : k <= MaxVersion /\ MaxVersion - k \in Issued(a)}
  <2>1. PICK v \in Issued(a) : v \in Nat /\ v <= MaxVersion
    BY <1>1, <1>3 DEF Versions
  <2>2. MaxVersion - (MaxVersion - v) = v /\ MaxVersion - v \in Nat
    BY <1>1, <2>1
  <2>3. MaxVersion - v \in D
    BY <1>1, <2>1, <2>2
  <2> HIDE DEF D
  <2>4. D \subseteq Nat /\ D # {}
    BY <2>3 DEF D
  <2>5. PICK k \in D : \A j \in D : ~ (<<j, k>> \in OpToRel(<, Nat))
    BY <2>4, NatLessThanWellFounded, WFMin
  <2>6. \A j \in D : ~ (j < k)
    BY <2>4, <2>5 DEF OpToRel
  <2>7. MaxVersion - k \in Issued(a) /\ k \in Nat /\ k <= MaxVersion
    BY <2>5 DEF D
  <2>8. ASSUME NEW w \in Issued(a) PROVE w <= MaxVersion - k
    <3>1. w \in Nat /\ w <= MaxVersion
      BY <1>1 DEF Versions
    <3>2. MaxVersion - (MaxVersion - w) = w /\ MaxVersion - w \in Nat
      BY <1>1, <3>1
    <3>3. MaxVersion - w \in D
      BY <1>1, <3>1, <3>2 DEF D
    <3>4. ~ (MaxVersion - w < k)
      BY <2>6, <3>3
    <3> QED BY <1>1, <2>7, <3>1, <3>4
  <2>9. Latest(a) \in Issued(a)
    BY <1>3, <2>7, <2>8 DEF Latest
  <2> QED BY <1>1, <2>9 DEF Versions
<1> QED BY <1>2, <1>3

(* What a read of the stores may do to them.                               *)
LEMMA ReadsAreSafe ==
  ASSUME StoresInv, NEW area \in Areas, NEW r \in Reads(area)
  PROVE  /\ r.cred \in Credentials \cup {None}
         /\ r.stores \in Stored
         /\ r.circuit \in {"available", "degraded"}
         /\ \A s \in {"preferred", "fallback"} :
              r.stores[s]["active"] # None => r.stores[s]["active"] \in confirmed
<1> DEFINE p == stores["preferred"][area]
           f == stores["fallback"][area]
           best == HigherVersion(p, f)
<1>0. /\ DOMAIN stores = {"preferred", "fallback"}
      /\ \A s \in {"preferred", "fallback"} :
           /\ stores[s] \in [Areas -> Credentials \cup {None}]
           /\ stores[s]["active"] # None => stores[s]["active"] \in confirmed
  BY DEF StoresInv, Stored, ActiveWasConfirmed
<1>1. best \in {p, f} /\ p \in Credentials \cup {None} /\ f \in Credentials \cup {None}
  BY <1>0 DEF HigherVersion
<1>2. \/ r = [cred |-> f, stores |-> stores, circuit |-> "degraded"]
      \/ r = [cred |-> best, stores |-> Copied(area, best), circuit |-> "available"]
  BY DEF Reads
<1>3. CASE r = [cred |-> f, stores |-> stores, circuit |-> "degraded"]
  BY <1>0, <1>1, <1>3 DEF StoresInv
<1>4. CASE r = [cred |-> best, stores |-> Copied(area, best), circuit |-> "available"]
  <2>1. best \in Credentials \cup {None}
    BY <1>1
  <2>2. area = "active" /\ best # None => best \in confirmed
    BY <1>0, <1>1
  <2> HIDE DEF best
  <2>3. r.stores = [s \in {"preferred", "fallback"} |-> [stores[s] EXCEPT ![area] = best]]
    BY <1>0, <1>4 DEF Copied
  <2>4. r.stores \in Stored
    BY <1>0, <2>1, <2>3 DEF Stored
  <2>5. ASSUME NEW s \in {"preferred", "fallback"}, r.stores[s]["active"] # None
        PROVE  r.stores[s]["active"] \in confirmed
    <3>1. "active" \in Areas
      BY DEF Areas
    <3>2. r.stores[s]["active"] = IF area = "active" THEN best ELSE stores[s]["active"]
      BY <1>0, <2>3, <3>1
    <3> QED BY <1>0, <2>2, <2>5, <3>2
  <2> QED BY <1>4, <2>1, <2>4, <2>5
<1> QED BY <1>2, <1>3, <1>4

-----------------------------------------------------------------------------
(* The terminal.                                                           *)

(* The write sequences of a bootstrap.                                     *)
LEMMA WriteSequences ==
  ASSUME NEW c \in Credentials
  PROVE  /\ Stage(c) \in Seq(SafeWrites)
         /\ c \in confirmed => Commit(c) \in Seq(SafeWrites)
         /\ Clear \in Seq(SafeWrites)
         /\ <<Write("preferred", "candidate", None), Write("fallback", "candidate", None)>>
              \in Seq(SafeWrites)
<1>1. \A s \in {"preferred", "fallback"} :
        /\ Write(s, "candidate", c) \in SafeWrites
        /\ Write(s, "candidate", None) \in SafeWrites
        /\ Write(s, "active", None) \in SafeWrites
        /\ c \in confirmed => Write(s, "active", c) \in SafeWrites
  BY DEF Write, SafeWrites, Writes, Areas
<1>2. Stage(c) \in Seq(SafeWrites)
  BY <1>1 DEF Stage
<1>3. ASSUME c \in confirmed PROVE Commit(c) \in Seq(SafeWrites)
  BY <1>1, <1>3 DEF Commit
<1>4. Clear \in Seq(SafeWrites)
  BY <1>1 DEF Clear
<1> QED BY <1>1, <1>2, <1>3, <1>4

LEMMA NoWrites ==
  /\ Clear \in Seq(SafeWrites)
  /\ <<Write("preferred", "candidate", None), Write("fallback", "candidate", None)>>
       \in Seq(SafeWrites)
<1>1. [attempt |-> 1, version |-> 1] \in Credentials
  BY CredentialAssumption DEF Credentials, Attempts, Versions
<1> QED BY <1>1, WriteSequences

(* A request is sent, and the bootstrap waits for its answer.              *)
LEMMA SendStep ==
  ASSUME RequestsInv, NEW q \in Requests, NEW kind \in {"provision", "confirm"},
         NEW c \in AnyCredential,
         kind = "confirm" => c \in Credentials, kind = "provision" => c.attempt \in Attempts,
         Send(q, kind, c), UNCHANGED confirmed
  PROVE  RequestsInv' /\ BootInv'
<1> DEFINE new == [kind |-> kind, cred |-> c, point |-> "sent", answer |-> "none"]
<1>1. /\ request' = [request EXCEPT ![q] = new]
      /\ boot' = [Resting EXCEPT !.point = kind, !.cred = c, !.request = q]
  BY DEF Send
<1>2. new \in Requested /\ Honest(new)'
  BY DEF Requested, Honest
<1>3. new.kind = kind /\ new.cred = c
  OBVIOUS
<1> HIDE DEF new
<1>4. request'[q] = new /\ \A p \in Requests : p # q => request'[p] = request[p]
  BY <1>1 DEF RequestsInv
<1>5. request' \in [Requests -> Requested]
  BY <1>1, <1>2 DEF RequestsInv
<1>6. ASSUME NEW p \in Requests PROVE Honest(request[p])'
  BY <1>2, <1>4 DEF RequestsInv, Honest
<1>7. boot' \in Boots /\ boot'.request = q /\ boot'.cred = c /\ boot'.point = kind
  BY <1>1, CredentialFacts DEF Boots, Resting
<1>10. boot' \in Boots'
  BY <1>7 DEF Boots, SafeWrites
<1>8. Awaited'
  BY <1>3, <1>4, <1>7 DEF Awaited
<1>9. Staging'
  BY <1>1, <1>7, CredentialFacts DEF Staging, Resting, Boots
<1> QED BY <1>5, <1>6, <1>8, <1>9, <1>10 DEF RequestsInv, BootInv

(* A bootstrap that waits for no confirmation.                             *)
Settled(b) ==
  /\ b \in Boots
  /\ b.point \notin {"provision", "confirm"}
  /\ b.next = "verify" => b.cred \in Credentials

LEMMA BootStep ==
  ASSUME UNCHANGED confirmed, Settled(boot')
  PROVE  BootInv'
BY DEF BootInv, Boots, Settled, Awaited, Staging, SafeWrites

LEMMA SameRows ==
  ASSUME RowsInv, UNCHANGED <<status, admin, confirmed>>
  PROVE  RowsInv'
BY DEF RowsInv, StatusOf

LEMMA SameRequests ==
  ASSUME RequestsInv, UNCHANGED <<request, confirmed>>
  PROVE  RequestsInv'
BY DEF RequestsInv, Honest

LEMMA SameStores ==
  ASSUME StoresInv, UNCHANGED <<stores, circuit, confirmed>>
  PROVE  StoresInv'
BY DEF StoresInv, ActiveWasConfirmed

(* The stores after a read.                                                *)
LEMMA ReadStores ==
  ASSUME StoresInv, NEW area \in Areas, NEW r \in Reads(area),
         stores' = r.stores, circuit' = r.circuit, UNCHANGED confirmed
  PROVE  StoresInv'
<1>1. /\ r.stores \in Stored
      /\ r.circuit \in {"available", "degraded"}
      /\ \A s \in {"preferred", "fallback"} :
              r.stores[s]["active"] # None => r.stores[s]["active"] \in confirmed
  BY ReadsAreSafe
<1>2. DOMAIN stores' = {"preferred", "fallback"}
  BY <1>1 DEF Stored
<1> QED BY <1>1, <1>2 DEF StoresInv, ActiveWasConfirmed

(* A request whose answer was read is over.                                *)
LEMMA RequestOver ==
  ASSUME RequestsInv, NEW q, request' = [request EXCEPT ![q] = NoRequest], UNCHANGED confirmed
  PROVE  RequestsInv'
<1>1. request' \in [Requests -> Requested]
  BY CredentialFacts DEF RequestsInv
<1>2. ASSUME NEW p \in Requests PROVE Honest(request[p])'
  <2>1. request'[p] = request[p] \/ request'[p] = NoRequest
    BY DEF RequestsInv
  <2> QED BY <2>1 DEF RequestsInv, Honest, NoRequest
<1> QED BY <1>1, <1>2 DEF RequestsInv

LEMMA TerminalStep ==
  ASSUME CredentialInv, Terminal
  PROVE  CredentialInv'
<1> USE DEF CredentialInv
<1>r. ASSUME UNCHANGED <<status, admin, confirmed, identity, refused>>, mixed' \in BOOLEAN
      PROVE  RowsInv' /\ RestInv'
  BY <1>r, SameRows DEF RestInv
<1>i. Areas = {"active", "candidate"} /\ mixed \in BOOLEAN /\ identity \in Attempts
  BY DEF Areas, RestInv
<1>1. CASE ReadCandidate
  <2>1. PICK r \in Reads("candidate") :
          /\ stores' = r.stores
          /\ circuit' = r.circuit
          /\ IF r.cred = None
             THEN boot' = [boot EXCEPT !.point = "missing"] /\ UNCHANGED request
             ELSE \E q \in Requests : Send(q, "confirm", r.cred)
    BY <1>1 DEF ReadCandidate
  <2>2. UNCHANGED <<status, admin, identity, confirmed, refused, mixed>>
    BY <1>1 DEF ReadCandidate, history
  <2>3. StoresInv' /\ r.cred \in Credentials \cup {None}
    BY <1>i, <2>1, <2>2, ReadStores, ReadsAreSafe
  <2>4. CASE r.cred = None
    <3>1. Settled(boot') /\ UNCHANGED request
      BY <2>1, <2>4 DEF BootInv, Boots, Settled, Staging
    <3> QED BY <1>i, <1>r, <2>2, <2>3, <3>1, BootStep, SameRequests
  <2>5. CASE r.cred # None
    <3>1. RequestsInv' /\ BootInv'
      BY <2>1, <2>2, <2>3, <2>5, SendStep, CredentialFacts
    <3> QED BY <1>i, <1>r, <2>2, <2>3, <3>1
  <2> QED BY <2>4, <2>5
<1>2. CASE ReadActive
  <2>1. PICK r \in Reads("active") :
          /\ stores' = r.stores
          /\ circuit' = r.circuit
          /\ boot' = IF r.cred = None THEN [boot EXCEPT !.point = "absent"]
                     ELSE IF r.cred.attempt = identity THEN Resting
                     ELSE [boot EXCEPT !.point = "writing", !.todo = Clear, !.next = "absent"]
    BY <1>2 DEF ReadActive
  <2>2. UNCHANGED <<status, request, admin, identity, confirmed, refused, mixed>>
    BY <1>2 DEF ReadActive, server, history
  <2>3. StoresInv'
    BY <1>i, <2>1, <2>2, ReadStores
  <2>4. Settled(boot')
    BY <1>2, <2>1, NoWrites, CredentialFacts
       DEF ReadActive, BootInv, Boots, Resting, Settled, Staging
  <2> QED BY <1>i, <1>r, <2>2, <2>3, <2>4, BootStep, SameRequests
<1>3. CASE Provision
  <2> DEFINE c == [attempt |-> identity, version |-> 0]
  <2>1. PICK q \in Requests : Send(q, "provision", c)
    BY <1>3 DEF Provision
  <2>2. UNCHANGED <<status, admin, identity, stores, circuit, confirmed, refused>>
        /\ mixed' \in BOOLEAN
    BY <1>3, <1>i DEF Provision
  <2>3. c \in AnyCredential /\ c.attempt \in Attempts
    BY <1>i, CredentialAssumption DEF AnyCredential, Attempts
  <2> HIDE DEF c
  <2> QED BY <1>r, <2>1, <2>2, <2>3, SendStep, SameStores
<1>4. CASE WriteStore
  <2> DEFINE w == Head(boot.todo)
  <2>1. /\ boot.todo # << >> /\ boot.todo \in Seq(SafeWrites)
        /\ stores' \in {stores, Done(w)}
        /\ circuit' \in {circuit, "degraded"}
        /\ boot.point = "writing"
        /\ boot' = [boot EXCEPT !.todo = Tail(@)]
        /\ UNCHANGED <<status, request, admin, identity, confirmed, refused, mixed>>
    BY <1>4 DEF WriteStore, BootInv, Boots, server, history
  <2>2. w \in SafeWrites /\ Tail(boot.todo) \in Seq(SafeWrites)
    BY <2>1
  <2>3. Settled(boot')
    BY <2>1, <2>2 DEF BootInv, Boots, Settled, Staging
  <2> HIDE DEF w
  <2>4. /\ DOMAIN stores = {"preferred", "fallback"}
        /\ stores \in Stored
        /\ w.store \in {"preferred", "fallback"} /\ w.area \in Areas
        /\ w.cred \in Credentials \cup {None}
        /\ w.area = "active" => w.cred \in confirmed \cup {None}
    BY <2>2 DEF StoresInv, Stored, SafeWrites, Writes
  <2>5. Done(w) \in Stored
    BY <2>4 DEF Done, Stored
  <2>6. ASSUME NEW s \in {"preferred", "fallback"}
        PROVE  Done(w)[s]["active"] = stores[s]["active"]
                 \/ (w.area = "active" /\ Done(w)[s]["active"] = w.cred)
    BY <1>i, <2>4 DEF Done, Stored
  <2>7. StoresInv'
    <3>1. stores' \in Stored /\ circuit' \in {"available", "degraded"}
      BY <2>1, <2>5 DEF StoresInv
    <3>2. \A s \in {"preferred", "fallback"} :
            stores'[s]["active"] # None => stores'[s]["active"] \in confirmed
      BY <2>1, <2>4, <2>6 DEF StoresInv, ActiveWasConfirmed
    <3>3. DOMAIN stores' = {"preferred", "fallback"}
      BY <3>1 DEF Stored
    <3> QED BY <2>1, <3>1, <3>2, <3>3 DEF StoresInv, ActiveWasConfirmed
  <2> QED BY <1>i, <1>r, <2>1, <2>3, <2>7, BootStep, SameRequests
<1>5. CASE VerifyStaged
  <2>1. PICK r \in Reads("candidate") :
          /\ stores' = r.stores
          /\ circuit' = r.circuit
          /\ IF r.cred = boot.cred
             THEN \E q \in Requests : Send(q, "confirm", r.cred)
             ELSE /\ boot' = [Resting EXCEPT
                             !.point = "writing",
                             !.todo = <<Write("preferred", "candidate", None),
                                        Write("fallback", "candidate", None)>>]
                  /\ UNCHANGED request
    BY <1>5 DEF VerifyStaged
  <2>2. UNCHANGED <<status, admin, identity, confirmed, refused, mixed>>
    BY <1>5 DEF VerifyStaged, history
  <2>3. StoresInv' /\ r.cred \in Credentials \cup {None}
    BY <1>i, <2>1, <2>2, ReadStores, ReadsAreSafe
  <2>4. CASE r.cred # boot.cred
    <3>1. Settled(boot') /\ UNCHANGED request
      BY <2>1, <2>4, NoWrites, CredentialFacts DEF Boots, Resting, Settled
    <3> QED BY <1>i, <1>r, <2>2, <2>3, <3>1, BootStep, SameRequests
  <2>5. CASE r.cred = boot.cred
    <3>0. r.cred # None
      BY <1>5, <2>5, CredentialFacts DEF VerifyStaged, BootInv, Staging
    <3>1. RequestsInv' /\ BootInv'
      BY <2>1, <2>2, <2>3, <2>5, <3>0, SendStep, CredentialFacts
    <3> QED BY <1>i, <1>r, <2>2, <2>3, <3>1
  <2> QED BY <2>4, <2>5
<1>6. CASE WritesDone
  <2>1. /\ boot' = [Resting EXCEPT !.point = boot.next] /\ boot.next \in {"idle", "absent"}
        /\ UNCHANGED <<status, request, admin, identity, stores, circuit, confirmed, refused,
                       mixed>>
    BY <1>6 DEF WritesDone, BootInv, Boots, server, history
  <2>2. Settled(boot')
    BY <2>1, CredentialFacts DEF Boots, Resting, Settled
  <2> QED BY <1>i, <1>r, <2>1, <2>2, BootStep, SameRequests, SameStores
<1>7. CASE ProvisionAnswered
  <2> DEFINE q == boot.request
  <2>1. /\ request' = [request EXCEPT ![q] = NoRequest]
        /\ UNCHANGED <<status, admin, identity, stores, circuit, confirmed, refused, mixed>>
    BY <1>7 DEF ProvisionAnswered, history
  <2>2. Settled(boot')
    <3>1. CASE boot' = Resting
      BY <3>1, CredentialFacts DEF Resting, Settled
    <3>2. CASE boot' # Resting
      <4>1. /\ request[q].answer = "secret"
            /\ boot' = [Resting EXCEPT !.point = "writing", !.cred = request[q].cred,
                                       !.todo = Stage(request[q].cred), !.next = "verify"]
        BY <1>7, <3>2 DEF ProvisionAnswered
      <4>2. request[q].cred \in Credentials
        BY <1>7, <4>1 DEF ProvisionAnswered, BootInv, Staging, RequestsInv, Honest
      <4>3. Stage(request[q].cred) \in Seq(SafeWrites)
        BY <4>2, WriteSequences
      <4> QED BY <4>1, <4>2, <4>3, CredentialFacts DEF Boots, Resting, Settled
    <3> QED BY <3>1, <3>2
  <2> QED BY <1>i, <1>r, <2>1, <2>2, BootStep, RequestOver, SameStores
<1>8. CASE ConfirmAnswered
  <2> DEFINE q == boot.request
  <2>1. /\ request' = [request EXCEPT ![q] = NoRequest]
        /\ UNCHANGED <<status, admin, identity, stores, circuit, confirmed, mixed>>
        /\ refused' \in {refused, refused \cup {boot.cred}}
        /\ boot.point = "confirm"
    BY <1>8 DEF ConfirmAnswered
  <2>2. boot.cred \in Credentials /\ q \in Requests /\ request[q].cred = boot.cred
    BY <2>1 DEF BootInv, Awaited
  <2>3. Settled(boot')
    <3>1. CASE boot' = Resting
      BY <3>1, CredentialFacts DEF Resting, Settled
    <3>2. CASE boot' # Resting
      <4>1. /\ request[q].answer = "active"
            /\ boot' = [Resting EXCEPT !.point = "writing",
                                       !.todo = Stage(boot.cred) \o Commit(boot.cred)]
        BY <1>8, <3>2 DEF ConfirmAnswered
      <4>2. boot.cred \in confirmed
        BY <2>2, <4>1 DEF RequestsInv, Honest
      <4>3. Stage(boot.cred) \in Seq(SafeWrites) /\ Commit(boot.cred) \in Seq(SafeWrites)
        BY <2>2, <4>2, WriteSequences
      <4>4. Stage(boot.cred) \o Commit(boot.cred) \in Seq(SafeWrites)
        BY <4>3
      <4> QED BY <4>1, <4>4, CredentialFacts DEF Boots, Resting, Settled
    <3> QED BY <3>1, <3>2
  <2>4. RowsInv' /\ RestInv'
    BY <2>1, <2>2, SameRows DEF RestInv
  <2> QED BY <2>1, <2>3, <2>4, BootStep, RequestOver, SameStores
<1>9. CASE GiveUp
  <2>1. boot' = Resting /\ UNCHANGED <<status, request, admin, identity, stores, circuit,
                                       confirmed, refused, mixed>>
    BY <1>9 DEF GiveUp, server, history
  <2>2. Settled(boot')
    BY <2>1, CredentialFacts DEF Resting, Settled
  <2> QED BY <1>i, <1>r, <2>1, <2>2, BootStep, SameRequests, SameStores
<1>10. CASE Restart
  <2>1. boot' = Resting /\ circuit' = "available"
        /\ UNCHANGED <<status, request, admin, identity, stores, confirmed, refused, mixed>>
    BY <1>10 DEF Restart, server, history
  <2>2. Settled(boot')
    BY <2>1, CredentialFacts DEF Resting, Settled
  <2>3. StoresInv'
    BY <2>1 DEF StoresInv, ActiveWasConfirmed
  <2> QED BY <1>i, <1>r, <2>1, <2>2, <2>3, BootStep, SameRequests
<1>11. CASE Relink
  <2>1. boot' = Resting /\ identity' = identity + 1 /\ identity < MaxAttempt
        /\ UNCHANGED <<status, request, admin, stores, circuit, confirmed, refused, mixed>>
    BY <1>11 DEF Relink, server, history
  <2>2. Settled(boot')
    BY <2>1, CredentialFacts DEF Resting, Settled
  <2>3. RestInv'
    BY <1>i, <2>1, CredentialAssumption DEF RestInv, Attempts
  <2> QED BY <2>1, <2>2, <2>3, BootStep, SameRows, SameRequests, SameStores
<1> QED BY <1>1, <1>2, <1>3, <1>4, <1>5, <1>6, <1>7, <1>8, <1>9, <1>10, <1>11 DEF Terminal

-----------------------------------------------------------------------------
(* The server.                                                             *)

(* What the terminal has of its own stays right when more is confirmed and *)
(* the request it waits for stays the same.                                *)
LEMMA TerminalKept ==
  ASSUME CredentialInv, UNCHANGED <<terminal, refused, mixed>>, confirmed \subseteq confirmed',
         boot.point = "confirm" =>
           /\ request'[boot.request].kind = request[boot.request].kind
           /\ request'[boot.request].cred = request[boot.request].cred
  PROVE  StoresInv' /\ BootInv' /\ RestInv'
<1> USE DEF CredentialInv, terminal
<1>1. StoresInv'
  BY DEF StoresInv, ActiveWasConfirmed
<1>2. SafeWrites \subseteq SafeWrites'
  BY DEF SafeWrites
<1>3. boot \in Boots /\ boot.todo \in Seq(SafeWrites)
  BY DEF BootInv, Boots
<1>4. boot.todo \in Seq(SafeWrites')
  BY <1>2, <1>3
<1>5. boot \in Boots'
  BY <1>3, <1>4 DEF Boots
<1>6. Awaited' /\ Staging'
  BY DEF BootInv, Awaited, Staging
<1>7. RestInv'
  BY DEF RestInv
<1> QED BY <1>1, <1>5, <1>6, <1>7 DEF BootInv

LEMMA RequestStep ==
  ASSUME RequestsInv, NEW q \in Requests, request' \in [Requests -> Requested],
         \A p \in Requests : p # q => request'[p] = request[p],
         Honest(request[q])', confirmed \subseteq confirmed'
  PROVE  RequestsInv'
<1>1. ASSUME NEW p \in Requests PROVE Honest(request[p])'
  BY DEF RequestsInv, Honest
<1> QED BY <1>1 DEF RequestsInv

(* The server works on a request, which keeps its kind.                    *)
Worked(q, point, answer, c) ==
  /\ request' \in [Requests -> Requested]
  /\ \A p \in Requests : p # q => request'[p] = request[p]
  /\ request'[q].kind = request[q].kind
  /\ request'[q].point = point
  /\ request'[q].answer = answer
  /\ request'[q].cred = c

LEMMA AnswerWorks ==
  ASSUME RequestsInv, NEW q \in Requests, NEW c \in AnyCredential,
         NEW a \in {"none", "secret", "noSecret", "recovery", "error", "active", "refused"},
         Answer(q, a, c)
  PROVE  Worked(q, "answered", a, c)
BY DEF Answer, Worked, RequestsInv, Requested

LEMMA ReadWorks ==
  ASSUME RequestsInv, NEW q \in Requests, NEW c \in AnyCredential, request[q].point = "sent",
         \/ request' = [request EXCEPT ![q].point = "read", ![q].cred = c]
         \/ c = request[q].cred /\ request' = [request EXCEPT ![q].point = "read"]
  PROVE  Worked(q, "read", "none", c)
BY DEF Worked, RequestsInv, Requested, Honest

(* What the server read and answered is honest if it was.                  *)
LEMMA WorkedKeeps ==
  ASSUME RequestsInv, NEW q \in Requests, NEW point, NEW a, NEW c, Worked(q, point, a, c),
         confirmed \subseteq confirmed',
         request[q].kind = "confirm" => c \in Credentials,
         request[q].kind = "provision" => c.attempt \in Attempts,
         a = "secret" => c \in Credentials,
         a = "active" => c \in confirmed',
         point = "read" => a = "none", point # "sent"
  PROVE  RequestsInv'
<1>1. Honest(request[q])'
  BY DEF Worked, Honest
<1> QED BY <1>1, RequestStep DEF Worked

(* A row is given another status.                                          *)
LEMMA StatusStep ==
  ASSUME RowsInv, NEW c \in Credentials, NEW s \in Statuses, status' = SetStatus(c, s),
         UNCHANGED admin, confirmed' \in {confirmed, confirmed \cup {c}},
         s = "active" => c \in confirmed'
  PROVE  RowsInv'
<1>1. c.attempt \in Attempts /\ c.version \in Versions
  BY CredentialFacts
<1>2. status' \in [Attempts -> [Versions -> Statuses]]
  BY <1>1 DEF RowsInv, SetStatus
<1>3. ASSUME NEW d \in Credentials, StatusOf(d)' = "active" PROVE d \in confirmed'
  <2>1. d.attempt \in Attempts /\ d.version \in Versions
    BY CredentialFacts
  <2>2. CASE d.attempt = c.attempt /\ d.version = c.version
    <3>1. d = c
      BY <2>2 DEF Credentials
    <3>2. StatusOf(d)' = s
      BY <1>1, <3>1 DEF RowsInv, SetStatus, StatusOf
    <3> QED BY <1>3, <3>1, <3>2
  <2>3. CASE ~ (d.attempt = c.attempt /\ d.version = c.version)
    <3>1. StatusOf(d)' = StatusOf(d)
      BY <1>1, <2>1, <2>3 DEF RowsInv, SetStatus, StatusOf
    <3> QED BY <1>3, <3>1 DEF RowsInv
  <2> QED BY <2>2, <2>3
<1>4. confirmed' \subseteq Credentials
  BY DEF RowsInv
<1> QED BY <1>2, <1>3, <1>4 DEF RowsInv

LEMMA ServerStep ==
  ASSUME CredentialInv, Server
  PROVE  CredentialInv'
<1> USE DEF CredentialInv
<1>0. \A q \in Requests : request[q] \in Requested /\ Honest(request[q])
  BY DEF RequestsInv
<1>f. Credentials \subseteq AnyCredential
  BY CredentialFacts
<1>u. ASSUME UNCHANGED <<status, admin, terminal, history>>, RequestsInv',
             boot.point = "confirm" =>
               /\ request'[boot.request].kind = request[boot.request].kind
               /\ request'[boot.request].cred = request[boot.request].cred
      PROVE  CredentialInv'
  <2>1. UNCHANGED <<confirmed, refused, mixed>>
    BY <1>u DEF history
  <2>2. StoresInv' /\ BootInv' /\ RestInv'
    BY <1>u, <2>1, TerminalKept
  <2> QED BY <1>u, <2>1, <2>2, SameRows
<1>p. ASSUME NEW q \in Requests, request[q].kind = "provision", NEW point, NEW a, NEW c,
             Worked(q, point, a, c)
      PROVE  boot.point = "confirm" =>
               /\ request'[boot.request].kind = request[boot.request].kind
               /\ request'[boot.request].cred = request[boot.request].cred
  BY <1>p DEF Worked, BootInv, Awaited
<1>c. ASSUME NEW q \in Requests, NEW point, NEW a, Worked(q, point, a, request[q].cred)
      PROVE  boot.point = "confirm" =>
               /\ request'[boot.request].kind = request[boot.request].kind
               /\ request'[boot.request].cred = request[boot.request].cred
  BY <1>c DEF Worked, BootInv, Awaited
<1>1. ASSUME NEW q \in Requests, ReadProvision(q) PROVE CredentialInv'
  <2> DEFINE at == request[q].cred.attempt
             latest == [attempt |-> at, version |-> Latest(at)]
             seen == IF latest.version = 0 THEN "none" ELSE StatusOf(latest)
  <2>1. /\ request[q].kind = "provision" /\ at \in Attempts
        /\ request[q].point = "sent"
    BY <1>0, <1>1 DEF ReadProvision, Honest
  <2>2. latest \in AnyCredential /\ latest.attempt \in Attempts
    BY <2>1, LatestVersion, CredentialAssumption DEF AnyCredential, Attempts
  <2>3. /\ \/ \E a \in {"noSecret", "recovery"} : Answer(q, a, latest)
           \/ request' = [request EXCEPT ![q].point = "read", ![q].cred = latest]
        /\ UNCHANGED <<status, admin, terminal, history>>
    BY <1>1 DEF ReadProvision
  <2> HIDE DEF latest
  <2>4. \/ \E a \in {"noSecret", "recovery"} : Worked(q, "answered", a, latest)
        \/ Worked(q, "read", "none", latest)
    BY <2>1, <2>2, <2>3, AnswerWorks, ReadWorks
  <2>5. RequestsInv'
    BY <2>1, <2>2, <2>3, <2>4, WorkedKeeps DEF history
  <2> QED BY <1>u, <1>p, <2>1, <2>3, <2>4, <2>5
<1>2. ASSUME NEW q \in Requests, SaveProvision(q) PROVE CredentialInv'
  <2> DEFINE c == request[q].cred
             created == [c EXCEPT !.version = @ + 1]
  <2>1. /\ request[q].kind = "provision" /\ c \in AnyCredential /\ c.attempt \in Attempts
        /\ c.version < MaxVersion
        /\ UNCHANGED <<admin, terminal, history>>
    BY <1>0, <1>2 DEF SaveProvision, Honest, Requested
  <2>2. created \in Credentials /\ created.attempt = c.attempt
        /\ created.version \in Versions
    BY <2>1, CredentialAssumption DEF AnyCredential, Credentials, Versions
  <2>3. \/ Answer(q, "error", c) /\ UNCHANGED status
        \/ /\ status' = [status EXCEPT ![c.attempt] =
                          [v \in Versions |-> IF v = created.version THEN "pending"
                                              ELSE IF v = c.version THEN "retired" ELSE @[v]]]
           /\ Answer(q, "secret", created)
    BY <1>2 DEF SaveProvision
  <2> HIDE DEF created
  <2>4. Worked(q, "answered", "error", c) \/ Worked(q, "answered", "secret", created)
    BY <1>f, <2>1, <2>2, <2>3, AnswerWorks
  <2>5. UNCHANGED <<confirmed, refused, mixed>>
    BY <2>1 DEF history
  <2>6. RequestsInv'
    BY <2>1, <2>2, <2>4, <2>5, WorkedKeeps
  <2>7. RowsInv'
    <3>1. CASE UNCHANGED status
      BY <2>1, <2>5, <3>1, SameRows
    <3>2. CASE status' = [status EXCEPT ![c.attempt] =
                          [v \in Versions |-> IF v = created.version THEN "pending"
                                              ELSE IF v = c.version THEN "retired" ELSE @[v]]]
      <4>1. status' \in [Attempts -> [Versions -> Statuses]]
        BY <2>1, <3>2 DEF RowsInv, Statuses
      <4>2. ASSUME NEW d \in Credentials, StatusOf(d)' = "active" PROVE d \in confirmed
        <5>1. d.attempt \in Attempts /\ d.version \in Versions
          BY CredentialFacts
        <5>2. StatusOf(d)' = StatusOf(d) \/ StatusOf(d)' \in {"pending", "retired"}
          BY <2>1, <3>2, <5>1 DEF RowsInv, StatusOf
        <5> QED BY <4>2, <5>2 DEF RowsInv
      <4> QED BY <2>1, <2>5, <4>1, <4>2 DEF RowsInv
    <3> QED BY <2>3, <3>1, <3>2
  <2>8. StoresInv' /\ BootInv' /\ RestInv'
    BY <1>p, <2>1, <2>4, <2>5, TerminalKept
  <2> QED BY <2>6, <2>7, <2>8
<1>3. ASSUME NEW q \in Requests, ReadConfirm(q) PROVE CredentialInv'
  <2> DEFINE c == request[q].cred
  <2>1. /\ request[q].kind = "confirm" /\ request[q].point = "sent" /\ c \in Credentials
        /\ c \in AnyCredential
        /\ UNCHANGED <<status, admin, terminal, history>>
    BY <1>0, <1>f, <1>3 DEF ReadConfirm, Honest
  <2>2. \/ StatusOf(c) = "active" /\ Answer(q, "active", c)
        \/ request' = [request EXCEPT ![q].point = "read"]
        \/ Answer(q, "refused", c)
    BY <1>3 DEF ReadConfirm
  <2>3. \/ c \in confirmed /\ Worked(q, "answered", "active", c)
        \/ Worked(q, "answered", "refused", c)
        \/ Worked(q, "read", "none", c)
    BY <2>1, <2>2, AnswerWorks, ReadWorks DEF RowsInv
  <2>4. RequestsInv'
    BY <2>1, <2>3, WorkedKeeps DEF history
  <2> QED BY <1>u, <1>c, <2>1, <2>3, <2>4
<1>4. ASSUME NEW q \in Requests, SaveConfirm(q) PROVE CredentialInv'
  <2> DEFINE c == request[q].cred
  <2>1. /\ request[q].kind = "confirm" /\ c \in Credentials /\ c \in AnyCredential
        /\ status' = SetStatus(c, "active") /\ confirmed' = confirmed \cup {c}
        /\ Answer(q, "active", c)
        /\ UNCHANGED <<admin, terminal, refused, mixed>>
    BY <1>0, <1>f, <1>4 DEF SaveConfirm, Honest
  <2>2. Worked(q, "answered", "active", c)
    BY <2>1, AnswerWorks
  <2>3. RequestsInv'
    BY <2>1, <2>2, WorkedKeeps
  <2>4. RowsInv'
    BY <2>1, StatusStep DEF Statuses
  <2>5. StoresInv' /\ BootInv' /\ RestInv'
    BY <1>c, <2>1, <2>2, TerminalKept
  <2> QED BY <2>3, <2>4, <2>5
<1>5. ASSUME NEW q \in Requests, AnswerLost(q) PROVE CredentialInv'
  <2>1. /\ request' = [request EXCEPT ![q] = NoRequest] /\ boot.request # q
        /\ UNCHANGED <<status, admin, terminal, history>>
    BY <1>5 DEF AnswerLost
  <2>2. RequestsInv'
    BY <2>1, RequestOver DEF history
  <2>3. request'[boot.request] = request[boot.request]
    BY <2>1 DEF RequestsInv
  <2> QED BY <1>u, <2>1, <2>2, <2>3
<1>6. ASSUME NEW c \in Credentials, NEW s \in {"lapsed", "revoked", "retired"},
             status' = SetStatus(c, s), admin' \in {admin, NoAdmin},
             UNCHANGED <<request, terminal, history>>
      PROVE  CredentialInv'
  <2>1. UNCHANGED <<confirmed, refused, mixed>>
    BY <1>6 DEF history
  <2>2. RowsInv'
    <3>1. (status' = SetStatus(c, s) /\ admin' = admin) => RowsInv'
      BY <1>6, <2>1, StatusStep DEF Statuses
    <3>2. c.attempt \in Attempts /\ c.version \in Versions
      BY CredentialFacts
    <3>3. status' \in [Attempts -> [Versions -> Statuses]]
      BY <1>6, <3>2 DEF RowsInv, SetStatus, Statuses
    <3>4. ASSUME NEW d \in Credentials, StatusOf(d)' = "active" PROVE d \in confirmed
      <4>1. d.attempt \in Attempts /\ d.version \in Versions
        BY CredentialFacts
      <4>2. StatusOf(d)' \in {StatusOf(d), s}
        BY <1>6, <3>2, <4>1 DEF RowsInv, SetStatus, StatusOf
      <4> QED BY <3>4, <4>2 DEF RowsInv
    <3> QED BY <1>6, <2>1, <3>3, <3>4 DEF RowsInv
  <2>3. RequestsInv'
    BY <1>6, <2>1, SameRequests
  <2>4. StoresInv' /\ BootInv' /\ RestInv'
    BY <1>6, <2>1, TerminalKept
  <2> QED BY <2>2, <2>3, <2>4
<1>7. ASSUME NEW c \in Credentials, Lapse(c) PROVE CredentialInv'
  BY <1>6, <1>7 DEF Lapse
<1>8. CASE AdminSave
  <2>1. admin.cred \in Credentials /\ admin.kind \in {"revoked", "retired"}
    BY <1>8 DEF AdminSave, RowsInv
  <2> QED BY <1>6, <1>8, <2>1 DEF AdminSave
<1>9. ASSUME NEW c \in Managed, NEW kind \in {"revoked", "retired"}, AdminRead(c, kind)
      PROVE  CredentialInv'
  <2>1. /\ admin' = [kind |-> kind, cred |-> c]
        /\ UNCHANGED <<status, request, terminal, history>>
    BY <1>9 DEF AdminRead
  <2>2. UNCHANGED <<confirmed, refused, mixed>>
    BY <2>1 DEF history
  <2>3. c \in Credentials
    BY CredentialAssumption DEF Credentials, Attempts, Versions
  <2>4. RowsInv'
    BY <2>1, <2>2, <2>3 DEF RowsInv, StatusOf
  <2>5. RequestsInv'
    BY <2>1, <2>2, SameRequests
  <2>6. StoresInv' /\ BootInv' /\ RestInv'
    BY <2>1, <2>2, TerminalKept
  <2> QED BY <2>4, <2>5, <2>6
<1> QED BY <1>1, <1>2, <1>3, <1>4, <1>5, <1>7, <1>8, <1>9 DEF Server

LEMMA CredentialInit == Init => CredentialInv
<1> SUFFICES ASSUME Init PROVE CredentialInv
  OBVIOUS
<1>1. RowsInv
  BY DEF Init, RowsInv, Statuses, StatusOf, Credentials
<1>2. RequestsInv
  BY CredentialFacts DEF Init, RequestsInv, Honest, NoRequest
<1>3. StoresInv
  BY DEF Init, StoresInv, Stored, ActiveWasConfirmed, Areas
<1>4. BootInv
  BY CredentialFacts DEF Init, BootInv, Awaited, Staging, Resting
<1>5. RestInv
  <2>1. identity \in Attempts
    BY CredentialAssumption DEF Init, Attempts
  <2>2. refused \subseteq Credentials /\ mixed \in BOOLEAN
    BY DEF Init
  <2> QED BY <2>1, <2>2 DEF RestInv
<1> QED BY <1>1, <1>2, <1>3, <1>4, <1>5 DEF CredentialInv

LEMMA CredentialStep == CredentialInv /\ [Next]_vars => CredentialInv'
<1>1. CredentialInv /\ UNCHANGED vars => CredentialInv'
  <2> SUFFICES ASSUME CredentialInv, UNCHANGED vars PROVE CredentialInv'
    OBVIOUS
  <2>1. UNCHANGED <<status, request, admin, terminal, confirmed, refused, mixed>>
    BY DEF vars, server, history
  <2>2. StoresInv' /\ BootInv' /\ RestInv'
    BY <2>1, TerminalKept
  <2> QED BY <2>1, <2>2, SameRows, SameRequests DEF CredentialInv
<1> QED BY <1>1, TerminalStep, ServerStep DEF Next

-----------------------------------------------------------------------------
(* Rows, requests, stores and the bootstrap stay in the relation the       *)
(* invariant describes.                                                    *)
THEOREM CredentialInvariant == Spec => []CredentialInv
BY CredentialInit, CredentialStep, PTL DEF Spec

(* Rows, requests and stores keep their types.                             *)
THEOREM CredentialTypes == Spec => []TypeOK
<1>1. ASSUME CredentialInv PROVE TypeOK
  <2>1. status \in [Attempts -> [Versions -> Statuses]]
        /\ admin \in {NoAdmin} \cup [kind : {"revoked", "retired"}, cred : Credentials]
        /\ confirmed \subseteq Credentials
    BY <1>1 DEF CredentialInv, RowsInv
  <2>2. request \in [Requests -> Requested]
    BY <1>1 DEF CredentialInv, RequestsInv
  <2>3. stores \in Stored /\ circuit \in {"available", "degraded"}
    BY <1>1 DEF CredentialInv, StoresInv
  <2>4. boot.point \in {"idle", "missing", "absent", "provision", "confirm", "writing"}
    BY <1>1 DEF CredentialInv, BootInv, Boots
  <2>5. identity \in Attempts /\ refused \subseteq Credentials /\ mixed \in BOOLEAN
    BY <1>1 DEF CredentialInv, RestInv
  <2> QED BY <2>1, <2>2, <2>3, <2>4, <2>5 DEF TypeOK, Requested, AnyCredential, Stored
<1> QED BY <1>1, CredentialInvariant, PTL

(* The terminal never works with a credential the server has not confirmed,*)
(* through any copy between its stores and any crash between two writes.   *)
THEOREM ActiveIsConfirmed == Spec => []ActiveWasConfirmed
<1>1. CredentialInv => ActiveWasConfirmed
  BY DEF CredentialInv, StoresInv
<1> QED BY <1>1, CredentialInvariant, PTL

-----------------------------------------------------------------------------
(* What is ACTIVE on the server can be used.  What the terminal has ever   *)
(* asked the server to confirm for its identity stays in the fallback      *)
(* table, whose writes do not fail; a later provisioning means that the    *)
(* table was empty, so that whatever else is in the keystore has been      *)
(* superseded without ever being sent.                                     *)

(* The four places of a record: keystore and fallback, active and staged.  *)
KA == stores["preferred"]["active"]
KC == stores["preferred"]["candidate"]
FA == stores["fallback"]["active"]
FC == stores["fallback"]["candidate"]

Places == {KA, KC, FA, FC}

(* A record the server has issued, for an identity the terminal had.       *)
Ours(c) == c = None \/ (c \in Credentials /\ StatusOf(c) # "none" /\ c.attempt <= identity)

OurWrites == {w \in Writes : Ours(w.cred)}

OursRequest(r) ==
  /\ r.cred.attempt <= identity
  /\ r.cred.version = 0 \/ Ours(r.cred)

OursInv ==
  /\ \A c \in Places : Ours(c)
  /\ boot.todo \in Seq(OurWrites)
  /\ \A c \in confirmed : Ours(c)
  /\ \A q \in Requests : OursRequest(request[q])
  /\ admin # NoAdmin => StatusOf(admin.cred) # "none"

(* A version that was followed by another is over, unless it was confirmed *)
(* all the same.                                                           *)
VersionsInv ==
  \A a \in Attempts : \A v, w \in Versions :
    v < w /\ status[a][w] # "none" => status[a][v] \in {"retired", "revoked", "active"}

LedgerInv == CredentialInv /\ OursInv /\ VersionsInv

(* What may be, or become, ACTIVE; and what cannot any more.               *)
Asked(c) ==
  \E q \in Requests : /\ request[q].kind = "confirm" /\ request[q].cred = c
                      /\ request[q].point \in {"sent", "read"}

Live(c) == c \in confirmed \/ Asked(c)

Dead(c) ==
  /\ c \in Credentials /\ c \notin confirmed
  /\ StatusOf(c) \in {"retired", "revoked"}
  /\ \A q \in Requests : request[q].kind = "confirm" /\ request[q].cred = c =>
                           request[q].point # "read"

LEMMA PlaceTypes ==
  ASSUME StoresInv
  PROVE  /\ \A c \in Places : c \in Credentials \cup {None}
         /\ KA # None => KA \in confirmed
         /\ FA # None => FA \in confirmed
         /\ DOMAIN stores = {"preferred", "fallback"}
BY DEF StoresInv, Stored, Areas, ActiveWasConfirmed, Places, KA, KC, FA, FC

(* One row is given another status.                                        *)
LEMMA SetMoves ==
  ASSUME RowsInv, NEW d \in Credentials, NEW s, status' = SetStatus(d, s), NEW c \in Credentials
  PROVE  IF c = d THEN StatusOf(c)' = s ELSE StatusOf(c)' = StatusOf(c)
<1>1. /\ d.attempt \in Attempts /\ d.version \in Versions
      /\ c.attempt \in Attempts /\ c.version \in Versions
  BY CredentialFacts
<1>2. CASE c = d
  BY <1>1, <1>2 DEF RowsInv, SetStatus, StatusOf
<1>3. CASE c # d
  <2>1. ~ (d.attempt = c.attempt /\ d.version = c.version)
    BY <1>3 DEF Credentials
  <2> QED BY <1>1, <1>3, <2>1 DEF RowsInv, SetStatus, StatusOf
<1> QED BY <1>2, <1>3

(* A new version is created above the one that was read, which is retired. *)
LEMMA ProvisionMoves ==
  ASSUME CredentialInv, OursInv, NEW q \in Requests, SaveProvision(q)
  PROVE  \/ UNCHANGED status /\ Worked(q, "answered", "error", request[q].cred)
         \/ \E created \in Credentials :
              /\ created.attempt = request[q].cred.attempt
              /\ created.version = request[q].cred.version + 1
              /\ StatusOf(created) = "none"
              /\ Worked(q, "answered", "secret", created)
              /\ \A c \in Credentials :
                   IF c = created THEN StatusOf(c)' = "pending"
                   ELSE IF c = request[q].cred
                   THEN StatusOf(c) # "none" /\ StatusOf(c)' = "retired"
                   ELSE StatusOf(c)' = StatusOf(c)
<1> DEFINE old == request[q].cred
           created == [old EXCEPT !.version = @ + 1]
<1>0. /\ request[q] \in Requested /\ Honest(request[q]) /\ OursRequest(request[q])
      /\ status \in [Attempts -> [Versions -> Statuses]] /\ RequestsInv
  BY DEF CredentialInv, RequestsInv, RowsInv, OursInv
<1>1. /\ old \in AnyCredential /\ old.attempt \in Attempts
      /\ request[q].kind = "provision" /\ old.version < MaxVersion
  BY <1>0 DEF SaveProvision, Honest, Requested
<1>2. /\ created \in Credentials /\ created \in AnyCredential
      /\ created.attempt = old.attempt /\ created.version = old.version + 1
      /\ created.version \in Versions
  BY <1>1, CredentialAssumption DEF AnyCredential, Credentials, Versions
<1>3. \/ Answer(q, "error", old) /\ UNCHANGED status
      \/ /\ StatusOf(created) = "none"
         /\ status' = [status EXCEPT ![old.attempt] =
                          [v \in Versions |-> IF v = created.version THEN "pending"
                                              ELSE IF v = old.version THEN "retired" ELSE @[v]]]
         /\ Answer(q, "secret", created)
  BY DEF SaveProvision
<1> HIDE DEF created
<1>4. CASE Answer(q, "error", old) /\ UNCHANGED status
  BY <1>0, <1>1, <1>4, AnswerWorks
<1>5. CASE /\ StatusOf(created) = "none"
           /\ status' = [status EXCEPT ![old.attempt] =
                          [v \in Versions |-> IF v = created.version THEN "pending"
                                              ELSE IF v = old.version THEN "retired" ELSE @[v]]]
           /\ Answer(q, "secret", created)
  <2>1. Worked(q, "answered", "secret", created)
    BY <1>0, <1>2, <1>5, AnswerWorks
  <2>2. ASSUME NEW c \in Credentials
        PROVE  IF c = created THEN StatusOf(c)' = "pending"
               ELSE IF c = old THEN StatusOf(c) # "none" /\ StatusOf(c)' = "retired"
               ELSE StatusOf(c)' = StatusOf(c)
    <3>1. /\ c.attempt \in Attempts /\ c.version \in Versions
          /\ c.version \in Nat /\ c.version # 0
      BY CredentialFacts, CredentialAssumption DEF Versions
    <3>2. StatusOf(c)' = status'[c.attempt][c.version]
      BY DEF StatusOf
    <3>3. CASE c = created
      BY <1>0, <1>1, <1>2, <1>5, <3>1, <3>2, <3>3
    <3>4. CASE c # created /\ c = old
      <4>1. StatusOf(c) # "none"
        BY <1>0, <3>1, <3>4, CredentialFacts DEF OursRequest, Ours
      <4>2. c.version # created.version
        BY <1>1, <1>2, <3>1, <3>4
      <4> QED BY <1>0, <1>1, <1>5, <3>1, <3>2, <3>4, <4>1, <4>2
    <3>5. CASE c # created /\ c # old
      <4>1. /\ ~ (c.attempt = old.attempt /\ c.version = created.version)
            /\ ~ (c.attempt = old.attempt /\ c.version = old.version)
        BY <1>1, <1>2, <3>5 DEF Credentials, AnyCredential
      <4>2. ASSUME c.attempt # old.attempt PROVE status'[c.attempt] = status[c.attempt]
        BY <1>0, <1>1, <1>5, <3>1, <4>2
      <4>3. ASSUME c.attempt = old.attempt
            PROVE  status'[c.attempt][c.version] = status[c.attempt][c.version]
        BY <1>0, <1>1, <1>5, <3>1, <4>1, <4>3
      <4>4. StatusOf(c)' = StatusOf(c)
        BY <3>2, <4>2, <4>3 DEF StatusOf
      <4> QED BY <3>5, <4>4
    <3> QED BY <3>3, <3>4, <3>5
  <2> QED BY <1>2, <1>5, <2>1, <2>2
<1> QED BY <1>3, <1>4, <1>5

(* What else changes a row.                                                *)
LEMMA StatusMoves ==
  ASSUME CredentialInv, [Next]_vars, NEW c \in Credentials, StatusOf(c)' # StatusOf(c)
  PROVE  \/ \E q \in Requests : SaveProvision(q)
         \/ /\ \E q \in Requests : SaveConfirm(q) /\ request[q].cred = c
            /\ StatusOf(c)' = "active"
         \/ StatusOf(c) = "pending" /\ StatusOf(c)' = "lapsed"
         \/ StatusOf(c)' \in {"retired", "revoked"} /\ admin # NoAdmin /\ admin.cred = c
<1>1. RowsInv /\ \A q \in Requests : Honest(request[q])
  BY DEF CredentialInv, RequestsInv
<1>2. ASSUME NEW q \in Requests, SaveConfirm(q)
      PROVE  request[q].cred = c /\ StatusOf(c)' = "active"
  <2>1. request[q].cred \in Credentials /\ status' = SetStatus(request[q].cred, "active")
    BY <1>1, <1>2 DEF SaveConfirm, Honest
  <2> QED BY <1>1, <2>1, SetMoves
<1>3. ASSUME NEW d \in Credentials, Lapse(d)
      PROVE  StatusOf(c) = "pending" /\ StatusOf(c)' = "lapsed"
  <2>1. status' = SetStatus(d, "lapsed") /\ StatusOf(d) = "pending"
    BY <1>3 DEF Lapse
  <2> QED BY <1>1, <2>1, SetMoves
<1>4. CASE AdminSave
  <2>1. /\ admin.cred \in Credentials /\ admin.kind \in {"revoked", "retired"}
        /\ admin # NoAdmin /\ status' = SetStatus(admin.cred, admin.kind)
    BY <1>1, <1>4 DEF AdminSave, RowsInv
  <2> QED BY <1>1, <2>1, SetMoves
<1>5. ASSUME UNCHANGED status PROVE FALSE
  BY <1>5 DEF StatusOf
<1>6. CASE Terminal
  BY <1>5, <1>6 DEF Terminal, ReadCandidate, ReadActive, Provision, WriteStore, VerifyStaged,
       WritesDone, ProvisionAnswered, ConfirmAnswered, GiveUp, Restart, Relink, server
<1>7. ASSUME NEW q \in Requests, ReadProvision(q) \/ ReadConfirm(q) \/ AnswerLost(q)
      PROVE  FALSE
  BY <1>5, <1>7 DEF ReadProvision, ReadConfirm, AnswerLost
<1>8. ASSUME NEW d \in Managed, NEW kind, AdminRead(d, kind) PROVE FALSE
  BY <1>5, <1>8 DEF AdminRead
<1>9. CASE UNCHANGED vars
  BY <1>5, <1>9 DEF vars, server
<1> QED BY <1>2, <1>3, <1>4, <1>6, <1>7, <1>8, <1>9 DEF Next, Server

(* What becomes of a confirmation: it is asked for, read while the row is  *)
(* pending, answered.                                                      *)
LEMMA ConfirmMoves ==
  ASSUME CredentialInv, [Next]_vars, NEW p \in Requests, request'[p].kind = "confirm"
  PROVE  \/ request'[p] = request[p]
         \/ \E c \in Credentials :
              /\ ReadCandidate \/ VerifyStaged
              /\ Send(p, "confirm", c)
              /\ request'[p].cred = c /\ request'[p].point = "sent"
         \/ /\ request[p].kind = "confirm" /\ request[p].point = "sent"
            /\ request'[p].cred = request[p].cred
            /\ \/ request'[p].point = "read" /\ StatusOf(request[p].cred) = "pending"
               \/ request'[p].point = "answered"
         \/ /\ request[p].kind = "confirm" /\ request[p].point = "read"
            /\ request'[p].cred = request[p].cred
            /\ SaveConfirm(p) /\ request'[p].point = "answered"
<1>0. /\ RequestsInv /\ StoresInv /\ request \in [Requests -> Requested]
      /\ \A q \in Requests : Honest(request[q])
  BY DEF CredentialInv, RequestsInv
<1>1. ASSUME NEW q \in Requests, NEW kind, NEW c, Send(q, kind, c)
      PROVE  \/ request'[p] = request[p]
             \/ /\ p = q /\ request'[p].kind = kind
                /\ request'[p].cred = c /\ request'[p].point = "sent"
  BY <1>0, <1>1 DEF Send
<1>2. CASE ReadCandidate
  <2>1. PICK r \in Reads("candidate") :
          IF r.cred = None THEN UNCHANGED request ELSE \E q \in Requests : Send(q, "confirm", r.cred)
    BY <1>2 DEF ReadCandidate
  <2>2. r.cred \in Credentials \cup {None}
    BY <1>0, <2>1, ReadsAreSafe DEF Areas
  <2> QED BY <1>1, <1>2, <2>1, <2>2
<1>3. CASE VerifyStaged
  <2>1. PICK r \in Reads("candidate") :
          \/ UNCHANGED request
          \/ r.cred = boot.cred /\ \E q \in Requests : Send(q, "confirm", r.cred)
    BY <1>3 DEF VerifyStaged
  <2>2. boot.cred \in Credentials
    BY <1>3 DEF VerifyStaged, CredentialInv, BootInv, Staging
  <2> QED BY <1>1, <1>3, <2>1, <2>2
<1>4. CASE Provision
  BY <1>1, <1>4 DEF Provision
<1>5. CASE UNCHANGED request
  BY <1>5
<1>6. CASE ReadActive \/ WriteStore \/ WritesDone \/ GiveUp \/ Restart \/ Relink \/ AdminSave
             \/ UNCHANGED vars
  BY <1>6 DEF ReadActive, WriteStore, WritesDone, GiveUp, Restart, Relink, AdminSave, server, vars
<1>7. ASSUME NEW q, request' = [request EXCEPT ![q] = NoRequest]
      PROVE  request'[p] = request[p]
  BY <1>0, <1>7 DEF NoRequest
<1>8. CASE ProvisionAnswered \/ ConfirmAnswered \/ \E q \in Requests : AnswerLost(q)
  BY <1>7, <1>8 DEF ProvisionAnswered, ConfirmAnswered, AnswerLost
<1>9. ASSUME NEW c, Lapse(c) \/ \E kind : AdminRead(c, kind) PROVE UNCHANGED request
  BY <1>9 DEF Lapse, AdminRead
<1>10. ASSUME NEW q \in Requests, ReadProvision(q) \/ SaveProvision(q)
       PROVE  request'[p] = request[p]
  <2>1. request[q].kind = "provision"
    BY <1>10 DEF ReadProvision, SaveProvision
  <2>2. request'[q].kind = request[q].kind /\ (p # q => request'[p] = request[p])
    BY <1>0, <1>10 DEF ReadProvision, SaveProvision, Answer, Requested
  <2> QED BY <2>1, <2>2
<1>11. ASSUME NEW q \in Requests, ReadConfirm(q)
       PROVE  \/ request'[p] = request[p]
              \/ /\ request[p].kind = "confirm" /\ request[p].point = "sent"
                 /\ request'[p].cred = request[p].cred
                 /\ \/ request'[p].point = "read" /\ StatusOf(request[p].cred) = "pending"
                    \/ request'[p].point = "answered"
  <2>1. p # q => request'[p] = request[p]
    BY <1>0, <1>11 DEF ReadConfirm, Answer
  <2>2. \/ StatusOf(request[q].cred) = "pending"
           /\ request' = [request EXCEPT ![q].point = "read"]
        \/ \E a \in {"active", "refused"} : Answer(q, a, request[q].cred)
    BY <1>11 DEF ReadConfirm
  <2>3. CASE StatusOf(request[q].cred) = "pending"
             /\ request' = [request EXCEPT ![q].point = "read"]
    BY <1>0, <1>11, <2>1, <2>3 DEF ReadConfirm, Requested
  <2>4. CASE \E a \in {"active", "refused"} : Answer(q, a, request[q].cred)
    BY <1>0, <1>11, <2>1, <2>4 DEF ReadConfirm, Requested, Answer
  <2> QED BY <2>2, <2>3, <2>4
<1>12. ASSUME NEW q \in Requests, SaveConfirm(q)
       PROVE  \/ request'[p] = request[p]
              \/ /\ p = q /\ request[p].kind = "confirm" /\ request[p].point = "read"
                 /\ request'[p].cred = request[p].cred /\ request'[p].point = "answered"
  BY <1>0, <1>12 DEF SaveConfirm, Answer, Requested
<1> QED BY <1>2, <1>3, <1>4, <1>6, <1>8, <1>9, <1>10, <1>11, <1>12
        DEF Next, Terminal, Server

(* Who adds to what was confirmed.                                         *)
LEMMA ConfirmedMoves ==
  ASSUME CredentialInv, [Next]_vars
  PROVE  \/ UNCHANGED confirmed
         \/ \E q \in Requests : /\ SaveConfirm(q) /\ request[q].kind = "confirm"
                                /\ request[q].point = "read" /\ request[q].cred \in Credentials
                                /\ confirmed' = confirmed \cup {request[q].cred}
<1>1. CASE Terminal
  BY <1>1 DEF Terminal, ReadCandidate, ReadActive, Provision, WriteStore, VerifyStaged,
       WritesDone, ProvisionAnswered, ConfirmAnswered, GiveUp, Restart, Relink, history
<1>2. ASSUME NEW q \in Requests, SaveConfirm(q)
      PROVE  /\ request[q].kind = "confirm" /\ request[q].cred \in Credentials
             /\ request[q].point = "read"
             /\ confirmed' = confirmed \cup {request[q].cred}
  BY <1>2 DEF SaveConfirm, CredentialInv, RequestsInv, Honest
<1>3. ASSUME NEW q \in Requests,
             ReadProvision(q) \/ SaveProvision(q) \/ ReadConfirm(q) \/ AnswerLost(q)
      PROVE  UNCHANGED confirmed
  BY <1>3 DEF ReadProvision, SaveProvision, ReadConfirm, AnswerLost, history
<1>4. ASSUME NEW c, Lapse(c) \/ (\E kind : AdminRead(c, kind)) \/ AdminSave
      PROVE  UNCHANGED confirmed
  BY <1>4 DEF Lapse, AdminRead, AdminSave, history
<1>5. CASE UNCHANGED vars
  BY <1>5 DEF vars, history
<1> QED BY <1>1, <1>2, <1>3, <1>4, <1>5 DEF Next, Server

(* What cannot become ACTIVE never does.                                   *)
LEMMA DeadStays ==
  ASSUME CredentialInv, OursInv, [Next]_vars, NEW c, Dead(c)
  PROVE  Dead(c)'
<1>0. /\ c \in Credentials /\ c \notin confirmed /\ StatusOf(c) \in {"retired", "revoked"}
      /\ \A q \in Requests : request[q].kind = "confirm" /\ request[q].cred = c =>
                               request[q].point # "read"
  BY DEF Dead
<1>1. ASSUME NEW q \in Requests, SaveConfirm(q) PROVE request[q].cred # c
  BY <1>0, <1>1 DEF SaveConfirm
<1>2. c \notin confirmed'
  BY <1>0, ConfirmedMoves
<1>3. StatusOf(c)' \in {"retired", "revoked"}
  <2>1. ASSUME NEW q \in Requests, SaveProvision(q)
        PROVE  StatusOf(c)' = StatusOf(c) \/ StatusOf(c)' = "retired"
    <3>1. CASE UNCHANGED status
      BY <3>1 DEF StatusOf
    <3>2. CASE ~ UNCHANGED status
      <4>1. PICK created \in Credentials :
              /\ StatusOf(created) = "none"
              /\ \A d \in Credentials :
                   IF d = created THEN StatusOf(d)' = "pending"
                   ELSE IF d = request[q].cred
                   THEN StatusOf(d) # "none" /\ StatusOf(d)' = "retired"
                   ELSE StatusOf(d)' = StatusOf(d)
        BY <2>1, <3>2, ProvisionMoves
      <4> QED BY <1>0, <4>1
    <3> QED BY <3>1, <3>2
  <2> QED BY <1>0, <1>1, <2>1, StatusMoves
<1>4. ASSUME NEW q \in Requests, request'[q].kind = "confirm", request'[q].cred = c
      PROVE  request'[q].point # "read"
  BY <1>0, <1>4, ConfirmMoves
<1> QED BY <1>0, <1>2, <1>3, <1>4 DEF Dead

(* Nothing comes alive but what the terminal sends.                        *)
LEMMA LiveMoves ==
  ASSUME CredentialInv, [Next]_vars, NEW c, Live(c)'
  PROVE  \/ Live(c)
         \/ (ReadCandidate \/ VerifyStaged) /\ \E q \in Requests : Send(q, "confirm", c)
<1>1. CASE c \in confirmed'
  BY <1>1, ConfirmedMoves DEF Live, Asked
<1>2. CASE Asked(c)'
  <2>1. PICK q \in Requests : /\ request'[q].kind = "confirm" /\ request'[q].cred = c
                              /\ request'[q].point \in {"sent", "read"}
    BY <1>2 DEF Asked
  <2> QED BY <2>1, ConfirmMoves DEF Live, Asked
<1> QED BY <1>1, <1>2 DEF Live

(* What was issued stays issued.                                           *)
LEMMA IssuedStays ==
  ASSUME CredentialInv, OursInv, [Next]_vars, NEW c \in Credentials, StatusOf(c) # "none"
  PROVE  StatusOf(c)' # "none"
<1>1. ASSUME NEW q \in Requests, SaveProvision(q) PROVE StatusOf(c)' # "none"
  <2>1. CASE UNCHANGED status
    BY <2>1 DEF StatusOf
  <2>2. CASE ~ UNCHANGED status
    <3>1. PICK created \in Credentials :
            /\ StatusOf(created) = "none"
            /\ \A d \in Credentials :
                 IF d = created THEN StatusOf(d)' = "pending"
                 ELSE IF d = request[q].cred
                 THEN StatusOf(d) # "none" /\ StatusOf(d)' = "retired"
                 ELSE StatusOf(d)' = StatusOf(d)
      BY <1>1, <2>2, ProvisionMoves
    <3> QED BY <3>1
  <2> QED BY <2>1, <2>2
<1> QED BY <1>1, StatusMoves

LEMMA IdentityGrows ==
  ASSUME CredentialInv, [Next]_vars
  PROVE  identity \in Nat /\ identity' \in Nat /\ identity <= identity'
<1>1. identity \in Nat
  BY CredentialAssumption DEF CredentialInv, RestInv, Attempts
<1>2. identity' = identity \/ identity' = identity + 1
  BY DEF Next, Terminal, ReadCandidate, ReadActive, Provision, WriteStore, VerifyStaged,
     WritesDone, ProvisionAnswered, ConfirmAnswered, GiveUp, Restart, Relink, Server,
     ReadProvision, SaveProvision, ReadConfirm, SaveConfirm, AnswerLost, Lapse, AdminRead,
     AdminSave, vars, terminal
<1> QED BY <1>1, <1>2

LEMMA OursStays ==
  ASSUME CredentialInv, OursInv, [Next]_vars, NEW c, Ours(c)
  PROVE  Ours(c)'
<1>1. CASE c = None
  BY <1>1 DEF Ours
<1>2. CASE c # None
  <2>1. /\ c \in Credentials /\ StatusOf(c) # "none" /\ c.attempt <= identity
        /\ c.attempt \in Nat
    BY <1>2, CredentialFacts, CredentialAssumption DEF Ours, Attempts
  <2>2. c.attempt <= identity'
    BY <2>1, IdentityGrows
  <2> QED BY <2>1, <2>2, IssuedStays DEF Ours
<1> QED BY <1>1, <1>2

(* What a read of the candidates, or of the active records, does to the    *)
(* places.                                                                 *)
LEMMA ReadCandidates ==
  ASSUME StoresInv, NEW r \in Reads("candidate"), stores' = r.stores
  PROVE  /\ KA' = KA /\ FA' = FA
         /\ \/ r.cred = FC /\ KC' = KC /\ FC' = FC
            \/ /\ r.cred = HigherVersion(KC, FC) /\ KC' = r.cred /\ FC' = r.cred
               /\ KC.version = FC.version => KC = FC
<1> DEFINE best == HigherVersion(KC, FC)
<1>0. /\ DOMAIN stores = {"preferred", "fallback"}
      /\ \A s \in {"preferred", "fallback"} : stores[s] \in [Areas -> Credentials \cup {None}]
      /\ "active" \in Areas /\ "candidate" \in Areas
  BY DEF StoresInv, Stored, Areas
<1>1. \/ r = [cred |-> FC, stores |-> stores, circuit |-> "degraded"]
      \/ /\ r = [cred |-> best, stores |-> Copied("candidate", best), circuit |-> "available"]
         /\ KC.version = FC.version => KC = FC
  BY DEF Reads, KC, FC
<1>2. CASE r = [cred |-> FC, stores |-> stores, circuit |-> "degraded"]
  BY <1>2 DEF KA, KC, FA, FC
<1>3. CASE r = [cred |-> best, stores |-> Copied("candidate", best), circuit |-> "available"]
  <2> HIDE DEF best
  <2>1. stores' = [s \in {"preferred", "fallback"} |-> [stores[s] EXCEPT !["candidate"] = best]]
    BY <1>0, <1>3 DEF Copied
  <2>2. r.cred = best
    BY <1>3
  <2>3. \A s \in {"preferred", "fallback"} :
          stores'[s]["active"] = stores[s]["active"] /\ stores'[s]["candidate"] = best
    BY <1>0, <2>1
  <2>4. KA' = KA /\ FA' = FA /\ KC' = best /\ FC' = best
    BY <2>3 DEF KA, KC, FA, FC
  <2> QED BY <1>1, <1>3, <2>2, <2>4 DEF best
<1> QED BY <1>1, <1>2, <1>3

LEMMA ReadActives ==
  ASSUME StoresInv, NEW r \in Reads("active"), stores' = r.stores
  PROVE  /\ KC' = KC /\ FC' = FC
         /\ \/ r.cred = FA /\ KA' = KA /\ FA' = FA
            \/ r.cred = HigherVersion(KA, FA) /\ KA' = r.cred /\ FA' = r.cred
<1> DEFINE best == HigherVersion(KA, FA)
<1>0. /\ DOMAIN stores = {"preferred", "fallback"}
      /\ \A s \in {"preferred", "fallback"} : stores[s] \in [Areas -> Credentials \cup {None}]
      /\ "active" \in Areas /\ "candidate" \in Areas
  BY DEF StoresInv, Stored, Areas
<1>1. \/ r = [cred |-> FA, stores |-> stores, circuit |-> "degraded"]
      \/ r = [cred |-> best, stores |-> Copied("active", best), circuit |-> "available"]
  BY DEF Reads, KA, FA
<1>2. CASE r = [cred |-> FA, stores |-> stores, circuit |-> "degraded"]
  BY <1>2 DEF KA, KC, FA, FC
<1>3. CASE r = [cred |-> best, stores |-> Copied("active", best), circuit |-> "available"]
  <2> HIDE DEF best
  <2>1. stores' = [s \in {"preferred", "fallback"} |-> [stores[s] EXCEPT !["active"] = best]]
    BY <1>0, <1>3 DEF Copied
  <2>2. r.cred = best
    BY <1>3
  <2>3. \A s \in {"preferred", "fallback"} :
          stores'[s]["candidate"] = stores[s]["candidate"] /\ stores'[s]["active"] = best
    BY <1>0, <2>1
  <2>4. KC' = KC /\ FC' = FC /\ KA' = best /\ FA' = best
    BY <2>3 DEF KA, KC, FA, FC
  <2> QED BY <2>2, <2>4 DEF best
<1> QED BY <1>1, <1>2, <1>3

(* What a write does to them.                                              *)
LEMMA WritePlaces ==
  ASSUME StoresInv, NEW w \in Writes, stores' = Done(w)
  PROVE  /\ KA' = IF w.store = "preferred" /\ w.area = "active" THEN w.cred ELSE KA
         /\ KC' = IF w.store = "preferred" /\ w.area = "candidate" THEN w.cred ELSE KC
         /\ FA' = IF w.store = "fallback" /\ w.area = "active" THEN w.cred ELSE FA
         /\ FC' = IF w.store = "fallback" /\ w.area = "candidate" THEN w.cred ELSE FC
<1>0. /\ stores \in [{"preferred", "fallback"} -> [Areas -> Credentials \cup {None}]]
      /\ w.store \in {"preferred", "fallback"} /\ w.area \in {"active", "candidate"}
      /\ Areas = {"active", "candidate"}
  BY DEF StoresInv, Stored, Areas, Writes
<1>1. stores' = [stores EXCEPT ![w.store] = [stores[w.store] EXCEPT ![w.area] = w.cred]]
  BY DEF Done
<1>2. ASSUME NEW s \in {"preferred", "fallback"}, NEW a \in {"active", "candidate"}
      PROVE  stores'[s][a] = IF w.store = s /\ w.area = a THEN w.cred ELSE stores[s][a]
  BY <1>0, <1>1
<1> QED BY <1>2 DEF KA, KC, FA, FC

(* What the terminal may still write are records of its own.               *)
LEMMA OurSequences ==
  ASSUME NEW c, Ours(c), c \in Credentials \cup {None}
  PROVE  /\ Stage(c) \in Seq(OurWrites)
         /\ Commit(c) \in Seq(OurWrites)
         /\ Clear \in Seq(OurWrites)
         /\ <<Write("preferred", "candidate", None), Write("fallback", "candidate", None)>>
              \in Seq(OurWrites)
<1>1. \A s \in {"preferred", "fallback"}, a \in Areas, d \in {c, None} :
        Write(s, a, d) \in OurWrites
  BY DEF Write, OurWrites, Writes, Ours
<1>2. "active" \in Areas /\ "candidate" \in Areas
  BY DEF Areas
<1> QED BY <1>1, <1>2 DEF Stage, Commit, Clear

LEMMA RequestsOurs ==
  ASSUME CredentialInv, OursInv, [Next]_vars, NEW p \in Requests
  PROVE  OursRequest(request[p])'
<1>0. /\ RequestsInv /\ StoresInv /\ RowsInv /\ request \in [Requests -> Requested]
      /\ \A q \in Requests : /\ Honest(request[q]) /\ OursRequest(request[q])
                             /\ request[q] \in Requested
      /\ identity \in Nat /\ identity' \in Nat /\ identity <= identity' /\ MaxAttempt \in Nat
      /\ Credentials \subseteq AnyCredential
  BY IdentityGrows, CredentialFacts, CredentialAssumption
     DEF CredentialInv, RequestsInv, OursInv
<1>1. ASSUME NEW c, c.attempt \in Nat, c.attempt <= identity, c.version = 0 \/ Ours(c),
             request'[p].cred = c
      PROVE  OursRequest(request[p])'
  <2>1. c.attempt <= identity'
    BY <1>0, <1>1
  <2>2. c.version = 0 \/ Ours(c)'
    BY <1>1, OursStays
  <2> QED BY <1>1, <2>1, <2>2 DEF OursRequest, Ours
<1>2. ASSUME request'[p].cred = request[p].cred PROVE OursRequest(request[p])'
  BY <1>0, <1>1, <1>2 DEF Requested, AnyCredential, OursRequest
<1>3. ASSUME NEW q, request' = [request EXCEPT ![q] = NoRequest] PROVE OursRequest(request[p])'
  <2>1. request'[p] = request[p] \/ request'[p] = NoRequest
    BY <1>0, <1>3
  <2>2. CASE request'[p] = NoRequest
    <3>1. request'[p].cred = None /\ None.attempt = 0 /\ None.version = 0
      BY <2>2 DEF NoRequest, None
    <3> QED BY <1>0, <1>1, <3>1
  <2> QED BY <1>2, <2>1, <2>2
<1>4. ASSUME NEW q \in Requests, NEW kind, NEW c, Send(q, kind, c),
             c.attempt \in Nat, c.attempt <= identity, c.version = 0 \/ Ours(c)
      PROVE  OursRequest(request[p])'
  <2>1. request'[p] = request[p] \/ request'[p].cred = c
    BY <1>0, <1>4 DEF Send
  <2> QED BY <1>1, <1>2, <1>4, <2>1
<1>5. ASSUME NEW q \in Requests, NEW r \in Reads("candidate"), r.cred # None,
             stores' = r.stores, Send(q, "confirm", r.cred)
      PROVE  OursRequest(request[p])'
  <2>1. r.cred \in {KC, FC}
    BY <1>0, <1>5, ReadCandidates DEF HigherVersion
  <2>2. Ours(r.cred) /\ r.cred \in Credentials
    BY <1>5, <2>1 DEF OursInv, Places, Ours
  <2> QED BY <1>4, <1>5, <2>2, CredentialFacts, CredentialAssumption DEF Ours, Attempts
<1>6. CASE ReadCandidate
  BY <1>2, <1>5, <1>6 DEF ReadCandidate
<1>7. CASE VerifyStaged
  <2>1. boot.cred # None
    BY <1>7, CredentialFacts DEF VerifyStaged, CredentialInv, BootInv, Staging
  <2> QED BY <1>2, <1>5, <1>7, <2>1 DEF VerifyStaged
<1>8. CASE Provision
  <2>1. PICK q \in Requests : Send(q, "provision", [attempt |-> identity, version |-> 0])
    BY <1>8 DEF Provision
  <2> QED BY <1>0, <1>4, <2>1
<1>9. CASE ReadActive \/ WriteStore \/ WritesDone \/ GiveUp \/ Restart \/ Relink \/ AdminSave
             \/ UNCHANGED vars
  BY <1>2, <1>9 DEF ReadActive, WriteStore, WritesDone, GiveUp, Restart, Relink, AdminSave,
     server, vars
<1>10. CASE ProvisionAnswered \/ ConfirmAnswered \/ \E q \in Requests : AnswerLost(q)
  BY <1>3, <1>10 DEF ProvisionAnswered, ConfirmAnswered, AnswerLost
<1>11. ASSUME NEW c, Lapse(c) \/ \E kind : AdminRead(c, kind) PROVE OursRequest(request[p])'
  BY <1>2, <1>11 DEF Lapse, AdminRead
<1>12. ASSUME NEW q \in Requests, ReadProvision(q) PROVE OursRequest(request[p])'
  <2> DEFINE at == request[q].cred.attempt
             latest == [attempt |-> at, version |-> Latest(at)]
  <2>1. at \in Attempts /\ at <= identity
    BY <1>0, <1>12 DEF ReadProvision, Honest, OursRequest
  <2>2. latest.attempt = at /\ latest.version = Latest(at) /\ at \in Nat
    BY <2>1, CredentialAssumption DEF Attempts
  <2>3. latest.version = 0 \/ Ours(latest)
    <3>1. CASE Latest(at) \in Issued(at)
      BY <2>1, <3>1 DEF Issued, Ours, StatusOf, Credentials
    <3> QED BY <2>1, <2>2, <3>1, LatestVersion
  <2>4. request'[p] = request[p] \/ request'[p].cred = latest
    BY <1>0, <1>12 DEF ReadProvision, Answer, Requested
  <2> HIDE DEF latest
  <2> QED BY <1>1, <1>2, <2>1, <2>2, <2>3, <2>4
<1>13. ASSUME NEW q \in Requests, SaveProvision(q) PROVE OursRequest(request[p])'
  <2>1. CASE p # q \/ request'[q].cred = request[q].cred
    <3>1. request'[p].cred = request[p].cred
      BY <1>13, <2>1, ProvisionMoves DEF Worked
    <3> QED BY <1>2, <3>1
  <2>2. CASE p = q /\ request'[q].cred # request[q].cred
    <3>1. PICK created \in Credentials :
            /\ created.attempt = request[q].cred.attempt
            /\ request'[q].cred = created
            /\ StatusOf(created)' = "pending"
      BY <1>13, <2>2, ProvisionMoves DEF Worked
    <3>2. created.attempt \in Nat /\ created.attempt <= identity
      BY <1>0, <3>1, CredentialFacts, CredentialAssumption DEF OursRequest, Attempts
    <3> QED BY <1>0, <2>2, <3>1, <3>2 DEF OursRequest, Ours
  <2> QED BY <2>1, <2>2
<1>14. ASSUME NEW q \in Requests, ReadConfirm(q) \/ SaveConfirm(q)
       PROVE  OursRequest(request[p])'
  <2>1. request'[p].cred = request[p].cred
    BY <1>0, <1>14 DEF ReadConfirm, SaveConfirm, Answer, Requested
  <2> QED BY <1>2, <2>1
<1> QED BY <1>6, <1>7, <1>8, <1>9, <1>10, <1>11, <1>12, <1>13, <1>14
        DEF Next, Terminal, Server

LEMMA PlacesOurs ==
  ASSUME CredentialInv, OursInv, [Next]_vars, NEW c \in Places'
  PROVE  Ours(c)'
<1>0. StoresInv /\ \A d \in Places : Ours(d)
  BY DEF CredentialInv, OursInv
<1>1. ASSUME UNCHANGED stores PROVE c \in Places
  BY <1>1 DEF Places, KA, KC, FA, FC
<1>2. ASSUME NEW r \in Reads("candidate"), stores' = r.stores PROVE c \in Places
  BY <1>0, <1>2, ReadCandidates DEF Places, HigherVersion
<1>3. ASSUME NEW r \in Reads("active"), stores' = r.stores PROVE c \in Places
  BY <1>0, <1>3, ReadActives DEF Places, HigherVersion
<1>4. CASE WriteStore
  <2> DEFINE w == Head(boot.todo)
  <2>1. boot.todo # << >> /\ boot.todo \in Seq(OurWrites) /\ stores' \in {stores, Done(w)}
    BY <1>4 DEF WriteStore, OursInv
  <2>2. w \in OurWrites /\ w \in Writes /\ Ours(w.cred)
    BY <2>1 DEF OurWrites
  <2> HIDE DEF w
  <2>3. c \in Places \cup {w.cred}
    <3>1. CASE stores' = Done(w)
      BY <1>0, <2>2, <3>1, WritePlaces DEF Places
    <3> QED BY <1>1, <2>1, <3>1
  <2>4. Ours(c)
    BY <1>0, <2>2, <2>3
  <2> QED BY <2>4, OursStays
<1>5. ASSUME c \in Places PROVE Ours(c)'
  BY <1>0, <1>5, OursStays
<1>6. CASE ReadCandidate \/ VerifyStaged \/ ReadActive
  BY <1>2, <1>3, <1>5, <1>6 DEF ReadCandidate, VerifyStaged, ReadActive
<1>7. CASE Provision \/ WritesDone \/ ProvisionAnswered \/ ConfirmAnswered \/ GiveUp
             \/ Restart \/ Relink
  BY <1>1, <1>5, <1>7 DEF Provision, WritesDone, ProvisionAnswered, ConfirmAnswered,
     GiveUp, Restart, Relink
<1>8. CASE Server \/ UNCHANGED vars
  BY <1>1, <1>5, <1>8 DEF Server, ReadProvision, SaveProvision, ReadConfirm, SaveConfirm,
     AnswerLost, Lapse, AdminRead, AdminSave, vars, terminal
<1> QED BY <1>4, <1>6, <1>7, <1>8 DEF Next, Terminal

LEMMA TodoOurs ==
  ASSUME CredentialInv, OursInv, [Next]_vars
  PROVE  boot'.todo \in Seq(OurWrites')
<1>0. /\ boot \in Boots /\ boot.todo \in Seq(OurWrites) /\ RequestsInv
      /\ \A q \in Requests : /\ Honest(request[q]) /\ OursRequest(request[q])
                             /\ request[q] \in Requested
      /\ \A c \in confirmed : Ours(c)
  BY DEF CredentialInv, BootInv, OursInv, RequestsInv
<1>1. OurWrites \subseteq OurWrites'
  BY OursStays DEF OurWrites
<1>2. Resting.todo = << >> /\ << >> \in Seq(OurWrites)
  BY DEF Resting
<1>3. ASSUME boot'.todo \in Seq(OurWrites) PROVE boot'.todo \in Seq(OurWrites')
  BY <1>1, <1>3
<1>4. ASSUME NEW q \in Requests, NEW kind, NEW c, Send(q, kind, c)
      PROVE  boot'.todo \in Seq(OurWrites)
  BY <1>2, <1>4 DEF Send, Resting
<1>5. Ours(None) /\ None \in Credentials \cup {None}
  BY DEF Ours
<1>6. CASE ReadCandidate
  <2>1. boot' = [boot EXCEPT !.point = "missing"]
        \/ \E q \in Requests : \E c : Send(q, "confirm", c)
    BY <1>6 DEF ReadCandidate
  <2> QED BY <1>0, <1>3, <1>4, <2>1 DEF Boots
<1>7. CASE ReadActive
  <2>1. \/ boot' = [boot EXCEPT !.point = "absent"]
        \/ boot' = Resting
        \/ boot' = [boot EXCEPT !.point = "writing", !.todo = Clear, !.next = "absent"]
    BY <1>7 DEF ReadActive
  <2> QED BY <1>0, <1>2, <1>3, <1>5, <2>1, OurSequences DEF Boots
<1>8. CASE Provision
  BY <1>3, <1>4, <1>8 DEF Provision
<1>9. CASE WriteStore
  <2>1. boot' = [boot EXCEPT !.todo = Tail(@)] /\ boot.todo # << >>
    BY <1>9 DEF WriteStore
  <2>2. Tail(boot.todo) \in Seq(OurWrites)
    BY <1>0, <2>1
  <2> QED BY <1>0, <1>3, <2>1, <2>2 DEF Boots
<1>10. CASE VerifyStaged
  <2>1. \/ boot' = [Resting EXCEPT
                     !.point = "writing",
                     !.todo = <<Write("preferred", "candidate", None),
                                Write("fallback", "candidate", None)>>]
        \/ \E q \in Requests : \E c : Send(q, "confirm", c)
    BY <1>10 DEF VerifyStaged
  <2> QED BY <1>3, <1>4, <1>5, <2>1, OurSequences DEF Resting
<1>11. CASE WritesDone
  BY <1>2, <1>3, <1>11 DEF WritesDone, Resting
<1>12. CASE ProvisionAnswered
  <2> DEFINE c == request[boot.request].cred
  <2>1. boot.request \in Requests
    BY <1>12 DEF ProvisionAnswered, CredentialInv, BootInv, Staging
  <2>2. \/ boot' = Resting
        \/ /\ request[boot.request].answer = "secret"
           /\ boot' = [Resting EXCEPT !.point = "writing", !.cred = c,
                                      !.todo = Stage(c), !.next = "verify"]
    BY <1>12 DEF ProvisionAnswered
  <2>3. request[boot.request].answer = "secret" => Ours(c) /\ c \in Credentials
    <3>1. request[boot.request].answer = "secret" => c \in Credentials
      BY <1>0, <2>1 DEF Honest
    <3>2. c \in Credentials => c.version # 0
      BY CredentialFacts, CredentialAssumption DEF Versions
    <3> QED BY <1>0, <2>1, <3>1, <3>2 DEF OursRequest
  <2> HIDE DEF c
  <2>4. CASE boot' = Resting
    BY <1>2, <2>4 DEF Resting
  <2>5. CASE /\ request[boot.request].answer = "secret"
             /\ boot' = [Resting EXCEPT !.point = "writing", !.cred = c,
                                        !.todo = Stage(c), !.next = "verify"]
    <3>1. Ours(c) /\ Stage(c) \in Seq(OurWrites)
      BY <2>3, <2>5, OurSequences
    <3> QED BY <1>3, <2>5, <3>1 DEF Resting
  <2> QED BY <2>2, <2>4, <2>5
<1>13. CASE ConfirmAnswered
  <2> DEFINE c == boot.cred
  <2>1. /\ boot.request \in Requests /\ c \in Credentials
        /\ request[boot.request].cred = c
    BY <1>13 DEF ConfirmAnswered, CredentialInv, BootInv, Awaited
  <2>2. \/ boot' = Resting
        \/ boot' = [Resting EXCEPT !.point = "writing", !.todo = Stage(c) \o Commit(c)]
    BY <1>13 DEF ConfirmAnswered
  <2>3. c.version # 0
    BY <2>1, CredentialFacts, CredentialAssumption DEF Versions
  <2>4. Ours(c)
    BY <1>0, <2>1, <2>3 DEF OursRequest
  <2> HIDE DEF c
  <2>5. Stage(c) \in Seq(OurWrites) /\ Commit(c) \in Seq(OurWrites)
    BY <2>1, <2>4, OurSequences
  <2>6. Stage(c) \o Commit(c) \in Seq(OurWrites)
    BY <2>5
  <2> QED BY <1>2, <1>3, <2>2, <2>6 DEF Resting
<1>14. CASE GiveUp \/ Restart
  BY <1>2, <1>3, <1>14 DEF GiveUp, Restart
<1>15. CASE Relink \/ Server \/ UNCHANGED vars
  <2>1. UNCHANGED boot
    BY <1>15 DEF Relink, Server, ReadProvision, SaveProvision, ReadConfirm, SaveConfirm,
       AnswerLost, Lapse, AdminRead, AdminSave, vars, terminal
  <2> QED BY <1>0, <1>3, <2>1
<1> QED BY <1>6, <1>7, <1>8, <1>9, <1>10, <1>11, <1>12, <1>13, <1>14, <1>15
        DEF Next, Terminal

LEMMA OursStep ==
  ASSUME CredentialInv, OursInv, [Next]_vars
  PROVE  OursInv'
<1>1. \A c \in Places' : Ours(c)'
  BY PlacesOurs
<1>2. boot'.todo \in Seq(OurWrites')
  BY TodoOurs
<1>3. \A q \in Requests : OursRequest(request[q])'
  BY RequestsOurs
<1>4. ASSUME NEW c \in confirmed' PROVE Ours(c)'
  <2>1. CASE c \in confirmed
    BY <2>1, OursStays DEF OursInv
  <2>2. CASE c \notin confirmed
    <3>1. PICK q \in Requests : request[q].cred \in Credentials /\ c = request[q].cred
      BY <2>2, ConfirmedMoves
    <3>2. c.version # 0
      BY <3>1, CredentialFacts, CredentialAssumption DEF Versions
    <3>3. Ours(c)
      BY <3>1, <3>2 DEF OursInv, OursRequest
    <3> QED BY <3>3, OursStays
  <2> QED BY <2>1, <2>2
<1>5. admin' # NoAdmin => StatusOf(admin.cred)' # "none"
  <2>1. \/ UNCHANGED admin \/ admin' = NoAdmin
        \/ \E c \in Managed : \E kind : AdminRead(c, kind)
    BY DEF Next, Terminal, ReadCandidate, ReadActive, Provision, WriteStore, VerifyStaged,
       WritesDone, ProvisionAnswered, ConfirmAnswered, GiveUp, Restart, Relink, Server,
       ReadProvision, SaveProvision, ReadConfirm, SaveConfirm, AnswerLost, Lapse, AdminSave,
       vars, server
  <2>2. CASE UNCHANGED admin /\ admin # NoAdmin
    <3>1. admin.cred \in Credentials /\ StatusOf(admin.cred) # "none"
      BY <2>2 DEF OursInv, CredentialInv, RowsInv
    <3>2. StatusOf(admin.cred)' # "none"
      <4> DEFINE c == admin.cred
      <4>1. StatusOf(c) # "none" /\ c \in Credentials
        BY <3>1
      <4>2. admin'.cred = admin.cred
        BY <2>2
      <4> QED BY <2>2, <3>1, IssuedStays DEF StatusOf
    <3> QED BY <3>2
  <2>3. ASSUME NEW c \in Managed, NEW kind, AdminRead(c, kind)
        PROVE  StatusOf(admin.cred)' # "none"
    BY <2>3 DEF AdminRead, StatusOf
  <2> QED BY <2>1, <2>2, <2>3
<1> QED BY <1>1, <1>2, <1>3, <1>4, <1>5 DEF OursInv

LEMMA VersionsStep ==
  ASSUME LedgerInv, [Next]_vars
  PROVE  VersionsInv'
<1> USE DEF LedgerInv
<1>0. /\ RowsInv /\ \A q \in Requests : OursRequest(request[q])
      /\ CredentialInv' /\ MaxVersion \in Nat
  BY CredentialStep, CredentialAssumption DEF CredentialInv, OursInv
<1>1. SUFFICES ASSUME NEW a \in Attempts, NEW v \in Versions, NEW w \in Versions, v < w,
                      status'[a][w] # "none"
               PROVE  status'[a][v] \in {"retired", "revoked", "active"}
  BY DEF VersionsInv
<1> DEFINE low == [attempt |-> a, version |-> v]
           high == [attempt |-> a, version |-> w]
<1>2. /\ low \in Credentials /\ high \in Credentials
      /\ StatusOf(low) = status[a][v] /\ StatusOf(high) = status[a][w]
      /\ StatusOf(low)' = status'[a][v] /\ StatusOf(high)' = status'[a][w]
      /\ low.attempt = a /\ high.attempt = a /\ low.version = v /\ high.version = w
      /\ v \in Nat /\ w \in Nat /\ v # 0
  BY CredentialAssumption DEF Credentials, StatusOf, Versions
<1>3. StatusOf(high) # "none" => StatusOf(low) \in {"retired", "revoked", "active"}
  BY <1>1, <1>2 DEF VersionsInv
<1> HIDE DEF low, high
<1>4. ASSUME NEW q \in Requests, SaveProvision(q), ~ UNCHANGED status
      PROVE  StatusOf(low)' \in {"retired", "revoked", "active"}
  <2> DEFINE old == request[q].cred
  <2>1. PICK created \in Credentials :
          /\ created.attempt = old.attempt /\ created.version = old.version + 1
          /\ StatusOf(created) = "none"
          /\ \A c \in Credentials :
               IF c = created THEN StatusOf(c)' = "pending"
               ELSE IF c = old THEN StatusOf(c) # "none" /\ StatusOf(c)' = "retired"
               ELSE StatusOf(c)' = StatusOf(c)
    BY <1>4, ProvisionMoves
  <2>2. old \in AnyCredential /\ (old.version = 0 \/ Ours(old))
    BY <1>0 DEF OursRequest, CredentialInv, RequestsInv, Requested
  <2>3. old.version \in Nat /\ created.version \in Nat
    BY <2>2, CredentialAssumption, CredentialFacts DEF AnyCredential, Versions
  <2> HIDE DEF old
  <2>4. CASE high = created
    <3>1. low.attempt = old.attempt /\ v <= old.version /\ old.version # 0
      BY <1>1, <1>2, <2>1, <2>3, <2>4
    <3>2. low # created
      BY <1>1, <1>2, <2>4
    <3>3. CASE low = old
      BY <1>2, <2>1, <3>2, <3>3
    <3>4. CASE low # old
      <4>1. old \in Credentials /\ StatusOf(old) # "none"
        BY <2>2, <3>1 DEF Ours, None
      <4>2. old.attempt = a /\ old.version \in Versions
        BY <1>2, <3>1, <4>1, CredentialFacts
      <4>3. v # old.version
        BY <1>2, <3>1, <3>4, <4>1 DEF Credentials
      <4>4. v < old.version
        BY <1>2, <2>3, <3>1, <4>3
      <4>5. status[a][old.version] # "none"
        BY <4>1, <4>2 DEF StatusOf
      <4>6. StatusOf(low) \in {"retired", "revoked", "active"}
        BY <1>1, <1>2, <4>2, <4>4, <4>5 DEF VersionsInv
      <4> QED BY <1>2, <2>1, <3>2, <3>4, <4>6
    <3> QED BY <3>3, <3>4
  <2>5. CASE high # created
    <3>1. StatusOf(high) # "none"
      BY <1>1, <1>2, <2>1, <2>5
    <3>2. low # created
      BY <1>3, <2>1, <3>1
    <3> QED BY <1>2, <1>3, <2>1, <3>1, <3>2
  <2> QED BY <2>4, <2>5
<1>5. CASE \A q \in Requests : SaveProvision(q) => UNCHANGED status
  <2>1. ASSUME UNCHANGED status PROVE StatusOf(low)' \in {"retired", "revoked", "active"}
    BY <1>1, <1>2, <1>3, <2>1
  <2>2. CASE ~ UNCHANGED status
    <3>1. StatusOf(high) # "none"
      <4>1. ASSUME StatusOf(high) = "none" PROVE FALSE
        <5>1. StatusOf(high)' # StatusOf(high)
          BY <1>1, <1>2, <4>1
        <5>2. \/ \E q \in Requests : request[q].cred = high
              \/ admin # NoAdmin /\ admin.cred = high
          BY <1>2, <1>5, <2>2, <4>1, <5>1, StatusMoves
        <5>3. high.version # 0
          BY <1>1, <1>2
        <5> QED BY <1>0, <4>1, <5>2, <5>3 DEF OursRequest, Ours, OursInv, None
      <4> QED BY <4>1
    <3>2. StatusOf(low) \in {"retired", "revoked", "active"}
      BY <1>3, <3>1
    <3>3. CASE StatusOf(low)' = StatusOf(low)
      BY <1>2, <3>2, <3>3
    <3>4. CASE StatusOf(low)' # StatusOf(low)
      BY <1>2, <1>5, <2>2, <3>2, <3>4, StatusMoves
    <3> QED BY <3>3, <3>4
  <2> QED BY <1>2, <2>1, <2>2
<1> QED BY <1>2, <1>4, <1>5

LEMMA LedgerInit == Init => OursInv /\ VersionsInv
<1> SUFFICES ASSUME Init PROVE OursInv /\ VersionsInv
  OBVIOUS
<1>1. /\ KA = None /\ KC = None /\ FA = None /\ FC = None
      /\ boot.todo = << >> /\ confirmed = {} /\ admin = NoAdmin
      /\ \A q \in Requests : request[q].cred = None
      /\ identity \in Nat /\ None.attempt = 0 /\ None.version = 0 /\ 0 <= identity
  BY DEF Init, KA, KC, FA, FC, Resting, NoRequest, None
<1>2. OursInv
  BY <1>1 DEF OursInv, Places, Ours, OursRequest
<1>3. VersionsInv
  BY DEF Init, VersionsInv
<1> QED BY <1>2, <1>3

-----------------------------------------------------------------------------
(* What a terminal of one identity holds.  Live records of it are in the   *)
(* fallback table; a candidate in the keystore is the same, or older and   *)
(* dead, and nothing alive is staged beside an active record.              *)
Mine(c) == c.attempt = identity

NoneMine == \A c \in Places : ~ Mine(c)

AllMine == \A c \in Places : c = None \/ Mine(c)

Over(c) == \A d \in Credentials : d = KC => d = c \/ (d.version < c.version /\ Dead(d))

LiveIsHeld == \A c \in Credentials : Mine(c) /\ Live(c) => FA = c \/ FC = c

CandidatesAgree == \A c \in Credentials : c = FC /\ Mine(c) => Over(c)

ActiveIsLast ==
  \A c, d \in Credentials : c = FA /\ Mine(c) /\ (d = KC \/ d = FC) => d = c \/ Dead(d)

StoresHeld ==
  /\ NoneMine \/ AllMine
  /\ LiveIsHeld
  /\ CandidatesAgree
  /\ ActiveIsLast

(* A provisioning is awaited with an empty fallback table; a candidate is  *)
(* confirmed while it is staged there.                                     *)
Provisioning ==
  boot.point = "provision" =>
    LET r == request[boot.request] IN
    /\ AllMine /\ FA = None /\ FC = None
    /\ r.kind = "provision" /\ Mine(r.cred)
    /\ \A c \in Credentials : r.point = "answered" /\ r.answer = "secret" /\ r.cred = c => Over(c)

Confirming == boot.point = "confirm" => FC = boot.cred

(* The writes that are left, and what is held while they are made.         *)
Pa(c) == Write("preferred", "active", c)
Pc(c) == Write("preferred", "candidate", c)
Fa(c) == Write("fallback", "active", c)
Fc(c) == Write("fallback", "candidate", c)

Clearing ==
  /\ NoneMine
  /\ \/ boot.todo \in {<<Pa(None), Pc(None), Fa(None), Fc(None)>>,
                       <<Pc(None), Fa(None), Fc(None)>>, <<Fa(None), Fc(None)>>}
     \/ boot.todo = <<Fc(None)>> /\ FA = None
     \/ boot.todo = << >> /\ FA = None /\ FC = None

StagingOf(c) ==
  /\ AllMine /\ Mine(c) /\ Over(c)
  /\ FA = None
  /\ \/ boot.todo \in {<<Pc(c), Fc(c)>>, <<Fc(c)>>} /\ FC = None
     \/ boot.todo = << >> /\ FC = c

CommittingOf(c) ==
  /\ Mine(c)
  /\ \/ /\ boot.todo \in {<<Pc(c), Fc(c), Pa(c), Pc(None), Fa(c), Fc(None)>>,
                          <<Fc(c), Pa(c), Pc(None), Fa(c), Fc(None)>>,
                          <<Pa(c), Pc(None), Fa(c), Fc(None)>>,
                          <<Pc(None), Fa(c), Fc(None)>>, <<Fa(c), Fc(None)>>}
        /\ FC = c
     \/ boot.todo = <<Fc(None)>> /\ FC = c /\ FA = c
     \/ boot.todo = << >>

Writing ==
  boot.point = "writing" =>
    /\ boot.next = "absent" => Clearing
    /\ boot.next = "verify" => \E c \in Credentials : c = boot.cred /\ StagingOf(c)
    /\ boot.next = "idle" => \E c \in confirmed : CommittingOf(c)

BootHeld ==
  /\ boot.point = "missing" => FC = None
  /\ boot.point = "absent" => FA = None /\ FC = None
  /\ Provisioning
  /\ Confirming
  /\ Writing

HeldInv == ~ mixed => StoresHeld /\ BootHeld

-----------------------------------------------------------------------------
LEMMA Carried ==
  ASSUME LedgerInv, [Next]_vars
  PROVE  /\ \A c : Dead(c) => Dead(c)'
         /\ \A c : Live(c)' => Live(c) \/ (boot'.point = "confirm" /\ boot'.cred = c)
<1>1. ASSUME NEW c, Dead(c) PROVE Dead(c)'
  BY <1>1, DeadStays DEF LedgerInv
<1>2. ASSUME NEW c, Live(c)' PROVE Live(c) \/ (boot'.point = "confirm" /\ boot'.cred = c)
  <2>1. ASSUME NEW q \in Requests, Send(q, "confirm", c)
        PROVE  boot'.point = "confirm" /\ boot'.cred = c
    BY <2>1 DEF Send, Resting
  <2> QED BY <1>2, <2>1, LiveMoves DEF LedgerInv
<1> QED BY <1>1, <1>2

LEMMA OverKept ==
  ASSUME LedgerInv, [Next]_vars, NEW c \in Credentials, Over(c), KC' \in {KC, c, None}
  PROVE  Over(c)'
<1>1. \A d : Dead(d) => Dead(d)'
  BY Carried
<1> QED BY <1>1, CredentialFacts DEF Over

LEMMA LedgerFacts ==
  ASSUME LedgerInv
  PROVE  /\ \A c \in Places : c \in Credentials \cup {None}
         /\ KA # None => KA \in confirmed
         /\ FA # None => FA \in confirmed
         /\ \A c \in Credentials : c.version \in Nat /\ c.version > 0 /\ c # None
         /\ \A c \in Credentials : c \in confirmed => Live(c) /\ ~ Dead(c)
         /\ None.version = 0 /\ ~ Mine(None)
         /\ identity \in Attempts
         /\ StoresInv
<1>1. StoresInv /\ RestInv
  BY DEF LedgerInv, CredentialInv
<1>2. \A c \in Credentials : c.version \in Nat /\ c.version > 0 /\ c # None
  BY CredentialFacts, CredentialAssumption DEF Versions
<1>3. None.version = 0 /\ ~ Mine(None)
  BY <1>1, CredentialAssumption DEF None, Mine, RestInv, Attempts
<1> QED BY <1>1, <1>2, <1>3, PlaceTypes DEF Live, Dead, RestInv

(* The stores stay, and nothing but what they hold is asked for.           *)
LEMMA SamePlaces ==
  ASSUME LedgerInv, StoresHeld, [Next]_vars, UNCHANGED <<identity, KA, KC, FA, FC>>,
         boot'.point = "confirm" => FC' = boot'.cred
  PROVE  StoresHeld'
<1>1. /\ \A c : Dead(c) => Dead(c)'
      /\ \A c : Live(c)' => Live(c) \/ FC' = c
  BY Carried
<1>2. \A c : Mine(c)' <=> Mine(c)
  BY DEF Mine
<1>3. (NoneMine \/ AllMine)'
  BY <1>2 DEF StoresHeld, NoneMine, AllMine, Places
<1>4. LiveIsHeld'
  BY <1>1, <1>2 DEF StoresHeld, LiveIsHeld
<1>5. CandidatesAgree'
  BY <1>2, OverKept DEF StoresHeld, CandidatesAgree
<1>6. ActiveIsLast'
  BY <1>1, <1>2 DEF StoresHeld, ActiveIsLast
<1> QED BY <1>3, <1>4, <1>5, <1>6 DEF StoresHeld

(* The candidates are read, and what was read may be asked for.  A         *)
(* candidate of this identity in the fallback table is what is read.       *)
LEMMA CandidatesAreRead ==
  ASSUME LedgerInv, StoresHeld, [Next]_vars, UNCHANGED identity,
         NEW r \in Reads("candidate"), stores' = r.stores,
         boot'.point = "confirm" => boot'.cred = r.cred
  PROVE  /\ StoresHeld'
         /\ FC' = r.cred
         /\ Mine(FC) => r.cred = FC
<1>0. /\ KA' = KA /\ FA' = FA
      /\ \/ r.cred = FC /\ KC' = KC /\ FC' = FC
         \/ r.cred = HigherVersion(KC, FC) /\ KC' = r.cred /\ FC' = r.cred
  BY LedgerFacts, ReadCandidates
<1>1. /\ \A c : Dead(c) => Dead(c)'
      /\ \A c : Live(c)' => Live(c) \/ FC' = c
  BY <1>0, Carried
<1>2. \A c : Mine(c)' <=> Mine(c)
  BY DEF Mine
<1>3. CASE r.cred = FC /\ KC' = KC /\ FC' = FC
  BY <1>0, <1>3, SamePlaces
<1>4. CASE r.cred = HigherVersion(KC, FC) /\ KC' = r.cred /\ FC' = r.cred
  <2>1. r.cred \in {KC, FC}
    BY <1>4 DEF HigherVersion
  <2>2. ASSUME Mine(FC) PROVE r.cred = FC
    <3>1. FC \in Credentials /\ KC \in Credentials \cup {None}
      BY <2>2, LedgerFacts DEF Places
    <3>2. KC = None \/ KC = FC \/ KC.version < FC.version
      BY <2>2, <3>1 DEF StoresHeld, CandidatesAgree, Over
    <3>3. KC.version \in Nat /\ FC.version \in Nat /\ FC.version > 0 /\ None.version = 0
      BY <3>1, LedgerFacts
    <3> QED BY <1>4, <3>2, <3>3 DEF HigherVersion
  <2>3. (NoneMine \/ AllMine)'
    BY <1>0, <1>2, <1>4, <2>1 DEF StoresHeld, NoneMine, AllMine, Places
  <2>4. LiveIsHeld'
    BY <1>0, <1>1, <1>2, <1>4, <2>2 DEF StoresHeld, LiveIsHeld
  <2>5. CandidatesAgree'
    BY <1>4 DEF CandidatesAgree, Over
  <2>6. ActiveIsLast'
    BY <1>0, <1>1, <1>2, <1>4, <2>1 DEF StoresHeld, ActiveIsLast
  <2> QED BY <1>4, <2>2, <2>3, <2>4, <2>5, <2>6 DEF StoresHeld
<1> QED BY <1>0, <1>3, <1>4

(* The active records are read while no candidate is staged.               *)
LEMMA ActivesAreRead ==
  ASSUME LedgerInv, StoresHeld, [Next]_vars, UNCHANGED identity, FC = None,
         NEW r \in Reads("active"), stores' = r.stores, boot'.point # "confirm"
  PROVE  /\ StoresHeld'
         /\ FC' = None /\ FA' = r.cred
         /\ r.cred # None /\ ~ Mine(r.cred) => NoneMine'
<1>0. /\ KC' = KC /\ FC' = FC
      /\ \/ r.cred = FA /\ KA' = KA /\ FA' = FA
         \/ r.cred = HigherVersion(KA, FA) /\ KA' = r.cred /\ FA' = r.cred
  BY LedgerFacts, ReadActives
<1>1. /\ \A c : Dead(c) => Dead(c)'
      /\ \A c : Live(c)' => Live(c)
  BY Carried
<1>2. \A c : Mine(c)' <=> Mine(c)
  BY DEF Mine
<1>3. r.cred \in {KA, FA} /\ r.cred \in Places
  BY <1>0 DEF HigherVersion, Places
<1>4. (NoneMine \/ AllMine)' /\ (r.cred # None /\ ~ Mine(r.cred) => NoneMine')
  BY <1>0, <1>2, <1>3 DEF StoresHeld, NoneMine, AllMine, Places
<1>5. CASE r.cred = FA /\ KA' = KA /\ FA' = FA
  BY <1>0, <1>4, <1>5, SamePlaces
<1>6. CASE r.cred = HigherVersion(KA, FA) /\ KA' = r.cred /\ FA' = r.cred
  <2>1. KA \in Credentials \cup {None} /\ FA \in Credentials \cup {None}
    BY LedgerFacts DEF Places
  <2>2. ASSUME Mine(KA) PROVE KA = FA
    <3>1. KA \in Credentials /\ KA # None /\ KA \in confirmed
      BY <2>1, <2>2, LedgerFacts
    <3> QED BY <2>2, <3>1, LedgerFacts DEF StoresHeld, LiveIsHeld
  <2>3. ASSUME Mine(FA) PROVE r.cred = FA
    <3>1. FA \in Credentials /\ FA \in Places /\ KA \in Places
      BY <2>1, <2>3, LedgerFacts DEF Places
    <3>2. KA = None \/ KA = FA
      BY <2>2, <2>3, <3>1 DEF StoresHeld, NoneMine, AllMine
    <3>3. None.version = 0 /\ FA.version \in Nat /\ FA.version > 0
      BY <3>1, LedgerFacts
    <3> QED BY <1>6, <3>2, <3>3 DEF HigherVersion
  <2>4. Mine(r.cred) => r.cred = FA
    BY <1>3, <2>2
  <2>5. LiveIsHeld'
    BY <1>0, <1>1, <1>2, <1>6, <2>3, LedgerFacts DEF StoresHeld, LiveIsHeld
  <2>6. CandidatesAgree'
    BY <1>0, <1>2, OverKept DEF StoresHeld, CandidatesAgree
  <2>7. ActiveIsLast'
    BY <1>0, <1>1, <1>2, <1>6, <2>4 DEF StoresHeld, ActiveIsLast
  <2> QED BY <1>0, <1>4, <1>6, <2>5, <2>6, <2>7 DEF StoresHeld
<1> QED BY <1>0, <1>5, <1>6

(* The first of the writes that are left is made, or fails in the keystore.*)
LEMMA Wrote ==
  ASSUME LedgerInv, WriteStore, NEW s \in {"preferred", "fallback"}, NEW a \in Areas, NEW c,
         Head(boot.todo) = Write(s, a, c)
  PROVE  /\ KA' = KA \/ (s = "preferred" /\ a = "active" /\ KA' = c)
         /\ KC' = KC \/ (s = "preferred" /\ a = "candidate" /\ KC' = c)
         /\ FA' = IF s = "fallback" /\ a = "active" THEN c ELSE FA
         /\ FC' = IF s = "fallback" /\ a = "candidate" THEN c ELSE FC
<1> DEFINE w == Head(boot.todo)
<1>1. /\ boot.todo # << >>
      /\ \/ stores' = Done(w)
         \/ w.store = "preferred" /\ stores' = stores
    BY DEF WriteStore
<1>2. boot.todo \in Seq(OurWrites) /\ StoresInv
  BY DEF LedgerInv, OursInv, CredentialInv
<1>3. w \in Writes /\ w.store = s /\ w.area = a /\ w.cred = c
  BY <1>1, <1>2 DEF OurWrites, Write
<1> HIDE DEF w
<1>4. CASE stores' = Done(w)
  BY <1>2, <1>3, <1>4, WritePlaces DEF Areas
<1>5. CASE w.store = "preferred" /\ stores' = stores
  BY <1>3, <1>5 DEF KA, KC, FA, FC
<1> QED BY <1>1, <1>4, <1>5

LEMMA WriteKeeps ==
  ASSUME LedgerInv, WriteStore
  PROVE  /\ UNCHANGED <<identity, confirmed, mixed>>
         /\ boot.point = "writing" /\ boot'.point = "writing"
         /\ boot'.next = boot.next /\ boot'.cred = boot.cred
         /\ boot'.todo = Tail(boot.todo) /\ boot.todo # << >>
         /\ \A c : Mine(c)' <=> Mine(c)
         /\ \A c : Live(c)' => Live(c)
         /\ \A c : Dead(c) => Dead(c)'
<1>1. /\ UNCHANGED <<identity, confirmed, mixed>> /\ boot.point = "writing"
      /\ boot' = [boot EXCEPT !.todo = Tail(@)] /\ boot.todo # << >> /\ boot \in Boots
  BY DEF WriteStore, history, LedgerInv, CredentialInv, BootInv
<1>2. /\ boot'.point = "writing" /\ boot'.next = boot.next /\ boot'.cred = boot.cred
      /\ boot'.todo = Tail(boot.todo)
  BY <1>1 DEF Boots
<1>3. Terminal
  BY DEF Terminal
<1> QED BY <1>1, <1>2, <1>3, Carried DEF Mine, Next

(* Clearing the stores of another identity.                                *)
LEMMA ClearingStep ==
  ASSUME LedgerInv, StoresHeld, Clearing, WriteStore
  PROVE  StoresHeld' /\ Clearing'
<1> DEFINE todo == boot.todo
<1>0. /\ todo # << >> /\ boot'.todo = Tail(todo)
      /\ \A c : Mine(c)' <=> Mine(c)
      /\ \A c : Live(c)' => Live(c)
  BY WriteKeeps
<1>1. \E s \in {"preferred", "fallback"}, a \in Areas : Head(todo) = Write(s, a, None)
  <2>1. Head(todo) \in {Pa(None), Pc(None), Fa(None), Fc(None)}
    BY <1>0 DEF Clearing
  <2> QED BY <2>1 DEF Pa, Pc, Fa, Fc, Areas
<1>2. Places' \subseteq Places \cup {None}
  BY <1>1, Wrote DEF Places
<1>3. NoneMine'
  BY <1>0, <1>2, LedgerFacts DEF Clearing, NoneMine
<1>4. StoresHeld'
  <2>1. \A c : Mine(c) => KA # c /\ KC # c /\ FA # c /\ FC # c
    BY DEF Clearing, NoneMine, Places
  <2>2. \A c : Mine(c) => FA' # c /\ FC' # c
    BY <1>0, <1>3 DEF NoneMine, Places
  <2>3. LiveIsHeld'
    BY <1>0, <2>1 DEF StoresHeld, LiveIsHeld
  <2>4. CandidatesAgree' /\ ActiveIsLast'
    BY <1>0, <2>2 DEF CandidatesAgree, ActiveIsLast
  <2> QED BY <1>3, <2>3, <2>4 DEF StoresHeld
<1>5. Clearing'
  <2>1. \/ todo = <<Pa(None), Pc(None), Fa(None), Fc(None)>>
        \/ todo = <<Pc(None), Fa(None), Fc(None)>>
        \/ todo = <<Fa(None), Fc(None)>>
        \/ todo = <<Fc(None)>> /\ FA = None
    BY <1>0 DEF Clearing
  <2>2. CASE todo = <<Pa(None), Pc(None), Fa(None), Fc(None)>>
    <3>1. boot'.todo = <<Pc(None), Fa(None), Fc(None)>>
      BY <1>0, <2>2
    <3> QED BY <1>3, <3>1 DEF Clearing, Pa, Pc, Fa, Fc, Write
  <2>3. CASE todo = <<Pc(None), Fa(None), Fc(None)>>
    <3>1. boot'.todo = <<Fa(None), Fc(None)>>
      BY <1>0, <2>3
    <3> QED BY <1>3, <3>1 DEF Clearing, Pa, Pc, Fa, Fc, Write
  <2>4. CASE todo = <<Fa(None), Fc(None)>>
    <3>1. boot'.todo = <<Fc(None)>> /\ Head(todo) = Fa(None)
      BY <1>0, <2>4
    <3>2. FA' = None
      BY <3>1, Wrote DEF Fa, Areas
    <3> QED BY <1>3, <3>1, <3>2 DEF Clearing, Fc, Write
  <2>5. CASE todo = <<Fc(None)>> /\ FA = None
    <3>1. boot'.todo = << >> /\ Head(todo) = Fc(None)
      BY <1>0, <2>5
    <3>2. FC' = None /\ FA' = None
      BY <2>5, <3>1, Wrote DEF Fc, Areas
    <3> QED BY <1>3, <3>1, <3>2 DEF Clearing
  <2> QED BY <2>1, <2>2, <2>3, <2>4, <2>5
<1> QED BY <1>4, <1>5

(* Staging what was provisioned.                                           *)
LEMMA StagingStep ==
  ASSUME LedgerInv, StoresHeld, NEW c \in Credentials, StagingOf(c), WriteStore
  PROVE  StoresHeld' /\ StagingOf(c)'
<1> DEFINE todo == boot.todo
<1>0. /\ todo # << >> /\ boot'.todo = Tail(todo) /\ Terminal
      /\ \A d : Mine(d)' <=> Mine(d)
      /\ \A d : Live(d)' => Live(d)
  BY WriteKeeps DEF Terminal
<1>1. /\ AllMine /\ Mine(c) /\ Over(c) /\ FA = None /\ FC = None
      /\ todo = <<Pc(c), Fc(c)>> \/ todo = <<Fc(c)>>
  BY <1>0 DEF StagingOf
<1>2. /\ KA' = KA /\ FA' = None /\ KC' \in {KC, c}
      /\ \/ FC' = None /\ boot'.todo = <<Fc(c)>>
         \/ FC' = c /\ boot'.todo = << >>
  <2>1. CASE todo = <<Pc(c), Fc(c)>>
    <3>1. boot'.todo = <<Fc(c)>> /\ Head(todo) = Pc(c)
      BY <1>0, <2>1
    <3> QED BY <1>1, <3>1, Wrote DEF Pc, Areas
  <2>2. CASE todo = <<Fc(c)>>
    <3>1. boot'.todo = << >> /\ Head(todo) = Fc(c)
      BY <1>0, <2>2
    <3> QED BY <1>1, <3>1, Wrote DEF Fc, Areas
  <2> QED BY <1>1, <2>1, <2>2
<1>3. Over(c)'
  BY <1>0, <1>1, <1>2, OverKept DEF Next
<1>4. AllMine'
  BY <1>0, <1>1, <1>2 DEF AllMine, Places
<1>5. LiveIsHeld'
  <2>1. \A d \in Credentials : ~ (Mine(d) /\ Live(d))
    BY <1>1, LedgerFacts DEF StoresHeld, LiveIsHeld
  <2> QED BY <1>0, <2>1 DEF LiveIsHeld
<1>6. CandidatesAgree'
  BY <1>2, <1>3, CredentialFacts DEF CandidatesAgree
<1>7. ActiveIsLast'
  BY <1>2, CredentialFacts DEF ActiveIsLast
<1> QED BY <1>0, <1>1, <1>2, <1>3, <1>4, <1>5, <1>6, <1>7 DEF StoresHeld, StagingOf, Fc, Write

(* Storing what was confirmed, as candidate and then as active record.     *)
LEMMA CommittingStep ==
  ASSUME LedgerInv, StoresHeld, NEW c \in confirmed, CommittingOf(c), WriteStore
  PROVE  StoresHeld' /\ CommittingOf(c)'
<1> DEFINE todo == boot.todo
<1>0. /\ todo # << >> /\ boot'.todo = Tail(todo) /\ Terminal
      /\ \A d : Mine(d)' <=> Mine(d)
      /\ \A d : Live(d)' => Live(d)
      /\ \A d : Dead(d) => Dead(d)'
  BY WriteKeeps DEF Terminal
<1>1. c \in Credentials /\ Live(c) /\ ~ Dead(c)
  BY LedgerFacts DEF LedgerInv, CredentialInv, RowsInv
<1>2. /\ Mine(c) /\ FC = c
      /\ \/ todo = <<Pc(c), Fc(c), Pa(c), Pc(None), Fa(c), Fc(None)>>
         \/ todo = <<Fc(c), Pa(c), Pc(None), Fa(c), Fc(None)>>
         \/ todo = <<Pa(c), Pc(None), Fa(c), Fc(None)>>
         \/ todo = <<Pc(None), Fa(c), Fc(None)>>
         \/ todo = <<Fa(c), Fc(None)>>
         \/ todo = <<Fc(None)>> /\ FA = c
  BY <1>0 DEF CommittingOf
<1>3. AllMine /\ Over(c)
  <2>1. c \in Places
    BY <1>2 DEF Places
  <2> QED BY <1>1, <1>2, <2>1 DEF StoresHeld, NoneMine, CandidatesAgree
<1>4. /\ \A d \in Credentials : d = FA /\ Mine(d) => d = c
      /\ \A d \in Credentials : d = KC => d = c \/ Dead(d)
  BY <1>1, <1>2, <1>3 DEF StoresHeld, ActiveIsLast, Over
(* Every write leaves each place as it is, gives it c or empties it, and   *)
(* the fallback table holds c.                                             *)
<1>5. /\ KA' \in {KA, c} /\ KC' \in {KC, c, None} /\ FA' \in {FA, c}
      /\ \/ FC' = c
         \/ FC' = None /\ FA' = c
      /\ CommittingOf(c)'
  <2>1. CASE todo = <<Pc(c), Fc(c), Pa(c), Pc(None), Fa(c), Fc(None)>>
    <3>1. boot'.todo = <<Fc(c), Pa(c), Pc(None), Fa(c), Fc(None)>> /\ Head(todo) = Pc(c)
      BY <1>0, <2>1
    <3>2. KA' = KA /\ KC' \in {KC, c} /\ FA' = FA /\ FC' = c
      BY <1>2, <3>1, Wrote DEF Pc, Areas
    <3> QED BY <1>0, <1>2, <3>1, <3>2 DEF CommittingOf, Pa, Pc, Fa, Fc, Write
  <2>2. CASE todo = <<Fc(c), Pa(c), Pc(None), Fa(c), Fc(None)>>
    <3>1. boot'.todo = <<Pa(c), Pc(None), Fa(c), Fc(None)>> /\ Head(todo) = Fc(c)
      BY <1>0, <2>2
    <3>2. KA' = KA /\ KC' = KC /\ FA' = FA /\ FC' = c
      BY <3>1, Wrote DEF Fc, Areas
    <3> QED BY <1>0, <1>2, <3>1, <3>2 DEF CommittingOf, Pa, Pc, Fa, Fc, Write
  <2>3. CASE todo = <<Pa(c), Pc(None), Fa(c), Fc(None)>>
    <3>1. boot'.todo = <<Pc(None), Fa(c), Fc(None)>> /\ Head(todo) = Pa(c)
      BY <1>0, <2>3
    <3>2. KA' \in {KA, c} /\ KC' = KC /\ FA' = FA /\ FC' = c
      BY <1>2, <3>1, Wrote DEF Pa, Areas
    <3> QED BY <1>0, <1>2, <3>1, <3>2 DEF CommittingOf, Pa, Pc, Fa, Fc, Write
  <2>4. CASE todo = <<Pc(None), Fa(c), Fc(None)>>
    <3>1. boot'.todo = <<Fa(c), Fc(None)>> /\ Head(todo) = Pc(None)
      BY <1>0, <2>4
    <3>2. KA' = KA /\ KC' \in {KC, None} /\ FA' = FA /\ FC' = c
      BY <1>2, <3>1, Wrote DEF Pc, Areas
    <3> QED BY <1>0, <1>2, <3>1, <3>2 DEF CommittingOf, Pa, Pc, Fa, Fc, Write
  <2>5. CASE todo = <<Fa(c), Fc(None)>>
    <3>1. boot'.todo = <<Fc(None)>> /\ Head(todo) = Fa(c)
      BY <1>0, <2>5
    <3>2. KA' = KA /\ KC' = KC /\ FA' = c /\ FC' = c
      BY <1>2, <3>1, Wrote DEF Fa, Areas
    <3> QED BY <1>0, <1>2, <3>1, <3>2 DEF CommittingOf, Pa, Pc, Fa, Fc, Write
  <2>6. CASE todo = <<Fc(None)>> /\ FA = c
    <3>1. boot'.todo = << >> /\ Head(todo) = Fc(None)
      BY <1>0, <2>6
    <3>2. KA' = KA /\ KC' = KC /\ FA' = c /\ FC' = None
      BY <2>6, <3>1, Wrote DEF Fc, Areas
    <3> QED BY <1>0, <1>2, <2>6, <3>1, <3>2 DEF CommittingOf
  <2> QED BY <1>2, <2>1, <2>2, <2>3, <2>4, <2>5, <2>6
<1>6. AllMine'
  BY <1>0, <1>2, <1>3, <1>5 DEF AllMine, Places
<1>7. LiveIsHeld'
  <2>1. \A d \in Credentials : Mine(d) /\ Live(d) => d = c
    BY <1>2, <1>4 DEF StoresHeld, LiveIsHeld
  <2> QED BY <1>0, <1>5, <2>1 DEF LiveIsHeld
<1>8. CandidatesAgree'
  <2>1. Over(c)'
    BY <1>0, <1>1, <1>3, <1>5, OverKept DEF Next
  <2> QED BY <1>5, <2>1, CredentialFacts DEF CandidatesAgree
<1>9. ActiveIsLast'
  BY <1>0, <1>4, <1>5, CredentialFacts DEF ActiveIsLast
<1> QED BY <1>5, <1>6, <1>7, <1>8, <1>9 DEF StoresHeld

LEMMA StageThenCommit ==
  ASSUME NEW c \in Credentials
  PROVE  Stage(c) \o Commit(c) = <<Pc(c), Fc(c), Pa(c), Pc(None), Fa(c), Fc(None)>>
<1> DEFINE A == <<Pc(c), Fc(c)>>
           B == <<Pa(c), Pc(None), Fa(c), Fc(None)>>
           AB == <<Pc(c), Fc(c), Pa(c), Pc(None), Fa(c), Fc(None)>>
<1>0. \A s \in {"preferred", "fallback"}, a \in Areas, d \in {c, None} : Write(s, a, d) \in Writes
  BY DEF Write, Writes
<1>1. /\ Pc(c) \in Writes /\ Fc(c) \in Writes /\ Pa(c) \in Writes
      /\ Pc(None) \in Writes /\ Fa(c) \in Writes /\ Fc(None) \in Writes
  BY <1>0 DEF Pc, Fc, Pa, Fa, Areas
<1>2. A \in Seq(Writes) /\ Len(A) = 2 /\ A[1] = Pc(c) /\ A[2] = Fc(c)
  BY <1>1
<1>3. /\ B \in Seq(Writes) /\ Len(B) = 4
      /\ B[1] = Pa(c) /\ B[2] = Pc(None) /\ B[3] = Fa(c) /\ B[4] = Fc(None)
  BY <1>1
<1>4. /\ AB \in Seq(Writes) /\ Len(AB) = 6
      /\ AB[1] = Pc(c) /\ AB[2] = Fc(c) /\ AB[3] = Pa(c)
      /\ AB[4] = Pc(None) /\ AB[5] = Fa(c) /\ AB[6] = Fc(None)
  BY <1>1
<1>5. Stage(c) = A /\ Commit(c) = B
  BY DEF Stage, Commit, Pc, Fc, Pa, Fa
<1> HIDE DEF A, B, AB
<1>6. /\ A \o B \in Seq(Writes) /\ Len(A \o B) = 6
      /\ \A i \in 1..6 : (A \o B)[i] = IF i <= 2 THEN A[i] ELSE B[i - 2]
  <2>1. /\ A \o B \in Seq(Writes) /\ Len(A \o B) = Len(A) + Len(B)
        /\ \A i \in 1..Len(A) + Len(B) :
             (A \o B)[i] = IF i <= Len(A) THEN A[i] ELSE B[i - Len(A)]
    BY <1>2, <1>3, ConcatProperties, Zenon
  <2>2. Len(A) + Len(B) = 6 /\ Len(A) = 2
    BY <1>2, <1>3
  <2>3. Len(A \o B) = 6
    BY <2>1, <2>2
  <2> QED BY <2>1, <2>2, <2>3, Zenon
<1>7. \A i \in 1..6 : (A \o B)[i] = AB[i]
  <2>1. (A \o B)[1] = AB[1] /\ (A \o B)[2] = AB[2]
    BY <1>2, <1>4, <1>6
  <2>2. (A \o B)[3] = B[1] /\ (A \o B)[4] = B[2] /\ (A \o B)[5] = B[3] /\ (A \o B)[6] = B[4]
    BY <1>6
  <2>3. \A i \in 1..6 : i \in {1, 2, 3, 4, 5, 6}
    OBVIOUS
  <2> QED BY <1>3, <1>4, <2>1, <2>2, <2>3
<1>8. A \o B = AB
  BY <1>4, <1>6, <1>7, SeqEqual
<1> QED BY <1>5, <1>8 DEF AB

(* A candidate of the fallback table is read and asked for.                *)
LEMMA ConfirmationSent ==
  ASSUME LedgerInv, StoresHeld, [Next]_vars, UNCHANGED identity,
         NEW r \in Reads("candidate"), stores' = r.stores,
         NEW q \in Requests, Send(q, "confirm", r.cred)
  PROVE  StoresHeld' /\ BootHeld'
<1>1. boot'.point = "confirm" /\ boot'.cred = r.cred
  BY DEF Send, Resting
<1>2. StoresHeld' /\ FC' = r.cred
  BY <1>1, CandidatesAreRead
<1> QED BY <1>1, <1>2 DEF BootHeld, Provisioning, Confirming, Writing

LEMMA TerminalHeld ==
  ASSUME LedgerInv, HeldInv, Terminal, ~ mixed'
  PROVE  StoresHeld' /\ BootHeld'
<1>n. [Next]_vars
  BY DEF Next
<1>i. boot \in Boots /\ BootInv /\ RequestsInv
  BY DEF LedgerInv, CredentialInv, BootInv
<1>m. ~ mixed
  BY DEF Terminal, ReadCandidate, ReadActive, Provision, WriteStore, VerifyStaged, WritesDone,
     ProvisionAnswered, ConfirmAnswered, GiveUp, Restart, Relink, history
<1>h. StoresHeld /\ BootHeld
  BY <1>m DEF HeldInv
<1>r. Resting.point = "idle" /\ Resting.todo = << >> /\ Resting.next = "idle"
  BY DEF Resting
<1>idle. boot'.point = "idle" => BootHeld'
  BY DEF BootHeld, Provisioning, Confirming, Writing
<1>same. ASSUME UNCHANGED <<identity, stores>>, boot'.point # "confirm" PROVE StoresHeld'
  BY <1>n, <1>h, <1>same, SamePlaces DEF KA, KC, FA, FC
<1>1. CASE ReadCandidate
  <2>1. PICK r \in Reads("candidate") :
          /\ stores' = r.stores
          /\ IF r.cred = None
             THEN boot' = [boot EXCEPT !.point = "missing"]
             ELSE \E q \in Requests : Send(q, "confirm", r.cred)
    BY <1>1 DEF ReadCandidate
  <2>2. UNCHANGED identity
    BY <1>1 DEF ReadCandidate
  <2>3. CASE r.cred = None
    <3>1. boot'.point = "missing"
      BY <1>i, <2>1, <2>3 DEF Boots
    <3>2. StoresHeld' /\ FC' = None
      BY <1>n, <1>h, <2>1, <2>2, <2>3, <3>1, CandidatesAreRead
    <3> QED BY <3>1, <3>2 DEF BootHeld, Provisioning, Confirming, Writing
  <2> QED BY <1>n, <1>h, <2>1, <2>2, <2>3, ConfirmationSent
<1>2. CASE ReadActive
  <2>1. PICK r \in Reads("active") :
          /\ stores' = r.stores
          /\ boot' = IF r.cred = None THEN [boot EXCEPT !.point = "absent"]
                     ELSE IF r.cred.attempt = identity THEN Resting
                     ELSE [boot EXCEPT !.point = "writing", !.todo = Clear, !.next = "absent"]
    BY <1>2 DEF ReadActive
  <2>2. UNCHANGED identity /\ FC = None
    BY <1>2, <1>h DEF ReadActive, BootHeld
  <2>3. boot'.point # "confirm"
    BY <1>i, <1>r, <2>1 DEF Boots
  <2>4. /\ StoresHeld' /\ FC' = None /\ FA' = r.cred
        /\ r.cred # None /\ ~ Mine(r.cred) => NoneMine'
    BY <1>n, <1>h, <2>1, <2>2, <2>3, ActivesAreRead
  <2>5. CASE r.cred = None
    <3>1. boot'.point = "absent"
      BY <1>i, <2>1, <2>5 DEF Boots
    <3> QED BY <2>4, <2>5, <3>1 DEF BootHeld, Provisioning, Confirming, Writing
  <2>6. CASE r.cred # None /\ Mine(r.cred)
    <3>1. boot' = Resting
      BY <2>1, <2>6 DEF Mine
    <3> QED BY <1>r, <1>idle, <2>4, <3>1
  <2>7. CASE r.cred # None /\ ~ Mine(r.cred)
    <3>1. boot'.point = "writing" /\ boot'.todo = Clear /\ boot'.next = "absent"
      BY <1>i, <2>1, <2>7 DEF Boots, Mine
    <3>2. Clearing'
      BY <2>4, <2>7, <3>1 DEF Clearing, Clear, Pa, Pc, Fa, Fc, Write
    <3> QED BY <2>4, <3>1, <3>2 DEF BootHeld, Provisioning, Confirming, Writing
  <2> QED BY <2>5, <2>6, <2>7
<1>3. CASE Provision
  <2> DEFINE c == [attempt |-> identity, version |-> 0]
  <2>1. PICK q \in Requests : Send(q, "provision", c)
    BY <1>3 DEF Provision
  <2>2. /\ UNCHANGED <<identity, stores>> /\ FA = None /\ FC = None
        /\ \A s \in DOMAIN stores, area \in Areas : stores[s][area].attempt \in {0, identity}
    BY <1>3, <1>h DEF Provision, BootHeld
  <2>3. /\ boot'.point = "provision" /\ boot'.request = q
        /\ request'[q].kind = "provision" /\ request'[q].cred.attempt = identity
        /\ request'[q].point = "sent"
    BY <1>i, <2>1 DEF Send, Resting, RequestsInv
  <2>4. StoresHeld'
    BY <1>same, <2>2, <2>3
  <2>5. AllMine'
    <3>1. ASSUME NEW d \in Places PROVE d = None \/ d.attempt = identity
      <4>1. d.attempt \in {0, identity} /\ d \in Credentials \cup {None}
        BY <2>2, LedgerFacts DEF Places, KA, KC, FA, FC, StoresInv, Stored, Areas
      <4>2. d \in Credentials => d.attempt # 0
        BY CredentialFacts, CredentialAssumption DEF Attempts
      <4> QED BY <4>1, <4>2
    <3> QED BY <2>2, <3>1 DEF AllMine, Mine, Places, KA, KC, FA, FC
  <2>6. FA' = None /\ FC' = None
    BY <2>2 DEF FA, FC
  <2>7. Provisioning'
    BY <2>2, <2>3, <2>5, <2>6 DEF Provisioning, Mine
  <2> QED BY <2>3, <2>4, <2>7 DEF BootHeld, Confirming, Writing
<1>4. CASE WriteStore
  <2>1. /\ UNCHANGED <<identity, confirmed>>
        /\ boot.point = "writing" /\ boot'.point = "writing"
        /\ boot'.next = boot.next /\ boot'.cred = boot.cred
    BY <1>4, WriteKeeps
  <2>2. CASE boot.next = "absent"
    <3>1. StoresHeld' /\ Clearing'
      BY <1>4, <1>h, <2>1, <2>2, ClearingStep DEF BootHeld, Writing
    <3> QED BY <2>1, <2>2, <3>1 DEF BootHeld, Provisioning, Confirming, Writing
  <2>3. CASE boot.next = "verify"
    <3>1. PICK c \in Credentials : c = boot.cred /\ StagingOf(c)
      BY <1>h, <2>1, <2>3 DEF BootHeld, Writing
    <3>2. StoresHeld' /\ StagingOf(c)'
      BY <1>4, <1>h, <3>1, StagingStep
    <3>3. Writing'
      BY <2>1, <2>3, <3>1, <3>2 DEF Writing
    <3> QED BY <2>1, <3>2, <3>3 DEF BootHeld, Provisioning, Confirming
  <2>4. CASE boot.next = "idle"
    <3>1. PICK c \in confirmed : CommittingOf(c)
      BY <1>h, <2>1, <2>4 DEF BootHeld, Writing
    <3>2. StoresHeld' /\ CommittingOf(c)'
      BY <1>4, <1>h, <3>1, CommittingStep
    <3>3. Writing'
      BY <2>1, <2>4, <3>1, <3>2 DEF Writing
    <3> QED BY <2>1, <3>2, <3>3 DEF BootHeld, Provisioning, Confirming
  <2> QED BY <1>i, <2>2, <2>3, <2>4 DEF Boots
<1>5. CASE VerifyStaged
  <2>1. PICK r \in Reads("candidate") :
          /\ stores' = r.stores
          /\ IF r.cred = boot.cred
             THEN \E q \in Requests : Send(q, "confirm", r.cred)
             ELSE boot' = [Resting EXCEPT
                             !.point = "writing",
                             !.todo = <<Write("preferred", "candidate", None),
                                        Write("fallback", "candidate", None)>>]
    BY <1>5 DEF VerifyStaged
  <2>2. UNCHANGED identity /\ boot.point = "writing" /\ boot.todo = << >> /\ boot.next = "verify"
    BY <1>5 DEF VerifyStaged
  <2>3. FC = boot.cred /\ Mine(FC)
    BY <1>h, <2>2 DEF BootHeld, Writing, StagingOf
  <2>4. r.cred = boot.cred
    <3>1. CASE r.cred # boot.cred
      <4>1. boot'.point # "confirm"
        BY <2>1, <3>1 DEF Resting
      <4> QED BY <1>n, <1>h, <2>1, <2>2, <2>3, <4>1, CandidatesAreRead
    <3> QED BY <3>1
  <2> QED BY <1>n, <1>h, <2>1, <2>2, <2>4, ConfirmationSent
<1>6. CASE WritesDone
  <2>1. /\ boot.point = "writing" /\ boot.todo = << >> /\ boot.next # "verify"
        /\ UNCHANGED <<identity, stores>> /\ boot'.point = boot.next
    BY <1>6 DEF WritesDone, Resting
  <2>2. boot.next \in {"idle", "absent"}
    BY <1>i, <2>1 DEF Boots
  <2>3. StoresHeld'
    BY <1>same, <2>1, <2>2
  <2>4. boot.next = "absent" => FA' = None /\ FC' = None
    BY <1>h, <2>1 DEF BootHeld, Writing, Clearing, FA, FC
  <2> QED BY <2>1, <2>2, <2>3, <2>4 DEF BootHeld, Provisioning, Confirming, Writing
<1>7. CASE ProvisionAnswered
  <2> DEFINE r == request[boot.request]
             c == r.cred
  <2>1. /\ boot.point = "provision" /\ r.point = "answered"
        /\ \/ boot' = Resting
           \/ /\ r.answer = "secret"
              /\ boot' = [Resting EXCEPT !.point = "writing", !.cred = c,
                                         !.todo = Stage(c), !.next = "verify"]
        /\ UNCHANGED <<status, identity, stores>>
    BY <1>7 DEF ProvisionAnswered
  <2>2. boot'.point # "confirm"
    BY <1>r, <2>1, CredentialFacts DEF Boots
  <2>3. StoresHeld'
    BY <1>same, <2>1, <2>2
  <2>4. boot.request \in Requests /\ AllMine /\ FA = None /\ FC = None /\ Mine(c)
    BY <1>i, <1>h, <2>1 DEF BootInv, Staging, BootHeld, Provisioning
  <2>5. CASE r.answer = "secret" /\ boot' # Resting
    <3>1. PICK d \in Credentials : d = c
      BY <1>i, <2>4, <2>5 DEF RequestsInv, Honest
    <3>2. Over(d)
      BY <1>h, <2>1, <2>4, <2>5, <3>1 DEF BootHeld, Provisioning
    <3>3. /\ boot'.point = "writing" /\ boot'.cred = d /\ boot'.next = "verify"
          /\ boot'.todo = Stage(d)
      BY <2>1, <2>5, <3>1 DEF Resting
    <3>4. KC' = KC /\ FA' = None /\ FC' = None /\ AllMine' /\ Mine(d)'
      BY <2>1, <2>4, <3>1 DEF KA, KC, FA, FC, AllMine, Places, Mine
    <3>5. Over(d)'
      BY <1>n, <3>2, <3>4, OverKept
    <3>6. StagingOf(d)'
      BY <3>3, <3>4, <3>5 DEF StagingOf, Stage, Pc, Fc, Write
    <3> QED BY <2>3, <3>3, <3>6 DEF BootHeld, Provisioning, Confirming, Writing
  <2> QED BY <1>r, <1>idle, <2>1, <2>3, <2>5
<1>8. CASE ConfirmAnswered
  <2> DEFINE r == request[boot.request]
             c == boot.cred
  <2>1. /\ boot.point = "confirm" /\ UNCHANGED <<identity, stores, confirmed>>
        /\ \/ boot' = Resting
           \/ /\ r.answer = "active" /\ c.attempt = identity
              /\ boot' = [Resting EXCEPT !.point = "writing", !.todo = Stage(c) \o Commit(c)]
    BY <1>8 DEF ConfirmAnswered
  <2>2. boot'.point # "confirm"
    BY <1>r, <2>1, CredentialFacts DEF Boots
  <2>3. StoresHeld'
    BY <1>same, <2>1, <2>2
  <2>4. CASE boot' # Resting
    <3>1. boot.request \in Requests /\ r.cred = c /\ FC = c /\ c \in Credentials
      BY <1>i, <1>h, <2>1 DEF BootInv, Awaited, BootHeld, Confirming
    <3>2. PICK d \in confirmed : d = c /\ d \in Credentials
      BY <1>i, <2>1, <2>4, <3>1 DEF RequestsInv, Honest
    <3>3. /\ boot'.point = "writing" /\ boot'.next = "idle"
          /\ boot'.todo = Stage(d) \o Commit(d)
      BY <2>1, <2>4, <3>2 DEF Resting
    <3>4. FC' = d /\ Mine(d)' /\ d \in confirmed'
      BY <2>1, <2>4, <3>1, <3>2 DEF FC, Mine
    <3>5. boot'.todo = <<Pc(d), Fc(d), Pa(d), Pc(None), Fa(d), Fc(None)>>
      BY <3>2, <3>3, StageThenCommit
    <3>6. CommittingOf(d)'
      BY <3>4, <3>5 DEF CommittingOf, Pa, Pc, Fa, Fc, Write
    <3> QED BY <2>3, <3>3, <3>4, <3>6 DEF BootHeld, Provisioning, Confirming, Writing
  <2> QED BY <1>r, <1>idle, <2>3, <2>4
<1>9. CASE GiveUp \/ Restart
  <2>1. boot' = Resting /\ UNCHANGED <<identity, stores>>
    BY <1>9 DEF GiveUp, Restart
  <2> QED BY <1>r, <1>idle, <1>same, <2>1
<1>10. CASE Relink
  <2>1. /\ boot' = Resting /\ identity' = identity + 1
        /\ UNCHANGED <<stores, request, confirmed>>
    BY <1>10 DEF Relink, server, history
  <2>2. identity \in Nat /\ identity' = identity + 1
    BY <1>n, <2>1, IdentityGrows DEF LedgerInv
  <2>3. ASSUME NEW c, Ours(c) PROVE ~ Mine(c)'
    <3>1. c.attempt \in Nat /\ c.attempt <= identity
      BY <2>2, <2>3, CredentialFacts, CredentialAssumption DEF Ours, None, Attempts
    <3> QED BY <2>2, <3>1 DEF Mine
  <2>4. NoneMine'
    BY <2>1, <2>3 DEF LedgerInv, OursInv, NoneMine, Places, KA, KC, FA, FC
  <2>5. LiveIsHeld'
    <3>1. ASSUME NEW c \in Credentials, Live(c)' PROVE ~ Mine(c)'
      <4>1. Live(c)
        BY <2>1, <3>1 DEF Live, Asked
      <4>2. CASE c \in confirmed
        BY <2>3, <4>2 DEF LedgerInv, OursInv
      <4>3. CASE Asked(c)
        <5>1. c.attempt <= identity /\ c.attempt \in Nat
          BY <4>3, CredentialFacts, CredentialAssumption
             DEF Asked, LedgerInv, OursInv, OursRequest, Attempts
        <5> QED BY <2>2, <5>1 DEF Mine
      <4> QED BY <4>1, <4>2, <4>3 DEF Live
    <3> QED BY <3>1 DEF LiveIsHeld
  <2>6. CandidatesAgree' /\ ActiveIsLast'
    <3>1. \A c : c = FA' \/ c = FC' => ~ Mine(c)'
      BY <2>4 DEF NoneMine, Places
    <3> QED BY <3>1 DEF CandidatesAgree, ActiveIsLast
  <2> QED BY <1>r, <1>idle, <2>1, <2>4, <2>5, <2>6 DEF StoresHeld
<1> QED BY <1>1, <1>2, <1>3, <1>4, <1>5, <1>6, <1>7, <1>8, <1>9, <1>10 DEF Terminal

(* A version is created for a terminal whose fallback table is empty: what *)
(* its keystore holds of this identity was never sent, and is superseded.  *)
LEMMA CreatedIsOver ==
  ASSUME LedgerInv, StoresHeld, [Next]_vars, AllMine, FA = None, FC = None,
         UNCHANGED <<confirmed, KC>>, boot'.point # "confirm",
         NEW created \in Credentials, Mine(created), StatusOf(created) = "none",
         StatusOf(created)' = "pending"
  PROVE  Over(created)'
<1>0. /\ CredentialInv' /\ VersionsInv' /\ VersionsInv /\ OursInv
      /\ \A c : Live(c)' => Live(c)
  BY CredentialStep, VersionsStep, Carried DEF LedgerInv
<1> SUFFICES ASSUME NEW d \in Credentials, d = KC, d # created
             PROVE  d.version < created.version /\ Dead(d)'
  BY DEF Over
<1>1. /\ Mine(d) /\ StatusOf(d) # "none" /\ d \in Places
  BY <1>0, CredentialFacts DEF AllMine, Places, OursInv, Ours
<1>2. /\ d.attempt = created.attempt /\ d.attempt \in Attempts
      /\ d.version \in Versions /\ created.version \in Versions
      /\ d.version \in Nat /\ created.version \in Nat
      /\ d.version # created.version
  BY <1>1, CredentialFacts, CredentialAssumption DEF Mine, Versions, Credentials
<1>3. ~ (created.version < d.version)
  BY <1>0, <1>1, <1>2 DEF VersionsInv, StatusOf
<1>4. d.version < created.version
  BY <1>2, <1>3
<1>5. StatusOf(d)' \in {"retired", "revoked", "active"}
  BY <1>0, <1>2, <1>4 DEF VersionsInv, StatusOf
<1>6. ~ Live(d)
  BY <1>1, CredentialFacts DEF StoresHeld, LiveIsHeld
<1>7. ~ Live(d)'
  BY <1>0, <1>6
<1>8. d \notin confirmed' /\ ~ Asked(d)'
  BY <1>7 DEF Live
<1>9. StatusOf(d)' # "active"
  BY <1>0, <1>8 DEF CredentialInv, RowsInv
<1> QED BY <1>4, <1>5, <1>8, <1>9 DEF Dead, Asked

(* The server works on the request the terminal waits for.                 *)
LEMMA ProvisioningHeld ==
  ASSUME LedgerInv, StoresHeld, BootHeld, Server
  PROVE  Provisioning'
<1> SUFFICES ASSUME boot'.point = "provision" PROVE Provisioning'
  BY DEF Provisioning
<1>n. [Next]_vars
  BY DEF Next
<1>u. UNCHANGED terminal
  BY DEF Server, ReadProvision, SaveProvision, ReadConfirm, SaveConfirm, AnswerLost, Lapse,
     AdminRead, AdminSave
<1>0. /\ boot' = boot /\ boot.point = "provision"
      /\ UNCHANGED <<identity, KA, KC, FA, FC>>
  BY <1>u DEF terminal, KA, KC, FA, FC
<1> DEFINE q == boot.request
<1>1. /\ q \in Requests /\ request \in [Requests -> Requested]
      /\ \A p \in Requests : Honest(request[p]) /\ request[p] \in Requested
      /\ AllMine /\ FA = None /\ FC = None
      /\ request[q].kind = "provision" /\ request[q].cred.attempt = identity
      /\ \A c \in Credentials : /\ request[q].point = "answered" /\ request[q].answer = "secret"
                                /\ request[q].cred = c
                                => Over(c)
  BY <1>0 DEF LedgerInv, CredentialInv, RequestsInv, BootInv, Staging, BootHeld, Provisioning, Mine
<1>2. AllMine' /\ FA' = None /\ FC' = None
  BY <1>0, <1>1 DEF AllMine, Mine, Places
<1>3. ASSUME request'[q].kind = "provision", request'[q].cred.attempt = identity,
             \A c \in Credentials : /\ request'[q].point = "answered"
                                    /\ request'[q].answer = "secret"
                                    /\ request'[q].cred = c
                                    => Over(c)'
      PROVE  Provisioning'
  BY <1>0, <1>2, <1>3 DEF Provisioning, Mine
<1>4. ASSUME request'[q] = request[q] PROVE Provisioning'
  <2>1. \A c \in Credentials : Over(c) => Over(c)'
    BY <1>n, <1>0, OverKept
  <2> QED BY <1>1, <1>3, <1>4, <2>1
<1>5. ASSUME NEW p \in Requests, ReadProvision(p) PROVE Provisioning'
  <2>1. CASE p # q
    BY <1>1, <1>4, <1>5, <2>1 DEF ReadProvision, Answer
  <2>2. CASE p = q
    <3>1. /\ request'[q].kind = "provision" /\ request'[q].cred.attempt = identity
          /\ request'[q].answer # "secret"
      BY <1>1, <1>5, <2>2 DEF ReadProvision, Answer, Requested, Honest
    <3> QED BY <1>3, <3>1
  <2> QED BY <2>1, <2>2
<1>6. ASSUME NEW p \in Requests, SaveProvision(p) PROVE Provisioning'
  <2>0. \/ Worked(p, "answered", "error", request[p].cred)
        \/ \E created \in Credentials :
             /\ created.attempt = request[p].cred.attempt
             /\ StatusOf(created) = "none" /\ StatusOf(created)' = "pending"
             /\ Worked(p, "answered", "secret", created)
    BY <1>6, ProvisionMoves DEF LedgerInv
  <2>1. CASE p # q
    BY <1>1, <1>4, <2>0, <2>1 DEF Worked
  <2>2. CASE p = q /\ Worked(q, "answered", "error", request[q].cred)
    BY <1>1, <1>3, <2>2 DEF Worked
  <2>3. ASSUME NEW created \in Credentials, p = q, created.attempt = request[q].cred.attempt,
               StatusOf(created) = "none", StatusOf(created)' = "pending",
               Worked(q, "answered", "secret", created)
        PROVE  Provisioning'
    <3>1. UNCHANGED confirmed
      BY <1>6 DEF SaveProvision, history
    <3>2. Mine(created) /\ boot'.point # "confirm"
      BY <1>0, <1>1, <2>3 DEF Mine
    <3>3. Over(created)'
      BY <1>n, <1>0, <1>1, <2>3, <3>1, <3>2, CreatedIsOver
    <3> QED BY <1>1, <1>3, <2>3, <3>3 DEF Worked
  <2> QED BY <2>0, <2>1, <2>2, <2>3
<1>7. ASSUME NEW p \in Requests, ReadConfirm(p) \/ SaveConfirm(p) PROVE Provisioning'
  <2>1. p # q
    BY <1>1, <1>7 DEF ReadConfirm, SaveConfirm
  <2> QED BY <1>1, <1>4, <1>7, <2>1 DEF ReadConfirm, SaveConfirm, Answer
<1>8. ASSUME NEW p \in Requests, AnswerLost(p) PROVE Provisioning'
  BY <1>1, <1>4, <1>8 DEF AnswerLost
<1>9. CASE UNCHANGED request
  BY <1>4, <1>9
<1>10. CASE \/ \E c \in Credentials : Lapse(c)
            \/ \E c \in Managed, kind \in {"revoked", "retired"} : AdminRead(c, kind)
            \/ AdminSave
  BY <1>9, <1>10 DEF Lapse, AdminRead, AdminSave
<1> QED BY <1>5, <1>6, <1>7, <1>8, <1>10 DEF Server

LEMMA ServerHeld ==
  ASSUME LedgerInv, HeldInv, Server, ~ mixed'
  PROVE  StoresHeld' /\ BootHeld'
<1>n. [Next]_vars
  BY DEF Next
<1>0. /\ UNCHANGED <<identity, stores, boot, mixed>>
      /\ confirmed \subseteq confirmed'
  BY DEF Server, ReadProvision, SaveProvision, ReadConfirm, SaveConfirm, AnswerLost, Lapse,
     AdminRead, AdminSave, terminal, history
<1>1. StoresHeld /\ BootHeld
  BY <1>0 DEF HeldInv
<1>2. UNCHANGED <<KA, KC, FA, FC>> /\ \A c : Mine(c)' <=> Mine(c)
  BY <1>0 DEF KA, KC, FA, FC, Mine
<1>3. StoresHeld'
  BY <1>n, <1>0, <1>1, <1>2, SamePlaces DEF BootHeld, Confirming
<1>4. Provisioning'
  BY <1>1, ProvisioningHeld
<1>5. Clearing => Clearing'
  BY <1>0, <1>2 DEF Clearing, NoneMine, Places
<1>6. ASSUME NEW c \in Credentials, StagingOf(c) PROVE StagingOf(c)'
  <2>1. Over(c)'
    BY <1>n, <1>2, <1>6, OverKept DEF StagingOf
  <2>2. AllMine'
    BY <1>2, <1>6 DEF StagingOf, AllMine, Places
  <2> QED BY <1>0, <1>2, <1>6, <2>1, <2>2 DEF StagingOf
<1>7. ASSUME NEW c, CommittingOf(c) PROVE CommittingOf(c)'
  BY <1>0, <1>2, <1>7 DEF CommittingOf
<1>8. Writing'
  BY <1>0, <1>1, <1>5, <1>6, <1>7 DEF BootHeld, Writing
<1> QED BY <1>0, <1>1, <1>2, <1>3, <1>4, <1>8 DEF BootHeld, Confirming

LEMMA HeldStep ==
  ASSUME LedgerInv, HeldInv, [Next]_vars
  PROVE  HeldInv'
<1>1. CASE UNCHANGED vars
  <2> SUFFICES ASSUME ~ mixed' PROVE StoresHeld' /\ BootHeld'
    BY DEF HeldInv
  <2>1. /\ UNCHANGED <<status, request, stores, boot, confirmed, identity, mixed>>
        /\ StoresHeld /\ BootHeld
    BY <1>1 DEF HeldInv, vars, server, terminal, history
  <2>2. UNCHANGED <<KA, KC, FA, FC>>
    BY <2>1 DEF KA, KC, FA, FC
  <2>3. StoresHeld'
    BY <2>1, <2>2, SamePlaces DEF BootHeld, Confirming
  <2>4. /\ \A c \in Credentials : Over(c) => Over(c)'
        /\ \A c : Mine(c)' <=> Mine(c)
    BY <2>1, <2>2, OverKept DEF Mine
  <2>5. (AllMine => AllMine') /\ (NoneMine => NoneMine')
    BY <2>2, <2>4 DEF AllMine, NoneMine, Places
  <2>6. Provisioning'
    BY <2>1, <2>2, <2>4, <2>5 DEF BootHeld, Provisioning
  <2>7. /\ Clearing => Clearing'
        /\ \A c \in Credentials : StagingOf(c) => StagingOf(c)'
        /\ \A c : CommittingOf(c) => CommittingOf(c)'
    BY <2>1, <2>2, <2>4, <2>5 DEF Clearing, StagingOf, CommittingOf
  <2>8. Writing'
    BY <2>1, <2>7 DEF BootHeld, Writing
  <2> QED BY <2>1, <2>2, <2>3, <2>6, <2>8 DEF BootHeld, Confirming
<1> QED BY <1>1, TerminalHeld, ServerHeld DEF HeldInv, Next

LEMMA HeldInit == Init => HeldInv
<1> SUFFICES ASSUME Init PROVE HeldInv
  OBVIOUS
<1>1. /\ KA = None /\ KC = None /\ FA = None /\ FC = None
      /\ boot.point = "idle" /\ confirmed = {}
      /\ \A q \in Requests : request[q].kind = "none"
      /\ identity = 1 /\ ~ Mine(None)
  BY DEF Init, KA, KC, FA, FC, Resting, NoRequest, None, Mine
<1>2. StoresHeld
  BY <1>1, CredentialFacts
     DEF StoresHeld, NoneMine, AllMine, Places, LiveIsHeld, Live, Asked, CandidatesAgree,
         ActiveIsLast
<1>3. BootHeld
  BY <1>1 DEF BootHeld, Provisioning, Confirming, Writing
<1> QED BY <1>2, <1>3 DEF HeldInv

(* LedgerInv and HeldInv hold in every reachable state.                    *)
THEOREM HeldInvariant == Spec => [](LedgerInv /\ HeldInv)
<1>1. Init => LedgerInv /\ HeldInv
  BY CredentialInit, LedgerInit, HeldInit DEF LedgerInv
<1>2. LedgerInv /\ HeldInv /\ [Next]_vars => LedgerInv' /\ HeldInv'
  BY CredentialStep, OursStep, VersionsStep, HeldStep DEF LedgerInv
<1> QED BY <1>1, <1>2, PTL DEF Spec

(* What is ACTIVE is in the fallback table.                                *)
LEMMA ActiveIsThere ==
  ASSUME LedgerInv, HeldInv, ~ mixed, NEW c \in Credentials,
         c.attempt = identity, StatusOf(c) = "active"
  PROVE  c \in confirmed /\ (FA = c \/ FC = c)
<1>1. c \in confirmed
  BY DEF LedgerInv, CredentialInv, RowsInv
<1> QED BY <1>1 DEF Live, HeldInv, StoresHeld, LiveIsHeld, Mine

(* What the server holds ACTIVE for this device the terminal still has the *)
(* secret of, whatever answers were lost, whichever request was served     *)
(* late and wherever a bootstrap was cut off, unless it asked for a        *)
(* credential with a record of another identity still in a store.          *)
THEOREM WhatIsActiveIsHeld == Spec => []ActiveIsHeld
<1>1. LedgerInv /\ HeldInv => ActiveIsHeld
  <2> SUFFICES ASSUME LedgerInv, HeldInv, ~ mixed, NEW c \in Credentials,
                      c.attempt = identity, StatusOf(c) = "active"
               PROVE  Held(c)
    BY DEF ActiveIsHeld
  <2>1. FA = c \/ FC = c
    BY ActiveIsThere
  <2>2. DOMAIN stores = {"preferred", "fallback"}
    BY LedgerFacts, PlaceTypes
  <2> QED BY <2>1, <2>2 DEF Held, FA, FC, Areas
<1> QED BY <1>1, HeldInvariant, PTL

(* No confirmation served late makes a second version ACTIVE for the       *)
(* device: a candidate beside an active record was never confirmed.        *)
THEOREM ActiveIsUnique == Spec => []OneActive
<1>1. LedgerInv /\ HeldInv => OneActive
  <2> SUFFICES ASSUME LedgerInv, HeldInv, ~ mixed, NEW c \in Credentials, NEW d \in Credentials,
                      c.attempt = identity, d.attempt = identity,
                      StatusOf(c) = "active", StatusOf(d) = "active"
               PROVE  c = d
    BY DEF OneActive
  <2>1. c \in confirmed /\ (FA = c \/ FC = c) /\ d \in confirmed /\ (FA = d \/ FC = d)
    BY ActiveIsThere
  <2>2. ActiveIsLast
    BY DEF HeldInv, StoresHeld
  <2>3. ~ Dead(c) /\ ~ Dead(d)
    BY <2>1 DEF Dead
  <2> QED BY <2>1, <2>2, <2>3 DEF ActiveIsLast, Mine
<1> QED BY <1>1, HeldInvariant, PTL
==============================================================================
