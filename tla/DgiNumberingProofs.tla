------------------------- MODULE DgiNumberingProofs -------------------------
(***************************************************************************)
(* A terminal that has received no credit note from the backoffice issues  *)
(* consecutive folios and never sets its cursor back, for every first      *)
(* folio, every clock and every schedule of crashes.                       *)
(***************************************************************************)
EXTENDS DgiNumbering, TLAPS

DeskType == [point : {"free", "numbered", "committed", "advancing"},
             folio : Nat, next : Nat]

TypeInv ==
  /\ docs \subseteq Docs
  /\ cursor \in Nat
  /\ desk \in DeskType

LEMMA TypeInvStep == TypeInv /\ [Next]_vars => TypeInv'
<1> SUFFICES ASSUME TypeInv, [Next]_vars PROVE TypeInv'
  OBVIOUS
<1> USE NumberingAssumption DEF TypeInv, DeskType, Docs
<1>1. ASSUME NEW c \in Nat PROVE ResolveNextSequence(c) \subseteq Nat
  BY DEF ResolveNextSequence, LastInvoices
<1>2. CASE Sale
  BY <1>2 DEF Sale, SaleStep, Insert
<1>3. CASE TakeNumber
  <2>1. PICK n \in ResolveNextSequence(cursor) :
           desk' = [desk EXCEPT !.point = "numbered", !.folio = n]
    BY <1>3 DEF TakeNumber
  <2> QED BY <1>1, <1>3, <2>1 DEF TakeNumber
<1>4. CASE CommitNote
  BY <1>4 DEF CommitNote, Insert
<1>5. CASE RefuseNote \/ Crash
  BY <1>5 DEF RefuseNote, Crash, Free
<1>6. CASE ReadCursor
  <2>1. PICK n \in ResolveNextSequence(cursor) :
           desk' = [desk EXCEPT !.point = "advancing",
                                !.next = IF n = cursor THEN n + 1 ELSE n]
    BY <1>6 DEF ReadCursor
  <2>2. (IF n = cursor THEN n + 1 ELSE n) \in Nat
    BY <1>1
  <2>3. desk' \in DeskType
    BY <2>1, <2>2
  <2> QED BY <1>6, <2>3 DEF ReadCursor
<1>7. CASE SaveCursor
  BY <1>7 DEF SaveCursor, Free
<1>8. ASSUME NEW n \in Received, Receive(n) PROVE TypeInv'
  BY <1>8 DEF Receive, Insert
<1>9. CASE UNCHANGED vars
  BY <1>9 DEF vars
<1> QED BY <1>2, <1>3, <1>4, <1>5, <1>6, <1>7, <1>8, <1>9 DEF Next

(* The document that is inserted is the only one added to the series.      *)
LEMMA IssuedGrows ==
  ASSUME NEW kind \in {"sale", "note"}, NEW n, Insert(kind, n)
  PROVE  /\ Issued' = Issued \union {n}
         /\ NoneReceived' <=> NoneReceived
<1>1. PICK t \in Times : docs' = docs \union {[kind |-> kind, folio |-> n, created |-> t]}
  BY DEF Insert
<1> DEFINE new == [kind |-> kind, folio |-> n, created |-> t]
<1>2. new.kind # "received" /\ new.folio = n /\ docs' = docs \union {new}
  BY <1>1
<1> HIDE DEF new
<1>3. Issued' = {d.folio : d \in {e \in docs \union {new} : e.kind # "received"}}
  BY <1>2 DEF Issued
<1>4. {e \in docs \union {new} : e.kind # "received"}
        = {e \in docs : e.kind # "received"} \union {new}
  BY <1>2
<1>5. Issued' = Issued \union {n}
  BY <1>2, <1>3, <1>4 DEF Issued
<1>6. NoneReceived' <=> NoneReceived
  BY <1>2 DEF NoneReceived
<1> QED BY <1>5, <1>6

(* While nothing was received, the last document is one of the series: a   *)
(* number resolved from a cursor all of whose predecessors are issued has  *)
(* itself only issued predecessors.                                        *)
LEMMA ResolveProperties ==
  ASSUME TypeInv, NoneReceived, SeriesInv, NEW n \in ResolveNextSequence(cursor)
  PROVE  /\ n \in Nat
         /\ n >= cursor
         /\ Below(n)
<1> USE NumberingAssumption DEF TypeInv, Docs
<1>1. CASE docs = {}
  BY <1>1 DEF ResolveNextSequence, SeriesInv
<1>2. CASE docs # {}
  <2>1. PICK d \in docs : n = IF d.folio >= cursor THEN d.folio + 1 ELSE cursor
    BY <1>2 DEF ResolveNextSequence, LastInvoices
  <2>2. d.folio \in Nat /\ d.folio \in Issued
    BY DEF NoneReceived, Issued
  <2>3. CASE d.folio >= cursor
    BY <2>1, <2>2, <2>3 DEF SeriesInv, Consecutive, Below
  <2>4. CASE ~(d.folio >= cursor)
    BY <2>1, <2>2, <2>4 DEF SeriesInv
  <2> QED BY <2>3, <2>4
<1> QED BY <1>1, <1>2

(* The strengthening: what a number handed out, a committed note and a     *)
(* cursor about to be saved stand on.                                      *)
LEMMA SeriesInvStep ==
  TypeInv /\ (NoneReceived => SeriesInv) /\ [Next]_vars
    => (NoneReceived' => SeriesInv')
<1> SUFFICES ASSUME TypeInv, NoneReceived => SeriesInv, [Next]_vars, NoneReceived'
             PROVE  SeriesInv'
  OBVIOUS
<1> USE NumberingAssumption DEF TypeInv, DeskType, Docs
<1>0. NoneReceived /\ SeriesInv
  <2>1. docs \subseteq docs'
    BY DEF Next, Sale, SaleStep, TakeNumber, CommitNote, RefuseNote, ReadCursor,
           SaveCursor, Crash, Receive, Insert, vars
  <2> QED BY <2>1 DEF NoneReceived
<1>i. Issued \subseteq Nat
  BY DEF Issued
<1>1. CASE Sale
  <2>1. /\ Issued' = Issued \union {cursor}
        /\ cursor \notin Issued
        /\ cursor' = cursor + 1
        /\ desk' = desk
    BY <1>1, IssuedGrows DEF Sale, SaleStep, Taken
  <2>2. Consecutive'
    BY <1>0, <1>i, <2>1 DEF SeriesInv, Consecutive, Below
  <2>3. cursor' >= Start /\ Below(cursor)'
    BY <1>0, <1>i, <2>1 DEF SeriesInv, Below
  <2> QED BY <1>0, <2>1, <2>2, <2>3 DEF SeriesInv, Below
<1>2. CASE TakeNumber
  <2>1. PICK n \in ResolveNextSequence(cursor) :
           desk' = [desk EXCEPT !.point = "numbered", !.folio = n]
    BY <1>2 DEF TakeNumber
  <2>2. n \in Nat /\ n >= cursor /\ Below(n)
    BY <1>0, ResolveProperties
  <2>3. UNCHANGED <<docs, cursor>> /\ Issued' = Issued
    BY <1>2 DEF TakeNumber, Issued
  <2>4. /\ desk'.point = "numbered"
        /\ desk'.folio = n
    BY <2>1
  <2>5. cursor >= Start
    BY <1>0 DEF SeriesInv
  <2> QED BY <1>0, <2>2, <2>3, <2>4, <2>5 DEF SeriesInv, Consecutive, Below
<1>3. CASE CommitNote
  <2>1. /\ Issued' = Issued \union {desk.folio}
        /\ desk.folio \notin Issued
        /\ cursor' = cursor
        /\ desk.point = "numbered"
        /\ desk'.point = "committed"
    BY <1>3, IssuedGrows DEF CommitNote, Taken
  <2>2. Consecutive'
    BY <1>0, <1>i, <2>1 DEF SeriesInv, Consecutive, Below
  <2>3. cursor <= desk.folio
    BY <1>0, <2>1 DEF SeriesInv, Below
  <2>4. cursor \in Issued'
    BY <1>0, <2>1, <2>3 DEF SeriesInv, Below
  <2> QED BY <1>0, <2>1, <2>2, <2>4 DEF SeriesInv, Below
<1>4. CASE RefuseNote \/ Crash
  <2>1. desk'.point = "free" /\ UNCHANGED <<docs, cursor>> /\ Issued' = Issued
    BY <1>4 DEF RefuseNote, Crash, Free, Issued
  <2> QED BY <1>0, <2>1 DEF SeriesInv, Consecutive, Below
<1>5. CASE ReadCursor
  <2>1. PICK n \in ResolveNextSequence(cursor) :
           desk' = [desk EXCEPT !.point = "advancing",
                                !.next = IF n = cursor THEN n + 1 ELSE n]
    BY <1>5 DEF ReadCursor
  <2>2. n \in Nat /\ n >= cursor /\ Below(n)
    BY <1>0, ResolveProperties
  <2>3. UNCHANGED <<docs, cursor>> /\ Issued' = Issued /\ cursor \in Issued
    BY <1>0, <1>5 DEF ReadCursor, Issued, SeriesInv
  <2>4. /\ desk'.point = "advancing"
        /\ desk'.next = IF n = cursor THEN n + 1 ELSE n
    BY <2>1
  <2>5. desk'.next > cursor /\ \A m \in Start..(desk'.next - 1) : m \in Issued
    BY <2>2, <2>3, <2>4 DEF Below
  <2> QED BY <1>0, <2>3, <2>4, <2>5 DEF SeriesInv, Consecutive, Below
<1>6. CASE SaveCursor
  <2>1. /\ desk.point = "advancing"
        /\ cursor' = desk.next
        /\ desk'.point = "free"
        /\ Issued' = Issued
    BY <1>6 DEF SaveCursor, Free, Issued
  <2> QED BY <1>0, <2>1 DEF SeriesInv, Consecutive, Below
<1>7. ASSUME NEW n \in Received, Receive(n) PROVE FALSE
  <2>1. PICK t \in Times :
           docs' = docs \union {[kind |-> "received", folio |-> n, created |-> t]}
    BY <1>7 DEF Receive, Insert
  <2>2. [kind |-> "received", folio |-> n, created |-> t] \in docs'
    BY <2>1
  <2> QED BY <2>2 DEF NoneReceived
<1>8. CASE UNCHANGED vars
  BY <1>0, <1>8 DEF vars, SeriesInv, Consecutive, Below, Issued
<1> QED BY <1>1, <1>2, <1>3, <1>4, <1>5, <1>6, <1>7, <1>8 DEF Next

(* A number resolved from the cursor is the cursor, or follows a document. *)
LEMMA ResolvedNext ==
  ASSUME TypeInv, CapInv, NEW n \in ResolveNextSequence(cursor)
  PROVE  n \in Nat /\ n >= cursor /\ (n = cursor \/ n <= MaxFolio + 1)
<1> USE NumberingAssumption DEF TypeInv, Docs, CapInv
<1>1. CASE docs = {}
  BY <1>1 DEF ResolveNextSequence
<1>2. CASE docs # {}
  <2>1. PICK d \in docs : n = IF d.folio >= cursor THEN d.folio + 1 ELSE cursor
    BY <1>2 DEF ResolveNextSequence, LastInvoices
  <2> QED BY <2>1
<1> QED BY <1>1, <1>2

(* Whatever is received, no sale gets past a committed note: the cursor    *)
(* saved for it stays within one of the last folio.                        *)
LEMMA CapInvStep == TypeInv /\ CapInv /\ [Next]_vars => CapInv'
<1> SUFFICES ASSUME TypeInv, CapInv, [Next]_vars PROVE CapInv'
  OBVIOUS
<1> USE NumberingAssumption DEF TypeInv, DeskType, Docs
<1>1. CASE Sale
  <2>1. /\ Issued' = Issued \union {cursor} /\ cursor \notin Issued
        /\ cursor <= MaxFolio /\ cursor' = cursor + 1 /\ desk' = desk
    BY <1>1, IssuedGrows DEF Sale, SaleStep, Taken
  <2>2. \A d \in docs' : d.folio <= MaxFolio
    BY <1>1 DEF Sale, SaleStep, Insert, CapInv
  <2>3. desk.point = "numbered" => cursor' <= desk.folio \/ desk.folio \in Issued'
    BY <2>1 DEF CapInv
  <2>4. desk.point = "committed" => cursor' <= desk.folio /\ desk.folio \in Issued'
    BY <2>1 DEF CapInv
  <2> QED BY <2>1, <2>2, <2>3, <2>4 DEF CapInv
<1>2. CASE TakeNumber
  <2>1. PICK n \in ResolveNextSequence(cursor) :
           n <= MaxFolio /\ desk' = [desk EXCEPT !.point = "numbered", !.folio = n]
    BY <1>2 DEF TakeNumber
  <2>2. n \in Nat /\ n >= cursor
    BY ResolvedNext
  <2> QED BY <1>2, <2>1, <2>2 DEF TakeNumber, CapInv
<1>3. CASE CommitNote
  <2>1. /\ Issued' = Issued \union {desk.folio} /\ desk.folio \notin Issued
        /\ desk.point = "numbered" /\ desk' = [desk EXCEPT !.point = "committed"]
        /\ cursor' = cursor
    BY <1>3, IssuedGrows DEF CommitNote, Taken
  <2>2. \A d \in docs' : d.folio <= MaxFolio
    BY <1>3 DEF CommitNote, Insert, CapInv
  <2> QED BY <2>1, <2>2 DEF CapInv
<1>4. CASE RefuseNote \/ Crash
  BY <1>4 DEF RefuseNote, Crash, Free, CapInv
<1>5. CASE ReadCursor
  <2>1. PICK n \in ResolveNextSequence(cursor) :
           desk' = [desk EXCEPT !.point = "advancing",
                                !.next = IF n = cursor THEN n + 1 ELSE n]
    BY <1>5 DEF ReadCursor
  <2>2. n \in Nat /\ n >= cursor /\ (n = cursor \/ n <= MaxFolio + 1)
    BY ResolvedNext
  <2>3. cursor <= MaxFolio
    BY <1>5 DEF ReadCursor, CapInv
  <2>4. (IF n = cursor THEN n + 1 ELSE n) <= MaxFolio + 1
    BY <2>2, <2>3
  <2>5. /\ desk'.point = "advancing" /\ desk'.folio = desk.folio
        /\ desk'.next = IF n = cursor THEN n + 1 ELSE n
    BY <2>1
  <2> QED BY <1>5, <2>4, <2>5 DEF ReadCursor, CapInv
<1>6. CASE SaveCursor
  BY <1>6 DEF SaveCursor, Free, CapInv
<1>7. ASSUME NEW n \in Received, Receive(n) PROVE CapInv'
  <2>1. PICK t \in Times :
           docs' = docs \union {[kind |-> "received", folio |-> n, created |-> t]}
    BY <1>7 DEF Receive, Insert
  <2>2. Issued \subseteq Issued'
    BY <2>1 DEF Issued
  <2>3. \A d \in docs' : d.folio <= MaxFolio
    BY <2>1 DEF CapInv
  <2> QED BY <1>7, <2>2, <2>3 DEF Receive, CapInv
<1>8. CASE UNCHANGED vars
  BY <1>8 DEF vars, CapInv, Issued
<1> QED BY <1>1, <1>2, <1>3, <1>4, <1>5, <1>6, <1>7, <1>8 DEF Next

(* The inductive invariant of the numbering.                               *)
THEOREM NumberingInvariant == Spec => []NumberingInv
<1>1. Init => NumberingInv
  <2> SUFFICES ASSUME Init PROVE NumberingInv
    OBVIOUS
  <2> QED BY NumberingAssumption
          DEF Init, Free, NumberingInv, CapInv, Docs, SeriesInv, Consecutive, Below, Issued
<1>2. NumberingInv /\ [Next]_vars => NumberingInv'
  <2>1. NumberingInv <=> TypeInv /\ CapInv /\ (NoneReceived => SeriesInv)
    BY DEF NumberingInv, TypeInv, DeskType
  <2>2. NumberingInv' <=> TypeInv' /\ CapInv' /\ (NoneReceived' => SeriesInv')
    BY DEF NumberingInv, TypeInv, DeskType
  <2> QED BY <2>1, <2>2, TypeInvStep, CapInvStep, SeriesInvStep
<1> QED BY <1>1, <1>2, PTL DEF Spec

(* The documents and the cursor keep their shape and stay within one of    *)
(* the last folio, whatever is sold, received or lost between two steps.   *)
THEOREM NumberingTypes == Spec => []NumberingTypeOK
<1>1. NumberingInv => NumberingTypeOK
  BY NumberingAssumption DEF NumberingInv, CapInv, NumberingTypeOK
<1> QED BY <1>1, NumberingInvariant, PTL

(* The folios of a terminal that has received no credit note have no hole, *)
(* whatever crashes between a credit note and its cursor.                  *)
THEOREM SeriesHasNoHole == Spec => []FoliosConsecutive
<1>1. NumberingInv => FoliosConsecutive
  BY DEF NumberingInv, SeriesInv, FoliosConsecutive
<1> QED BY <1>1, NumberingInvariant, PTL

(* No step of such a terminal sets its cursor back.                        *)
THEOREM CursorOnlyAdvances == Spec => CursorNeverFalls
<1>1. NumberingInv /\ [Next]_vars => [NoneReceived' => cursor' >= cursor]_vars
  <2> SUFFICES ASSUME NumberingInv, Next, NoneReceived' PROVE cursor' >= cursor
    BY DEF vars
  <2>1. docs \subseteq docs'
    BY DEF Next, Sale, SaleStep, TakeNumber, CommitNote, RefuseNote, ReadCursor,
           SaveCursor, Crash, Receive, Insert
  <2>2. SeriesInv /\ cursor \in Nat
    BY <2>1 DEF NumberingInv, NoneReceived
  <2>3. CASE Sale
    BY <2>2, <2>3 DEF Sale, SaleStep
  <2>4. CASE SaveCursor
    BY <2>2, <2>4 DEF SaveCursor, SeriesInv, NumberingInv
  <2>5. CASE UNCHANGED cursor
    BY <2>2, <2>5
  <2> QED BY <2>3, <2>4, <2>5
          DEF Next, TakeNumber, CommitNote, RefuseNote, ReadCursor, Crash, Receive
<1> QED BY <1>1, NumberingInvariant, PTL DEF Spec, CursorNeverFalls
=============================================================================
