---------------------------- MODULE DgiNumbering ----------------------------
(***************************************************************************)
(* The fiscal folios of a terminal: one consecutive series for sales and   *)
(* credit notes, whose cursor is a row of local_configs.  A sale takes the *)
(* cursor and advances it inside its own transaction; a credit note takes  *)
(* its number first (DgiNumberingServiceImpl.getNextNumber), is committed, *)
(* and advances the cursor afterwards (incrementNumber).  The application  *)
(* may be killed between any two of these.  Credit notes issued in the     *)
(* backoffice, from a series of its own, are pulled into the same table.   *)
(***************************************************************************)
EXTENDS Naturals

CONSTANTS
  Start,         \* consecutivo inicial
  MaxFolio,      \* highest folio considered, of either series
  Received,      \* numbers of the backoffice's credit notes
  SharedFormat,  \* both series print a number in the same way
  Times          \* what the device's clock may show

ASSUME NumberingAssumption ==
  /\ Start \in Nat \ {0}
  /\ MaxFolio \in Nat
  /\ Start <= MaxFolio
  /\ Received \subseteq 0..MaxFolio
  /\ SharedFormat \in BOOLEAN
  /\ Times \subseteq Nat

VARIABLES
  docs,    \* the invoices table: kind, folio, created
  cursor,  \* dgi_current_number
  desk     \* the credit note being issued

vars == <<docs, cursor, desk>>

Free == [point |-> "free", folio |-> 0, next |-> 0]

Init ==
  /\ docs = {}
  /\ cursor = Start
  /\ desk = Free

Issued == {d.folio : d \in {e \in docs : e.kind # "received"}}

(* invoice_number is unique.                                               *)
Taken(n) == n \in Issued \/ (SharedFormat /\ \E d \in docs : d.folio = n)

Insert(kind, n) ==
  \E t \in Times : docs' = docs \union {[kind |-> kind, folio |-> n, created |-> t]}

(* getLastInvoice: ORDER BY created_at DESC LIMIT 1, received ones too.    *)
LastInvoices == {d \in docs : \A e \in docs : e.created <= d.created}

ResolveFromLastOnly(configured) ==
  IF docs = {} THEN {configured} ELSE {d.folio + 1 : d \in LastInvoices}

(* _resolveNextSequence: the persisted last folio wins over a cursor that  *)
(* lags behind it.                                                         *)
ResolveNextSequence(configured) ==
  IF docs = {} THEN {configured}
  ELSE {IF d.folio >= configured THEN d.folio + 1 ELSE configured : d \in LastInvoices}

-----------------------------------------------------------------------------
(* executeSaleWithDgiTransaction: the cursor alone decides; when its folio *)
(* is taken the insert aborts and nothing changes.                         *)
SaleStep(step) ==
  /\ cursor <= MaxFolio
  /\ ~Taken(cursor)
  /\ Insert("sale", cursor)
  /\ cursor' = cursor + step
  /\ UNCHANGED desk

SaleSkippingOne == SaleStep(2)

Sale == SaleStep(1)

(* createCreditNote, for a sale of this terminal: the number, the          *)
(* transaction (refused when the folio is taken, or by a rule about the    *)
(* refund), and the cursor, read and written in two steps.                 *)
TakeNumber ==
  /\ desk = Free
  /\ \E d \in docs : d.kind = "sale"
  /\ \E n \in ResolveNextSequence(cursor) :
       /\ n <= MaxFolio
       /\ desk' = [desk EXCEPT !.point = "numbered", !.folio = n]
  /\ UNCHANGED <<docs, cursor>>

CommitNote ==
  /\ desk.point = "numbered"
  /\ ~Taken(desk.folio)
  /\ Insert("note", desk.folio)
  /\ desk' = [desk EXCEPT !.point = "committed"]
  /\ UNCHANGED cursor

RefuseNote ==
  /\ desk.point = "numbered"
  /\ desk' = Free
  /\ UNCHANGED <<docs, cursor>>

AdvanceTwice ==
  /\ desk.point = "committed"
  /\ \E n \in ResolveNextSequence(cursor) :
       desk' = [desk EXCEPT !.point = "advancing", !.next = n + 1]
  /\ UNCHANGED <<docs, cursor>>

(* A last folio at or above the cursor has already moved the number on.    *)
ReadCursor ==
  /\ desk.point = "committed"
  /\ \E n \in ResolveNextSequence(cursor) :
       desk' = [desk EXCEPT !.point = "advancing",
                            !.next = IF n = cursor THEN n + 1 ELSE n]
  /\ UNCHANGED <<docs, cursor>>

SaveCursor ==
  /\ desk.point = "advancing"
  /\ cursor' = desk.next
  /\ desk' = Free
  /\ UNCHANGED docs

Crash ==
  /\ desk # Free
  /\ desk' = Free
  /\ UNCHANGED <<docs, cursor>>

(* A credit note of the backoffice is pulled, unless its printed number is *)
(* taken (the pull then fails).                                            *)
Receive(n) ==
  /\ ~Taken(n)
  /\ \A d \in docs : ~(d.kind = "received" /\ d.folio = n)
  /\ Insert("received", n)
  /\ UNCHANGED <<cursor, desk>>

Next ==
  \/ Sale
  \/ TakeNumber \/ CommitNote \/ RefuseNote \/ ReadCursor \/ SaveCursor
  \/ Crash
  \/ \E n \in Received : Receive(n)

Spec == Init /\ [][Next]_vars

-----------------------------------------------------------------------------
Docs == [kind : {"sale", "note", "received"}, folio : Nat, created : Times]

(* The rows have the shape of InvoiceEntity and the cursor stays within    *)
(* one of the last folio (the model's cap included).                       *)
NumberingTypeOK ==
  /\ docs \subseteq Docs
  /\ cursor \in 0..(MaxFolio + 1)
  /\ desk \in [point : {"free", "numbered", "committed", "advancing"},
               folio : 0..MaxFolio, next : 0..(MaxFolio + 1)]

Consecutive == \A n \in Issued : n >= Start /\ \A m \in Start..n : m \in Issued

NoneReceived == \A d \in docs : d.kind # "received"

(* The folios of a terminal that has received no credit note are           *)
(* consecutive from the first: crashes, refused credit notes and a clock   *)
(* that is set back leave no hole ("consecutive, progressive, gapless      *)
(* numbers", D-21).                                                        *)
FoliosConsecutive == NoneReceived => Consecutive

(* The cursor is never set back: a credit note that advances it late does  *)
(* not undo what sales have advanced since ("never overwrite a persisted   *)
(* fiscal sequence", D-1).                                                 *)
CursorNeverFalls == [][NoneReceived' => cursor' >= cursor]_vars

(* What keeps the series consecutive: everything below the cursor, below a *)
(* number handed out and below a cursor about to be saved is issued, and   *)
(* once a note is committed the cursor itself is.                          *)
Below(n) == \A m \in Start..(n - 1) : m \in Issued

SeriesInv ==
  /\ Consecutive
  /\ cursor >= Start /\ Below(cursor)
  /\ desk.point = "numbered" => desk.folio >= Start /\ Below(desk.folio)
  /\ desk.point = "committed" => cursor \in Issued
  /\ desk.point = "advancing" =>
       desk.next > cursor /\ cursor \in Issued /\ Below(desk.next)

(* What keeps the numbers within the cap.  The folio of a note under way is *)
(* at or above the cursor until a sale takes it, and no sale gets past the *)
(* folio of a committed note, so a cursor is only saved above a document.  *)
CapInv ==
  /\ cursor <= MaxFolio + 1
  /\ \A d \in docs : d.folio <= MaxFolio
  /\ desk.folio <= MaxFolio /\ desk.next <= MaxFolio + 1
  /\ desk.point = "numbered" => cursor <= desk.folio \/ desk.folio \in Issued
  /\ desk.point = "committed" => cursor <= desk.folio /\ desk.folio \in Issued

NumberingInv ==
  /\ docs \subseteq Docs
  /\ cursor \in Nat
  /\ desk \in [point : {"free", "numbered", "committed", "advancing"},
               folio : Nat, next : Nat]
  /\ CapInv
  /\ NoneReceived => SeriesInv
=============================================================================
