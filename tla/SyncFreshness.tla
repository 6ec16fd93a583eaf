---------------------------- MODULE SyncFreshness ---------------------------
(***************************************************************************)
(* What the owner's dashboard derives from the receipts and the outbox of  *)
(* a stream (terminal-sync-evidence.ts, freshness-derivation.ts): whether  *)
(* the cloud has everything the terminal has handed over.                  *)
(***************************************************************************)
EXTENDS SyncIngest, FiniteSets

AcceptedCount == Cardinality(Accepted)

(* Watermark is acceptedMax, and 0 where the code has null.                *)
MinAcceptedSequence ==
  IF Accepted = {} THEN 0 ELSE CHOOSE n \in Accepted : \A m \in Accepted : n <= m

DeclaredGapCount == Cardinality({n \in Seqs : receipts[n] = GapFill})

PendingBeyondNext ==
  Cardinality({n \in Seqs : staged[n] # NoRecord /\ n > Watermark + 1})

(* Rows of the outbox strictly above the watermark.                        *)
PendingAboveWatermark ==
  Cardinality({n \in Seqs : staged[n] # NoRecord /\ n > Watermark})

(* Receipts above the watermark with a status other than ACCEPTED.  Every  *)
(* writer of the table writes ACCEPTED: a refusal leaves no row.           *)
RejectedAboveWatermark == 0

StreamHasGap ==
  \/ DeclaredGapCount > 0
  \/ PendingAboveWatermark > 0
  \/ RejectedAboveWatermark > 0
  \/ Accepted # {} /\ AcceptedCount < Watermark - MinAcceptedSequence + 1

(* The clock is left out: a fresh and a stale checkpoint are one state.    *)
DeriveTerminalState ==
  CASE Accepted = {} -> "PENDING"
    [] Accepted # {} /\ StreamHasGap -> "PARTIAL"
    [] OTHER -> "COMPLETE_OR_STALE"

(* A terminal shown as complete (or merely stale) has every sale it ever   *)
(* handed over in the ledger: no row of the outbox is left for a sale the  *)
(* ledger does not know, whatever requests are in flight.  (Its payload    *)
(* may be an older one: the sale was voided before it was sent again.)     *)
FreshnessIsHonest ==
  DeriveTerminalState = "COMPLETE_OR_STALE" =>
    \A n \in Seqs : staged[n] # NoRecord =>
      \E i \in DOMAIN ledger : ledger[i].key = staged[n].key
=============================================================================
