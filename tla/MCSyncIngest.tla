---------------------------- MODULE MCSyncIngest ----------------------------
(***************************************************************************)
(* Small instances of SyncIngest: one stream of three sequences.           *)
(*   sale1, sale2   two sales                                              *)
(*   void2          sale2 sent again after it was voided on the terminal:  *)
(*                  same key and sequence, another payload                 *)
(*   refund3        a credit note for sale1                                *)
(***************************************************************************)
EXTENDS SyncFreshness, TLC

Sale(key, seq, body) ==
  [key |-> key, seq |-> seq, body |-> body, invoice |-> key,
   canceled |-> FALSE, moves |-> TRUE, note |-> FALSE, origin |-> NoOrigin]

sale1 == Sale("k1", 1, "S1")
sale2 == Sale("k2", 2, "S2")
void2 == [Sale("k2", 2, "V2") EXCEPT !.canceled = TRUE]
refund3 == [Sale("k3", 3, "R3") EXCEPT !.note = TRUE, !.moves = FALSE, !.origin = "k1"]

(* Sales, a void of an unsynced sale, a refund; the terminal sends what it *)
(* has not seen acknowledged, so any suffix of the stream may be sent.     *)
MCRecords == {sale1, sale2, void2, refund3}
MCBatches ==
  {{sale1}, {sale1, sale2}, {sale1, sale2, refund3}, {sale2, refund3},
   {void2}, {void2, refund3}, {refund3}}

Symmetry == Permutations(Requests)
=============================================================================
