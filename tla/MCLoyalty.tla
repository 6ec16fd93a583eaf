----------------------------- MODULE MCLoyalty -----------------------------
(***************************************************************************)
(* One or two tickets and two requests at once.                            *)
(***************************************************************************)
EXTENDS Loyalty, TLC

PlainAndBatch ==
  {[from |-> "terminal", batch |-> FALSE, declared |-> FALSE],
   [from |-> "terminal", batch |-> TRUE, declared |-> TRUE]}

Symmetry == Permutations(Tickets) \cup Permutations(Requests)
=============================================================================
