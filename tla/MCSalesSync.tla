---------------------------- MODULE MCSalesSync ----------------------------
(* Small instances of SalesSync.                                           *)
EXTENDS SalesSync, TLC

Symmetry == Permutations(Requests) \union Permutations(Invoices)
=============================================================================
