------------------------- MODULE MCDeviceCredential -------------------------
(***************************************************************************)
(* Two identities of the terminal, two versions each; the backoffice acts  *)
(* on the first credential.                                                *)
(***************************************************************************)
EXTENDS DeviceCredential, TLC

FirstCredential == {[attempt |-> 1, version |-> 1]}

Symmetry == Permutations(Requests)
=============================================================================
