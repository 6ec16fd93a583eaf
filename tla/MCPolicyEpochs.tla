--------------------------- MODULE MCPolicyEpochs ---------------------------
(* PolicyEpochs for TLC: a request is any of two, a policy any of two.     *)
EXTENDS PolicyEpochs, TLC

CONSTANTS p1, p2, r1, r2

Interchangeable == Permutations({r1, r2}) \cup Permutations(Policies)
=============================================================================
