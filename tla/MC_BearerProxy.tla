-------------------------- MODULE MC_BearerProxy ---------------------------
(* The proxy with two concurrent requests and the background thread.       *)
EXTENDS BearerProxy, TLC

CONSTANTS r1, r2, k1, k2, k3

Requests1 == {r1}
Requests2 == {r1, r2}
Tokens2 == {k1, k2}
Tokens3 == {k1, k2, k3}

Symmetric == Permutations(Requests2) \cup Permutations(Tokens3)
============================================================================
