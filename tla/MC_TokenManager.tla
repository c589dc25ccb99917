-------------------------- MODULE MC_TokenManager --------------------------
(* TokenManager and its contract on small instances.                       *)
EXTENDS TokenManagerContract, TLC

CONSTANTS t1, t2, t3, k1, k2

Threads3 == {t1, t2, t3}
Tokens2 == {k1, k2}

\* No lifetime, one that the margin uses up, one that leaves more than the
\* least interval, an infinite one and NaN.
Lifetimes == {None, 1, 5, Inf, NaN}

Symmetric == Permutations({t1, t2, t3}) \cup Permutations({k1, k2})
============================================================================
