---------------------------- MODULE MC_PidFile -----------------------------
(* A few runs of the scripts.                                              *)
EXTENDS PidFile, TLC

CONSTANTS s1, s2, s3, s4, p1, p2, p3, p4

Scripts4 == {s1, s2, s3, s4}
Pids4 == {p1, p2, p3, p4}

Symmetric == Permutations(Scripts4) \cup Permutations(Pids4)
============================================================================
