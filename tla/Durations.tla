------------------------------ MODULE Durations ------------------------------
(***************************************************************************)
(* Python's floats as the proxy uses them for spans of time and for dates  *)
(* on its clock: whole seconds, the infinite one, and NaN, which compares  *)
(* with nothing.  Neither _runtime_config (config.py:504) nor              *)
(* _coerce_expires_in (auth.py:157) refuses the last two.                  *)
(***************************************************************************)
EXTENDS Integers

CONSTANTS NaN, Inf

ASSUME FloatAssumption == NaN \notin Int /\ Inf \notin Int /\ NaN # Inf

Spans == Nat \cup {NaN, Inf}

\* x < y, which no NaN satisfies.
Less(x, y) ==
  /\ NaN \notin {x, y}
  /\ x # Inf
  /\ y # Inf => x < y

\* x + y
Plus(x, y) ==
  CASE NaN \in {x, y}                       -> NaN
    [] NaN \notin {x, y} /\ Inf \in {x, y}  -> Inf
    [] OTHER                                -> x + y

\* x - y, and zero for whatever is less: the code makes no difference between
\* nothing left and less than nothing.
Minus(x, y) ==
  CASE NaN \in {x, y} \/ (x = Inf /\ y = Inf) -> NaN
    [] x = Inf /\ y \notin {NaN, Inf}         -> Inf
    [] x \notin {NaN, Inf} /\ y = Inf         -> 0
    [] OTHER                                  -> IF x < y THEN 0 ELSE x - y
=============================================================================
