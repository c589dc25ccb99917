----------------------------- MODULE DataLemmas -----------------------------
(***************************************************************************)
(* Lemmas about data that the proofs share: induction over the naturals,   *)
(* with sets in the place of predicates; functions that are defined by     *)
(* recursion on a natural; FlattenSeq of the community modules, from which *)
(* substitution (config.py) is built; and what the nodes of a finite graph *)
(* lead to, as names that refer to each other do.                          *)
(***************************************************************************)
EXTENDS Integers, SequencesExt, FiniteSetTheorems, SequenceTheorems, TLAPS

-----------------------------------------------------------------------------
(* The naturals.                                                           *)

\* A set of naturals that is not empty has a least element.
LEMMA LeastNatural ==
  ASSUME NEW T \in SUBSET Nat, T # {}
  PROVE  \E x \in T : \A y \in T : x <= y
<1>1. IsWellFoundedOn(OpToRel(<, Nat), Nat)
  BY NatLessThanWellFounded
<1>2. PICK x \in T : \A y \in T : ~ (<<y, x>> \in OpToRel(<, Nat))
  BY <1>1, WFMin, Zenon
<1>3. ASSUME NEW y \in T
      PROVE  x <= y
  <2>1. ~ (<<y, x>> \in {ss \in Nat \X Nat : ss[1] < ss[2]})
    BY <1>2 DEF OpToRel
  <2>2. QED
    BY <2>1
<1>4. QED
  BY <1>3

\* Induction: a set that has zero, and with each natural the next, has all.
LEMMA AllNaturals ==
  ASSUME NEW P \in SUBSET Nat, 0 \in P, \A n \in P : n + 1 \in P
  PROVE  P = Nat
<1> DEFINE T == Nat \ P
<1>1. ASSUME T # {}
      PROVE  FALSE
  <2>1. PICK x \in T : \A y \in T : x <= y
    BY <1>1, LeastNatural
  <2>2. x - 1 \in Nat /\ x - 1 \notin T
    BY <2>1
  <2>3. QED
    BY <2>1, <2>2
<1>2. QED
  BY <1>1

\* Induction up to a number.
LEMMA AllUpTo ==
  ASSUME NEW n \in Nat, NEW P, 0 \in P, \A k \in 0 .. n - 1 : k \in P => k + 1 \in P
  PROVE  \A k \in 0 .. n : k \in P
<1> DEFINE Q == {k \in Nat : k <= n => k \in P}
<1>1. 0 \in Q /\ \A k \in Q : k + 1 \in Q
  OBVIOUS
<1>2. Q = Nat
  <2> HIDE DEF Q
  <2>1. Q \in SUBSET Nat
    BY DEF Q
  <2>2. QED
    BY <1>1, <2>1, AllNaturals
<1>3. QED
  BY <1>2

\* The first and the last of some positions.
LEMMA FirstAndLast ==
  ASSUME NEW n \in Nat, NEW S \in SUBSET (1 .. n), S # {}
  PROVE  /\ Min(S) \in S /\ \A i \in S : Min(S) <= i
         /\ Max(S) \in S /\ \A i \in S : i <= Max(S)
<1>1. \E x \in S : \A y \in S : x <= y
  <2>1. S \in SUBSET Nat
    OBVIOUS
  <2>2. QED
    BY <2>1, LeastNatural
<1>2. \E x \in S : \A y \in S : x >= y
  <2> DEFINE R == {d \in 0 .. n : n - d \in S}
  <2>1. R \in SUBSET Nat
    OBVIOUS
  <2>2. PICK z \in S : TRUE
    OBVIOUS
  <2>3. z \in 1 .. n /\ n - z \in 0 .. n /\ n - (n - z) = z
    OBVIOUS
  <2>4. n - z \in R
    BY <2>2, <2>3
  <2>5. PICK d \in R : \A e \in R : d <= e
    BY <2>1, <2>4, LeastNatural
  <2>6. ASSUME NEW y \in S
        PROVE  n - d >= y
    <3>1. y \in 1 .. n /\ n - y \in 0 .. n /\ n - (n - y) = y
      OBVIOUS
    <3>2. d <= n - y
      BY <2>5, <3>1
    <3>3. QED
      BY <3>1, <3>2
  <2>7. QED
    BY <2>6
<1>3. Min(S) \in S /\ \A i \in S : Min(S) <= i
  BY <1>1 DEF Min
<1>4. Max(S) \in S /\ \A i \in S : Max(S) >= i
  BY <1>2 DEF Max
<1>5. QED
  BY <1>3, <1>4

-----------------------------------------------------------------------------
(* Recursion.                                                              *)

\* Turns f by G: f starts with x and each of its values gives the next.
Turns(f, x, G, n) == f[0] = x /\ \A k \in 0 .. n - 1 : f[k + 1] = G[k][f[k]]

\* Any number of turns can be made.
LEMMA SomeTurns ==
  ASSUME NEW S, NEW x \in S, NEW G \in [Nat -> [S -> S]], NEW n \in Nat
  PROVE  \E f \in [0 .. n -> S] : Turns(f, x, G, n)
<1> DEFINE P == {m \in Nat : \E f \in [0 .. m -> S] : Turns(f, x, G, m)}
<1>1. 0 \in P
  <2> DEFINE f == [k \in 0 .. 0 |-> x]
  <2>1. f \in [0 .. 0 -> S] /\ Turns(f, x, G, 0)
    BY DEF Turns
  <2>2. QED
    BY <2>1
<1>2. ASSUME NEW m \in P
      PROVE  m + 1 \in P
  <2>1. PICK f \in [0 .. m -> S] : Turns(f, x, G, m)
    BY <1>2
  <2> DEFINE g == [k \in 0 .. m + 1 |-> IF k = m + 1 THEN G[m][f[m]] ELSE f[k]]
  <2>2. m \in Nat /\ f[m] \in S /\ G[m][f[m]] \in S
    OBVIOUS
  <2>3. g \in [0 .. m + 1 -> S]
    BY <2>2
  <2>4. \A k \in 0 .. m : g[k] = f[k]
    BY <2>2
  <2>5. ASSUME NEW k \in 0 .. m
        PROVE  g[k + 1] = G[k][g[k]]
    <3>1. CASE k = m
      BY <2>2, <2>4, <3>1
    <3>2. CASE k # m
      <4>1. k \in 0 .. m - 1 /\ k + 1 \in 0 .. m
        BY <2>2, <3>2
      <4>2. g[k + 1] = f[k + 1] /\ g[k] = f[k]
        BY <2>4, <4>1
      <4>3. QED
        BY <2>1, <4>1, <4>2 DEF Turns
    <3>3. QED
      BY <3>1, <3>2
  <2>6. Turns(g, x, G, m + 1)
    <3>1. g[0] = x
      BY <2>1, <2>2, <2>4 DEF Turns
    <3>2. 0 .. (m + 1) - 1 = 0 .. m
      BY <2>2
    <3> HIDE DEF g
    <3>3. QED
      BY <2>5, <3>1, <3>2 DEF Turns
  <2>7. QED
    BY <2>2, <2>3, <2>6
<1>3. P = Nat
  <2> HIDE DEF P
  <2>1. P \in SUBSET Nat
    BY DEF P
  <2>2. QED
    BY <1>1, <1>2, <2>1, AllNaturals
<1>4. QED
  BY <1>3

\* The same turns give the same values.
LEMMA SameTurns ==
  ASSUME NEW x, NEW G, NEW n \in Nat, NEW f, NEW g, Turns(f, x, G, n), Turns(g, x, G, n)
  PROVE  \A k \in 0 .. n : f[k] = g[k]
<1> DEFINE P == {k \in 0 .. n : f[k] = g[k]}
<1>1. 0 \in P
  BY DEF Turns
<1>2. ASSUME NEW k \in 0 .. n - 1, k \in P
      PROVE  k + 1 \in P
  BY <1>2 DEF Turns
<1>3. \A k \in 0 .. n : k \in P
  <2> HIDE DEF P
  <2>1. QED
    BY <1>1, <1>2, AllUpTo
<1>4. QED
  BY <1>3

\* The same for ever.
AlwaysTurns(f, x, G) == f[0] = x /\ \A n \in Nat : f[n + 1] = G[n][f[n]]

\* There are functions that go on so.
LEMMA EndlessTurns ==
  ASSUME NEW S, NEW x \in S, NEW G \in [Nat -> [S -> S]]
  PROVE  \E f \in [Nat -> S] : AlwaysTurns(f, x, G)
<1> DEFINE upTo(n) == CHOOSE f \in [0 .. n -> S] : Turns(f, x, G, n)
           f == [n \in Nat |-> upTo(n)[n]]
<1>1. ASSUME NEW n \in Nat
      PROVE  upTo(n) \in [0 .. n -> S] /\ Turns(upTo(n), x, G, n)
  BY SomeTurns
<1> HIDE DEF upTo
<1>2. f \in [Nat -> S]
  BY <1>1
<1>3. f[0] = x
  BY <1>1 DEF Turns
<1>4. ASSUME NEW n \in Nat
      PROVE  f[n + 1] = G[n][f[n]]
  <2>1. Turns(upTo(n + 1), x, G, n + 1) /\ n \in 0 .. n + 1 - 1 /\ n \in 0 .. n /\ n + 1 \in Nat
    BY <1>1
  <2>2. Turns(upTo(n + 1), x, G, n)
    BY <2>1 DEF Turns
  <2>3. upTo(n + 1)[n] = upTo(n)[n]
    BY <1>1, <2>1, <2>2, SameTurns
  <2>4. upTo(n + 1)[n + 1] = G[n][upTo(n + 1)[n]]
    BY <2>1 DEF Turns
  <2>5. QED
    BY <2>1, <2>3, <2>4
<1>5. AlwaysTurns(f, x, G)
  <2> HIDE DEF f
  <2>1. QED
    BY <1>3, <1>4 DEF AlwaysTurns
<1>6. QED
  BY <1>2, <1>5

-----------------------------------------------------------------------------
(* Sequences of sequences, one after another.                              *)

\* The recursion in FlattenSeq.
Flattens(ss, g) ==
  g = [i \in 1 .. Len(ss) |-> IF i = 1 THEN ss[i] ELSE g[i - 1] \o ss[i]]

\* A function f adds up the members of ss from left to right.
AddsUp(ss, f) == f[0] = <<>> /\ \A i \in 1 .. Len(ss) : f[i] = f[i - 1] \o ss[i]

\* Each of its values is the one before with a member added.
LEMMA AddsUpNext ==
  ASSUME NEW ss, Len(ss) \in Nat, NEW f, AddsUp(ss, f), NEW k \in 0 .. Len(ss) - 1
  PROVE  f[k + 1] = f[k] \o ss[k + 1]
<1>1. PICK i \in 1 .. Len(ss) : i = k + 1 /\ i - 1 = k
  OBVIOUS
<1>2. f[i] = f[i - 1] \o ss[i]
  BY Zenon DEF AddsUp
<1>3. QED
  BY <1>1, <1>2, Zenon

\* Then its last value is what FlattenSeq comes to.
LEMMA FlattenValue ==
  ASSUME NEW X, NEW ss \in Seq(Seq(X)), NEW f \in [0 .. Len(ss) -> Seq(X)], AddsUp(ss, f)
  PROVE  FlattenSeq(ss) = f[Len(ss)]
<1> DEFINE n == Len(ss)
           r == [i \in 1 .. n |-> f[i]]
           g == CHOOSE g : Flattens(ss, g)
<1>1. n \in Nat /\ \A i \in 1 .. n : <<>> \o ss[i] = ss[i]
  <2>1. \A i \in 1 .. n : ss[i] \in Seq(X)
    OBVIOUS
  <2>2. QED
    BY <2>1, ConcatEmptySeq
<1>2. f[0] = <<>> /\ \A i \in 1 .. n : f[i] = f[i - 1] \o ss[i]
  BY DEF AddsUp
<1>3. CASE n = 0
  <2>1. ss = <<>> /\ FlattenSeq(ss) = ss
    BY <1>3 DEF FlattenSeq
  <2>2. QED
    BY <1>2, <1>3, <2>1
<1>4. CASE n # 0
  <2>1. Flattens(ss, r)
    <3>1. ASSUME NEW i \in 1 .. n
          PROVE  r[i] = IF i = 1 THEN ss[i] ELSE r[i - 1] \o ss[i]
      <4>1. r[i] = f[i] /\ f[i] = f[i - 1] \o ss[i] /\ ss[i] = <<>> \o ss[i]
        BY <1>1, <1>2
      <4>2. CASE i = 1
        <5>1. i - 1 = 0
          BY <4>2
        <5>2. f[i - 1] = <<>>
          BY <1>2, <5>1
        <5> HIDE DEF r
        <5>3. r[i] = ss[i]
          BY <4>1, <5>2, Zenon
        <5>4. QED
          BY <4>2, <5>3, Zenon
      <4>3. CASE i # 1
        <5>1. i - 1 \in 1 .. n
          BY <1>1, <4>3
        <5>2. r[i - 1] = f[i - 1]
          BY <5>1
        <5> HIDE DEF r
        <5>3. QED
          BY <4>1, <4>3, <5>2, Zenon
      <4>4. QED
        BY <4>2, <4>3
    <3>2. QED
      BY <3>1 DEF Flattens
  <2>2. Flattens(ss, g)
    BY <2>1
  <2> HIDE DEF g, r
  <2>3. FlattenSeq(ss) = g[n]
    BY <1>4, Zenon DEF FlattenSeq, Flattens, g
  <2>4. \A i \in 1 .. n : g[i] = IF i = 1 THEN ss[i] ELSE g[i - 1] \o ss[i]
    BY <2>2, Zenon DEF Flattens
  <2> HIDE DEF n
  <2> DEFINE P == {k \in 0 .. n : k # 0 => g[k] = f[k]}
  <2>5. ASSUME NEW k \in 0 .. n - 1, k \in P
        PROVE  k + 1 \in P
    <3>1. k + 1 \in 1 .. n /\ k + 1 - 1 = k /\ k + 1 \in 0 .. n
      BY <1>1
    <3>2. f[k + 1] = f[k] \o ss[k + 1] /\ ss[k + 1] = <<>> \o ss[k + 1]
      <4>1. f[k + 1] = f[k] \o ss[k + 1]
        BY AddsUpNext, <1>1 DEF n
      <4>2. <<>> \o ss[k + 1] = ss[k + 1]
        BY <1>1, <3>1, Zenon
      <4>3. QED
        BY <4>1, <4>2, Zenon
    <3>3. g[k + 1] = IF k + 1 = 1 THEN ss[k + 1] ELSE g[k] \o ss[k + 1]
      <4>1. PICK i \in 1 .. n : i = k + 1 /\ i - 1 = k
        BY <3>1
      <4>2. g[i] = IF i = 1 THEN ss[i] ELSE g[i - 1] \o ss[i]
        BY <2>4, Zenon
      <4>3. QED
        BY <4>1, <4>2, Zenon
    <3>4. CASE k = 0
      <4>1. f[k] = <<>> /\ k + 1 = 1
        <5>1. f[k] = <<>>
          BY <1>2, <3>4, Zenon
        <5>2. QED
          BY <3>4, <5>1
      <4>2. f[k + 1] = g[k + 1]
        BY <3>2, <3>3, <4>1, Zenon
      <4>3. QED
        BY <3>1, <4>2, Zenon
    <3>5. CASE k # 0
      <4>1. g[k] = f[k] /\ k + 1 # 1
        BY <2>5, <3>5
      <4>2. f[k + 1] = g[k + 1]
        BY <3>2, <3>3, <4>1, Zenon
      <4>3. QED
        BY <3>1, <4>2, Zenon
    <3>6. QED
      BY <3>4, <3>5
  <2>6. n \in P
    <3>1. 0 \in P /\ n \in 0 .. n
      BY <1>1
    <3> HIDE DEF P
    <3>2. \A k \in 0 .. n : k \in P
      BY <1>1, <2>5, <3>1, AllUpTo, Zenon
    <3>3. QED
      BY <3>1, <3>2, Zenon
  <2>7. g[n] = f[n]
    BY <1>4, <2>6, Zenon
  <2>8. QED
    BY <2>3, <2>7, Zenon DEF n
<1>5. QED
  BY <1>3, <1>4

\* And there is one.
LEMMA FlattenTurns ==
  ASSUME NEW X, NEW ss \in Seq(Seq(X))
  PROVE  \E f \in [0 .. Len(ss) -> Seq(X)] : AddsUp(ss, f) /\ FlattenSeq(ss) = f[Len(ss)]
<1> DEFINE n == Len(ss)
           G == [k \in Nat |-> [v \in Seq(X) |-> IF k + 1 \in 1 .. n THEN v \o ss[k + 1] ELSE v]]
<1>1. n \in Nat /\ \A i \in 1 .. n : ss[i] \in Seq(X)
  OBVIOUS
<1>2. G \in [Nat -> [Seq(X) -> Seq(X)]]
  BY <1>1, ConcatProperties
<1>3. <<>> \in Seq(X)
  OBVIOUS
<1>4. ASSUME NEW k \in 0 .. n - 1, NEW v \in Seq(X)
      PROVE  G[k][v] = v \o ss[k + 1]
  <2>1. k \in Nat /\ k + 1 \in 1 .. n
    BY <1>1
  <2>2. QED
    BY <2>1, Zenon
<1> HIDE DEF G
<1>5. PICK h \in [Nat -> Seq(X)] : AlwaysTurns(h, <<>>, G)
  BY <1>2, <1>3, EndlessTurns
<1>15. h[0] = <<>> /\ \A k \in Nat : h[k + 1] = G[k][h[k]]
  BY <1>5 DEF AlwaysTurns
<1> DEFINE f == [k \in 0 .. n |-> h[k]]
<1>6. f \in [0 .. n -> Seq(X)] /\ f[0] = <<>> /\ \A k \in 0 .. n : f[k] = h[k]
  BY <1>1, <1>15
<1>7. ASSUME NEW i \in 1 .. n
      PROVE  f[i] = f[i - 1] \o ss[i]
  <2>1. i - 1 \in Nat /\ i - 1 + 1 = i /\ i - 1 \in 0 .. n /\ i \in 0 .. n /\ i - 1 \in 0 .. n - 1
    BY <1>1
  <2>2. h[i - 1] \in Seq(X)
    BY <2>1
  <2>3. h[i] = G[i - 1][h[i - 1]]
    BY <1>15, <2>1
  <2>4. G[i - 1][h[i - 1]] = h[i - 1] \o ss[i]
    BY <1>4, <2>1, <2>2
  <2> HIDE DEF f
  <2>5. QED
    BY <1>6, <2>1, <2>3, <2>4, Zenon
<1> HIDE DEF f
<1>8. AddsUp(ss, f)
  BY <1>6, <1>7, Zenon DEF AddsUp
<1>9. QED
  BY <1>6, <1>8, FlattenValue, Zenon

\* The result is a sequence of what the members are sequences of.
LEMMA FlattenType ==
  ASSUME NEW X, NEW ss \in Seq(Seq(X))
  PROVE  FlattenSeq(ss) \in Seq(X)
<1>1. PICK f \in [0 .. Len(ss) -> Seq(X)] : FlattenSeq(ss) = f[Len(ss)]
  BY FlattenTurns
<1>2. QED
  BY <1>1

\* One part after the other.
LEMMA FlattenConcat ==
  ASSUME NEW X, NEW ss \in Seq(Seq(X)), NEW tt \in Seq(Seq(X))
  PROVE  FlattenSeq(ss \o tt) = FlattenSeq(ss) \o FlattenSeq(tt)
<1> DEFINE m == Len(ss)
           n == Len(tt)
           both == ss \o tt
<1>1. PICK f \in [0 .. m -> Seq(X)] : AddsUp(ss, f) /\ FlattenSeq(ss) = f[m]
  BY FlattenTurns
<1>2. PICK h \in [0 .. n -> Seq(X)] : AddsUp(tt, h) /\ FlattenSeq(tt) = h[n]
  BY FlattenTurns
<1>3. /\ m \in Nat /\ n \in Nat /\ both \in Seq(Seq(X)) /\ Len(both) = m + n
      /\ \A i \in 1 .. m + n : both[i] = IF i <= m THEN ss[i] ELSE tt[i - m]
  BY ConcatProperties
<1> DEFINE g == [i \in 0 .. m + n |-> IF i <= m THEN f[i] ELSE f[m] \o h[i - m]]
<1>14. ASSUME NEW a \in Seq(X), NEW b \in Seq(X), NEW c \in Seq(X)
      PROVE  (a \o b) \o c = a \o (b \o c)
  BY ConcatAssociative
<1>4. g \in [0 .. m + n -> Seq(X)]
  <2>1. ASSUME NEW i \in 0 .. m + n
        PROVE  (IF i <= m THEN f[i] ELSE f[m] \o h[i - m]) \in Seq(X)
    <3>1. CASE i <= m
      <4>1. i \in 0 .. m
        BY <1>3, <3>1
      <4>2. f[i] \in Seq(X)
        BY <4>1
      <4>3. QED
        BY <3>1, <4>2, Zenon
    <3>2. CASE ~ (i <= m)
      <4>1. i - m \in 0 .. n /\ m \in 0 .. m
        BY <1>3, <3>2
      <4>2. f[m] \in Seq(X) /\ h[i - m] \in Seq(X)
        BY <4>1
      <4>3. f[m] \o h[i - m] \in Seq(X)
        BY <4>2, ConcatProperties, Zenon
      <4>4. QED
        BY <3>2, <4>3, Zenon
    <3>3. QED
      BY <3>1, <3>2
  <2>2. QED
    BY <2>1
<1>5. AddsUp(both, g)
  <2>1. g[0] = <<>>
    BY <1>1, <1>3 DEF AddsUp
  <2>2. ASSUME NEW i \in 1 .. m + n
        PROVE  g[i] = g[i - 1] \o both[i]
    <3>1. CASE i <= m
      <4>1. i \in 1 .. m /\ i \in 0 .. m + n /\ i - 1 \in 0 .. m + n /\ i - 1 <= m
        BY <1>3, <3>1
      <4>2. f[i] = f[i - 1] \o ss[i] /\ both[i] = ss[i]
        BY <1>1, <1>3, <3>1, <4>1 DEF AddsUp
      <4>3. QED
        BY <3>1, <4>1, <4>2
    <3>2. CASE ~ (i <= m)
      <4>1. /\ i - m \in 1 .. n /\ i - m - 1 \in 0 .. n /\ i - m \in 0 .. n /\ m \in 0 .. m
            /\ i \in 0 .. m + n /\ i - 1 \in 0 .. m + n /\ i - 1 - m = i - m - 1
        BY <1>3, <3>2
      <4>2. h[i - m] = h[i - m - 1] \o tt[i - m] /\ both[i] = tt[i - m] /\ tt[i - m] \in Seq(X)
        <5>1. h[i - m] = h[i - m - 1] \o tt[i - m]
          BY <1>2, <4>1 DEF AddsUp
        <5>2. both[i] = tt[i - m]
          BY <1>3, <3>2, <4>1
        <5>3. tt[i - m] \in Seq(X)
          BY <4>1
        <5>4. QED
          BY <5>1, <5>2, <5>3, Zenon
      <4>3. g[i] = f[m] \o h[i - m]
        BY <3>2, <4>1
      <4>4. g[i - 1] = f[m] \o h[i - m - 1]
        <5>1. CASE i - 1 <= m
          <6>1. i - 1 = m /\ i - m - 1 = 0
            <7>1. ASSUME NEW j \in Nat, NEW k \in Int, ~ k <= j, k - 1 <= j
                  PROVE  k - 1 = j /\ k - j - 1 = 0
              BY <7>1
            <7>2. m \in Nat /\ i \in Int
              BY <1>3
            <7>3. QED
              BY <3>2, <5>1, <7>1, <7>2, Zenon
          <6>2. g[i - 1] = f[m] /\ h[i - m - 1] = <<>>
            BY <1>2, <4>1, <6>1 DEF AddsUp
          <6>3. QED
            BY <4>1, <6>2, ConcatEmptySeq
        <5>2. CASE ~ (i - 1 <= m)
          BY <4>1, <5>2
        <5>3. QED
          BY <5>1, <5>2
      <4>5. f[m] \in Seq(X) /\ h[i - m - 1] \in Seq(X)
        BY <4>1
      <4> HIDE DEF g, both
      <4>6. (f[m] \o h[i - m - 1]) \o tt[i - m] = f[m] \o (h[i - m - 1] \o tt[i - m])
        BY <1>14, <4>2, <4>5, Zenon
      <4>7. QED
        BY <4>2, <4>3, <4>4, <4>6, Zenon
    <3>3. QED
      BY <3>1, <3>2
  <2> HIDE DEF g, both
  <2>3. QED
    BY <1>3, <2>1, <2>2 DEF AddsUp
<1>6. FlattenSeq(both) = g[m + n]
  <2> HIDE DEF g, both
  <2>1. QED
    BY <1>3, <1>4, <1>5, FlattenValue
<1>7. g[m + n] = f[m] \o h[n]
  <2>1. CASE n = 0
    <3>1. g[m + n] = f[m] /\ h[n] = <<>> /\ m \in 0 .. m
      BY <1>2, <1>3, <2>1 DEF AddsUp
    <3>2. QED
      BY <3>1, ConcatEmptySeq
  <2>2. CASE n # 0
    <3>1. m + n \in 0 .. m + n /\ ~ (m + n <= m) /\ m + n - m = n
      BY <1>3, <2>2
    <3>2. QED
      BY <3>1
  <2>3. QED
    BY <2>1, <2>2
<1>8. QED
  BY <1>1, <1>2, <1>6, <1>7

\* One member.
LEMMA FlattenOne ==
  ASSUME NEW X, NEW s \in Seq(X)
  PROVE  FlattenSeq(<<s>>) = s
<1> DEFINE ss == <<s>>
<1>1. ss \in Seq(Seq(X)) /\ Len(ss) = 1 /\ ss[1] = s
  OBVIOUS
<1> HIDE DEF ss
<1>2. PICK f \in [0 .. 1 -> Seq(X)] : AddsUp(ss, f) /\ FlattenSeq(ss) = f[1]
  BY <1>1, FlattenTurns
<1>3. f[1] = <<>> \o s
  <2>1. f[1] = f[1 - 1] \o ss[1] /\ f[0] = <<>> /\ 1 - 1 = 0
    BY <1>1, <1>2 DEF AddsUp
  <2>2. QED
    BY <1>1, <2>1
<1>4. FlattenSeq(ss) = s
  BY <1>2, <1>3, ConcatEmptySeq
<1>5. QED
  BY <1>4 DEF ss

\* A sequence of single elements.
LEMMA FlattenSingletons ==
  ASSUME NEW X, NEW s \in Seq(X)
  PROVE  FlattenSeq([i \in DOMAIN s |-> <<s[i]>>]) = s
<1> DEFINE n == Len(s)
           ss == [i \in DOMAIN s |-> <<s[i]>>]
           f == [i \in 0 .. n |-> SubSeq(s, 1, i)]
<1>1. n \in Nat /\ DOMAIN s = 1 .. n /\ \A i \in 1 .. n : s[i] \in X
  OBVIOUS
<1>2. ss \in Seq(Seq(X)) /\ Len(ss) = n /\ \A i \in 1 .. n : ss[i] = <<s[i]>>
  <2>1. \A i \in 1 .. n : <<s[i]>> \in Seq(X)
    BY <1>1
  <2>2. ss \in [1 .. n -> Seq(X)]
    BY <1>1, <2>1
  <2>3. QED
    BY <1>1, <2>2
<1>3. f \in [0 .. n -> Seq(X)]
  <2>1. ASSUME NEW i \in 0 .. n
        PROVE  SubSeq(s, 1, i) \in Seq(X)
    BY <1>1, SubSeqProperties
  <2>2. QED
    BY <2>1
<1>4. f[0] = <<>>
  BY <1>1, SubSeqEmpty
<1>5. ASSUME NEW i \in 1 .. n
      PROVE  f[i] = f[i - 1] \o ss[i]
  <2>1. SubSeq(s, 1, i) = SubSeq(s, 1, i - 1) \o <<s[i]>>
    BY <1>1, SubSeqRecursiveSecond
  <2>2. i \in 0 .. n /\ i - 1 \in 0 .. n
    BY <1>1
  <2>3. QED
    BY <1>2, <2>1, <2>2
<1>6. f[n] = s
  BY <1>1, SubSeqFull
<1>7. AddsUp(ss, f)
  <2> HIDE DEF f, ss
  <2>1. QED
    BY <1>2, <1>4, <1>5 DEF AddsUp
<1>8. QED
  <2> HIDE DEF f, ss
  <2>1. FlattenSeq(ss) = s
    BY <1>2, <1>3, <1>6, <1>7, FlattenValue
  <2>2. QED
    BY <2>1 DEF ss

\* The elements of a sequence.
Elements(s) == {s[i] : i \in 1 .. Len(s)}

\* Those of two sequences in a row.
LEMMA ElementsOfConcat ==
  ASSUME NEW X, NEW s \in Seq(X), NEW t \in Seq(X)
  PROVE  Elements(s \o t) = Elements(s) \cup Elements(t)
<1> DEFINE m == Len(s)
           n == Len(t)
           st == s \o t
<1>1. /\ m \in Nat /\ n \in Nat /\ Len(st) = m + n
      /\ \A i \in 1 .. m + n : st[i] = IF i <= m THEN s[i] ELSE t[i - m]
  BY ConcatProperties
<1>2. ASSUME NEW i \in 1 .. m + n
      PROVE  st[i] \in Elements(s) \cup Elements(t)
  <2>1. CASE i <= m
    <3>1. i \in 1 .. m /\ st[i] = s[i]
      BY <1>1, <2>1
    <3>2. QED
      BY <3>1 DEF Elements
  <2>2. CASE ~ (i <= m)
    <3>1. i - m \in 1 .. n /\ st[i] = t[i - m]
      BY <1>1, <2>2
    <3>2. QED
      BY <3>1 DEF Elements
  <2>3. QED
    BY <2>1, <2>2
<1>3. ASSUME NEW i \in 1 .. m
      PROVE  s[i] \in Elements(st)
  <2>1. i \in 1 .. m + n /\ st[i] = s[i]
    BY <1>1
  <2> HIDE DEF st
  <2>2. QED
    BY <1>1, <2>1 DEF Elements
<1>4. ASSUME NEW i \in 1 .. n
      PROVE  t[i] \in Elements(st)
  <2>1. m + i \in 1 .. m + n /\ ~ (m + i <= m) /\ m + i - m = i
    BY <1>1
  <2>2. st[m + i] = t[i]
    BY <1>1, <2>1
  <2> HIDE DEF st
  <2>3. QED
    BY <1>1, <2>1, <2>2 DEF Elements
<1> HIDE DEF st
<1>5. Elements(st) \subseteq Elements(s) \cup Elements(t)
  <2>1. \A i \in 1 .. Len(st) : st[i] \in Elements(s) \cup Elements(t)
    BY <1>1, <1>2
  <2>2. QED
    BY <2>1, Zenon DEF Elements
<1>6. Elements(s) \subseteq Elements(st) /\ Elements(t) \subseteq Elements(st)
  BY <1>3, <1>4, Zenon DEF Elements
<1>7. QED
  BY <1>5, <1>6, Zenon DEF st

\* The elements of the result are those of the members.
LEMMA FlattenElements ==
  ASSUME NEW X, NEW ss \in Seq(Seq(X))
  PROVE  Elements(FlattenSeq(ss)) = UNION {Elements(ss[i]) : i \in 1 .. Len(ss)}
<1> DEFINE n == Len(ss)
<1>1. PICK f \in [0 .. n -> Seq(X)] : AddsUp(ss, f) /\ FlattenSeq(ss) = f[n]
  BY FlattenTurns
<1>2. n \in Nat /\ \A i \in 1 .. n : ss[i] \in Seq(X)
  OBVIOUS
<1> DEFINE P == {k \in 0 .. n : Elements(f[k]) = UNION {Elements(ss[i]) : i \in 1 .. k}}
<1>3. 0 \in P
  BY <1>1, <1>2 DEF AddsUp, Elements
<1>4. ASSUME NEW k \in 0 .. n - 1, k \in P
      PROVE  k + 1 \in P
  <2>1. k + 1 \in 1 .. n /\ k + 1 - 1 = k /\ 1 .. k + 1 = (1 .. k) \cup {k + 1}
    BY <1>2
  <2>2. f[k + 1] = f[k] \o ss[k + 1]
    BY <1>1, <1>2, AddsUpNext
  <2>3. f[k] \in Seq(X) /\ ss[k + 1] \in Seq(X)
    <3>1. k \in 0 .. n
      BY <1>2
    <3> HIDE DEF n
    <3>2. f[k] \in Seq(X)
      BY <1>1, <3>1
    <3>3. QED
      BY <1>2, <2>1, <3>2, Zenon
  <2>4. Elements(f[k + 1]) = Elements(f[k]) \cup Elements(ss[k + 1])
    BY <2>2, <2>3, ElementsOfConcat
  <2>5. UNION {Elements(ss[i]) : i \in 1 .. k + 1}
          = (UNION {Elements(ss[i]) : i \in 1 .. k}) \cup Elements(ss[k + 1])
    BY <2>1
  <2>6. Elements(f[k]) = UNION {Elements(ss[i]) : i \in 1 .. k}
    BY <1>4
  <2>7. Elements(f[k + 1]) = UNION {Elements(ss[i]) : i \in 1 .. k + 1} /\ k + 1 \in 0 .. n
    BY <1>2, <2>4, <2>5, <2>6
  <2>8. QED
    BY <2>7, Zenon
<1>5. n \in P
  <2> HIDE DEF P
  <2>1. n \in 0 .. n
    BY <1>2
  <2>2. \A k \in 0 .. n : k \in P
    BY <1>2, <1>3, <1>4, AllUpTo, Zenon
  <2>3. QED
    BY <2>1, <2>2, Zenon
<1>6. QED
  BY <1>1, <1>5

-----------------------------------------------------------------------------
(* Graphs: G gives every node of a finite set N its successors in N.       *)

\* The successors of the members of S, and all that S leads to: what every set
\* has that has S and is closed under successors.
After(G, S) == UNION {G[n] : n \in S}
Closure(N, G, S) == {m \in N : \A C \in SUBSET N : S \subseteq C /\ After(G, C) \subseteq C => m \in C}

\* It is such a set itself, and the least of them.
LEMMA ClosureIsLeast ==
  ASSUME NEW N, NEW G \in [N -> SUBSET N], NEW S \in SUBSET N
  PROVE  /\ Closure(N, G, S) \in SUBSET N
         /\ S \subseteq Closure(N, G, S)
         /\ After(G, Closure(N, G, S)) \subseteq Closure(N, G, S)
         /\ \A C \in SUBSET N : S \subseteq C /\ After(G, C) \subseteq C => Closure(N, G, S) \subseteq C
<1>1. Closure(N, G, S) \in SUBSET N /\ S \subseteq Closure(N, G, S)
  BY DEF Closure
<1>2. \A C \in SUBSET N : S \subseteq C /\ After(G, C) \subseteq C => Closure(N, G, S) \subseteq C
  BY DEF Closure
<1>3. ASSUME NEW n \in Closure(N, G, S), NEW m \in G[n]
      PROVE  m \in Closure(N, G, S)
  <2>1. n \in N /\ m \in N
    BY <1>1
  <2>2. ASSUME NEW C \in SUBSET N, S \subseteq C, After(G, C) \subseteq C
        PROVE  m \in C
    <3>1. n \in C
      BY <1>2, <2>2
    <3>2. QED
      BY <2>2, <3>1 DEF After
  <2>3. QED
    BY <2>1, <2>2 DEF Closure
<1>4. After(G, Closure(N, G, S)) \subseteq Closure(N, G, S)
  BY <1>3, Zenon DEF After
<1>5. QED
  BY <1>1, <1>2, <1>4

\* Fewer nodes lead to less.
LEMMA ClosureGrows ==
  ASSUME NEW N, NEW G \in [N -> SUBSET N], NEW S \in SUBSET N, NEW T \in SUBSET N,
         S \subseteq Closure(N, G, T)
  PROVE  Closure(N, G, S) \subseteq Closure(N, G, T)
<1>1. Closure(N, G, T) \in SUBSET N /\ After(G, Closure(N, G, T)) \subseteq Closure(N, G, T)
  BY ClosureIsLeast
<1>2. QED
  BY <1>1, ClosureIsLeast

\* Whatever S leads to is led to by one of its members.
LEMMA ClosureOfMembers ==
  ASSUME NEW N, NEW G \in [N -> SUBSET N], NEW S \in SUBSET N, NEW n \in Closure(N, G, S)
  PROVE  \E m \in S : n \in Closure(N, G, {m})
<1> DEFINE C == UNION {Closure(N, G, {m}) : m \in S}
<1>1. ASSUME NEW m \in S
      PROVE  /\ m \in Closure(N, G, {m}) /\ Closure(N, G, {m}) \in SUBSET N
             /\ After(G, Closure(N, G, {m})) \subseteq Closure(N, G, {m})
  <2>1. {m} \in SUBSET N
    OBVIOUS
  <2>2. QED
    BY <2>1, ClosureIsLeast
<1>2. C \in SUBSET N /\ S \subseteq C
  BY <1>1
<1>3. After(G, C) \subseteq C
  <2>1. ASSUME NEW k \in C, NEW x \in G[k]
        PROVE  x \in C
    <3>1. PICK m \in S : k \in Closure(N, G, {m})
      OBVIOUS
    <3>2. x \in Closure(N, G, {m})
      BY <1>1, <3>1, Zenon DEF After
    <3>3. QED
      BY <3>2
  <2> HIDE DEF C
  <2>2. QED
    BY <2>1, Zenon DEF After
<1>4. n \in C
  <2> HIDE DEF C
  <2>1. QED
    BY <1>2, <1>3, ClosureIsLeast
<1>5. QED
  BY <1>4

\* What one node leads to is that node and what its successors lead to.
LEMMA ClosureOfOne ==
  ASSUME NEW N, NEW G \in [N -> SUBSET N], NEW m \in N, NEW n \in Closure(N, G, {m}), n # m
  PROVE  n \in Closure(N, G, G[m])
<1> DEFINE C == {m} \cup Closure(N, G, G[m])
<1>1. /\ G[m] \in SUBSET N /\ {m} \in SUBSET N
      /\ Closure(N, G, G[m]) \in SUBSET N /\ G[m] \subseteq Closure(N, G, G[m])
      /\ After(G, Closure(N, G, G[m])) \subseteq Closure(N, G, G[m])
  BY ClosureIsLeast
<1>2. After(G, C) \subseteq C
  BY <1>1 DEF After
<1>3. C \in SUBSET N
  BY <1>1
<1>4. n \in C
  <2> HIDE DEF C
  <2>1. {m} \subseteq C
    BY DEF C
  <2>2. QED
    BY <1>1, <1>2, <1>3, <2>1, ClosureIsLeast
<1>5. QED
  BY <1>4

\* Steps that add successors have added all that S leads to when there are as
\* many of them as there are nodes.
LEMMA ClosureInSteps ==
  ASSUME NEW N, IsFiniteSet(N), NEW G \in [N -> SUBSET N], NEW S \in SUBSET N, NEW w,
         w[0] = S, \A k \in 0 .. Cardinality(N) - 1 : w[k + 1] = w[k] \cup After(G, w[k])
  PROVE  w[Cardinality(N)] = Closure(N, G, S)
<1> DEFINE c == Cardinality(N)
           R == Closure(N, G, S)
<1>1. c \in Nat
  BY FS_CardinalityType
<1>2. R \in SUBSET N /\ S \subseteq R /\ After(G, R) \subseteq R
  BY ClosureIsLeast
<1> HIDE DEF R
<1> DEFINE P == {k \in 0 .. c : /\ w[k] \subseteq R /\ S \subseteq w[k]
                                /\ Cardinality(w[k]) >= k \/ After(G, w[k]) \subseteq w[k]}
<1>3. 0 \in P
  <2>1. IsFiniteSet(S) /\ Cardinality(S) \in Nat
    BY FS_Subset, FS_CardinalityType
  <2>2. QED
    BY <1>1, <1>2, <2>1
<1>4. ASSUME NEW k \in 0 .. c - 1, k \in P
      PROVE  k + 1 \in P
  <2>1. w[k + 1] = w[k] \cup After(G, w[k]) /\ w[k] \subseteq R /\ S \subseteq w[k]
    BY <1>4
  <2>2. w[k + 1] \subseteq R /\ S \subseteq w[k + 1]
    BY <1>2, <2>1 DEF After
  <2>3. CASE After(G, w[k]) \subseteq w[k]
    <3>1. w[k + 1] = w[k]
      BY <2>1, <2>3
    <3>2. QED
      BY <1>1, <2>2, <2>3, <3>1
  <2>4. CASE ~ (After(G, w[k]) \subseteq w[k])
    <3>1. Cardinality(w[k]) >= k
      BY <1>4, <2>4
    <3>2. IsFiniteSet(w[k + 1])
      BY <1>2, <2>2, FS_Subset
    <3>3. w[k] \in SUBSET w[k + 1] /\ w[k] # w[k + 1]
      BY <2>1, <2>4
    <3>4. /\ IsFiniteSet(w[k]) /\ Cardinality(w[k]) <= Cardinality(w[k + 1])
          /\ Cardinality(w[k]) # Cardinality(w[k + 1])
      BY <3>2, <3>3, FS_Subset
    <3>5. Cardinality(w[k]) \in Nat /\ Cardinality(w[k + 1]) \in Nat
      BY <3>2, <3>4, FS_CardinalityType
    <3>6. Cardinality(w[k + 1]) >= k + 1
      BY <1>1, <3>1, <3>4, <3>5
    <3>7. QED
      BY <1>1, <2>2, <3>6
  <2>5. QED
    BY <2>3, <2>4
<1>5. c \in P
  <2> HIDE DEF P
  <2>1. c \in 0 .. c
    BY <1>1
  <2> HIDE DEF c
  <2>2. \A k \in 0 .. c : k \in P
    BY <1>1, <1>3, <1>4, AllUpTo
  <2>3. QED
    BY <2>1, <2>2
<1>6. w[c] \subseteq R /\ S \subseteq w[c]
  BY <1>5
<1>7. After(G, w[c]) \subseteq w[c]
  <2>1. CASE Cardinality(w[c]) >= c
    <3>1. w[c] \in SUBSET N
      BY <1>2, <1>6
    <3>2. Cardinality(w[c]) <= c /\ IsFiniteSet(w[c]) /\ (Cardinality(w[c]) = c => w[c] = N)
      BY <3>1, FS_Subset
    <3>3. Cardinality(w[c]) \in Nat
      BY <3>2, FS_CardinalityType
    <3>4. w[c] = N
      BY <1>1, <2>1, <3>2, <3>3
    <3>5. After(G, N) \subseteq N
      BY DEF After
    <3>6. QED
      BY <3>4, <3>5
  <2>2. QED
    BY <1>5, <2>1
<1>8. R \subseteq w[c]
  <2>1. w[c] \in SUBSET N
    BY <1>2, <1>6
  <2> HIDE DEF c
  <2>2. QED
    BY <1>6, <1>7, <2>1, ClosureIsLeast DEF R
<1>9. QED
  BY <1>6, <1>8 DEF R

\* q[k] are the nodes at the end of a walk of k steps that starts in S.
Walks(G, S, q) == q[0] = S /\ \A k \in Nat : q[k + 1] = After(G, q[k])

\* S leads to all of them.
LEMMA WalksStay ==
  ASSUME NEW N, NEW G \in [N -> SUBSET N], NEW S \in SUBSET N, NEW q, Walks(G, S, q)
  PROVE  \A k \in Nat : q[k] \subseteq Closure(N, G, S)
<1> DEFINE R == Closure(N, G, S)
           P == {k \in Nat : q[k] \subseteq R}
<1>1. R \in SUBSET N /\ S \subseteq R /\ After(G, R) \subseteq R
  BY ClosureIsLeast
<1> HIDE DEF R
<1>2. 0 \in P
  BY <1>1 DEF Walks
<1>3. ASSUME NEW k \in P
      PROVE  k + 1 \in P
  <2>1. k \in Nat /\ q[k + 1] = After(G, q[k]) /\ q[k] \subseteq R
    BY DEF Walks
  <2>2. After(G, q[k]) \subseteq R
    BY <1>1, <2>1 DEF After
  <2>3. QED
    BY <2>1, <2>2
<1>4. P = Nat
  <2> HIDE DEF P
  <2>1. P \in SUBSET Nat
    BY DEF P
  <2>2. QED
    BY <1>2, <1>3, <2>1, AllNaturals
<1>5. QED
  BY <1>4 DEF R

\* When S leads to no circle, no walk has as many steps as there are nodes.
LEMMA WalksEnd ==
  ASSUME NEW N, IsFiniteSet(N), NEW G \in [N -> SUBSET N], NEW S \in SUBSET N, NEW q, Walks(G, S, q),
         \A n \in Closure(N, G, S) : n \notin Closure(N, G, G[n])
  PROVE  q[Cardinality(N)] = {}
<1> DEFINE c == Cardinality(N)
           R == Closure(N, G, S)
           A(n) == Closure(N, G, G[n])
<1>1. c \in Nat /\ R \in SUBSET N
  BY FS_CardinalityType, ClosureIsLeast
<1>2. ASSUME NEW n \in N
      PROVE  A(n) \in SUBSET N /\ IsFiniteSet(A(n)) /\ Cardinality(A(n)) \in Nat
  <2>1. G[n] \in SUBSET N
    OBVIOUS
  <2>2. A(n) \in SUBSET N
    BY <2>1, ClosureIsLeast
  <2> HIDE DEF A
  <2>3. QED
    BY <2>2, FS_Subset, FS_CardinalityType
<1>3. ASSUME NEW n \in N, NEW B \in SUBSET N, IsFiniteSet(B), A(n) \subseteq B, n \in B, n \notin A(n)
      PROVE  Cardinality(A(n)) < Cardinality(B)
  <2> HIDE DEF A
  <2>1. A(n) \in SUBSET B /\ A(n) # B
    BY <1>3
  <2>2. Cardinality(A(n)) <= Cardinality(B) /\ Cardinality(B) # Cardinality(A(n))
    BY <1>3, <2>1, FS_Subset
  <2>3. Cardinality(B) \in Nat
    BY <1>3, FS_CardinalityType
  <2>4. QED
    BY <1>2, <2>2, <2>3
<1> DEFINE P == {k \in Nat : \A n \in q[k] : Cardinality(A(n)) + k < c}
<1>4. \A k \in Nat : q[k] \subseteq R
  BY WalksStay
<1>5. 0 \in P
  <2>1. ASSUME NEW n \in q[0]
        PROVE  Cardinality(A(n)) + 0 < c
    <3>1. n \in R /\ n \in N
      BY <1>1, <1>4
    <3>2. n \notin A(n)
      BY <3>1
    <3> HIDE DEF A
    <3>3. Cardinality(A(n)) < c
      BY <1>2, <1>3, <3>1, <3>2
    <3>4. QED
      BY <1>2, <3>1, <3>3
  <2>2. QED
    BY <2>1
<1>6. ASSUME NEW k \in P
      PROVE  k + 1 \in P
  <2>1. ASSUME NEW n \in q[k + 1]
        PROVE  Cardinality(A(n)) + (k + 1) < c
    <3>1. k \in Nat /\ k + 1 \in Nat
      OBVIOUS
    <3>2. PICK m \in q[k] : n \in G[m]
      BY <3>1 DEF Walks, After
    <3>3. m \in N /\ n \in N /\ n \in R /\ Cardinality(A(m)) + k < c
      BY <1>1, <1>4, <3>1, <3>2
    <3>4. n \notin A(n)
      BY <3>3
    <3>5. n \in A(m) /\ A(n) \subseteq A(m)
      <4>1. G[m] \in SUBSET N /\ G[n] \in SUBSET N
        BY <3>3
      <4>2. G[m] \subseteq A(m) /\ After(G, A(m)) \subseteq A(m)
        BY <4>1, ClosureIsLeast
      <4>3. n \in A(m) /\ G[n] \subseteq A(m)
        <5>1. n \in A(m)
          BY <3>2, <4>2
        <5> HIDE DEF A
        <5>2. G[n] \subseteq A(m)
          BY <4>2, <5>1 DEF After
        <5>3. QED
          BY <5>1, <5>2
      <4>4. QED
        BY <4>1, <4>3, ClosureGrows
    <3> HIDE DEF A
    <3>6. Cardinality(A(n)) < Cardinality(A(m))
      BY <1>2, <1>3, <3>3, <3>4, <3>5
    <3>7. QED
      BY <1>1, <1>2, <3>1, <3>3, <3>6
  <2>2. QED
    BY <2>1
<1>7. P = Nat
  <2> HIDE DEF P
  <2>1. P \in SUBSET Nat
    BY DEF P
  <2>2. QED
    BY <1>5, <1>6, <2>1, AllNaturals
<1>8. ASSUME NEW n \in q[c]
      PROVE  FALSE
  <2>1. Cardinality(A(n)) + c < c
    BY <1>1, <1>7
  <2>2. n \in N
    BY <1>1, <1>4
  <2> HIDE DEF A
  <2>3. QED
    BY <1>1, <1>2, <2>1, <2>2
<1>9. QED
  BY <1>8

\* When it does lead to one, there are walks of any length.
LEMMA WalksGoOn ==
  ASSUME NEW N, NEW G \in [N -> SUBSET N], NEW S \in SUBSET N, NEW q, Walks(G, S, q),
         NEW n \in Closure(N, G, S), n \in Closure(N, G, G[n])
  PROVE  \A k \in Nat : q[k] # {}
<1> DEFINE L == {m \in N : n \in Closure(N, G, {m})}
           P == {k \in Nat : \E m \in q[k] : m \in L}
<1>1. ASSUME NEW T \in SUBSET N, n \in Closure(N, G, T)
      PROVE  \E m \in T : m \in L
  <2>1. PICK m \in T : n \in Closure(N, G, {m})
    BY <1>1, ClosureOfMembers
  <2>2. QED
    BY <2>1
<1>2. ASSUME NEW m \in L
      PROVE  n \in Closure(N, G, G[m])
  BY ClosureOfOne
<1> HIDE DEF L
<1>3. 0 \in P
  BY <1>1 DEF Walks
<1>4. ASSUME NEW k \in P
      PROVE  k + 1 \in P
  <2>1. PICK m \in q[k] : m \in L
    OBVIOUS
  <2>2. m \in N /\ G[m] \in SUBSET N
    BY <2>1 DEF L
  <2>3. PICK x \in G[m] : x \in L
    BY <1>1, <1>2, <2>1, <2>2
  <2>4. k \in Nat /\ x \in q[k + 1]
    BY <2>1, <2>3 DEF Walks, After
  <2>5. QED
    BY <2>3, <2>4
<1>5. P = Nat
  <2> HIDE DEF P
  <2>1. P \in SUBSET Nat
    BY DEF P
  <2>2. QED
    BY <1>3, <1>4, <2>1, AllNaturals
<1>6. QED
  BY <1>5

\* What does not change once does not change again, where each value gives the
\* next.
LEMMA Standstill ==
  ASSUME NEW f, NEW k \in Nat, f[k + 1] = f[k], \A i, j \in Nat : f[i] = f[j] => f[i + 1] = f[j + 1]
  PROVE  \A j \in Nat : j >= k => f[j] = f[k]
<1> DEFINE P == {d \in Nat : f[k + d] = f[k]}
<1>1. 0 \in P
  <2>1. k + 0 = k
    OBVIOUS
  <2>2. QED
    BY <2>1
<1>2. ASSUME NEW d \in P
      PROVE  d + 1 \in P
  <2>1. d \in Nat /\ k + d \in Nat /\ k + (d + 1) = k + d + 1 /\ f[k + d] = f[k]
    OBVIOUS
  <2>2. f[k + d + 1] = f[k + 1]
    BY <2>1
  <2>3. f[k + (d + 1)] = f[k]
    BY <2>1, <2>2
  <2>4. QED
    BY <2>1, <2>3
<1>3. P = Nat
  <2> HIDE DEF P
  <2>1. P \in SUBSET Nat
    BY DEF P
  <2>2. QED
    BY <1>1, <1>2, <2>1, AllNaturals
<1>4. ASSUME NEW j \in Nat, j >= k
      PROVE  f[j] = f[k]
  <2>1. j - k \in Nat /\ k + (j - k) = j
    BY <1>4
  <2>2. j - k \in P
    BY <1>3, <2>1, Zenon
  <2>3. f[k + (j - k)] = f[k]
    BY <2>2
  <2>4. QED
    BY <2>1, <2>3
<1>5. QED
  BY <1>4
=============================================================================
