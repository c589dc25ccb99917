------------------------ MODULE AuthenticationProofs ------------------------
(***************************************************************************)
(* Proofs about Authentication, for every configuration, every answer of   *)
(* the peers and every max_response_bytes.                                 *)
(*                                                                         *)
(* What the token is taken from is data, and so the first two thirds are   *)
(* about operators.  That json_pointer_get follows RFC 6901 is an argument *)
(* of four steps: Escape and DecodePart undo each other on what Fit holds  *)
(* for; the indices of an array are the decimal numerals, each of them     *)
(* once; a pointer with one more part is followed one turn further; so,    *)
(* level by level, every place of a document is found by its pointer, and  *)
(* whatever a pointer finds is at a place.  Then come what strip() and     *)
(* _extract_token make of it.  Recursions are reasoned about by the        *)
(* inductions of DataLemmas.                                               *)
(*                                                                         *)
(* The last part is about the exchanges, of which ExchangeInv says what    *)
(* TypeOK and the other properties need: the response is what an answer    *)
(* became.                                                                 *)
(***************************************************************************)
EXTENDS Authentication, DataLemmas

-----------------------------------------------------------------------------
(* The names of members, written and read.                                 *)

\* A sequence that is not empty is a shorter one with an element after it.
LEMMA LastOff ==
  ASSUME NEW X, NEW s \in Seq(X), NEW n \in Nat, Len(s) = n + 1
  PROVE  /\ SubSeq(s, 1, n) \in Seq(X) /\ Len(SubSeq(s, 1, n)) = n /\ s[n + 1] \in X
         /\ s = SubSeq(s, 1, n) \o <<s[n + 1]>>
<1> DEFINE t == SubSeq(s, 1, n)
           c == s[n + 1]
<1>1. DOMAIN s = 1 .. n + 1 /\ \A i \in 1 .. n + 1 : s[i] \in X
  OBVIOUS
<1>2. t \in Seq(X) /\ Len(t) = n /\ \A i \in 1 .. n : t[i] = s[i]
  BY <1>1, SubSeqProperties
<1>3. c \in X
  BY <1>1
<1> HIDE DEF t, c
<1>4. s = t \o <<c>>
  <2>1. /\ t \o <<c>> \in Seq(X) /\ Len(t \o <<c>>) = n + 1
        /\ \A i \in 1 .. n + 1 : (t \o <<c>>)[i] = IF i <= n THEN t[i] ELSE c
    BY <1>2, <1>3
  <2>2. \A i \in 1 .. n + 1 : (t \o <<c>>)[i] = s[i]
    BY <1>2, <2>1 DEF c
  <2>3. QED
    BY <2>1, <2>2, SeqEqual
<1>5. QED
  BY <1>2, <1>3, <1>4 DEF t, c

\* The strings of one character.  That the literals are among them is said, as
\* the provers do not know of it.
Characters == STRING \cup {"~", "/", "0", "1"} \cup Decimals

\* Sequences of members of a larger set.
LEMMA MoreElements ==
  ASSUME NEW A, NEW B, A \subseteq B
  PROVE  Seq(A) \subseteq Seq(B)
OBVIOUS

\* What Escape makes of one character.
Written(c) == CASE c = "~" -> <<"~", "0">> [] c = "/" -> <<"~", "1">> [] OTHER -> <<c>>

\* Which is a sequence of characters.
LEMMA WrittenType ==
  ASSUME NEW c \in Characters
  PROVE  Written(c) \in Seq(Characters)
<1>1. Written(c) \in {<<"~", "0">>, <<"~", "1">>, <<c>>}
  BY Zenon DEF Written
<1>2. ASSUME NEW X, NEW a \in X, NEW b \in X
      PROVE  <<a>> \in Seq(X) /\ <<a, b>> \in Seq(X)
  OBVIOUS
<1>3. "~" \in Characters /\ "0" \in Characters /\ "1" \in Characters
  BY DEF Characters
<1>4. <<"~", "0">> \in Seq(Characters) /\ <<"~", "1">> \in Seq(Characters) /\ <<c>> \in Seq(Characters)
  BY <1>2, <1>3, Zenon
<1>5. QED
  BY <1>1, <1>4

\* What DecodePart makes of the character at i, which depends on the one before.
ReadAt(part, i) ==
  CASE i > 1 /\ part[i - 1] = "~" -> IF part[i] = "0" THEN <<"~">> ELSE <<"/">>
    [] part[i] = "~"              -> <<>>
    [] OTHER                      -> <<part[i]>>

\* Which is one or none.
LEMMA ReadType ==
  ASSUME NEW part \in Seq(Characters), NEW i \in DOMAIN part
  PROVE  ReadAt(part, i) \in Seq(Characters)
<1>1. part[i] \in Characters
  OBVIOUS
<1>2. ReadAt(part, i) \in {<<"~">>, <<"/">>, <<>>, <<part[i]>>}
  BY Zenon DEF ReadAt
<1>3. ASSUME NEW X, NEW a \in X
      PROVE  <<a>> \in Seq(X) /\ <<>> \in Seq(X)
  OBVIOUS
<1>4. "~" \in Characters /\ "/" \in Characters
  BY DEF Characters
<1>5. /\ <<"~">> \in Seq(Characters) /\ <<"/">> \in Seq(Characters)
      /\ <<>> \in Seq(Characters) /\ <<part[i]>> \in Seq(Characters)
  BY <1>1, <1>3, <1>4, Zenon
<1>6. QED
  BY <1>2, <1>5

\* Both are made of what they make of the characters.
LEMMA EscapeParts ==
  ASSUME NEW s \in Seq(Characters)
  PROVE  /\ Escape(s) = FlattenSeq([i \in 1 .. Len(s) |-> Written(s[i])])
         /\ [i \in 1 .. Len(s) |-> Written(s[i])] \in Seq(Seq(Characters))
         /\ Escape(s) \in Seq(Characters)
<1> DEFINE w == [i \in 1 .. Len(s) |-> Written(s[i])]
<1>1. DOMAIN s = 1 .. Len(s) /\ \A i \in 1 .. Len(s) : s[i] \in Characters
  OBVIOUS
<1>2. Escape(s) = FlattenSeq(w)
  BY <1>1, Zenon DEF Escape, Written
<1>3. w \in Seq(Seq(Characters))
  <2>1. \A i \in 1 .. Len(s) : Written(s[i]) \in Seq(Characters)
    BY <1>1, WrittenType
  <2>2. QED
    BY <2>1
<1> HIDE DEF w
<1>4. FlattenSeq(w) \in Seq(Characters)
  BY <1>3, FlattenType
<1>5. QED
  BY <1>2, <1>3, <1>4 DEF w

\* DecodePart joins what it makes of every character, from left to right.
LEMMA DecodeParts ==
  ASSUME NEW s \in Seq(Characters)
  PROVE  /\ DecodePart(s) = FlattenSeq([i \in 1 .. Len(s) |-> ReadAt(s, i)])
         /\ [i \in 1 .. Len(s) |-> ReadAt(s, i)] \in Seq(Seq(Characters))
         /\ DecodePart(s) \in Seq(Characters)
<1> DEFINE w == [i \in 1 .. Len(s) |-> ReadAt(s, i)]
<1>1. DOMAIN s = 1 .. Len(s)
  OBVIOUS
<1>2. DecodePart(s) = FlattenSeq(w)
  BY <1>1, Zenon DEF DecodePart, ReadAt
<1>3. w \in Seq(Seq(Characters))
  <2>1. \A i \in 1 .. Len(s) : ReadAt(s, i) \in Seq(Characters)
    BY <1>1, ReadType
  <2>2. QED
    BY <2>1
<1> HIDE DEF w
<1>4. FlattenSeq(w) \in Seq(Characters)
  BY <1>3, FlattenType
<1>5. QED
  BY <1>2, <1>3, <1>4 DEF w

\* Two sequences in a row.
LEMMA InARow ==
  ASSUME NEW X, NEW s \in Seq(X), NEW t \in Seq(X), NEW r \in Seq(X),
         Len(r) = Len(s) + Len(t),
         \A i \in 1 .. Len(s) : r[i] = s[i],
         \A i \in 1 .. Len(t) : r[Len(s) + i] = t[i]
  PROVE  r = s \o t
<1>1. /\ s \o t \in Seq(X) /\ Len(s \o t) = Len(s) + Len(t)
      /\ \A i \in 1 .. Len(s) + Len(t) : (s \o t)[i] = IF i <= Len(s) THEN s[i] ELSE t[i - Len(s)]
  OBVIOUS
<1>2. ASSUME NEW i \in 1 .. Len(s) + Len(t)
      PROVE  (s \o t)[i] = r[i]
  <2>1. CASE i <= Len(s)
    BY <1>1, <2>1
  <2>2. CASE ~ i <= Len(s)
    <3>1. i - Len(s) \in 1 .. Len(t) /\ Len(s) + (i - Len(s)) = i
      BY <2>2
    <3>2. QED
      BY <1>1, <2>2, <3>1
  <2>3. QED
    BY <2>1, <2>2
<1>3. QED
  BY <1>1, <1>2, SeqEqual

\* One after the other, names are written,
LEMMA EscapeInARow ==
  ASSUME NEW s \in Seq(Characters), NEW t \in Seq(Characters)
  PROVE  Escape(s \o t) = Escape(s) \o Escape(t)
<1> DEFINE W(u) == [i \in 1 .. Len(u) |-> Written(u[i])]
<1>1. /\ s \o t \in Seq(Characters) /\ Len(s) \in Nat /\ Len(t) \in Nat
      /\ Len(s \o t) = Len(s) + Len(t)
      /\ \A i \in 1 .. Len(s) : (s \o t)[i] = s[i]
      /\ \A i \in 1 .. Len(t) : (s \o t)[Len(s) + i] = t[i]
  OBVIOUS
<1>2. /\ W(s \o t) \in Seq(Seq(Characters)) /\ W(s) \in Seq(Seq(Characters)) /\ W(t) \in Seq(Seq(Characters))
      /\ Escape(s \o t) = FlattenSeq(W(s \o t)) /\ Escape(s) = FlattenSeq(W(s))
      /\ Escape(t) = FlattenSeq(W(t))
  BY <1>1, EscapeParts
<1>3. /\ Len(W(s \o t)) = Len(W(s)) + Len(W(t))
      /\ \A i \in 1 .. Len(W(s)) : W(s \o t)[i] = W(s)[i]
      /\ \A i \in 1 .. Len(W(t)) : W(s \o t)[Len(W(s)) + i] = W(t)[i]
  BY <1>1
<1> HIDE DEF W
<1>4. W(s \o t) = W(s) \o W(t)
  BY <1>2, <1>3, InARow, Zenon
<1>5. FlattenSeq(W(s) \o W(t)) = FlattenSeq(W(s)) \o FlattenSeq(W(t))
  BY <1>2, FlattenConcat, Zenon
<1>6. QED
  BY <1>2, <1>4, <1>5, Zenon

\* and read, where the first does not end within an escape.
LEMMA DecodeInARow ==
  ASSUME NEW s \in Seq(Characters), NEW t \in Seq(Characters), Len(s) > 0 => s[Len(s)] # "~"
  PROVE  DecodePart(s \o t) = DecodePart(s) \o DecodePart(t)
<1> DEFINE W(u) == [i \in 1 .. Len(u) |-> ReadAt(u, i)]
<1>1. /\ s \o t \in Seq(Characters) /\ Len(s) \in Nat /\ Len(t) \in Nat
      /\ Len(s \o t) = Len(s) + Len(t)
      /\ \A i \in 1 .. Len(s) : (s \o t)[i] = s[i]
      /\ \A i \in 1 .. Len(t) : (s \o t)[Len(s) + i] = t[i]
  OBVIOUS
<1>2. /\ W(s \o t) \in Seq(Seq(Characters)) /\ W(s) \in Seq(Seq(Characters)) /\ W(t) \in Seq(Seq(Characters))
      /\ DecodePart(s \o t) = FlattenSeq(W(s \o t)) /\ DecodePart(s) = FlattenSeq(W(s))
      /\ DecodePart(t) = FlattenSeq(W(t))
  BY <1>1, DecodeParts
<1>3. ASSUME NEW i \in 1 .. Len(s)
      PROVE  ReadAt(s \o t, i) = ReadAt(s, i)
  <2>1. (s \o t)[i] = s[i]
    BY <1>1
  <2>2. CASE i > 1
    <3>1. i - 1 \in 1 .. Len(s)
      BY <1>1, <2>2
    <3>2. (s \o t)[i - 1] = s[i - 1]
      BY <1>1, <3>1
    <3>3. QED
      BY <2>1, <3>2, Zenon DEF ReadAt
  <2>3. CASE ~ i > 1
    BY <2>1, <2>3, Zenon DEF ReadAt
  <2>4. QED
    BY <2>2, <2>3
<1>4. ASSUME NEW i \in 1 .. Len(t)
      PROVE  ReadAt(s \o t, Len(s) + i) = ReadAt(t, i)
  <2>1. PICK k : k = Len(s) + i /\ k \in Nat
    BY <1>1
  <2>2. (s \o t)[k] = t[i]
    BY <1>1, <2>1
  <2>3. CASE i > 1
    <3>1. i - 1 \in 1 .. Len(t) /\ k - 1 = Len(s) + (i - 1) /\ k > 1
      BY <1>1, <2>1, <2>3
    <3>2. (s \o t)[k - 1] = t[i - 1]
      BY <1>1, <3>1
    <3>3. ReadAt(s \o t, k) = ReadAt(t, i)
      BY <2>2, <2>3, <3>1, <3>2, Zenon DEF ReadAt
    <3>4. QED
      BY <2>1, <3>3
  <2>4. CASE ~ i > 1
    <3>1. k - 1 = Len(s) /\ (k > 1 => Len(s) > 0)
      BY <1>1, <2>1, <2>4
    <3>2. ~ (k > 1 /\ (s \o t)[k - 1] = "~")
      <4>1. ASSUME Len(s) > 0
            PROVE  (s \o t)[Len(s)] = s[Len(s)]
        <5>1. Len(s) \in 1 .. Len(s)
          BY <1>1, <4>1
        <5>2. QED
          BY <1>1, <5>1
      <4>2. QED
        BY <3>1, <4>1
    <3>3. ReadAt(s \o t, k) = ReadAt(t, i)
      BY <2>2, <2>4, <3>2, Zenon DEF ReadAt
    <3>4. QED
      BY <2>1, <3>3
  <2>5. QED
    BY <2>3, <2>4
<1>5. /\ Len(W(s \o t)) = Len(W(s)) + Len(W(t))
      /\ \A i \in 1 .. Len(W(s)) : W(s \o t)[i] = W(s)[i]
      /\ \A i \in 1 .. Len(W(t)) : W(s \o t)[Len(W(s)) + i] = W(t)[i]
  BY <1>1, <1>3, <1>4
<1> HIDE DEF W
<1>6. W(s \o t) = W(s) \o W(t)
  BY <1>2, <1>5, InARow, Zenon
<1>7. FlattenSeq(W(s) \o W(t)) = FlattenSeq(W(s)) \o FlattenSeq(W(t))
  BY <1>2, FlattenConcat, Zenon
<1>8. QED
  BY <1>2, <1>6, <1>7, Zenon

\* Nothing comes of nothing.
LEMMA NothingWritten == Escape(<<>>) = <<>> /\ DecodePart(<<>>) = <<>>
<1>1. FlattenSeq(<<>>) = <<>>
  <2>1. <<>> \in Seq(Seq(Characters)) /\ Len(<<>>) = 0
    OBVIOUS
  <2>2. PICK f \in [0 .. 0 -> Seq(Characters)] : AddsUp(<<>>, f) /\ FlattenSeq(<<>>) = f[0]
    BY <2>1, FlattenTurns
  <2>3. QED
    BY <2>2 DEF AddsUp
<1>2. <<>> \in Seq(Characters) /\ Len(<<>>) = 0
  OBVIOUS
<1>3. Escape(<<>>) = FlattenSeq([i \in 1 .. 0 |-> Written(<<>>[i])])
  BY <1>2, EscapeParts
<1>4. DecodePart(<<>>) = FlattenSeq([i \in 1 .. 0 |-> ReadAt(<<>>, i)])
  BY <1>2, DecodeParts
<1>5. [i \in 1 .. 0 |-> Written(<<>>[i])] = <<>> /\ [i \in 1 .. 0 |-> ReadAt(<<>>, i)] = <<>>
  OBVIOUS
<1>6. QED
  BY <1>1, <1>3, <1>4, <1>5

\* One character is written as Written says,
LEMMA EscapeOne ==
  ASSUME NEW c \in Characters
  PROVE  Escape(<<c>>) = Written(c)
<1>1. <<c>> \in Seq(Characters) /\ Len(<<c>>) = 1 /\ <<c>>[1] = c
  OBVIOUS
<1>2. Escape(<<c>>) = FlattenSeq([i \in 1 .. 1 |-> Written(<<c>>[i])])
  BY <1>1, EscapeParts
<1>3. [i \in 1 .. 1 |-> Written(<<c>>[i])] = <<Written(c)>>
  OBVIOUS
<1>4. FlattenSeq(<<Written(c)>>) = Written(c)
  BY WrittenType, FlattenOne
<1>5. QED
  BY <1>2, <1>3, <1>4

\* and a character that is no tilde is read as it is,
LEMMA DecodeOne ==
  ASSUME NEW c \in Characters, c # "~"
  PROVE  DecodePart(<<c>>) = <<c>>
<1>1. <<c>> \in Seq(Characters) /\ Len(<<c>>) = 1 /\ <<c>>[1] = c
  OBVIOUS
<1>2. DecodePart(<<c>>) = FlattenSeq([i \in 1 .. 1 |-> ReadAt(<<c>>, i)])
  BY <1>1, DecodeParts
<1>3. ReadAt(<<c>>, 1) = <<c>>
  BY <1>1 DEF ReadAt
<1>4. [i \in 1 .. 1 |-> ReadAt(<<c>>, i)] = <<<<c>>>>
  BY <1>3
<1>5. FlattenSeq(<<<<c>>>>) = <<c>>
  BY <1>1, FlattenOne
<1>6. QED
  BY <1>2, <1>4, <1>5

\* a tilde with the digit after it.
LEMMA DecodePair ==
  ASSUME NEW d \in {"0", "1"}
  PROVE  DecodePart(<<"~", d>>) = IF d = "0" THEN <<"~">> ELSE <<"/">>
<1> DEFINE s == <<"~", d>>
           x == IF d = "0" THEN "~" ELSE "/"
<1>1. x \in Characters /\ "~" \in Characters /\ d \in Characters
  BY DEF Characters
<1>2. s \in Seq(Characters) /\ Len(s) = 2 /\ s[1] = "~" /\ s[2] = d
  BY <1>1
<1>3. DecodePart(s) = FlattenSeq([i \in 1 .. 2 |-> ReadAt(s, i)])
  BY <1>2, DecodeParts
<1>4. ReadAt(s, 1) = <<>> /\ ReadAt(s, 2) = <<x>>
  BY <1>2 DEF ReadAt
<1> HIDE DEF s, x
<1>5. [i \in 1 .. 2 |-> ReadAt(s, i)] = <<<<>>>> \o <<<<x>>>>
  BY <1>4
<1>6. <<>> \in Seq(Characters) /\ <<x>> \in Seq(Characters)
  BY <1>1
<1>7. <<<<>>>> \in Seq(Seq(Characters)) /\ <<<<x>>>> \in Seq(Seq(Characters))
  BY <1>6
<1>8. FlattenSeq(<<<<>>>> \o <<<<x>>>>) = FlattenSeq(<<<<>>>>) \o FlattenSeq(<<<<x>>>>)
  BY <1>7, FlattenConcat, Zenon
<1>9. FlattenSeq(<<<<>>>>) = <<>> /\ FlattenSeq(<<<<x>>>>) = <<x>>
  BY <1>6, FlattenOne, Zenon
<1>10. <<>> \o <<x>> = <<x>>
  BY <1>6
<1>11. DecodePart(s) = <<x>>
  BY <1>3, <1>5, <1>8, <1>9, <1>10
<1>12. QED
  BY <1>11 DEF s, x

\* A part of a pointer as it should be.
NoSlash(part) == \A i \in DOMAIN part : part[i] # "/"
Fit(part) == part \in Seq(Characters) /\ WellEscaped(part) /\ NoSlash(part)

\* It does not end with a tilde,
LEMMA FitEnds ==
  ASSUME NEW part, Fit(part), Len(part) > 0
  PROVE  part[Len(part)] # "~"
<1>1. part \in Seq(Characters) /\ \A i \in DOMAIN part : part[i] = "~" => i < Len(part)
  BY DEF Fit, WellEscaped
<1>2. Len(part) \in DOMAIN part /\ ~ Len(part) < Len(part)
  BY <1>1
<1>3. QED
  BY <1>1, <1>2

\* and two in a row are another.
LEMMA FitInARow ==
  ASSUME NEW s, NEW t, Fit(s), Fit(t)
  PROVE  Fit(s \o t)
<1>1. /\ s \in Seq(Characters) /\ t \in Seq(Characters) /\ s \o t \in Seq(Characters)
      /\ Len(s) \in Nat /\ Len(t) \in Nat /\ Len(s \o t) = Len(s) + Len(t)
      /\ DOMAIN s = 1 .. Len(s) /\ DOMAIN t = 1 .. Len(t) /\ DOMAIN (s \o t) = 1 .. Len(s) + Len(t)
      /\ \A i \in 1 .. Len(s) + Len(t) : (s \o t)[i] = IF i <= Len(s) THEN s[i] ELSE t[i - Len(s)]
  BY DEF Fit
<1>2. ASSUME NEW i \in DOMAIN (s \o t)
      PROVE  /\ (s \o t)[i] # "/"
             /\ (s \o t)[i] = "~" => i < Len(s \o t) /\ (s \o t)[i + 1] \in {"0", "1"}
  <2>1. CASE i <= Len(s)
    <3>1. i \in DOMAIN s /\ (s \o t)[i] = s[i]
      BY <1>1, <2>1
    <3>2. s[i] # "/" /\ (s[i] = "~" => i < Len(s) /\ s[i + 1] \in {"0", "1"})
      BY <3>1 DEF Fit, NoSlash, WellEscaped
    <3>3. i < Len(s) => (s \o t)[i + 1] = s[i + 1] /\ i < Len(s \o t)
      BY <1>1
    <3>4. QED
      BY <3>1, <3>2, <3>3
  <2>2. CASE ~ i <= Len(s)
    <3>1. PICK j : j = i - Len(s) /\ j \in DOMAIN t /\ i = Len(s) + j
      BY <1>1, <2>2
    <3>2. (s \o t)[i] = t[j]
      BY <1>1, <2>2, <3>1
    <3>3. t[j] # "/" /\ (t[j] = "~" => j < Len(t) /\ t[j + 1] \in {"0", "1"})
      BY <3>1 DEF Fit, NoSlash, WellEscaped
    <3>4. j < Len(t) => (s \o t)[i + 1] = t[j + 1] /\ i < Len(s \o t)
      <4>1. j < Len(t) =>
              /\ i + 1 \in 1 .. Len(s) + Len(t) /\ ~ i + 1 <= Len(s)
              /\ i + 1 - Len(s) = j + 1 /\ i < Len(s) + Len(t)
        BY <1>1, <2>2, <3>1
      <4>2. QED
        BY <1>1, <4>1
    <3>5. QED
      BY <3>2, <3>3, <3>4
  <2>3. QED
    BY <2>1, <2>2
<1>3. QED
  BY <1>1, <1>2 DEF Fit, NoSlash, WellEscaped

\* What is written of one character is read as that character.
LEMMA OneWrittenAndRead ==
  ASSUME NEW c \in Characters
  PROVE  Fit(Written(c)) /\ DecodePart(Written(c)) = <<c>>
<1>1. CASE c = "~" \/ c = "/"
  <2>1. PICK d \in {"0", "1"} : Written(c) = <<"~", d>> /\ <<c>> = IF d = "0" THEN <<"~">> ELSE <<"/">>
    BY <1>1 DEF Written
  <2>2. "~" \in Characters /\ d \in Characters
    BY DEF Characters
  <2>3. <<"~", d>> \in Seq(Characters) /\ Len(<<"~", d>>) = 2 /\ DOMAIN <<"~", d>> = 1 .. 2
        /\ <<"~", d>>[1] = "~" /\ <<"~", d>>[2] = d
    BY <2>2
  <2>4. Fit(<<"~", d>>)
    BY <2>3 DEF Fit, WellEscaped, NoSlash
  <2>5. QED
    BY <2>1, <2>4, DecodePair
<1>2. CASE c # "~" /\ c # "/"
  <2>1. Written(c) = <<c>>
    BY <1>2 DEF Written
  <2>2. Fit(<<c>>)
    BY <1>2 DEF Fit, WellEscaped, NoSlash
  <2>3. QED
    BY <1>2, <2>1, <2>2, DecodeOne
<1>3. QED
  BY <1>1, <1>2

\* A name that is written is read as that name.
LEMMA WrittenAndRead ==
  ASSUME NEW name \in Seq(Characters)
  PROVE  Fit(Escape(name)) /\ DecodePart(Escape(name)) = name
<1> DEFINE Good(s) == Fit(Escape(s)) /\ DecodePart(Escape(s)) = s
           P == {n \in Nat : \A s \in Seq(Characters) : Len(s) = n => Good(s)}
<1>1. 0 \in P
  <2>1. Fit(<<>>)
    BY DEF Fit, WellEscaped, NoSlash
  <2>2. \A s \in Seq(Characters) : Len(s) = 0 => s = <<>>
    OBVIOUS
  <2>3. Good(<<>>)
    BY <2>1, NothingWritten
  <2> HIDE DEF Good
  <2>4. QED
    BY <2>2, <2>3
<1>2. ASSUME NEW n \in P
      PROVE  n + 1 \in P
  <2>1. n \in Nat /\ n + 1 \in Nat /\ \A s \in Seq(Characters) : Len(s) = n => Good(s)
    OBVIOUS
  <2> HIDE DEF P
  <2>2. ASSUME NEW s \in Seq(Characters), Len(s) = n + 1
        PROVE  Good(s)
    <3>1. /\ SubSeq(s, 1, n) \in Seq(Characters) /\ Len(SubSeq(s, 1, n)) = n
          /\ s[n + 1] \in Characters /\ s = SubSeq(s, 1, n) \o <<s[n + 1]>>
      BY <2>1, <2>2, LastOff
    <3>2. PICK t \in Seq(Characters), c \in Characters : Len(t) = n /\ s = t \o <<c>>
      BY <3>1, Zenon
    <3>3. Good(t)
      BY <2>1, <3>2
    <3>4. <<c>> \in Seq(Characters)
      OBVIOUS
    <3>5. Escape(s) = Escape(t) \o Written(c)
      BY <3>2, <3>4, EscapeInARow, EscapeOne
    <3>6. Fit(Written(c)) /\ DecodePart(Written(c)) = <<c>>
      BY OneWrittenAndRead
    <3>7. Fit(Escape(s))
      BY <3>3, <3>5, <3>6, FitInARow
    <3>8. DecodePart(Escape(t) \o Written(c)) = DecodePart(Escape(t)) \o DecodePart(Written(c))
      <4>1. Escape(t) \in Seq(Characters) /\ Written(c) \in Seq(Characters)
        BY <3>3, <3>6 DEF Fit
      <4>2. Len(Escape(t)) > 0 => Escape(t)[Len(Escape(t))] # "~"
        BY <3>3, FitEnds
      <4>3. QED
        BY <4>1, <4>2, DecodeInARow
    <3>9. QED
      BY <3>2, <3>3, <3>5, <3>6, <3>7, <3>8
  <2> HIDE DEF Good
  <2>3. QED
    BY <2>1, <2>2 DEF P
<1> HIDE DEF Good
<1>3. P \in SUBSET Nat
  OBVIOUS
<1>4. P = Nat
  <2> HIDE DEF P
  <2>1. QED
    BY <1>1, <1>2, <1>3, AllNaturals
<1>5. Len(name) \in Nat
  OBVIOUS
<1>6. Good(name)
  BY <1>4, <1>5
<1>7. QED
  BY <1>6 DEF Good

\* A part that does not end within an escape is fit when what begins with it is.
LEMMA FitBeginning ==
  ASSUME NEW t \in Seq(Characters), NEW u \in Seq(Characters), Fit(t \o u),
         Len(t) > 0 => t[Len(t)] # "~"
  PROVE  Fit(t)
<1>1. /\ Len(t) \in Nat /\ Len(u) \in Nat /\ DOMAIN t = 1 .. Len(t)
      /\ DOMAIN (t \o u) = 1 .. Len(t) + Len(u)
      /\ \A i \in 1 .. Len(t) : (t \o u)[i] = t[i]
  OBVIOUS
<1>2. ASSUME NEW i \in 1 .. Len(t)
      PROVE  t[i] # "/" /\ (t[i] = "~" => i < Len(t) /\ t[i + 1] \in {"0", "1"})
  <2>1. i \in DOMAIN (t \o u) /\ (t \o u)[i] = t[i]
    BY <1>1
  <2>2. t[i] # "/" /\ (t[i] = "~" => (t \o u)[i + 1] \in {"0", "1"})
    BY <2>1, Zenon DEF Fit, NoSlash, WellEscaped
  <2>3. t[i] = "~" => i < Len(t)
    BY <1>1
  <2>4. i < Len(t) => (t \o u)[i + 1] = t[i + 1]
    BY <1>1
  <2>5. QED
    BY <2>2, <2>3, <2>4
<1>3. QED
  BY <1>1, <1>2 DEF Fit, NoSlash, WellEscaped

\* A part that is read and written comes out as it was.
LEMMA ReadAndWritten ==
  ASSUME NEW part, Fit(part)
  PROVE  Escape(DecodePart(part)) = part
<1> DEFINE Good(s) == Escape(DecodePart(s)) = s
           P == {n \in Nat : \A s : Fit(s) /\ Len(s) <= n => Good(s)}
<1>1. ASSUME NEW s, Fit(s), Len(s) = 0
      PROVE  Good(s)
  <2>1. s = <<>>
    BY <1>1 DEF Fit
  <2>2. QED
    BY <2>1, NothingWritten
<1>2. 0 \in P
  <2> HIDE DEF Good
  <2>1. ASSUME NEW s, Fit(s), Len(s) <= 0
        PROVE  Len(s) = 0
    BY <2>1 DEF Fit
  <2>2. QED
    BY <1>1, <2>1
<1>3. ASSUME NEW n \in P
      PROVE  n + 1 \in P
  <2>1. n \in Nat /\ n + 1 \in Nat /\ \A s : Fit(s) /\ Len(s) <= n => Good(s)
    OBVIOUS
  <2> HIDE DEF P
  <2>2. ASSUME NEW s, Fit(s), Len(s) = n + 1
        PROVE  Good(s)
    <3>1. s \in Seq(Characters)
      BY <2>2 DEF Fit
    <3>2. PICK t \in Seq(Characters), c \in Characters : Len(t) = n /\ s = t \o <<c>>
      <4>1. /\ SubSeq(s, 1, n) \in Seq(Characters) /\ Len(SubSeq(s, 1, n)) = n
            /\ s[n + 1] \in Characters /\ s = SubSeq(s, 1, n) \o <<s[n + 1]>>
        BY <2>1, <2>2, <3>1, LastOff
      <4>2. QED
        BY <4>1, Zenon
    <3>3. /\ s[n + 1] = c /\ \A i \in 1 .. n : s[i] = t[i]
          /\ DOMAIN s = 1 .. n + 1 /\ <<c>> \in Seq(Characters)
      BY <2>1, <3>2
    <3>4. /\ c # "/" /\ c # "~"
          /\ \A i \in 1 .. n : s[i] = "~" => s[i + 1] \in {"0", "1"}
      <4>1. n + 1 \in 1 .. n + 1 /\ Len(s) > 0 /\ Len(s) = n + 1
        BY <2>1, <2>2
      <4>2. s[n + 1] # "~"
        BY <2>2, <4>1, FitEnds
      <4>3. \A i \in 1 .. n : i \in 1 .. n + 1
        BY <2>1
      <4>4. \A i \in DOMAIN s : s[i] = "~" => s[i + 1] \in {"0", "1"}
        BY <2>2 DEF Fit, WellEscaped
      <4>5. QED
        BY <2>2, <3>3, <4>1, <4>2, <4>3, <4>4 DEF Fit, NoSlash
    <3>5. CASE n = 0 \/ t[n] # "~"
      <4>a. Fit(t \o <<c>>) /\ (Len(t) > 0 => t[Len(t)] # "~")
        BY <2>1, <2>2, <3>2, <3>5
      <4>1. Fit(t)
        BY <3>3, <4>a, FitBeginning, Zenon
      <4>2. Good(t)
        <5>1. Len(t) <= n
          BY <2>1, <3>2
        <5>2. QED
          BY <2>1, <4>1, <5>1
      <4>3. DecodePart(s) = DecodePart(t) \o <<c>>
        <5>1. DecodePart(t \o <<c>>) = DecodePart(t) \o DecodePart(<<c>>)
          BY <3>3, <4>a, DecodeInARow, Zenon
        <5>2. QED
          BY <3>2, <3>4, <5>1, DecodeOne
      <4>4. Escape(<<c>>) = <<c>>
        BY <3>4, EscapeOne DEF Written
      <4>5. DecodePart(t) \in Seq(Characters)
        BY DecodeParts
      <4>6. Escape(DecodePart(t) \o <<c>>) = Escape(DecodePart(t)) \o Escape(<<c>>)
        BY <3>3, <4>5, EscapeInARow
      <4>7. QED
        BY <3>2, <4>2, <4>3, <4>4, <4>6
    <3>6. CASE n # 0 /\ t[n] = "~"
      <4>1. PICK m \in Nat : n = m + 1
        <5>1. n - 1 \in Nat /\ n = (n - 1) + 1
          BY <2>1, <3>6
        <5>2. QED
          BY <5>1
      <4>2. PICK u \in Seq(Characters) : Len(u) = m /\ t = u \o <<"~">>
        <5>1. /\ SubSeq(t, 1, m) \in Seq(Characters) /\ Len(SubSeq(t, 1, m)) = m
              /\ t = SubSeq(t, 1, m) \o <<t[m + 1]>>
          BY <3>2, <4>1, LastOff
        <5>2. QED
          BY <3>6, <4>1, <5>1
      <4>3. c \in {"0", "1"}
        BY <2>1, <3>2, <3>3, <3>4, <3>6
      <4>4. "~" \in Characters
        BY DEF Characters
      <4>5. s = u \o <<"~", c>> /\ <<"~", c>> \in Seq(Characters)
        <5>1. (u \o <<"~">>) \o <<c>> = u \o <<"~", c>>
          BY <4>4
        <5>2. QED
          BY <3>2, <4>2, <4>4, <5>1
      <4>6. Len(u) > 0 => u[Len(u)] # "~"
        <5>1. ASSUME m > 0
              PROVE  u[m] # "~"
          <6>1. m \in 1 .. n /\ m + 1 \in 1 .. n /\ n = m + 1 /\ m \in 1 .. m
            BY <4>1, <5>1
          <6>2. t[m] = u[m]
            BY <4>2, <4>4, <6>1
          <6>3. s[m] = u[m] /\ s[m + 1] = "~"
            BY <3>3, <3>6, <6>1, <6>2
          <6>4. QED
            BY <3>4, <6>1, <6>3
        <5>2. QED
          BY <4>2, <5>1
      <4>7. Fit(u)
        BY <2>2, <4>5, <4>6, FitBeginning
      <4>8. Good(u)
        <5>1. Len(u) <= n
          BY <4>1, <4>2
        <5>2. QED
          BY <2>1, <4>7, <5>1
      <4>9. PICK x \in {"~", "/"} : DecodePart(<<"~", c>>) = <<x>> /\ Written(x) = <<"~", c>>
        BY <4>3, DecodePair DEF Written
      <4>10. x \in Characters /\ <<x>> \in Seq(Characters)
        BY DEF Characters
      <4>11. DecodePart(s) = DecodePart(u) \o <<x>>
        BY <4>5, <4>6, <4>9, DecodeInARow
      <4>12. Escape(DecodePart(u) \o <<x>>) = Escape(DecodePart(u)) \o Escape(<<x>>)
        BY <4>10, DecodeParts, EscapeInARow
      <4>13. QED
        BY <4>5, <4>8, <4>9, <4>10, <4>11, <4>12, EscapeOne
    <3>7. QED
      BY <3>5, <3>6
  <2>3. ASSUME NEW s, Fit(s), Len(s) <= n + 1
        PROVE  Good(s)
    <3>1. Len(s) \in Nat
      BY <2>3 DEF Fit
    <3>2. Len(s) = n + 1 \/ Len(s) <= n
      BY <2>1, <2>3, <3>1
    <3> HIDE DEF Good
    <3>3. QED
      BY <2>1, <2>2, <2>3, <3>2
  <2> HIDE DEF Good
  <2>4. QED
    BY <2>1, <2>3 DEF P
<1> HIDE DEF Good
<1>4. P \in SUBSET Nat
  OBVIOUS
<1>5. P = Nat
  <2> HIDE DEF P
  <2>1. QED
    BY <1>2, <1>3, <1>4, AllNaturals
<1>6. Len(part) \in Nat /\ Len(part) <= Len(part)
  BY DEF Fit
<1>7. Good(part)
  BY <1>5, <1>6
<1>8. QED
  BY <1>7 DEF Good

-----------------------------------------------------------------------------
(* The indices of arrays, written and read.                                *)

\* The numerals in their order.
LEMMA NumeralsAre ==
  /\ DOMAIN Numerals = 1 .. 10
  /\ Digits = {"0", "1", "2", "3", "4", "5", "6", "7", "8", "9"}
  /\ \A d \in 0 .. 9 : Numerals[d + 1] \in Digits
  /\ \A c \in Digits : \E d \in 0 .. 9 : Numerals[d + 1] = c
  /\ \A d, e \in 0 .. 9 : Numerals[d + 1] = Numerals[e + 1] => d = e
  /\ Numerals[1] = "0"
<1>1. DOMAIN Numerals = 1 .. 10
  BY DEF Numerals
<1>2. /\ Numerals[1] = "0" /\ Numerals[2] = "1" /\ Numerals[3] = "2" /\ Numerals[4] = "3"
      /\ Numerals[5] = "4" /\ Numerals[6] = "5" /\ Numerals[7] = "6" /\ Numerals[8] = "7"
      /\ Numerals[9] = "8" /\ Numerals[10] = "9"
  BY DEF Numerals
<1>3. \A i \in 1 .. 10 : i \in {1, 2, 3, 4, 5, 6, 7, 8, 9, 10}
  OBVIOUS
<1>4. Digits = {Numerals[i] : i \in 1 .. 10}
  BY <1>1 DEF Digits, ToSet
<1>5. Digits = {"0", "1", "2", "3", "4", "5", "6", "7", "8", "9"}
  BY <1>2, <1>3, <1>4
<1>6. ASSUME NEW i \in 1 .. 10, NEW j \in 1 .. 10, Numerals[i] = Numerals[j]
      PROVE  i = j
  BY <1>2, <1>3, <1>6
<1>7. \A d \in 0 .. 9 : d + 1 \in 1 .. 10
  OBVIOUS
<1>8. \A d, e \in 0 .. 9 : d + 1 = e + 1 => d = e
  OBVIOUS
<1>9. \A c \in Digits : \E d \in 0 .. 9 : Numerals[d + 1] = c
  <2>1. ASSUME NEW i \in 1 .. 10
        PROVE  i - 1 \in 0 .. 9 /\ (i - 1) + 1 = i
    OBVIOUS
  <2>2. QED
    BY <1>4, <2>1
<1>10. QED
  BY <1>1, <1>2, <1>4, <1>5, <1>6, <1>7, <1>8, <1>9

\* Their values.
LEMMA DigitValues ==
  /\ \A c \in Digits : DigitValue(c) \in 0 .. 9 /\ Numerals[DigitValue(c) + 1] = c
  /\ \A d \in 0 .. 9 : DigitValue(Numerals[d + 1]) = d
  /\ \A c \in Decimals : DigitValue(c) \in 0 .. 9
<1>1. ASSUME NEW c \in Digits
      PROVE  DigitValue(c) \in 0 .. 9 /\ Numerals[DigitValue(c) + 1] = c
  <2>1. c # "arabic1"
    BY NumeralsAre
  <2>2. \E d \in 0 .. 9 : Numerals[d + 1] = c
    BY NumeralsAre
  <2>3. QED
    BY <2>1, <2>2 DEF DigitValue
<1>2. ASSUME NEW d \in 0 .. 9
      PROVE  DigitValue(Numerals[d + 1]) = d
  BY <1>1, NumeralsAre
<1>3. DigitValue("arabic1") \in 0 .. 9
  BY DEF DigitValue
<1>4. QED
  BY <1>1, <1>2, <1>3 DEF Decimals

\* The recursion in IntOf.
Counts(s, f) ==
  f = [n \in 0 .. Len(s) |-> IF n = 0 THEN 0 ELSE 10 * f[n - 1] + DigitValue(s[n])]

\* What it gives, for any function that turns as it does.
CountsUp(s, f) ==
  /\ f \in [0 .. Len(s) -> Nat] /\ f[0] = 0
  /\ \A n \in 0 .. Len(s) - 1 : f[n + 1] = 10 * f[n] + DigitValue(s[n + 1])

\* There is such a function, and it has natural numbers for values.
LEMMA CountsAreCounts ==
  ASSUME NEW s \in Seq(Decimals)
  PROVE  \E f : Counts(s, f) /\ CountsUp(s, f)
<1> DEFINE G == [n \in Nat |-> [x \in Nat |-> IF n < Len(s) THEN 10 * x + DigitValue(s[n + 1]) ELSE x]]
<1>1. Len(s) \in Nat /\ \A n \in 0 .. Len(s) - 1 : s[n + 1] \in Decimals
  OBVIOUS
<1>2. G \in [Nat -> [Nat -> Nat]]
  <2>1. ASSUME NEW n \in Nat, NEW x \in Nat
        PROVE  (IF n < Len(s) THEN 10 * x + DigitValue(s[n + 1]) ELSE x) \in Nat
    <3>1. CASE n < Len(s)
      <4>1. DigitValue(s[n + 1]) \in 0 .. 9
        BY <1>1, <3>1, DigitValues
      <4>2. QED
        BY <3>1, <4>1
    <3>2. CASE ~ n < Len(s)
      BY <3>2
    <3>3. QED
      BY <3>1, <3>2
  <2>2. QED
    BY <2>1
<1>3. PICK f \in [0 .. Len(s) -> Nat] : Turns(f, 0, G, Len(s))
  <2>1. 0 \in Nat
    OBVIOUS
  <2> HIDE DEF G
  <2>2. QED
    BY <1>1, <1>2, <2>1, SomeTurns
<1>4. CountsUp(s, f)
  <2>1. f[0] = 0 /\ \A n \in 0 .. Len(s) - 1 : f[n + 1] = G[n][f[n]]
    BY <1>3 DEF Turns
  <2>2. ASSUME NEW n \in 0 .. Len(s) - 1
        PROVE  f[n + 1] = 10 * f[n] + DigitValue(s[n + 1])
    <3>1. n \in Nat /\ n < Len(s) /\ n \in 0 .. Len(s)
      BY <1>1
    <3>2. f[n] \in Nat
      BY <1>3, <3>1
    <3>3. QED
      BY <2>1, <3>1, <3>2
  <2>3. QED
    BY <1>3, <2>1, <2>2 DEF CountsUp
<1>5. Counts(s, f)
  <2>1. ASSUME NEW n \in 0 .. Len(s)
        PROVE  f[n] = IF n = 0 THEN 0 ELSE 10 * f[n - 1] + DigitValue(s[n])
    <3>1. CASE n = 0
      BY <1>4, <3>1 DEF CountsUp
    <3>2. CASE n # 0
      <4>1. PICK k \in 0 .. Len(s) - 1 : n = k + 1 /\ n - 1 = k
        <5>1. n - 1 \in 0 .. Len(s) - 1 /\ n = (n - 1) + 1
          BY <1>1, <3>2
        <5>2. QED
          BY <5>1
      <4>2. QED
        BY <1>4, <3>2, <4>1 DEF CountsUp
    <3>3. QED
      BY <3>1, <3>2
  <2>2. QED
    BY <1>3, <2>1 DEF Counts
<1>6. QED
  BY <1>4, <1>5

\* IntOf is the last value of such a function.
LEMMA IntOfValue ==
  ASSUME NEW s \in Seq(Decimals)
  PROVE  \E f : CountsUp(s, f) /\ IntOf(s) = f[Len(s)]
<1> DEFINE f == CHOOSE f : Counts(s, f)
<1>1. IntOf(s) = f[Len(s)]
  BY Zenon DEF IntOf, Counts
<1>2. Counts(s, f)
  BY CountsAreCounts, Zenon
<1>3. PICK g : Counts(s, g) /\ CountsUp(s, g)
  BY CountsAreCounts
<1> HIDE DEF f
<1>4. Len(s) \in Nat
  OBVIOUS
<1>5. f = g
  <2> DEFINE P == {n \in 0 .. Len(s) : f[n] = g[n]}
  <2>1. ASSUME NEW h, Counts(s, h)
        PROVE  /\ h[0] = 0
               /\ \A n \in 0 .. Len(s) - 1 : h[n + 1] = 10 * h[n] + DigitValue(s[n + 1])
               /\ DOMAIN h = 0 .. Len(s) /\ h = [n \in 0 .. Len(s) |-> h[n]]
    <3>1. DOMAIN h = 0 .. Len(s) /\ h = [n \in 0 .. Len(s) |-> h[n]] /\ h[0] = 0
      BY <1>4, <2>1 DEF Counts
    <3>2. ASSUME NEW n \in 0 .. Len(s) - 1
          PROVE  h[n + 1] = 10 * h[n] + DigitValue(s[n + 1])
      <4>1. PICK k \in 0 .. Len(s) : k = n + 1 /\ k # 0 /\ k - 1 = n
        BY <1>4
      <4>2. h[k] = 10 * h[k - 1] + DigitValue(s[k])
        BY <2>1, <4>1, Zenon DEF Counts
      <4>3. QED
        BY <4>1, <4>2
    <3>3. QED
      BY <3>1, <3>2
  <2>2. 0 \in P
    BY <1>2, <1>3, <1>4, <2>1
  <2>3. ASSUME NEW k \in 0 .. Len(s) - 1, k \in P
        PROVE  k + 1 \in P
    <3>1. k + 1 \in 0 .. Len(s)
      BY <1>4
    <3>2. f[k + 1] = g[k + 1]
      BY <1>2, <1>3, <2>1, <2>3
    <3>3. QED
      BY <3>1, <3>2
  <2>4. \A k \in 0 .. Len(s) : k \in P
    <3> HIDE DEF P
    <3>1. QED
      BY <1>4, <2>2, <2>3, AllUpTo
  <2>5. QED
    BY <1>2, <1>3, <2>1, <2>4
<1>6. QED
  BY <1>1, <1>3, <1>5

\* The value of no digits, and of one more digit.
LEMMA IntOfNone == IntOf(<<>>) = 0
<1>1. <<>> \in Seq(Decimals) /\ Len(<<>>) = 0
  OBVIOUS
<1>2. PICK f : CountsUp(<<>>, f) /\ IntOf(<<>>) = f[Len(<<>>)]
  BY <1>1, IntOfValue
<1>3. QED
  BY <1>1, <1>2 DEF CountsUp

\* A digit more: what came before counts ten times.
LEMMA IntOfNext ==
  ASSUME NEW s \in Seq(Decimals), NEW c \in Decimals
  PROVE  /\ IntOf(s) \in Nat
         /\ IntOf(s \o <<c>>) = 10 * IntOf(s) + DigitValue(c)
<1> DEFINE t == s \o <<c>>
<1>1. /\ t \in Seq(Decimals) /\ Len(s) \in Nat /\ Len(t) = Len(s) + 1 /\ t[Len(s) + 1] = c
      /\ \A n \in 0 .. Len(s) - 1 : t[n + 1] = s[n + 1]
  OBVIOUS
<1>2. PICK g : CountsUp(s, g) /\ IntOf(s) = g[Len(s)]
  BY IntOfValue
<1> HIDE DEF t
<1>3. PICK f : CountsUp(t, f) /\ IntOf(t) = f[Len(t)]
  BY <1>1, IntOfValue
<1> DEFINE P == {n \in 0 .. Len(s) : f[n] = g[n]}
<1>4. 0 \in P
  BY <1>1, <1>2, <1>3 DEF CountsUp
<1>5. ASSUME NEW k \in 0 .. Len(s) - 1, k \in P
      PROVE  k + 1 \in P
  <2>1. k + 1 \in 0 .. Len(s) /\ k \in 0 .. Len(t) - 1
    BY <1>1
  <2>2. f[k + 1] = 10 * f[k] + DigitValue(t[k + 1])
    BY <1>3, <2>1 DEF CountsUp
  <2>3. g[k + 1] = 10 * g[k] + DigitValue(s[k + 1])
    BY <1>2 DEF CountsUp
  <2>4. QED
    BY <1>1, <1>5, <2>1, <2>2, <2>3
<1>6. \A k \in 0 .. Len(s) : k \in P
  <2> HIDE DEF P
  <2>1. QED
    BY <1>1, <1>4, <1>5, AllUpTo
<1>7. Len(s) \in 0 .. Len(s) /\ Len(s) \in 0 .. Len(t) - 1
  BY <1>1
<1>8. f[Len(s)] = g[Len(s)]
  BY <1>6, <1>7
<1>9. f[Len(s) + 1] = 10 * f[Len(s)] + DigitValue(c)
  BY <1>1, <1>3, <1>7 DEF CountsUp
<1>10. g[Len(s)] \in Nat
  BY <1>2, <1>7 DEF CountsUp
<1>11. QED
  BY <1>1, <1>2, <1>3, <1>8, <1>9, <1>10 DEF t

\* An index as RFC 6901 has it.
IsIndex(s) == s \in Seq(Digits) /\ s # <<>> /\ (s[1] = "0" => Len(s) = 1)

\* One of one digit.
LEMMA ShortIndex ==
  ASSUME NEW c \in Digits
  PROVE  IsIndex(<<c>>) /\ IntOf(<<c>>) = DigitValue(c) /\ DigitValue(c) \in 0 .. 9
<1>1. c \in Decimals /\ <<>> \in Seq(Decimals) /\ <<>> \o <<c>> = <<c>> /\ DigitValue(c) \in 0 .. 9
  BY DigitValues DEF Decimals
<1>2. IntOf(<<>> \o <<c>>) = 10 * IntOf(<<>>) + DigitValue(c)
  BY <1>1, IntOfNext
<1>3. IsIndex(<<c>>)
  BY DEF IsIndex
<1>4. QED
  BY <1>1, <1>2, <1>3, IntOfNone

\* One of more than one digit is a shorter one, which is not zero, with a digit
\* after it: s is a and then c.
Extends(s, a, c) == IsIndex(a) /\ a[1] # "0" /\ s = a \o <<c>> /\ Len(a) + 1 = Len(s)

\* Every such index can be taken apart in this way.
LEMMA LongIndex ==
  ASSUME NEW s, IsIndex(s), Len(s) # 1
  PROVE  \E a : \E c \in Digits : Extends(s, a, c)
<1>1. s \in Seq(Digits) /\ s # <<>> /\ s[1] # "0" /\ Len(s) \in Nat /\ Len(s) # 0
  BY DEF IsIndex
<1>2. PICK n \in Nat : Len(s) = n + 1 /\ n > 0
  <2> DEFINE l == Len(s)
  <2>1. l \in Nat /\ l # 0 /\ l # 1
    BY <1>1
  <2> HIDE DEF l
  <2>2. l - 1 \in Nat /\ l = (l - 1) + 1 /\ l - 1 > 0
    BY <2>1
  <2>3. QED
    BY <2>2 DEF l
<1>3. /\ SubSeq(s, 1, n) \in Seq(Digits) /\ Len(SubSeq(s, 1, n)) = n
      /\ s[n + 1] \in Digits /\ s = SubSeq(s, 1, n) \o <<s[n + 1]>>
  BY <1>1, <1>2, LastOff
<1>4. SubSeq(s, 1, n)[1] = s[1]
  BY <1>1, <1>2
<1>5. SubSeq(s, 1, n) # <<>>
  BY <1>2, <1>3
<1>6. IsIndex(SubSeq(s, 1, n))
  BY <1>1, <1>3, <1>4, <1>5 DEF IsIndex
<1>7. Extends(s, SubSeq(s, 1, n), s[n + 1])
  BY <1>1, <1>2, <1>3, <1>4, <1>6 DEF Extends
<1>8. QED
  BY <1>3, <1>7

\* and the other way round.
LEMMA LongerIndex ==
  ASSUME NEW a, IsIndex(a), a[1] # "0", NEW c \in Digits
  PROVE  /\ IsIndex(a \o <<c>>) /\ IntOf(a) \in Nat
         /\ IntOf(a \o <<c>>) = 10 * IntOf(a) + DigitValue(c)
<1>1. a \in Seq(Digits) /\ a # <<>> /\ a \in Seq(Decimals) /\ c \in Decimals
  <2>1. Digits \subseteq Decimals
    BY DEF Decimals
  <2>2. QED
    BY <2>1, MoreElements DEF IsIndex
<1>2. a \o <<c>> \in Seq(Digits) /\ a \o <<c>> # <<>> /\ (a \o <<c>>)[1] = a[1]
  BY <1>1
<1>3. IsIndex(a \o <<c>>)
  BY <1>2 DEF IsIndex
<1>4. QED
  BY <1>1, <1>3, IntOfNext

\* Those of one digit are those of the values below ten.
LEMMA IndexSizes ==
  ASSUME NEW s, IsIndex(s)
  PROVE  /\ IntOf(s) \in Nat
         /\ s[1] # "0" => IntOf(s) >= 1
         /\ Len(s) = 1 <=> IntOf(s) <= 9
         /\ Len(s) = 1 => s[1] \in Digits /\ s = <<s[1]>> /\ IntOf(s) = DigitValue(s[1])
<1> DEFINE Good(u) == IntOf(u) \in Nat /\ (u[1] # "0" => IntOf(u) >= 1)
           P == {n \in Nat : \A u : IsIndex(u) /\ Len(u) = n + 1 => Good(u)}
<1>1. ASSUME NEW u, IsIndex(u), Len(u) = 1
      PROVE  u[1] \in Digits /\ u = <<u[1]>> /\ IntOf(u) = DigitValue(u[1]) /\ IntOf(u) \in 0 .. 9
             /\ Good(u)
  <2>1. u[1] \in Digits /\ u = <<u[1]>>
    BY <1>1 DEF IsIndex
  <2>2. IntOf(u) = DigitValue(u[1]) /\ DigitValue(u[1]) \in 0 .. 9 /\ Numerals[DigitValue(u[1]) + 1] = u[1]
    BY <2>1, ShortIndex, DigitValues
  <2>3. u[1] # "0" => DigitValue(u[1]) # 0
    BY <2>2, NumeralsAre
  <2>4. QED
    BY <2>1, <2>2, <2>3
<1>2. 0 \in P
  <2>1. 0 + 1 = 1
    OBVIOUS
  <2> HIDE DEF Good
  <2>2. QED
    BY <1>1, <2>1
<1>3. ASSUME NEW n \in P
      PROVE  n + 1 \in P
  <2>1. n \in Nat /\ n + 1 \in Nat /\ \A u : IsIndex(u) /\ Len(u) = n + 1 => Good(u)
    OBVIOUS
  <2> HIDE DEF P
  <2>2. ASSUME NEW u, IsIndex(u), Len(u) = n + 1 + 1
        PROVE  Good(u)
    <3>a. PICK a : \E c \in Digits : Extends(u, a, c)
      <4>1. Len(u) # 1
        BY <2>1, <2>2
      <4>2. QED
        BY <2>2, <4>1, LongIndex, Zenon
    <3>1. PICK c \in Digits : IsIndex(a) /\ a[1] # "0" /\ u = a \o <<c>> /\ Len(a) + 1 = Len(u)
      BY <3>a, Zenon DEF Extends
    <3>2. Len(a) = n + 1
      <4>1. Len(a) \in Nat
        BY <3>1 DEF IsIndex
      <4>2. QED
        BY <2>1, <2>2, <3>1, <4>1
    <3>3. IntOf(a) \in Nat /\ IntOf(a) >= 1
      BY <2>1, <3>1, <3>2
    <3>4. IntOf(u) = 10 * IntOf(a) + DigitValue(c) /\ DigitValue(c) \in 0 .. 9
      BY <3>1, LongerIndex, DigitValues
    <3>5. QED
      BY <3>3, <3>4
  <2> HIDE DEF Good
  <2>3. QED
    BY <2>1, <2>2 DEF P
<1>4. P \in SUBSET Nat
  OBVIOUS
<1>5. P = Nat
  <2> HIDE DEF P
  <2>1. QED
    BY <1>2, <1>3, <1>4, AllNaturals
<1>6. ASSUME NEW u, IsIndex(u)
      PROVE  Good(u)
  <2>1. Len(u) - 1 \in Nat /\ Len(u) = (Len(u) - 1) + 1
    BY <1>6 DEF IsIndex
  <2> HIDE DEF Good
  <2>2. QED
    BY <1>5, <1>6, <2>1
<1>7. ASSUME Len(s) # 1
      PROVE  IntOf(s) >= 10
  <2>a. PICK a : \E c \in Digits : Extends(s, a, c)
    BY <1>7, LongIndex, Zenon
  <2>1. PICK c \in Digits : IsIndex(a) /\ a[1] # "0" /\ s = a \o <<c>>
    BY <2>a, Zenon DEF Extends
  <2>2. IntOf(a) \in Nat /\ IntOf(a) >= 1
    BY <1>6, <2>1
  <2>3. IntOf(s) = 10 * IntOf(a) + DigitValue(c) /\ DigitValue(c) \in 0 .. 9
    BY <2>1, LongerIndex, DigitValues
  <2>4. QED
    BY <2>2, <2>3
<1>8. QED
  BY <1>1, <1>6, <1>7

\* The last digit of a number, and the number without it.
LEMMA TensAndUnits ==
  ASSUME NEW k \in Nat, NEW l \in Nat, NEW x \in 0 .. 9, NEW y \in 0 .. 9,
         10 * k + x = 10 * l + y
  PROVE  k = l /\ x = y
OBVIOUS

\* No two of them have the same value.
LEMMA IndexIsUnique ==
  ASSUME NEW s, NEW t, IsIndex(s), IsIndex(t), IntOf(s) = IntOf(t)
  PROVE  s = t
<1> DEFINE P == {n \in Nat : \A u, v : IsIndex(u) /\ IsIndex(v) /\ Len(u) = n + 1 /\ IntOf(u) = IntOf(v)
                                    => u = v}
<1>1. ASSUME NEW u, NEW v, IsIndex(u), IsIndex(v), Len(u) = 1, IntOf(u) = IntOf(v)
      PROVE  u = v
  <2>1. Len(v) = 1
    BY <1>1, IndexSizes
  <2>2. /\ u = <<u[1]>> /\ v = <<v[1]>> /\ DigitValue(u[1]) = DigitValue(v[1])
        /\ u[1] \in Digits /\ v[1] \in Digits
    BY <1>1, <2>1, IndexSizes
  <2>3. u[1] = v[1]
    BY <2>2, DigitValues
  <2>4. QED
    BY <2>2, <2>3
<1>2. 0 \in P
  <2>1. 0 + 1 = 1
    OBVIOUS
  <2>2. QED
    BY <1>1, <2>1
<1>3. ASSUME NEW n \in P
      PROVE  n + 1 \in P
  <2>1. /\ n \in Nat /\ n + 1 \in Nat
        /\ \A u, v : IsIndex(u) /\ IsIndex(v) /\ Len(u) = n + 1 /\ IntOf(u) = IntOf(v) => u = v
    OBVIOUS
  <2> HIDE DEF P
  <2>2. ASSUME NEW u, NEW v, IsIndex(u), IsIndex(v), Len(u) = n + 1 + 1, IntOf(u) = IntOf(v)
        PROVE  u = v
    <3>1. Len(u) # 1 /\ Len(v) # 1
      <4>1. Len(u) # 1
        BY <2>1, <2>2
      <4>2. QED
        BY <2>2, <4>1, IndexSizes
    <3>a. PICK a : \E c \in Digits : Extends(u, a, c)
      BY <2>2, <3>1, LongIndex, Zenon
    <3>2. PICK c \in Digits : IsIndex(a) /\ a[1] # "0" /\ u = a \o <<c>> /\ Len(a) + 1 = Len(u)
      BY <3>a, Zenon DEF Extends
    <3>b. PICK b : \E d \in Digits : Extends(v, b, d)
      BY <2>2, <3>1, LongIndex, Zenon
    <3>3. PICK d \in Digits : IsIndex(b) /\ b[1] # "0" /\ v = b \o <<d>>
      BY <3>b, Zenon DEF Extends
    <3>4. /\ IntOf(a) \in Nat /\ IntOf(u) = 10 * IntOf(a) + DigitValue(c) /\ DigitValue(c) \in 0 .. 9
          /\ IntOf(b) \in Nat /\ IntOf(v) = 10 * IntOf(b) + DigitValue(d) /\ DigitValue(d) \in 0 .. 9
      BY <3>2, <3>3, LongerIndex, DigitValues
    <3>5. IntOf(a) = IntOf(b) /\ DigitValue(c) = DigitValue(d)
      <4>1. 10 * IntOf(a) + DigitValue(c) = 10 * IntOf(b) + DigitValue(d)
        BY <2>2, <3>4
      <4>2. /\ IntOf(a) \in Nat /\ IntOf(b) \in Nat
            /\ DigitValue(c) \in 0 .. 9 /\ DigitValue(d) \in 0 .. 9
        BY <3>4
      <4>3. PICK k \in Nat, l \in Nat, x \in 0 .. 9, y \in 0 .. 9 :
              k = IntOf(a) /\ l = IntOf(b) /\ x = DigitValue(c) /\ y = DigitValue(d)
        BY <4>2, Zenon
      <4>4. 10 * k + x = 10 * l + y
        BY <4>1, <4>3, Zenon
      <4>5. k = l /\ x = y
        BY <4>4, TensAndUnits
      <4>6. QED
        BY <4>3, <4>5, Zenon
    <3>6. Len(a) = n + 1
      <4>1. Len(a) \in Nat
        BY <3>2 DEF IsIndex
      <4>2. QED
        BY <2>1, <2>2, <3>2, <4>1
    <3>7. a = b
      BY <2>1, <3>2, <3>3, <3>5, <3>6
    <3>8. c = d
      BY <3>5, DigitValues
    <3>9. QED
      BY <3>2, <3>3, <3>7, <3>8
  <2>3. QED
    BY <2>1, <2>2 DEF P
<1>4. P \in SUBSET Nat
  OBVIOUS
<1>5. P = Nat
  <2> HIDE DEF P
  <2>1. QED
    BY <1>2, <1>3, <1>4, AllNaturals
<1>6. Len(s) - 1 \in Nat /\ Len(s) = (Len(s) - 1) + 1
  BY DEF IsIndex
<1>7. QED
  BY <1>5, <1>6

\* The recursion in Indices.
NextIndex(list, k) ==
  IF k <= 10 THEN <<Numerals[k]>>
  ELSE Append(list[(k - 1) \div 10 + 1], Numerals[((k - 1) % 10) + 1])
Lists(n, f) == f = [k \in 0 .. n |-> IF k = 0 THEN <<>> ELSE Append(f[k - 1], NextIndex(f[k - 1], k))]

\* A list of the first k indices.
IsListed(list, k) ==
  /\ list \in Seq(Seq(Digits)) /\ Len(list) = k
  /\ \A i \in 1 .. k : IsIndex(list[i]) /\ IntOf(list[i]) = i - 1

\* The next one.
LEMMA NextIndexIs ==
  ASSUME NEW k \in Nat, NEW list, IsListed(list, k)
  PROVE  IsListed(Append(list, NextIndex(list, k + 1)), k + 1)
<1> DEFINE x == NextIndex(list, k + 1)
<1>1. IsIndex(x) /\ IntOf(x) = k
  <2>1. CASE k <= 9
    <3>1. k \in 0 .. 9 /\ k + 1 <= 10
      BY <2>1
    <3>2. x = <<Numerals[k + 1]>>
      BY <3>1 DEF NextIndex
    <3>3. Numerals[k + 1] \in Digits /\ DigitValue(Numerals[k + 1]) = k
      BY <3>1, NumeralsAre, DigitValues
    <3>4. QED
      BY <3>2, <3>3, ShortIndex
  <2>2. CASE ~ k <= 9
    <3>1. PICK q \in Nat, r \in 0 .. 9 : k \div 10 = q /\ k % 10 = r /\ k = 10 * q + r /\ q >= 1 /\ q < k
      <4>1. k \div 10 \in Nat /\ k % 10 \in 0 .. 9 /\ k = 10 * (k \div 10) + (k % 10)
        OBVIOUS
      <4>2. k \div 10 >= 1 /\ k \div 10 < k
        BY <2>2, <4>1
      <4>3. QED
        BY <4>1, <4>2
    <3>2. PICK a : a = list[q + 1] /\ IsIndex(a) /\ IntOf(a) = q
      <4>1. q + 1 \in 1 .. k /\ q + 1 - 1 = q
        BY <3>1
      <4>2. QED
        BY <4>1 DEF IsListed
    <3>3. x = Append(a, Numerals[r + 1])
      <4>1. k + 1 - 1 = k /\ ~ k + 1 <= 10
        BY <2>2
      <4>2. PICK m : m = k + 1 /\ m - 1 = k /\ ~ m <= 10
        BY <4>1
      <4>3. NextIndex(list, m) = Append(list[q + 1], Numerals[r + 1])
        BY <3>1, <4>2, Zenon DEF NextIndex
      <4>4. QED
        BY <3>2, <4>2, <4>3
    <3>4. a \in Seq(Digits) /\ a[1] # "0"
      <4>1. a \in Seq(Digits)
        BY <3>2 DEF IsIndex
      <4>2. ASSUME a[1] = "0"
            PROVE  FALSE
        <5>1. Len(a) = 1
          BY <3>2, <4>2 DEF IsIndex
        <5>2. IntOf(a) = DigitValue(a[1])
          BY <3>2, <5>1, IndexSizes
        <5>3. DigitValue("0") = 0
          <6>1. 0 \in 0 .. 9 /\ 0 + 1 = 1
            OBVIOUS
          <6>2. QED
            BY <6>1, DigitValues, NumeralsAre
        <5>4. QED
          BY <3>1, <3>2, <4>2, <5>2, <5>3
      <4>3. QED
        BY <4>1, <4>2
    <3>5. Numerals[r + 1] \in Digits /\ DigitValue(Numerals[r + 1]) = r
      BY <3>1, NumeralsAre, DigitValues
    <3>6. x = a \o <<Numerals[r + 1]>>
      BY <3>3, <3>4, <3>5
    <3>7. IsIndex(x) /\ IntOf(x) = 10 * IntOf(a) + DigitValue(Numerals[r + 1])
      BY <3>2, <3>4, <3>5, <3>6, LongerIndex
    <3>8. QED
      BY <3>1, <3>2, <3>5, <3>7
  <2>3. QED
    BY <2>1, <2>2
<1> HIDE DEF x
<1>2. list \in Seq(Seq(Digits)) /\ Len(list) = k /\ x \in Seq(Digits)
  BY <1>1 DEF IsListed, IsIndex
<1>3. /\ Append(list, x) \in Seq(Seq(Digits)) /\ Len(Append(list, x)) = k + 1
      /\ Append(list, x)[k + 1] = x /\ \A i \in 1 .. k : Append(list, x)[i] = list[i]
  BY <1>2
<1>4. ASSUME NEW i \in 1 .. k + 1
      PROVE  IsIndex(Append(list, x)[i]) /\ IntOf(Append(list, x)[i]) = i - 1
  <2>1. CASE i = k + 1
    <3>1. i - 1 = k
      BY <2>1
    <3>2. QED
      BY <1>1, <1>3, <2>1, <3>1
  <2>2. CASE i # k + 1
    <3>1. i \in 1 .. k
      BY <2>2
    <3>2. QED
      BY <1>3, <3>1 DEF IsListed
  <2>3. QED
    BY <2>1, <2>2
<1>5. QED
  BY <1>3, <1>4 DEF IsListed, x

\* Indices(n) is the list of the first n.
LEMMA IndicesAreListed ==
  ASSUME NEW n \in Nat
  PROVE  IsListed(Indices(n), n)
<1>1. ASSUME NEW m \in Nat
      PROVE  \E f : Lists(m, f)
  <2> DEFINE P == {k \in Nat : \E f : Lists(k, f)}
  <2>1. 0 \in P
    <3> DEFINE f == [k \in 0 .. 0 |-> <<>>]
    <3>1. Lists(0, f)
      BY DEF Lists
    <3>2. QED
      BY <3>1
  <2>2. ASSUME NEW k \in P
        PROVE  k + 1 \in P
    <3>1. k \in Nat /\ k + 1 \in Nat /\ \E f : Lists(k, f)
      OBVIOUS
    <3>2. PICK f : Lists(k, f)
      BY <3>1
    <3> DEFINE V(g, i) == IF i = 0 THEN <<>> ELSE Append(g[i - 1], NextIndex(g[i - 1], i))
               g == [i \in 0 .. k + 1 |-> V(f, i)]
    <3>3. \A i \in 0 .. k : f[i] = V(f, i)
      BY <3>2 DEF Lists
    <3>4. \A i \in 0 .. k : g[i] = f[i]
      <4>1. \A i \in 0 .. k : i \in 0 .. k + 1
        BY <3>1
      <4>2. QED
        BY <3>3, <4>1
    <3>5. ASSUME NEW i \in 0 .. k + 1
          PROVE  V(f, i) = V(g, i)
      <4>1. CASE i = 0
        BY <4>1
      <4>2. CASE i # 0
        <5>1. i - 1 \in 0 .. k
          BY <3>1, <4>2
        <5>2. g[i - 1] = f[i - 1]
          BY <3>4, <5>1
        <5> HIDE DEF g
        <5>3. QED
          BY <4>2, <5>2
      <4>3. QED
        BY <4>1, <4>2
    <3>6. Lists(k + 1, g)
      BY <3>5 DEF Lists
    <3>7. QED
      BY <3>1, <3>6
  <2>3. P \in SUBSET Nat
    OBVIOUS
  <2>4. P = Nat
    <3> HIDE DEF P
    <3>1. QED
      BY <2>1, <2>2, <2>3, AllNaturals
  <2>5. QED
    BY <2>4
<1> DEFINE f == CHOOSE f : Lists(n, f)
<1>2. Indices(n) = f[n]
  BY Zenon DEF Indices, Lists, NextIndex
<1>3. Lists(n, f)
  BY <1>1, Zenon
<1> HIDE DEF f
<1> DEFINE P == {k \in 0 .. n : IsListed(f[k], k)}
<1>4. 0 \in P
  <2>1. f[0] = <<>> /\ 0 \in 0 .. n
    BY <1>3 DEF Lists
  <2>2. IsListed(<<>>, 0)
    <3>1. <<>> \in Seq(Seq(Digits)) /\ Len(<<>>) = 0 /\ \A i \in 1 .. 0 : FALSE
      OBVIOUS
    <3>2. QED
      BY <3>1, Zenon DEF IsListed
  <2>3. QED
    BY <2>1, <2>2
<1>5. ASSUME NEW k \in 0 .. n - 1, k \in P
      PROVE  k + 1 \in P
  <2>1. PICK m \in 0 .. n : m = k + 1 /\ m # 0 /\ m - 1 = k
    OBVIOUS
  <2>2. f[m] = Append(f[k], NextIndex(f[k], m))
    BY <1>3, <2>1, Zenon DEF Lists
  <2>3. k \in Nat /\ IsListed(f[k], k)
    BY <1>5
  <2>4. IsListed(f[m], m)
    BY <2>1, <2>2, <2>3, NextIndexIs
  <2>5. QED
    BY <2>1, <2>4
<1>6. \A k \in 0 .. n : k \in P
  <2> HIDE DEF P
  <2>1. QED
    BY <1>4, <1>5, AllUpTo
<1>7. QED
  BY <1>2, <1>6

-----------------------------------------------------------------------------
(* The pointer.                                                            *)

\* What json_pointer_get comes to: a value, a JsonPointerError (which is reported
\* as an AuthenticationError), or the ValueError of int().
IsOutcome(x) ==
  x[1] = "returns" \/ x \in {Raises("AuthenticationError"), Raises("ValueError")}

\* One turn of the loop comes to one of them.
LEMMA FollowOutcome ==
  ASSUME NEW found, NEW part, IsOutcome(found)
  PROVE  IsOutcome(Follow(found, part))
<1>1. ASSUME NEW value, NEW name
      PROVE  IsOutcome(Member(value, name))
  <2>1. Member(value, name) \in
          {Returns(value[2][name]),
           IF IntOf(name) < Len(value[2]) THEN Returns(value[2][IntOf(name) + 1]) ELSE NoMatch,
           Raises("ValueError"), NoMatch}
    BY Zenon DEF Member
  <2>2. QED
    BY <2>1 DEF IsOutcome, NoMatch, Returns
<1>2. IsOutcome(NoMatch)
  BY DEF IsOutcome, NoMatch
<1>3. QED
  BY <1>1, <1>2, Zenon DEF Follow

\* The recursion in JsonPointerGet: f is what the first n turns of the loop find.
Turn(document, pointer, f, k) ==
  IF k = 0 THEN Returns(document) ELSE Follow(f[k - 1], Part(pointer, k))
Finds(document, pointer, f, n) == f = [k \in 0 .. n |-> Turn(document, pointer, f, k)]

\* There is such a function for every number of turns.
LEMMA LoopDefined ==
  ASSUME NEW document, NEW pointer, NEW n \in Nat
  PROVE  \E f : Finds(document, pointer, f, n)
<1> DEFINE Defines(f, m) == Finds(document, pointer, f, m)
           T == {m \in Nat : ~ \E f : Defines(f, m)}
<1> SUFFICES ASSUME T # {}
             PROVE  FALSE
  BY DEF T
<1>1. PICK m \in T : \A i \in T : m <= i
  BY LeastNatural
<1>2. CASE m = 0
  <2> DEFINE f == [k \in 0 .. 0 |-> Returns(document)]
  <2>1. Defines(f, 0)
    BY DEF Finds, Turn
  <2>2. QED
    BY <1>1, <1>2, <2>1
<1>3. CASE m # 0
  <2>1. m - 1 \in Nat /\ m - 1 \notin T
    <3> HIDE DEF T
    <3>1. m \in Nat
      BY <1>1 DEF T
    <3>2. QED
      BY <1>1, <1>3, <3>1
  <2>2. PICK f : Defines(f, m - 1)
    BY <2>1
  <2> DEFINE g == [k \in 0 .. m |-> Turn(document, pointer, f, k)]
  <2>3. ASSUME NEW k \in 0 .. m
        PROVE  Turn(document, pointer, f, k) = Turn(document, pointer, g, k)
    <3>1. CASE k = 0
      BY <3>1 DEF Turn
    <3>2. CASE k # 0
      <4>1. k - 1 \in 0 .. m - 1 /\ k - 1 \in 0 .. m
        BY <2>1, <3>2
      <4>2. g[k - 1] = f[k - 1]
        BY <2>2, <4>1 DEF Finds
      <4>3. QED
        BY <3>2, <4>2 DEF Turn
    <3>3. QED
      BY <3>1, <3>2
  <2>4. Defines(g, m)
    BY <2>3 DEF Finds
  <2>5. QED
    BY <1>1, <2>4
<1>4. QED
  BY <1>2, <1>3

\* And each turn comes to one of the outcomes.
LEMMA LoopOutcome ==
  ASSUME NEW document, NEW pointer, NEW n \in Nat, NEW f,
         Finds(document, pointer, f, n)
  PROVE  IsOutcome(f[n])
<1> DEFINE T == {k \in 0 .. n : ~ IsOutcome(f[k])}
<1>1. f[0] = Returns(document)
  BY DEF Finds, Turn
<1>2. ASSUME NEW k \in 0 .. n, k # 0
      PROVE  f[k] = Follow(f[k - 1], Part(pointer, k))
  BY <1>2 DEF Finds, Turn
<1>3. ASSUME T # {}
      PROVE  FALSE
  <2>1. T \in SUBSET Nat
    OBVIOUS
  <2>2. PICK k \in T : \A i \in T : k <= i
    BY <1>3, <2>1, LeastNatural
  <2>3. k # 0
    BY <1>1, <2>2 DEF IsOutcome, Returns
  <2>4. k - 1 \in 0 .. n /\ k - 1 \notin T
    BY <2>2, <2>3
  <2>5. QED
    BY <1>2, <2>2, <2>3, <2>4, FollowOutcome
<1>4. n \in 0 .. n /\ n \notin T
  BY <1>3
<1>5. QED
  BY <1>4

\* No other exception comes out of json_pointer_get, whatever the document is.
LEMMA PointerOutcome ==
  ASSUME NEW document, NEW X, NEW pointer \in Seq(X)
  PROVE  IsOutcome(JsonPointerGet(document, pointer))
<1> DEFINE parts == Cardinality(Slashes(pointer))
           found == CHOOSE f : Finds(document, pointer, f, parts)
<1>1. parts \in Nat
  <2>1. IsFiniteSet(1 .. Len(pointer)) /\ Slashes(pointer) \in SUBSET (1 .. Len(pointer))
    BY FS_Interval DEF Slashes
  <2>2. QED
    BY <2>1, FS_Subset, FS_CardinalityType
<1>2. JsonPointerGet(document, pointer) \in {Returns(document), NoMatch, found[parts]}
  BY Zenon DEF JsonPointerGet, Finds, Turn
<1>3. Finds(document, pointer, found, parts)
  BY <1>1, LoopDefined, Zenon
<1> HIDE DEF parts, found
<1>4. IsOutcome(found[parts])
  BY <1>1, <1>3, LoopOutcome
<1>5. IsOutcome(Returns(document)) /\ IsOutcome(NoMatch)
  BY DEF IsOutcome, NoMatch, Returns
<1>6. QED
  BY <1>2, <1>4, <1>5

-----------------------------------------------------------------------------
(* The parts of a pointer.                                                 *)

\* The number of an element of a set of naturals.
Rank(S, i) == Cardinality({j \in S : j <= i})

\* The first has number 1, and so on without a gap.
LEMMA RanksGrow ==
  ASSUME NEW n \in Nat, NEW S \in SUBSET (1 .. n)
  PROVE  /\ IsFiniteSet(S) /\ Cardinality(S) \in Nat
         /\ \A i, k \in S : i < k => Rank(S, i) < Rank(S, k)
<1>1. \A R \in SUBSET (1 .. n) : IsFiniteSet(R) /\ Cardinality(R) \in Nat
  <2>1. IsFiniteSet(1 .. n)
    BY FS_Interval
  <2>2. QED
    BY <2>1, FS_Subset, FS_CardinalityType
<1>2. ASSUME NEW i \in S, NEW k \in S, i < k
      PROVE  Rank(S, i) < Rank(S, k)
  <2> DEFINE A == {j \in S : j <= i}
             B == {j \in S : j <= k}
  <2>1. A \in SUBSET (1 .. n) /\ B \in SUBSET (1 .. n)
    OBVIOUS
  <2>2. A \subseteq B /\ k \in B /\ k \notin A
    <3>1. i \in Nat /\ k \in Nat /\ \A j \in S : j \in Nat
      OBVIOUS
    <3>2. \A j \in S : j <= i => j <= k
      BY <1>2, <3>1
    <3>3. k <= k /\ ~ k <= i
      BY <1>2, <3>1
    <3>4. QED
      BY <3>2, <3>3
  <2> HIDE DEF A, B
  <2>3. IsFiniteSet(B) /\ A \subseteq B /\ A # B
    BY <1>1, <2>1, <2>2
  <2>4. Cardinality(A) <= Cardinality(B) /\ (Cardinality(A) = Cardinality(B) => A = B)
    BY <2>3, FS_Subset
  <2>5. Cardinality(A) \in Nat /\ Cardinality(B) \in Nat
    BY <1>1, <2>1
  <2>6. Cardinality(A) < Cardinality(B)
    BY <2>3, <2>4, <2>5
  <2>7. QED
    BY <2>6 DEF A, B, Rank
<1>3. QED
  BY <1>1, <1>2

\* Every rank up to the number of members is the rank of a member.
LEMMA RanksAreTaken ==
  ASSUME NEW n \in Nat, NEW S \in SUBSET (1 .. n), NEW k \in 1 .. Cardinality(S)
  PROVE  \E i \in S : Rank(S, i) = k
<1> DEFINE Taken(R) == \A l \in 1 .. Cardinality(R) : \E i \in R : Rank(R, i) = l
           P == {m \in Nat : \A R \in SUBSET (1 .. m) : Taken(R)}
<1>1. 0 \in P
  <2>1. ASSUME NEW R \in SUBSET (1 .. 0)
        PROVE  Taken(R)
    <3>1. R = {}
      OBVIOUS
    <3>2. Cardinality(R) = 0
      BY <3>1, FS_EmptySet
    <3>3. 1 .. 0 = {}
      OBVIOUS
    <3>4. QED
      BY <3>2, <3>3
  <2> HIDE DEF Taken
  <2>2. QED
    BY <2>1
<1>2. ASSUME NEW m \in P
      PROVE  m + 1 \in P
  <2>1. m \in Nat /\ m + 1 \in Nat /\ \A R \in SUBSET (1 .. m) : Taken(R)
    OBVIOUS
  <2> HIDE DEF P
  <2>2. ASSUME NEW R \in SUBSET (1 .. m + 1)
        PROVE  Taken(R)
    <3>1. CASE m + 1 \notin R
      <4>1. R \in SUBSET (1 .. m)
        BY <2>1, <3>1
      <4> HIDE DEF Taken
      <4>2. QED
        BY <2>1, <4>1
    <3>2. CASE m + 1 \in R
      <4> DEFINE Q == R \ {m + 1}
      <4>1. Q \in SUBSET (1 .. m) /\ R = Q \cup {m + 1} /\ m + 1 \notin Q
        BY <2>1, <3>2
      <4>2. IsFiniteSet(R) /\ Cardinality(R) \in Nat /\ Cardinality(Q) \in Nat /\ IsFiniteSet(Q)
        BY <2>1, <2>2, <4>1, RanksGrow
      <4>3. Cardinality(R) = Cardinality(Q) + 1
        BY <4>1, <4>2, FS_AddElement
      <4>4. Taken(Q)
        BY <2>1, <4>1
      <4>5. Rank(R, m + 1) = Cardinality(R)
        <5>1. \A j \in R : j <= m + 1
          <6>1. \A j \in 1 .. m + 1 : j <= m + 1
            BY <2>1
          <6>2. QED
            BY <2>2, <6>1
        <5>2. {j \in R : j <= m + 1} = R
          BY <5>1
        <5>3. QED
          BY <5>2 DEF Rank
      <4>6. ASSUME NEW i \in Q
            PROVE  Rank(R, i) = Rank(Q, i)
        <5>1. {j \in R : j <= i} = {j \in Q : j <= i}
          BY <2>1, <4>1
        <5>2. QED
          BY <5>1 DEF Rank
      <4> HIDE DEF Q
      <4>7. ASSUME NEW l \in 1 .. Cardinality(R)
            PROVE  \E i \in R : Rank(R, i) = l
        <5>1. CASE l = Cardinality(R)
          BY <3>2, <4>5, <5>1
        <5>2. CASE l # Cardinality(R)
          <6>1. l \in 1 .. Cardinality(Q)
            BY <4>2, <4>3, <5>2
          <6>2. PICK i \in Q : Rank(Q, i) = l
            BY <4>4, <6>1
          <6>3. QED
            BY <4>1, <4>6, <6>2
        <5>3. QED
          BY <5>1, <5>2
      <4>8. QED
        BY <4>7
    <3>3. QED
      BY <3>1, <3>2
  <2> HIDE DEF Taken
  <2>3. QED
    BY <2>1, <2>2 DEF P
<1>3. P \in SUBSET Nat
  OBVIOUS
<1>4. P = Nat
  <2> HIDE DEF P
  <2>1. QED
    BY <1>1, <1>2, <1>3, AllNaturals
<1>5. Taken(S)
  <2> HIDE DEF Taken
  <2>1. QED
    BY <1>4
<1>6. QED
  BY <1>5

\* Where the part after the slash at i ends.
EndAfter(pointer, i) == Min({j \in Slashes(pointer) : j > i} \cup {Len(pointer) + 1}) - 1

\* It is the place before the next slash, or the last of the pointer.
LEMMA EndIs ==
  ASSUME NEW pointer \in Seq(Characters), NEW i \in Slashes(pointer), NEW m \in Nat,
         m \in Slashes(pointer) \cup {Len(pointer) + 1}, m > i,
         \A j \in Slashes(pointer) : j > i => m <= j
  PROVE  EndAfter(pointer, i) = m - 1
<1> DEFINE E == {j \in Slashes(pointer) : j > i} \cup {Len(pointer) + 1}
<1>1. Len(pointer) \in Nat /\ Slashes(pointer) \in SUBSET (1 .. Len(pointer))
  BY DEF Slashes
<1>2. E \in SUBSET (1 .. Len(pointer) + 1) /\ E # {} /\ Len(pointer) + 1 \in Nat
  BY <1>1
<1>3. m \in E /\ \A j \in E : m <= j
  BY <1>1
<1> HIDE DEF E
<1>4. Min(E) \in E /\ \A j \in E : Min(E) <= j
  BY <1>2, FirstAndLast
<1>5. Min(E) = m
  <2>1. Min(E) \in Nat /\ Min(E) <= m /\ m <= Min(E)
    <3>1. \A j \in 1 .. Len(pointer) + 1 : j \in Nat
      BY <1>1
    <3>2. QED
      BY <1>2, <1>3, <1>4, <3>1
  <2>2. QED
    BY <2>1
<1>6. QED
  BY <1>5 DEF EndAfter, E

\* Part k is that after the slash with number k.
LEMMA PartAt ==
  ASSUME NEW pointer \in Seq(Characters), NEW i \in Slashes(pointer)
  PROVE  Part(pointer, Rank(Slashes(pointer), i)) = SubSeq(pointer, i + 1, EndAfter(pointer, i))
<1> DEFINE S == Slashes(pointer)
           k == Rank(S, i)
           from == CHOOSE j \in S : Rank(S, j) = k
<1>1. Len(pointer) \in Nat /\ S \in SUBSET (1 .. Len(pointer))
  BY DEF Slashes
<1>2. from \in S /\ Rank(S, from) = k
  OBVIOUS
<1>3. Part(pointer, k) = SubSeq(pointer, from + 1, EndAfter(pointer, from))
  BY Zenon DEF Part, EndAfter, Rank
<1> HIDE DEF from, k
<1>4. from = i
  <2>1. \A a, b \in S : a < b => Rank(S, a) < Rank(S, b)
    BY <1>1, RanksGrow
  <2>2. ~ from < i /\ ~ i < from
    <3>1. ASSUME NEW r PROVE ~ (r < r) \/ r \notin Nat
      OBVIOUS
    <3>2. k \in Nat
      <4>1. {j \in S : j <= i} \in SUBSET (1 .. Len(pointer))
        BY <1>1
      <4>2. QED
        BY <1>1, <4>1, RanksGrow DEF k, Rank
    <3>3. QED
      BY <1>2, <2>1, <3>1, <3>2 DEF k
  <2>3. QED
    BY <1>1, <1>2, <2>2
<1>5. QED
  BY <1>3, <1>4 DEF k

\* Sequences that begin alike have the same pieces there.
LEMMA SameSubSeq ==
  ASSUME NEW X, NEW p \in Seq(X), NEW q \in Seq(X), NEW i \in Nat, NEW n \in Nat,
         i <= n, n <= Len(p), n <= Len(q), \A j \in 1 .. n : q[j] = p[j]
  PROVE  SubSeq(q, i + 1, n) = SubSeq(p, i + 1, n)
<1>1. ASSUME NEW r \in Seq(X), n <= Len(r)
      PROVE  /\ SubSeq(r, i + 1, n) \in Seq(X) /\ Len(SubSeq(r, i + 1, n)) = n - i
             /\ \A j \in 1 .. n - i : SubSeq(r, i + 1, n)[j] = r[i + j]
  <2>1. \A j \in i + 1 .. n : r[j] \in X
    BY <1>1
  <2>2. QED
    BY <1>1, <2>1, SubSeqProperties
<1>2. \A j \in 1 .. n - i : i + j \in 1 .. n
  OBVIOUS
<1>3. \A j \in 1 .. n - i : SubSeq(q, i + 1, n)[j] = SubSeq(p, i + 1, n)[j]
  <2>1. /\ \A j \in 1 .. n - i : SubSeq(q, i + 1, n)[j] = q[i + j]
        /\ \A j \in 1 .. n - i : SubSeq(p, i + 1, n)[j] = p[i + j]
    BY <1>1
  <2>2. QED
    BY <1>2, <2>1
<1>4. /\ SubSeq(q, i + 1, n) \in Seq(X) /\ SubSeq(p, i + 1, n) \in Seq(X)
      /\ Len(SubSeq(q, i + 1, n)) = n - i /\ Len(SubSeq(p, i + 1, n)) = n - i
  BY <1>1
<1>5. QED
  BY <1>3, <1>4, SeqEqual

\* A pointer with one more part.
Longer(pointer, part) == pointer \o <<"/">> \o part

IsLonger(q, p, e) ==
  /\ q \in Seq(Characters) /\ Len(q) = Len(p) + 1 + Len(e)
  /\ \A i \in 1 .. Len(p) : q[i] = p[i]
  /\ q[Len(p) + 1] = "/"
  /\ \A j \in 1 .. Len(e) : q[Len(p) + 1 + j] = e[j]

\* Longer is that: a pointer, a slash and a part, one after the other.
LEMMA LongerIs ==
  ASSUME NEW p \in Seq(Characters), NEW e \in Seq(Characters)
  PROVE  IsLonger(Longer(p, e), p, e)
<1>1. "/" \in Characters
  BY DEF Characters
<1> DEFINE r == p \o <<"/">>
<1>2. /\ r \in Seq(Characters) /\ Len(r) = Len(p) + 1 /\ r[Len(p) + 1] = "/"
      /\ \A i \in 1 .. Len(p) : r[i] = p[i]
  BY <1>1
<1>3. Len(p) \in Nat /\ Len(e) \in Nat
  OBVIOUS
<1> HIDE DEF r
<1>4. /\ r \o e \in Seq(Characters) /\ Len(r \o e) = Len(p) + 1 + Len(e)
      /\ \A i \in 1 .. Len(p) + 1 : (r \o e)[i] = r[i]
      /\ \A j \in 1 .. Len(e) : (r \o e)[Len(p) + 1 + j] = e[j]
  <2>1. /\ r \o e \in Seq(Characters) /\ Len(r \o e) = Len(r) + Len(e)
        /\ \A i \in 1 .. Len(r) : (r \o e)[i] = r[i]
        /\ \A j \in 1 .. Len(e) : (r \o e)[Len(r) + j] = e[j]
    BY <1>2
  <2>2. QED
    BY <1>2, <2>1, Zenon
<1>5. Longer(p, e) = r \o e
  BY DEF Longer, r
<1>6. Len(p) + 1 \in 1 .. Len(p) + 1 /\ \A i \in 1 .. Len(p) : i \in 1 .. Len(p) + 1
  BY <1>3
<1>7. QED
  BY <1>2, <1>4, <1>5, <1>6 DEF IsLonger

\* It has one more slash, with the next number; the others keep their numbers.
LEMMA SlashesOfLonger ==
  ASSUME NEW p \in Seq(Characters), NEW e \in Seq(Characters), NoSlash(e)
  PROVE  LET S == Slashes(p)
             T == Slashes(Longer(p, e))
         IN  /\ S \in SUBSET (1 .. Len(p)) /\ T = S \cup {Len(p) + 1}
             /\ Cardinality(S) \in Nat /\ Cardinality(T) = Cardinality(S) + 1
             /\ \A i \in S : Rank(T, i) = Rank(S, i)
             /\ Rank(T, Len(p) + 1) = Cardinality(S) + 1
<1> DEFINE q == Longer(p, e)
           S == Slashes(p)
           T == Slashes(q)
<1>1. Len(p) \in Nat /\ Len(e) \in Nat /\ DOMAIN p = 1 .. Len(p) /\ DOMAIN e = 1 .. Len(e)
  OBVIOUS
<1>a. IsLonger(q, p, e)
  BY LongerIs DEF q
<1> HIDE DEF q
<1>2. DOMAIN q = 1 .. Len(p) + 1 + Len(e)
  BY <1>a DEF IsLonger
<1>3. S \in SUBSET (1 .. Len(p))
  BY <1>1 DEF Slashes
<1>4. T = S \cup {Len(p) + 1}
  <2>1. ASSUME NEW i \in 1 .. Len(p)
        PROVE  i \in T <=> i \in S
    <3>1. i \in DOMAIN q /\ i \in DOMAIN p /\ q[i] = p[i]
      BY <1>1, <1>2, <1>a DEF IsLonger
    <3>2. QED
      BY <3>1 DEF Slashes
  <2>2. Len(p) + 1 \in T
    <3>1. Len(p) + 1 \in DOMAIN q /\ q[Len(p) + 1] = "/"
      BY <1>1, <1>2, <1>a DEF IsLonger
    <3>2. QED
      BY <3>1 DEF Slashes
  <2>3. ASSUME NEW j \in 1 .. Len(e)
        PROVE  Len(p) + 1 + j \notin T
    <3>1. q[Len(p) + 1 + j] = e[j] /\ e[j] # "/"
      BY <1>1, <1>a DEF IsLonger, NoSlash
    <3>2. QED
      BY <3>1 DEF Slashes
  <2>4. ASSUME NEW i \in T
        PROVE  i \in S \cup {Len(p) + 1}
    <3>1. i \in 1 .. Len(p) + 1 + Len(e)
      BY <1>2 DEF Slashes
    <3>2. CASE i <= Len(p)
      BY <1>1, <2>1, <3>1, <3>2
    <3>3. CASE i > Len(p) + 1
      <4>1. PICK j \in 1 .. Len(e) : i = Len(p) + 1 + j
        <5>1. i - (Len(p) + 1) \in 1 .. Len(e) /\ i = Len(p) + 1 + (i - (Len(p) + 1))
          BY <1>1, <3>1, <3>3
        <5>2. QED
          BY <5>1
      <4>2. QED
        BY <2>3, <4>1
    <3>4. QED
      BY <1>1, <3>1, <3>2, <3>3
  <2> HIDE DEF S, T
  <2>5. QED
    BY <1>3, <2>1, <2>2, <2>4
<1> HIDE DEF S, T
<1>5. IsFiniteSet(S) /\ Cardinality(S) \in Nat /\ Len(p) + 1 \notin S
  <2>1. Len(p) + 1 \notin S
    BY <1>1, <1>3
  <2>2. QED
    BY <1>1, <1>3, <2>1, RanksGrow
<1>6. Cardinality(T) = Cardinality(S) + 1
  BY <1>4, <1>5, FS_AddElement
<1>7. ASSUME NEW i \in S
      PROVE  Rank(T, i) = Rank(S, i)
  <2>1. i \in 1 .. Len(p)
    BY <1>3
  <2>2. ~ Len(p) + 1 <= i
    BY <1>1, <2>1
  <2>3. {j \in T : j <= i} = {j \in S : j <= i}
    BY <1>4, <2>2
  <2>4. QED
    BY <2>3 DEF Rank
<1>8. Rank(T, Len(p) + 1) = Cardinality(T)
  <2>1. \A j \in T : j <= Len(p) + 1
    <3>1. \A j \in 1 .. Len(p) : j <= Len(p) + 1
      BY <1>1
    <3>2. Len(p) + 1 <= Len(p) + 1
      BY <1>1
    <3>3. QED
      BY <1>3, <1>4, <3>1, <3>2
  <2>2. {j \in T : j <= Len(p) + 1} = T
    BY <2>1
  <2>3. QED
    BY <2>2 DEF Rank
<1>9. QED
  BY <1>3, <1>4, <1>5, <1>6, <1>7, <1>8 DEF S, T, q

\* Its parts are those that it had, and the new one.
LEMMA PartsOfLonger ==
  ASSUME NEW p \in Seq(Characters), NEW e \in Seq(Characters), NoSlash(e)
  PROVE  /\ \A k \in 1 .. Cardinality(Slashes(p)) : Part(Longer(p, e), k) = Part(p, k)
         /\ Part(Longer(p, e), Cardinality(Slashes(p)) + 1) = e
<1> DEFINE S == Slashes(p)
           q == Longer(p, e)
           T == Slashes(q)
<1>1. /\ S \in SUBSET (1 .. Len(p)) /\ T = S \cup {Len(p) + 1}
      /\ Cardinality(S) \in Nat /\ Cardinality(T) = Cardinality(S) + 1
      /\ \A i \in S : Rank(T, i) = Rank(S, i)
      /\ Rank(T, Len(p) + 1) = Cardinality(S) + 1
  BY SlashesOfLonger, Zenon
<1>2. /\ q \in Seq(Characters) /\ Len(q) = Len(p) + 1 + Len(e) /\ Len(p) \in Nat /\ Len(e) \in Nat
      /\ \A i \in 1 .. Len(p) : q[i] = p[i]
      /\ \A j \in 1 .. Len(e) : q[Len(p) + 1 + j] = e[j]
  <2>1. IsLonger(q, p, e)
    BY LongerIs
  <2> HIDE DEF q
  <2>2. QED
    BY <2>1 DEF IsLonger
<1>3. \A i \in S : i \in Nat /\ 1 <= i /\ i <= Len(p)
  BY <1>1, <1>2
<1> HIDE DEF q
<1>4. ASSUME NEW i \in S
      PROVE  EndAfter(q, i) = EndAfter(p, i) /\ EndAfter(p, i) \in i .. Len(p)
  <2> DEFINE E == {j \in S : j > i}
  <2>1. CASE E = {}
    <3>1. \A j \in S : ~ j > i
      BY <2>1
    <3>2. EndAfter(p, i) = Len(p) + 1 - 1
      <4>1. Len(p) + 1 \in Nat /\ Len(p) + 1 > i
        BY <1>2, <1>3
      <4>2. QED
        BY <3>1, <4>1, EndIs
    <3>3. EndAfter(q, i) = Len(p) + 1 - 1
      <4>1. Len(p) + 1 \in Nat /\ Len(p) + 1 > i /\ Len(p) + 1 \in T /\ Len(p) + 1 <= Len(p) + 1
        BY <1>1, <1>2, <1>3
      <4>2. \A j \in T : j > i => Len(p) + 1 <= j
        BY <1>1, <3>1, <4>1
      <4>3. i \in T
        BY <1>1
      <4>4. QED
        BY <1>2, <4>1, <4>2, <4>3, EndIs
    <3>4. Len(p) + 1 - 1 = Len(p) /\ Len(p) \in i .. Len(p)
      BY <1>2, <1>3
    <3>5. QED
      BY <3>2, <3>3, <3>4
  <2>2. CASE E # {}
    <3>1. E \in SUBSET (1 .. Len(p))
      BY <1>1
    <3>2. PICK m \in E : \A j \in E : m <= j
      <4> HIDE DEF E
      <4>1. Min(E) \in E /\ \A j \in E : Min(E) <= j
        BY <1>2, <2>2, <3>1, FirstAndLast
      <4>2. QED
        BY <4>1
    <3>3. m \in S /\ m > i /\ m \in Nat /\ \A j \in S : j > i => m <= j
      BY <1>3, <3>2
    <3>4. EndAfter(p, i) = m - 1
      BY <3>3, EndIs
    <3>5. EndAfter(q, i) = m - 1
      <4>1. m \in T /\ i \in T /\ m <= Len(p) + 1
        BY <1>1, <1>2, <1>3, <3>3
      <4>2. \A j \in T : j > i => m <= j
        BY <1>1, <3>3, <4>1
      <4>3. QED
        BY <1>2, <3>3, <4>1, <4>2, EndIs
    <3>6. m - 1 \in i .. Len(p)
      <4>1. i \in Nat /\ m \in Nat /\ Len(p) \in Nat /\ i < m /\ m <= Len(p)
        BY <1>2, <1>3, <3>3
      <4>2. QED
        BY <4>1
    <3>7. QED
      BY <3>4, <3>5, <3>6
  <2>3. QED
    BY <2>1, <2>2
<1>5. ASSUME NEW i \in S
      PROVE  Part(q, Rank(S, i)) = Part(p, Rank(S, i))
  <2>1. Part(p, Rank(S, i)) = SubSeq(p, i + 1, EndAfter(p, i))
    BY PartAt
  <2>2. Part(q, Rank(S, i)) = SubSeq(q, i + 1, EndAfter(p, i))
    <3>1. i \in T /\ Rank(T, i) = Rank(S, i)
      BY <1>1
    <3>2. Part(q, Rank(T, i)) = SubSeq(q, i + 1, EndAfter(q, i))
      BY <1>2, <3>1, PartAt
    <3>3. QED
      BY <1>4, <3>1, <3>2
  <2>3. PICK n \in Nat : n = EndAfter(p, i) /\ i <= n /\ n <= Len(p)
    BY <1>2, <1>3, <1>4
  <2>4. SubSeq(q, i + 1, n) = SubSeq(p, i + 1, n)
    <3>1. i \in Nat /\ n \in Nat /\ i <= n /\ n <= Len(p) /\ n <= Len(q)
      BY <1>2, <1>3, <2>3
    <3>2. \A j \in 1 .. n : q[j] = p[j]
      BY <1>2, <3>1
    <3>3. QED
      BY <1>2, <3>1, <3>2, SameSubSeq
  <2>5. QED
    BY <2>1, <2>2, <2>3, <2>4
<1>6. ASSUME NEW k \in 1 .. Cardinality(S)
      PROVE  Part(q, k) = Part(p, k)
  <2>1. PICK i \in S : Rank(S, i) = k
    BY <1>1, <1>2, RanksAreTaken
  <2>2. QED
    BY <1>5, <2>1
<1>7. Part(q, Cardinality(S) + 1) = e
  <2> DEFINE i == Len(p) + 1
             n == Len(q)
  <2>1. i \in T /\ i \in Nat /\ n \in Nat /\ n = i + Len(e) /\ Rank(T, i) = Cardinality(S) + 1
    BY <1>1, <1>2
  <2>2. EndAfter(q, i) = n + 1 - 1
    <3>1. n + 1 \in Nat /\ n + 1 > i /\ \A j \in T : ~ j > i
      BY <1>1, <1>2, <1>3
    <3>2. n + 1 \in T \cup {Len(q) + 1} /\ \A j \in T : j > i => n + 1 <= j
      BY <3>1
    <3> HIDE DEF i, n
    <3>3. QED
      BY <1>2, <2>1, <3>1, <3>2, EndIs
  <2>3. n + 1 - 1 = n
    BY <2>1
  <2>4. Part(q, Cardinality(S) + 1) = SubSeq(q, i + 1, n)
    <3> HIDE DEF i, n
    <3>1. Part(q, Rank(T, i)) = SubSeq(q, i + 1, EndAfter(q, i))
      BY <1>2, <2>1, PartAt
    <3>2. QED
      BY <2>1, <2>2, <2>3, <3>1
  <2>5. SubSeq(q, i + 1, n) = e
    <3>1. \A j \in i + 1 .. n : q[j] \in Characters
      BY <1>2, <2>1
    <3>2. /\ SubSeq(q, i + 1, n) \in Seq(Characters) /\ Len(SubSeq(q, i + 1, n)) = n - i
          /\ \A j \in 1 .. n - i : SubSeq(q, i + 1, n)[j] = q[i + j]
      <4> HIDE DEF i, n
      <4>1. QED
        BY <1>2, <2>1, <3>1, SubSeqProperties
    <3>3. n - i = Len(e) /\ \A j \in 1 .. Len(e) : q[i + j] = e[j]
      BY <1>2, <2>1
    <3> HIDE DEF i, n
    <3>4. QED
      BY <3>2, <3>3, SeqEqual
  <2>6. QED
    BY <2>4, <2>5
<1>8. QED
  BY <1>6, <1>7 DEF q

\* A pointer is empty or starts with a slash.
IsPointer(p) == p \in Seq(Characters) /\ (p # <<>> => p[1] = "/")

\* Then it is a shorter pointer with one more part, which is what follows the
\* last slash.
LEMMA LastPartOff ==
  ASSUME NEW q, IsPointer(q), q # <<>>
  PROVE  \E p, e \in Seq(Characters) :
           IsPointer(p) /\ NoSlash(e) /\ q = Longer(p, e) /\ Len(p) < Len(q)
<1>1. q \in Seq(Characters) /\ Len(q) \in Nat /\ Len(q) >= 1 /\ q[1] = "/" /\ DOMAIN q = 1 .. Len(q)
  BY DEF IsPointer
<1> DEFINE S == Slashes(q)
           m == Max(S)
           p == SubSeq(q, 1, m - 1)
           e == SubSeq(q, m + 1, Len(q))
<1>2. S \in SUBSET (1 .. Len(q)) /\ 1 \in S
  BY <1>1 DEF Slashes
<1>3. m \in S /\ \A i \in S : i <= m
  <2> HIDE DEF S
  <2>1. QED
    BY <1>1, <1>2, FirstAndLast
<1> HIDE DEF m
<1>4. m \in 1 .. Len(q) /\ q[m] = "/" /\ \A i \in m + 1 .. Len(q) : q[i] # "/"
  <2>1. m \in 1 .. Len(q)
    BY <1>2, <1>3
  <2>2. q[m] = "/"
    BY <1>3 DEF Slashes
  <2>3. ASSUME NEW i \in m + 1 .. Len(q)
        PROVE  q[i] # "/"
    <3>1. i \in 1 .. Len(q) /\ ~ i <= m
      BY <1>1, <2>1
    <3>2. i \notin S
      BY <1>3, <3>1
    <3>3. QED
      BY <1>1, <3>1, <3>2 DEF Slashes
  <2>4. QED
    BY <2>1, <2>2, <2>3
<1>5. p \in Seq(Characters) /\ Len(p) = m - 1 /\ \A i \in 1 .. m - 1 : p[i] = q[i]
  <2>1. m - 1 \in Nat /\ m - 1 <= Len(q) /\ \A i \in 1 .. m - 1 : q[i] \in Characters
    BY <1>1, <1>4
  <2>2. /\ SubSeq(q, 1, m - 1) \in Seq(Characters)
        /\ Len(SubSeq(q, 1, m - 1)) = IF 1 <= m - 1 THEN (m - 1) - 1 + 1 ELSE 0
        /\ \A i \in 1 .. (m - 1) - 1 + 1 : SubSeq(q, 1, m - 1)[i] = q[1 + i - 1]
    BY <1>1, <2>1, SubSeqProperties
  <2>3. (m - 1) - 1 + 1 = m - 1 /\ \A i \in 1 .. m - 1 : 1 + i - 1 = i
    BY <2>1
  <2>4. (IF 1 <= m - 1 THEN (m - 1) - 1 + 1 ELSE 0) = m - 1
    BY <2>1
  <2>5. QED
    BY <2>2, <2>3, <2>4
<1>6. /\ e \in Seq(Characters) /\ Len(e) = Len(q) - m
      /\ \A i \in 1 .. Len(q) - m : e[i] = q[m + i]
  <2>1. \A i \in m + 1 .. Len(q) : q[i] \in Characters
    BY <1>1, <1>4
  <2>2. m + 1 \in Nat /\ Len(q) \in Nat /\ m \in Nat /\ m <= Len(q)
    BY <1>1, <1>4
  <2>3. ASSUME NEW l \in Nat, NEW n \in Nat, l <= n + 1, \A i \in l .. n : q[i] \in Characters, l > 0
        PROVE  /\ SubSeq(q, l, n) \in Seq(Characters) /\ Len(SubSeq(q, l, n)) = n - l + 1
               /\ \A i \in 1 .. n - l + 1 : SubSeq(q, l, n)[i] = q[l + i - 1]
    BY <1>1, <2>3, SubSeqProperties
  <2>4. m + 1 <= Len(q) + 1 /\ m + 1 > 0 /\ Len(q) - (m + 1) + 1 = Len(q) - m
        /\ \A i \in 1 .. Len(q) - m : m + 1 + i - 1 = m + i
    BY <2>2
  <2>5. /\ e \in Seq(Characters) /\ Len(e) = Len(q) - (m + 1) + 1
        /\ \A i \in 1 .. Len(q) - (m + 1) + 1 : e[i] = q[m + 1 + i - 1]
    BY <2>1, <2>2, <2>3, <2>4, Zenon
  <2>6. QED
    BY <2>4, <2>5
<1> HIDE DEF p, e
<1>7. NoSlash(e)
  <2>1. DOMAIN e = 1 .. Len(q) - m
    BY <1>6
  <2>2. \A i \in 1 .. Len(q) - m : m + i \in m + 1 .. Len(q)
    BY <1>1, <1>4
  <2>3. QED
    BY <1>4, <1>6, <2>1, <2>2 DEF NoSlash
<1>8. IsPointer(p)
  <2>1. ASSUME p # <<>>
        PROVE  p[1] = "/"
    <3>1. 1 \in 1 .. m - 1
      BY <1>4, <1>5, <2>1
    <3>2. QED
      BY <1>1, <1>5, <3>1
  <2>2. QED
    BY <1>5, <2>1 DEF IsPointer
<1>9. q = Longer(p, e)
  <2>1. IsLonger(Longer(p, e), p, e)
    BY <1>5, <1>6, LongerIs
  <2>2. PICK r : r = Longer(p, e) /\ IsLonger(r, p, e)
    BY <2>1
  <2>3. /\ r \in Seq(Characters) /\ Len(r) = Len(p) + 1 + Len(e)
        /\ \A i \in 1 .. Len(p) : r[i] = p[i]
        /\ r[Len(p) + 1] = "/"
        /\ \A j \in 1 .. Len(e) : r[Len(p) + 1 + j] = e[j]
    BY <2>2 DEF IsLonger
  <2>4. Len(p) + 1 = m /\ Len(r) = Len(q)
    BY <1>1, <1>4, <1>5, <1>6, <2>3
  <2>5. ASSUME NEW i \in 1 .. Len(q)
        PROVE  r[i] = q[i]
    <3>1. CASE i <= m - 1
      <4>1. i \in 1 .. m - 1 /\ i \in 1 .. Len(p)
        BY <1>4, <1>5, <3>1
      <4>2. QED
        BY <1>5, <2>3, <4>1
    <3>2. CASE i = m
      BY <1>4, <2>3, <2>4, <3>2
    <3>3. CASE i > m
      <4>1. PICK j \in 1 .. Len(q) - m : i = m + j
        <5>1. i - m \in 1 .. Len(q) - m /\ i = m + (i - m)
          BY <1>1, <1>4, <3>3
        <5>2. QED
          BY <5>1
      <4>2. r[m + j] = e[j]
        BY <1>6, <2>3, <2>4
      <4>3. QED
        BY <1>6, <4>1, <4>2
    <3>4. QED
      BY <1>1, <1>4, <3>1, <3>2, <3>3
  <2>6. r = q
    BY <1>1, <2>3, <2>4, <2>5, SeqEqual
  <2>7. QED
    BY <2>2, <2>6
<1>10. Len(p) < Len(q)
  BY <1>1, <1>4, <1>5
<1>11. QED
  BY <1>5, <1>6, <1>7, <1>8, <1>9, <1>10

\* With one more part, json_pointer_get takes one more step.
LEMMA GetLonger ==
  ASSUME NEW document, NEW p, IsPointer(p), NEW e \in Seq(Characters), NoSlash(e)
  PROVE  JsonPointerGet(document, Longer(p, e)) = Follow(JsonPointerGet(document, p), e)
<1> DEFINE q == Longer(p, e)
           n == Cardinality(Slashes(p))
           F(r, k) == CHOOSE f : Finds(document, r, f, k)
<1>1. p \in Seq(Characters)
  BY DEF IsPointer
<1>2. IsLonger(q, p, e)
  BY <1>1, LongerIs
<1>3. /\ n \in Nat /\ Cardinality(Slashes(q)) = n + 1
      /\ \A k \in 1 .. n : Part(q, k) = Part(p, k)
      /\ Part(q, n + 1) = e
  <2>1. n \in Nat /\ Cardinality(Slashes(q)) = n + 1
    BY <1>1, SlashesOfLonger, Zenon
  <2>2. QED
    BY <1>1, <2>1, PartsOfLonger, Zenon
<1>4. q # <<>> /\ q[1] = "/"
  <2> HIDE DEF q
  <2>1. Len(q) \in Nat /\ Len(q) > 0
    BY <1>1, <1>2 DEF IsLonger
  <2>2. CASE p = <<>>
    BY <1>2, <2>1, <2>2 DEF IsLonger
  <2>3. CASE p # <<>>
    <3>1. 1 \in 1 .. Len(p)
      BY <1>1, <2>3
    <3>2. q[1] = p[1]
      BY <1>2, <3>1 DEF IsLonger
    <3>3. QED
      BY <2>1, <2>3, <3>2 DEF IsPointer
  <2>4. QED
    BY <2>2, <2>3
<1> HIDE DEF q, n
<1>5. JsonPointerGet(document, q) = F(q, n + 1)[n + 1]
  <2>1. \A r : JsonPointerGet(document, r) =
          IF r = <<>> THEN Returns(document)
          ELSE IF r[1] # "/" THEN NoMatch
          ELSE F(r, Cardinality(Slashes(r)))[Cardinality(Slashes(r))]
    BY Zenon DEF JsonPointerGet, Finds, Turn
  <2> HIDE DEF F
  <2>2. QED
    BY <1>3, <1>4, <2>1
<1>6. JsonPointerGet(document, p) = IF p = <<>> THEN Returns(document) ELSE F(p, n)[n]
  <2>1. JsonPointerGet(document, p) =
          IF p = <<>> THEN Returns(document)
          ELSE IF p[1] # "/" THEN NoMatch
          ELSE F(p, Cardinality(Slashes(p)))[Cardinality(Slashes(p))]
    BY Zenon DEF JsonPointerGet, Finds, Turn
  <2> HIDE DEF F
  <2>2. QED
    BY <2>1 DEF IsPointer, n
<1>7. Finds(document, q, F(q, n + 1), n + 1) /\ Finds(document, p, F(p, n), n)
  <2>1. n + 1 \in Nat
    BY <1>3
  <2>2. QED
    BY <1>3, <2>1, LoopDefined, Zenon
<1> HIDE DEF F
<1>8. PICK f, g : /\ f = F(q, n + 1) /\ g = F(p, n)
                  /\ Finds(document, q, f, n + 1) /\ Finds(document, p, g, n)
  BY <1>7
<1>9. ASSUME NEW r, NEW h, NEW m \in Nat, Finds(document, r, h, m)
      PROVE  h[0] = Returns(document) /\ \A k \in 1 .. m : h[k] = Follow(h[k - 1], Part(r, k))
  <2>1. \A k \in 0 .. m : h[k] = Turn(document, r, h, k)
    BY <1>9 DEF Finds
  <2>2. 0 \in 0 .. m /\ \A k \in 1 .. m : k \in 0 .. m /\ k # 0
    OBVIOUS
  <2>3. QED
    BY <2>1, <2>2 DEF Turn
<1>10. f[n] = g[n]
  <2> DEFINE P == {k \in 0 .. n : f[k] = g[k]}
  <2>1. n + 1 \in Nat
    BY <1>3
  <2>2. 0 \in P
    BY <1>3, <1>8, <1>9, <2>1
  <2>3. ASSUME NEW k \in 0 .. n - 1, k \in P
        PROVE  k + 1 \in P
    <3>1. PICK l \in 1 .. n : l = k + 1 /\ l - 1 = k /\ l \in 1 .. n + 1
      BY <1>3
    <3>2. f[l] = Follow(f[l - 1], Part(q, l)) /\ g[l] = Follow(g[l - 1], Part(p, l))
      BY <1>3, <1>8, <1>9, <2>1, <3>1
    <3>3. f[l] = g[l]
      BY <1>3, <2>3, <3>1, <3>2
    <3>4. QED
      BY <3>1, <3>3
  <2>4. \A k \in 0 .. n : k \in P
    <3> HIDE DEF P
    <3>1. QED
      BY <1>3, <2>2, <2>3, AllUpTo
  <2>5. QED
    BY <1>3, <2>4
<1>11. f[n + 1] = Follow(f[n], e)
  <2>1. PICK m : m = n + 1 /\ m \in Nat /\ m \in 1 .. m /\ m - 1 = n
    BY <1>3
  <2>2. f[m] = Follow(f[m - 1], Part(q, m))
    BY <1>8, <1>9, <2>1
  <2>3. QED
    BY <1>3, <2>1, <2>2
<1>12. p = <<>> => n = 0 /\ g[0] = Returns(document)
  <2>1. p = <<>> => n = 0
    <3>1. ASSUME p = <<>>
          PROVE  Slashes(p) = {}
      BY <3>1 DEF Slashes
    <3>2. QED
      BY <3>1, FS_EmptySet DEF n
  <2>2. QED
    BY <1>3, <1>8, <1>9, <2>1
<1>13. QED
  BY <1>5, <1>6, <1>8, <1>10, <1>11, <1>12 DEF q

-----------------------------------------------------------------------------
(* The members of a value.                                                 *)

\* The value of decimals is a natural, and they are written as they are.
LEMMA DecimalsAre ==
  ASSUME NEW s \in Seq(Decimals)
  PROVE  IntOf(s) \in Nat /\ s \in Seq(Characters) /\ Escape(s) = s
<1>1. "0" \in Decimals
  BY NumeralsAre DEF Decimals
<1>2. IntOf(s) \in Nat
  BY <1>1, IntOfNext
<1>3. s \in Seq(Characters)
  <2>1. Decimals \subseteq Characters
    BY DEF Characters
  <2>2. QED
    BY <2>1, MoreElements
<1>4. \A c \in Decimals : c # "~" /\ c # "/"
  BY NumeralsAre DEF Decimals
<1>5. \A c \in Decimals : Written(c) = <<c>>
  BY <1>4 DEF Written
<1>6. DOMAIN s = 1 .. Len(s) /\ \A i \in 1 .. Len(s) : s[i] \in Decimals
  OBVIOUS
<1>7. [i \in 1 .. Len(s) |-> Written(s[i])] = [i \in DOMAIN s |-> <<s[i]>>]
  BY <1>5, <1>6
<1>8. Escape(s) = FlattenSeq([i \in 1 .. Len(s) |-> Written(s[i])])
  BY <1>3, EscapeParts
<1>9. FlattenSeq([i \in DOMAIN s |-> <<s[i]>>]) = s
  BY FlattenSingletons
<1>10. QED
  BY <1>2, <1>3, <1>7, <1>8, <1>9

\* The members of objects and arrays.
LEMMA MembersAre ==
  ASSUME NEW value, NEW m
  PROVE  m \in Members(value) <=>
           \/ value[1] = "object" /\ \E k \in DOMAIN value[2] : m = <<Escape(k), value[2][k]>>
           \/ value[1] = "array" /\ \E i \in DOMAIN value[2] :
                                      m = <<Indices(Len(value[2]))[i], value[2][i]>>
<1>1. CASE value[1] = "object"
  <2>1. Members(value) = {<<Escape(k), value[2][k]>> : k \in DOMAIN value[2]}
    BY <1>1 DEF Members
  <2>2. QED
    BY <1>1, <2>1
<1>2. CASE value[1] = "array"
  <2>1. Members(value) = {<<Indices(Len(value[2]))[i], value[2][i]>> : i \in DOMAIN value[2]}
    BY <1>2 DEF Members
  <2>2. QED
    BY <1>2, <2>1
<1>3. CASE value[1] # "object" /\ value[1] # "array"
  <2>1. Members(value) = {}
    BY <1>3 DEF Members
  <2>2. QED
    BY <1>3, <2>1
<1>4. QED
  BY <1>1, <1>2, <1>3

\* What is found in an object, by the name of a member.
LEMMA MemberOfObject ==
  ASSUME NEW value, value[1] = "object", NEW part
  PROVE  Member(value, part) = IF part \in DOMAIN value[2] THEN Returns(value[2][part]) ELSE NoMatch
BY DEF Member

\* In an array, by a part that isdigit() holds for and int() takes.
LEMMA MemberOfArray ==
  ASSUME NEW value, value[1] = "array", NEW part
  PROVE  /\ part # <<>> /\ ToSet(part) \subseteq Decimals =>
              Member(value, part) = IF IntOf(part) < Len(value[2])
                                    THEN Returns(value[2][IntOf(part) + 1]) ELSE NoMatch
         /\ ~ (part # <<>> /\ ToSet(part) \subseteq Decimals) =>
              Member(value, part)[1] = "raises"
<1>1. CASE part # <<>> /\ ToSet(part) \subseteq Decimals
  <2>1. ~ ("sup2" \in ToSet(part))
    <3>1. "sup2" \notin Decimals
      BY NumeralsAre DEF Decimals
    <3>2. QED
      BY <1>1, <3>1
  <2>2. Member(value, part) = IF IntOf(part) < Len(value[2])
                              THEN Returns(value[2][IntOf(part) + 1]) ELSE NoMatch
    BY <1>1, <2>1 DEF Member
  <2>3. QED
    BY <1>1, <2>2
<1>2. CASE ~ (part # <<>> /\ ToSet(part) \subseteq Decimals)
  <2>1. Member(value, part) \in {Raises("ValueError"), NoMatch}
    BY <1>2 DEF Member
  <2>2. QED
    BY <1>2, <2>1 DEF NoMatch, Raises
<1>3. QED
  BY <1>1, <1>2

\* Wherever a member is, its name leads to it.
LEMMA MemberIsFound ==
  ASSUME NEW value, IsJson(value), NEW m \in Members(value)
  PROVE  Fit(m[1]) /\ Follow(Returns(value), m[1]) = Returns(m[2])
<1>1. Fit(m[1]) /\ Member(value, DecodePart(m[1])) = Returns(m[2])
  <2>1. CASE value[1] = "object"
    <3>1. PICK k \in DOMAIN value[2] : m[1] = Escape(k) /\ m[2] = value[2][k]
      BY <2>1, MembersAre
    <3>2. k \in Seq(Characters)
      <4>1. STRING \subseteq Characters
        BY DEF Characters
      <4>2. k \in Seq(STRING)
        BY <2>1, <3>1 DEF IsJson
      <4>3. QED
        BY <4>1, <4>2, MoreElements
    <3>3. Fit(m[1]) /\ DecodePart(m[1]) = k
      BY <3>1, <3>2, WrittenAndRead
    <3>4. QED
      BY <2>1, <3>1, <3>3, MemberOfObject
  <2>2. CASE value[1] = "array"
    <3> DEFINE n == Len(value[2])
    <3>1. PICK i \in DOMAIN value[2] : m[1] = Indices(n)[i] /\ m[2] = value[2][i]
      BY <2>2, MembersAre
    <3>2. n \in Nat /\ DOMAIN value[2] = 1 .. n
      <4>1. ASSUME NEW X, NEW s \in Seq(X)
            PROVE  Len(s) \in Nat /\ DOMAIN s = 1 .. Len(s)
        OBVIOUS
      <4>2. value[2] \in Seq(ToSet(value[2]))
        BY <2>2 DEF IsJson
      <4>3. QED
        BY <4>1, <4>2, Zenon
    <3> HIDE DEF n
    <3>3. PICK x : x = m[1] /\ IsIndex(x) /\ IntOf(x) = i - 1
      <4>1. IsListed(Indices(n), n)
        BY <3>2, IndicesAreListed
      <4>2. QED
        BY <3>1, <3>2, <4>1 DEF IsListed
    <3>4. x \in Seq(Digits) /\ x # <<>> /\ x \in Seq(Decimals) /\ ToSet(x) \subseteq Decimals
      <4>1. Digits \subseteq Decimals
        BY DEF Decimals
      <4>2. x \in Seq(Digits) /\ x # <<>> /\ x \in Seq(Decimals)
        BY <3>3, <4>1, MoreElements DEF IsIndex
      <4>3. QED
        BY <4>2 DEF ToSet
    <3>5. Fit(x) /\ DecodePart(x) = x
      <4>1. x \in Seq(Characters) /\ Escape(x) = x
        BY <3>4, DecimalsAre
      <4>2. Fit(Escape(x)) /\ DecodePart(Escape(x)) = x
        BY <4>1, WrittenAndRead
      <4>3. QED
        BY <4>1, <4>2
    <3>6. Member(value, x) = IF IntOf(x) < n THEN Returns(value[2][IntOf(x) + 1]) ELSE NoMatch
      BY <2>2, <3>4, MemberOfArray DEF n
    <3>7. IntOf(x) < n /\ IntOf(x) + 1 = i
      BY <3>1, <3>2, <3>3
    <3>8. QED
      BY <3>1, <3>3, <3>5, <3>6, <3>7
  <2>3. QED
    BY <2>1, <2>2, MembersAre
<1>2. Returns(value)[1] = "returns" /\ Returns(value)[2] = value
  BY DEF Returns
<1>3. QED
  BY <1>1, <1>2 DEF Follow, Fit

\* An index that RFC 6901 does not have.
OddIndex(part) ==
  \/ Len(part) >= 2 /\ part[1] = "0" /\ part[2] \in Digits
  \/ \E i \in 1 .. Len(part) : part[i] \in Decimals \ Digits

\* Whatever is found is a member, and by its name but for such an index.
LEMMA FoundIsMember ==
  ASSUME NEW value, IsJson(value), NEW part \in Seq(Characters), NoSlash(part),
         Follow(Returns(value), part)[1] = "returns"
  PROVE  \E m \in Members(value) :
           /\ Follow(Returns(value), part) = Returns(m[2])
           /\ m[1] = part \/ OddIndex(part)
<1> DEFINE d == DecodePart(part)
<1>1. WellEscaped(part) /\ Follow(Returns(value), part) = Member(value, d) /\ Member(value, d)[1] = "returns"
  <2>1. Returns(value)[1] = "returns" /\ Returns(value)[2] = value /\ NoMatch[1] = "raises"
    BY DEF Returns, NoMatch, Raises
  <2>2. "returns" # "raises"
    OBVIOUS
  <2>3. Follow(Returns(value), part) = IF ~ WellEscaped(part) THEN NoMatch ELSE Member(value, d)
    BY <2>1, <2>2, Zenon DEF Follow
  <2>4. QED
    BY <2>1, <2>2, <2>3
<1>2. d \in Seq(Characters) /\ Escape(d) = part
  BY <1>1, DecodeParts, ReadAndWritten DEF Fit
<1> HIDE DEF d
<1>3. CASE value[1] = "object"
  <2>1. d \in DOMAIN value[2] /\ Member(value, d) = Returns(value[2][d])
    BY <1>1, <1>3, MemberOfObject DEF NoMatch, Raises
  <2>2. <<part, value[2][d]>> \in Members(value)
    BY <1>2, <1>3, <2>1, MembersAre
  <2>3. QED
    BY <1>1, <2>1, <2>2
<1>4. CASE value[1] = "array"
  <2> DEFINE n == Len(value[2])
  <2>1. n \in Nat /\ DOMAIN value[2] = 1 .. n
    <3>1. ASSUME NEW X, NEW s \in Seq(X)
          PROVE  Len(s) \in Nat /\ DOMAIN s = 1 .. Len(s)
      OBVIOUS
    <3>2. value[2] \in Seq(ToSet(value[2]))
      BY <1>4 DEF IsJson
    <3>3. QED
      BY <3>1, <3>2, Zenon
  <2>2. d # <<>> /\ ToSet(d) \subseteq Decimals
    BY <1>1, <1>4, MemberOfArray
  <2>3. d \in Seq(Decimals)
    <3>1. \A i \in 1 .. Len(d) : d[i] \in Decimals
      BY <1>2, <2>2 DEF ToSet
    <3>2. QED
      BY <1>2, <3>1
  <2>4. d = part /\ IntOf(part) \in Nat
    BY <1>2, <2>3, DecimalsAre
  <2>5. IntOf(part) < n /\ Member(value, d) = Returns(value[2][IntOf(part) + 1])
    BY <1>1, <1>4, <2>2, <2>4, MemberOfArray DEF NoMatch, Raises
  <2>6. PICK i \in 1 .. n : i = IntOf(part) + 1 /\ i - 1 = IntOf(part)
    BY <2>1, <2>4, <2>5
  <2>7. <<Indices(n)[i], value[2][i]>> \in Members(value)
    BY <1>4, <2>1, MembersAre
  <2>8. Indices(n)[i] = part \/ OddIndex(part)
    <3>1. CASE part \in Seq(Digits)
      <4>1. CASE part[1] = "0" /\ Len(part) # 1
        <5>1. Len(part) >= 2
          <6>1. part # <<>>
            BY <2>2, <2>4
          <6>2. Len(part) \in Nat /\ Len(part) # 0
            BY <3>1, <6>1
          <6>3. ASSUME NEW k \in Nat, k # 0, k # 1
                PROVE  k >= 2
            BY <6>3
          <6>4. Len(part) # 1
            BY <4>1, Zenon
          <6>5. QED
            BY <6>2, <6>3, <6>4, Zenon
        <5>2. part[2] \in Digits
          BY <3>1, <5>1
        <5>3. QED
          BY <4>1, <5>1, <5>2 DEF OddIndex
      <4>2. CASE ~ (part[1] = "0" /\ Len(part) # 1)
        <5>1. IsIndex(part)
          BY <2>2, <2>4, <3>1, <4>2 DEF IsIndex
        <5>2. IsListed(Indices(n), n)
          BY <2>1, IndicesAreListed
        <5> HIDE DEF n
        <5>3. IsIndex(Indices(n)[i]) /\ IntOf(Indices(n)[i]) = IntOf(part)
          BY <2>6, <5>2 DEF IsListed
        <5>4. QED
          BY <5>1, <5>3, IndexIsUnique
      <4>3. QED
        BY <4>1, <4>2
    <3>2. CASE part \notin Seq(Digits)
      <4>1. \E j \in 1 .. Len(part) : part[j] \notin Digits
        BY <3>2
      <4>2. \A j \in 1 .. Len(part) : part[j] \in Decimals
        BY <2>3, <2>4
      <4>3. QED
        BY <4>1, <4>2 DEF OddIndex
    <3>3. QED
      BY <3>1, <3>2
  <2>9. QED
    BY <1>1, <2>5, <2>6, <2>7, <2>8
<1>5. CASE value[1] # "object" /\ value[1] # "array"
  <2>1. Member(value, d) = NoMatch
    BY <1>5 DEF Member
  <2>2. QED
    BY <1>1, <2>1 DEF NoMatch, Raises
<1>6. QED
  BY <1>3, <1>4, <1>5

-----------------------------------------------------------------------------
(* The places of a document.                                               *)

\* One level deeper.
Deeper(S) == UNION {{<<p[1] \o <<"/">> \o m[1], m[2]>> : m \in Members(p[2])} : p \in S}

\* The recursion in Located.
Levels(document, n, f) ==
  f = [k \in 0 .. n |-> IF k = 0 THEN {<<<<>>, document>>} ELSE Deeper(f[k - 1])]

\* What its values are, and what Located makes of them.
Locates(document, n, f) ==
  /\ f[0] = {<<<<>>, document>>} /\ \A k \in 0 .. n - 1 : f[k + 1] = Deeper(f[k])
  /\ Located(document, n) = UNION {f[k] : k \in 0 .. n}

\* Deeper has the members of every place, each under the longer pointer.
LEMMA DeeperHas ==
  ASSUME NEW S, NEW x
  PROVE  x \in Deeper(S) <=> \E p \in S : \E m \in Members(p[2]) : x = <<Longer(p[1], m[1]), m[2]>>
<1> DEFINE Under(p) == {<<Longer(p[1], m[1]), m[2]>> : m \in Members(p[2])}
<1>1. Deeper(S) = UNION {Under(p) : p \in S}
  BY Zenon DEF Deeper, Longer
<1>2. x \in Deeper(S) <=> \E p \in S : x \in Under(p)
  <2> HIDE DEF Under
  <2>1. QED
    BY <1>1
<1>3. ASSUME NEW p
      PROVE  x \in Under(p) <=> \E m \in Members(p[2]) : x = <<Longer(p[1], m[1]), m[2]>>
  BY Zenon
<1> HIDE DEF Under
<1>4. QED
  BY <1>2, <1>3, Zenon

\* There is a function for every depth.
LEMMA LevelsDefined ==
  ASSUME NEW document, NEW n \in Nat
  PROVE  \E f : Levels(document, n, f)
<1> DEFINE V(f, i) == IF i = 0 THEN {<<<<>>, document>>} ELSE Deeper(f[i - 1])
           P == {k \in Nat : \E f : Levels(document, k, f)}
<1>1. 0 \in P
  <2> DEFINE f == [k \in 0 .. 0 |-> {<<<<>>, document>>}]
  <2>1. Levels(document, 0, f)
    BY DEF Levels
  <2>2. QED
    BY <2>1
<1>2. ASSUME NEW k \in P
      PROVE  k + 1 \in P
  <2>1. k \in Nat /\ k + 1 \in Nat /\ \E f : Levels(document, k, f)
    OBVIOUS
  <2>2. PICK f : Levels(document, k, f)
    BY <2>1
  <2> DEFINE g == [i \in 0 .. k + 1 |-> V(f, i)]
  <2>3. \A i \in 0 .. k : f[i] = V(f, i)
    BY <2>2 DEF Levels
  <2>4. \A i \in 0 .. k : g[i] = f[i]
    <3>1. \A i \in 0 .. k : i \in 0 .. k + 1
      BY <2>1
    <3>2. QED
      BY <2>3, <3>1
  <2>5. ASSUME NEW i \in 0 .. k + 1
        PROVE  V(f, i) = V(g, i)
    <3>1. CASE i = 0
      BY <3>1
    <3>2. CASE i # 0
      <4>1. i - 1 \in 0 .. k
        BY <2>1, <3>2
      <4>2. g[i - 1] = f[i - 1]
        BY <2>4, <4>1
      <4> HIDE DEF g
      <4>3. QED
        BY <3>2, <4>2
    <3>3. QED
      BY <3>1, <3>2
  <2>6. Levels(document, k + 1, g)
    BY <2>5 DEF Levels
  <2>7. QED
    BY <2>1, <2>6
<1>3. P \in SUBSET Nat
  OBVIOUS
<1>4. P = Nat
  <2> HIDE DEF P
  <2>1. QED
    BY <1>1, <1>2, <1>3, AllNaturals
<1>5. QED
  BY <1>4

\* So the places up to a depth are those of every level.
LEMMA LocatedIs ==
  ASSUME NEW document, NEW n \in Nat
  PROVE  \E f : Locates(document, n, f)
<1> DEFINE f == CHOOSE f : Levels(document, n, f)
<1>1. Located(document, n) = UNION {f[k] : k \in 0 .. n}
  BY Zenon DEF Located, Levels, Deeper
<1>2. Levels(document, n, f)
  BY LevelsDefined, Zenon
<1> HIDE DEF f
<1>3. f[0] = {<<<<>>, document>>}
  BY <1>2 DEF Levels
<1>4. ASSUME NEW k \in 0 .. n - 1
      PROVE  f[k + 1] = Deeper(f[k])
  <2>1. PICK l \in 0 .. n : l = k + 1 /\ l # 0 /\ l - 1 = k
    OBVIOUS
  <2>2. f[l] = Deeper(f[l - 1])
    BY <1>2, <2>1, Zenon DEF Levels
  <2>3. QED
    BY <2>1, <2>2
<1>5. QED
  BY <1>1, <1>3, <1>4 DEF Locates

\* A pointer with one more part is a pointer.
LEMMA LongerIsPointer ==
  ASSUME NEW p, IsPointer(p), NEW e \in Seq(Characters)
  PROVE  IsPointer(Longer(p, e))
<1>1. p \in Seq(Characters)
  BY DEF IsPointer
<1>2. IsLonger(Longer(p, e), p, e)
  BY <1>1, LongerIs
<1>3. PICK q : q = Longer(p, e) /\ IsLonger(q, p, e)
  BY <1>2
<1>4. q[1] = "/"
  <2>1. CASE p = <<>>
    BY <1>3, <2>1 DEF IsLonger
  <2>2. CASE p # <<>>
    <3>1. 1 \in 1 .. Len(p)
      BY <1>1, <2>2
    <3>2. QED
      BY <1>3, <2>2, <3>1 DEF IsLonger, IsPointer
  <2>3. QED
    BY <2>1, <2>2
<1>5. q \in Seq(Characters)
  BY <1>3 DEF IsLonger
<1>6. QED
  BY <1>3, <1>4, <1>5 DEF IsPointer

\* A liberty that the beginning or the last part takes is one of the whole.
LEMMA LibertyStays ==
  ASSUME NEW p \in Seq(Characters), NEW e \in Seq(Characters), TakesLiberty(p) \/ OddIndex(e)
  PROVE  TakesLiberty(Longer(p, e))
<1>1. PICK q : q = Longer(p, e) /\ IsLonger(q, p, e)
  BY LongerIs
<1> SUFFICES TakesLiberty(q)
  BY <1>1
<1>2. /\ Len(p) \in Nat /\ Len(e) \in Nat /\ DOMAIN p = 1 .. Len(p) /\ DOMAIN e = 1 .. Len(e)
      /\ Len(q) = Len(p) + 1 + Len(e) /\ DOMAIN q = 1 .. Len(p) + 1 + Len(e)
      /\ \A i \in 1 .. Len(p) : q[i] = p[i]
      /\ q[Len(p) + 1] = "/"
      /\ \A j \in 1 .. Len(e) : q[Len(p) + 1 + j] = e[j]
  <2>1. Len(p) \in Nat /\ Len(e) \in Nat /\ DOMAIN p = 1 .. Len(p) /\ DOMAIN e = 1 .. Len(e)
    OBVIOUS
  <2>2. QED
    BY <1>1, <2>1 DEF IsLonger
<1>3. ASSUME NEW s, ToSet(s) \subseteq ToSet(q), ~ ToSet(s) \cap Decimals \subseteq Digits
      PROVE  TakesLiberty(q)
  <2>1. ~ ToSet(q) \cap Decimals \subseteq Digits
    BY <1>3
  <2>2. QED
    BY <2>1, Zenon DEF TakesLiberty
<1>4. CASE HasLeadingZero(p)
  <2>1. PICK i \in 2 .. Len(p) - 1 : p[i - 1] = "/" /\ p[i] = "0" /\ p[i + 1] \in Digits
    BY <1>4 DEF HasLeadingZero
  <2>2. /\ i - 1 \in 1 .. Len(p) /\ i \in 1 .. Len(p) /\ i + 1 \in 1 .. Len(p)
        /\ i \in 2 .. Len(q) - 1
    BY <1>2, <2>1
  <2>3. q[i - 1] = "/" /\ q[i] = "0" /\ q[i + 1] \in Digits
    BY <1>2, <2>1, <2>2
  <2>4. HasLeadingZero(q)
    BY <2>2, <2>3 DEF HasLeadingZero
  <2>5. QED
    BY <2>4, Zenon DEF TakesLiberty
<1>5. CASE ~ ToSet(p) \cap Decimals \subseteq Digits
  <2>1. ToSet(p) \subseteq ToSet(q)
    <3>1. \A i \in 1 .. Len(p) : i \in DOMAIN q /\ q[i] = p[i]
      BY <1>2
    <3>2. QED
      BY <1>2, <3>1 DEF ToSet
  <2>2. QED
    BY <1>3, <1>5, <2>1, Zenon
<1>6. CASE Len(e) >= 2 /\ e[1] = "0" /\ e[2] \in Digits
  <2>1. PICK i \in 2 .. Len(q) - 1 : i = Len(p) + 1 + 1 /\ i - 1 = Len(p) + 1 /\ i + 1 = Len(p) + 1 + 2
    <3>1. /\ Len(p) + 1 + 1 \in 2 .. Len(q) - 1 /\ Len(p) + 1 + 1 - 1 = Len(p) + 1
          /\ (Len(p) + 1 + 1) - 1 = Len(p) + 1 /\ (Len(p) + 1 + 1) + 1 = Len(p) + 1 + 2
      BY <1>2, <1>6
    <3>2. QED
      BY <3>1
  <2>2. 1 \in 1 .. Len(e) /\ 2 \in 1 .. Len(e)
    BY <1>2, <1>6
  <2>3. q[i - 1] = "/" /\ q[i] = e[1] /\ q[i + 1] = e[2]
    BY <1>2, <2>1, <2>2
  <2>4. HasLeadingZero(q)
    BY <1>6, <2>1, <2>3 DEF HasLeadingZero
  <2>5. QED
    BY <2>4, Zenon DEF TakesLiberty
<1>7. CASE \E j \in 1 .. Len(e) : e[j] \in Decimals \ Digits
  <2>1. PICK j \in 1 .. Len(e) : e[j] \in Decimals \ Digits
    BY <1>7
  <2>2. Len(p) + 1 + j \in DOMAIN q /\ q[Len(p) + 1 + j] = e[j]
    BY <1>2
  <2>3. e[j] \in ToSet(q)
    BY <2>2 DEF ToSet
  <2>4. ~ ToSet(q) \cap Decimals \subseteq Digits
    BY <2>1, <2>3
  <2>5. QED
    BY <2>4, Zenon DEF TakesLiberty
<1>8. \/ HasLeadingZero(p) \/ ~ ToSet(p) \cap Decimals \subseteq Digits
      \/ Len(e) >= 2 /\ e[1] = "0" /\ e[2] \in Digits
      \/ \E j \in 1 .. Len(e) : e[j] \in Decimals \ Digits
  BY Zenon DEF TakesLiberty, OddIndex
<1>9. QED
  BY <1>4, <1>5, <1>6, <1>7, <1>8

\* What is not raised is returned.
LEMMA GetOutcome ==
  ASSUME NEW document, NEW p, IsPointer(p)
  PROVE  JsonPointerGet(document, p)[1] \in {"returns", "raises"}
<1>1. IsOutcome(JsonPointerGet(document, p))
  BY PointerOutcome DEF IsPointer
<1>2. QED
  BY <1>1 DEF IsOutcome, Raises

\* Every place is found by its pointer.
LEMMA PlacesAreFound ==
  ASSUME NEW document, NEW n \in Nat, \A p \in Located(document, n) : IsJson(p[2]),
         NEW place \in Located(document, n)
  PROVE  /\ IsPointer(place[1])
         /\ JsonPointerGet(document, place[1]) = Returns(place[2])
<1> DEFINE Good(p) == IsPointer(p[1]) /\ JsonPointerGet(document, p[1]) = Returns(p[2])
<1>1. PICK f : Locates(document, n, f)
  BY LocatedIs
<1>2. \A k \in 0 .. n : \A p \in f[k] : IsJson(p[2])
  BY <1>1 DEF Locates
<1> DEFINE P == {k \in 0 .. n : \A p \in f[k] : Good(p)}
<1>3. 0 \in P
  <2>1. ASSUME NEW p \in f[0]
        PROVE  Good(p)
    <3>1. p = <<<<>>, document>>
      BY <1>1 DEF Locates
    <3>2. p[1] = <<>> /\ p[2] = document
      BY <3>1
    <3>3. IsPointer(<<>>)
      BY DEF IsPointer
    <3>4. JsonPointerGet(document, <<>>) = Returns(document)
      BY Zenon DEF JsonPointerGet
    <3>5. QED
      BY <3>2, <3>3, <3>4
  <2> HIDE DEF Good
  <2>2. QED
    BY <2>1
<1>4. ASSUME NEW k \in 0 .. n - 1, k \in P
      PROVE  k + 1 \in P
  <2>1. k \in 0 .. n /\ k + 1 \in 0 .. n /\ f[k + 1] = Deeper(f[k]) /\ \A p \in f[k] : Good(p)
    BY <1>1, <1>4 DEF Locates
  <2> HIDE DEF P
  <2>2. ASSUME NEW x \in f[k + 1]
        PROVE  Good(x)
    <3>1. PICK p \in f[k] : \E m \in Members(p[2]) : x = <<Longer(p[1], m[1]), m[2]>>
      BY <2>1, DeeperHas
    <3>2. PICK m \in Members(p[2]) : x = <<Longer(p[1], m[1]), m[2]>>
      BY <3>1
    <3>3. Good(p) /\ IsJson(p[2])
      BY <1>2, <2>1
    <3>4. Fit(m[1]) /\ Follow(Returns(p[2]), m[1]) = Returns(m[2])
      BY <3>3, MemberIsFound
    <3>5. m[1] \in Seq(Characters) /\ NoSlash(m[1])
      BY <3>4 DEF Fit
    <3>6. JsonPointerGet(document, Longer(p[1], m[1])) = Returns(m[2])
      BY <3>3, <3>4, <3>5, GetLonger
    <3>7. IsPointer(Longer(p[1], m[1]))
      BY <3>3, <3>5, LongerIsPointer
    <3>8. x[1] = Longer(p[1], m[1]) /\ x[2] = m[2]
      BY <3>2
    <3>9. QED
      BY <3>6, <3>7, <3>8
  <2> HIDE DEF Good
  <2>3. QED
    BY <2>1, <2>2 DEF P
<1> HIDE DEF Good
<1>5. \A k \in 0 .. n : k \in P
  <2> HIDE DEF P
  <2>1. QED
    BY <1>3, <1>4, AllUpTo
<1>6. PICK k \in 0 .. n : place \in f[k]
  BY <1>1 DEF Locates
<1>7. Good(place)
  BY <1>5, <1>6
<1>8. QED
  BY <1>7 DEF Good

\* A place is a pair of a pointer and a value.
LEMMA PlacesArePairs ==
  ASSUME NEW document, NEW n \in Nat, NEW place \in Located(document, n)
  PROVE  place = <<place[1], place[2]>>
<1>1. PICK f : Locates(document, n, f)
  BY LocatedIs
<1>2. PICK k \in 0 .. n : place \in f[k]
  BY <1>1 DEF Locates
<1>3. CASE k = 0
  BY <1>1, <1>2, <1>3 DEF Locates
<1>4. CASE k # 0
  <2>1. PICK l \in 0 .. n - 1 : l + 1 = k
    <3>1. k - 1 \in 0 .. n - 1 /\ (k - 1) + 1 = k
      BY <1>4
    <3>2. QED
      BY <3>1
  <2>2. place \in Deeper(f[l])
    BY <1>1, <1>2, <2>1 DEF Locates
  <2>3. \E p \in f[l] : \E m \in Members(p[2]) : place = <<Longer(p[1], m[1]), m[2]>>
    BY <2>2, DeeperHas
  <2>4. QED
    BY <2>3
<1>5. QED
  BY <1>3, <1>4

\* Whatever a pointer finds is at a place, and at that of the pointer, but for
\* the liberties.
LEMMA FindingsArePlaces ==
  ASSUME NEW document, NEW n \in Nat, \A p \in Located(document, n) : IsJson(p[2]),
         NEW pointer \in Seq(Characters), Len(pointer) <= n,
         JsonPointerGet(document, pointer)[1] = "returns"
  PROVE  \E place \in Located(document, n) :
           /\ JsonPointerGet(document, pointer) = Returns(place[2])
           /\ place[1] = pointer \/ TakesLiberty(pointer)
<1> DEFINE Get(q) == JsonPointerGet(document, q)
           Fits(q, p) == Get(q) = Returns(p[2]) /\ (p[1] = q \/ TakesLiberty(q))
<1>1. PICK f : Locates(document, n, f)
  BY LocatedIs
<1>2. \A k \in 0 .. n : \A p \in f[k] : IsJson(p[2])
  BY <1>1 DEF Locates
<1> DEFINE Placed(q, l) == \E k \in 0 .. l : \E p \in f[k] : Fits(q, p)
           P == {l \in 0 .. n : \A q \in Seq(Characters) :
                                  Len(q) <= l /\ Get(q)[1] = "returns" => Placed(q, l)}
<1>3. \A l \in 0 .. n : Placed(<<>>, l)
  <2>1. <<<<>>, document>> \in f[0]
    BY <1>1 DEF Locates
  <2>2. Get(<<>>) = Returns(document)
    BY Zenon DEF JsonPointerGet
  <2>3. Fits(<<>>, <<<<>>, document>>)
    BY <2>2
  <2> HIDE DEF Fits
  <2>4. \A l \in 0 .. n : 0 \in 0 .. l
    OBVIOUS
  <2>5. QED
    BY <2>1, <2>3, <2>4
<1>4. 0 \in P
  <2>1. ASSUME NEW q \in Seq(Characters), Len(q) <= 0
        PROVE  q = <<>>
    BY <2>1
  <2> HIDE DEF Placed, Get
  <2>2. 0 \in 0 .. n
    OBVIOUS
  <2>3. QED
    BY <1>3, <2>1, <2>2
<1>5. ASSUME NEW l \in 0 .. n - 1, l \in P
      PROVE  l + 1 \in P
  <2>1. /\ l \in 0 .. n /\ l + 1 \in 0 .. n /\ l \in Nat
        /\ \A q \in Seq(Characters) : Len(q) <= l /\ Get(q)[1] = "returns" => Placed(q, l)
    BY <1>5
  <2> HIDE DEF P
  <2>2. ASSUME NEW q \in Seq(Characters), Len(q) <= l + 1, Get(q)[1] = "returns"
        PROVE  Placed(q, l + 1)
    <3>1. CASE q = <<>>
      <4> HIDE DEF Placed
      <4>1. QED
        BY <1>3, <2>1, <3>1
    <3>2. CASE q # <<>>
      <4>1. IsPointer(q)
        <5>1. ASSUME q[1] # "/"
              PROVE  FALSE
          <6>1. Get(q) = NoMatch
            BY <3>2, <5>1, Zenon DEF JsonPointerGet
          <6>2. QED
            BY <2>2, <6>1 DEF NoMatch, Raises
        <5>2. QED
          BY <5>1 DEF IsPointer
      <4>2. PICK p, e \in Seq(Characters) :
              IsPointer(p) /\ NoSlash(e) /\ q = Longer(p, e) /\ Len(p) < Len(q)
        BY <3>2, <4>1, LastPartOff
      <4>3. Get(q) = Follow(Get(p), e)
        BY <4>2, GetLonger
      <4>4. Get(p)[1] = "returns"
        <5>1. Get(p)[1] # "raises"
          <6>1. Get(p)[1] = "raises" => Follow(Get(p), e) = Get(p)
            BY DEF Follow
          <6>2. QED
            BY <2>2, <4>3, <6>1
        <5>2. QED
          BY <5>1, <4>2, GetOutcome
      <4>5. Len(p) <= l
        <5>1. Len(p) \in Nat /\ Len(q) \in Nat
          OBVIOUS
        <5>2. QED
          BY <2>1, <2>2, <4>2, <5>1
      <4>6. PICK k \in 0 .. l : \E r \in f[k] : Fits(p, r)
        BY <2>1, <4>4, <4>5
      <4>7. PICK r \in f[k] : Fits(p, r)
        BY <4>6
      <4>8. IsJson(r[2]) /\ k \in 0 .. n - 1 /\ k + 1 \in 0 .. l + 1
        BY <1>2, <1>5, <2>1, <4>7
      <4>9. Follow(Returns(r[2]), e) = Get(q)
        BY <4>3, <4>7
      <4>10. PICK m \in Members(r[2]) : Get(q) = Returns(m[2]) /\ (m[1] = e \/ OddIndex(e))
        BY <2>2, <4>2, <4>8, <4>9, FoundIsMember
      <4> DEFINE x == <<Longer(r[1], m[1]), m[2]>>
      <4>11. x \in f[k + 1]
        <5>1. f[k + 1] = Deeper(f[k])
          BY <1>1, <4>8 DEF Locates
        <5>2. QED
          BY <5>1, <4>7, <4>10, DeeperHas
      <4>12. Fits(q, x)
        <5>1. x[1] = Longer(r[1], m[1]) /\ x[2] = m[2]
          OBVIOUS
        <5>2. CASE r[1] = p /\ m[1] = e
          BY <4>2, <4>10, <5>1, <5>2
        <5>3. CASE TakesLiberty(p) \/ OddIndex(e)
          <6>1. TakesLiberty(q)
            BY <4>2, <5>3, LibertyStays
          <6>2. QED
            BY <4>10, <5>1, <6>1
        <5>4. QED
          BY <4>7, <4>10, <5>2, <5>3
      <4> HIDE DEF x, Fits
      <4>13. QED
        BY <4>8, <4>11, <4>12
    <3>3. QED
      BY <3>1, <3>2
  <2> HIDE DEF Placed, Get
  <2>3. QED
    BY <2>1, <2>2 DEF P
<1> HIDE DEF Placed, Get
<1>6. \A l \in 0 .. n : l \in P
  <2> HIDE DEF P
  <2>1. QED
    BY <1>4, <1>5, AllUpTo
<1>7. n \in 0 .. n
  OBVIOUS
<1>8. Placed(pointer, n)
  BY <1>6, <1>7 DEF Get
<1>9. PICK k \in 0 .. n : \E p \in f[k] : Fits(pointer, p)
  BY <1>8 DEF Placed
<1>10. PICK p \in f[k] : Fits(pointer, p)
  BY <1>9
<1>11. p \in Located(document, n)
  BY <1>1, <1>10 DEF Locates
<1>12. QED
  BY <1>10, <1>11 DEF Get

-----------------------------------------------------------------------------
(* What is extracted.                                                      *)

\* What is not blank is not blank when it has been stripped.
LEMMA StripTwice ==
  ASSUME NEW s \in Seq(STRING), Strip(s) # <<>>
  PROVE  Strip(Strip(s)) # <<>>
<1> DEFINE solid == {i \in DOMAIN s : s[i] \notin Blanks}
           from == Min(solid)
           to == Max(solid)
           t == SubSeq(s, from, to)
<1>1. solid # {} /\ Strip(s) = t
  BY DEF Strip
<1>2. Len(s) \in Nat /\ solid \in SUBSET (1 .. Len(s))
  OBVIOUS
<1>3. from \in 1 .. Len(s) /\ to \in 1 .. Len(s) /\ from <= to /\ s[from] \notin Blanks
  <2>1. from \in solid /\ to \in solid /\ from <= to
    BY <1>1, <1>2, FirstAndLast
  <2>2. QED
    BY <2>1
<1> HIDE DEF from, to
<1>4. t \in Seq(STRING) /\ Len(t) = to - from + 1 /\ t[1] = s[from]
  <2>1. \A i \in from .. to : s[i] \in STRING
    BY <1>2, <1>3
  <2>2. 1 \in 1 .. to - from + 1 /\ from + 1 - 1 = from
    BY <1>2, <1>3
  <2>3. QED
    BY <1>2, <1>3, <2>1, <2>2, SubSeqProperties
<1>5. 1 \in DOMAIN t /\ t[1] \notin Blanks /\ Len(t) \in Nat /\ DOMAIN t = 1 .. Len(t)
  BY <1>2, <1>3, <1>4
<1> DEFINE again == {i \in DOMAIN t : t[i] \notin Blanks}
           first == Min(again)
           last  == Max(again)
<1> HIDE DEF t
<1>6. again # {} /\ again \in SUBSET (1 .. Len(t))
  BY <1>5
<1>7. Strip(t) = SubSeq(t, first, last)
  BY <1>6 DEF Strip
<1>8. first \in 1 .. Len(t) /\ last \in 1 .. Len(t) /\ first <= last
  <2> HIDE DEF again
  <2>1. /\ Min(again) \in again /\ \A i \in again : Min(again) <= i
        /\ Max(again) \in again
    BY <1>5, <1>6, FirstAndLast
  <2>2. QED
    BY <1>5, <1>6, <2>1
<1> HIDE DEF first, last
<1>9. Len(SubSeq(t, first, last)) = last - first + 1
  BY <1>4, <1>5, <1>8, SubSeqProperties
<1>10. QED
  BY <1>1, <1>5, <1>7, <1>8, <1>9

\* A lifetime that the token manager can work with, or that is infinite or NaN.
Lifetime == {None, NaN, Inf} \cup (Nat \ {0})

\* _coerce_expires_in lets no other lifetime pass.
LEMMA CoerceOutcome ==
  ASSUME NEW value
  PROVE  \/ \E x \in Lifetime : CoerceExpiresIn(value) = Returns(x)
         \/ CoerceExpiresIn(value) \in {Raises("AuthenticationError"), Raises("OverflowError")}
<1> DEFINE Positive(x) == IF x \in Nat \ {0} THEN Returns(x) ELSE InvalidExpiry
<1>1. CASE value[1] = "number" /\ value[2] \in {NaN, Inf}
  <2>1. CoerceExpiresIn(value) \in
          {Returns(value[2]), Raises("OverflowError")}
    BY <1>1, Zenon DEF CoerceExpiresIn
  <2>2. QED
    BY <1>1, <2>1 DEF Lifetime
<1>2. CASE ~ (value[1] = "number" /\ value[2] \in {NaN, Inf})
  <2>1. CoerceExpiresIn(value) \in
          {Raises("OverflowError"), Returns(NaN), Returns(Inf), Positive(value[2]),
           Positive(IntOf(Strip(value[2]))), InvalidExpiry}
    BY <1>2, Zenon DEF CoerceExpiresIn
  <2>2. QED
    BY <2>1 DEF InvalidExpiry, Lifetime
<1>3. QED
  BY <1>1, <1>2

\* Nor does the look for it in a document.
LEMMA LifetimeOutcome ==
  ASSUME setup \in Setups, NEW document
  PROVE  \/ \E x \in Lifetime : LifetimeIn(document) = Returns(x)
         \/ LifetimeIn(document) \in
              {Raises("AuthenticationError"), Raises("OverflowError"), Raises("ValueError")}
<1> DEFINE found == JsonPointerGet(document, setup.expiresPointer)
<1>1. IsOutcome(found)
  BY SetupsAssumption, PointerOutcome
<1>2. LifetimeIn(document) \in
        {Returns(None), IF found[1] = "raises" THEN found ELSE CoerceExpiresIn(found[2])}
  BY Zenon DEF LifetimeIn
<1>3. CASE found[1] = "raises"
  BY <1>1, <1>2, <1>3 DEF IsOutcome, Lifetime
<1>4. CASE found[1] # "raises"
  BY <1>2, <1>4, CoerceOutcome DEF Lifetime
<1>5. QED
  BY <1>3, <1>4

\* What TokenIn comes to.
LEMMA TokenInOutcome ==
  ASSUME setup \in Setups, NEW r, TokenIn(r)[1] = "raises"
  PROVE  \/ TokenIn(r) = Raises("AuthenticationError")
         \/ TokenIn(r) = Raises("ValueError") /\ setup.source = "json" /\ r.body.form # "deep"
         \/ TokenIn(r) = Raises("RecursionError") /\ setup.source = "json" /\ r.body.form = "deep"
<1>1. IsOutcome(JsonPointerGet(r.body.value, setup.pointer))
  BY SetupsAssumption, PointerOutcome
<1>2. CASE setup.source = "json"
  <2>1. CASE r.body.form = "deep"
    <3>1. r.body.form # "json"
      BY <2>1
    <3>2. TokenIn(r) \in {Raises("RecursionError")}
      BY <1>2, <2>1, <3>1, Zenon DEF TokenIn
    <3>3. QED
      BY <1>2, <2>1, <3>2
  <2>2. CASE r.body.form # "deep"
    <3>1. TokenIn(r) \in {JsonPointerGet(r.body.value, setup.pointer),
                          Raises("AuthenticationError")}
      BY <1>2, <2>2, Zenon DEF TokenIn
    <3>2. QED
      BY <1>1, <1>2, <2>2, <3>1 DEF IsOutcome
  <2>3. QED
    BY <2>1, <2>2
<1>3. CASE setup.source # "json"
  <2>1. TokenIn(r) \in {Returns(Header(r.headers, "token")), Returns(String(r.body.text)),
                        Raises("AuthenticationError")}
    BY <1>3, Zenon DEF TokenIn
  <2>2. QED
    BY <2>1 DEF Returns
<1>4. QED
  BY <1>2, <1>3

\* _extract_token raises an AuthenticationError, but for the values that a
\* document may have at its pointers and for its depth, or returns what TokenIn
\* has found.
LEMMA ExtractOutcome ==
  ASSUME setup \in Setups, NEW r
  PROVE  \/ ExtractToken(r) = Raises("AuthenticationError")
         \/ /\ ExtractToken(r) \in {Raises("ValueError"), Raises("OverflowError")}
            /\ setup.source = "json" /\ r.body.form # "deep"
         \/ /\ ExtractToken(r) = Raises("RecursionError")
            /\ setup.source = "json" /\ r.body.form = "deep"
         \/ /\ TokenIn(r)[1] # "raises" /\ TokenIn(r)[2][1] = "string"
            /\ Strip(TokenIn(r)[2][2]) # <<>>
            /\ \E x \in Lifetime :
                 ExtractToken(r) = Returns([token |-> Strip(TokenIn(r)[2][2]), expires |-> x])
<1> DEFINE lifetime == IF setup.source = "json" THEN LifetimeIn(r.body.value) ELSE Returns(None)
<1>1. \/ \E x \in Lifetime : lifetime = Returns(x)
      \/ /\ lifetime \in {Raises("AuthenticationError"), Raises("OverflowError"),
                          Raises("ValueError")}
         /\ setup.source = "json"
  BY LifetimeOutcome DEF Lifetime
<1> HIDE DEF lifetime
<1>2. CASE TokenIn(r)[1] = "raises"
  <2>1. ExtractToken(r) = TokenIn(r)
    BY <1>2 DEF ExtractToken
  <2>2. QED
    BY <1>2, <2>1, TokenInOutcome
<1>3. CASE TokenIn(r)[1] # "raises" /\ lifetime[1] = "raises"
  <2>1. ExtractToken(r) = lifetime
    BY <1>3 DEF ExtractToken, lifetime
  <2>2. setup.source = "json" => r.body.form # "deep"
    <3>1. ASSUME setup.source = "json", r.body.form = "deep"
          PROVE  TokenIn(r) \in {Raises("RecursionError")}
      <4>1. r.body.form # "json"
        BY <3>1
      <4>2. QED
        BY <3>1, <4>1, Zenon DEF TokenIn
    <3>2. QED
      BY <1>3, <3>1 DEF Raises
  <2>3. QED
    BY <1>1, <1>3, <2>1, <2>2 DEF Returns
<1>4. CASE TokenIn(r)[1] # "raises" /\ lifetime[1] # "raises"
  <2>1. ExtractToken(r) =
          IF TokenIn(r)[2][1] = "string" /\ Strip(TokenIn(r)[2][2]) # <<>>
          THEN Returns([token |-> Strip(TokenIn(r)[2][2]), expires |-> lifetime[2]])
          ELSE Raises("AuthenticationError")
    BY <1>4 DEF ExtractToken, lifetime
  <2>2. PICK x \in Lifetime : lifetime[2] = x
    BY <1>1, <1>4 DEF Returns, Raises
  <2>3. QED
    BY <1>4, <2>1, <2>2
<1>5. QED
  BY <1>2, <1>3, <1>4

-----------------------------------------------------------------------------
(* The exchanges.                                                          *)

\* The response is one that the peer was to send, as far as it came.
CameFrom(a) ==
  \E n \in 0 .. a.body.size :
    /\ response = [a EXCEPT !.body = Prefix(@, n)]
    /\ n < a.body.size => lapse = "cut"
Came == \E a \in setup[exchange].answers : CameFrom(a)

\* What holds of an exchange while it goes on.
ExchangeInv ==
  /\ setup \in Setups
  /\ exchange = "authentication" => pc # "returned" /\ result = None
  /\ pc = "reading" => response \in setup[exchange].answers
  /\ pc = "judging" => Came
  /\ exchange = "validation" /\ pc \in {"reading", "judging"} => Sendable(result.token)

AuthenticationInv ==
  /\ TypeOK
  /\ ExchangeInv
  /\ ValidatedTokensWork
  /\ TokenIsWhole
  /\ OtherFailuresAreCaused

\* A header that is found is one that was sent.
LEMMA HeaderIsSent ==
  ASSUME NEW headers \in Seq([name : STRING \X STRING, value : Seq(STRING)]),
         NEW identity, Header(headers, identity) # Null
  PROVE  \E i \in DOMAIN headers :
           /\ headers[i].name[1] = identity
           /\ Header(headers, identity) = String(headers[i].value)
<1> DEFINE same  == {i \in DOMAIN headers : headers[i].name[1] = identity}
           first == headers[Min(same)].name
           last  == {i \in same : headers[i].name = first}
<1>1. same # {} /\ Header(headers, identity) = String(headers[Max(last)].value)
  BY DEF Header
<1>2. Len(headers) \in Nat /\ DOMAIN headers = 1 .. Len(headers)
  OBVIOUS
<1>3. Min(same) \in same
  <2>1. same \in SUBSET (1 .. Len(headers))
    BY <1>2
  <2> HIDE DEF same
  <2>2. QED
    BY <1>1, <1>2, <2>1, FirstAndLast
<1>4. Max(last) \in last
  <2>1. last \in SUBSET (1 .. Len(headers)) /\ last # {}
    BY <1>2, <1>3
  <2> HIDE DEF last
  <2>2. QED
    BY <1>2, <2>1, FirstAndLast
<1>5. QED
  BY <1>1, <1>4

\* What an answer keeps when its body is cut.
LEMMA WhatCame ==
  ASSUME NEW a, IsAnswer(a), CameFrom(a)
  PROVE  /\ response # None
         /\ response.status = a.status /\ response.headers = a.headers
         /\ response.body.form = "json" => response.body = a.body
         /\ response.body.form = "deep" => a.body.form = "deep"
         /\ response.body.form = "text" =>
              /\ a.body.form = "text" /\ a.body.text \in Seq(STRING)
              /\ response.body.text \in Seq(STRING)
              /\ \/ response.body = a.body
                 \/ /\ lapse = "cut"
                    /\ \E n \in 0 .. a.body.size - 1 :
                         response.body.text = SubSeq(a.body.text, 1, n)
<1>1. PICK n \in 0 .. a.body.size :
        response = [a EXCEPT !.body = Prefix(@, n)] /\ (n < a.body.size => lapse = "cut")
  BY DEF CameFrom
<1>2. response # None
  BY <1>1 DEF IsAnswer
<1>3. /\ response.status = a.status /\ response.headers = a.headers
      /\ response.body = Prefix(a.body, n)
  BY <1>1 DEF IsAnswer
<1>4. CASE n = a.body.size
  <2>1. response.body = a.body
    BY <1>3, <1>4 DEF Prefix
  <2>2. QED
    BY <1>2, <1>3, <2>1 DEF IsAnswer
<1>5. CASE n # a.body.size /\ a.body.form = "text"
  <2>1. n \in 0 .. a.body.size - 1 /\ lapse = "cut" /\ n \in 0 .. Len(a.body.text)
    BY <1>1, <1>5 DEF IsAnswer
  <2>2. response.body = [a.body EXCEPT !.text = SubSeq(@, 1, n), !.size = n]
    BY <1>3, <1>5 DEF Prefix
  <2>3. /\ a.body \in [form : {"text"}, text : Seq(STRING), size : {Len(a.body.text)}]
        /\ a.body.text \in Seq(STRING)
    BY <1>5 DEF IsAnswer
  <2>4. response.body.form = "text" /\ response.body.text = SubSeq(a.body.text, 1, n)
    BY <2>2, <2>3
  <2>5. SubSeq(a.body.text, 1, n) \in Seq(STRING)
    BY <2>1, <2>3
  <2>6. QED
    BY <1>2, <1>3, <1>5, <2>1, <2>3, <2>4, <2>5
<1>6. CASE n # a.body.size /\ a.body.form # "text"
  <2>1. \/ a.body.form = "deep" /\ response.body.form = "deep"
        \/ response.body = [form |-> "binary", size |-> n]
    <3>1. Prefix(a.body, n) \in
            {[form |-> "deep", nested |-> a.body.nested, size |-> n],
             [form |-> "binary", size |-> n]}
      BY <1>6, Zenon DEF Prefix
    <3>2. Prefix(a.body, n) = [form |-> "deep", nested |-> a.body.nested, size |-> n]
            => a.body.form = "deep"
      BY <1>6 DEF Prefix
    <3>3. QED
      BY <1>3, <3>1, <3>2
  <2>2. response.body.form = "binary" \/ (a.body.form = "deep" /\ response.body.form = "deep")
    BY <2>1
  <2>3. QED
    BY <1>2, <1>3, <2>2
<1>7. QED
  BY <1>4, <1>5, <1>6

\* The document that an endpoint sends, and the pointer into it, are as the
\* lemmas about places take them to be.
LEMMA PlacesAreJson ==
  ASSUME setup \in Setups, NEW a \in setup["authentication"].answers, a.body.form = "json"
  PROVE  /\ Len(setup.pointer) \in Nat /\ setup.pointer \in Seq(Characters)
         /\ \A p \in Located(a.body.value, Len(setup.pointer)) : IsJson(p[2])
<1>1. setup.pointer \in Seq(STRING)
  BY SetupsAssumption
<1>2. setup.pointer \in Seq(Characters)
  BY <1>1, MoreElements DEF Characters
<1>3. QED
  BY <1>1, <1>2, SetupsAssumption

\* Where the token is found in the response, the endpoint has put it.
LEMMA FoundIsSaid ==
  ASSUME setup \in Setups, NEW a \in setup["authentication"].answers, CameFrom(a),
         TokenIn(response)[1] # "raises", TokenIn(response)[2][1] = "string"
  PROVE  /\ TokenIn(response)[2][2] \in Seq(STRING)
         /\ Says(a, Strip(TokenIn(response)[2][2]))
<1> DEFINE found == JsonPointerGet(response.body.value, setup.pointer)
<1>1. IsAnswer(a)
  BY SetupsAssumption DEF Exchanges
<1>2. CASE setup.source = "json" /\ response.body.form = "json"
  <2>1. TokenIn(response) = found
    <3>1. TokenIn(response) \in {found}
      BY <1>2, Zenon DEF TokenIn
    <3>2. QED
      BY <3>1
  <2>2. response.body = a.body
    BY <1>1, <1>2, WhatCame
  <2>3. found[1] = "returns"
    BY <2>1, SetupsAssumption, PointerOutcome DEF IsOutcome, Raises
  <2>4. found[2][2] \in Seq(STRING)
    <3>1. PICK place \in Located(a.body.value, Len(setup.pointer)) : found = Returns(place[2])
      BY <1>2, <2>2, <2>3, PlacesAreJson, FindingsArePlaces
    <3>2. IsJson(place[2])
      BY <1>2, <2>2, PlacesAreJson
    <3>3. found[2] = place[2]
      BY <3>1 DEF Returns
    <3>4. QED
      BY <2>1, <3>2, <3>3 DEF IsJson
  <2>5. Says(a, Strip(found[2][2]))
    BY <1>2, <2>1, <2>2, <2>3, Zenon DEF Says
  <2>6. QED
    BY <2>1, <2>4, <2>5
<1>3. CASE setup.source = "header"
  <2>1. TokenIn(response) = Returns(Header(a.headers, "token"))
    <3>1. TokenIn(response) \in {Returns(Header(response.headers, "token"))}
      BY <1>3, Zenon DEF TokenIn
    <3>2. QED
      BY <1>1, <3>1, WhatCame
  <2>2. Header(a.headers, "token") # Null
    BY <2>1 DEF Returns, Null
  <2>3. PICK i \in DOMAIN a.headers :
          /\ a.headers[i].name[1] = "token"
          /\ Header(a.headers, "token") = String(a.headers[i].value)
    BY <1>1, <2>2, HeaderIsSent DEF IsAnswer
  <2>4. TokenIn(response)[2][2] = a.headers[i].value
    <3>1. TokenIn(response) = Returns(String(a.headers[i].value))
      BY <2>1, <2>3
    <3>2. ASSUME NEW value
          PROVE  Returns(String(value))[2][2] = value
      BY DEF Returns, String
    <3>3. QED
      BY <3>1, <3>2
  <2>5. a.headers[i].value \in Seq(STRING)
    <3>1. a.headers \in Seq([name : STRING \X STRING, value : Seq(STRING)])
      BY <1>1 DEF IsAnswer
    <3>2. ASSUME NEW S, NEW s \in Seq(S), NEW k \in DOMAIN s
          PROVE  s[k] \in S
      OBVIOUS
    <3>3. a.headers[i] \in [name : STRING \X STRING, value : Seq(STRING)]
      BY <3>1, <3>2, Zenon
    <3>4. QED
      BY <3>3
  <2>6. Says(a, Strip(a.headers[i].value))
    BY <1>3, <2>3, Zenon DEF Says
  <2>7. QED
    BY <2>4, <2>5, <2>6
<1>4. CASE setup.source = "text" /\ response.body.form = "text"
  <2>1. TokenIn(response) = Returns(String(response.body.text))
    <3>1. TokenIn(response) \in {Returns(String(response.body.text))}
      BY <1>4, Zenon DEF TokenIn
    <3>2. QED
      BY <3>1
  <2>2. TokenIn(response)[2][2] = response.body.text
    BY <2>1 DEF Returns, String
  <2>3. /\ a.body.form = "text" /\ response.body.text \in Seq(STRING)
        /\ \/ response.body = a.body
           \/ /\ lapse = "cut"
              /\ \E n \in 0 .. a.body.size - 1 : response.body.text = SubSeq(a.body.text, 1, n)
    BY <1>1, <1>4, WhatCame
  <2>4. Says(a, Strip(response.body.text))
    BY <1>4, <2>3, Zenon DEF Says
  <2>5. QED
    BY <2>2, <2>3, <2>4
<1>5. CASE /\ ~ (setup.source = "json" /\ response.body.form = "json")
           /\ setup.source # "header"
           /\ ~ (setup.source = "text" /\ response.body.form = "text")
  <2>1. TokenIn(response) \in {Raises("AuthenticationError"), Raises("RecursionError")}
    BY <1>5, Zenon DEF TokenIn
  <2>2. QED
    BY <2>1 DEF Raises
<1>6. QED
  BY <1>2, <1>3, <1>4, <1>5

\* In every state of an exchange the pointer finds what RFC 6901 says.
LEMMA LookupIsByPlace ==
  ASSUME ExchangeInv
  PROVE  LookupFollowsRfc6901
<1> DEFINE document == response.body.value
           places   == Located(document, Len(setup.pointer))
           found    == JsonPointerGet(document, setup.pointer)
<1> SUFFICES ASSUME pc = "judging", exchange = "authentication", response.body.form = "json"
             PROVE  IF \E p \in places : p[1] = setup.pointer
                    THEN <<setup.pointer, found[2]>> \in places /\ found[1] = "returns"
                    ELSE found[1] = "raises" \/ TakesLiberty(setup.pointer)
  BY DEF LookupFollowsRfc6901
<1>1. setup \in Setups
  BY DEF ExchangeInv
<1>2. PICK a \in setup["authentication"].answers : CameFrom(a)
  BY DEF ExchangeInv, Came
<1>3. response.body = a.body
  BY <1>1, <1>2, SetupsAssumption, WhatCame DEF Exchanges
<1>4. /\ Len(setup.pointer) \in Nat /\ setup.pointer \in Seq(Characters)
      /\ \A p \in places : IsJson(p[2])
  BY <1>1, <1>2, <1>3, PlacesAreJson
<1>5. CASE \E p \in places : p[1] = setup.pointer
  <2>1. PICK p \in places : p[1] = setup.pointer
    BY <1>5
  <2>2. found = Returns(p[2])
    BY <1>4, <2>1, PlacesAreFound
  <2>3. found[1] = "returns" /\ found[2] = p[2]
    BY <2>2 DEF Returns
  <2>4. p = <<setup.pointer, p[2]>>
    BY <1>4, <2>1, PlacesArePairs
  <2> HIDE DEF places, found
  <2>5. QED
    BY <1>5, <2>1, <2>3, <2>4
<1>6. CASE ~ \E p \in places : p[1] = setup.pointer
  <2>1. found[1] \in {"returns", "raises"}
    BY <1>4, PointerOutcome DEF IsOutcome, Raises
  <2>2. CASE found[1] = "returns"
    <3>1. Len(setup.pointer) <= Len(setup.pointer)
      BY <1>4
    <3>2. PICK place \in places : place[1] = setup.pointer \/ TakesLiberty(setup.pointer)
      BY <1>4, <2>2, <3>1, FindingsArePlaces
    <3> HIDE DEF places, found
    <3>3. QED
      BY <1>6, <3>2
  <2> HIDE DEF places, found
  <2>3. QED
    BY <1>6, <2>1, <2>2
<1> HIDE DEF places, found
<1>7. QED
  BY <1>5, <1>6

-----------------------------------------------------------------------------
(* The steps.                                                              *)

\* Build does not touch what the properties speak of, and raises only where the
\* configuration cannot be encoded.
LEMMA BuildKeeps ==
  ASSUME AuthenticationInv, Build
  PROVE  AuthenticationInv'
<1> USE DEF AuthenticationInv
<1>1. pc = "building" /\ UNCHANGED <<setup, exchange, connection, response, result, lapse>>
  BY DEF Build
<1>2. \/ ~ setup[exchange].enabled /\ pc' = "returned" /\ error' = error
      \/ setup[exchange].enabled /\ pc' = "opening" /\ error' = error
      \/ ~ setup[exchange].encodes /\ pc' = "raised" /\ error' = "AttributeError"
  BY DEF Build, Go, Raise
<1>3. setup \in Setups /\ setup["authentication"].enabled
  BY SetupsAssumption DEF ExchangeInv
<1>4. TypeOK'
  BY <1>1, <1>2 DEF TypeOK
<1>5. ExchangeInv'
  BY <1>1, <1>2, <1>3 DEF ExchangeInv, TypeOK, Exchanges
<1>6. ValidatedTokensWork'
  BY <1>1, <1>2, <1>3 DEF ValidatedTokensWork, TypeOK, Exchanges
<1>7. TokenIsWhole' /\ OtherFailuresAreCaused'
  BY <1>1, <1>2 DEF TokenIsWhole, OtherFailuresAreCaused, TypeOK
<1>8. QED
  BY <1>4, <1>5, <1>6, <1>7

\* Open: what is sent in a header is fit for one, or nothing is sent.
LEMMA OpenKeeps ==
  ASSUME AuthenticationInv, Open
  PROVE  AuthenticationInv'
<1> USE DEF AuthenticationInv
<1>1. pc = "opening" /\ UNCHANGED <<setup, exchange, result>> /\ error = "none"
  BY DEF Open, TypeOK
<1>2. \/ /\ ~ Unsendable /\ response' \in setup[exchange].answers /\ connection' = "open"
         /\ pc' = "reading" /\ UNCHANGED <<error, lapse>>
      \/ /\ pc' = "raised" /\ UNCHANGED <<connection, response>>
         /\ \/ /\ exchange = "validation" /\ lapse' = lapse
               /\ \/ error' = "UnicodeEncodeError" /\ ~ Encodable(result.token)
                  \/ error' = "ValueError" /\ ~ Folded(result.token)
            \/ error' \in {"ValueError", "OverflowError"} /\ ~ setup.timeoutFits /\ lapse' = lapse
            \/ lapse' \in {"unreachable", "late", "hungUp"} /\ error' = "TransportError"
            \/ lapse' = "hungUp" /\ error' = "RemoteDisconnected"
  <2>1. CASE RefuseHeader
    BY <2>1 DEF Open, RefuseHeader, Raise, Unsendable, Sendable
  <2>2. CASE RefuseTimeout
    BY <2>2 DEF Open, RefuseTimeout, Raise
  <2>3. CASE FailToConnect
    <3>1. PICK e \in {"TransportError", "RemoteDisconnected"} :
            /\ pc' = "raised" /\ error' = e
            /\ \/ lapse' \in {"unreachable", "late"} /\ e = "TransportError"
               \/ lapse' = "hungUp"
      BY <2>3 DEF FailToConnect, Raise
    <3>2. UNCHANGED <<connection, response>>
      BY <3>1 DEF Open, Go
    <3>3. QED
      BY <3>1, <3>2
  <2>4. QED
    BY <2>1, <2>2, <2>3 DEF Open, Go
<1>3. TypeOK'
  BY <1>1, <1>2 DEF TypeOK
<1>4. ExchangeInv'
  BY <1>1, <1>2 DEF ExchangeInv, Unsendable
<1>5. ValidatedTokensWork' /\ TokenIsWhole'
  BY <1>1, <1>2 DEF ValidatedTokensWork, TokenIsWhole
<1>6. OtherFailuresAreCaused'
  BY <1>1, <1>2 DEF OtherFailuresAreCaused, ProxyErrors
<1>7. QED
  BY <1>3, <1>4, <1>5, <1>6

\* Read keeps what came, as far as it came.
LEMMA ReadKeeps ==
  ASSUME AuthenticationInv, Read
  PROVE  AuthenticationInv'
<1> USE DEF AuthenticationInv
<1>1. /\ pc = "reading" /\ connection' = "closed" /\ UNCHANGED <<setup, exchange, result>>
      /\ response \in setup[exchange].answers /\ IsAnswer(response) /\ exchange \in Exchanges
  BY SetupsAssumption DEF Read, ExchangeInv, TypeOK
<1>2. \/ \E n \in 0 .. Wanted(response.body.size) :
           /\ n <= MaxResponse /\ pc' = "judging" /\ error' = error
           /\ response' = [response EXCEPT !.body = Prefix(@, n)]
           /\ lapse' = IF n < Wanted(response.body.size) THEN "cut" ELSE "none"
      \/ /\ pc' = "raised" /\ response' = response
         /\ \/ error' = "ResponseTooLargeError" /\ lapse' \in {"cut", "none"}
            \/ error' = "TransportError" /\ lapse' = "late"
            \/ error' = "TimeoutError" /\ lapse' = "late" /\ ~ Succeeded(response)
            \/ error' = "IncompleteRead" /\ lapse' = "hungUp"
  <2>1. CASE \E n \in 0 .. Wanted(response.body.size) :
               /\ lapse' = IF n < Wanted(response.body.size) THEN "cut" ELSE "none"
               /\ IF n > MaxResponse
                  THEN Raise("ResponseTooLargeError") /\ UNCHANGED response
                  ELSE response' = [response EXCEPT !.body = Prefix(@, n)] /\ Go("judging")
    <3>1. PICK n \in 0 .. Wanted(response.body.size) :
            /\ lapse' = IF n < Wanted(response.body.size) THEN "cut" ELSE "none"
            /\ IF n > MaxResponse
               THEN Raise("ResponseTooLargeError") /\ UNCHANGED response
               ELSE response' = [response EXCEPT !.body = Prefix(@, n)] /\ Go("judging")
      BY <2>1
    <3>2. n \in Int /\ lapse' \in {"cut", "none"}
      BY <3>1, <1>1, AuthenticationAssumption DEF Wanted, IsAnswer
    <3>3. CASE n > MaxResponse
      BY <3>1, <3>2, <3>3 DEF Raise
    <3>4. CASE ~ (n > MaxResponse)
      <4>1. n <= MaxResponse
        BY <3>2, <3>4, AuthenticationAssumption
      <4>2. QED
        BY <3>1, <3>4, <4>1 DEF Go
    <3>5. QED
      BY <3>3, <3>4
  <2>2. CASE lapse' = "late" /\ LateRead /\ UNCHANGED response
    BY <2>2 DEF LateRead, Raise
  <2>3. CASE lapse' = "hungUp" /\ Raise("IncompleteRead") /\ UNCHANGED response
    BY <2>3 DEF Raise
  <2>4. QED
    BY <2>1, <2>2, <2>3 DEF Read
<1>3. TypeOK'
  BY <1>1, <1>2 DEF TypeOK
<1>4. ExchangeInv'
  <2>1. CASE pc' = "judging"
    <3>1. PICK n \in 0 .. Wanted(response.body.size) :
            /\ n <= MaxResponse
            /\ response' = [response EXCEPT !.body = Prefix(@, n)]
            /\ lapse' = IF n < Wanted(response.body.size) THEN "cut" ELSE "none"
      BY <1>2, <2>1
    <3>2. n \in 0 .. response.body.size /\ (n < response.body.size => lapse' = "cut")
      BY <1>1, <3>1, AuthenticationAssumption DEF Wanted, IsAnswer
    <3>3. Came'
      BY <1>1, <3>1, <3>2 DEF Came, CameFrom
    <3>4. QED
      BY <1>1, <2>1, <3>3 DEF ExchangeInv
  <2>2. CASE pc' = "raised"
    BY <1>1, <2>2 DEF ExchangeInv
  <2>3. QED
    BY <1>2, <2>1, <2>2
<1>5. ValidatedTokensWork' /\ TokenIsWhole'
  BY <1>1, <1>2 DEF ValidatedTokensWork, TokenIsWhole
<1>6. OtherFailuresAreCaused'
  BY <1>1, <1>2 DEF OtherFailuresAreCaused, ProxyErrors, Succeeded
<1>7. QED
  BY <1>3, <1>4, <1>5, <1>6

\* Authenticate: the outcomes of _extract_token, and where its token comes from.
LEMMA AuthenticateKeeps ==
  ASSUME AuthenticationInv, Authenticate
  PROVE  AuthenticationInv'
<1> USE DEF AuthenticationInv
<1>1. /\ pc = "judging" /\ exchange = "authentication" /\ UNCHANGED <<setup, lapse>>
      /\ setup \in Setups
  BY DEF Authenticate, ExchangeInv
<1>2. PICK a \in setup["authentication"].answers : CameFrom(a)
  BY <1>1 DEF ExchangeInv, Came
<1>3. response # None /\ response.status = a.status
  <2>1. IsAnswer(a)
    BY <1>1, SetupsAssumption DEF Exchanges
  <2>2. QED
    BY <1>2, <2>1, WhatCame
<1>4. CASE /\ pc' = "raised" /\ UNCHANGED <<exchange, connection, response, result>>
           /\ \/ error' = "AuthenticationError"
              \/ /\ error' \in {"RecursionError", "OverflowError", "ValueError"}
                 /\ setup.source = "json" /\ Succeeded(response)
                 /\ error' = "RecursionError" <=> response.body.form = "deep"
  <2>1. TypeOK'
    BY <1>1, <1>4 DEF TypeOK
  <2>2. ExchangeInv'
    BY <1>1, <1>4 DEF ExchangeInv
  <2>3. ValidatedTokensWork' /\ TokenIsWhole'
    BY <1>1, <1>4 DEF ValidatedTokensWork, TokenIsWhole
  <2>4. OtherFailuresAreCaused'
    BY <1>1, <1>4 DEF OtherFailuresAreCaused, ProxyErrors, Succeeded
  <2>5. QED
    BY <2>1, <2>2, <2>3, <2>4
<1>5. CASE \E token : \E x \in Lifetime :
             /\ result' = [token |-> token, expires |-> x]
             /\ Strip(token) # <<>> /\ Says(a, token) /\ Succeeded(response)
             /\ exchange' = "validation" /\ pc' = "building" /\ error' = error
             /\ connection' = "none" /\ response' = None
  <2>1. PICK token : Strip(token) # <<>> /\ Says(a, token) /\ result'.token = token
                     /\ result'.expires \in Lifetime
    BY <1>5
  <2>2. TypeOK'
    BY <1>1, <1>5, <2>1 DEF TypeOK, Exchanges, Lifetime
  <2>3. ExchangeInv' /\ ValidatedTokensWork' /\ OtherFailuresAreCaused'
    BY <1>1, <1>5 DEF ExchangeInv, ValidatedTokensWork, OtherFailuresAreCaused
  <2>4. TokenIsWhole'
    <3>1. Succeeded(a)
      BY <1>3, <1>5 DEF Succeeded
    <3>2. Says(a, token)'
      BY <1>1, <2>1 DEF Says
    <3>3. QED
      BY <1>1, <1>2, <2>1, <3>1, <3>2 DEF TokenIsWhole
  <2>5. QED
    BY <2>2, <2>3, <2>4
<1>6. CASE ~ Succeeded(response)
  BY <1>1, <1>4, <1>6 DEF Authenticate, Raise, Raises
<1>7. CASE Succeeded(response)
  <2>1. /\ ExtractToken(response)[1] = "raises" =>
             Raise(ExtractToken(response)[2]) /\ UNCHANGED <<exchange, connection, response, result>>
        /\ ExtractToken(response)[1] # "raises" =>
             /\ result' = ExtractToken(response)[2]
             /\ exchange' = "validation" /\ connection' = "none" /\ response' = None
             /\ Go("building")
    BY <1>7 DEF Authenticate
  <2>2. CASE ExtractToken(response) = Raises("AuthenticationError")
    BY <1>4, <2>1, <2>2 DEF Raise, Raises
  <2>3. CASE \/ /\ ExtractToken(response) \in {Raises("ValueError"), Raises("OverflowError")}
                /\ setup.source = "json" /\ response.body.form # "deep"
             \/ /\ ExtractToken(response) = Raises("RecursionError")
                /\ setup.source = "json" /\ response.body.form = "deep"
    BY <1>4, <1>7, <2>1, <2>3 DEF Raise, Raises
  <2>4. CASE /\ TokenIn(response)[1] # "raises" /\ TokenIn(response)[2][1] = "string"
             /\ Strip(TokenIn(response)[2][2]) # <<>>
             /\ \E x \in Lifetime :
                  ExtractToken(response) =
                    Returns([token |-> Strip(TokenIn(response)[2][2]), expires |-> x])
    <3> DEFINE token == Strip(TokenIn(response)[2][2])
    <3>1. Says(a, token) /\ Strip(token) # <<>>
      BY <1>1, <1>2, <2>4, FoundIsSaid, StripTwice
    <3>2. PICK x \in Lifetime : ExtractToken(response) = Returns([token |-> token, expires |-> x])
      BY <2>4
    <3> HIDE DEF token
    <3>3. result' = [token |-> token, expires |-> x] /\ exchange' = "validation"
          /\ pc' = "building" /\ error' = error /\ connection' = "none" /\ response' = None
      BY <2>1, <3>2 DEF Returns, Go
    <3>4. QED
      BY <1>5, <1>7, <3>1, <3>3
  <2>5. QED
    BY <1>1, <2>2, <2>3, <2>4, ExtractOutcome
<1>8. QED
  BY <1>6, <1>7

\* Validate lets a token pass for the status of a response that has come.
LEMMA ValidateKeeps ==
  ASSUME AuthenticationInv, Validate
  PROVE  AuthenticationInv'
<1> USE DEF AuthenticationInv
<1>1. /\ pc = "judging" /\ exchange = "validation"
      /\ UNCHANGED <<setup, exchange, connection, response, result, lapse>>
      /\ \/ response.status \in setup.expected /\ pc' = "returned" /\ error' = error
         \/ pc' = "raised" /\ error' = "AuthenticationError"
  BY DEF Validate, Go, Raise
<1>2. Sendable(result.token) /\ Came
  BY <1>1 DEF ExchangeInv
<1>3. response # None
  <2>1. PICK a \in setup[exchange].answers : CameFrom(a)
    BY <1>2 DEF Came
  <2>2. IsAnswer(a)
    BY <1>1, SetupsAssumption DEF Exchanges, ExchangeInv
  <2>3. QED
    BY <2>1, <2>2, WhatCame
<1>4. TypeOK'
  BY <1>1 DEF TypeOK
<1>5. ExchangeInv'
  BY <1>1 DEF ExchangeInv
<1>6. ValidatedTokensWork'
  BY <1>1, <1>2, <1>3 DEF ValidatedTokensWork, Sendable
<1>7. TokenIsWhole' /\ OtherFailuresAreCaused'
  BY <1>1 DEF TokenIsWhole, OtherFailuresAreCaused, ProxyErrors
<1>8. QED
  BY <1>4, <1>5, <1>6, <1>7

-----------------------------------------------------------------------------
(* The theorems.                                                           *)

\* Every exchange begins in the invariant.
LEMMA ExchangesBegin ==
  ASSUME Init
  PROVE  AuthenticationInv
<1> USE DEF Init
<1>1. TypeOK /\ ExchangeInv
  BY DEF TypeOK, ExchangeInv, Exchanges
<1>2. ValidatedTokensWork /\ TokenIsWhole /\ OtherFailuresAreCaused
  BY DEF ValidatedTokensWork, TokenIsWhole, OtherFailuresAreCaused
<1>3. QED
  BY <1>1, <1>2 DEF AuthenticationInv

\* Nothing else happens.
LEMMA ExchangesGoOn ==
  ASSUME AuthenticationInv, [Next]_vars
  PROVE  AuthenticationInv'
<1>1. CASE UNCHANGED vars
  <2> USE <1>1 DEF vars
  <2>1. TypeOK' /\ ExchangeInv'
    BY DEF AuthenticationInv, TypeOK, ExchangeInv, Came, CameFrom
  <2>2. ValidatedTokensWork'
    BY DEF AuthenticationInv, ValidatedTokensWork
  <2>3. TokenIsWhole'
    BY DEF AuthenticationInv, TokenIsWhole, Says
  <2>4. OtherFailuresAreCaused'
    BY DEF AuthenticationInv, OtherFailuresAreCaused
  <2>5. QED
    BY <2>1, <2>2, <2>3, <2>4 DEF AuthenticationInv
<1>2. QED
  BY <1>1, BuildKeeps, OpenKeeps, ReadKeeps, AuthenticateKeeps, ValidateKeeps DEF Next

\* The invariant holds throughout.
LEMMA ExchangesAreInvariant == Spec => []AuthenticationInv
BY ExchangesBegin, ExchangesGoOn, PTL DEF Spec

\* What authenticate returns is fit for the token manager: a token that is not
\* blank, whatever the endpoint sends, and no lifetime of zero or less.
THEOREM ResultsAreFit == Spec => []TypeOK
BY ExchangesAreInvariant, PTL DEF AuthenticationInv

\* max_response_bytes never shortens a token, for any limit and any answers.
THEOREM TokensComeWhole == Spec => []TokenIsWhole
BY ExchangesAreInvariant, PTL DEF AuthenticationInv

\* A token passes validation only if http.client takes it for the value of a
\* header, and by the answer of the upstream to it.
THEOREM ValidationIsTold == Spec => []ValidatedTokensWork
BY ExchangesAreInvariant, PTL DEF AuthenticationInv

\* Every failure of a refresh that is no ProxyError is due to one of the causes
\* that OtherFailuresAreCaused names.
THEOREM FailuresAreCaused == Spec => []OtherFailuresAreCaused
BY ExchangesAreInvariant, PTL DEF AuthenticationInv

\* Whatever document the endpoint sends, the pointer finds in it what the
\* document has at that place and, but for the two liberties, nothing elsewhere.
THEOREM LookupIsRight == Spec => []LookupFollowsRfc6901
<1>1. AuthenticationInv => LookupFollowsRfc6901
  BY LookupIsByPlace DEF AuthenticationInv
<1>2. QED
  BY <1>1, ExchangesAreInvariant, PTL
=============================================================================
