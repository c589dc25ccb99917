---------------------------- MODULE JsonPointer ----------------------------
(***************************************************************************)
(* json_pointer_get and _decode_pointer_part (bearer_proxy/auth.py): how a *)
(* token is found in the document that the authentication endpoint sends.  *)
(*                                                                         *)
(* A string is a sequence of characters, and so is a pointer; a JSON value *)
(* is a pair of its type and its content.  str.isdigit() holds for the ten *)
(* digits and for others: "arabic1" is a one of another script, which      *)
(* int() takes, and "sup2" the superscript two, which int() refuses.       *)
(***************************************************************************)
EXTENDS Integers, SequencesExt

\* JSON values.
Null == <<"null">>
Number(x) == <<"number", x>>
Boolean(b) == <<"boolean", b>>
String(s) == <<"string", s>>
Array(s) == <<"array", s>>
Object(f) == <<"object", f>>

\* What a call comes to.
Returns(v) == <<"returns", v>>
Raises(e) == <<"raises", e>>

Numerals == <<"0", "1", "2", "3", "4", "5", "6", "7", "8", "9">>
Digits == ToSet(Numerals)
Decimals == Digits \cup {"arabic1"}

\* int(s), where s has no other characters.
DigitValue(c) == IF c = "arabic1" THEN 1 ELSE CHOOSE d \in 0 .. 9 : Numerals[d + 1] = c
IntOf(s) ==
  LET value[n \in 0 .. Len(s)] ==
        IF n = 0 THEN 0 ELSE 10 * value[n - 1] + DigitValue(s[n])
  IN  value[Len(s)]

\* pointer.split("/")[1:], for a pointer that starts with a slash: part k is what
\* stands between slash k and the next.
Slashes(pointer) == {i \in DOMAIN pointer : pointer[i] = "/"}
Part(pointer, k) ==
  LET from  == CHOOSE i \in Slashes(pointer) : Cardinality({j \in Slashes(pointer) : j <= i}) = k
      ends  == {i \in Slashes(pointer) : i > from} \cup {Len(pointer) + 1}
  IN  SubSeq(pointer, from + 1, Min(ends) - 1)

\* _decode_pointer_part raises for a tilde that 0 or 1 does not follow; it
\* passes over the digit, which is no tilde.
WellEscaped(part) ==
  \A i \in DOMAIN part : part[i] = "~" => i < Len(part) /\ part[i + 1] \in {"0", "1"}

\* A faulty DecodePart: "~0" is replaced first, and "~01" becomes a slash.
DecodePartTwice(part) ==
  LET Replace(digit, c, s) ==
        FlattenSeq([i \in DOMAIN s |->
          CASE s[i] = "~" /\ i < Len(s) /\ s[i + 1] = digit -> <<c>>
            [] i > 1 /\ s[i - 1] = "~" /\ s[i] = digit      -> <<>>
            [] OTHER                                       -> <<s[i]>>])
  IN  Replace("1", "/", Replace("0", "~", part))

\* _decode_pointer_part, from left to right.
DecodePart(part) ==
  FlattenSeq([i \in DOMAIN part |->
    CASE i > 1 /\ part[i - 1] = "~" -> IF part[i] = "0" THEN <<"~">> ELSE <<"/">>
      [] part[i] = "~"              -> <<>>
      [] OTHER                      -> <<part[i]>>])

NoMatch == Raises("AuthenticationError")

\* The step to one member of an object or of an array.
Member(value, part) ==
  CASE value[1] = "object" /\ part \in DOMAIN value[2] -> Returns(value[2][part])
    [] value[1] = "array" /\ part # <<>> /\ ToSet(part) \subseteq Decimals ->
         IF IntOf(part) < Len(value[2]) THEN Returns(value[2][IntOf(part) + 1]) ELSE NoMatch
    [] value[1] = "array" /\ "sup2" \in ToSet(part)
         /\ ToSet(part) \subseteq Decimals \cup {"sup2"} -> Raises("ValueError")
    [] OTHER -> NoMatch

\* One turn of the loop; the first failure ends it.
Follow(found, part) ==
  IF found[1] = "raises" THEN found
  ELSE IF ~ WellEscaped(part) THEN NoMatch
  ELSE Member(found[2], DecodePart(part))

\* json_pointer_get
JsonPointerGet(document, pointer) ==
  LET parts == Cardinality(Slashes(pointer))
      found[k \in 0 .. parts] ==
        IF k = 0 THEN Returns(document) ELSE Follow(found[k - 1], Part(pointer, k))
  IN  IF pointer = <<>> THEN Returns(document)
      ELSE IF pointer[1] # "/" THEN NoMatch
      ELSE found[parts]

-----------------------------------------------------------------------------
(* Reference (RFC 6901): the pointers that a document has, each with what  *)
(* it points to, obtained by writing pointers instead of reading them.     *)

Escape(name) ==
  FlattenSeq([i \in DOMAIN name |->
    CASE name[i] = "~" -> <<"~", "0">> [] name[i] = "/" -> <<"~", "1">> [] OTHER -> <<name[i]>>])

\* The indices of an array of n members, in the order of the members: 0 .. 9,
\* and then each is a shorter one with a digit after it.
Indices(n) ==
  LET first[k \in 0 .. n] ==
        IF k = 0 THEN <<>>
        ELSE Append(first[k - 1],
               IF k <= 10 THEN <<Numerals[k]>>
               ELSE Append(first[k - 1][(k - 1) \div 10 + 1], Numerals[((k - 1) % 10) + 1]))
  IN  first[n]

Members(value) ==
  CASE value[1] = "object" -> {<<Escape(k), value[2][k]>> : k \in DOMAIN value[2]}
    [] value[1] = "array"  -> {<<Indices(Len(value[2]))[i], value[2][i]>> : i \in DOMAIN value[2]}
    [] OTHER -> {}

\* The places of a document that are no deeper than depth.
Located(document, depth) ==
  LET level[k \in 0 .. depth] ==
        IF k = 0 THEN {<<<<>>, document>>}
        ELSE UNION {{<<p[1] \o <<"/">> \o m[1], m[2]>> : m \in Members(p[2])} : p \in level[k - 1]}
  IN  UNION {level[k] : k \in 0 .. depth}

\* What json.loads makes of strings, objects and arrays.
IsJson(value) ==
  /\ value[1] = "string" => value[2] \in Seq(STRING)
  /\ value[1] = "object" => DOMAIN value[2] \subseteq Seq(STRING)
  /\ value[1] = "array"  => value[2] \in Seq(ToSet(value[2]))

\* The liberties that the code takes: an index may begin with zeros, and have
\* digits of other scripts.
HasLeadingZero(pointer) ==
  \E i \in 2 .. Len(pointer) - 1 :
    pointer[i - 1] = "/" /\ pointer[i] = "0" /\ pointer[i + 1] \in Digits
TakesLiberty(pointer) == HasLeadingZero(pointer) \/ ~ ToSet(pointer) \cap Decimals \subseteq Digits
=============================================================================
