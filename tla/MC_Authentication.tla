------------------------- MODULE MC_Authentication -------------------------
(* Two families of setups: every short pointer into two documents, over     *)
(* peers with one answer; and, for each source of the token, the bodies     *)
(* that can go wrong, with every kind of validation.                        *)
EXTENDS Authentication, TLC

Text(s) == [form |-> "text", text |-> s, size |-> Len(s)]
Binary(size) == [form |-> "binary", size |-> size]
Deep(size) == [form |-> "deep", nested |-> 2, size |-> size]
Json(value, size) == [form |-> "json", value |-> value, size |-> size]
Answer(status, body) == [status |-> status, headers |-> <<>>, body |-> body]

T == String(<<"t">>)
NoValidation == [enabled |-> FALSE, encodes |-> TRUE, answers |-> {}]
Setup(source, pointer, expires, answers, validation) ==
  [source |-> source, pointer |-> pointer, expiresPointer |-> expires, timeoutFits |-> TRUE,
   expected |-> {200},
   authentication |-> [enabled |-> TRUE, encodes |-> TRUE, answers |-> answers],
   validation |-> validation]

\* Pointers.
AnyPointer == {<<>>} \cup {<<"/">> \o s : s \in BoundedSeq({"/", "~", "0", "1", "a", "sup2", "arabic1"}, 4)}
Branching ==
  Object((<<"a">> :> Array(<<T, Object(<<"~">> :> T), Number(1)>>)) @@ (<<"~", "1">> :> T)
         @@ (<<"/">> :> Object(<<"/", "~">> :> T)) @@ (<<"0">> :> Null) @@ (<<>> :> T)
         @@ (<<"sup2">> :> T))
Numbered == Array([i \in 1 .. 12 |-> IF i = 2 THEN Array(<<T, T>>) ELSE Number(i)])
PointerSetups ==
  {Setup("json", p, <<>>, {Answer(200, Json(d, 0))}, NoValidation) :
     p \in AnyPointer, d \in {Branching, Numbered}}

\* Sources.
At(c) == <<"/", c>>
Lifetimes ==
  {Number(x) : x \in {-1, 0, 1, NaN, Inf, Huge}} \cup {Null, Boolean(TRUE)}
    \cup {String(s) : s \in {<<"1", "0">>, <<" ", "0">>, <<"t">>, <<>>, <<"nan">>, <<"inf", " ">>}}
Documents ==
  {Object((<<"a">> :> T) @@ (<<"1">> :> e)) : e \in Lifetimes}
    \cup {Object(<<"a">> :> t) : t \in {String(<<"t", "eol", "0">>), String(<<"t", "eol", " ", "0">>),
                                 String(<<"t", "arabic1">>), String(<<" ">>), Number(1)}}
Texts == {<<>>, <<" ">>, <<"eol", "t">>, <<"t", "0", " ">>, <<"t", "eol", "0">>,
          <<"t", "0", "1", "0">>, <<"t", "0", "1", "0", "1">>}
TokenHeader(spelling, value) == [name |-> <<"token", spelling>>, value |-> value]
Headers ==
  {<<>>, <<TokenHeader("lower", <<"t">>), TokenHeader("upper", <<"0">>), TokenHeader("lower", <<"1">>)>>,
   <<[name |-> <<"other", "lower">>, value |-> <<"0">>], TokenHeader("lower", <<" ", "t">>)>>}

Validations ==
  {NoValidation} \cup
  {[enabled |-> TRUE, encodes |-> e, answers |-> {Answer(s, Binary(n)) : s \in {200, 201, 401}, n \in {0, 4}}] :
     e \in BOOLEAN}

SourceSetups ==
  LET Answers == {Answer(s, b) : s \in {200, 299, 302, 401}, b \in {Binary(1), Text(<<"t", "0">>)}}
      Kinds ==
        {<<"json", Answers \cup {Answer(200, Json(d, n))}>> : d \in Documents, n \in {2, 4}}
        \cup {<<"json", {Answer(200, Deep(n))}>> : n \in {3, 4}}
        \cup {<<"text", Answers \cup {Answer(200, Text(t))}>> : t \in Texts}
        \cup {<<"header", {[status |-> s, headers |-> h, body |-> Binary(1)]}>> :
                s \in {200, 500}, h \in Headers}
  IN  {[Setup(k[1], At("a"), e, k[2], v)
          EXCEPT !.timeoutFits = fits, !.authentication.encodes = encodes] :
         k \in Kinds, e \in {<<>>, At("1")}, v \in Validations, fits \in BOOLEAN, encodes \in BOOLEAN}

SomeSetups == PointerSetups \cup SourceSetups
=============================================================================
