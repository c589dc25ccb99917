--------------------------- MODULE Authentication ---------------------------
(***************************************************************************)
(* How one refresh obtains its candidate: AuthProvider.authenticate and    *)
(* validate_token (bearer_proxy/auth.py), each with one HTTP exchange      *)
(* (HTTPClient.request, bearer_proxy/http_client.py), one after the other  *)
(* as _perform_refresh_locked and --test-auth call them.  TokenManager     *)
(* sees the outcome only: an AuthResult, or an exception.                  *)
(*                                                                         *)
(* A peer answers, is out of reach, takes too long, hangs up, or ends its  *)
(* response early.  A body is text, a JSON document, "deep" (one that nests *)
(* deeper than the Python stack) or neither, and has a size in bytes; of a *)
(* deep one the first nested bytes are too deep.  Where the token is the   *)
(* body itself (source "text") the endpoint sends text or what is no text, *)
(* and a character of a text is a byte: wider ones occur in documents.     *)
(***************************************************************************)
EXTENDS JsonPointer

CONSTANTS
  Setups,       \* configurations, with what the peers may answer
  MaxResponse,  \* runtime.max_response_bytes
  None, NaN, Inf,
  Huge          \* an integer that is too large for a float

ASSUME AuthenticationAssumption ==
  /\ MaxResponse \in Nat
  /\ Cardinality({None, NaN, Inf, Huge}) = 4

Exchanges == {"authentication", "validation"}
ProxyErrors == {"AuthenticationError", "TransportError", "ResponseTooLargeError"}

VARIABLES
  setup,       \* the configuration
  exchange,    \* which of the two exchanges it is in
  pc,          \* and where
  connection,  \* that of the exchange: "none", "open" or "closed"
  response,    \* the peer's, as far as it has come
  result,      \* the AuthResult, when there is one
  error,       \* the exception that ended it
  lapse        \* history: how the peer failed to answer

vars == <<setup, exchange, pc, connection, response, result, error, lapse>>

Init ==
  /\ setup \in Setups
  /\ exchange = "authentication"
  /\ pc = "building"
  /\ connection = "none"
  /\ response = None /\ result = None
  /\ error = "none" /\ lapse = "none"

Raise(e) == pc' = "raised" /\ error' = e
Go(place) == pc' = place /\ UNCHANGED error

-----------------------------------------------------------------------------
(* One exchange.                                                           *)

\* build_request_body; validate_token returns at once when it is disabled.
Build ==
  /\ pc = "building"
  /\ IF ~ setup[exchange].enabled THEN Go("returned")
     ELSE IF setup[exchange].encodes THEN Go("opening")
     ELSE Raise("AttributeError")
  /\ UNCHANGED <<setup, exchange, connection, response, result, lapse>>

\* http.client encodes a value of a header as Latin-1, and takes a line break
\* in it only as a fold, with a blank behind it.
Encodable(token) == "arabic1" \notin ToSet(token)
Folded(token) ==
  \A i \in DOMAIN token : token[i] = "eol" => i < Len(token) /\ token[i + 1] = " "
Sendable(token) == Encodable(token) /\ Folded(token)

Unsendable == exchange = "validation" /\ ~ Sendable(result.token)

\* The headers are looked at before there is a connection.
RefuseHeader ==
  /\ Unsendable
  /\ Raise(IF Encodable(result.token) THEN "ValueError" ELSE "UnicodeEncodeError")
  /\ UNCHANGED lapse

\* The peer's name is looked up before the socket refuses a timeout that is NaN
\* (ValueError) or too long for it (OverflowError).
RefuseTimeout ==
  /\ ~ Unsendable /\ ~ setup.timeoutFits
  /\ \/ \E e \in {"ValueError", "OverflowError"} : Raise(e) /\ UNCHANGED lapse
     \/ lapse' = "unreachable" /\ Raise("TransportError")

\* A failure to connect and a timeout become TransportErrors; a peer that does
\* not answer the request, or not in HTTP, raises an exception of its own.
FailToConnect ==
  /\ ~ Unsendable /\ setup.timeoutFits
  /\ \/ lapse' \in {"unreachable", "late"} /\ Raise("TransportError")
     \/ lapse' = "hungUp" /\ \E e \in {"TransportError", "RemoteDisconnected"} : Raise(e)

\* opener.open
Open ==
  /\ pc = "opening"
  /\ \/ /\ ~ Unsendable /\ setup.timeoutFits
        /\ response' \in setup[exchange].answers
        /\ connection' = "open"
        /\ Go("reading")
        /\ UNCHANGED lapse
     \/ /\ RefuseHeader \/ RefuseTimeout \/ FailToConnect
        /\ UNCHANGED <<connection, response>>
  /\ UNCHANGED <<setup, exchange, result>>

Succeeded(r) == r.status \in 200 .. 299

\* The first n bytes of a body.  A document that was cut is no document.
Prefix(body, n) ==
  CASE n = body.size                           -> body
    [] n # body.size /\ body.form = "text"     -> [body EXCEPT !.text = SubSeq(@, 1, n), !.size = n]
    [] body.form = "deep" /\ n \in body.nested .. body.size - 1 ->
         [form |-> "deep", nested |-> body.nested, size |-> n]
    [] OTHER                                   -> [form |-> "binary", size |-> n]

\* A faulty Wanted: the byte beyond the limit is not asked for.
WantedToTheLimit(size) == IF size > MaxResponse THEN MaxResponse ELSE size

\* response.read(max_response_bytes + 1)
Wanted(size) == IF size > MaxResponse THEN MaxResponse + 1 ELSE size

\* A faulty LateRead: a timeout while the body is read is not looked for.
LateReadUncaught == Raise("TimeoutError")

\* A timeout while the body is read: the except clause for it does not cover
\* what the clause for HTTPError does, which reads all but 2xx responses.
LateRead == IF Succeeded(response) THEN Raise("TransportError") ELSE Raise("TimeoutError")

\* _read_response, and the finally clause.  read() takes an end before the
\* announced length for the end; a chunk that is not complete makes it raise.
Read ==
  /\ pc = "reading"
  /\ \/ \E n \in 0 .. Wanted(response.body.size) :
          /\ lapse' = IF n < Wanted(response.body.size) THEN "cut" ELSE "none"
          /\ IF n > MaxResponse
             THEN Raise("ResponseTooLargeError") /\ UNCHANGED response
             ELSE response' = [response EXCEPT !.body = Prefix(@, n)] /\ Go("judging")
     \/ lapse' = "late" /\ LateRead /\ UNCHANGED response
     \/ lapse' = "hungUp" /\ Raise("IncompleteRead") /\ UNCHANGED response
  /\ connection' = "closed"
  /\ UNCHANGED <<setup, exchange, result>>

-----------------------------------------------------------------------------
(* What the setups may be.                                                 *)

\* A response that a peer may send; None is no response, whole or cut.
IsAnswer(a) ==
  /\ DOMAIN a = {"status", "headers", "body"}
  /\ a.headers \in Seq([name : STRING \X STRING, value : Seq(STRING)])
  /\ a.body.size \in Nat
  /\ a.body.form = "text" =>
       a.body \in [form : {"text"}, text : Seq(STRING), size : {Len(a.body.text)}]
  /\ \A n \in 0 .. a.body.size : None \notin {a, [a EXCEPT !.body = Prefix(@, n)]}

\* A document is JSON in all its places.
ASSUME SetupsAssumption ==
  \A s \in Setups :
    /\ s["authentication"].enabled
    /\ s.pointer \in Seq(STRING) /\ s.expiresPointer \in Seq(STRING)
    /\ \A e \in Exchanges : \A a \in s[e].answers : IsAnswer(a)
    /\ \A a \in s["authentication"].answers :
         a.body.form = "json" =>
           \A p \in Located(a.body.value, Len(s.pointer)) : IsJson(p[2])

-----------------------------------------------------------------------------
(* The token.                                                              *)

\* s.strip()
Blanks == {" ", "eol"}
Strip(s) ==
  LET solid == {i \in DOMAIN s : s[i] \notin Blanks}
  IN  IF solid = {} THEN <<>> ELSE SubSeq(s, Min(solid), Max(solid))

InvalidExpiry == Raises("AuthenticationError")

\* A faulty CoerceExpiresIn: a lifetime of zero is one.
CoerceExpiresInOrZero(value) ==
  CASE value[1] = "number" /\ value[2] \in {NaN, Inf} -> Returns(value[2])
    [] value[1] = "number" /\ value[2] = Huge         -> Raises("OverflowError")
    [] value[1] = "number" /\ value[2] \notin {NaN, Inf, Huge} ->
         IF value[2] < 0 THEN InvalidExpiry ELSE Returns(value[2])
    [] OTHER -> InvalidExpiry

\* _coerce_expires_in: float(value), which must be positive; NaN passes.  Of
\* what float() reads in a string, a fraction, a sign or an exponent is left out.
CoerceExpiresIn(value) ==
  LET Positive(x) == IF x \in Nat \ {0} THEN Returns(x) ELSE InvalidExpiry
  IN  CASE value[1] = "number" /\ value[2] \in {NaN, Inf} -> Returns(value[2])
        [] value[1] = "number" /\ value[2] = Huge         -> Raises("OverflowError")
        [] value[1] = "number" /\ value[2] \notin {NaN, Inf, Huge} -> Positive(value[2])
        [] value[1] = "string" /\ Strip(value[2]) = <<"nan">> -> Returns(NaN)
        [] value[1] = "string" /\ Strip(value[2]) = <<"inf">> -> Returns(Inf)
        [] value[1] = "string" /\ Strip(value[2]) # <<>>
             /\ ToSet(Strip(value[2])) \subseteq Decimals -> Positive(IntOf(Strip(value[2])))
        [] OTHER -> InvalidExpiry

\* HTTPResponse.header.  A name is an identity and a spelling; the response's
\* dict has one value for each spelling, the last.
Header(headers, identity) ==
  LET same  == {i \in DOMAIN headers : headers[i].name[1] = identity}
      first == headers[Min(same)].name
  IN  IF same = {} THEN Null
      ELSE String(headers[Max({i \in same : headers[i].name = first})].value)

\* The lifetime is looked for in a document only, when there is a pointer to it.
LifetimeIn(document) ==
  IF setup.expiresPointer = <<>> THEN Returns(None)
  ELSE LET found == JsonPointerGet(document, setup.expiresPointer)
       IN  IF found[1] = "raises" THEN found ELSE CoerceExpiresIn(found[2])

\* The token before it is looked at.  What is no document is caught as a
\* ValueError, but the RecursionError of json.loads is none.
TokenIn(r) ==
  CASE setup.source = "json" /\ r.body.form = "json" ->
         JsonPointerGet(r.body.value, setup.pointer)
    [] setup.source = "json" /\ r.body.form = "deep" -> Raises("RecursionError")
    [] setup.source = "header" -> Returns(Header(r.headers, "token"))
    [] setup.source = "text" /\ r.body.form = "text" -> Returns(String(r.body.text))
    [] OTHER -> Raises("AuthenticationError")

\* _extract_token
ExtractToken(r) ==
  LET found    == TokenIn(r)
      lifetime == IF setup.source = "json" THEN LifetimeIn(r.body.value) ELSE Returns(None)
  IN  IF found[1] = "raises" THEN found
      ELSE IF lifetime[1] = "raises" THEN lifetime
      ELSE IF found[2][1] = "string" /\ Strip(found[2][2]) # <<>>
      THEN Returns([token |-> Strip(found[2][2]), expires |-> lifetime[2]])
      ELSE Raises("AuthenticationError")

\* The rest of authenticate; validate_token comes next.
Authenticate ==
  /\ pc = "judging" /\ exchange = "authentication"
  /\ LET found == IF Succeeded(response) THEN ExtractToken(response)
                  ELSE Raises("AuthenticationError")
     IN  IF found[1] = "raises"
         THEN Raise(found[2]) /\ UNCHANGED <<exchange, connection, response, result>>
         ELSE /\ result' = found[2]
              /\ exchange' = "validation"
              /\ connection' = "none" /\ response' = None
              /\ Go("building")
  /\ UNCHANGED <<setup, lapse>>

\* A faulty Validate: a response of any kind will do.
ValidateByAnswer ==
  /\ pc = "judging" /\ exchange = "validation"
  /\ Go("returned")
  /\ UNCHANGED <<setup, exchange, connection, response, result, lapse>>

\* The rest of validate_token.
Validate ==
  /\ pc = "judging" /\ exchange = "validation"
  /\ IF response.status \in setup.expected THEN Go("returned") ELSE Raise("AuthenticationError")
  /\ UNCHANGED <<setup, exchange, connection, response, result, lapse>>

Next == Build \/ Open \/ Read \/ Authenticate \/ Validate

Spec == Init /\ [][Next]_vars

-----------------------------------------------------------------------------
(* Properties.                                                             *)

\* The types.  What is returned is fit for the token manager: a token that is
\* not blank, and a positive lifetime (TokenManager's ConfigAssumption), or one
\* that is infinite or NaN, which _coerce_expires_in lets pass.
TypeOK ==
  /\ exchange \in Exchanges
  /\ pc \in {"building", "opening", "reading", "judging", "returned", "raised"}
  /\ connection = "open" <=> pc = "reading"
  /\ error = "none" <=> pc # "raised"
  /\ lapse \in {"none", "unreachable", "late", "hungUp", "cut"}
  /\ result # None =>
       /\ Strip(result.token) # <<>>
       /\ result.expires \in {None, NaN, Inf} \/ result.expires \in Nat \ {0}

\* "JSON Pointer follows RFC 6901" (docs/CONFIG_REFERENCE.md:51): of a document
\* that came whole, the pointer finds what the document has at that place, and
\* nothing elsewhere; but the code also takes an index with leading zeros, or
\* with digits of another script.
LookupFollowsRfc6901 ==
  pc = "judging" /\ exchange = "authentication" /\ response.body.form = "json" =>
    LET document == response.body.value
        places   == Located(document, Len(setup.pointer))
        found    == JsonPointerGet(document, setup.pointer)
    IN  IF \E p \in places : p[1] = setup.pointer
        THEN <<setup.pointer, found[2]>> \in places /\ found[1] = "returns"
        ELSE found[1] = "raises" \/ TakesLiberty(setup.pointer)

\* An answer has this token where the configuration looks for it, or, in a body
\* that is the token, lost its end together with the connection.
Says(answer, token) ==
  CASE setup.source = "json" /\ answer.body.form = "json" ->
         LET found == JsonPointerGet(answer.body.value, setup.pointer)
         IN  found[1] = "returns" /\ found[2][1] = "string" /\ Strip(found[2][2]) = token
    [] setup.source = "header" ->
         \E i \in DOMAIN answer.headers :
           answer.headers[i].name[1] = "token" /\ Strip(answer.headers[i].value) = token
    [] setup.source = "text" /\ answer.body.form = "text" ->
         \/ Strip(answer.body.text) = token
         \/ lapse = "cut" /\ \E n \in 0 .. answer.body.size - 1 :
                              Strip(SubSeq(answer.body.text, 1, n)) = token
    [] OTHER -> FALSE

\* A token is one that the endpoint sent, from its first character to its last,
\* although read() reports no early end: a document that was cut is no JSON and
\* a header has come before the body.  Only a token that is the body itself may
\* have lost its end, and then only because the connection did, never because
\* of max_response_bytes.
TokenIsWhole ==
  exchange = "validation" /\ pc = "building" =>
    \E answer \in setup["authentication"].answers :
      Succeeded(answer) /\ Says(answer, result.token)

\* With validation, a token that is handed to the token manager is one that
\* http.client takes for the value of a header (one with a folded line break in
\* it is), and that the upstream has just answered to as the configuration
\* expects; a body that had lost its end does not matter there.
ValidatedTokensWork ==
  pc = "returned" /\ setup["validation"].enabled =>
    /\ exchange = "validation" /\ Sendable(result.token)
    /\ response # None /\ response.status \in setup.expected

\* The handler reports ProxyErrors as 502, "safe, user-visible operational
\* failures" (errors.py:5), and anything else as 500.  Whatever else a refresh
\* ends with, it is for one of these reasons: the configured body, or the
\* timeout, that cannot be used; a token that cannot be sent; a peer that hangs
\* up, or is late within the body of a refusal, which no TransportError reports
\* (errors.py:13, "could not communicate with an HTTP peer"); a document that nests
\* too deep, or the values that it has at the pointers, which no AuthenticationError
\* does (errors.py:25, "returned an unusable token").
OtherFailuresAreCaused ==
  pc = "raised" =>
    \/ error \in ProxyErrors
    \/ error = "AttributeError" /\ ~ setup[exchange].encodes
    \/ error = "UnicodeEncodeError" /\ exchange = "validation" /\ ~ Encodable(result.token)
    \/ error = "ValueError" /\ exchange = "validation" /\ ~ Folded(result.token)
    \/ error \in {"ValueError", "OverflowError"} /\ ~ setup.timeoutFits
    \/ error \in {"RemoteDisconnected", "IncompleteRead"} /\ lapse = "hungUp"
    \/ error = "TimeoutError" /\ lapse = "late" /\ ~ Succeeded(response)
    \/ /\ error \in {"RecursionError", "OverflowError", "ValueError"}
       /\ exchange = "authentication" /\ setup.source = "json" /\ Succeeded(response)
       /\ error = "RecursionError" <=> response.body.form = "deep"
=============================================================================
