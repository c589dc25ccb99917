--------------------------- MODULE RequestHandler ---------------------------
(***************************************************************************)
(* One request in ProxyRequestHandler (bearer_proxy/server.py) with the    *)
(* SecurityPolicy it consults (bearer_proxy/security.py): routing, the     *)
(* caller's key, the framing of the body, the policy for methods and       *)
(* paths, the exchange with the upstream, and the reply, which is written  *)
(* to the client in two pieces, either of which may fail.                  *)
(*                                                                         *)
(* The exchange is request_with_recovery, the subject of BearerProxy: here *)
(* it returns a response or raises.  A body is its length, a target a path *)
(* (RoutePolicy), a whole URL, or what urlsplit cannot parse.              *)
(***************************************************************************)
EXTENDS RoutePolicy, FiniteSets

CONSTANTS
  Targets,         \* the targets clients ask for
  KeyRequired,     \* server.proxy_api_key is set
  Lengths,         \* values of Content-Length headers, Junk among them
  Junk,            \* one that is no integer
  MaxRequest,      \* runtime.max_request_bytes
  MaxResponse,     \* runtime.max_response_bytes
  Nothing          \* the upstream has seen no request

ASSUME HandlerAssumption ==
  /\ Targets \subseteq [form : {"path", "url", "unparsable"}, path : Seq(Segments)]
  /\ KeyRequired \in BOOLEAN
  /\ Lengths \subseteq Int \cup {Junk} /\ Junk \notin Int
  /\ MaxRequest \in Nat /\ MaxResponse \in Nat
  /\ Nothing \notin Nat

VARIABLES
  request,   \* what the client asks, and what it finds
  pc,        \* where the handler is
  body,      \* bytes of the request's body it has read
  reply,     \* the reply being written
  guarded,   \* it is written inside the try statement of _handle_proxy
  buffer,    \* _headers_buffer: replies whose headers have not gone out
  wire,      \* replies the client has begun to receive
  upstream,  \* length of the body the upstream has seen, or Nothing
  ended,     \* the client has sent all it will send
  broken     \* the client has gone: nothing reaches it any more

connection == <<ended, broken>>
vars == <<request, pc, body, reply, guarded, buffer, wire, upstream, connection>>

\* "endless": the token manager has a token that it never means to refresh.
Requests ==
  [command : Commands, target : Targets, key : {"absent", "wrong", "foreign", "right"},
   transfer : BOOLEAN, lengths : {s \in SUBSET Lengths : Cardinality(s) <= 2},
   endless : BOOLEAN]

Reply(status, size) == [status |-> status, announced |-> size, sent |-> 0]
NoReply == Reply(0, 0)

Init ==
  /\ request \in Requests
  /\ pc = "routing"
  /\ body = 0
  /\ reply = NoReply
  /\ guarded = FALSE
  /\ buffer = <<>> /\ wire = <<>>
  /\ upstream = Nothing
  /\ ended = FALSE /\ broken = FALSE

-----------------------------------------------------------------------------
(* Replies.                                                                *)

\* send_response and send_header put a reply in the buffer; no body for HEAD.
Send(status, size, inTry) ==
  LET r == Reply(status, IF request.command = "HEAD" THEN 0 ELSE size)
  IN  /\ reply' = r
      /\ buffer' = Append(buffer, r)
      /\ guarded' = inTry
      /\ pc' = "flushing"

\* _send_json, whose payloads take a byte here.
SendJson(status) == Send(status, 1, FALSE)

\* A write fails: inside the try statement the last except clause answers 500,
\* elsewhere the exception ends the handler.
WriteFails ==
  IF guarded
  THEN SendJson(500)
  ELSE pc' = "done" /\ UNCHANGED <<reply, buffer, guarded>>

\* end_headers; after a failure the buffer keeps what it held.
FlushHeaders ==
  /\ pc = "flushing"
  /\ IF broken
     THEN WriteFails /\ UNCHANGED wire
     ELSE /\ wire' = wire \o buffer
          /\ buffer' = <<>>
          /\ pc' = "writing"
          /\ UNCHANGED <<reply, guarded>>
  /\ UNCHANGED <<request, body, upstream, connection>>

\* self.wfile.write(body), unless the command is HEAD.
WriteBody ==
  /\ pc = "writing"
  /\ IF broken /\ request.command # "HEAD"
     THEN WriteFails /\ UNCHANGED wire
     ELSE /\ wire' = [wire EXCEPT ![Len(wire)].sent = reply.announced]
          /\ pc' = "done"
          /\ UNCHANGED <<reply, buffer, guarded>>
  /\ UNCHANGED <<request, body, upstream, connection>>

-----------------------------------------------------------------------------
(* The handler.                                                            *)

LocalPaths == {<<"healthz">>, <<"readyz">>, <<"metrics">>}
AsksFor(path) == request.command = "GET" /\ request.target = [form |-> "path", path |-> path]

AnsweredHere == request.command = "OPTIONS" \/ \E path \in LocalPaths : AsksFor(path)

\* Outside any try statement snapshot() raises OverflowError: there is no number
\* of whole seconds until the next refresh (token_manager.py:143).
SnapshotRaises == request.endless /\ \E path \in {<<"readyz">>, <<"metrics">>} : AsksFor(path)

\* do_OPTIONS, /healthz, /readyz and /metrics; everything else is proxied.
Route ==
  /\ pc = "routing"
  /\ \/ request.command = "OPTIONS" /\ SendJson(405)
     \/ AsksFor(<<"healthz">>) /\ SendJson(200)
     \/ AsksFor(<<"readyz">>) /\ ~ SnapshotRaises /\ (SendJson(200) \/ SendJson(503))
     \/ AsksFor(<<"metrics">>) /\ ~ SnapshotRaises /\ SendJson(200)
     \/ SnapshotRaises /\ pc' = "done" /\ UNCHANGED <<reply, buffer, guarded>>
     \/ ~ AnsweredHere /\ pc' = "authorizing" /\ UNCHANGED <<reply, buffer, guarded>>
  /\ UNCHANGED <<request, body, wire, upstream, connection>>

Authorized == KeyRequired => request.key = "right"

\* compare_digest raises TypeError for a string that is not ASCII.
KeyRaises == KeyRequired /\ request.key = "foreign"

\* A faulty Authorize: no return after the 401.
AuthorizeFallsThrough ==
  /\ pc = "authorizing"
  /\ pc' = "reading"
  /\ wire' = IF Authorized THEN wire ELSE Append(wire, [Reply(401, 1) EXCEPT !.sent = 1])
  /\ UNCHANGED <<request, body, reply, guarded, buffer, upstream, connection>>

\* The key is checked outside the try statement.
Authorize ==
  /\ pc = "authorizing"
  /\ \/ Authorized /\ pc' = "reading" /\ UNCHANGED <<reply, buffer, guarded>>
     \/ KeyRaises /\ pc' = "done" /\ UNCHANGED <<reply, buffer, guarded>>
     \/ ~ Authorized /\ ~ KeyRaises /\ SendJson(401)
  /\ UNCHANGED <<request, body, wire, upstream, connection>>

\* The framings that _read_request_body refuses.
BadFraming ==
  \/ request.transfer
  \/ Cardinality(request.lengths) > 1
  \/ \E l \in request.lengths : l = Junk \/ l < 0

Announced == IF request.lengths = {} THEN 0 ELSE CHOOSE l \in request.lengths : TRUE

\* A faulty ReadRequestBody: the request limit is not enforced.
ReadWhatComes ==
  /\ pc = "reading"
  /\ IF BadFraming
     THEN SendJson(403) /\ UNCHANGED <<body, ended>>
     ELSE /\ body' = Announced
          /\ pc' = "checking"
          /\ UNCHANGED <<reply, buffer, guarded, ended>>
  /\ UNCHANGED <<request, wire, upstream, broken>>

\* _read_request_body.  A read ends with the bytes it asked for or, sooner,
\* with the client's end of file; of a body over the limit one byte more than
\* the limit is read and thrown away.
ReadRequestBody ==
  /\ pc = "reading"
  /\ IF BadFraming
     THEN SendJson(403) /\ UNCHANGED <<body, ended>>
     ELSE LET wanted == IF Announced > MaxRequest THEN MaxRequest + 1 ELSE Announced
          IN  /\ \E n \in 0 .. wanted :
                   /\ body' = n
                   /\ ended' = (ended \/ n < wanted)
              /\ IF Announced > MaxRequest
                 THEN SendJson(413)
                 ELSE pc' = "checking" /\ UNCHANGED <<reply, buffer, guarded>>
  /\ UNCHANGED <<request, wire, upstream, broken>>

\* What inbound_to_upstream refuses.
Forbidden == request.target.form # "path" \/ ~ Permitted(request.command, request.target.path)

\* The connection is reset during the read.
ReadFails ==
  /\ pc = "reading"
  /\ broken
  /\ Announced # 0
  /\ ~ BadFraming
  /\ SendJson(500)
  /\ UNCHANGED <<request, body, wire, upstream, connection>>

\* The method is checked before the path is parsed.
Unparsable == request.command \in AllowedMethods /\ request.target.form = "unparsable"

\* A faulty CheckPolicy: the policy is checked when the request has gone out.
CheckPolicyLate ==
  /\ pc = "checking"
  /\ upstream' = body
  /\ IF Forbidden
     THEN SendJson(403)
     ELSE pc' = "exchanging" /\ UNCHANGED <<reply, buffer, guarded>>
  /\ UNCHANGED <<request, body, wire, connection>>

\* inbound_to_upstream; urlsplit raises ValueError for what it cannot parse.
CheckPolicy ==
  /\ pc = "checking"
  /\ \/ Unparsable /\ SendJson(500)
     \/ ~ Forbidden /\ pc' = "exchanging" /\ UNCHANGED <<reply, buffer, guarded>>
     \/ Forbidden /\ ~ Unparsable /\ SendJson(403)
  /\ UNCHANGED <<request, body, wire, upstream, connection>>

\* A faulty Exchange: the response limit is not enforced.
ExchangeUnlimited ==
  /\ pc = "exchanging"
  /\ \E size \in 0 .. MaxResponse + 1 : Send(200, size, TRUE)
  /\ upstream' = body
  /\ UNCHANGED <<request, body, wire, connection>>

\* request_with_recovery returns the upstream's response, whatever its status,
\* or raises: ProxyError (ResponseTooLargeError is one) answers 502, anything
\* else 500.  The upstream may have seen a request that raised.
Exchange ==
  /\ pc = "exchanging"
  /\ \/ /\ \E status \in {200, 401, 403}, size \in 0 .. MaxResponse :
             Send(status, size, TRUE)
        /\ upstream' = body
     \/ /\ \E status \in {500, 502} : SendJson(status)
        /\ upstream' \in {Nothing, body}
  /\ UNCHANGED <<request, body, wire, connection>>

Handle ==
  \/ Route \/ Authorize \/ ReadRequestBody \/ ReadFails \/ CheckPolicy \/ Exchange
  \/ FlushHeaders \/ WriteBody

\* The client goes away; it does not come back.
Break ==
  /\ pc # "done"
  /\ ~ broken
  /\ broken' = TRUE
  /\ ended' = TRUE
  /\ UNCHANGED <<request, pc, body, reply, guarded, buffer, wire, upstream>>

Next == Handle \/ Break

Spec == Init /\ [][Next]_vars

-----------------------------------------------------------------------------
(* Properties.                                                             *)

\* The types; in particular no reply is longer than the configured limit.
TypeOK ==
  /\ request \in Requests
  /\ pc \in {"routing", "authorizing", "reading", "checking", "exchanging",
             "flushing", "writing", "done"}
  /\ body \in 0 .. MaxRequest + 1
  /\ \A r \in {reply} \cup {buffer[i] : i \in DOMAIN buffer} :
       r.announced \in 0 .. 1 \/ r.announced \in 0 .. MaxResponse
  /\ guarded \in BOOLEAN
  /\ upstream \in Nat \cup {Nothing}
  /\ ended \in BOOLEAN /\ broken \in BOOLEAN

\* The requests whose handler ends without a reply.
Unanswered == IF AnsweredHere THEN SnapshotRaises ELSE KeyRaises

\* A client that stays gets one reply, and as many bytes of body as it announces
\* (none for HEAD, docs/SECURITY_MODEL.md:31), except two that get nothing: one
\* whose key is not ASCII, and one that asks /readyz or /metrics of a proxy whose
\* token is never to be refreshed.  No client ever gets the beginning of a second
\* reply, although a write that fails half-way through the upstream's response
\* makes _handle_proxy answer 500 on top of it.
OneReply ==
  /\ Len(wire) <= 1
  /\ pc = "done" /\ ~ broken =>
       IF Unanswered THEN wire = <<>>
       ELSE Len(wire) = 1 /\ wire[1].sent = wire[1].announced

\* A request that the proxy itself refuses has not reached the upstream, so
\* that the client may safely send it again, corrected.
RefusalsStayLocal ==
  ~ guarded /\ reply.status \in {401, 403, 405, 413} => upstream = Nothing

\* What the upstream sees is a request that the caller may make: a method of
\* the list, a path below the route prefix that is listed or lies below a listed
\* "/*", and not the authentication endpoint's, with a body within the limit, and the
\* whole of it unless the client ended it early.  That endpoint is "never exposed"
\* (docs/INTEGRATION_GUIDE.md:158) under the spelling of auth.request.path only: the
\* code compares texts (security.py:76), and another spelling, "%6cogin" for
\* "login", is sent on where the list allows it, as the default does.
UpstreamSeesOnlyPermitted ==
  upstream # Nothing =>
    /\ Authorized /\ request.command \in AllowedMethods
    /\ \E rest \in {UpstreamPath(request.target.path)} \ {AuthPath} :
         /\ request.target = [form |-> "path", path |-> RoutePrefix \o rest]
         /\ \E p \in AllowedPaths :
              p \in {rest, <<"">>} \/ \E n \in 0 .. Len(rest) - 1 : p = Append(SubSeq(rest, 1, n), "*")
    /\ upstream <= MaxRequest
    /\ upstream = Announced \/ ended

\* The converse of UpstreamSeesOnlyPermitted, for a caller with the key that asks
\* as it should (docs/CONFIG_REFERENCE.md:20, "exact paths or prefix patterns
\* ending in /*"): a listed path, or one at any depth below a listed "/*", is not
\* refused by the proxy, unless it is the authentication endpoint's or has a dot
\* segment.
ListedIsServed ==
  LET rest == UpstreamPath(request.target.path)
      Below(p) == /\ p[Len(p)] = "*"
                  /\ \E n \in 1 .. Len(rest) :
                       rest = SubSeq(p, 1, Len(p) - 1) \o SubSeq(rest, n, Len(rest))
  IN  /\ Authorized /\ request.command \in AllowedMethods
      /\ ~ BadFraming /\ Announced <= MaxRequest
      /\ request.target = [form |-> "path", path |-> RoutePrefix \o rest]
      /\ \E p \in AllowedPaths : p = rest \/ Below(p)
      /\ rest # AuthPath /\ ~ Unsafe(rest)
      => guarded \/ reply.status \notin {401, 403, 405, 413}
=============================================================================
