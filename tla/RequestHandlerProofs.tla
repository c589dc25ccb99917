------------------------ MODULE RequestHandlerProofs ------------------------
(***************************************************************************)
(* Proofs about RequestHandler and RoutePolicy for any configuration, any  *)
(* targets and any framing of the request.                                 *)
(***************************************************************************)
EXTENDS RequestHandler, SequenceTheorems, TLAPS

-----------------------------------------------------------------------------
(* Paths.                                                                  *)

\* A path that begins with another is that one and the rest.
LEMMA PrefixAndRest ==
  ASSUME NEW S, NEW s \in Seq(S), NEW t \in Seq(S), IsPrefix(s, t)
  PROVE  /\ t = s \o SubSeq(t, Len(s) + 1, Len(t))
         /\ SubSeq(t, Len(s) + 1, Len(t)) \in Seq(S)
<1>1. /\ Len(s) \in Nat /\ Len(t) \in Nat /\ Len(s) <= Len(t)
      /\ s = SubSeq(t, 1, Len(s))
  BY LenProperties, SubSeqFull DEF IsPrefix
<1>2. \A i \in 1 .. Len(t) : t[i] \in S
  BY LenProperties
<1>3. SubSeq(t, Len(s) + 1, Len(t)) \in Seq(S)
  BY <1>1, <1>2, SubSeqProperties
<1>4. s \o SubSeq(t, Len(s) + 1, Len(t)) \in Seq(S)
  BY <1>3, ConcatProperties
<1>5. /\ Len(SubSeq(t, Len(s) + 1, Len(t))) = Len(t) - Len(s)
      /\ \A i \in 1 .. Len(t) - Len(s) : SubSeq(t, Len(s) + 1, Len(t))[i] = t[Len(s) + i]
  <2>1. \A i \in Len(s) + 1 .. Len(t) : t[i] \in S
    BY <1>1, <1>2
  <2>2. /\ Len(SubSeq(t, Len(s) + 1, Len(t))) =
             IF Len(s) + 1 <= Len(t) THEN Len(t) - (Len(s) + 1) + 1 ELSE 0
        /\ \A i \in 1 .. Len(t) - (Len(s) + 1) + 1 :
             SubSeq(t, Len(s) + 1, Len(t))[i] = t[Len(s) + 1 + i - 1]
    BY <1>1, <2>1, SubSeqProperties
  <2>3. QED
    BY <1>1, <2>2
<1>6. \A i \in 1 .. Len(s) : s[i] = t[i]
  <2>1. \A i \in 1 .. Len(s) : t[i] \in S
    BY <1>1, <1>2
  <2>2. \A i \in 1 .. Len(s) - 1 + 1 : SubSeq(t, 1, Len(s))[i] = t[1 + i - 1]
    BY <1>1, <2>1, SubSeqProperties
  <2>3. QED
    BY <1>1, <2>2
<1>7. /\ Len(s \o SubSeq(t, Len(s) + 1, Len(t))) = Len(t)
      /\ \A i \in 1 .. Len(t) : (s \o SubSeq(t, Len(s) + 1, Len(t)))[i] = t[i]
  BY <1>1, <1>3, <1>5, <1>6, ConcatProperties
<1>8. QED
  BY <1>3, <1>4, <1>7, SeqEqual

\* And conversely.
LEMMA PrefixOfConcat ==
  ASSUME NEW S, NEW s \in Seq(S), NEW rest \in Seq(S), rest # <<>>
  PROVE  IsStrictPrefix(s, s \o rest)
<1>1. /\ Len(s) \in Nat /\ Len(rest) \in Nat \ {0}
      /\ s \o rest \in Seq(S)
      /\ Len(s \o rest) = Len(s) + Len(rest)
      /\ \A i \in 1 .. Len(s) : (s \o rest)[i] = s[i]
  BY LenProperties, EmptySeq, ConcatProperties
<1>2. \A i \in 1 .. Len(s) : (s \o rest)[i] \in S
  BY <1>1, LenProperties
<1>3. /\ SubSeq(s \o rest, 1, Len(s)) \in Seq(S)
      /\ Len(SubSeq(s \o rest, 1, Len(s))) = Len(s)
      /\ \A i \in 1 .. Len(s) : SubSeq(s \o rest, 1, Len(s))[i] = s[i]
  <2>1. /\ SubSeq(s \o rest, 1, Len(s)) \in Seq(S)
        /\ Len(SubSeq(s \o rest, 1, Len(s))) = IF 1 <= Len(s) THEN Len(s) - 1 + 1 ELSE 0
        /\ \A i \in 1 .. Len(s) - 1 + 1 : SubSeq(s \o rest, 1, Len(s))[i] = (s \o rest)[1 + i - 1]
    BY <1>1, <1>2, SubSeqProperties
  <2>2. QED
    BY <1>1, <2>1
<1>4. SubSeq(s \o rest, 1, Len(s)) = s
  BY <1>3, SeqEqual
<1>5. SubSeq(s, 1, Len(s)) = s
  BY SubSeqFull
<1>6. IsPrefix(s, s \o rest)
  BY <1>1, <1>4, <1>5 DEF IsPrefix
<1>7. s # s \o rest
  BY <1>1
<1>8. QED
  BY <1>6, <1>7 DEF IsStrictPrefix

\* What is routed is the route prefix and the upstream's path, which is not empty.
LEMMA RoutedSplits ==
  ASSUME NEW path \in Seq(STRING), Routed(path)
  PROVE  /\ path = RoutePrefix \o UpstreamPath(path)
         /\ UpstreamPath(path) \in Seq(STRING)
<1>1. RoutePrefix \in Seq(STRING) /\ IsPrefix(RoutePrefix, path)
  BY PolicyAssumption DEF Routed, IsStrictPrefix
<1>2. QED
  BY <1>1, PrefixAndRest DEF UpstreamPath

(* Conversely, a path made of the prefix and a non-empty rest is routed. *)
LEMMA PrefixIsRouted ==
  ASSUME NEW path \in Seq(STRING), UpstreamPath(path) # <<>>,
         path = RoutePrefix \o UpstreamPath(path)
  PROVE  Routed(path)
<1>1. RoutePrefix \in Seq(STRING) /\ Len(RoutePrefix) \in Nat /\ Len(path) \in Nat
  BY PolicyAssumption, LenProperties
<1>2. \A i \in Len(RoutePrefix) + 1 .. Len(path) : path[i] \in STRING
  BY <1>1, LenProperties
<1>3. UpstreamPath(path) \in Seq(STRING)
  BY <1>1, <1>2, SubSeqProperties DEF UpstreamPath
<1>4. QED
  BY <1>1, <1>3, PrefixOfConcat DEF Routed

\* A pattern that ends in "*" is the beginning of every path that it allows.
LEMMA PatternOfPath ==
  ASSUME NEW p \in AllowedPaths, NEW rest \in Seq(STRING),
         p[Len(p)] = "*", IsStrictPrefix(Front(p), rest)
  PROVE  \E n \in 0 .. Len(rest) - 1 : p = Append(SubSeq(rest, 1, n), "*")
<1>1. /\ p \in Seq(STRING) /\ Len(p) \in Nat \ {0} /\ Len(rest) \in Nat
  BY PolicyAssumption, LenProperties, EmptySeq
<1>2. \A i \in 1 .. Len(p) - 1 : p[i] \in STRING
  BY <1>1, LenProperties
<1>3. /\ Front(p) \in Seq(STRING)
      /\ Len(Front(p)) = Len(p) - 1
      /\ \A i \in 1 .. Len(p) - 1 : Front(p)[i] = p[i]
  <2>1. /\ Front(p) \in Seq(STRING)
        /\ Len(Front(p)) = IF 1 <= Len(p) - 1 THEN Len(p) - 1 - 1 + 1 ELSE 0
        /\ \A i \in 1 .. Len(p) - 1 - 1 + 1 : Front(p)[i] = p[1 + i - 1]
    <3>1. 1 \in Int /\ Len(p) - 1 \in Int
      BY <1>1
    <3>2. QED
      BY <1>2, <3>1, SubSeqProperties DEF Front
  <2>2. Len(Front(p)) = Len(p) - 1
    <3>1. CASE 1 <= Len(p) - 1
      BY <1>1, <2>1, <3>1
    <3>2. CASE Len(p) = 1
      BY <2>1, <3>2
    <3>3. \A n \in Nat \ {0} : 1 <= n - 1 \/ n = 1
      OBVIOUS
    <3>4. QED
      BY <1>1, <3>1, <3>2, <3>3
  <2>3. ASSUME NEW i \in 1 .. Len(p) - 1 PROVE Front(p)[i] = p[i]
    <3>1. i \in 1 .. Len(p) - 1 - 1 + 1 /\ 1 + i - 1 = i
      BY <1>1
    <3>2. Front(p)[i] = p[1 + i - 1]
      BY <2>1, <3>1
    <3>3. QED
      BY <3>1, <3>2
  <2>4. QED
    BY <2>1, <2>2, <2>3
<1>4. /\ Len(Front(p)) <= Len(rest)
      /\ Front(p) = SubSeq(rest, 1, Len(p) - 1)
      /\ Front(p) # rest
  BY <1>3, SubSeqFull DEF IsStrictPrefix, IsPrefix
<1>5. Len(p) - 1 \in 0 .. Len(rest) - 1
  <2>1. Len(p) - 1 # Len(rest)
    BY <1>4, SubSeqFull
  <2>2. QED
    BY <1>1, <1>3, <1>4, <2>1
<1>6. p = Append(Front(p), "*")
  <2>1. /\ Append(Front(p), "*") \in Seq(STRING)
        /\ Len(Append(Front(p), "*")) = Len(p)
        /\ \A i \in 1 .. Len(p) - 1 : Append(Front(p), "*")[i] = p[i]
        /\ Append(Front(p), "*")[Len(p)] = "*"
    BY <1>1, <1>3, AppendProperties
  <2>2. \A i \in 1 .. Len(p) : p[i] = Append(Front(p), "*")[i]
    <3>1. TAKE i \in 1 .. Len(p)
    <3>2. CASE i = Len(p)
      BY <2>1, <3>2
    <3>3. CASE i # Len(p)
      BY <1>1, <2>1, <3>3
    <3>4. QED
      BY <3>2, <3>3
  <2>3. QED
    BY <1>1, <2>1, <2>2, SeqEqual
<1>7. QED
  BY <1>4, <1>5, <1>6

-----------------------------------------------------------------------------
(* The invariant.                                                          *)

Replies == [status : Nat, announced : Nat, sent : Nat]

Places == {"routing", "authorizing", "reading", "checking", "exchanging",
           "flushing", "writing", "done"}
Deciding == {"routing", "authorizing", "reading", "checking", "exchanging"}

\* No reply is longer than it may be, and those are the types of TypeOK and
\* what it says nothing of.
Bounded(r) == r.announced \in 0 .. 1 \/ r.announced \in 0 .. MaxResponse

Typed ==
  /\ request \in Requests
  /\ pc \in Places
  /\ body \in 0 .. MaxRequest + 1
  /\ Bounded(reply) /\ \A i \in DOMAIN buffer : Bounded(buffer[i])
  /\ guarded \in BOOLEAN
  /\ upstream \in Nat \cup {Nothing}
  /\ ended \in BOOLEAN /\ broken \in BOOLEAN
  /\ reply \in Replies /\ buffer \in Seq(Replies) /\ wire \in Seq(Replies)

\* Nothing is written and nothing sent on while the request is being judged.
NothingYet == pc \in Deciding => buffer = <<>> /\ wire = <<>> /\ upstream = Nothing

\* What has been judged by the time the handler is at each place.
Judged ==
  /\ pc = "authorizing" => ~ AnsweredHere
  /\ pc \in {"reading", "checking", "exchanging"} => Authorized
  /\ pc \in {"checking", "exchanging"} => body <= MaxRequest /\ (body = Announced \/ ended)
  /\ pc = "exchanging" => ~ Forbidden

SentOn ==
  upstream # Nothing =>
    /\ Authorized /\ ~ Forbidden
    /\ upstream <= MaxRequest
    /\ upstream = Announced \/ ended

\* The headers of a second reply stay in the buffer: the write before them
\* failed because the client has gone.
Written ==
  /\ pc = "flushing" => Len(wire) <= 1 /\ (~ broken => wire = <<>> /\ buffer = <<reply>>)
  /\ pc = "writing" => Len(wire) = 1 /\ wire[1].announced = reply.announced
  /\ pc = "done" => /\ Len(wire) <= 1
                    /\ ~ broken /\ ~ Unanswered =>
                         Len(wire) = 1 /\ wire[1].sent = wire[1].announced

\* Each refusal has its reason.
Reasons ==
  ~ guarded =>
    /\ reply.status = 401 => ~ Authorized
    /\ reply.status = 403 => BadFraming \/ Forbidden
    /\ reply.status = 405 => request.command = "OPTIONS"
    /\ reply.status = 413 => Announced > MaxRequest
    /\ reply.status \in {401, 403, 405, 413} => upstream = Nothing

IInv == Typed /\ NothingYet /\ Judged /\ SentOn /\ Written /\ Reasons

USE DEF Places, Deciding

\* What a request announces is a length, unless its framing is refused.
LEMMA AnnouncedIsLength ==
  ASSUME request \in Requests, ~ BadFraming
  PROVE  Announced \in Nat
<1>1. \A l \in request.lengths : l \in Nat
  BY HandlerAssumption DEF BadFraming, Requests
<1>2. QED
  BY <1>1 DEF Announced

\* The judgements are about the request alone.
LEMMA SameRequest ==
  ASSUME UNCHANGED request
  PROVE  /\ Authorized' = Authorized /\ KeyRaises' = KeyRaises
         /\ Unanswered' = Unanswered /\ AnsweredHere' = AnsweredHere
         /\ BadFraming' = BadFraming /\ Announced' = Announced
         /\ Forbidden' = Forbidden
  BY DEF Authorized, KeyRaises, Unanswered, AnsweredHere, AsksFor, SnapshotRaises,
         BadFraming, Announced, Forbidden

\* A reply is put in the buffer.
LEMMA Sending ==
  ASSUME Typed, NEW status \in Nat, NEW size \in Nat, NEW inTry \in BOOLEAN,
         size \in 0 .. 1 \/ size \in 0 .. MaxResponse,
         Send(status, size, inTry)
  PROVE  /\ reply' \in Replies /\ reply'.status = status /\ Bounded(reply')
         /\ buffer' \in Seq(Replies) /\ \A i \in DOMAIN buffer' : Bounded(buffer'[i])
         /\ buffer = <<>> => buffer' = <<reply'>>
         /\ guarded' \in BOOLEAN /\ guarded' = inTry
         /\ pc' = "flushing"
<1>1. /\ reply' \in Replies /\ reply'.status = status /\ Bounded(reply')
  BY HandlerAssumption DEF Send, Reply, Replies, Bounded
<1>2. buffer' = Append(buffer, reply') /\ pc' = "flushing" /\ guarded' = inTry
  BY DEF Send
<1>3. /\ buffer \in Seq(Replies) /\ DOMAIN buffer = 1 .. Len(buffer) /\ Len(buffer) \in Nat
      /\ \A i \in 1 .. Len(buffer) : Bounded(buffer[i])
  BY LenProperties DEF Typed
<1>4. /\ buffer' \in Seq(Replies) /\ Len(buffer') = Len(buffer) + 1
      /\ DOMAIN buffer' = 1 .. Len(buffer')
      /\ \A i \in 1 .. Len(buffer) : buffer'[i] = buffer[i]
      /\ buffer'[Len(buffer) + 1] = reply'
  BY <1>1, <1>2, <1>3, AppendProperties, LenProperties
<1>5. ASSUME NEW i \in DOMAIN buffer' PROVE Bounded(buffer'[i])
  <2>1. CASE i = Len(buffer) + 1
    BY <1>1, <1>4, <2>1
  <2>2. CASE i # Len(buffer) + 1
    <3>1. i \in 1 .. Len(buffer)
      BY <1>3, <1>4, <2>2
    <3>2. QED
      BY <1>3, <1>4, <3>1
  <2>3. QED
    BY <2>1, <2>2
<1>6. buffer = <<>> => buffer' = <<reply'>>
  BY <1>2
<1>7. QED
  BY <1>1, <1>2, <1>4, <1>5, <1>6

\* The invariant is kept by a reply to a request that has been judged, or that
\* follows one that could not be written.
LEMMA Replying ==
  ASSUME IInv, NEW status \in Nat, NEW size \in Nat, NEW inTry \in BOOLEAN,
         size \in 0 .. 1 \/ size \in 0 .. MaxResponse,
         Send(status, size, inTry),
         request' = request, wire' = wire, broken' = broken,
         body' \in 0 .. MaxRequest + 1, ended' \in BOOLEAN,
         upstream' \in Nat \cup {Nothing}, SentOn',
         pc \in Deciding \/ broken, Len(wire) <= 1,
         inTry \/ /\ status = 401 => ~ Authorized
                  /\ status = 403 => BadFraming \/ Forbidden
                  /\ status = 405 => request.command = "OPTIONS"
                  /\ status = 413 => Announced > MaxRequest
                  /\ status \in {401, 403, 405, 413} => upstream' = Nothing
  PROVE  IInv'
<1>1. Typed
  BY DEF IInv
<1>2. /\ reply' \in Replies /\ reply'.status = status /\ Bounded(reply')
      /\ buffer' \in Seq(Replies) /\ \A i \in DOMAIN buffer' : Bounded(buffer'[i])
      /\ buffer = <<>> => buffer' = <<reply'>>
      /\ guarded' \in BOOLEAN /\ guarded' = inTry
      /\ pc' = "flushing"
  BY <1>1, Sending
<1>3. Typed'
  BY <1>1, <1>2 DEF Typed
<1>4. NothingYet' /\ Judged'
  BY <1>2 DEF NothingYet, Judged
<1>5. Written'
  BY <1>2 DEF Written, IInv, NothingYet
<1>6. Reasons'
  BY <1>2, SameRequest DEF Reasons
<1>7. QED
  BY <1>3, <1>4, <1>5, <1>6 DEF IInv

(* A JSON reply begun with the reason for it keeps the invariant. *)
LEMMA ReplyingJson ==
  ASSUME IInv, NEW status \in Nat, SendJson(status),
         request' = request, wire' = wire, broken' = broken,
         body' \in 0 .. MaxRequest + 1, ended' \in BOOLEAN,
         upstream' \in Nat \cup {Nothing}, SentOn',
         pc \in Deciding \/ broken, Len(wire) <= 1,
         status = 401 => ~ Authorized,
         status = 403 => BadFraming \/ Forbidden,
         status = 405 => request.command = "OPTIONS",
         status = 413 => Announced > MaxRequest,
         status \in {401, 403, 405, 413} => upstream' = Nothing
  PROVE  IInv'
<1>1. 1 \in Nat /\ 1 \in 0 .. 1 /\ FALSE \in BOOLEAN
  OBVIOUS
<1>2. Send(status, 1, FALSE)
  BY DEF SendJson
<1>3. QED
  BY <1>1, <1>2, Replying, Zenon

-----------------------------------------------------------------------------
(* Its steps.                                                              *)

\* What the decisions leave as it is.
LEMMA Judging ==
  ASSUME IInv, pc \in Deciding, UNCHANGED <<request, wire, upstream, broken>>
  PROVE  /\ Typed /\ buffer = <<>> /\ wire = <<>> /\ Len(wire) = 0
         /\ upstream = Nothing /\ upstream' = Nothing /\ upstream' \in Nat \cup {Nothing}
         /\ SentOn'
<1>1. Typed /\ buffer = <<>> /\ wire = <<>> /\ upstream = Nothing /\ upstream' = Nothing
  BY DEF IInv, NothingYet
<1>2. Len(wire) = 0
  BY <1>1
<1>3. QED
  BY <1>1, <1>2 DEF SentOn

\* A decision that only lets the request go on.
LEMMA Going ==
  ASSUME IInv, pc \in Deciding, pc' \in Deciding,
         UNCHANGED <<request, reply, guarded, buffer, wire, upstream, broken>>,
         body' \in 0 .. MaxRequest + 1, ended' \in BOOLEAN, Judged'
  PROVE  IInv'
<1>1. Typed /\ buffer = <<>> /\ wire = <<>> /\ upstream = Nothing /\ SentOn'
  BY Judging
<1>2. Typed'
  BY <1>1 DEF Typed
<1>3. NothingYet' /\ Written'
  BY <1>1 DEF NothingYet, Written
<1>4. Reasons'
  BY SameRequest DEF IInv, Reasons
<1>5. QED
  BY <1>1, <1>2, <1>3, <1>4 DEF IInv

\* A request begins in the invariant.
LEMMA IInvInit == Init => IInv
<1>1. SUFFICES ASSUME Init PROVE IInv
  OBVIOUS
<1>2. reply = NoReply /\ reply.status = 0 /\ reply.announced = 0 /\ reply \in Replies
  BY <1>1 DEF Init, NoReply, Reply, Replies
<1>3. /\ buffer = <<>> /\ wire = <<>> /\ DOMAIN buffer = {}
      /\ buffer \in Seq(Replies) /\ wire \in Seq(Replies)
  BY <1>1, EmptySeq DEF Init
<1>4. Bounded(reply) /\ \A i \in DOMAIN buffer : Bounded(buffer[i])
  BY <1>2, <1>3, HandlerAssumption DEF Bounded
<1>5. /\ request \in Requests /\ pc = "routing" /\ body = 0
      /\ body \in 0 .. MaxRequest + 1 /\ upstream = Nothing
  BY <1>1, HandlerAssumption DEF Init
<1>6. guarded \in BOOLEAN /\ ended \in BOOLEAN /\ broken \in BOOLEAN
  BY <1>1 DEF Init
<1>7. Typed
  BY <1>2, <1>3, <1>4, <1>5, <1>6 DEF Typed
<1>8. NothingYet /\ Judged /\ SentOn /\ Written
  BY <1>3, <1>5 DEF NothingYet, Judged, SentOn, Written
<1>9. Reasons
  BY <1>2, <1>5 DEF Reasons
<1>10. QED
  BY <1>7, <1>8, <1>9 DEF IInv

\* The proxy's own paths are answered, the others go on.
LEMMA RouteStep == ASSUME IInv, Route PROVE IInv'
<1>1. /\ pc = "routing"
      /\ UNCHANGED <<request, body, wire, upstream, ended, broken>>
  BY DEF Route, connection
<1>2. /\ Typed /\ Len(wire) = 0 /\ SentOn' /\ upstream' \in Nat \cup {Nothing}
  BY <1>1, Judging
<1>3. body' \in 0 .. MaxRequest + 1 /\ ended' \in BOOLEAN
  BY <1>1, <1>2 DEF Typed
<1>4. CASE request.command = "OPTIONS" /\ SendJson(405)
  <2>1. upstream' = Nothing
    BY <1>1, Judging
  <2>2. QED
    BY <1>1, <1>2, <1>3, <1>4, <2>1, ReplyingJson
<1>5. CASE \E status \in {200, 503} : SendJson(status)
  BY <1>1, <1>2, <1>3, <1>5, ReplyingJson
<1>6. CASE ~ AnsweredHere /\ pc' = "authorizing" /\ UNCHANGED <<reply, buffer, guarded>>
  <2>1. Judged'
    BY <1>1, <1>6, SameRequest DEF Judged
  <2>2. QED
    BY <1>1, <1>3, <1>6, <2>1, Going
<1>7. CASE SnapshotRaises /\ pc' = "done" /\ UNCHANGED <<reply, buffer, guarded>>
  <2>1. wire = <<>> /\ Unanswered'
    BY <1>1, <1>7, Judging, SameRequest DEF Unanswered, AnsweredHere, SnapshotRaises, LocalPaths
  <2>2. Typed'
    BY <1>1, <1>2, <1>7 DEF Typed
  <2>3. NothingYet' /\ Judged'
    BY <1>7 DEF NothingYet, Judged
  <2>4. Written'
    <3>1. pc' = "done" /\ Len(wire') <= 1 /\ Unanswered'
      BY <1>1, <1>2, <1>7, <2>1
    <3>2. QED
      BY <3>1, Zenon DEF Written
  <2>5. Reasons'
    BY <1>1, <1>7, SameRequest DEF IInv, Reasons
  <2>6. QED
    BY <1>2, <2>2, <2>3, <2>4, <2>5 DEF IInv
<1>8. QED
  BY <1>4, <1>5, <1>6, <1>7 DEF Route

\* The key has been compared when the handler goes on.
LEMMA AuthorizeStep == ASSUME IInv, Authorize PROVE IInv'
<1>1. /\ pc = "authorizing"
      /\ UNCHANGED <<request, body, wire, upstream, ended, broken>>
  BY DEF Authorize, connection
<1>2. /\ Typed /\ buffer = <<>> /\ wire = <<>> /\ Len(wire) = 0
      /\ SentOn' /\ upstream' \in Nat \cup {Nothing} /\ upstream' = Nothing
  BY <1>1, Judging
<1>3. body' \in 0 .. MaxRequest + 1 /\ ended' \in BOOLEAN
  BY <1>1, <1>2 DEF Typed
<1>4. CASE Authorized /\ pc' = "reading" /\ UNCHANGED <<reply, buffer, guarded>>
  <2>1. Judged'
    BY <1>1, <1>4, SameRequest DEF Judged
  <2>2. QED
    BY <1>1, <1>3, <1>4, <2>1, Going
<1>5. CASE KeyRaises /\ pc' = "done" /\ UNCHANGED <<reply, buffer, guarded>>
  <2>1. Typed'
    BY <1>1, <1>2, <1>5 DEF Typed
  <2>2. NothingYet' /\ Judged'
    BY <1>5 DEF NothingYet, Judged
  <2>3. Written'
    <3>1. ~ AnsweredHere /\ Unanswered'
      BY <1>1, <1>5, SameRequest DEF IInv, Judged, Unanswered
    <3>2. pc' = "done" /\ Len(wire') <= 1
      BY <1>1, <1>2, <1>5
    <3>3. QED
      BY <3>1, <3>2, Zenon DEF Written
  <2>4. Reasons'
    BY <1>1, <1>5, SameRequest DEF IInv, Reasons
  <2>5. QED
    BY <1>2, <2>1, <2>2, <2>3, <2>4 DEF IInv
<1>6. CASE ~ Authorized /\ SendJson(401)
  BY <1>1, <1>2, <1>3, <1>6, ReplyingJson
<1>7. QED
  BY <1>4, <1>5, <1>6 DEF Authorize

\* The framing and the length have been judged when it goes on.
LEMMA ReadRequestBodyStep == ASSUME IInv, ReadRequestBody PROVE IInv'
<1>1. pc = "reading" /\ UNCHANGED <<request, wire, upstream, broken>>
  BY DEF ReadRequestBody
<1>2. /\ Typed /\ Len(wire) = 0
      /\ SentOn' /\ upstream' \in Nat \cup {Nothing} /\ upstream' = Nothing
  BY <1>1, Judging
<1>3. CASE BadFraming /\ SendJson(403) /\ UNCHANGED <<body, ended>>
  <2>1. body' \in 0 .. MaxRequest + 1 /\ ended' \in BOOLEAN
    BY <1>2, <1>3 DEF Typed
  <2>2. QED
    BY <1>1, <1>2, <1>3, <2>1, ReplyingJson
<1>4. CASE ~ BadFraming
  <2>1. Announced \in Nat
    BY <1>2, <1>4, AnnouncedIsLength DEF Typed
  <2> DEFINE wanted == IF Announced > MaxRequest THEN MaxRequest + 1 ELSE Announced
  <2>2. PICK n \in 0 .. wanted : body' = n /\ ended' = (ended \/ n < wanted)
    BY <1>4 DEF ReadRequestBody
  <2>3. body' \in 0 .. MaxRequest + 1
    BY <2>1, <2>2, HandlerAssumption
  <2>4. ended' \in BOOLEAN
    BY <2>2
  <2>5. CASE Announced > MaxRequest
    <3>1. SendJson(413)
      BY <1>4, <2>5 DEF ReadRequestBody
    <3>2. QED
      BY <1>1, <1>2, <2>3, <2>4, <2>5, <3>1, ReplyingJson
  <2>6. CASE ~ (Announced > MaxRequest)
    <3>1. pc' = "checking" /\ UNCHANGED <<reply, buffer, guarded>>
      BY <1>4, <2>6 DEF ReadRequestBody
    <3>2. body' <= MaxRequest
      BY <2>1, <2>2, <2>6, HandlerAssumption
    <3>3. n = Announced \/ n < wanted
      BY <2>1, <2>6
    <3>4. body' = Announced \/ ended'
      BY <2>2, <3>3
    <3>5. Judged'
      BY <1>1, <3>1, <3>2, <3>4, SameRequest DEF IInv, Judged
    <3>6. QED
      BY <1>1, <2>3, <2>4, <3>1, <3>5, Going
  <2>7. QED
    BY <2>5, <2>6
<1>5. QED
  BY <1>3, <1>4 DEF ReadRequestBody

\* A body that does not come leaves what was judged.
LEMMA ReadFailsStep == ASSUME IInv, ReadFails PROVE IInv'
<1>1. /\ pc = "reading" /\ SendJson(500)
      /\ UNCHANGED <<request, body, wire, upstream, ended, broken>>
  BY DEF ReadFails, connection
<1>2. /\ Typed /\ Len(wire) = 0 /\ SentOn' /\ upstream' \in Nat \cup {Nothing}
  BY <1>1, Judging
<1>3. body' \in 0 .. MaxRequest + 1 /\ ended' \in BOOLEAN
  BY <1>1, <1>2 DEF Typed
<1>4. QED
  BY <1>1, <1>2, <1>3, ReplyingJson

\* Method and path have been judged when it goes on.
LEMMA CheckPolicyStep == ASSUME IInv, CheckPolicy PROVE IInv'
<1>1. /\ pc = "checking"
      /\ UNCHANGED <<request, body, wire, upstream, ended, broken>>
  BY DEF CheckPolicy, connection
<1>2. /\ Typed /\ Len(wire) = 0
      /\ SentOn' /\ upstream' \in Nat \cup {Nothing} /\ upstream' = Nothing
  BY <1>1, Judging
<1>3. body' \in 0 .. MaxRequest + 1 /\ ended' \in BOOLEAN
  BY <1>1, <1>2 DEF Typed
<1>4. CASE SendJson(500)
  BY <1>1, <1>2, <1>3, <1>4, ReplyingJson
<1>5. CASE ~ Forbidden /\ pc' = "exchanging" /\ UNCHANGED <<reply, buffer, guarded>>
  <2>1. Judged'
    BY <1>1, <1>5, SameRequest DEF IInv, Judged
  <2>2. QED
    BY <1>1, <1>3, <1>5, <2>1, Going
<1>6. CASE Forbidden /\ SendJson(403)
  BY <1>1, <1>2, <1>3, <1>6, ReplyingJson
<1>7. QED
  BY <1>4, <1>5, <1>6 DEF CheckPolicy

\* What is sent on has passed all of these.
LEMMA ExchangeStep == ASSUME IInv, Exchange PROVE IInv'
<1>1. /\ pc = "exchanging" /\ UNCHANGED <<request, body, wire, ended, broken>>
      /\ upstream' \in {Nothing, body}
  BY DEF Exchange, connection
<1>2. Typed /\ wire = <<>> /\ Len(wire) = 0
  BY <1>1 DEF IInv, NothingYet
<1>3. /\ body' \in 0 .. MaxRequest + 1 /\ ended' \in BOOLEAN
      /\ upstream' \in Nat \cup {Nothing}
  BY <1>1, <1>2, HandlerAssumption DEF Typed
<1>4. SentOn'
  <2>1. /\ Authorized /\ ~ Forbidden
        /\ body <= MaxRequest /\ (body = Announced \/ ended)
    BY <1>1 DEF IInv, Judged
  <2>2. QED
    BY <1>1, <2>1, SameRequest DEF SentOn
<1>5. CASE \E status \in {200, 401, 403}, size \in 0 .. MaxResponse : Send(status, size, TRUE)
  <2>1. PICK status \in {200, 401, 403}, size \in 0 .. MaxResponse : Send(status, size, TRUE)
    BY <1>5
  <2>2. status \in Nat /\ size \in Nat /\ TRUE \in BOOLEAN
    BY HandlerAssumption
  <2>3. /\ request' = request /\ wire' = wire /\ broken' = broken
        /\ (size \in 0 .. 1 \/ size \in 0 .. MaxResponse)
        /\ pc \in Deciding /\ Len(wire) <= 1
    BY <1>1, <1>2
  <2>4. QED
    BY <1>3, <1>4, <2>1, <2>2, <2>3, Replying, Zenon
<1>6. CASE \E status \in {500, 502} : SendJson(status)
  BY <1>1, <1>2, <1>3, <1>4, <1>6, ReplyingJson
<1>7. QED
  BY <1>5, <1>6 DEF Exchange

\* A write that fails.
LEMMA WriteFailsStep ==
  ASSUME IInv, pc \in {"flushing", "writing"}, broken, WriteFails,
         UNCHANGED <<request, body, wire, upstream, connection>>
  PROVE  IInv'
<1>1. /\ request' = request /\ wire' = wire /\ broken' = broken
      /\ body' = body /\ upstream' = upstream /\ ended' = ended
  BY DEF connection
<1>2. Typed /\ Len(wire) <= 1
  <2>1. Typed /\ Written
    BY DEF IInv
  <2>2. (pc = "flushing" => Len(wire) <= 1) /\ (pc = "writing" => Len(wire) = 1)
    BY <2>1, Zenon DEF Written
  <2>3. CASE pc = "flushing"
    BY <2>1, <2>2, <2>3
  <2>4. CASE pc = "writing"
    <3>1. Len(wire) = 1
      BY <2>2, <2>4
    <3>2. QED
      BY <2>1, <3>1
  <2>5. QED
    BY <2>3, <2>4
<1>3. SentOn'
  BY <1>1, SameRequest DEF IInv, SentOn
<1>4. CASE guarded
  <2>1. SendJson(500)
    BY <1>4 DEF WriteFails
  <2>2. /\ body' \in 0 .. MaxRequest + 1 /\ ended' \in BOOLEAN
        /\ upstream' \in Nat \cup {Nothing}
    BY <1>1, <1>2 DEF Typed
  <2>3. QED
    BY <1>1, <1>2, <1>3, <2>1, <2>2, ReplyingJson
<1>5. CASE ~ guarded
  <2>1. pc' = "done" /\ UNCHANGED <<reply, buffer, guarded>>
    BY <1>5 DEF WriteFails
  <2>2. Typed'
    BY <1>1, <1>2, <2>1 DEF Typed
  <2>3. NothingYet' /\ Judged' /\ Written'
    BY <1>1, <1>2, <2>1 DEF NothingYet, Judged, Written
  <2>4. Reasons'
    BY <1>1, <2>1, SameRequest DEF IInv, Reasons
  <2>5. QED
    BY <1>3, <2>2, <2>3, <2>4 DEF IInv
<1>6. QED
  BY <1>4, <1>5

\* The first of the two writes.
LEMMA FlushHeadersStep == ASSUME IInv, FlushHeaders PROVE IInv'
<1>1. /\ pc = "flushing"
      /\ UNCHANGED <<request, body, upstream, connection>>
  BY DEF FlushHeaders
<1>2. /\ request' = request /\ broken' = broken
      /\ body' = body /\ upstream' = upstream /\ ended' = ended
  BY <1>1 DEF connection
<1>3. CASE broken
  <2>1. WriteFails /\ wire' = wire
    BY <1>3 DEF FlushHeaders
  <2>2. QED
    BY <1>1, <1>3, <2>1, WriteFailsStep
<1>4. CASE ~ broken
  <2>1. /\ wire' = wire \o buffer /\ buffer' = <<>> /\ pc' = "writing"
        /\ reply' = reply /\ guarded' = guarded
    BY <1>4 DEF FlushHeaders
  <2>2. Typed /\ wire = <<>> /\ buffer = <<reply>> /\ reply \in Replies
    BY <1>1, <1>4 DEF IInv, Written, Typed
  <2>3. wire' = <<reply>>
    BY <2>1, <2>2
  <2>4. wire' \in Seq(Replies) /\ Len(wire') = 1 /\ wire'[1] = reply
    BY <2>2, <2>3
  <2>5. buffer' \in Seq(Replies) /\ DOMAIN buffer' = {}
    BY <2>1, EmptySeq
  <2>6. Typed'
    BY <1>2, <2>1, <2>2, <2>4, <2>5 DEF Typed, Bounded
  <2>7. NothingYet' /\ Judged' /\ Written'
    BY <2>1, <2>4 DEF NothingYet, Judged, Written
  <2>8. SentOn' /\ Reasons'
    BY <1>2, <2>1, SameRequest DEF IInv, SentOn, Reasons
  <2>9. QED
    BY <2>6, <2>7, <2>8 DEF IInv
<1>5. QED
  BY <1>3, <1>4

\* The second one.
LEMMA WriteBodyStep == ASSUME IInv, WriteBody PROVE IInv'
<1>1. /\ pc = "writing"
      /\ UNCHANGED <<request, body, upstream, connection>>
  BY DEF WriteBody
<1>2. /\ request' = request /\ broken' = broken
      /\ body' = body /\ upstream' = upstream /\ ended' = ended
  BY <1>1 DEF connection
<1>3. CASE broken /\ request.command # "HEAD"
  <2>1. WriteFails /\ wire' = wire
    BY <1>3 DEF WriteBody
  <2>2. QED
    BY <1>1, <1>3, <2>1, WriteFailsStep
<1>4. CASE ~ (broken /\ request.command # "HEAD")
  <2>1. /\ wire' = [wire EXCEPT ![Len(wire)].sent = reply.announced]
        /\ pc' = "done" /\ reply' = reply /\ buffer' = buffer /\ guarded' = guarded
    BY <1>4 DEF WriteBody
  <2>2. /\ Typed /\ reply \in Replies /\ wire \in Seq(Replies)
        /\ Len(wire) = 1 /\ wire[1].announced = reply.announced
    BY <1>1 DEF IInv, Written, Typed
  <2> DEFINE received == [wire[1] EXCEPT !.sent = reply.announced]
  <2>3. wire[1] \in Replies
    BY <2>2, LenProperties
  <2>4. /\ received \in Replies
        /\ received.sent = reply.announced /\ received.announced = reply.announced
    BY <2>2, <2>3 DEF Replies
  <2>5. wire' = [wire EXCEPT ![1] = received]
    BY <2>1, <2>2
  <2>6. /\ wire' \in Seq(Replies) /\ Len(wire') = 1 /\ wire'[1] = received
    BY <2>2, <2>4, <2>5, ExceptSeq
  <2>7. Typed'
    BY <1>2, <2>1, <2>2, <2>6 DEF Typed
  <2>8. NothingYet' /\ Judged'
    BY <2>1 DEF NothingYet, Judged
  <2>9. Written'
    <3>1. Len(wire') <= 1 /\ wire'[1].sent = wire'[1].announced
      BY <2>4, <2>6
    <3>2. QED
      BY <2>1, <2>6, <3>1, Zenon DEF Written
  <2>10. SentOn' /\ Reasons'
    BY <1>2, <2>1, SameRequest DEF IInv, SentOn, Reasons
  <2>11. QED
    BY <2>7, <2>8, <2>9, <2>10 DEF IInv
<1>5. QED
  BY <1>3, <1>4

\* The client leaves, which changes nothing that was written.
LEMMA BreakStep == ASSUME IInv, Break PROVE IInv'
<1>1. /\ pc # "done" /\ broken' = TRUE /\ ended' = TRUE
      /\ UNCHANGED <<request, pc, body, reply, guarded, buffer, wire, upstream>>
  BY DEF Break
<1>2. broken' \in BOOLEAN /\ ended' \in BOOLEAN
  BY <1>1
<1>3. Typed'
  BY <1>1, <1>2 DEF IInv, Typed
<1>4. NothingYet' /\ Judged' /\ SentOn' /\ Reasons'
  BY <1>1, SameRequest DEF IInv, NothingYet, Judged, SentOn, Reasons
<1>5. Written'
  BY <1>1 DEF IInv, Written
<1>6. QED
  BY <1>3, <1>4, <1>5 DEF IInv

\* There are no other steps.
LEMMA IInvNext == IInv /\ [Next]_vars => IInv'
<1>1. SUFFICES ASSUME IInv, [Next]_vars PROVE IInv'
  OBVIOUS
<1>2. CASE UNCHANGED vars
  <2>1. /\ UNCHANGED <<request, pc, body, reply, guarded, buffer, wire, upstream>>
        /\ UNCHANGED <<ended, broken>>
    BY <1>2 DEF vars, connection
  <2>2. Typed' /\ Written'
    BY <1>1, <2>1, SameRequest DEF IInv, Typed, Written
  <2>3. NothingYet' /\ Judged' /\ SentOn' /\ Reasons'
    BY <1>1, <2>1, SameRequest DEF IInv, NothingYet, Judged, SentOn, Reasons
  <2>4. QED
    BY <2>2, <2>3 DEF IInv
<1>3. QED
  BY <1>1, <1>2, RouteStep, AuthorizeStep, ReadRequestBodyStep, ReadFailsStep,
     CheckPolicyStep, ExchangeStep, FlushHeadersStep, WriteBodyStep, BreakStep
     DEF Next, Handle

\* The invariant holds throughout.
LEMMA IInvariant == Spec => []IInv
BY IInvInit, IInvNext, PTL DEF Spec

-----------------------------------------------------------------------------
(* What follows.                                                           *)

\* The types, and no reply of the handler is longer than the limit.
THEOREM TypeCorrect == Spec => []TypeOK
<1>1. IInv => TypeOK
  <2>1. SUFFICES ASSUME Typed PROVE TypeOK
    BY DEF IInv
  <2>2. \A r \in {reply} \cup {buffer[i] : i \in DOMAIN buffer} :
          r.announced \in 0 .. 1 \/ r.announced \in 0 .. MaxResponse
    BY <2>1 DEF Typed, Bounded
  <2>3. QED
    BY <2>1, <2>2 DEF Typed, TypeOK
<1>2. QED
  BY <1>1, IInvariant, PTL

\* Nothing is written for the requests that are not answered.
Silent == Unanswered => pc \in {"routing", "authorizing", "done"} /\ wire = <<>>

\* Their handler ends at once.
LEMMA SilentInvariant == Spec => []Silent
<1>1. Init => Silent
  BY DEF Init, Silent
<1>2. IInv /\ Silent /\ [Next]_vars => Silent'
  <2> SUFFICES ASSUME IInv, Silent, [Next]_vars, Unanswered'
               PROVE  pc' \in {"routing", "authorizing", "done"} /\ wire' = <<>>
    BY DEF Silent
  <2>1. UNCHANGED request
    BY DEF Next, vars, Handle, Route, Authorize, ReadRequestBody, ReadFails, CheckPolicy,
           Exchange, FlushHeaders, WriteBody, Break
  <2>2. Unanswered /\ pc \in {"routing", "authorizing", "done"} /\ wire = <<>>
    BY <2>1, SameRequest DEF Silent
  <2>3. CASE Route
    BY <2>2, <2>3 DEF Route, Unanswered, AnsweredHere, SnapshotRaises, LocalPaths, AsksFor
  <2>4. CASE Authorize
    <3>1. ~ AnsweredHere /\ KeyRaises
      BY <2>2, <2>4 DEF IInv, Judged, Authorize, Unanswered
    <3>2. QED
      BY <2>2, <2>4, <3>1 DEF Authorize, Authorized, KeyRaises
  <2>5. CASE ReadRequestBody \/ ReadFails \/ CheckPolicy \/ Exchange \/ FlushHeaders \/ WriteBody
    BY <2>2, <2>5 DEF ReadRequestBody, ReadFails, CheckPolicy, Exchange, FlushHeaders, WriteBody
  <2>6. CASE Break \/ UNCHANGED vars
    BY <2>2, <2>6 DEF Break, vars
  <2>7. QED
    BY <2>3, <2>4, <2>5, <2>6 DEF Next, Handle
<1>3. QED
  BY <1>1, <1>2, IInvariant, PTL DEF Spec

\* A client that stays gets one whole reply, unless its key is not ASCII or the
\* snapshot it asks for cannot be made: then it gets none.  No client gets the
\* beginning of a second one, whatever fails between the two writes of the handler.
THEOREM OneWholeReply == Spec => []OneReply
<1>1. IInv /\ Silent => OneReply
  <2>1. SUFFICES ASSUME Typed, NothingYet, Written, Silent PROVE OneReply
    BY DEF IInv
  <2>2. CASE pc \in Deciding
    <3>1. wire = <<>> /\ pc # "done"
      BY <2>1, <2>2 DEF NothingYet
    <3>2. Len(wire) <= 1
      BY <3>1
    <3>3. QED
      BY <3>1, <3>2 DEF OneReply
  <2>3. CASE pc = "flushing"
    BY <2>1, <2>3 DEF Written, OneReply
  <2>4. CASE pc = "writing"
    <3>1. Len(wire) = 1
      BY <2>1, <2>4, Zenon DEF Written
    <3>2. QED
      BY <2>4, <3>1 DEF OneReply
  <2>5. CASE pc = "done"
    <3>1. Len(wire) <= 1 /\ (Unanswered => wire = <<>>)
      BY <2>1, <2>5, Zenon DEF Written, Silent
    <3>2. ~ broken /\ ~ Unanswered => Len(wire) = 1 /\ wire[1].sent = wire[1].announced
      BY <2>1, <2>5, Zenon DEF Written
    <3>3. QED
      BY <3>1, <3>2, Zenon DEF OneReply
  <2>6. QED
    BY <2>1, <2>2, <2>3, <2>4, <2>5 DEF Typed
<1>2. QED
  BY <1>1, IInvariant, SilentInvariant, PTL

\* What the proxy refuses has not reached the upstream.
THEOREM RefusalsAreLocal == Spec => []RefusalsStayLocal
<1>1. IInv => RefusalsStayLocal
  BY DEF IInv, Reasons, RefusalsStayLocal
<1>2. QED
  BY <1>1, IInvariant, PTL

(* The types of a request's target. *)
LEMMA TargetPath ==
  ASSUME request \in Requests
  PROVE  /\ request.target \in [form : {"path", "url", "unparsable"}, path : Seq(Segments)]
         /\ request.target.path \in Seq(STRING)
<1>1. request.target \in [form : {"path", "url", "unparsable"}, path : Seq(Segments)]
  BY HandlerAssumption DEF Requests
<1>2. request.target.path \in Seq(Segments)
  BY <1>1
<1>3. Segments \subseteq STRING
  BY PolicyAssumption
<1>4. request.target.path \in Seq(STRING)
  BY <1>2, <1>3, SeqMonotonic
<1>5. QED
  BY <1>1, <1>4

\* What SecurityPolicy lets through, and what _read_request_body does: only
\* requests of a caller with the key, for listed methods and paths, of at most
\* max_request_bytes, whole unless the client ended them.
THEOREM OnlyPermittedIsSent == Spec => []UpstreamSeesOnlyPermitted
<1>1. IInv => UpstreamSeesOnlyPermitted
  <2>1. SUFFICES ASSUME Typed, SentOn, upstream # Nothing
                 PROVE  UpstreamSeesOnlyPermitted
    BY DEF IInv, UpstreamSeesOnlyPermitted
  <2> DEFINE path == request.target.path
             rest == UpstreamPath(path)
  <2>2. /\ Authorized /\ ~ Forbidden
        /\ upstream <= MaxRequest /\ (upstream = Announced \/ ended)
    BY <2>1 DEF SentOn
  <2>3. /\ request.target \in [form : {"path", "url", "unparsable"}, path : Seq(Segments)]
        /\ path \in Seq(STRING)
    BY <2>1, TargetPath DEF Typed
  <2>4. request.target.form = "path" /\ Permitted(request.command, path)
    BY <2>2 DEF Forbidden
  <2>5. path = RoutePrefix \o rest /\ rest \in Seq(STRING)
    BY <2>3, <2>4, RoutedSplits DEF Permitted
  <2>6. request.target = [form |-> "path", path |-> RoutePrefix \o rest]
    BY <2>3, <2>4, <2>5
  <2>7. PICK p \in AllowedPaths :
          p \in {<<"">>, rest} \/ (p[Len(p)] = "*" /\ IsStrictPrefix(Front(p), rest))
    BY <2>4 DEF Permitted, PathAllowed
  <2>8. p \in {rest, <<"">>} \/ \E n \in 0 .. Len(rest) - 1 : p = Append(SubSeq(rest, 1, n), "*")
    BY <2>5, <2>7, PatternOfPath
  <2>9. rest # AuthPath /\ request.command \in AllowedMethods
    BY <2>4 DEF Permitted
  <2>10. QED
    BY <2>2, <2>6, <2>8, <2>9 DEF UpstreamSeesOnlyPermitted
<1>2. QED
  BY <1>1, IInvariant, PTL

\* The converse: a request of a caller with the key, well framed, for a listed
\* path or one below a listed "/*", is refused by none of the checks.
THEOREM ListedPathsAreServed == Spec => []ListedIsServed
<1>1. IInv => ListedIsServed
  <2> DEFINE path == request.target.path
             rest == UpstreamPath(path)
             Below(p) == /\ p[Len(p)] = "*"
                         /\ \E n \in 1 .. Len(rest) :
                              rest = SubSeq(p, 1, Len(p) - 1) \o SubSeq(rest, n, Len(rest))
  <2>1. SUFFICES ASSUME Typed, Reasons,
                        Authorized, request.command \in AllowedMethods,
                        ~ BadFraming, Announced <= MaxRequest,
                        request.target = [form |-> "path", path |-> RoutePrefix \o rest],
                        \E p \in AllowedPaths : p = rest \/ Below(p),
                        rest # AuthPath, ~ Unsafe(rest)
                 PROVE  guarded \/ reply.status \notin {401, 403, 405, 413}
    BY DEF IInv, ListedIsServed
  <2>2. /\ path \in Seq(STRING) /\ path = RoutePrefix \o rest
        /\ request.target.form = "path"
    BY <2>1, TargetPath DEF Typed
  <2>3. PICK p \in AllowedPaths : p = rest \/ Below(p)
    BY <2>1
  <2>4. p \in Seq(STRING) /\ p # <<>>
    BY PolicyAssumption
  <2>5. rest # <<>>
    <3>1. Below(p) => \E n \in 1 .. Len(rest) : TRUE
      OBVIOUS
    <3>2. ASSUME rest = <<>> PROVE ~ Below(p)
      <4>1. Len(rest) = 0
        BY <3>2
      <4>2. ~ \E n \in 1 .. Len(rest) : TRUE
        BY <4>1
      <4>3. QED
        BY <3>1, <4>2
    <3>3. QED
      BY <2>3, <2>4, <3>2
  <2>6. Routed(path) /\ rest \in Seq(STRING)
    BY <2>2, <2>5, PrefixIsRouted, RoutedSplits
  <2>7. ASSUME Below(p) PROVE IsStrictPrefix(Front(p), rest)
    <3>1. PICK n \in 1 .. Len(rest) : rest = Front(p) \o SubSeq(rest, n, Len(rest))
      BY <2>7 DEF Front
    <3>2. /\ \A i \in n .. Len(rest) : rest[i] \in STRING
          /\ Len(rest) \in Nat
      BY <2>6, LenProperties
    <3>3. /\ SubSeq(rest, n, Len(rest)) \in Seq(STRING)
          /\ Len(SubSeq(rest, n, Len(rest))) # 0
      BY <3>2, SubSeqProperties
    <3>4. Front(p) \in Seq(STRING)
      <4>1. Len(p) - 1 \in Int /\ \A i \in 1 .. Len(p) - 1 : p[i] \in STRING
        BY <2>4, LenProperties
      <4>2. QED
        BY <4>1, SubSeqProperties DEF Front
    <3>5. SubSeq(rest, n, Len(rest)) # <<>>
      BY <3>3, EmptySeq
    <3>6. QED
      BY <3>1, <3>3, <3>4, <3>5, PrefixOfConcat
  <2>8. PathAllowed(rest)
    BY <2>3, <2>7 DEF PathAllowed
  <2>9. ~ Forbidden
    BY <2>1, <2>2, <2>6, <2>8 DEF Forbidden, Permitted
  <2>10. request.command # "OPTIONS"
    BY <2>1, PolicyAssumption
  <2>11. ~ (Announced > MaxRequest)
    BY <2>1, AnnouncedIsLength, HandlerAssumption DEF Typed
  <2>12. QED
    BY <2>1, <2>9, <2>10, <2>11 DEF Reasons
<1>2. QED
  BY <1>1, IInvariant, PTL
=============================================================================
