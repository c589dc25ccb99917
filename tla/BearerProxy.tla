---------------------------- MODULE BearerProxy ----------------------------
(***************************************************************************)
(* The running proxy: request threads (ThreadingMixIn starts one for each  *)
(* request) going through UpstreamAPIClient.request_with_recovery, the     *)
(* background refresh thread (TokenManager._refresh_loop), the token       *)
(* manager they share, the upstream API and the authentication endpoint.   *)
(*                                                                         *)
(* An answer "error" stands for the 502 of a ProxyError and the 500 of any *)
(* other exception in ProxyRequestHandler._handle_proxy; "ok" for every    *)
(* upstream response other than 401.                                       *)
(***************************************************************************)
EXTENDS Durations, FiniteSets

CONSTANTS
  Requests,       \* the request threads
  Loop,           \* the background refresh thread
  Tokens, Expiries, Fallback, Margin, MinInterval, Retry, None,
  Validation,     \* auth.validation.enabled
  SingleSession,  \* issuing a token ends the one issued before
  Reissue,        \* the endpoint may hand out a token again
  TimeoutMax,     \* threading.TIMEOUT_MAX
  MaxTime         \* bound on the clock

ASSUME ProxyAssumption ==
  /\ Loop \notin Requests
  /\ {Validation, SingleSession, Reissue} \subseteq BOOLEAN
  /\ TimeoutMax \in Nat

Threads == Requests \cup {Loop}

VARIABLES
  \* TokenManager
  now, token, lastSuccess, nextRefresh, nextAttempt, lastError, errorStarted,
  failures, refreshLock, pc, call, candidate, clock, result,
  \* request_with_recovery, one of each per request thread
  stage,       \* how far the request has come
  held,        \* its local variable token, then replacement
  status,      \* the upstream response in hand
  answer,      \* what the client was answered
  \* _refresh_loop
  loop,        \* "waiting", "refreshing" or "gone"
  wakeAt,      \* when the wait on _stop_event times out
  stopEvent,   \* _stop_event
  \* the servers behind the proxy
  accepted,    \* tokens the upstream API takes
  issued,      \* tokens handed out so far
  newest,      \* the last one handed out
  \* history
  rejections,  \* the tokens the upstream refused to each request
  disturbed,   \* an attempt to authenticate or to forward failed meanwhile
  served       \* requests with a refusal older than the last install

\* The bound on failures is for the calls of TM!Next, which are not made here.
TM == INSTANCE TokenManager WITH Forced <- {FALSE}, MaxFailures <- 0

\* As in a manager of its own (TokenManager); None is Python's None.
ASSUME ManagerAssumption ==
  TM!ConfigAssumption /\ TM!NoneAssumption /\ TM!BoundAssumption

managerVars == <<now, token, lastSuccess, nextRefresh, nextAttempt, lastError,
                 errorStarted, failures, refreshLock, pc, call, candidate,
                 clock, result>>
requestVars == <<stage, held, status, answer>>
loopVars == <<loop, wakeAt, stopEvent>>
serverVars == <<accepted, issued, newest>>
historyVars == <<rejections, disturbed, served>>
vars == <<managerVars, requestVars, loopVars, serverVars, historyVars>>

Stages == {"new", "ensuring", "ready", "sent", "recovering", "replay", "resent", "done"}
Active(r) == stage[r] \notin {"new", "done"}

\* The request's first exchange was answered 401.
Refused(r) == stage[r] \in {"sent", "recovering"} /\ status[r] = "401"

\* seconds_until_refresh: max(0.0, nan) is 0.0.
SecondsUntilRefresh ==
  IF token = None \/ nextRefresh = NaN THEN 0 ELSE Minus(nextRefresh, now)

-----------------------------------------------------------------------------
Init ==
  /\ TM!Init
  /\ stage = [r \in Requests |-> "new"]
  /\ held = [r \in Requests |-> None]
  /\ status = [r \in Requests |-> "none"]
  /\ answer = [r \in Requests |-> "none"]
  /\ loop = "waiting" /\ wakeAt = 0 /\ stopEvent = FALSE
  /\ accepted = {} /\ issued = {} /\ newest = None
  /\ rejections = [r \in Requests |-> {}]
  /\ disturbed = [r \in Requests |-> FALSE]
  /\ served = {}

-----------------------------------------------------------------------------
(* A request.                                                              *)

Goto(r, s) == stage' = [stage EXCEPT ![r] = s]

\* The handler writes its response and the request is over.
Finish(r, value) ==
  /\ Goto(r, "done")
  /\ answer' = [answer EXCEPT ![r] = value]
  /\ held' = [held EXCEPT ![r] = None]
  /\ status' = [status EXCEPT ![r] = "none"]

\* A token is in hand and the request is about to go out with it.
Pick(r, s) ==
  /\ Goto(r, s)
  /\ held' = [held EXCEPT ![r] = token]
  /\ UNCHANGED <<status, answer>>

Begin(r) == disturbed' = [disturbed EXCEPT ![r] = lastError]

\* ensure_token finds a token ...
TakeToken(r) ==
  /\ stage[r] = "new"
  /\ token # None
  /\ Pick(r, "ready")
  /\ Begin(r)
  /\ UNCHANGED <<managerVars, loopVars, serverVars, rejections, served>>

\* ... or none, and calls refresh(force=False).
AskForToken(r) ==
  /\ stage[r] = "new"
  /\ token = None
  /\ TM!Call(r, TM!RefreshCall(FALSE))
  /\ Goto(r, "ensuring")
  /\ Begin(r)
  /\ UNCHANGED <<held, status, answer, loopVars, serverVars, rejections, served>>

Returned(r, s) == stage[r] = s /\ pc[r] = "idle"

\* A faulty EnsureToken: a token another thread installed is not used.
EnsureTokenTrustsResult(r) ==
  /\ Returned(r, "ensuring")
  /\ IF result[r] # "true"
     THEN Finish(r, "error")
     ELSE Pick(r, "ready")
  /\ UNCHANGED <<managerVars, loopVars, serverVars, historyVars>>

\* A faulty EnsureToken: the second read of the token is not checked.
EnsureTokenUnchecked(r) ==
  /\ Returned(r, "ensuring")
  /\ IF result[r] = "raised" THEN Finish(r, "error") ELSE Pick(r, "ready")
  /\ UNCHANGED <<managerVars, loopVars, serverVars, historyVars>>

\* refresh has returned; ensure_token reads the token again.
EnsureToken(r) ==
  /\ Returned(r, "ensuring")
  /\ IF result[r] = "raised" \/ token = None
     THEN Finish(r, "error")
     ELSE Pick(r, "ready")
  /\ UNCHANGED <<managerVars, loopVars, serverVars, historyVars>>

\* forward: the upstream decides about the token when the request reaches it.
Forward(r, from, to) ==
  /\ stage[r] = from
  /\ Goto(r, to)
  /\ IF held[r] \in accepted
     THEN /\ status' = [status EXCEPT ![r] = "ok"]
          /\ UNCHANGED rejections
     ELSE /\ status' = [status EXCEPT ![r] = "401"]
          /\ rejections' = [rejections EXCEPT ![r] = @ \cup {held[r]}]
  /\ UNCHANGED <<managerVars, held, answer, loopVars, serverVars, disturbed, served>>

\* forward raises: transport failure, timeout, or a response over the limit.
ForwardFails(r) ==
  /\ stage[r] \in {"ready", "replay"}
  /\ Finish(r, "error")
  /\ disturbed' = [disturbed EXCEPT ![r] = TRUE]
  /\ UNCHANGED <<managerVars, loopVars, serverVars, rejections, served>>

\* A faulty Respond: the response of the replay is not returned.
RespondOnlyToFirst(r) ==
  /\ stage[r] = "sent"
  /\ status[r] # "401"
  /\ Finish(r, status[r])
  /\ UNCHANGED <<managerVars, loopVars, serverVars, historyVars>>

\* The response of the replay, or a first one that is not 401, is the answer.
Respond(r) ==
  /\ stage[r] = "resent" \/ (stage[r] = "sent" /\ status[r] # "401")
  /\ Finish(r, status[r])
  /\ UNCHANGED <<managerVars, loopVars, serverVars, historyVars>>

\* A first 401: refresh_rejected_token(token).
Recover(r) ==
  /\ stage[r] = "sent"
  /\ status[r] = "401"
  /\ TM!Call(r, TM!RecoverCall(held[r]))
  /\ Goto(r, "recovering")
  /\ UNCHANGED <<held, status, answer, loopVars, serverVars, historyVars>>

\* A faulty Replace: a token another thread installed is not used.
ReplaceOnlyIfRefreshed(r) ==
  /\ Returned(r, "recovering")
  /\ CASE result[r] = "raised" -> Finish(r, "error")
       [] result[r] = "false"  -> Finish(r, "401")
       [] OTHER                -> Pick(r, "replay")
  /\ UNCHANGED <<managerVars, loopVars, serverVars, historyVars>>

\* It has returned or raised; get_token gives the replacement, if any.
Replace(r) ==
  /\ Returned(r, "recovering")
  /\ CASE result[r] = "raised"           -> Finish(r, "error")
       [] result[r] # "raised" /\ token \in {None, held[r]} -> Finish(r, "401")
       [] OTHER                          -> Pick(r, "replay")
  /\ UNCHANGED <<managerVars, loopVars, serverVars, historyVars>>

Handle(r) ==
  \/ TakeToken(r) \/ AskForToken(r) \/ EnsureToken(r)
  \/ Forward(r, "ready", "sent") \/ Forward(r, "replay", "resent")
  \/ ForwardFails(r) \/ Respond(r) \/ Recover(r) \/ Replace(r)

-----------------------------------------------------------------------------
(* The background thread.                                                  *)

\* _stop_event.wait(delay) times out: refresh(force=False).
LoopWake ==
  /\ loop = "waiting"
  /\ ~ stopEvent
  /\ now >= wakeAt
  /\ TM!Call(Loop, TM!RefreshCall(FALSE))
  /\ loop' = "refreshing"
  /\ UNCHANGED <<wakeAt, stopEvent, requestVars, serverVars, historyVars>>

\* A faulty LoopDelay: the loop sleeps the fallback interval whatever the
\* lifetime.
LoopDelayOfFallback ==
  IF result[Loop] = "raised" THEN Retry ELSE Fallback

\* The delay that follows a refresh.
LoopDelay ==
  CASE result[Loop] = "true"   -> SecondsUntilRefresh
    [] result[Loop] = "false"  -> IF Less(MinInterval, SecondsUntilRefresh)
                                  THEN SecondsUntilRefresh ELSE MinInterval
    [] OTHER                   -> Retry

LoopBack ==
  /\ loop = "refreshing"
  /\ pc[Loop] = "idle"
  /\ ~ stopEvent
  /\ UNCHANGED <<stopEvent, managerVars, requestVars, serverVars, historyVars>>

\* A wait of NaN seconds is over at once.
LoopSleep ==
  /\ LoopBack
  /\ ~ Less(TimeoutMax, LoopDelay)
  /\ wakeAt' = now + (IF LoopDelay = NaN THEN 0 ELSE LoopDelay)
  /\ loop' = "waiting"

\* Event.wait raises OverflowError on a longer timeout, outside the try
\* statement of the loop: the thread ends.
LoopDies ==
  /\ LoopBack
  /\ Less(TimeoutMax, LoopDelay)
  /\ loop' = "gone"
  /\ UNCHANGED wakeAt

\* stop() sets the event; the wait under way or the next one returns True.
Stop ==
  /\ ~ stopEvent
  /\ stopEvent' = TRUE
  /\ UNCHANGED <<loop, wakeAt, managerVars, requestVars, serverVars, historyVars>>

\* A faulty LoopEnds: stop() does not cut the wait short, as a sleep would not.
LoopEndsAfterItsWait ==
  /\ stopEvent
  /\ loop = "waiting"
  /\ now >= wakeAt
  /\ loop' = "gone"
  /\ UNCHANGED <<wakeAt, stopEvent, managerVars, requestVars, serverVars, historyVars>>

LoopEnds ==
  /\ stopEvent
  /\ loop = "waiting" \/ (loop = "refreshing" /\ pc[Loop] = "idle")
  /\ loop' = "gone"
  /\ UNCHANGED <<wakeAt, stopEvent, managerVars, requestVars, serverVars, historyVars>>

LoopWork == LoopWake \/ LoopSleep \/ LoopDies \/ LoopEnds

-----------------------------------------------------------------------------
(* The token manager's own steps, and the servers.                         *)

Quiet == UNCHANGED <<requestVars, loopVars, serverVars, historyVars>>

Issue(t, k, e) ==
  /\ k \notin issued \/ Reissue
  /\ TM!Authenticate(t, k, e)
  /\ issued' = issued \cup {k}
  /\ newest' = k
  /\ accepted' = CASE k \in issued  -> accepted
                   [] k \notin issued /\ SingleSession -> {k}
                   [] OTHER         -> accepted \cup {k}
  /\ UNCHANGED <<requestVars, loopVars, historyVars>>

\* Validation sends the candidate to the upstream.
Validate(t) ==
  /\ Validation => candidate[t].token \in accepted
  /\ TM!Validate(t)
  /\ Quiet

Fail(t) == TM!Fail(t) /\ Quiet

Install(t) ==
  /\ TM!Install(t)
  /\ served' = served \cup {r \in Requests \ {t} : Refused(r)}
  /\ UNCHANGED <<requestVars, loopVars, serverVars, rejections, disturbed>>

RecordFailure(t) ==
  /\ TM!RecordFailure(t)
  /\ disturbed' = [r \in Requests |-> disturbed[r] \/ Active(r)]
  /\ UNCHANGED <<requestVars, loopVars, serverVars, rejections, served>>

\* The token expires at the upstream, or is revoked there.
Revoke(k) ==
  /\ k \in accepted
  /\ accepted' = accepted \ {k}
  /\ UNCHANGED <<managerVars, requestVars, loopVars, issued, newest, historyVars>>

Answer(t) ==
  \/ \E k \in Tokens, e \in Expiries : Issue(t, k, e)
  \/ Validate(t)
  \/ Fail(t)

\* A faulty Acquire: refreshes are not serialised.
AcquireHeldLock(t) ==
  /\ pc[t] = "locking"
  /\ refreshLock' = t
  /\ pc' = [pc EXCEPT ![t] = "deciding"]
  /\ clock' = [clock EXCEPT ![t] = now]
  /\ UNCHANGED <<now, token, lastSuccess, nextRefresh, nextAttempt, lastError,
                 errorStarted, failures, call, candidate, result>>
  /\ Quiet

Acquire(t) == TM!Acquire(t) /\ Quiet

Work(t) ==
  \/ TM!Decline(t) /\ Quiet
  \/ TM!Proceed(t) /\ Quiet
  \/ Install(t)
  \/ RecordFailure(t)

Tick == TM!Tick /\ Quiet

Next ==
  \/ \E r \in Requests : Handle(r)
  \/ LoopWork
  \/ Stop
  \/ \E t \in Threads : Acquire(t) \/ Work(t) \/ Answer(t)
  \/ \E k \in Tokens : Revoke(k)
  \/ Tick

\* Threads run.  HTTPClient gives every exchange a timeout, so an answer or an
\* error comes.  A thread queued on _refresh_lock is woken at a release and does
\* not lose to newcomers for ever.
Fairness ==
  /\ \A r \in Requests : WF_vars(Handle(r))
  /\ WF_vars(LoopWork)
  /\ \A t \in Threads : WF_vars(Work(t)) /\ WF_vars(Answer(t)) /\ SF_vars(Acquire(t))

Spec == Init /\ [][Next]_vars
FairSpec == Spec /\ Fairness

-----------------------------------------------------------------------------
(* Properties.                                                             *)

\* The types of what this module adds to the token manager.  A request that is
\* on its way to the upstream has a token: never "Bearer None", however the
\* refreshes of others ended while it waited for its own (ensure_token).
TypeOK ==
  /\ stage \in [Requests -> Stages]
  /\ held \in [Requests -> Tokens \cup {None}]
  /\ \A r \in Requests :
       stage[r] \in {"ready", "sent", "recovering", "replay", "resent"} => held[r] \in Tokens
  /\ status \in [Requests -> {"none", "ok", "401"}]
  /\ answer \in [Requests -> {"none", "ok", "401", "error"}]
  /\ loop \in {"waiting", "refreshing", "gone"}
  /\ wakeAt \in Nat
  /\ stopEvent \in BOOLEAN
  /\ accepted \subseteq issued
  /\ issued \subseteq Tokens
  /\ newest \in issued \cup {None}
  /\ rejections \in [Requests -> SUBSET Tokens]
  /\ disturbed \in [Requests -> BOOLEAN]
  /\ served \subseteq Requests

\* A refusal older than the token in use causes no other authentication: of the
\* requests refused together the first refreshes and the rest find the token
\* replaced (refresh_rejected_token; docs/SECURITY_MODEL.md:53, "share the
\* refresh lock and avoid an authentication stampede").
NoStampede == \A r \in served : stage[r] = "recovering" => pc[r] \notin TM!Refreshing

\* While no attempt to authenticate or to forward fails, a client sees the
\* upstream's 401 only when the upstream refused two different tokens to its
\* request: one refusal is always recovered, by this request or by another
\* thread that was faster (request_with_recovery).
RefusalIsRecovered ==
  \A r \in Requests :
    answer[r] = "401" /\ ~ disturbed[r] => Cardinality(rejections[r]) = 2

\* A request fails for want of a token or of an upstream only when an attempt
\* failed during the request, or the last one before it had: the races between
\* ensure_token's two reads and the other threads never produce an error.
ErrorsHaveCause ==
  \A r \in Requests : answer[r] = "error" => disturbed[r]

\* With no refresh under way and none failed, the token in use is the last one
\* the endpoint handed out: a slow thread never installs a token over a newer
\* one, which matters when issuing a token ends the one before.
TokenIsNewest ==
  refreshLock = None /\ token # None /\ ~ lastError => token = newest

\* Once the date of the next refresh has come, the background thread sleeps at
\* most the minimum interval longer, or the retry interval after a failure of
\* its own, whichever thread set that date (README.md:99-100, "refresh before
\* expiry or by fallback interval", "retry failed refresh after backoff").
RefreshedInTime ==
  loop = "waiting" /\ token # None /\ ~ lastError /\ ~ Less(now, nextRefresh)
    => ~ Less(Plus(now, IF result[Loop] = "raised" THEN Retry ELSE MinInterval), wakeAt)

\* Every request gets an answer, whatever the servers and the other threads do.
EveryRequestAnswered == \A r \in Requests : Active(r) ~> stage[r] = "done"

\* After stop() the background thread ends.
StopEndsLoop == stopEvent ~> loop = "gone"
=============================================================================
