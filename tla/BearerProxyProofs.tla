------------------------- MODULE BearerProxyProofs -------------------------
(***************************************************************************)
(* Proofs about BearerProxy for any number of requests and tokens, any     *)
(* configuration that _runtime_config accepts, and any behaviour of the    *)
(* upstream and of the authentication endpoint.                            *)
(***************************************************************************)
EXTENDS BearerProxy, FiniteSetTheorems, TLAPS

\* The token manager again, with what has been proved about it.
P == INSTANCE TokenManagerProofs WITH Forced <- {FALSE}, MaxFailures <- 0

-----------------------------------------------------------------------------
(* The invariants.                                                         *)

Answers == {"validating", "installing"}
Outcomes == {"true", "false", "raised"}

\* A thread is inside the manager only while its caller waits for it, and with
\* the call that its caller made.
CallersOK ==
  /\ \A r \in Requests :
       /\ pc[r] # "idle" => stage[r] \in {"ensuring", "recovering"}
       /\ pc[r] # "idle" /\ stage[r] = "ensuring" => call[r] = TM!RefreshCall(FALSE)
       /\ pc[r] # "idle" /\ stage[r] = "recovering" => call[r] = TM!RecoverCall(held[r])
       /\ stage[r] \in {"ensuring", "recovering"} /\ pc[r] = "idle" => result[r] \in Outcomes
  /\ pc[Loop] # "idle" => loop = "refreshing"
  /\ loop = "refreshing" /\ pc[Loop] = "idle" => result[Loop] \in Outcomes

\* A request that has come to its first exchange has a token, and so does the
\* manager from then on; it has an answer only when it is over.
RequestOK(r) ==
  /\ stage[r] \in {"ready", "sent", "recovering", "replay", "resent"} =>
       held[r] \in Tokens /\ token # None
  /\ stage[r] \in {"sent", "resent"} => status[r] \in {"ok", "401"}
  /\ stage[r] = "recovering" => status[r] = "401"
  /\ answer[r] # "none" => stage[r] = "done"

RequestsOK == \A r \in Requests : RequestOK(r)

BaseInv == P!ManagerInv /\ TypeOK /\ CallersOK /\ RequestsOK

\* While the last attempt stands failed it has disturbed every request that is
\* under way; what a call reports then leaves no other cause of an error.
CauseKnown(r) ==
  /\ lastError /\ Active(r) => disturbed[r]
  /\ Returned(r, "ensuring") /\ (result[r] = "raised" \/ token = None) => disturbed[r]
  /\ Returned(r, "recovering") /\ result[r] = "raised" => disturbed[r]
  /\ answer[r] = "error" => disturbed[r]

CauseInv ==
  /\ token = None /\ ~ lastError => nextAttempt = 0
  /\ \A r \in Requests : CauseKnown(r)

\* The newest token is the one in use or the one that the holder of the lock is
\* about to install, unless an attempt failed after it had been handed out.
NewestInv ==
  /\ \A t \in Threads : pc[t] \in Answers => candidate[t].token = newest
  /\ token # None /\ ~ lastError /\ (\A t \in Threads : pc[t] \notin Answers \cup {"failing"})
       => token = newest

\* When no token is handed out twice, a candidate is nobody's token yet.
FreshInv ==
  /\ token \in issued \cup {None}
  /\ \A r \in Requests : held[r] \in issued \cup {None}
  /\ \A t \in Threads : pc[t] \in Answers =>
       /\ candidate[t].token \in issued \ {token}
       /\ \A r \in Requests : candidate[t].token # held[r]

\* So the token that replaces a refused one is another one, whoever installed it.
RecoveredInv ==
  \A r \in Requests :
    Returned(r, "recovering") /\ result[r] # "raised" => token # held[r] \/ disturbed[r]

ServedInv ==
  \A r \in served :
    /\ stage[r] \notin {"new", "ensuring", "ready"}
    /\ stage[r] \in {"sent", "recovering"} => token # held[r]

\* The refusals of a request at each of its stages.
RefusalsKnown(r) ==
  /\ stage[r] \in {"new", "ensuring", "ready"} => rejections[r] = {}
  /\ stage[r] = "recovering" \/ (stage[r] = "sent" /\ status[r] = "401")
       => rejections[r] = {held[r]}
  /\ stage[r] = "replay" => \E k \in Tokens \ {held[r]} : rejections[r] = {k}
  /\ stage[r] = "resent" /\ status[r] = "401"
       => \E k \in Tokens \ {held[r]} : rejections[r] = {k, held[r]}
  /\ answer[r] = "401" /\ ~ disturbed[r] => Cardinality(rejections[r]) = 2

RefusalsInv == \A r \in Requests : RefusalsKnown(r)

\* Where the date of the next refresh comes from.
ScheduledInv ==
  /\ token = None => nextRefresh = 0
  /\ token # None =>
       /\ lastSuccess \in Nat /\ lastSuccess <= now
       /\ \E e \in Expiries : nextRefresh = Plus(lastSuccess, TM!ComputeRefreshDelay(e))
  /\ \A t \in Threads :
       /\ pc[t] \in Answers => candidate[t].expires \in Expiries
       /\ pc[t] = "installing" /\ token # None => lastSuccess <= clock[t]

\* The background thread's wait ends by that date, if it is a number, or soon.
Soon == Plus(now, IF result[Loop] = "raised" THEN Retry ELSE MinInterval)

WakeInv ==
  loop = "waiting" =>
    \/ nextRefresh # NaN /\ ~ Less(nextRefresh, wakeAt)
    \/ ~ Less(Soon, wakeAt)

-----------------------------------------------------------------------------
(* The manager under its callers.                                          *)

\* The manager reckons with the same floats.
LEMMA SameFloats ==
  /\ TM!Spans = Spans /\ P!Spans = Spans /\ P!FloatAssumption
  /\ \A x, y : /\ TM!Less(x, y) = Less(x, y) /\ P!Less(x, y) = Less(x, y)
               /\ TM!Plus(x, y) = Plus(x, y) /\ P!Plus(x, y) = Plus(x, y)
               /\ TM!Minus(x, y) = Minus(x, y) /\ P!Minus(x, y) = Minus(x, y)
<1>1. P!FloatAssumption
  BY FloatAssumption DEF P!FloatAssumption
<1>2. TM!Spans = Spans /\ P!Spans = Spans
  BY DEF TM!Spans, P!Spans, Spans
<1>3. ASSUME NEW x, NEW y
      PROVE  /\ TM!Less(x, y) = Less(x, y) /\ P!Less(x, y) = Less(x, y)
             /\ TM!Plus(x, y) = Plus(x, y) /\ P!Plus(x, y) = Plus(x, y)
             /\ TM!Minus(x, y) = Minus(x, y) /\ P!Minus(x, y) = Minus(x, y)
  BY DEF TM!Less, P!Less, Less, TM!Plus, P!Plus, Plus, TM!Minus, P!Minus, Minus
<1>4. QED
  BY <1>1, <1>2, <1>3

\* What the proofs use of the manager's invariant.
LEMMA ManagerFacts ==
  ASSUME P!ManagerInv
  PROVE  /\ TM!TypeOK
         /\ TM!LockDiscipline
         /\ TM!RecoveryReplacesOnlyRejected
         /\ \A t \in Threads :
              /\ pc[t] # "idle" => call[t] \in TM!Calls
              /\ pc[t] \in Answers => candidate[t].token \in Tokens
              /\ clock[t] <= now
<1>1. TM!TypeOK /\ TM!LockDiscipline
  BY SameFloats DEF P!ManagerInv, P!TypeInv, P!TypeOK, P!LockDiscipline, P!Places, P!Holding,
     P!Calls, P!NoCall, P!RefreshCall, P!RecoverCall,
     TM!TypeOK, TM!LockDiscipline, TM!Places, TM!Holding,
     TM!Calls, TM!NoCall, TM!RefreshCall, TM!RecoverCall
<1>2. TM!RecoveryReplacesOnlyRejected
  BY DEF P!ManagerInv, P!PolicyInv, P!ReasonsHold, P!RecoveryReplacesOnlyRejected,
     P!Refreshing, P!Holding, TM!RecoveryReplacesOnlyRejected, TM!Refreshing, TM!Holding
<1>3. \A t \in Threads :
        /\ pc[t] # "idle" => call[t] \in TM!Calls
        /\ pc[t] \in Answers => candidate[t].token \in Tokens
        /\ clock[t] <= now
  BY DEF P!ManagerInv, P!TypeInv, P!LocalsOK, P!PolicyInv, P!ClockPast, P!Calls,
     P!RefreshCall, P!RecoverCall, TM!Calls, TM!RefreshCall, TM!RecoverCall, Answers
<1>4. QED
  BY <1>1, <1>2, <1>3

\* A step of the proxy is a step that the manager's proofs reckon with.
LEMMA StepOfManager ==
  ASSUME BaseInv, [Next]_vars
  PROVE  P!ManagerStep
<1>1. ASSUME NEW t \in Threads, TM!Call(t, TM!RefreshCall(FALSE))
      PROVE  P!ManagerStep
  <2>1. P!Call(t, TM!RefreshCall(FALSE))
    BY <1>1 DEF TM!Call, P!Call, TM!stateVars, P!stateVars
  <2>2. TM!RefreshCall(FALSE) \in P!Calls
    BY DEF TM!RefreshCall, P!RefreshCall, P!Calls
  <2>3. QED
    BY <2>1, <2>2 DEF P!ManagerStep
<1>2. ASSUME NEW r \in Requests, Recover(r)
      PROVE  P!ManagerStep
  <2>1. held[r] \in Tokens
    BY <1>2 DEF BaseInv, RequestsOK, RequestOK, Recover
  <2>2. P!Call(r, TM!RecoverCall(held[r]))
    BY <1>2 DEF Recover, TM!Call, P!Call, TM!stateVars, P!stateVars
  <2>3. TM!RecoverCall(held[r]) \in P!Calls
    BY <2>1 DEF TM!RecoverCall, P!RecoverCall, P!Calls
  <2>4. QED
    BY <2>2, <2>3 DEF P!ManagerStep, Threads
<1>3. ASSUME NEW t \in Threads, Acquire(t) \/ Work(t) \/ Answer(t)
      PROVE  P!ManagerStep
  <2>1. Acquire(t) => P!Acquire(t)
    BY DEF Acquire, TM!Acquire, P!Acquire, TM!stateVars, P!stateVars
  <2>2. TM!Decline(t) => P!Decline(t)
    BY SameFloats DEF TM!Decline, P!Decline, TM!Declined, P!Declined, TM!RefreshDeclined,
       P!RefreshDeclined, TM!RecoverDeclined, P!RecoverDeclined, TM!Return, P!Return,
       TM!NoCall, P!NoCall, TM!NoCandidate, P!NoCandidate, TM!AuthResult, P!AuthResult,
       TM!stateVars, P!stateVars
  <2>3. TM!Proceed(t) => P!Proceed(t)
    BY SameFloats DEF TM!Proceed, P!Proceed, TM!Declined, P!Declined, TM!RefreshDeclined,
       P!RefreshDeclined, TM!RecoverDeclined, P!RecoverDeclined,
       TM!stateVars, P!stateVars, TM!localVars, P!localVars
  <2>4. Install(t) => P!Install(t)
    BY SameFloats DEF Install, TM!Install, P!Install, TM!Return, P!Return, TM!NoCall, P!NoCall,
       TM!NoCandidate, P!NoCandidate, TM!AuthResult, P!AuthResult,
       TM!ComputeRefreshDelay, P!ComputeRefreshDelay
  <2>5. RecordFailure(t) => P!RecordFailure(t)
    BY SameFloats DEF RecordFailure, TM!RecordFailure, P!RecordFailure, TM!Return, P!Return,
       TM!NoCall, P!NoCall, TM!NoCandidate, P!NoCandidate, TM!AuthResult, P!AuthResult
  <2>6. ASSUME NEW k \in Tokens, NEW e \in Expiries, Issue(t, k, e)
        PROVE  P!Authenticate(t, k, e)
    BY <2>6 DEF Issue, TM!Authenticate, P!Authenticate, TM!AuthResult, P!AuthResult,
       TM!stateVars, P!stateVars
  <2>7. (Validate(t) => P!Validate(t)) /\ (Fail(t) => P!Fail(t))
    BY DEF Validate, Fail, TM!Validate, P!Validate, TM!Fail, P!Fail, TM!stateVars, P!stateVars
  <2>8. QED
    BY <1>3, <2>1, <2>2, <2>3, <2>4, <2>5, <2>6, <2>7
       DEF Work, Answer, P!ManagerStep, P!Work, P!Answer
<1>4. Tick => P!ManagerStep
  BY DEF Tick, TM!Tick, P!Tick, P!ManagerStep, TM!stateVars, P!stateVars,
     TM!localVars, P!localVars
<1>5. UNCHANGED managerVars => P!ManagerStep
  BY DEF managerVars, P!ManagerStep, P!vars, P!stateVars, P!localVars
<1>6. QED
  BY <1>1, <1>2, <1>3, <1>4, <1>5
     DEF Next, vars, Threads, Handle, TakeToken, AskForToken, EnsureToken, Forward,
         ForwardFails, Respond, Replace, LoopWork, LoopWake, LoopSleep, LoopDies,
         LoopBack, LoopEnds, Stop, Revoke

\* The callers keep the manager's invariant.
LEMMA ManagerStepOfProxy ==
  ASSUME BaseInv, [Next]_vars
  PROVE  P!ManagerInv'
<1>1. P!FloatAssumption /\ P!ConfigAssumption /\ P!NoneAssumption /\ P!BoundAssumption
  BY ManagerAssumption, SameFloats
     DEF P!FloatAssumption, P!ConfigAssumption, P!NoneAssumption, P!BoundAssumption,
         TM!ConfigAssumption, TM!NoneAssumption, TM!BoundAssumption
<1>2. P!ManagerInv /\ P!ManagerStep
  BY StepOfManager DEF BaseInv
<1>3. QED
  BY <1>1, <1>2, P!ManagerInvStep
     DEF P!ManagerInvStep, P!FloatAssumption, P!ConfigAssumption, P!NoneAssumption, P!BoundAssumption

-----------------------------------------------------------------------------
(* Where the threads are, and what they hold.                              *)

\* What the dates and the intervals are.
LEMMA TimeTypes ==
  ASSUME BaseInv
  PROVE  /\ now \in Nat /\ nextRefresh \in Spans /\ wakeAt \in Nat
         /\ Retry \in Spans /\ MinInterval \in Spans
  BY ManagerFacts, ManagerAssumption, SameFloats
     DEF BaseInv, TM!TypeOK, TypeOK, TM!ConfigAssumption

\* The delay that the background thread computes is a float.
LEMMA DelayOfLoop ==
  ASSUME BaseInv
  PROVE  SecondsUntilRefresh \in Spans /\ LoopDelay \in Spans
<1>1. SecondsUntilRefresh \in Spans
  BY TimeTypes, FloatAssumption DEF SecondsUntilRefresh, Minus, Spans
<1>2. QED
  BY <1>1, TimeTypes DEF LoopDelay

\* The types are kept.
LEMMA TypeStep ==
  ASSUME BaseInv, [Next]_vars
  PROVE  TypeOK'
<1> USE DEF TypeOK, Stages
<1>1. TypeOK /\ RequestsOK /\ CallersOK
  BY DEF BaseInv
<1>2. /\ token \in Tokens \cup {None} /\ now \in Nat /\ lastError \in BOOLEAN
  BY ManagerFacts DEF BaseInv, TM!TypeOK
<1>3. ASSUME NEW r \in Requests, NEW v \in {"ok", "401", "error"}, Finish(r, v),
             UNCHANGED <<loopVars, serverVars, rejections, served>>,
             disturbed' \in [Requests -> BOOLEAN]
      PROVE  TypeOK'
  <2>1. /\ stage' = [stage EXCEPT ![r] = "done"] /\ held' = [held EXCEPT ![r] = None]
        /\ status' = [status EXCEPT ![r] = "none"] /\ answer' = [answer EXCEPT ![r] = v]
    BY <1>3 DEF Finish, Goto
  <2>2. \A q \in Requests :
          stage'[q] \in {"ready", "sent", "recovering", "replay", "resent"} => held'[q] \in Tokens
    BY <1>1, <2>1
  <2>3. QED
    BY <1>1, <1>3, <2>1, <2>2 DEF loopVars, serverVars
<1>4. ASSUME NEW r \in Requests, NEW s \in Stages, Pick(r, s), token # None,
             UNCHANGED <<loopVars, serverVars, rejections, served>>,
             disturbed' \in [Requests -> BOOLEAN]
      PROVE  TypeOK'
  <2>1. /\ stage' = [stage EXCEPT ![r] = s] /\ held' = [held EXCEPT ![r] = token]
        /\ token \in Tokens /\ UNCHANGED <<status, answer>>
    BY <1>2, <1>4 DEF Pick, Goto
  <2>2. \A q \in Requests :
          stage'[q] \in {"ready", "sent", "recovering", "replay", "resent"} => held'[q] \in Tokens
    BY <1>1, <2>1
  <2>3. QED
    BY <1>1, <1>4, <2>1, <2>2 DEF loopVars, serverVars
<1>5. ASSUME NEW r \in Requests, TakeToken(r) \/ ForwardFails(r)
      PROVE  TypeOK'
  <2>1. disturbed' \in [Requests -> BOOLEAN]
    BY <1>1, <1>2, <1>5 DEF TakeToken, ForwardFails, Begin
  <2>2. QED
    BY <1>3, <1>4, <1>5, <2>1 DEF TakeToken, ForwardFails
<1>6. ASSUME NEW r \in Requests, EnsureToken(r) \/ Respond(r) \/ Replace(r)
      PROVE  TypeOK'
  <2>1. Respond(r) => status[r] \in {"ok", "401"}
    BY <1>1 DEF Respond, RequestsOK, RequestOK
  <2>2. UNCHANGED <<disturbed, loopVars, serverVars, rejections, served>>
    BY <1>6 DEF EnsureToken, Respond, Replace, historyVars
  <2>3. disturbed' \in [Requests -> BOOLEAN]
    BY <1>1, <2>2
  <2>4. QED
    BY <1>3, <1>4, <1>6, <2>1, <2>2, <2>3 DEF EnsureToken, Respond, Replace
<1>7. ASSUME NEW r \in Requests, AskForToken(r) \/ Recover(r)
      PROVE  TypeOK'
  BY <1>1, <1>2, <1>7 DEF AskForToken, Recover, Goto, Begin, loopVars, serverVars, historyVars
<1>8. ASSUME NEW r \in Requests, Forward(r, "ready", "sent") \/ Forward(r, "replay", "resent")
      PROVE  TypeOK'
  <2>1. held[r] \in Tokens
    BY <1>1, <1>8 DEF Forward, RequestsOK, RequestOK
  <2>2. QED
    BY <1>1, <1>8, <2>1 DEF Forward, Goto, loopVars, serverVars
<1>9. ASSUME LoopSleep
      PROVE  TypeOK'
  <2>1. LoopDelay \in Spans
    BY <1>9, DelayOfLoop DEF LoopSleep, LoopBack, BaseInv
  <2>2. wakeAt' \in Nat
    BY <1>2, <1>9, <2>1, FloatAssumption, ProxyAssumption DEF LoopSleep, Less, Spans
  <2>3. QED
    BY <1>1, <1>9, <2>2 DEF LoopSleep, LoopBack, requestVars, serverVars, historyVars
<1>10. ASSUME LoopWake \/ LoopDies \/ LoopEnds \/ Stop
       PROVE  TypeOK'
  BY <1>1, <1>10 DEF LoopWake, LoopDies, LoopBack, LoopEnds, Stop, requestVars,
     serverVars, historyVars
<1>11. ASSUME NEW t \in Threads, NEW k \in Tokens, NEW e \in Expiries, Issue(t, k, e)
       PROVE  TypeOK'
  BY <1>1, <1>11 DEF Issue, requestVars, loopVars, historyVars
<1>12. ASSUME NEW t \in Threads, Install(t) \/ RecordFailure(t)
       PROVE  TypeOK'
  BY <1>1, <1>12 DEF Install, RecordFailure, Active, requestVars, loopVars, serverVars
<1>13. ASSUME NEW k \in Tokens, Revoke(k)
       PROVE  TypeOK'
  BY <1>1, <1>13 DEF Revoke, requestVars, loopVars, historyVars
<1>14. ASSUME UNCHANGED <<requestVars, loopVars, serverVars, historyVars>>
       PROVE  TypeOK'
  BY <1>1, <1>14 DEF requestVars, loopVars, serverVars, historyVars
<1>15. QED
  BY <1>5, <1>6, <1>7, <1>8, <1>9, <1>10, <1>11, <1>12, <1>13, <1>14
     DEF Next, vars, Handle, LoopWork, Acquire, Work, Answer, Validate, Fail, Tick, Quiet

\* A call reports an outcome when it returns.
LEMMA ReturnReports ==
  ASSUME TM!TypeOK, NEW t \in Threads,
         TM!Decline(t) \/ TM!Install(t) \/ TM!RecordFailure(t)
  PROVE  \E v \in Outcomes : TM!Return(t, v)
  BY DEF TM!Decline, TM!Install, TM!RecordFailure, Outcomes

\* The threads inside the manager remain the ones whose callers wait.
LEMMA CallersStep ==
  ASSUME BaseInv, [Next]_vars
  PROVE  CallersOK'
<1> USE DEF CallersOK
<1>1. /\ TypeOK /\ TM!TypeOK /\ CallersOK
      /\ Loop \notin Requests
  BY ManagerFacts, ProxyAssumption DEF BaseInv
<1> USE <1>1 DEF TypeOK, TM!TypeOK
<1>2. ASSUME NEW r \in Requests, pc[r] = "idle",
             NEW s \in Stages \ {"ensuring", "recovering"}, Goto(r, s),
             \A q \in Requests \ {r} : held'[q] = held[q],
             UNCHANGED <<managerVars, loopVars>>
      PROVE  CallersOK'
  BY <1>2 DEF Goto, managerVars, loopVars
<1>3. ASSUME NEW r \in Requests, TakeToken(r) \/ EnsureToken(r) \/ ForwardFails(r)
                                 \/ Respond(r) \/ Replace(r)
      PROVE  CallersOK'
  BY <1>2, <1>3 DEF TakeToken, EnsureToken, ForwardFails, Respond, Replace, Returned,
     Pick, Finish, Stages
<1>4. ASSUME NEW r \in Requests, Forward(r, "ready", "sent") \/ Forward(r, "replay", "resent")
      PROVE  CallersOK'
  BY <1>2, <1>4 DEF Forward, Stages
<1>5. ASSUME NEW r \in Requests, AskForToken(r) \/ Recover(r)
      PROVE  CallersOK'
  <2>1. CASE AskForToken(r)
    BY <2>1 DEF AskForToken, Goto, TM!Call, Threads, loopVars
  <2>2. CASE Recover(r)
    BY <2>2 DEF Recover, Goto, TM!Call, Threads, loopVars
  <2>3. QED
    BY <1>5, <2>1, <2>2
<1>6. ASSUME LoopWake
      PROVE  CallersOK'
  BY <1>6 DEF LoopWake, TM!Call, Threads, requestVars
<1>7. ASSUME LoopSleep \/ LoopDies \/ LoopEnds \/ Stop
      PROVE  CallersOK'
  BY <1>7 DEF LoopSleep, LoopDies, LoopBack, LoopEnds, Stop, managerVars, requestVars
<1>8. ASSUME NEW t \in Threads, NEW v \in Outcomes, pc[t] # "idle", TM!Return(t, v),
             UNCHANGED <<stage, held, loop>>
      PROVE  CallersOK'
  BY <1>8 DEF TM!Return, Threads
<1>9. ASSUME NEW t \in Threads, pc[t] # "idle",
             NEW p \in TM!Places \ {"idle"}, pc' = [pc EXCEPT ![t] = p],
             UNCHANGED <<stage, held, loop, call, result>>
      PROVE  CallersOK'
  BY <1>9 DEF Threads
<1>10. ASSUME NEW t \in Threads, Acquire(t) \/ Work(t)
       PROVE  CallersOK'
  <2>1. CASE TM!Decline(t) /\ Quiet
    BY <1>8, <2>1, ReturnReports DEF TM!Decline, Quiet, requestVars, loopVars
  <2>2. CASE Install(t)
    BY <1>8, <2>2, ReturnReports DEF Install, TM!Install, requestVars, loopVars
  <2>3. CASE RecordFailure(t)
    BY <1>8, <2>3, ReturnReports DEF RecordFailure, TM!RecordFailure, requestVars, loopVars
  <2>4. CASE Acquire(t) \/ (TM!Proceed(t) /\ Quiet)
    BY <1>9, <2>4 DEF Acquire, TM!Acquire, TM!Proceed, TM!localVars, Quiet, requestVars,
       loopVars, TM!Places, TM!Holding
  <2>5. QED
    BY <1>10, <2>1, <2>2, <2>3, <2>4 DEF Work
<1>11. ASSUME NEW t \in Threads, Answer(t)
       PROVE  CallersOK'
  BY <1>9, <1>11 DEF Answer, Issue, Validate, Fail, TM!Authenticate, TM!Validate, TM!Fail,
     Quiet, requestVars, loopVars, TM!Places, TM!Holding
<1>12. ASSUME UNCHANGED <<stage, held, loop, pc, call, result>>
       PROVE  CallersOK'
  BY <1>12
<1>13. QED
  BY <1>3, <1>4, <1>5, <1>6, <1>7, <1>10, <1>11, <1>12
     DEF Next, vars, Handle, LoopWork, Revoke, Tick, TM!Tick, TM!localVars, Quiet,
         managerVars, requestVars, loopVars

\* Once there is a token there is one for ever.
LEMMA TokenStays ==
  ASSUME BaseInv, [Next]_vars, token # None
  PROVE  token' # None
<1>1. ASSUME NEW t \in Threads, Install(t)
      PROVE  token' # None
  <2>1. candidate[t].token \in Tokens
    BY <1>1, ManagerFacts DEF BaseInv, Install, TM!Install, Answers
  <2>2. QED
    BY <1>1, <2>1, ManagerAssumption DEF Install, TM!Install, TM!NoneAssumption
<1>2. QED
  BY <1>1 DEF Next, vars, Handle, TakeToken, AskForToken, EnsureToken, Forward,
     ForwardFails, Respond, Recover, Replace, LoopWork, LoopWake, LoopSleep, LoopDies,
     LoopBack, LoopEnds, Stop, Acquire, Work, Answer, Issue, Validate, Fail,
     RecordFailure, Revoke, Tick, managerVars, TM!Call, TM!Acquire, TM!Decline,
     TM!Proceed, TM!Authenticate, TM!Validate, TM!Fail, TM!RecordFailure, TM!Tick,
     TM!stateVars

\* A request touches its own variables only.
LEMMA OthersUntouched ==
  ASSUME TypeOK, NEW r \in Requests, NEW q \in Requests, r # q, Handle(r)
  PROVE  /\ UNCHANGED <<stage[q], held[q], status[q], answer[q]>>
         /\ UNCHANGED <<rejections[q], disturbed[q]>>
         /\ UNCHANGED <<loopVars, serverVars, served>>
<1>1. ASSUME NEW v, Finish(r, v) \/ Pick(r, v)
      PROVE  UNCHANGED <<stage[q], held[q], status[q], answer[q]>>
  BY <1>1 DEF TypeOK, Finish, Pick, Goto
<1>2. CASE TakeToken(r) \/ EnsureToken(r) \/ ForwardFails(r) \/ Respond(r) \/ Replace(r)
  <2>1. UNCHANGED <<stage[q], held[q], status[q], answer[q]>>
    BY <1>1, <1>2 DEF TakeToken, EnsureToken, ForwardFails, Respond, Replace
  <2>2. UNCHANGED disturbed \/ \E b : disturbed' = [disturbed EXCEPT ![r] = b]
    BY <1>2 DEF TakeToken, EnsureToken, ForwardFails, Respond, Replace, Begin, historyVars
  <2>3. UNCHANGED <<rejections, loopVars, serverVars, served>>
    BY <1>2 DEF TakeToken, EnsureToken, ForwardFails, Respond, Replace, historyVars
  <2>4. QED
    BY <2>1, <2>2, <2>3 DEF TypeOK
<1>3. CASE AskForToken(r) \/ Recover(r)
  BY <1>3 DEF TypeOK, AskForToken, Recover, Goto, Begin, historyVars
<1>4. CASE Forward(r, "ready", "sent") \/ Forward(r, "replay", "resent")
  BY <1>4 DEF TypeOK, Forward, Goto
<1>5. QED
  BY <1>2, <1>3, <1>4 DEF Handle

\* The requests keep what they hold.
LEMMA RequestsStep ==
  ASSUME BaseInv, [Next]_vars
  PROVE  RequestsOK'
<1>1. /\ TypeOK /\ CallersOK
      /\ token \in Tokens \cup {None}
      /\ token # None => token' # None
      /\ \A r \in Requests : RequestOK(r)
  BY ManagerFacts, TokenStays DEF BaseInv, TM!TypeOK, RequestsOK
<1> SUFFICES ASSUME NEW q \in Requests PROVE RequestOK(q)'
  BY DEF RequestsOK
<1> USE DEF RequestOK
<1>2. ASSUME UNCHANGED <<stage[q], held[q], status[q], answer[q]>>
      PROVE  RequestOK(q)'
  BY <1>1, <1>2
<1>3. ASSUME NEW v, Finish(q, v)
      PROVE  RequestOK(q)'
  BY <1>1, <1>3 DEF Finish, Goto, TypeOK
<1>4. ASSUME stage[q] # "done", NEW s \in {"ready", "replay"}, Pick(q, s), token # None
      PROVE  RequestOK(q)'
  BY <1>1, <1>4 DEF Pick, Goto, TypeOK
<1>5. ASSUME TakeToken(q) \/ EnsureToken(q) \/ ForwardFails(q) \/ Respond(q) \/ Replace(q)
      PROVE  RequestOK(q)'
  BY <1>3, <1>4, <1>5 DEF TakeToken, EnsureToken, ForwardFails, Respond, Replace, Returned
<1>6. ASSUME AskForToken(q) \/ Recover(q)
      PROVE  RequestOK(q)'
  BY <1>1, <1>6 DEF AskForToken, Recover, Goto, TypeOK
<1>7. ASSUME Forward(q, "ready", "sent") \/ Forward(q, "replay", "resent")
      PROVE  RequestOK(q)'
  BY <1>1, <1>7 DEF Forward, Goto, TypeOK
<1>8. ASSUME NEW r \in Requests, r # q, Handle(r)
      PROVE  RequestOK(q)'
  BY <1>1, <1>2, <1>8, OthersUntouched
<1>9. ASSUME UNCHANGED requestVars
      PROVE  RequestOK(q)'
  BY <1>2, <1>9 DEF requestVars
<1>10. QED
  BY <1>5, <1>6, <1>7, <1>8, <1>9
     DEF Next, vars, Handle, LoopWork, LoopWake, LoopSleep, LoopDies, LoopBack, LoopEnds,
         Stop, Acquire, Work, Answer, Issue, Install, RecordFailure, Validate, Fail,
         Revoke, Tick, Quiet

\* What every later proof builds on holds initially and is kept by every step.
LEMMA BaseStep == BaseInv /\ [Next]_vars => BaseInv'
  BY ManagerStepOfProxy, TypeStep, CallersStep, RequestsStep DEF BaseInv

\* It holds when the process comes up.
LEMMA BaseInit == Init => BaseInv
<1> SUFFICES ASSUME Init PROVE BaseInv
  OBVIOUS
<1>1. P!ManagerInv
  <2>1. P!FloatAssumption /\ P!ConfigAssumption /\ P!NoneAssumption /\ P!BoundAssumption
    BY ManagerAssumption, SameFloats
       DEF P!FloatAssumption, P!ConfigAssumption, P!NoneAssumption, P!BoundAssumption,
           TM!ConfigAssumption, TM!NoneAssumption, TM!BoundAssumption
  <2>2. P!Init
    BY DEF Init, TM!Init, P!Init, TM!NoCall, P!NoCall, TM!NoCandidate, P!NoCandidate,
       TM!AuthResult, P!AuthResult
  <2>3. QED
    BY <2>1, <2>2, P!ManagerInit
       DEF P!ManagerInit, P!FloatAssumption, P!ConfigAssumption, P!NoneAssumption, P!BoundAssumption
<1>2. TypeOK
  BY DEF Init, TypeOK, Stages
<1>3. CallersOK
  BY DEF Init, TM!Init, CallersOK, Threads
<1>4. RequestsOK
  BY DEF Init, RequestsOK, RequestOK
<1>5. QED
  BY <1>1, <1>2, <1>3, <1>4 DEF BaseInv

\* The manager's invariant holds of the proxy, with its requests and its
\* background thread as callers, and so do the types.
LEMMA BaseInvariant == Spec => []BaseInv
<1>1. QED
  BY BaseInit, BaseStep, PTL DEF Spec

\* Every variable keeps its type in every reachable state.
THEOREM TypeCorrect == Spec => []TypeOK
<1>1. BaseInv => TypeOK
  BY DEF BaseInv
<1>2. QED
  BY <1>1, BaseInvariant, PTL

-----------------------------------------------------------------------------
(* Errors.                                                                 *)

\* A call of the handler that _refresh turns down finds a token in use, or is
\* within the time that follows an attempt that failed.
LEMMA ReturnWithCause ==
  ASSUME BaseInv, CauseInv, NEW t \in Threads,
         TM!Decline(t), call[t].op = "refresh", ~ call[t].force
  PROVE  token # None \/ lastError
<1>1. clock[t] \in Nat
  BY ManagerFacts DEF BaseInv, TM!TypeOK
<1>2. Less(clock[t], nextAttempt) \/ token # None
  BY SameFloats DEF TM!Decline, TM!Declined, TM!RefreshDeclined
<1>3. ~ Less(clock[t], 0)
  BY <1>1, FloatAssumption DEF Less
<1>4. QED
  BY <1>2, <1>3 DEF CauseInv

\* Every error keeps a cause.
LEMMA CauseStep ==
  ASSUME BaseInv, CauseInv, [Next]_vars
  PROVE  CauseInv'
<1>1. /\ TypeOK /\ CallersOK /\ TM!TypeOK /\ RequestsOK
      /\ token # None => token' # None
      /\ \A r \in Requests : CauseKnown(r)
      /\ Loop \notin Requests
  BY ManagerFacts, TokenStays, ProxyAssumption DEF BaseInv, CauseInv
<1>2. ASSUME token' = None, ~ lastError'
      PROVE  nextAttempt' = 0
  <2>1. ASSUME NEW t \in Threads, Install(t)
        PROVE  token' # None
    <3>1. candidate[t].token \in Tokens
      BY <2>1, ManagerFacts DEF BaseInv, Install, TM!Install, Answers
    <3>2. QED
      BY <2>1, <3>1, ManagerAssumption DEF Install, TM!Install, TM!NoneAssumption
  <2>2. ASSUME NEW t \in Threads, RecordFailure(t)
        PROVE  lastError'
    BY <2>2 DEF RecordFailure, TM!RecordFailure
  <2>3. ASSUME UNCHANGED TM!stateVars
        PROVE  nextAttempt' = 0
    BY <1>2, <2>3 DEF CauseInv, TM!stateVars
  <2>4. QED
    BY <1>2, <2>1, <2>2, <2>3 DEF Next, vars, Handle, TakeToken, AskForToken, EnsureToken,
       Forward, ForwardFails, Respond, Recover, Replace, LoopWork, LoopWake, LoopSleep,
       LoopDies, LoopBack, LoopEnds, Stop, Acquire, Work, Answer, Issue, Validate, Fail,
       Revoke, Tick, managerVars, TM!Call, TM!Acquire, TM!Decline, TM!Proceed,
       TM!Authenticate, TM!Validate, TM!Fail, TM!Tick, TM!stateVars
<1> SUFFICES ASSUME NEW q \in Requests PROVE CauseKnown(q)'
  BY <1>2 DEF CauseInv
<1> USE DEF CauseKnown, Returned, Active
<1>3. ASSUME UNCHANGED <<lastError, token, stage[q], pc[q], result[q], answer[q]>>,
             disturbed'[q] = disturbed[q]
      PROVE  CauseKnown(q)'
  BY <1>1, <1>3
<1>4. ASSUME NEW v, Finish(q, v), v = "error" => disturbed'[q]
      PROVE  CauseKnown(q)'
  BY <1>1, <1>4 DEF Finish, Goto, TypeOK, RequestsOK, RequestOK
<1>5. ASSUME Pick(q, "ready") \/ Pick(q, "replay"), UNCHANGED lastError,
             lastError => disturbed'[q], stage[q] # "done"
      PROVE  CauseKnown(q)'
  BY <1>1, <1>5 DEF Pick, Goto, TypeOK, RequestsOK, RequestOK
<1>6. ASSUME TakeToken(q) \/ ForwardFails(q)
      PROVE  CauseKnown(q)'
  <2>1. CASE TakeToken(q)
    <3>1. disturbed'[q] = lastError /\ UNCHANGED lastError
      BY <1>1, <2>1 DEF TakeToken, Begin, TypeOK, managerVars
    <3>2. QED
      BY <1>5, <2>1, <3>1 DEF TakeToken
  <2>2. CASE ForwardFails(q)
    <3>1. disturbed'[q]
      BY <1>1, <2>2 DEF ForwardFails, TypeOK
    <3>2. QED
      BY <1>4, <2>2, <3>1 DEF ForwardFails
  <2>3. QED
    BY <1>6, <2>1, <2>2
<1>7. ASSUME EnsureToken(q) \/ Respond(q) \/ Replace(q)
      PROVE  CauseKnown(q)'
  <2>1. UNCHANGED <<disturbed, lastError>>
    BY <1>7 DEF EnsureToken, Respond, Replace, managerVars, historyVars
  <2>2. CASE EnsureToken(q)
    BY <1>1, <1>4, <1>5, <2>1, <2>2 DEF EnsureToken
  <2>3. CASE Respond(q)
    BY <1>1, <1>4, <2>1, <2>3 DEF Respond, RequestsOK, RequestOK
  <2>4. CASE Replace(q)
    BY <1>1, <1>4, <1>5, <2>1, <2>4 DEF Replace
  <2>5. QED
    BY <1>7, <2>2, <2>3, <2>4
<1>8. ASSUME AskForToken(q) \/ Recover(q)
      PROVE  CauseKnown(q)'
  <2>1. CASE AskForToken(q)
    BY <1>1, <2>1 DEF AskForToken, Goto, Begin, TM!Call, TM!stateVars, TypeOK, TM!TypeOK, Threads,
       RequestsOK, RequestOK
  <2>2. CASE Recover(q)
    BY <1>1, <2>2 DEF Recover, Goto, TM!Call, TM!stateVars, TypeOK, TM!TypeOK, Threads,
       RequestsOK, RequestOK, historyVars
  <2>3. QED
    BY <1>8, <2>1, <2>2
<1>9. ASSUME Forward(q, "ready", "sent") \/ Forward(q, "replay", "resent")
      PROVE  CauseKnown(q)'
  BY <1>1, <1>9 DEF Forward, Goto, TypeOK, managerVars, RequestsOK, RequestOK
<1>10. ASSUME NEW t \in Threads, t # q, pc' = [pc EXCEPT ![t] = "locking"],
              result' = [result EXCEPT ![t] = "pending"],
              UNCHANGED <<lastError, token, stage[q], answer[q], disturbed[q]>>
       PROVE  CauseKnown(q)'
  BY <1>1, <1>3, <1>10 DEF TM!TypeOK
<1>11. ASSUME NEW r \in Requests, r # q, Handle(r)
       PROVE  CauseKnown(q)'
  <2>1. UNCHANGED <<stage[q], answer[q], disturbed[q]>>
    BY <1>1, <1>11, OthersUntouched
  <2>2. CASE AskForToken(r) \/ Recover(r)
    BY <1>10, <1>11, <2>1, <2>2 DEF AskForToken, Recover, TM!Call, TM!stateVars, Threads
  <2>3. CASE UNCHANGED managerVars
    BY <1>3, <2>1, <2>3 DEF managerVars
  <2>4. QED
    BY <1>11, <2>2, <2>3 DEF Handle, TakeToken, EnsureToken, Forward, ForwardFails,
       Respond, Replace
<1>12. ASSUME LoopWork \/ Stop
       PROVE  CauseKnown(q)'
  <2>1. UNCHANGED <<stage, answer, disturbed>>
    BY <1>12 DEF LoopWork, LoopWake, LoopSleep, LoopDies, LoopBack, LoopEnds, Stop,
       requestVars, historyVars
  <2>2. CASE LoopWake
    BY <1>1, <1>10, <2>1, <2>2 DEF LoopWake, TM!Call, TM!stateVars, Threads
  <2>3. CASE UNCHANGED managerVars
    BY <1>3, <2>1, <2>3 DEF managerVars
  <2>4. QED
    BY <1>12, <2>2, <2>3 DEF LoopWork, LoopSleep, LoopDies, LoopBack, LoopEnds, Stop
<1>13. ASSUME NEW t \in Threads, TM!Decline(t), Quiet
       PROVE  CauseKnown(q)'
  <2>1. /\ pc' = [pc EXCEPT ![t] = "idle"] /\ result' = [result EXCEPT ![t] = "false"]
        /\ pc[t] = "deciding"
        /\ UNCHANGED <<lastError, token, stage, answer, disturbed>>
    BY <1>13 DEF TM!Decline, TM!Return, TM!stateVars, Quiet, requestVars, historyVars
  <2>2. CASE t = q
    <3>1. stage[q] = "ensuring" => token # None \/ lastError
      BY <1>1, <1>13, <2>1, <2>2, ReturnWithCause DEF CallersOK, TM!RefreshCall
    <3>2. QED
      BY <1>1, <2>1, <2>2, <3>1 DEF TM!TypeOK
  <2>3. CASE t # q
    BY <1>1, <1>3, <2>1, <2>3 DEF TM!TypeOK
  <2>4. QED
    BY <2>2, <2>3
<1>14. ASSUME NEW t \in Threads, Install(t)
       PROVE  CauseKnown(q)'
  <2>1. /\ pc' = [pc EXCEPT ![t] = "idle"] /\ result' = [result EXCEPT ![t] = "true"]
        /\ pc[t] = "installing" /\ ~ lastError'
        /\ UNCHANGED <<stage, answer, disturbed>>
    BY <1>14 DEF Install, TM!Install, TM!Return, requestVars
  <2>2. token' # None
    <3>1. candidate[t].token \in Tokens
      BY <2>1, ManagerFacts DEF BaseInv, Answers
    <3>2. QED
      BY <1>14, <3>1, ManagerAssumption DEF Install, TM!Install, TM!NoneAssumption
  <2>3. CASE t = q
    BY <1>1, <2>1, <2>2, <2>3 DEF TM!TypeOK
  <2>4. CASE t # q
    BY <1>1, <2>1, <2>2, <2>4 DEF TM!TypeOK
  <2>5. QED
    BY <2>3, <2>4
<1>15. ASSUME NEW t \in Threads, RecordFailure(t)
       PROVE  CauseKnown(q)'
  <2>1. disturbed'[q] = (disturbed[q] \/ Active(q)) /\ UNCHANGED <<stage, answer>>
    BY <1>15 DEF RecordFailure, requestVars
  <2>2. QED
    BY <1>1, <2>1
<1>16. ASSUME NEW t \in Threads, NEW p \in TM!Places \ {"idle"}, pc[t] # "idle",
              pc' = [pc EXCEPT ![t] = p],
              UNCHANGED <<result, lastError, token, stage, answer, disturbed>>
       PROVE  CauseKnown(q)'
  BY <1>1, <1>16 DEF TM!TypeOK
<1>17. ASSUME NEW t \in Threads, Acquire(t) \/ (TM!Proceed(t) /\ Quiet) \/ Answer(t)
       PROVE  CauseKnown(q)'
  BY <1>16, <1>17 DEF Acquire, TM!Acquire, TM!Proceed, Answer, Issue, Validate, Fail,
     TM!Authenticate, TM!Validate, TM!Fail, TM!stateVars, TM!localVars, Quiet, requestVars,
     historyVars, TM!Places, TM!Holding
<1>18. ASSUME UNCHANGED <<TM!stateVars, pc, result, requestVars, disturbed>>
       PROVE  CauseKnown(q)'
  BY <1>3, <1>18 DEF TM!stateVars, requestVars
<1>19. QED
  BY <1>6, <1>7, <1>8, <1>9, <1>11, <1>12, <1>13, <1>14, <1>15, <1>17, <1>18
     DEF Next, vars, Handle, Work, Revoke, Tick, TM!Tick, TM!stateVars, Quiet, managerVars,
         requestVars, historyVars

\* An error always has a cause.
THEOREM ErrorsAreCaused == Spec => []ErrorsHaveCause
<1>1. Init => CauseInv
  BY DEF Init, TM!Init, CauseInv, CauseKnown, Active, Returned
<1>2. BaseInv /\ CauseInv /\ [Next]_vars => CauseInv'
  BY CauseStep
<1>3. CauseInv => ErrorsHaveCause
  BY DEF CauseInv, CauseKnown, ErrorsHaveCause
<1>4. QED
  BY <1>1, <1>2, <1>3, BaseInvariant, PTL DEF Spec

-----------------------------------------------------------------------------
(* Tokens.                                                                 *)

\* Two threads are never inside together.
LEMMA OneHolder ==
  ASSUME BaseInv, NEW t \in Threads, NEW u \in Threads,
         pc[t] \in TM!Holding, pc[u] \in TM!Holding
  PROVE  t = u
  BY ManagerFacts DEF BaseInv, TM!LockDiscipline

\* Thread t begins a call or goes on with it as far as the decision.
Early(t) ==
  /\ pc[t] \in {"idle", "locking", "deciding"}
  /\ \E p \in {"idle", "locking", "deciding", "authenticating"} : pc' = [pc EXCEPT ![t] = p]
  /\ pc'[t] = "idle" => pc[t] = "deciding" /\ TM!Declined(t)
  /\ \A u \in Threads \ {t} : UNCHANGED <<candidate[u], clock[u], result[u]>>
  /\ UNCHANGED <<now, TM!stateVars, serverVars, served>>

\* What a step of the proxy is to the manager.
LEMMA StepKinds ==
  ASSUME BaseInv, [Next]_vars
  PROVE  \/ UNCHANGED <<managerVars, issued, newest, served>>
         \/ \E t \in Threads : Early(t)
         \/ \E t \in Threads, k \in Tokens, e \in Expiries : Issue(t, k, e)
         \/ \E t \in Threads : Validate(t) \/ Fail(t) \/ Install(t) \/ RecordFailure(t)
         \/ Tick
<1> USE DEF Early
<1>1. TM!TypeOK
  BY ManagerFacts DEF BaseInv
<1>2. ASSUME NEW t \in Threads, NEW c, TM!Call(t, c), UNCHANGED <<serverVars, served>>
      PROVE  Early(t)
  BY <1>1, <1>2 DEF TM!Call, TM!TypeOK
<1>3. ASSUME NEW r \in Requests, Handle(r)
      PROVE  UNCHANGED <<managerVars, issued, newest, served>> \/ Early(r)
  BY <1>2, <1>3 DEF Handle, TakeToken, AskForToken, EnsureToken, Forward,
     ForwardFails, Respond, Recover, Replace, Threads, serverVars, historyVars
<1>4. ASSUME LoopWork \/ Stop
      PROVE  UNCHANGED <<managerVars, issued, newest, served>> \/ Early(Loop)
  BY <1>2, <1>4 DEF LoopWork, LoopWake, LoopSleep, LoopDies, LoopBack, LoopEnds,
     Stop, Threads, serverVars, historyVars
<1>5. ASSUME NEW t \in Threads, Acquire(t) \/ (TM!Proceed(t) /\ Quiet)
      PROVE  Early(t)
  BY <1>1, <1>5 DEF TM!TypeOK, Acquire, TM!Acquire, TM!Proceed, TM!localVars, Quiet, historyVars
<1>6. ASSUME NEW t \in Threads, TM!Decline(t), Quiet
      PROVE  Early(t)
  BY <1>1, <1>6 DEF TM!TypeOK, TM!Decline, TM!Return, Quiet, historyVars
<1>7. QED
  BY <1>3, <1>4, <1>5, <1>6 DEF Next, vars, Work, Answer, Revoke, Threads, serverVars,
     historyVars

\* What the steps that end an attempt do.
LEMMA Installs ==
  ASSUME BaseInv, NEW t \in Threads, Install(t)
  PROVE  /\ pc[t] = "installing" /\ pc' = [pc EXCEPT ![t] = "idle"]
         /\ token' = candidate[t].token /\ candidate[t].token \in Tokens /\ ~ lastError'
         /\ lastSuccess' = clock[t]
         /\ nextRefresh' = Plus(clock[t], TM!ComputeRefreshDelay(candidate[t].expires))
         /\ result' = [result EXCEPT ![t] = "true"]
         /\ served' = served \cup {r \in Requests \ {t} : Refused(r)}
         /\ UNCHANGED <<now, requestVars, loopVars, serverVars, rejections, disturbed>>
  BY ManagerFacts, SameFloats DEF BaseInv, Install, TM!Install, TM!Return, Answers

\* _record_failure_locked leaves the token as it is and sets the error flag.
LEMMA Records ==
  ASSUME NEW t \in Threads, RecordFailure(t)
  PROVE  /\ pc[t] = "failing" /\ pc' = [pc EXCEPT ![t] = "idle"] /\ lastError'
         /\ UNCHANGED <<now, token, lastSuccess, nextRefresh, serverVars, served>>
         /\ TM!Return(t, "raised")
  BY DEF RecordFailure, TM!RecordFailure, TM!Return

\* Where an answer in hand comes from.
LEMMA AnswerFrom ==
  ASSUME BaseInv, [Next]_vars, NEW u \in Threads, pc'[u] \in Answers
  PROVE  \/ \E k \in Tokens, e \in Expiries : Issue(u, k, e)
         \/ /\ pc[u] \in Answers /\ candidate'[u] = candidate[u]
            /\ UNCHANGED <<token, lastSuccess, nextRefresh, issued, newest>>
<1> USE DEF Answers, TM!TypeOK
<1>1. TM!TypeOK
  BY ManagerFacts DEF BaseInv
<1>2. ASSUME UNCHANGED managerVars
      PROVE  pc[u] \in Answers /\ candidate'[u] = candidate[u]
  BY <1>2 DEF managerVars
<1>3. ASSUME NEW t \in Threads, Early(t)
      PROVE  /\ pc[u] \in Answers /\ candidate'[u] = candidate[u]
             /\ UNCHANGED <<token, lastSuccess, nextRefresh, issued, newest>>
  BY <1>1, <1>3 DEF Early, TM!stateVars, serverVars
<1>4. ASSUME NEW t \in Threads, NEW k \in Tokens, NEW e \in Expiries, Issue(t, k, e)
      PROVE  t = u
  <2>1. CASE pc[u] \in Answers
    BY <1>1, <1>4, <2>1, OneHolder DEF Issue, TM!Authenticate, TM!Holding
  <2>2. CASE pc[u] \notin Answers
    BY <1>1, <1>4, <2>2 DEF Issue, TM!Authenticate
  <2>3. QED
    BY <2>1, <2>2
<1>5. ASSUME NEW t \in Threads, Validate(t) \/ Fail(t)
      PROVE  /\ pc[u] \in Answers /\ candidate'[u] = candidate[u]
             /\ UNCHANGED <<token, lastSuccess, nextRefresh, issued, newest>>
  BY <1>1, <1>5 DEF Validate, Fail, TM!Validate, TM!Fail, TM!stateVars, Quiet, serverVars
<1>6. ASSUME NEW t \in Threads, Install(t) \/ RecordFailure(t)
      PROVE  FALSE
  <2>1. pc[t] \in {"installing", "failing"} /\ pc' = [pc EXCEPT ![t] = "idle"]
    BY <1>6, Installs, Records
  <2>2. pc[u] \in Answers /\ u # t
    BY <1>1, <2>1
  <2>3. QED
    BY <2>1, <2>2, OneHolder DEF TM!Holding
<1>7. Tick => /\ pc[u] \in Answers /\ candidate'[u] = candidate[u]
              /\ UNCHANGED <<token, lastSuccess, nextRefresh, issued, newest>>
  BY DEF Tick, TM!Tick, TM!stateVars, TM!localVars, Quiet, serverVars
<1>8. QED
  BY <1>2, <1>3, <1>4, <1>5, <1>6, <1>7, StepKinds DEF managerVars

\* The newest token is the one in use, or is about to be.
LEMMA NewestStep ==
  ASSUME BaseInv, NewestInv, [Next]_vars
  PROVE  NewestInv'
<1>1. TM!TypeOK
  BY ManagerFacts DEF BaseInv
<1>2. ASSUME NEW u \in Threads, pc'[u] \in Answers
      PROVE  candidate'[u].token = newest'
  <2>1. ASSUME NEW k \in Tokens, NEW e \in Expiries, Issue(u, k, e)
        PROVE  candidate'[u].token = newest'
    BY <1>1, <2>1 DEF Issue, TM!Authenticate, TM!AuthResult, TM!TypeOK
  <2>2. QED
    BY <1>2, <2>1, AnswerFrom DEF NewestInv
<1> DEFINE Settled == \A t \in Threads : pc[t] \notin Answers \cup {"failing"}
<1>3. ASSUME token' # None, ~ lastError', Settled'
      PROVE  token' = newest'
  <2>1. ASSUME Settled, UNCHANGED <<token, lastError, newest>>
        PROVE  token' = newest'
    BY <1>3, <2>1 DEF NewestInv
  <2>2. CASE UNCHANGED <<managerVars, issued, newest, served>>
    BY <1>3, <2>1, <2>2 DEF managerVars
  <2>3. ASSUME NEW t \in Threads, Early(t)
        PROVE  token' = newest'
    <3>1. Settled
      BY <1>1, <1>3, <2>3 DEF Early, TM!TypeOK, Answers
    <3>2. QED
      BY <2>1, <2>3, <3>1 DEF Early, TM!stateVars, serverVars
  <2>4. ASSUME NEW t \in Threads, NEW k \in Tokens, NEW e \in Expiries, Issue(t, k, e)
        PROVE  FALSE
    BY <1>1, <1>3, <2>4 DEF Issue, TM!Authenticate, TM!TypeOK, Answers
  <2>5. ASSUME NEW t \in Threads, Validate(t) \/ Fail(t)
        PROVE  FALSE
    BY <1>1, <1>3, <2>5 DEF Validate, Fail, TM!Validate, TM!Fail, TM!TypeOK, Answers
  <2>6. ASSUME NEW t \in Threads, Install(t)
        PROVE  token' = newest'
    BY <2>6, Installs DEF Answers, NewestInv, serverVars
  <2>7. ASSUME NEW t \in Threads, RecordFailure(t)
        PROVE  FALSE
    BY <1>3, <2>7, Records
  <2>8. CASE Tick
    BY <1>3, <2>1, <2>8 DEF Tick, TM!Tick, TM!stateVars, Quiet, serverVars
  <2>9. QED
    BY <2>2, <2>3, <2>4, <2>5, <2>6, <2>7, <2>8, StepKinds
<1>4. QED
  BY <1>2, <1>3 DEF NewestInv

\* With no refresh under way and none failed, the newest token is in use.
THEOREM NewestTokenIsInUse == Spec => []TokenIsNewest
<1>1. Init => NewestInv
  BY DEF Init, TM!Init, NewestInv, Answers
<1>2. BaseInv /\ NewestInv /\ [Next]_vars => NewestInv'
  BY NewestStep
<1>3. ASSUME BaseInv, NewestInv
      PROVE  TokenIsNewest
  <2>1. refreshLock = None => \A t \in Threads : pc[t] \notin TM!Holding
    BY <1>3, ManagerFacts, ManagerAssumption
       DEF BaseInv, TM!LockDiscipline, TM!NoneAssumption
  <2>2. QED
    BY <1>3, <2>1 DEF NewestInv, TokenIsNewest, TM!Holding, Answers
<1>4. QED
  BY <1>1, <1>2, <1>3, BaseInvariant, PTL DEF Spec

-----------------------------------------------------------------------------
(* Refused tokens.                                                         *)

\* What a step of the proxy is to one request.
LEMMA RequestKinds ==
  ASSUME BaseInv, [Next]_vars, NEW q \in Requests
  PROVE  \/ Handle(q)
         \/ /\ UNCHANGED <<stage[q], held[q], status[q], answer[q], rejections[q]>>
            /\ disturbed[q] => disturbed'[q]
<1>1. TypeOK
  BY DEF BaseInv
<1>2. ASSUME NEW r \in Requests \ {q}, Handle(r)
      PROVE  UNCHANGED <<stage[q], held[q], status[q], answer[q], rejections[q], disturbed[q]>>
  BY <1>1, <1>2, OthersUntouched
<1>3. ASSUME NEW t \in Threads, RecordFailure(t)
      PROVE  /\ UNCHANGED <<requestVars, rejections>>
             /\ disturbed[q] => disturbed'[q]
  BY <1>3 DEF RecordFailure
<1>4. QED
  BY <1>2, <1>3
     DEF Next, vars, LoopWork, LoopWake, LoopSleep, LoopDies, LoopBack, LoopEnds,
         Stop, Acquire, Work, Answer, Issue, Install, Validate, Fail, Revoke, Tick, Quiet,
         requestVars, historyVars

\* What a request holds it has from the manager.
LEMMA HeldFrom ==
  ASSUME BaseInv, [Next]_vars, NEW q \in Requests
  PROVE  held'[q] \in {held[q], token, None}
<1>1. TypeOK
  BY DEF BaseInv
<1>2. ASSUME NEW v, Finish(q, v) \/ Pick(q, v)
      PROVE  held'[q] \in {token, None}
  BY <1>1, <1>2 DEF TypeOK, Finish, Pick
<1>3. Handle(q) => held'[q] \in {held[q], token, None}
  BY <1>2 DEF Handle, TakeToken, AskForToken, EnsureToken, Forward, ForwardFails,
     Respond, Recover, Replace
<1>4. QED
  BY <1>3, RequestKinds

\* What has been handed out, and what has been installed.
LEMMA TokenFrom ==
  ASSUME BaseInv, [Next]_vars
  PROVE  /\ issued \subseteq issued'
         /\ (\E t \in Threads : Install(t)) \/ UNCHANGED <<token, served>>
  BY StepKinds, Records
     DEF Early, Issue, Validate, Fail, Install, Tick, Quiet, managerVars, serverVars,
         historyVars, TM!Authenticate, TM!Validate, TM!Fail, TM!Tick, TM!stateVars

\* With tokens handed out once, a candidate stays fresh until it is installed.
LEMMA FreshStep ==
  ASSUME ~ Reissue, BaseInv, FreshInv, [Next]_vars
  PROVE  FreshInv'
<1>1. /\ TM!TypeOK /\ issued \subseteq Tokens /\ None \notin Tokens
      /\ issued \subseteq issued'
  BY ManagerFacts, ManagerAssumption, TokenFrom DEF BaseInv, TypeOK, TM!NoneAssumption
<1>2. token' \in issued' \cup {None}
  <2>1. ASSUME NEW t \in Threads, Install(t)
        PROVE  token' \in issued'
    BY <1>1, <2>1, Installs DEF FreshInv, Answers
  <2>2. QED
    BY <1>1, <2>1, TokenFrom DEF FreshInv
<1>3. ASSUME NEW r \in Requests
      PROVE  held'[r] \in issued' \cup {None}
  BY <1>1, HeldFrom DEF FreshInv
<1>4. ASSUME NEW u \in Threads, pc'[u] \in Answers
      PROVE  /\ candidate'[u].token \in issued' \ {token'}
             /\ \A r \in Requests : candidate'[u].token # held'[r]
  <2>1. ASSUME NEW k \in Tokens, NEW e \in Expiries, Issue(u, k, e)
        PROVE  /\ candidate'[u].token \in issued' \ {token'}
               /\ \A r \in Requests : candidate'[u].token # held'[r]
    <3>1. /\ k \notin issued /\ k \in issued' /\ candidate'[u].token = k
          /\ UNCHANGED <<token, held>>
      BY <1>1, <2>1 DEF Issue, TM!Authenticate, TM!AuthResult, TM!TypeOK, TM!stateVars, requestVars
    <3>2. QED
      BY <1>1, <3>1 DEF FreshInv
  <2>2. ASSUME pc[u] \in Answers, candidate'[u] = candidate[u], UNCHANGED <<token, issued>>
        PROVE  /\ candidate'[u].token \in issued' \ {token'}
               /\ \A r \in Requests : candidate'[u].token # held'[r]
    BY <1>1, <2>2, HeldFrom DEF FreshInv
  <2>3. QED
    BY <1>4, <2>1, <2>2, AnswerFrom
<1>5. QED
  BY <1>2, <1>3, <1>4 DEF FreshInv

\* A token that is installed is none that a request holds.
LEMMA InstallsFresh ==
  ASSUME BaseInv, FreshInv, NEW t \in Threads, Install(t), NEW q \in Requests
  PROVE  token' # held[q] /\ held'[q] = held[q] /\ stage'[q] = stage[q]
  BY Installs DEF FreshInv, Answers, requestVars

\* A recovery that returns leaves the request another token than the refused one.
LEMMA RecoveredStep ==
  ASSUME BaseInv, FreshInv, CauseInv, RecoveredInv, [Next]_vars
  PROVE  RecoveredInv'
<1>1. TM!TypeOK /\ TypeOK /\ CallersOK
  BY ManagerFacts DEF BaseInv
<1> SUFFICES ASSUME NEW q \in Requests,
                    stage'[q] = "recovering", pc'[q] = "idle", result'[q] # "raised"
             PROVE  token' # held'[q] \/ disturbed'[q]
  BY DEF RecoveredInv, Returned
<1> DEFINE Recovered == token # held[q] \/ disturbed[q]
<1>2. q \in Threads
  BY DEF Threads
<1>3. ASSUME Handle(q)
      PROVE  FALSE
  <2>1. ASSUME NEW s \in {"done", "ready", "replay", "sent", "resent", "ensuring"}, Goto(q, s)
        PROVE  FALSE
    BY <1>1, <2>1 DEF TypeOK, Goto
  <2>2. ~ Recover(q)
    BY <1>1, <1>2 DEF Recover, TM!Call, TM!TypeOK
  <2>3. QED
    BY <1>3, <2>1, <2>2 DEF Handle, TakeToken, AskForToken, EnsureToken, Forward,
       ForwardFails, Respond, Replace, Pick, Finish
<1>4. /\ stage[q] = "recovering" /\ held'[q] = held[q]
      /\ disturbed[q] => disturbed'[q]
  BY <1>3, RequestKinds
<1>5. ASSUME Recovered, UNCHANGED token
      PROVE  token' # held'[q] \/ disturbed'[q]
  BY <1>4, <1>5
<1>6. ASSUME UNCHANGED <<pc[q], result[q], token>>
      PROVE  token' # held'[q] \/ disturbed'[q]
  BY <1>4, <1>5, <1>6 DEF RecoveredInv, Returned
<1>7. ASSUME NEW t \in Threads, Early(t)
      PROVE  token' # held'[q] \/ disturbed'[q]
  <2>1. CASE t = q
    <3>1. TM!Declined(q) /\ pc[q] # "idle"
      BY <1>7, <2>1 DEF Early
    <3>2. call[q] = TM!RecoverCall(held[q])
      BY <1>1, <1>4, <3>1 DEF CallersOK
    <3>3. token # held[q] \/ lastError
      BY <3>1, <3>2 DEF TM!Declined, TM!RecoverDeclined, TM!RecoverCall
    <3>4. lastError => disturbed[q]
      BY <1>4 DEF CauseInv, CauseKnown, Active
    <3>5. QED
      BY <1>5, <1>7, <3>3, <3>4 DEF Early, TM!stateVars
  <2>2. CASE t # q
    BY <1>1, <1>2, <1>6, <1>7, <2>2 DEF Early, TM!stateVars, TM!TypeOK
  <2>3. QED
    BY <2>1, <2>2
<1>8. ASSUME NEW t \in Threads, NEW p \in TM!Places \ {"idle"}, pc' = [pc EXCEPT ![t] = p],
             UNCHANGED <<token, result>>
      PROVE  token' # held'[q] \/ disturbed'[q]
  BY <1>1, <1>2, <1>6, <1>8 DEF TM!TypeOK
<1>9. ASSUME NEW t \in Threads, NEW k \in Tokens, NEW e \in Expiries, Issue(t, k, e)
      PROVE  token' # held'[q] \/ disturbed'[q]
  BY <1>8, <1>9 DEF Issue, TM!Authenticate, TM!stateVars, TM!Places, TM!Holding
<1>10. ASSUME NEW t \in Threads, Validate(t) \/ Fail(t)
       PROVE  token' # held'[q] \/ disturbed'[q]
  BY <1>8, <1>10 DEF Validate, Fail, TM!Validate, TM!Fail, TM!stateVars, TM!Places, TM!Holding
<1>11. ASSUME NEW t \in Threads, Install(t)
       PROVE  token' # held'[q]
  BY <1>11, InstallsFresh
<1>12. ASSUME NEW t \in Threads, RecordFailure(t)
       PROVE  token' # held'[q] \/ disturbed'[q]
  BY <1>1, <1>2, <1>6, <1>12, Records DEF TM!Return, TM!TypeOK
<1>13. CASE Tick
  BY <1>6, <1>13 DEF Tick, TM!Tick, TM!stateVars
<1>14. CASE UNCHANGED <<managerVars, issued, newest, served>>
  BY <1>6, <1>14 DEF managerVars
<1>15. QED
  BY <1>7, <1>9, <1>10, <1>11, <1>12, <1>13, <1>14, StepKinds

\* Who is on the list of served requests has no use for another refresh.
LEMMA ServedStep ==
  ASSUME BaseInv, FreshInv, ServedInv, [Next]_vars
  PROVE  ServedInv'
<1>1. TypeOK
  BY DEF BaseInv
<1> SUFFICES ASSUME NEW q \in served'
             PROVE  /\ stage'[q] \notin {"new", "ensuring", "ready"}
                    /\ stage'[q] \in {"sent", "recovering"} => token' # held'[q]
  BY DEF ServedInv
<1>2. ASSUME NEW t \in Threads, Install(t)
      PROVE  /\ stage'[q] \notin {"new", "ensuring", "ready"}
             /\ stage'[q] \in {"sent", "recovering"} => token' # held'[q]
  <2>1. q \in Requests /\ (q \in served \/ Refused(q))
    BY <1>1, <1>2, Installs DEF TypeOK
  <2>2. token' # held'[q] /\ stage'[q] = stage[q]
    BY <1>2, <2>1, InstallsFresh
  <2>3. QED
    BY <2>1, <2>2 DEF ServedInv, Refused
<1>3. ASSUME UNCHANGED <<token, served>>
      PROVE  /\ stage'[q] \notin {"new", "ensuring", "ready"}
             /\ stage'[q] \in {"sent", "recovering"} => token' # held'[q]
  <2>1. /\ q \in Requests /\ q \in served
        /\ stage[q] \notin {"new", "ensuring", "ready"}
        /\ stage[q] \in {"sent", "recovering"} => token # held[q]
    BY <1>1, <1>3 DEF TypeOK, ServedInv
  <2>2. ASSUME NEW s \in {"done", "replay", "resent"}, Goto(q, s)
        PROVE  stage'[q] \in {"done", "replay", "resent"}
    BY <1>1, <2>1, <2>2 DEF TypeOK, Goto
  <2>3. ASSUME Recover(q)
        PROVE  /\ stage[q] = "sent" /\ stage'[q] = "recovering" /\ held'[q] = held[q]
    BY <1>1, <2>1, <2>3 DEF TypeOK, Goto, Recover
  <2>4. Handle(q) => \/ stage'[q] \in {"done", "replay", "resent"}
                     \/ Recover(q)
    BY <2>1, <2>2 DEF Handle, TakeToken, AskForToken, EnsureToken, Forward, ForwardFails,
       Respond, Replace, Pick, Finish, Returned
  <2>5. QED
    BY <1>3, <2>1, <2>3, <2>4, RequestKinds
<1>4. QED
  BY <1>2, <1>3, TokenFrom

\* The refusals are counted.
LEMMA RefusalsStep ==
  ASSUME BaseInv, CauseInv, RecoveredInv, RefusalsInv, [Next]_vars
  PROVE  RefusalsInv'
<1> SUFFICES ASSUME NEW q \in Requests PROVE RefusalsKnown(q)'
  BY DEF RefusalsInv
<1>1. /\ TypeOK /\ RequestOK(q) /\ RefusalsKnown(q)
      /\ token \in Tokens \cup {None} /\ None \notin Tokens
  BY ManagerFacts, ManagerAssumption
     DEF BaseInv, RequestsOK, RefusalsInv, TM!TypeOK, TM!NoneAssumption
<1> USE <1>1 DEF TypeOK, RefusalsKnown
<1>2. ASSUME UNCHANGED <<stage[q], held[q], status[q], answer[q], rejections[q]>>,
             disturbed[q] => disturbed'[q]
      PROVE  RefusalsKnown(q)'
  BY <1>2
<1>3. ASSUME NEW v, Finish(q, v), UNCHANGED rejections,
             v = "401" => disturbed'[q] \/ Cardinality(rejections[q]) = 2
      PROVE  RefusalsKnown(q)'
  BY <1>3 DEF Finish, Goto
<1>4. TakeToken(q) => RefusalsKnown(q)'
  BY DEF TakeToken, Pick, Goto, RequestOK
<1>5. AskForToken(q) => RefusalsKnown(q)'
  BY DEF AskForToken, Goto, RequestOK
<1>6. ASSUME EnsureToken(q)
      PROVE  RefusalsKnown(q)'
  <2>1. CASE Pick(q, "ready")
    BY <1>6, <2>1 DEF EnsureToken, Returned, Pick, Goto, RequestOK, historyVars
  <2>2. CASE Finish(q, "error")
    BY <1>3, <1>6, <2>2 DEF EnsureToken, historyVars
  <2>3. QED
    BY <1>6, <2>1, <2>2 DEF EnsureToken
<1>7. ASSUME Forward(q, "ready", "sent")
      PROVE  RefusalsKnown(q)'
  BY <1>7 DEF Forward, Goto, RequestOK
<1>8. ASSUME Forward(q, "replay", "resent")
      PROVE  RefusalsKnown(q)'
  <2>1. PICK k \in Tokens \ {held[q]} : rejections[q] = {k}
    BY <1>8 DEF Forward
  <2>2. /\ stage'[q] = "resent" /\ held'[q] = held[q] /\ answer'[q] = "none"
    BY <1>8 DEF Forward, Goto, RequestOK
  <2>3. status'[q] = "401" => rejections'[q] = {k, held[q]}
    BY <1>8, <2>1 DEF Forward
  <2>4. QED
    BY <2>2, <2>3
<1>9. ForwardFails(q) => RefusalsKnown(q)'
  BY <1>3 DEF ForwardFails
<1>10. ASSUME Respond(q)
       PROVE  RefusalsKnown(q)'
  <2>1. status[q] = "401" => Cardinality(rejections[q]) = 2
    <3>1. ASSUME NEW k \in Tokens \ {held[q]}
          PROVE  Cardinality({k, held[q]}) = 2
      <4>1. IsFiniteSet({held[q]}) /\ Cardinality({held[q]}) = 1
        BY FS_Singleton
      <4>2. Cardinality({held[q]} \cup {k}) = Cardinality({held[q]}) + 1
        BY <4>1, FS_AddElement
      <4>3. {k, held[q]} = {held[q]} \cup {k}
        OBVIOUS
      <4>4. QED
        BY <4>1, <4>2, <4>3
    <3>2. QED
      BY <1>10, <3>1 DEF Respond
  <2>2. QED
    BY <1>3, <1>10, <2>1 DEF Respond, historyVars
<1>11. ASSUME Recover(q)
       PROVE  RefusalsKnown(q)'
  BY <1>11 DEF Recover, Goto, RequestOK, historyVars
<1>12. ASSUME Replace(q)
       PROVE  RefusalsKnown(q)'
  <2>1. /\ stage[q] = "recovering" /\ rejections[q] = {held[q]} /\ held[q] \in Tokens
        /\ token # None /\ answer[q] = "none" /\ UNCHANGED <<rejections, disturbed>>
    BY <1>12 DEF Replace, Returned, RequestOK, historyVars
  <2>2. result[q] # "raised" => token # held[q] \/ disturbed[q]
    BY <1>12 DEF Replace, RecoveredInv
  <2>3. CASE Finish(q, "error")
    BY <1>3, <2>1, <2>3
  <2>4. CASE result[q] # "raised" /\ token \in {None, held[q]} /\ Finish(q, "401")
    BY <1>3, <2>1, <2>2, <2>4
  <2>5. CASE token \notin {None, held[q]} /\ Pick(q, "replay")
    BY <2>1, <2>5 DEF Pick, Goto
  <2>6. QED
    BY <1>12, <2>3, <2>4, <2>5 DEF Replace
<1>13. QED
  BY <1>2, <1>4, <1>5, <1>6, <1>7, <1>8, <1>9, <1>10, <1>11, <1>12, RequestKinds DEF Handle

\* What holds when tokens are handed out once.
OnceInv == CauseInv /\ FreshInv /\ RecoveredInv /\ ServedInv /\ RefusalsInv

\* The five parts together are inductive when no token is issued twice.
LEMMA OnceInvariant ==
  ASSUME ~ Reissue
  PROVE  Spec => []OnceInv
<1>1. Init => OnceInv
  <2>1. ASSUME Init
        PROVE  OnceInv
    <3>1. CauseInv
      BY <2>1 DEF Init, TM!Init, CauseInv, CauseKnown, Active, Returned
    <3>2. FreshInv
      BY <2>1 DEF Init, TM!Init, FreshInv, Answers
    <3>3. RecoveredInv /\ ServedInv
      BY <2>1 DEF Init, RecoveredInv, ServedInv, Returned
    <3>4. RefusalsInv
      BY <2>1 DEF Init, RefusalsInv, RefusalsKnown
    <3>5. QED
      BY <3>1, <3>2, <3>3, <3>4 DEF OnceInv
  <2>2. QED
    BY <2>1
<1>2. BaseInv /\ OnceInv /\ [Next]_vars => OnceInv'
  BY CauseStep, FreshStep, RecoveredStep, ServedStep, RefusalsStep DEF OnceInv
<1>3. QED
  BY <1>1, <1>2, BaseInvariant, PTL DEF Spec

\* When the endpoint does not hand out a token twice, concurrent refusals of one
\* token lead to one authentication.
THEOREM OneRefreshForAllRefusals ==
  ASSUME ~ Reissue
  PROVE  Spec => []NoStampede
<1>1. ASSUME BaseInv, OnceInv
      PROVE  NoStampede
  <2>1. ASSUME NEW r \in served, stage[r] = "recovering", pc[r] \in TM!Refreshing
        PROVE  FALSE
    <3>1. r \in Requests /\ r \in Threads /\ pc[r] # "idle"
      BY <1>1, <2>1 DEF BaseInv, TypeOK, Threads, TM!Refreshing, TM!Holding
    <3>2. call[r] = TM!RecoverCall(held[r])
      BY <1>1, <2>1, <3>1 DEF BaseInv, CallersOK
    <3>3. token = held[r]
      BY <1>1, <2>1, <3>1, <3>2, ManagerFacts
         DEF BaseInv, TM!RecoveryReplacesOnlyRejected, TM!RecoverCall
    <3>4. QED
      BY <1>1, <2>1, <3>3 DEF OnceInv, ServedInv
  <2>2. QED
    BY <2>1 DEF NoStampede
<1>2. QED
  BY <1>1, BaseInvariant, OnceInvariant, PTL

\* And then a client sees a 401 only of a request that two tokens were refused to.
THEOREM OneRefusalIsRecovered ==
  ASSUME ~ Reissue
  PROVE  Spec => []RefusalIsRecovered
<1>1. OnceInv => RefusalIsRecovered
  BY DEF OnceInv, RefusalsInv, RefusalsKnown, RefusalIsRecovered
<1>2. QED
  BY <1>1, OnceInvariant, PTL

-----------------------------------------------------------------------------
(* The background thread's schedule.                                       *)

\* The delay that _compute_refresh_delay returns.
LEMMA DelayIsSpan ==
  ASSUME NEW e \in Expiries
  PROVE  TM!ComputeRefreshDelay(e) \in Spans
<1>1. /\ Fallback \in Spans /\ Margin \in Spans /\ MinInterval \in Spans
      /\ e # None => e \in Spans
  BY ManagerAssumption, SameFloats DEF TM!ConfigAssumption
<1>2. e # None => Minus(e, Margin) \in Spans
  BY <1>1, FloatAssumption DEF Minus, Spans
<1>3. QED
  BY <1>1, <1>2, SameFloats DEF TM!ComputeRefreshDelay

\* The date of the next refresh is the one that the last success set.
LEMMA ScheduledStep ==
  ASSUME BaseInv, ScheduledInv, [Next]_vars
  PROVE  ScheduledInv'
<1>1. /\ TM!TypeOK /\ \A t \in Threads : clock[t] <= now
      /\ token # None => token' # None
  BY ManagerFacts, TokenStays DEF BaseInv
<1> USE <1>1 DEF TM!TypeOK
<1>2. ASSUME NEW u \in Threads, pc'[u] \in Answers
      PROVE  candidate'[u].expires \in Expiries
  <2>1. ASSUME NEW k \in Tokens, NEW e \in Expiries, Issue(u, k, e)
        PROVE  candidate'[u].expires \in Expiries
    BY <2>1 DEF Issue, TM!Authenticate, TM!AuthResult
  <2>2. QED
    BY <1>2, <2>1, AnswerFrom DEF ScheduledInv
<1>3. \/ UNCHANGED <<token, lastSuccess, nextRefresh>> /\ now' \in {now, now + 1}
      \/ \E t \in Threads : Install(t)
  BY StepKinds, Records
     DEF Early, Issue, Validate, Fail, Install, Tick, Quiet, managerVars,
         TM!Authenticate, TM!Validate, TM!Fail, TM!Tick, TM!stateVars
<1>4. ASSUME NEW t \in Threads, Install(t)
      PROVE  /\ token' # None
             /\ lastSuccess' \in Nat /\ lastSuccess' <= now'
             /\ \E e \in Expiries : nextRefresh' = Plus(lastSuccess', TM!ComputeRefreshDelay(e))
             /\ \A u \in Threads : pc'[u] # "installing"
  <2>1. /\ pc[t] = "installing" /\ token' \in Tokens /\ lastSuccess' = clock[t]
        /\ nextRefresh' = Plus(clock[t], TM!ComputeRefreshDelay(candidate[t].expires))
        /\ UNCHANGED now /\ pc' = [pc EXCEPT ![t] = "idle"]
    BY <1>4, Installs
  <2>2. candidate[t].expires \in Expiries
    BY <2>1 DEF ScheduledInv, Answers
  <2>3. \A u \in Threads : pc'[u] # "installing"
    BY <2>1, OneHolder DEF TM!Holding
  <2>4. QED
    BY <2>1, <2>2, <2>3, ManagerAssumption DEF TM!NoneAssumption
<1>5. ASSUME UNCHANGED <<token, lastSuccess, nextRefresh>>, now' \in {now, now + 1}
      PROVE  /\ token' = None => nextRefresh' = 0
             /\ token' # None =>
                  /\ lastSuccess' \in Nat /\ lastSuccess' <= now'
                  /\ \E e \in Expiries : nextRefresh' = Plus(lastSuccess', TM!ComputeRefreshDelay(e))
  <2>1. CASE token = None
    BY <1>5, <2>1 DEF ScheduledInv
  <2>2. CASE token # None
    <3>1. lastSuccess \in Nat /\ lastSuccess <= now
      BY <2>2 DEF ScheduledInv
    <3>2. lastSuccess <= now'
      BY <1>5, <3>1
    <3>3. QED
      BY <1>5, <2>2, <3>1, <3>2 DEF ScheduledInv
  <2>3. QED
    BY <2>1, <2>2
<1>6. ASSUME NEW u \in Threads, pc'[u] = "installing", token' # None,
             UNCHANGED <<token, lastSuccess>>
      PROVE  lastSuccess' <= clock'[u]
  <2>1. token # None /\ lastSuccess \in Nat /\ lastSuccess <= now
    BY <1>6 DEF ScheduledInv
  <2>2. ASSUME pc[u] = "installing", clock'[u] = clock[u]
        PROVE  lastSuccess' <= clock'[u]
    BY <1>6, <2>1, <2>2 DEF ScheduledInv
  <2>3. ASSUME NEW t \in Threads, NEW p, p # "installing", pc' = [pc EXCEPT ![t] = p]
        PROVE  u # t /\ pc[u] = "installing"
    BY <1>6, <2>3
  <2>4. ASSUME NEW t \in Threads, Early(t)
        PROVE  pc[u] = "installing" /\ clock'[u] = clock[u]
    BY <2>3, <2>4 DEF Early
  <2>5. ASSUME NEW t \in Threads, NEW k \in Tokens, NEW e \in Expiries, Issue(t, k, e)
        PROVE  pc[u] = "installing" /\ clock'[u] = clock[u]
    BY <2>3, <2>5 DEF Issue, TM!Authenticate
  <2>6. ASSUME NEW t \in Threads, Validate(t)
        PROVE  lastSuccess' <= clock'[u]
    <3>1. CASE t = u
      BY <1>6, <2>1, <2>6, <3>1 DEF Validate, TM!Validate
    <3>2. CASE t # u
      BY <1>6, <2>2, <2>6, <3>2 DEF Validate, TM!Validate
    <3>3. QED
      BY <3>1, <3>2
  <2>7. ASSUME NEW t \in Threads, Fail(t)
        PROVE  pc[u] = "installing" /\ clock'[u] = clock[u]
    BY <2>3, <2>7 DEF Fail, TM!Fail
  <2>8. ASSUME NEW t \in Threads, Install(t) \/ RecordFailure(t)
        PROVE  pc[u] = "installing" /\ clock'[u] = clock[u]
    <3>1. pc' = [pc EXCEPT ![t] = "idle"] /\ clock' = [clock EXCEPT ![t] = 0]
      BY <2>8 DEF Install, TM!Install, RecordFailure, TM!RecordFailure, TM!Return
    <3>2. QED
      BY <2>3, <3>1
  <2>9. UNCHANGED managerVars \/ Tick => pc[u] = "installing" /\ clock'[u] = clock[u]
    BY <1>6 DEF managerVars, Tick, TM!Tick, TM!localVars
  <2>10. QED
    BY <2>2, <2>4, <2>5, <2>6, <2>7, <2>8, <2>9, StepKinds DEF managerVars
<1>7. QED
  BY <1>2, <1>3, <1>4, <1>5, <1>6 DEF ScheduledInv

\* When all tokens come with lifetimes that give the same delay, no refresh
\* brings the date of the next one forward.
OneDelay ==
  \A e, f \in Expiries : TM!ComputeRefreshDelay(e) = TM!ComputeRefreshDelay(f)

\* A refresh that succeeds never sets the date of the next one to an earlier
\* time, and never makes a number of a NaN or the other way round.
LEMMA DateNotBroughtForward ==
  ASSUME OneDelay, BaseInv, ScheduledInv, NEW t \in Threads, Install(t)
  PROVE  \/ nextRefresh = 0
         \/ (nextRefresh' = NaN <=> nextRefresh = NaN) /\ ~ Less(nextRefresh', nextRefresh)
<1>1. clock[t] \in Nat
  BY ManagerFacts DEF BaseInv, TM!TypeOK
<1>2. PICK e \in Expiries : nextRefresh' = Plus(clock[t], TM!ComputeRefreshDelay(e))
  BY Installs DEF ScheduledInv, Answers
<1>3. TM!ComputeRefreshDelay(e) \in Spans
  BY DelayIsSpan
<1>4. CASE token = None
  BY <1>4 DEF ScheduledInv
<1>5. CASE token # None
  <2>1. /\ lastSuccess \in Nat /\ lastSuccess <= clock[t]
        /\ \E f \in Expiries : nextRefresh = Plus(lastSuccess, TM!ComputeRefreshDelay(f))
    BY <1>5, Installs DEF ScheduledInv
  <2>2. nextRefresh = Plus(lastSuccess, TM!ComputeRefreshDelay(e))
    BY <2>1 DEF OneDelay
  <2>3. QED
    BY <1>1, <1>2, <1>3, <2>1, <2>2, FloatAssumption DEF Plus, Less, Spans
<1>6. QED
  BY <1>4, <1>5

\* What a step of the proxy is to the background thread that waits.
LEMMA LoopKinds ==
  ASSUME BaseInv, [Next]_vars, loop' = "waiting"
  PROVE  \/ LoopSleep
         \/ loop = "waiting" /\ UNCHANGED <<wakeAt, result[Loop]>>
<1>1. /\ TM!TypeOK /\ TypeOK /\ CallersOK /\ Loop \notin Requests /\ Loop \in Threads
  BY ManagerFacts, ProxyAssumption DEF BaseInv, Threads
<1>2. UNCHANGED loopVars \/ Stop \/ LoopSleep
  <2>1. ~ LoopWake /\ ~ LoopDies /\ ~ LoopEnds
    BY DEF LoopWake, LoopDies, LoopEnds
  <2>2. ASSUME NEW r \in Requests, Handle(r)
        PROVE  UNCHANGED loopVars
    BY <2>2 DEF Handle, TakeToken, AskForToken, EnsureToken, Forward, ForwardFails,
       Respond, Recover, Replace
  <2>3. QED
    BY <2>1, <2>2 DEF Next, vars, LoopWork, Acquire, Work, Answer, Issue, Validate, Fail,
       Install, RecordFailure, Revoke, Tick, Quiet
<1>3. ASSUME loop = "waiting", ~ LoopSleep
      PROVE  UNCHANGED result[Loop]
  <2>1. pc[Loop] = "idle" /\ loop' # "refreshing"
    BY <1>1, <1>3 DEF CallersOK
  <2>2. ASSUME NEW t \in Threads, NEW v, pc[t] # "idle" \/ t \in Requests,
               result' = [result EXCEPT ![t] = v]
        PROVE  UNCHANGED result[Loop]
    BY <1>1, <2>1, <2>2 DEF TM!TypeOK
  <2>3. ASSUME NEW r \in Requests, Handle(r)
        PROVE  UNCHANGED result[Loop]
    BY <2>2, <2>3 DEF Threads, Handle, TakeToken, AskForToken, EnsureToken, Forward,
       ForwardFails, Respond, Recover, Replace, managerVars, TM!Call
  <2>4. LoopWork \/ Stop => UNCHANGED result[Loop]
    BY <2>1 DEF LoopWork, LoopWake, LoopSleep, LoopDies, LoopBack, LoopEnds, Stop, managerVars
  <2>5. ASSUME NEW t \in Threads, Acquire(t) \/ Work(t) \/ Answer(t)
        PROVE  UNCHANGED result[Loop]
    <3>1. ASSUME NEW v, pc[t] # "idle", TM!Return(t, v)
          PROVE  UNCHANGED result[Loop]
      BY <2>2, <3>1 DEF TM!Return
    <3>2. (TM!Decline(t) /\ Quiet) \/ Install(t) \/ RecordFailure(t) => UNCHANGED result[Loop]
      BY <3>1 DEF TM!Decline, Install, TM!Install, RecordFailure, TM!RecordFailure
    <3>3. Acquire(t) \/ (TM!Proceed(t) /\ Quiet) \/ Answer(t) => UNCHANGED result[Loop]
      BY DEF Acquire, Answer, Issue, Validate, Fail, TM!Acquire, TM!Proceed,
         TM!Authenticate, TM!Validate, TM!Fail
    <3>4. QED
      BY <2>5, <3>2, <3>3 DEF Work
  <2>6. QED
    BY <2>3, <2>4, <2>5 DEF Next, vars, Revoke, Tick, TM!Tick, managerVars
<1>4. QED
  BY <1>2, <1>3 DEF Stop, loopVars

\* The wait ends by the date of the next refresh or soon, whoever sets the date.
LEMMA WakeStep ==
  ASSUME OneDelay, BaseInv, ScheduledInv, WakeInv, [Next]_vars
  PROVE  WakeInv'
<1>1. /\ now \in Nat /\ nextRefresh \in Spans /\ wakeAt \in Nat
      /\ Retry \in Spans /\ MinInterval \in Spans
  BY TimeTypes
<1>2. now' \in {now, now + 1}
  BY StepKinds DEF managerVars, Early, Issue, Validate, Fail, Install, RecordFailure, Tick,
     TM!Authenticate, TM!Validate, TM!Fail, TM!Install, TM!RecordFailure, TM!Tick
<1>3. \/ nextRefresh = 0
      \/ (nextRefresh' = NaN <=> nextRefresh = NaN) /\ ~ Less(nextRefresh', nextRefresh)
  <2>1. ASSUME UNCHANGED nextRefresh
        PROVE  ~ Less(nextRefresh', nextRefresh)
    BY <1>1, <2>1, FloatAssumption DEF Less, Spans
  <2>2. UNCHANGED nextRefresh \/ \E t \in Threads : Install(t)
    BY StepKinds, Records DEF Early, Issue, Validate, Fail, Tick, managerVars,
       TM!Authenticate, TM!Validate, TM!Fail, TM!Tick, TM!stateVars
  <2>3. QED
    BY <2>1, <2>2, DateNotBroughtForward
<1>4. nextRefresh' \in Spans
  BY ManagerStepOfProxy, SameFloats DEF P!ManagerInv, P!TypeInv, P!TypeOK
<1> SUFFICES ASSUME loop' = "waiting"
             PROVE  \/ nextRefresh' # NaN /\ ~ Less(nextRefresh', wakeAt')
                    \/ ~ Less(Soon', wakeAt')
  BY DEF WakeInv
<1>5. CASE LoopSleep
  <2>1. /\ wakeAt' = now + (IF LoopDelay = NaN THEN 0 ELSE LoopDelay)
        /\ UNCHANGED <<now, nextRefresh, result>>
        /\ result[Loop] \in Outcomes /\ ~ Less(TimeoutMax, LoopDelay)
    BY <1>5 DEF LoopSleep, LoopBack, managerVars, BaseInv, CallersOK
  <2>2. LoopDelay \in Nat \cup {NaN}
    BY <2>1, DelayOfLoop, FloatAssumption, ProxyAssumption DEF Less, Spans
  <2>3. ASSUME NEW m \in Spans, LoopDelay = m
        PROVE  ~ Less(Plus(now, m), wakeAt')
    BY <1>1, <2>1, <2>2, <2>3, FloatAssumption DEF Less, Plus, Spans
  <2>4. ASSUME LoopDelay = SecondsUntilRefresh
        PROVE  \/ nextRefresh # NaN /\ ~ Less(nextRefresh, wakeAt')
               \/ wakeAt' <= now
    BY <1>1, <2>1, <2>2, <2>4, FloatAssumption DEF SecondsUntilRefresh, Minus, Less, Spans
  <2>5. ASSUME wakeAt' <= now
        PROVE  ~ Less(Soon', wakeAt')
    BY <1>1, <2>1, <2>2, <2>5, FloatAssumption DEF Soon, Less, Plus, Spans
  <2>6. CASE LoopDelay = SecondsUntilRefresh
    BY <2>1, <2>4, <2>5, <2>6
  <2>7. CASE result[Loop] # "raised" /\ LoopDelay = MinInterval
    BY <1>1, <2>1, <2>3, <2>7 DEF Soon
  <2>8. CASE result[Loop] = "raised" /\ LoopDelay = Retry
    BY <1>1, <2>1, <2>3, <2>8 DEF Soon
  <2>9. QED
    BY <2>1, <2>6, <2>7, <2>8 DEF LoopDelay, Outcomes
<1>6. CASE loop = "waiting" /\ UNCHANGED <<wakeAt, result[Loop]>>
  <2>1. ASSUME wakeAt <= now \/ ~ Less(Soon, wakeAt)
        PROVE  ~ Less(Soon', wakeAt')
    BY <1>1, <1>2, <1>6, <2>1, FloatAssumption DEF Soon, Less, Plus, Spans
  <2>2. ASSUME nextRefresh # NaN, ~ Less(nextRefresh, wakeAt), nextRefresh = 0
        PROVE  wakeAt <= now
    BY <1>1, <2>2, FloatAssumption DEF Less
  <2>3. ASSUME nextRefresh # NaN, ~ Less(nextRefresh, wakeAt), nextRefresh # 0
        PROVE  nextRefresh' # NaN /\ ~ Less(nextRefresh', wakeAt')
    BY <1>1, <1>3, <1>4, <1>6, <2>3, FloatAssumption DEF Less, Spans
  <2>4. QED
    BY <1>6, <2>1, <2>2, <2>3 DEF WakeInv
<1>7. QED
  BY <1>5, <1>6, LoopKinds

\* When the lifetimes of all tokens give one delay, the background thread wakes
\* up in time, whichever thread refreshed last.
THEOREM LoopWakesInTime ==
  ASSUME OneDelay
  PROVE  Spec => []RefreshedInTime
<1>1. Init => ScheduledInv /\ WakeInv
  <2>1. ASSUME Init
        PROVE  ScheduledInv /\ WakeInv
    <3>1. ScheduledInv
      BY <2>1 DEF Init, TM!Init, ScheduledInv, Answers
    <3>2. nextRefresh # NaN /\ ~ Less(nextRefresh, wakeAt)
      BY <2>1, FloatAssumption DEF Init, TM!Init, Less
    <3>3. QED
      BY <3>1, <3>2 DEF WakeInv
  <2>2. QED
    BY <2>1
<1>2. BaseInv /\ ScheduledInv /\ WakeInv /\ [Next]_vars => ScheduledInv' /\ WakeInv'
  BY ScheduledStep, WakeStep
<1>3. ASSUME BaseInv, WakeInv
      PROVE  RefreshedInTime
  <2>1. /\ now \in Nat /\ nextRefresh \in Spans /\ wakeAt \in Nat
        /\ Retry \in Spans /\ MinInterval \in Spans
    BY <1>3, TimeTypes
  <2>2. ASSUME nextRefresh # NaN, ~ Less(nextRefresh, wakeAt), ~ Less(now, nextRefresh)
        PROVE  ~ Less(Soon, wakeAt)
    BY <2>1, <2>2, FloatAssumption DEF Soon, Less, Plus, Spans
  <2>3. QED
    BY <1>3, <2>2 DEF WakeInv, RefreshedInTime, Soon
<1>4. QED
  BY <1>1, <1>2, <1>3, BaseInvariant, PTL DEF Spec

-----------------------------------------------------------------------------
\* The manager implements RefreshContract under these callers too: whatever the
\* requests and the background thread ask for, and however they interleave,
\* refreshes are serial, each has a cause that holds when it begins, and only a
\* validated candidate replaces the token in use.
THEOREM ProxyImplementsContract == Spec => P!ImplementsContract
<1>1. P!FloatAssumption /\ P!ConfigAssumption /\ P!NoneAssumption /\ P!BoundAssumption
  BY ManagerAssumption, SameFloats
     DEF P!FloatAssumption, P!ConfigAssumption, P!NoneAssumption, P!BoundAssumption,
         TM!ConfigAssumption, TM!NoneAssumption, TM!BoundAssumption
<1>2. Init => P!Contract!Init
  <2>1. P!Init => P!Contract!Init
    BY <1>1, P!ContractInit
       DEF P!ContractInit, P!FloatAssumption, P!ConfigAssumption, P!NoneAssumption, P!BoundAssumption
  <2>2. Init => P!Init
    BY DEF Init, TM!Init, P!Init, TM!NoCall, P!NoCall, TM!NoCandidate, P!NoCandidate,
       TM!AuthResult, P!AuthResult
  <2>3. QED
    BY <2>1, <2>2
<1>3. BaseInv /\ [Next]_vars => [P!Contract!Next]_P!Contract!vars
  <2>1. BaseInv /\ [Next]_vars => P!TypeInv /\ P!LockDiscipline /\ P!PolicyInv /\ P!ManagerStep
    BY StepOfManager DEF BaseInv, P!ManagerInv
  <2>2. P!TypeInv /\ P!LockDiscipline /\ P!PolicyInv /\ P!ManagerStep
          => [P!Contract!Next]_P!Contract!vars
    BY <1>1, P!ContractStep
       DEF P!ContractStep, P!FloatAssumption, P!ConfigAssumption, P!NoneAssumption, P!BoundAssumption
  <2>3. QED
    BY <2>1, <2>2
<1>4. QED
  BY <1>2, <1>3, BaseInvariant, PTL DEF Spec, P!ImplementsContract, P!Contract!Spec
=============================================================================
