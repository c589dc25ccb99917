------------------------- MODULE TokenManagerProofs -------------------------
(***************************************************************************)
(* Proofs about TokenManager for any number of threads and tokens, any     *)
(* lifetimes, NaN and infinity among them, and any configuration that      *)
(* _runtime_config accepts.                                                *)
(***************************************************************************)
EXTENDS TokenManagerContract, TLAPS

-----------------------------------------------------------------------------
\* What the callers of the manager may make it do: a step of Next without the
\* bound on the calls, which the lemmas do not need, or none.
ManagerStep ==
  \/ \E t \in Threads :
       (\E c \in Calls : Call(t, c)) \/ Acquire(t) \/ Work(t) \/ Answer(t)
  \/ Tick
  \/ UNCHANGED vars

\* A step of the manager is one of them.
LEMMA NextIsManagerStep == [Next]_vars => ManagerStep
  BY DEF Next, ManagerStep

-----------------------------------------------------------------------------
(* Types.                                                                  *)

\* What TypeOK needs to be inductive: a thread inside the manager is making
\* one of the two calls, and a thread that has an answer has a token.
LocalsOK ==
  \A t \in Threads :
    /\ pc[t] # "idle" => call[t] \in Calls
    /\ pc[t] \in {"validating", "installing"} => candidate[t].token \in Tokens

TypeInv == TypeOK /\ LocalsOK

\* A date some span after a moment is a date.
LEMMA SumIsSpan ==
  ASSUME NEW x \in Spans, NEW y \in Spans
  PROVE  Plus(x, y) \in Spans
  BY FloatAssumption DEF Plus, Spans

\* So is what is left of a span.
LEMMA RestIsSpan ==
  ASSUME NEW x \in Spans, NEW y \in Spans
  PROVE  Minus(x, y) \in Spans
  BY FloatAssumption DEF Minus, Spans

\* A later end means a later date.
LEMMA SumKeepsOrder ==
  ASSUME NEW c \in Nat, NEW x \in Spans, NEW y \in Spans, ~ Less(x, y)
  PROVE  ~ Less(Plus(c, x), Plus(c, y))
  BY FloatAssumption DEF Less, Plus, Spans

\* A date that has come stays so.
LEMMA TimePasses ==
  ASSUME NEW n \in Nat, NEW d \in Spans, ~ Less(n, d)
  PROVE  ~ Less(n + 1, d)
  BY FloatAssumption DEF Less, Spans

\* Who has passed a date has passed what comes before it, if it is a number.
LEMMA PassedEarlier ==
  ASSUME NEW n \in Nat, NEW d \in Spans, NEW e \in Spans,
         ~ Less(n, d), ~ Less(d, e), d # NaN
  PROVE  ~ Less(n, e)
  BY FloatAssumption DEF Less, Spans

\* The delay that _compute_refresh_delay returns is not below the minimum
\* interval, for every lifetime that _coerce_expires_in lets through: where a
\* NaN is involved it may be NaN, which is below nothing.
LEMMA DelayAtLeastMinInterval ==
  ASSUME NEW e \in Expiries \cup {None}
  PROVE  /\ ComputeRefreshDelay(e) \in Spans
         /\ ~ Less(ComputeRefreshDelay(e), MinInterval)
<1> DEFINE planned == IF e = None THEN Fallback ELSE Minus(e, Margin)
<1>1. MinInterval \in Spans /\ planned \in Spans
  BY ConfigAssumption, RestIsSpan
<1>2. ~ Less(MinInterval, MinInterval)
  BY <1>1, FloatAssumption DEF Less, Spans
<1>3. ComputeRefreshDelay(e) = IF planned = 0 \/ Less(planned, MinInterval)
                               THEN MinInterval ELSE planned
  BY DEF ComputeRefreshDelay
<1>4. QED
  BY <1>1, <1>2, <1>3

\* One step of a thread or of the clock keeps the types.
LEMMA TypeStep ==
  ASSUME TypeInv, ManagerStep
  PROVE  TypeInv'
<1> USE ConfigAssumption, NoneAssumption
<1> USE DEF TypeInv, TypeOK, LocalsOK, Places, Holding
<1>1. ASSUME NEW t \in Threads, NEW c \in Calls, Call(t, c)
      PROVE  TypeInv'
  BY <1>1 DEF Call, stateVars
<1>2. ASSUME NEW t \in Threads, Acquire(t)
      PROVE  TypeInv'
  BY <1>2 DEF Acquire, stateVars
<1>3. ASSUME NEW t \in Threads, Decline(t)
      PROVE  TypeInv'
  BY <1>3 DEF Decline, Return, stateVars, NoCandidate, AuthResult
<1>4. ASSUME NEW t \in Threads, Proceed(t)
      PROVE  TypeInv'
  BY <1>4 DEF Proceed, stateVars, localVars
<1>5. ASSUME NEW t \in Threads, NEW k \in Tokens, NEW e \in Expiries,
             Authenticate(t, k, e)
      PROVE  TypeInv'
  BY <1>5 DEF Authenticate, stateVars, AuthResult
<1>6. ASSUME NEW t \in Threads, Fail(t)
      PROVE  TypeInv'
  BY <1>6 DEF Fail, stateVars
<1>7. ASSUME NEW t \in Threads, Validate(t)
      PROVE  TypeInv'
  BY <1>7 DEF Validate, stateVars
<1>8. ASSUME NEW t \in Threads, Install(t)
      PROVE  TypeInv'
  <2>1. candidate[t].expires \in Expiries \cup {None} /\ candidate[t].token \in Tokens
    BY <1>8 DEF Install
  <2>2. nextRefresh' \in Spans /\ nextAttempt' \in Spans
    <3>1. /\ ComputeRefreshDelay(candidate[t].expires) \in Spans
          /\ clock[t] \in Spans
      BY <2>1, DelayAtLeastMinInterval DEF Spans
    <3>2. QED
      BY <1>8, <3>1, SumIsSpan DEF Install
  <2>3. QED
    BY <1>8, <2>1, <2>2 DEF Install, Return, NoCandidate, AuthResult
<1>9. ASSUME NEW t \in Threads, RecordFailure(t)
      PROVE  TypeInv'
  <2>1. clock[t] \in Spans /\ Retry \in Spans
    BY DEF Spans
  <2>2. nextAttempt' \in Spans
    BY <1>9, <2>1, SumIsSpan DEF RecordFailure
  <2>3. QED
    BY <1>9, <2>2 DEF RecordFailure, Return, NoCandidate, AuthResult
<1>10. CASE Tick
  BY <1>10 DEF Tick, stateVars, localVars
<1>11. CASE UNCHANGED vars
  BY <1>11 DEF vars, stateVars, localVars
<1>12. QED
  BY <1>1, <1>2, <1>3, <1>4, <1>5, <1>6, <1>7, <1>8, <1>9, <1>10, <1>11
     DEF ManagerStep, Work, Answer

\* The initial state has the types.
LEMMA TypeInit == Init => TypeInv
<1> SUFFICES ASSUME Init PROVE TypeInv
  OBVIOUS
<1>1. /\ candidate \in [Threads -> [token : Tokens \cup {None}, expires : Expiries \cup {None}]]
      /\ call \in [Threads -> Calls \cup {NoCall}]
      /\ pc \in [Threads -> Places]
      /\ \A t \in Threads : pc[t] = "idle"
  BY DEF Init, Places, NoCandidate, AuthResult
<1>2. TypeOK
  BY <1>1 DEF Init, TypeOK, Spans
<1>3. QED
  BY <1>1, <1>2 DEF TypeInv, LocalsOK

\* The types hold throughout.
LEMMA TypeInvariant == Spec => []TypeInv
<1>1. Init => TypeInv
  BY TypeInit
<1>2. TypeInv /\ [Next]_vars => TypeInv'
  BY TypeStep, NextIsManagerStep
<1>3. QED
  BY <1>1, <1>2, PTL DEF Spec

\* Every variable keeps its type in every reachable state.
THEOREM TypeCorrect == Spec => []TypeOK
<1>1. TypeInv => TypeOK
  BY DEF TypeInv
<1>2. QED
  BY <1>1, TypeInvariant, PTL

-----------------------------------------------------------------------------
(* The refresh lock.                                                       *)

\* Two threads are never inside together.
LEMMA OneHolder ==
  ASSUME LockDiscipline, NEW t \in Threads, NEW u \in Threads,
         pc[t] \in Holding, pc[u] \in Holding
  PROVE  t = u
  BY DEF LockDiscipline

\* A call that returns leaves nobody inside.
LEMMA ReturnEmpties ==
  ASSUME TypeInv, LockDiscipline, NEW t \in Threads, NEW v,
         pc[t] \in Holding, Return(t, v)
  PROVE  \A u \in Threads : pc'[u] \notin Holding /\ refreshLock' # u
  BY NoneAssumption DEF TypeInv, TypeOK, LockDiscipline, Return, Holding

\* One step of a thread keeps the lock with the thread that is inside.
LEMMA LockStep ==
  ASSUME TypeInv, LockDiscipline, ManagerStep
  PROVE  LockDiscipline'
<1> USE DEF TypeInv, TypeOK
<1>1. ASSUME NEW t \in Threads, NEW c \in Calls, Call(t, c)
      PROVE  LockDiscipline'
  BY <1>1 DEF Call, LockDiscipline, Holding
<1>2. ASSUME NEW t \in Threads, Acquire(t)
      PROVE  LockDiscipline'
  BY <1>2, NoneAssumption DEF Acquire, LockDiscipline, Holding
<1>3. ASSUME NEW t \in Threads, NEW v, pc[t] \in Holding, Return(t, v)
      PROVE  LockDiscipline'
  BY <1>3, ReturnEmpties DEF LockDiscipline
<1>4. ASSUME NEW t \in Threads, Decline(t) \/ Install(t) \/ RecordFailure(t)
      PROVE  LockDiscipline'
  BY <1>3, <1>4 DEF Decline, Install, RecordFailure, Holding
<1>5. ASSUME NEW t \in Threads, Proceed(t) \/ Fail(t) \/ Validate(t)
      PROVE  LockDiscipline'
  BY <1>5 DEF Proceed, Fail, Validate, LockDiscipline, Holding
<1>6. ASSUME NEW t \in Threads, NEW k \in Tokens, NEW e \in Expiries,
             Authenticate(t, k, e)
      PROVE  LockDiscipline'
  BY <1>6 DEF Authenticate, LockDiscipline, Holding
<1>7. CASE Tick \/ UNCHANGED vars
  BY <1>7 DEF Tick, vars, LockDiscipline
<1>8. QED
  BY <1>1, <1>2, <1>4, <1>5, <1>6, <1>7 DEF ManagerStep, Work, Answer

\* At the start nobody is inside.
LEMMA LockInit == Init => LockDiscipline
  BY NoneAssumption DEF Init, LockDiscipline, Holding

\* _refresh_lock is held exactly by the thread inside the with block: at most
\* one authentication is under way, in every reachable state.
THEOREM MutualExclusion == Spec => []LockDiscipline
<1>1. Init => LockDiscipline
  BY LockInit
<1>2. TypeInv /\ LockDiscipline /\ [Next]_vars => LockDiscipline'
  BY LockStep, NextIsManagerStep
<1>3. QED
  BY <1>1, <1>2, TypeInvariant, PTL DEF Spec

-----------------------------------------------------------------------------
(* When a refresh may be under way.                                        *)

\* Clock readings are of the past.
ClockPast == \A t \in Threads : clock[t] <= now

\* The next scheduled refresh is not less than the minimum interval after the
\* last success.
ScheduleInv ==
  token # None => /\ lastSuccess \in Nat
                  /\ ~ Less(nextRefresh, Plus(lastSuccess, MinInterval))

\* The reasons for which a refresh is under way, which the decision of its
\* thread established and which nobody else can take away: only the thread that
\* holds the lock changes the token and the schedule.
ReasonsHold ==
  /\ RecoveryReplacesOnlyRejected
  /\ ScheduledRefreshSpacing
  /\ BackoffHonoured

PolicyInv == ClockPast /\ ScheduleInv /\ ReasonsHold

\* The thread that decides to refresh has a reason.
LEMMA ProceedHasReason ==
  ASSUME TypeInv, PolicyInv, NEW t \in Threads, Proceed(t)
  PROVE  /\ call[t].op = "recover" => token = call[t].rejected
         /\ call[t].op = "refresh" /\ ~ call[t].force /\ token # None
              => /\ ~ Less(now, nextRefresh)
                 /\ nextRefresh = NaN \/ ~ Less(now, Plus(lastSuccess, MinInterval))
         /\ ~ call[t].force /\ lastError => ~ Less(now, nextAttempt)
<1>1. /\ call[t] \in Calls
      /\ now \in Nat /\ clock[t] \in Nat /\ clock[t] <= now
      /\ nextRefresh \in Spans /\ nextAttempt \in Spans
  BY DEF TypeInv, TypeOK, LocalsOK, Proceed, PolicyInv, ClockPast
<1>2. call[t].op \in {"refresh", "recover"}
  BY <1>1 DEF Calls, RefreshCall, RecoverCall
<1>3. ASSUME call[t].op = "recover"
      PROVE  ~ RecoverDeclined(t)
  BY <1>3 DEF Proceed, Declined
<1>4. ASSUME call[t].op = "refresh"
      PROVE  ~ RefreshDeclined(t)
  BY <1>4 DEF Proceed, Declined
<1>5. ASSUME NEW d \in Spans, ~ Less(clock[t], d)
      PROVE  ~ Less(now, d)
  BY <1>1, <1>5, FloatAssumption DEF Less, Spans
<1>6. ASSUME call[t].op = "refresh", ~ call[t].force, token # None
      PROVE  /\ ~ Less(now, nextRefresh)
             /\ nextRefresh = NaN \/ ~ Less(now, Plus(lastSuccess, MinInterval))
  <2>1. ~ Less(now, nextRefresh)
    BY <1>1, <1>4, <1>5, <1>6 DEF RefreshDeclined
  <2>2. /\ ~ Less(nextRefresh, Plus(lastSuccess, MinInterval))
        /\ lastSuccess \in Spans /\ MinInterval \in Spans
    BY <1>6, ConfigAssumption DEF PolicyInv, ScheduleInv, Spans
  <2>3. Plus(lastSuccess, MinInterval) \in Spans
    BY <2>2, SumIsSpan
  <2>4. QED
    BY <1>1, <2>1, <2>2, <2>3, PassedEarlier
<1>7. ASSUME ~ call[t].force, lastError
      PROVE  ~ Less(now, nextAttempt)
  BY <1>1, <1>2, <1>3, <1>4, <1>5, <1>7 DEF RefreshDeclined, RecoverDeclined
<1>8. QED
  BY <1>3, <1>6, <1>7 DEF RecoverDeclined

\* When a call returns, no refresh is under way and there is nothing to show.
LEMMA ReturnLeavesNoRefresh ==
  ASSUME TypeInv, LockDiscipline, NEW t \in Threads, NEW v,
         pc[t] \in Holding, Return(t, v)
  PROVE  ReasonsHold'
  BY ReturnEmpties DEF ReasonsHold, RecoveryReplacesOnlyRejected,
     ScheduledRefreshSpacing, BackoffHonoured, Refreshing

\* The reason for a refresh under way survives the steps of everybody else.
LEMMA ReasonsStep ==
  ASSUME TypeInv, LockDiscipline, PolicyInv, ManagerStep
  PROVE  ReasonsHold'
<1> USE DEF ReasonsHold, RecoveryReplacesOnlyRejected, ScheduledRefreshSpacing,
            BackoffHonoured, Refreshing, Holding, TypeInv, TypeOK, PolicyInv
<1>1. ASSUME NEW t \in Threads, NEW c \in Calls, Call(t, c)
      PROVE  ReasonsHold'
  BY <1>1 DEF Call, stateVars
<1>2. ASSUME NEW t \in Threads, Acquire(t)
      PROVE  ReasonsHold'
  BY <1>2 DEF Acquire, stateVars
<1>3. ASSUME NEW t \in Threads, Decline(t) \/ Install(t) \/ RecordFailure(t)
      PROVE  ReasonsHold'
  BY <1>3, ReturnLeavesNoRefresh DEF Decline, Install, RecordFailure
<1>4. ASSUME NEW t \in Threads, Proceed(t)
      PROVE  ReasonsHold'
  BY <1>4, ProceedHasReason DEF Proceed, stateVars, localVars
<1>5. ASSUME NEW t \in Threads, Fail(t) \/ Validate(t)
      PROVE  ReasonsHold'
  <2>1. pc[t] \in Refreshing /\ UNCHANGED <<now, stateVars, call>>
    BY <1>5 DEF Fail, Validate
  <2>2. \A u \in Threads : pc'[u] \in Refreshing => pc[u] \in Refreshing
    BY <1>5, <2>1 DEF Fail, Validate
  <2>3. QED
    BY <2>1, <2>2 DEF stateVars
<1>6. ASSUME NEW t \in Threads, NEW k \in Tokens, NEW e \in Expiries,
             Authenticate(t, k, e)
      PROVE  ReasonsHold'
  BY <1>6 DEF Authenticate, stateVars
<1>7. CASE Tick
  <2>1. now' = now + 1 /\ UNCHANGED <<stateVars, pc, localVars>>
    BY <1>7 DEF Tick
  <2>2. now \in Nat /\ nextAttempt \in Spans
    OBVIOUS
  <2>3. token # None => Plus(lastSuccess, MinInterval) \in Spans
    BY ConfigAssumption, SumIsSpan DEF ScheduleInv, Spans
  <2>4. /\ ~ Less(now, nextAttempt) => ~ Less(now', nextAttempt)
        /\ token # None /\ ~ Less(now, Plus(lastSuccess, MinInterval))
             => ~ Less(now', Plus(lastSuccess, MinInterval))
    BY <2>1, <2>2, <2>3, TimePasses
  <2>5. QED
    BY <2>1, <2>4 DEF stateVars, localVars
<1>8. CASE UNCHANGED vars
  BY <1>8 DEF vars, stateVars, localVars
<1>9. QED
  BY <1>1, <1>2, <1>3, <1>4, <1>5, <1>6, <1>7, <1>8 DEF ManagerStep, Work, Answer

\* The times that the threads have read stay in the past.
LEMMA ClockPastStep ==
  ASSUME TypeInv, ClockPast, ManagerStep
  PROVE  ClockPast'
<1> USE DEF TypeInv, TypeOK, ClockPast
<1>1. ASSUME NEW t \in Threads, NEW v, Return(t, v), UNCHANGED now
      PROVE  ClockPast'
  BY <1>1 DEF Return
<1>2. ASSUME NEW t \in Threads, clock' = [clock EXCEPT ![t] = now], UNCHANGED now
      PROVE  ClockPast'
  BY <1>2
<1>3. ASSUME UNCHANGED clock, now' = now \/ now' = now + 1
      PROVE  ClockPast'
  BY <1>3
<1>4. QED
  BY <1>1, <1>2, <1>3
     DEF ManagerStep, Work, Answer, Call, Acquire, Decline, Proceed, Authenticate,
         Fail, Validate, Install, RecordFailure, Tick, vars, localVars

\* The scheduled date stays at least the minimum interval after the last success.
LEMMA ScheduleStep ==
  ASSUME TypeInv, ScheduleInv, ManagerStep
  PROVE  ScheduleInv'
<1>1. ASSUME NEW t \in Threads, Install(t)
      PROVE  ScheduleInv'
  <2>1. /\ candidate[t].expires \in Expiries \cup {None}
        /\ clock[t] \in Nat
    BY DEF TypeInv, TypeOK
  <2>2. /\ ComputeRefreshDelay(candidate[t].expires) \in Spans
        /\ ~ Less(ComputeRefreshDelay(candidate[t].expires), MinInterval)
    BY <2>1, DelayAtLeastMinInterval
  <2>3. /\ lastSuccess' = clock[t]
        /\ nextRefresh' = Plus(clock[t], ComputeRefreshDelay(candidate[t].expires))
    BY <1>1 DEF Install
  <2>4. MinInterval \in Spans
    BY ConfigAssumption
  <2>5. ~ Less(nextRefresh', Plus(lastSuccess', MinInterval))
    BY <2>1, <2>2, <2>3, <2>4, SumKeepsOrder
  <2>6. QED
    BY <2>1, <2>3, <2>5 DEF ScheduleInv
<1>2. ASSUME UNCHANGED <<token, lastSuccess, nextRefresh>>
      PROVE  ScheduleInv'
  BY <1>2 DEF ScheduleInv
<1>3. QED
  BY <1>1, <1>2
     DEF ManagerStep, Work, Answer, Call, Acquire, Decline, Proceed, Authenticate,
         Fail, Validate, RecordFailure, Tick, vars, stateVars

\* The three facts together.
LEMMA PolicyStep ==
  ASSUME TypeInv, LockDiscipline, PolicyInv, ManagerStep
  PROVE  PolicyInv'
  BY ReasonsStep, ClockPastStep, ScheduleStep DEF PolicyInv

\* They hold at the start.
LEMMA PolicyInit == Init => PolicyInv
  BY DEF Init, PolicyInv, ClockPast, ScheduleInv, ReasonsHold, Refreshing, Holding,
     RecoveryReplacesOnlyRejected, ScheduledRefreshSpacing, BackoffHonoured

\* The three facts about times and reasons hold throughout.
LEMMA PolicyInvariant == Spec => []PolicyInv
<1>1. Init => PolicyInv
  BY PolicyInit
<1>2. TypeInv /\ LockDiscipline /\ PolicyInv /\ [Next]_vars => PolicyInv'
  BY PolicyStep, NextIsManagerStep
<1>3. QED
  BY <1>1, <1>2, TypeInvariant, MutualExclusion, PTL DEF Spec

\* A recovery never overwrites a token other than the one that was rejected.
THEOREM RecoveryIsTargeted == Spec => []RecoveryReplacesOnlyRejected
<1>1. PolicyInv => RecoveryReplacesOnlyRejected
  BY DEF PolicyInv, ReasonsHold
<1>2. QED
  BY <1>1, PolicyInvariant, PTL

\* Unforced refreshes are at least the minimum interval apart, unless the date
\* of the next one is NaN.
THEOREM RefreshesAreSpaced == Spec => []ScheduledRefreshSpacing
<1>1. PolicyInv => ScheduledRefreshSpacing
  BY DEF PolicyInv, ReasonsHold
<1>2. QED
  BY <1>1, PolicyInvariant, PTL

\* After a failure nobody asks again before the retry interval is over.
THEOREM RetriesWait == Spec => []BackoffHonoured
<1>1. PolicyInv => BackoffHonoured
  BY DEF PolicyInv, ReasonsHold
<1>2. QED
  BY <1>1, PolicyInvariant, PTL

-----------------------------------------------------------------------------
\* The three records of a failure are written together.
LEMMA ErrorFlagsStep ==
  ASSUME TypeInv, ErrorFlagsAgree, ManagerStep
  PROVE  ErrorFlagsAgree'
<1>1. ASSUME NEW t \in Threads, Install(t)
      PROVE  ErrorFlagsAgree'
  BY <1>1 DEF Install, ErrorFlagsAgree
<1>2. ASSUME NEW t \in Threads, RecordFailure(t)
      PROVE  ErrorFlagsAgree'
  <2>1. failures \in Nat /\ clock[t] \in Nat /\ clock[t] # None
    BY NoneAssumption DEF TypeInv, TypeOK, Spans
  <2>2. lastError' = TRUE /\ failures' > 0 /\ errorStarted' # None
    BY <1>2, <2>1 DEF RecordFailure
  <2>3. QED
    BY <2>2 DEF ErrorFlagsAgree
<1>3. ASSUME UNCHANGED stateVars
      PROVE  ErrorFlagsAgree'
  BY <1>3 DEF ErrorFlagsAgree, stateVars
<1>4. ASSUME NEW t \in Threads, NEW c \in Calls, Call(t, c)
      PROVE  UNCHANGED stateVars
  BY <1>4 DEF Call
<1>5. ASSUME NEW t \in Threads, NEW k \in Tokens, NEW e \in Expiries,
             Authenticate(t, k, e)
      PROVE  UNCHANGED stateVars
  BY <1>5 DEF Authenticate
<1>6. ASSUME Tick \/ UNCHANGED vars
      PROVE  UNCHANGED stateVars
  BY <1>6 DEF Tick, vars
<1>7. ASSUME NEW t \in Threads,
             Acquire(t) \/ Decline(t) \/ Proceed(t) \/ Validate(t) \/ Fail(t)
      PROVE  UNCHANGED stateVars
  BY <1>7 DEF Acquire, Decline, Proceed, Fail, Validate
<1>8. QED
  BY <1>1, <1>2, <1>3, <1>4, <1>5, <1>6, <1>7 DEF ManagerStep, Work, Answer

\* The error flag, the failure count and the start of the error agree.
THEOREM ErrorRecordsAgree == Spec => []ErrorFlagsAgree
<1>1. Init => ErrorFlagsAgree
  BY DEF Init, ErrorFlagsAgree
<1>2. TypeInv /\ ErrorFlagsAgree /\ [Next]_vars => ErrorFlagsAgree'
  BY ErrorFlagsStep, NextIsManagerStep
<1>3. QED
  BY <1>1, <1>2, TypeInvariant, PTL DEF Spec

\* Everything about one thread or one moment, for a specification that uses the
\* manager: it holds at the start, and the callers cannot break it.
ManagerInv == TypeInv /\ LockDiscipline /\ PolicyInv

\* It holds initially ...
LEMMA ManagerInit == Init => ManagerInv
  BY TypeInit, LockInit, PolicyInit DEF ManagerInv

\* ... and every call and thread step keeps it, however many calls were made.
LEMMA ManagerInvStep == ManagerInv /\ ManagerStep => ManagerInv'
  BY TypeStep, LockStep, PolicyStep DEF ManagerInv

-----------------------------------------------------------------------------
(* The token manager implements its contract.                              *)

\* How the refresh under way looks through the mapping.
Shows(s, c, k, d) == Stage = s /\ Cause = c /\ Candidate = k /\ Since = d

\* No refresh is under way.
LEMMA ViewIdle == ~ UnderWay => Shows("idle", None, None, 0)
  BY DEF Shows, Stage, Cause, Candidate, Since

\* Thread t holds the lock and has decided to refresh.
LEMMA ViewBusy ==
  ASSUME NEW t \in Threads, refreshLock = t
  PROVE  /\ pc[t] = "authenticating" => Shows("asking", call[t], None, 0)
         /\ pc[t] = "validating" => Shows("answered", call[t], candidate[t].token, 0)
         /\ pc[t] = "installing" => Shows("checked", call[t], candidate[t].token, clock[t])
         /\ pc[t] = "failing" => Shows("failed", call[t], None, clock[t])
  BY NoneAssumption DEF Shows, UnderWay, Stage, Cause, Candidate, Since

\* The same of the next state.
LEMMA ViewIdleNext == ~ UnderWay' => Shows("idle", None, None, 0)'
  BY DEF Shows, UnderWay, Stage, Cause, Candidate, Since

\* And when the refresh goes on in the next state.
LEMMA ViewBusyNext ==
  ASSUME NEW t \in Threads, refreshLock' = t
  PROVE  /\ pc'[t] = "authenticating" => Shows("asking", call[t], None, 0)'
         /\ pc'[t] = "validating" => Shows("answered", call[t], candidate[t].token, 0)'
         /\ pc'[t] = "installing" => Shows("checked", call[t], candidate[t].token, clock[t])'
         /\ pc'[t] = "failing" => Shows("failed", call[t], None, clock[t])'
  BY NoneAssumption DEF Shows, UnderWay, Stage, Cause, Candidate, Since

\* A step that leaves the holder's place and values alone leaves the view alone.
LEMMA ViewFrame ==
  ASSUME TypeInv, UNCHANGED refreshLock,
         \A t \in Threads : refreshLock = t =>
           /\ pc'[t] = pc[t]
           /\ call'[t] = call[t]
           /\ candidate'[t] = candidate[t]
           /\ clock'[t] = clock[t]
  PROVE  UNCHANGED Contract!attempt
<1>1. refreshLock \in Threads \cup {None}
  BY DEF TypeInv, TypeOK
<1>2. CASE refreshLock = None
  BY <1>2, ViewIdle, ViewIdleNext DEF UnderWay, Shows, Contract!attempt
<1>3. CASE refreshLock \in Threads
  BY <1>3 DEF UnderWay, Stage, Cause, Candidate, Since, Contract!attempt
<1>4. QED
  BY <1>1, <1>2, <1>3

\* The contract reckons with the same floats.
LEMMA SameFloats ==
  /\ Contract!Spans = Spans
  /\ \A x, y : Contract!Less(x, y) = Less(x, y) /\ Contract!Plus(x, y) = Plus(x, y)
  BY DEF Contract!Spans, Spans, Contract!Less, Less, Contract!Plus, Plus

\* Every step of a thread is a step of the contract or changes nothing in it.
LEMMA ContractStep ==
  ASSUME TypeInv, LockDiscipline, PolicyInv, ManagerStep
  PROVE  [Contract!Next]_Contract!vars
<1> USE DEF Contract!vars, Contract!policy, QuietUntil
<1>1. ASSUME NEW t \in Threads, NEW c \in Calls, Call(t, c)
      PROVE  UNCHANGED Contract!vars
  <2>1. refreshLock # t
    BY <1>1 DEF Call, LockDiscipline, Holding
  <2>2. UNCHANGED Contract!attempt
    BY <1>1, <2>1, ViewFrame DEF Call, TypeInv, TypeOK
  <2>3. QED
    BY <1>1, <2>2 DEF Call, stateVars
<1>2. ASSUME NEW t \in Threads, Acquire(t)
      PROVE  UNCHANGED Contract!vars
  <2>1. ~ UnderWay /\ ~ UnderWay'
    BY <1>2 DEF Acquire, UnderWay, TypeInv, TypeOK
  <2>2. UNCHANGED Contract!attempt
    BY <2>1, ViewIdle, ViewIdleNext DEF Shows, Contract!attempt
  <2>3. QED
    BY <1>2, <2>2 DEF Acquire, stateVars
<1>3. ASSUME NEW t \in Threads, Decline(t)
      PROVE  UNCHANGED Contract!vars
  <2>1. ~ UnderWay /\ ~ UnderWay'
    BY <1>3 DEF Decline, Return, UnderWay, LockDiscipline, Holding
  <2>2. UNCHANGED Contract!attempt
    BY <2>1, ViewIdle, ViewIdleNext DEF Shows, Contract!attempt
  <2>3. QED
    BY <1>3, <2>2 DEF Decline, stateVars
<1>4. ASSUME NEW t \in Threads, Proceed(t)
      PROVE  Contract!Begin(call[t])
  <2>1. /\ refreshLock = t /\ UNCHANGED <<refreshLock, call>>
        /\ pc[t] = "deciding" /\ pc'[t] = "authenticating"
    BY <1>4 DEF Proceed, localVars, LockDiscipline, Holding, TypeInv, TypeOK
  <2>2. Shows("idle", None, None, 0) /\ Shows("asking", call[t], None, 0)'
    BY <2>1, ViewIdle, ViewBusyNext DEF UnderWay
  <2>3. UNCHANGED <<now, token, nextRefresh, QuietUntil>>
    BY <1>4 DEF Proceed, stateVars
  <2>4. Contract!MayBegin(call[t])
    <3>1. call[t] \in Calls /\ now \in Nat
      BY <2>1 DEF TypeInv, TypeOK, LocalsOK
    <3>2. call[t].op \in {"refresh", "recover"}
      BY <3>1 DEF Calls, RefreshCall, RecoverCall
    <3>3. ~ call[t].force => ~ Contract!Less(now, QuietUntil)
      <4>1. ~ Less(now, 0)
        BY <3>1, FloatAssumption DEF Less
      <4>2. ~ call[t].force => ~ Less(now, QuietUntil)
        BY <1>4, <4>1, ProceedHasReason
      <4>3. QED
        BY <4>2, SameFloats
    <3>4. call[t].op = "recover" => token = call[t].rejected
      BY <1>4, ProceedHasReason
    <3>5. call[t].op = "refresh" /\ ~ call[t].force
            => token = None \/ ~ Contract!Less(now, nextRefresh)
      BY <1>4, ProceedHasReason, SameFloats
    <3>6. QED
      BY <3>2, <3>3, <3>4, <3>5 DEF Contract!MayBegin
  <2>5. QED
    BY <2>1, <2>2, <2>3, <2>4 DEF Contract!Begin, Shows
<1>5. ASSUME NEW t \in Threads, NEW k \in Tokens, NEW e \in Expiries,
             Authenticate(t, k, e)
      PROVE  Contract!Answered(k)
  <2>1. /\ refreshLock = t /\ UNCHANGED <<refreshLock, call>>
        /\ pc[t] = "authenticating" /\ pc'[t] = "validating"
        /\ candidate'[t].token = k
    BY <1>5 DEF Authenticate, AuthResult, LockDiscipline, Holding, TypeInv, TypeOK
  <2>2. Shows("asking", call[t], None, 0) /\ Shows("answered", call[t], k, 0)'
    BY <2>1, ViewBusy, ViewBusyNext DEF Shows
  <2>3. UNCHANGED <<now, token, nextRefresh, QuietUntil>>
    BY <1>5 DEF Authenticate, stateVars
  <2>4. QED
    BY <2>1, <2>2, <2>3 DEF Contract!Answered, Shows
<1>6. ASSUME NEW t \in Threads, Validate(t)
      PROVE  Contract!Validated
  <2>1. /\ refreshLock = t /\ UNCHANGED <<refreshLock, call, candidate>>
        /\ pc[t] = "validating" /\ pc'[t] = "installing" /\ clock'[t] = now
    BY <1>6 DEF Validate, LockDiscipline, Holding, TypeInv, TypeOK
  <2>2. /\ Shows("answered", call[t], candidate[t].token, 0)
        /\ Shows("checked", call[t], candidate[t].token, now)'
    BY <1>6, <2>1, ViewBusy, ViewBusyNext DEF Shows, Validate
  <2>3. UNCHANGED <<now, token, nextRefresh, QuietUntil>>
    BY <1>6 DEF Validate, stateVars
  <2>4. QED
    BY <2>1, <2>2, <2>3 DEF Contract!Validated, Shows
<1>7. ASSUME NEW t \in Threads, Fail(t)
      PROVE  Contract!Failed
  <2>1. /\ refreshLock = t /\ UNCHANGED <<refreshLock, call>>
        /\ pc[t] \in {"authenticating", "validating"}
        /\ pc'[t] = "failing" /\ clock'[t] = now
    BY <1>7 DEF Fail, LockDiscipline, Holding, TypeInv, TypeOK
  <2>2. /\ Stage \in {"asking", "answered"} /\ Cause = call[t]
        /\ Stage' = "failed" /\ Cause' = call[t] /\ Candidate' = None /\ Since' = now
    BY <1>7, <2>1, ViewBusy, ViewBusyNext DEF Shows, Fail
  <2>3. UNCHANGED <<now, token, nextRefresh, QuietUntil>>
    BY <1>7 DEF Fail, stateVars
  <2>4. QED
    BY <2>2, <2>3 DEF Contract!Failed
<1>8. ASSUME NEW t \in Threads, NEW v, pc[t] \in Holding, Return(t, v), UNCHANGED now
      PROVE  Contract!Over
  <2>1. ~ UnderWay'
    BY <1>8 DEF UnderWay, Return
  <2>2. QED
    BY <1>8, <2>1, ViewIdleNext DEF Contract!Over, Shows
<1>9. ASSUME NEW t \in Threads, Install(t)
      PROVE  Contract!Install
  <2>1. refreshLock = t /\ pc[t] = "installing"
    BY <1>9 DEF Install, LockDiscipline, Holding
  <2>2. Shows("checked", call[t], candidate[t].token, clock[t])
    BY <2>1, ViewBusy
  <2>3. /\ candidate[t].expires \in Expiries \cup {None}
        /\ clock[t] \in Nat /\ clock[t] \in Spans /\ MinInterval \in Spans
    BY ConfigAssumption DEF TypeInv, TypeOK, Spans
  <2>4. /\ ComputeRefreshDelay(candidate[t].expires) \in Spans
        /\ ~ Less(ComputeRefreshDelay(candidate[t].expires), MinInterval)
    BY <2>3, DelayAtLeastMinInterval
  <2>5. /\ nextRefresh' = Plus(clock[t], ComputeRefreshDelay(candidate[t].expires))
        /\ token' = candidate[t].token /\ lastError' = FALSE
    BY <1>9 DEF Install
  <2>6. /\ nextRefresh' \in Contract!Spans
        /\ ~ Contract!Less(nextRefresh', Contract!Plus(clock[t], MinInterval))
    <3>1. nextRefresh' \in Spans /\ ~ Less(nextRefresh', Plus(clock[t], MinInterval))
      BY <2>3, <2>4, <2>5, SumIsSpan, SumKeepsOrder
    <3>2. QED
      BY <3>1, SameFloats
  <2>7. Contract!Over
    BY <1>8, <1>9, <2>1 DEF Install, Holding
  <2>8. QED
    BY <2>2, <2>5, <2>6, <2>7 DEF Contract!Install, Shows
<1>10. ASSUME NEW t \in Threads, RecordFailure(t)
       PROVE  Contract!Record
  <2>1. refreshLock = t /\ pc[t] = "failing"
    BY <1>10 DEF RecordFailure, LockDiscipline, Holding
  <2>2. Shows("failed", call[t], None, clock[t])
    BY <2>1, ViewBusy
  <2>3. /\ lastError' = TRUE /\ nextAttempt' = Contract!Plus(clock[t], Retry)
        /\ UNCHANGED <<token, nextRefresh>>
    BY <1>10, SameFloats DEF RecordFailure
  <2>4. Contract!Over
    BY <1>8, <1>10, <2>1 DEF RecordFailure, Holding
  <2>5. QED
    BY <2>2, <2>3, <2>4 DEF Contract!Record, Shows
<1>11. CASE Tick
  <2>1. UNCHANGED Contract!attempt
    BY <1>11, ViewFrame DEF Tick, localVars
  <2>2. Contract!Tick
    BY <1>11, <2>1 DEF Tick, stateVars, Contract!Tick
  <2>3. QED
    BY <2>2 DEF Contract!Next
<1>12. CASE UNCHANGED vars
  <2>1. UNCHANGED Contract!attempt
    BY <1>12, ViewFrame DEF vars, localVars
  <2>2. QED
    BY <1>12, <2>1 DEF vars, stateVars
<1>13. ASSUME NEW t \in Threads, Proceed(t)
       PROVE  Contract!Next
  <2>1. call[t] \in Calls
    BY <1>13 DEF Proceed, TypeInv, LocalsOK
  <2>2. QED
    BY <1>4, <1>13, <2>1 DEF Contract!Next
<1>14. QED
  BY <1>1, <1>2, <1>3, <1>5, <1>6, <1>7, <1>9, <1>10, <1>11, <1>12, <1>13
     DEF ManagerStep, Work, Answer, Contract!Next

\* At the start the contract is at its start.
LEMMA ContractInit == Init => Contract!Init
<1>1. ASSUME Init PROVE ~ UnderWay
  BY <1>1 DEF Init, UnderWay
<1>2. QED
  BY <1>1, ViewIdle DEF Init, Contract!Init, Shows, QuietUntil

\* The token manager implements RefreshContract, for any number of threads and
\* any interleaving: its refreshes are serial, each has a cause that holds when
\* it begins, and only a validated candidate replaces the token in use.
THEOREM ManagerImplementsContract == Spec => ImplementsContract
<1>1. Init => Contract!Init
  BY ContractInit
<1>2. TypeInv /\ LockDiscipline /\ PolicyInv /\ [Next]_vars
        => [Contract!Next]_Contract!vars
  BY ContractStep, NextIsManagerStep
<1>3. QED
  BY <1>1, <1>2, TypeInvariant, MutualExclusion, PolicyInvariant, PTL
     DEF Spec, ImplementsContract, Contract!Spec
=============================================================================
