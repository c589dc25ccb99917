---------------------------- MODULE TokenManager ----------------------------
(***************************************************************************)
(* The in-memory bearer token and the threads that refresh it              *)
(* (bearer_proxy/token_manager.py, class TokenManager).                    *)
(*                                                                         *)
(* Any number of threads call refresh(force) and refresh_rejected_token(k) *)
(* concurrently.  A call takes _refresh_lock, decides under _state_lock    *)
(* whether to refresh, asks the authentication endpoint for a candidate,   *)
(* validates it, and installs it or records the failure, again under       *)
(* _state_lock.  A section under _state_lock only touches memory, so it is *)
(* one action; everything between two such sections (lock waits, clock     *)
(* reads, HTTP exchanges) interleaves freely with the other threads and    *)
(* with the clock.                                                         *)
(*                                                                         *)
(* `now' is time.monotonic() in whole seconds; time.time() advances with   *)
(* it here.  None is Python's None.  Lifetimes and intervals are floats    *)
(* (Durations): nothing keeps NaN and infinity out of them, and a date     *)
(* computed with NaN is compared as false with every clock.                *)
(***************************************************************************)
EXTENDS Durations

CONSTANTS
  Threads,      \* callers: request handlers and the background thread
  Tokens,       \* bearer tokens the authentication endpoint may return
  Expiries,     \* expires_in values it may return with them, None if absent
  Forced,       \* the values of refresh's force argument that callers pass
  Fallback,     \* runtime.fallback_refresh_interval_seconds
  Margin,       \* runtime.refresh_margin_seconds
  MinInterval,  \* runtime.min_refresh_interval_seconds
  Retry,        \* runtime.refresh_retry_seconds
  None,
  MaxTime,      \* bound on the clock
  MaxFailures   \* bound: no new call after this many consecutive failures

\* _runtime_config rejects non-positive intervals and negative margins, and
\* _coerce_expires_in rejects a non-positive lifetime: both by tests that NaN
\* and infinity pass.
ASSUME ConfigAssumption ==
  /\ Fallback \in Spans \ {0}
  /\ Margin \in Spans
  /\ MinInterval \in Spans \ {0}
  /\ Retry \in Spans \ {0}
  /\ Expiries \subseteq (Spans \ {0}) \cup {None}
  /\ Forced \subseteq BOOLEAN

ASSUME NoneAssumption ==
  /\ None \notin Threads
  /\ None \notin Tokens
  /\ None \notin Spans

ASSUME BoundAssumption ==
  /\ MaxTime \in Nat
  /\ MaxFailures \in Nat

VARIABLES
  now,          \* the clock
  token,        \* _token
  lastSuccess,  \* _last_success_epoch
  nextRefresh,  \* _next_refresh_monotonic
  nextAttempt,  \* _next_attempt_monotonic
  lastError,    \* _last_error
  errorStarted, \* _last_error_started_epoch
  failures,     \* _consecutive_refresh_failures
  refreshLock,  \* the thread that holds _refresh_lock, or None
  pc,           \* where each thread is inside the manager
  call,         \* the call each thread is making
  candidate,    \* auth_result: the token and lifetime being tried
  clock,        \* the thread's now_mono (and now_epoch)
  result        \* what the thread's last call returned or raised

stateVars == <<token, lastSuccess, nextRefresh, nextAttempt, lastError,
               errorStarted, failures>>
localVars == <<call, candidate, clock>>
vars == <<now, stateVars, refreshLock, pc, localVars, result>>

-----------------------------------------------------------------------------
(* Values.                                                                 *)

NoCall == [op |-> "none", force |-> FALSE, rejected |-> None]
RefreshCall(force) == [op |-> "refresh", force |-> force, rejected |-> None]
RecoverCall(t) == [op |-> "recover", force |-> FALSE, rejected |-> t]

Calls == {RefreshCall(f) : f \in Forced} \cup {RecoverCall(t) : t \in Tokens}

AuthResult(t, e) == [token |-> t, expires |-> e]
NoCandidate == AuthResult(None, None)

\* Inside the sections that _refresh_lock protects.
Holding == {"deciding", "authenticating", "validating", "installing", "failing"}
\* A refresh is under way: _perform_refresh_locked has been entered.
Refreshing == Holding \ {"deciding"}
Places == Holding \cup {"idle", "locking"}

\* A faulty ComputeRefreshDelay: the margin may eat the whole lifetime.
ComputeDelayWithoutMinimum(expires) ==
  CASE expires = None                                  -> Fallback
    [] expires # None /\ {expires, Margin} \subseteq Nat -> expires - Margin
    [] OTHER                                           -> Minus(expires, Margin)

\* _compute_refresh_delay.  A lifetime that the margin uses up gives the least
\* interval, and so does a delay below it; a NaN is below nothing.
ComputeRefreshDelay(expires) ==
  LET planned == IF expires = None THEN Fallback ELSE Minus(expires, Margin)
  IN  IF planned = 0 \/ Less(planned, MinInterval) THEN MinInterval ELSE planned

\* A faulty Return: the exception path forgets the lock.
ReturnKeepsLockWhenRaising(t, value) ==
  /\ pc' = [pc EXCEPT ![t] = "idle"]
  /\ call' = [call EXCEPT ![t] = NoCall]
  /\ candidate' = [candidate EXCEPT ![t] = NoCandidate]
  /\ clock' = [clock EXCEPT ![t] = 0]
  /\ result' = [result EXCEPT ![t] = value]
  /\ refreshLock' = IF value = "raised" THEN refreshLock ELSE None

\* How a call returns: locals go out of scope and the lock is released.
Return(t, value) ==
  /\ pc' = [pc EXCEPT ![t] = "idle"]
  /\ call' = [call EXCEPT ![t] = NoCall]
  /\ candidate' = [candidate EXCEPT ![t] = NoCandidate]
  /\ clock' = [clock EXCEPT ![t] = 0]
  /\ result' = [result EXCEPT ![t] = value]
  /\ refreshLock' = None

-----------------------------------------------------------------------------
Init ==
  /\ now = 0
  /\ token = None
  /\ lastSuccess = None
  /\ nextRefresh = 0
  /\ nextAttempt = 0
  /\ lastError = FALSE
  /\ errorStarted = None
  /\ failures = 0
  /\ refreshLock = None
  /\ pc = [t \in Threads |-> "idle"]
  /\ call = [t \in Threads |-> NoCall]
  /\ candidate = [t \in Threads |-> NoCandidate]
  /\ clock = [t \in Threads |-> 0]
  /\ result = [t \in Threads |-> "none"]

\* A caller enters refresh or refresh_rejected_token.
Call(t, c) ==
  /\ pc[t] = "idle"
  /\ pc' = [pc EXCEPT ![t] = "locking"]
  /\ call' = [call EXCEPT ![t] = c]
  /\ result' = [result EXCEPT ![t] = "pending"]
  /\ UNCHANGED <<now, stateVars, refreshLock, candidate, clock>>

\* with self._refresh_lock: now_mono = time.monotonic()
Acquire(t) ==
  /\ pc[t] = "locking"
  /\ refreshLock = None
  /\ refreshLock' = t
  /\ pc' = [pc EXCEPT ![t] = "deciding"]
  /\ clock' = [clock EXCEPT ![t] = now]
  /\ UNCHANGED <<now, stateVars, call, candidate, result>>

\* A faulty RecoverDeclined: the rejected token is not compared.
RecoverWhateverTheToken(t) == lastError /\ Less(clock[t], nextAttempt)

\* A faulty RecoverDeclined: a recovery ignores the retry interval.
RecoverDespiteBackoff(t) == token # call[t].rejected

\* The early returns of refresh(force) ...
RefreshDeclined(t) ==
  /\ ~ call[t].force
  /\ \/ Less(clock[t], nextAttempt)
     \/ token # None /\ Less(clock[t], nextRefresh)

\* ... and of refresh_rejected_token(rejected).
RecoverDeclined(t) ==
  \/ token # call[t].rejected
  \/ lastError /\ Less(clock[t], nextAttempt)

Declined(t) ==
  \/ call[t].op = "refresh" /\ RefreshDeclined(t)
  \/ call[t].op = "recover" /\ RecoverDeclined(t)

Decline(t) ==
  /\ pc[t] = "deciding"
  /\ Declined(t)
  /\ Return(t, "false")
  /\ UNCHANGED <<now, stateVars>>

Proceed(t) ==
  /\ pc[t] = "deciding"
  /\ ~ Declined(t)
  /\ pc' = [pc EXCEPT ![t] = "authenticating"]
  /\ UNCHANGED <<now, stateVars, refreshLock, localVars, result>>

\* auth_provider.authenticate() returns ...
Authenticate(t, k, e) ==
  /\ pc[t] = "authenticating"
  /\ candidate' = [candidate EXCEPT ![t] = AuthResult(k, e)]
  /\ pc' = [pc EXCEPT ![t] = "validating"]
  /\ UNCHANGED <<now, stateVars, refreshLock, call, clock, result>>

\* ... or it or validate_token raises: the except clause reads the clocks.
Fail(t) ==
  /\ pc[t] \in {"authenticating", "validating"}
  /\ clock' = [clock EXCEPT ![t] = now]
  /\ pc' = [pc EXCEPT ![t] = "failing"]
  /\ UNCHANGED <<now, stateVars, refreshLock, call, candidate, result>>

\* auth_provider.validate_token(candidate) returns; the clocks are read.
Validate(t) ==
  /\ pc[t] = "validating"
  /\ clock' = [clock EXCEPT ![t] = now]
  /\ pc' = [pc EXCEPT ![t] = "installing"]
  /\ UNCHANGED <<now, stateVars, refreshLock, call, candidate, result>>

\* A faulty Install: a success leaves the start of the error.
InstallKeepsErrorAge(t) ==
  /\ pc[t] = "installing"
  /\ token' = candidate[t].token
  /\ lastSuccess' = clock[t]
  /\ nextRefresh' = Plus(clock[t], ComputeRefreshDelay(candidate[t].expires))
  /\ nextAttempt' = nextRefresh'
  /\ lastError' = FALSE
  /\ failures' = 0
  /\ Return(t, "true")
  /\ UNCHANGED <<now, errorStarted>>

\* The success section of _perform_refresh_locked.
Install(t) ==
  /\ pc[t] = "installing"
  /\ token' = candidate[t].token
  /\ lastSuccess' = clock[t]
  /\ nextRefresh' = Plus(clock[t], ComputeRefreshDelay(candidate[t].expires))
  /\ nextAttempt' = nextRefresh'
  /\ lastError' = FALSE
  /\ errorStarted' = None
  /\ failures' = 0
  /\ Return(t, "true")
  /\ UNCHANGED now

\* A faulty RecordFailure: a failure drops the token in use.
FailureDropsToken(t) ==
  /\ pc[t] = "failing"
  /\ token' = None
  /\ errorStarted' = IF errorStarted = None THEN clock[t] ELSE errorStarted
  /\ lastError' = TRUE
  /\ failures' = failures + 1
  /\ nextAttempt' = Plus(clock[t], Retry)
  /\ Return(t, "raised")
  /\ UNCHANGED <<now, lastSuccess, nextRefresh>>

\* Its except section, which re-raises.
RecordFailure(t) ==
  /\ pc[t] = "failing"
  /\ errorStarted' = IF errorStarted = None THEN clock[t] ELSE errorStarted
  /\ lastError' = TRUE
  /\ failures' = failures + 1
  /\ nextAttempt' = Plus(clock[t], Retry)
  /\ Return(t, "raised")
  /\ UNCHANGED <<now, token, lastSuccess, nextRefresh>>

Tick ==
  /\ now < MaxTime
  /\ now' = now + 1
  /\ UNCHANGED <<stateVars, refreshLock, pc, localVars, result>>

-----------------------------------------------------------------------------
\* The authentication endpoint and the validation call answer in any way.
Answer(t) ==
  \/ \E k \in Tokens, e \in Expiries : Authenticate(t, k, e)
  \/ Validate(t)
  \/ Fail(t)

\* What the thread itself does once it holds the lock.
Work(t) == Decline(t) \/ Proceed(t) \/ Install(t) \/ RecordFailure(t)

Next ==
  \/ \E t \in Threads :
       \/ failures < MaxFailures /\ \E c \in Calls : Call(t, c)
       \/ Acquire(t)
       \/ Work(t)
       \/ Answer(t)
  \/ Tick

Spec == Init /\ [][Next]_vars

-----------------------------------------------------------------------------
(* Properties.                                                             *)

\* Every variable keeps its type; in particular no lifetime that the
\* authentication endpoint answers gives a date before the clock's start.
TypeOK ==
  /\ now \in Nat
  /\ token \in Tokens \cup {None}
  /\ lastSuccess \in Nat \cup {None}
  /\ nextRefresh \in Spans
  /\ nextAttempt \in Spans
  /\ lastError \in BOOLEAN
  /\ errorStarted \in Nat \cup {None}
  /\ failures \in Nat
  /\ refreshLock \in Threads \cup {None}
  /\ pc \in [Threads -> Places]
  /\ call \in [Threads -> Calls \cup {NoCall}]
  /\ candidate \in [Threads -> [token : Tokens \cup {None}, expires : Expiries \cup {None}]]
  /\ clock \in [Threads -> Nat]
  /\ result \in [Threads -> {"none", "pending", "true", "false", "raised"}]

\* A thread is inside refresh's or refresh_rejected_token's with block exactly
\* when it holds _refresh_lock: at most one authentication is under way, and
\* the lock is released on every way out, the exception included.
LockDiscipline == \A t \in Threads : pc[t] \in Holding <=> refreshLock = t

\* refresh_rejected_token(k) replaces k and nothing else: while its refresh is
\* under way the token in use is still the one the upstream rejected, so a
\* newer token that another thread installed is never overwritten.
RecoveryReplacesOnlyRejected ==
  \A t \in Threads :
    pc[t] \in Refreshing /\ call[t].op = "recover" => token = call[t].rejected

\* A refresh that nothing forces starts at least the configured minimum
\* interval after the last success, whichever thread made that success and
\* however short the lifetime it came with.  That is what _compute_refresh_delay
\* ensures, except for a NaN in the lifetime (auth.py:157) or in the configuration
\* (config.py:504): then the date of the next refresh is NaN and holds nobody
\* back, although docs/CONFIG_REFERENCE.md:81 says "minimum scheduled refresh delay".
ScheduledRefreshSpacing ==
  \A t \in Threads :
    pc[t] \in Refreshing /\ call[t].op = "refresh" /\ ~ call[t].force /\ token # None
      => nextRefresh = NaN \/ ~ Less(now, Plus(lastSuccess, MinInterval))

\* While the last attempt stands failed, no unforced refresh and no recovery
\* asks the authentication endpoint again before the retry interval is over,
\* not even one that queued on _refresh_lock behind the attempt that failed.
\* (With NaN for that interval it is over at once.)
BackoffHonoured ==
  \A t \in Threads :
    pc[t] \in Refreshing /\ ~ call[t].force /\ lastError => ~ Less(now, nextAttempt)

\* The three records of a failure agree: snapshot() never shows a failure count
\* without an error or an error without an age.
ErrorFlagsAgree ==
  /\ lastError <=> failures > 0
  /\ lastError <=> errorStarted # None
=============================================================================
