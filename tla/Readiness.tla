----------------------------- MODULE Readiness -----------------------------
(***************************************************************************)
(* What /readyz and /metrics report (TokenManager.snapshot in              *)
(* bearer_proxy/token_manager.py, _handle_readyz and _handle_metrics in    *)
(* bearer_proxy/server.py).  Ages come from time.time(), which is set back *)
(* or forth while the proxy runs; dates of refreshes come from             *)
(* time.monotonic().  A snapshot reads the first before it takes           *)
(* _state_lock and the second under it; a refresh reads both before.       *)
(*                                                                         *)
(* Refreshes are one at a time (TokenManager.LockDiscipline), so one       *)
(* pending outcome stands for them.  Times are in ticks, Unit to a second. *)
(***************************************************************************)
EXTENDS Durations

CONSTANTS
  Unit,      \* ticks in a second
  Stale,     \* runtime.stale_token_warning_seconds, in ticks
  Delays,    \* what _compute_refresh_delay may return, in ticks, NaN, or Inf
  Back, Forth,  \* by how much the wall clock may be set, in ticks
  MaxJumps,  \* bound on how often it is set
  MaxTime,   \* bound on the monotonic clock
  MaxFailures,  \* bound on consecutive failures
  None

\* Readings of both clocks, with the times that the wall clock had been set.
Moments == [epoch : Int, at : Nat, jumps : Nat]

ASSUME ReadinessAssumption ==
  /\ Unit \in Nat \ {0} /\ Stale \in Nat \ {0}
  /\ Delays \subseteq Spans
  /\ {Back, Forth, MaxJumps, MaxTime, MaxFailures} \subseteq Nat
  /\ None \notin Int /\ None \notin Moments

VARIABLES
  mono, wall,    \* time.monotonic() and time.time()
  loaded,        \* _token is not None
  lastSuccess,   \* _last_success_epoch
  nextRefresh,   \* _next_refresh_monotonic
  lastError,     \* _last_error
  errorStarted,  \* _last_error_started_epoch
  failures,      \* _consecutive_refresh_failures
  outcome,       \* of the refresh whose thread is about to take _state_lock
  reader,        \* now_epoch of the snapshot under way
  answer,        \* the report, when the last step made one
  jumps,         \* history: how often the wall clock was set
  outage         \* history: when the outage began, and jumps then

clocks == <<mono, wall, jumps>>
state == <<loaded, lastSuccess, nextRefresh, lastError, errorStarted, failures>>
vars == <<clocks, state, outcome, reader, answer, outage>>

\* The present one.
Moment == [epoch |-> wall, at |-> mono, jumps |-> jumps]

Init ==
  /\ mono = 0 /\ wall = 0 /\ jumps = 0
  /\ loaded = FALSE /\ lastSuccess = None /\ nextRefresh = 0
  /\ lastError = FALSE /\ errorStarted = None /\ failures = 0
  /\ outcome = None /\ reader = None /\ answer = None /\ outage = None

-----------------------------------------------------------------------------
(* The refreshing thread.                                                  *)

\* Authentication and validation are over; the clocks are read.
ReadOutcome(ok) ==
  /\ outcome = None
  /\ ok \/ failures < MaxFailures
  /\ outcome' = [ok |-> ok, when |-> Moment]
  /\ UNCHANGED <<clocks, state, reader, outage>>

\* A faulty RecordSuccess: the failures before it are not forgotten.
RecordSuccessKeepsCount ==
  /\ outcome # None /\ outcome.ok
  /\ loaded' = TRUE
  /\ lastSuccess' = outcome.when.epoch
  /\ \E d \in Delays : nextRefresh' = Plus(outcome.when.at, d)
  /\ lastError' = FALSE /\ errorStarted' = None
  /\ outcome' = None
  /\ outage' = None
  /\ UNCHANGED <<clocks, failures, reader>>

\* The success section of _perform_refresh_locked ...
RecordSuccess ==
  /\ outcome # None /\ outcome.ok
  /\ loaded' = TRUE
  /\ lastSuccess' = outcome.when.epoch
  /\ \E d \in Delays : nextRefresh' = Plus(outcome.when.at, d)
  /\ lastError' = FALSE /\ errorStarted' = None /\ failures' = 0
  /\ outcome' = None
  /\ outage' = None
  /\ UNCHANGED <<clocks, reader>>

\* A faulty RecordFailure: every failure restarts the age of the error.
RecordFailureAnew ==
  /\ outcome # None /\ ~ outcome.ok
  /\ errorStarted' = outcome.when.epoch
  /\ outage' = IF outage = None THEN outcome.when ELSE outage
  /\ lastError' = TRUE
  /\ failures' = failures + 1
  /\ outcome' = None
  /\ UNCHANGED <<clocks, loaded, lastSuccess, nextRefresh, reader>>

\* ... and its except section.
RecordFailure ==
  /\ outcome # None /\ ~ outcome.ok
  /\ errorStarted' = IF errorStarted = None THEN outcome.when.epoch ELSE errorStarted
  /\ outage' = IF outage = None THEN outcome.when ELSE outage
  /\ lastError' = TRUE
  /\ failures' = failures + 1
  /\ outcome' = None
  /\ UNCHANGED <<clocks, loaded, lastSuccess, nextRefresh, reader>>

-----------------------------------------------------------------------------
(* A handler thread.                                                       *)

\* now_epoch = time.time()
StartSnapshot ==
  /\ reader = None
  /\ reader' = Moment
  /\ UNCHANGED <<clocks, state, outcome, outage>>

\* A faulty Age: without max(0.0, ...).
AgeUnclamped(since) ==
  IF since = None THEN None ELSE (reader.epoch - since) \div Unit

\* int(max(0.0, now_epoch - since)), in whole seconds
Age(since) ==
  IF since = None THEN None
  ELSE IF reader.epoch < since THEN 0 ELSE (reader.epoch - since) \div Unit

\* max(0.0, next - now), which is 0.0 for NaN, in whole seconds
SecondsUntilRefresh ==
  IF ~ loaded \/ ~ Less(mono, nextRefresh) THEN 0 ELSE (nextRefresh - mono) \div Unit

\* int(next_seconds) raises OverflowError.
Endless == loaded /\ nextRefresh = Inf

\* The section under _state_lock, and what _handle_readyz makes of it.
TakeSnapshot ==
  LET errorAge == Age(errorStarted)
      stale    == errorAge # None /\ errorAge * Unit >= Stale
  IN  /\ reader # None
      /\ ~ Endless
      /\ answer' =
           [token_loaded |-> loaded,
            seconds_until_refresh |-> SecondsUntilRefresh,
            last_refresh_error |-> lastError,
            refresh_error_age_seconds |-> errorAge,
            seconds_since_last_success |-> Age(lastSuccess),
            consecutive_refresh_failures |-> failures,
            ready |-> loaded /\ ~ stale,
            read |-> reader,
            outage |-> outage]
      /\ reader' = None
      /\ UNCHANGED <<clocks, state, outcome, outage>>

\* No report is made: the handler's thread ends without a reply.
SnapshotRaises ==
  /\ reader # None
  /\ Endless
  /\ reader' = None
  /\ answer' = None
  /\ UNCHANGED <<clocks, state, outcome, outage>>

-----------------------------------------------------------------------------
Tick ==
  /\ mono < MaxTime
  /\ mono' = mono + 1
  /\ wall' = wall + 1
  /\ UNCHANGED <<jumps, state, outcome, reader, outage>>

\* The system's clock is set.
SetClock(j) ==
  /\ jumps < MaxJumps
  /\ jumps' = jumps + 1
  /\ wall' = wall + j
  /\ UNCHANGED <<mono, state, outcome, reader, outage>>

Refresh == RecordSuccess \/ RecordFailure \/ \E ok \in BOOLEAN : ReadOutcome(ok)

Time == Tick \/ \E j \in {- Back, Forth} : SetClock(j)

\* A report is sent and forgotten.
Next == TakeSnapshot \/ SnapshotRaises \/ (answer' = None /\ (Refresh \/ StartSnapshot \/ Time))

Spec == Init /\ [][Next]_vars

-----------------------------------------------------------------------------
(* Properties.                                                             *)

\* The types; no age and no delay in a report is ever negative, however the
\* clock is set and whatever is installed while the snapshot is taken.
TypeOK ==
  /\ mono \in Nat /\ wall \in Int
  /\ loaded \in BOOLEAN /\ lastError \in BOOLEAN
  /\ lastSuccess \in Int \cup {None} /\ errorStarted \in Int \cup {None}
  /\ nextRefresh \in Spans /\ failures \in Nat
  /\ answer # None =>
       /\ answer.seconds_until_refresh \in Nat
       /\ answer.refresh_error_age_seconds \in Nat \cup {None}
       /\ answer.seconds_since_last_success \in Nat \cup {None}

\* A report is of one moment: error, age of the error and count of failures go
\* together, and so do the token and the time since the last success.
ReportIsCoherent ==
  answer # None =>
    /\ answer.last_refresh_error <=> answer.refresh_error_age_seconds # None
    /\ answer.last_refresh_error <=> answer.consecutive_refresh_failures > 0
    /\ answer.token_loaded <=> answer.seconds_since_last_success # None

\* As long as nobody sets the clock, a proxy that has a token reports ready
\* exactly while its refreshes have been failing for less than the configured
\* time, up to the second that the age is rounded down by
\* (docs/CONFIG_REFERENCE.md:83, "readiness staleness threshold").
ReadinessIsTruthful ==
  answer # None /\ answer.token_loaded =>
    LET since   == answer.outage.at
        failing == answer.read.at - since
    IN  /\ ~ answer.ready => answer.outage # None
        /\ answer.outage # None /\ answer.read.jumps = answer.outage.jumps =>
             IF answer.ready THEN failing < Stale + Unit ELSE failing >= Stale
=============================================================================
