# Bearer Token API Proxy: a TLA+ model

The proxy (`bearer_proxy/`, `app.py`, `scripts/`) keeps upstream credentials away
from its clients: it obtains a bearer token from an authentication endpoint, keeps
it in memory, renews it in the background, and puts it on every request that it
forwards to one upstream API. This directory holds TLA+ modules of the parts of it
that have state, TLC runs that check them on small instances, and TLAPS proofs
about eight of them for every instance.

All paths below are relative to the repository. `PROJECT.json` lists components,
runs, mutants, hazards and theorems, and maps definitions to source lines.

## 1. The system

| part | state | operations | hard about it |
|---|---|---|---|
| `TokenManager` (`token_manager.py`) | token, times of last success and next refresh, earliest next attempt, error flag, start of the error, failure count; `_refresh_lock`, `_state_lock` | `refresh`, `refresh_rejected_token`, `ensure_token`, `get_token`, `snapshot`, `start`, `stop` | every request thread and the background thread call it; the clock and the state are read at one moment and used at another; HTTP exchanges happen while `_refresh_lock` is held |
| background thread (`_refresh_loop`) | its delay, `_stop_event` | sleep, refresh, sleep | sleeps on a delay computed from a schedule that others change |
| `UpstreamAPIClient` (`api_client.py`) | the token in hand, per request | `forward`, `request_with_recovery` | a token may end between being picked and being used; many requests are refused at once |
| `ProxyRequestHandler` (`server.py`), `SecurityPolicy`, `ProxyAuthenticator` (`security.py`) | the request, the header buffer, the connection | route, authorise, read body, policy, exchange, reply | the client leaves at any moment; what raises before, in and after the `try` statement |
| `snapshot`, `/readyz`, `/metrics` | none of their own | report | two clocks, one read before the lock |
| `run_server`, `main` (`server.py`, `app.py`) | socket, signal handlers, `stopping`, threads | start, serve, stop | a signal handler runs between any two steps of the main thread, those of a handler included |
| `start.sh`, `stop.sh`, `status.sh` | the PID file, processes | start, stop, report | no locking; a process changes what it looks like while it boots |
| `HTTPClient` (`http_client.py`), `AuthProvider` (`auth.py`) | the connection of an exchange | one exchange; authenticate, validate, JSON Pointer | failures of every kind, at any point; bodies that end early; which exception comes out |
| configuration (`config.py`, `app.py`) | `os.environ` while `proxy.env` is read; none once loaded | read the files, substitute, parse section by section, check, test or serve | substitutions that lead on or round in a circle; four sources for a number; what a check does not look at |

Request threads (one for each request, `ThreadingMixIn`) and the background thread
meet only in the `TokenManager`; the main thread reaches it through `start` and
`stop`. A refresh calls `AuthProvider`, which sends one request to the
authentication endpoint and, when validation is enabled, one to the upstream.

What makes each part correct:

* token manager: one authentication at a time; a recovery replaces the token that
  was refused and no other; a failure leaves the token in use alone; refreshes are
  spaced, and spaced wider after a failure;
* requests: one 401 is recovered, whoever recovers it; no race ends in an error;
  every request is answered;
* background thread: refreshes in time, lives until it is stopped, ends when it is;
* handler and policy: one whole reply per request, nothing forbidden at the upstream,
  nothing refused that is listed;
* authentication: a token is one that the endpoint sent, whole; a validated one works;
  what goes wrong comes out as an exception the handler knows;
* configuration: a setting has the value of its first source, substitution is
  expansion, and what is served is what the other parts take for granted;
* readiness: coherent, never negative, and true;
* lifecycle: a stop is never lost and ends the process in the time that
  `stop.sh` (20 s) and `compose.yml` (15 s) allow; what can keep it from that is one
  signal on top of another, and nothing else;
* scripts: never two proxies, and the reports are true.

## 2. Modules

```
Durations                    floats as spans of time: NaN, infinity
RefreshContract              what the token manager promises, sequentially
  ^ implemented by
TokenManager                 threads, locks, clock readings
  |- TokenManagerContract    the refinement mapping
  |    |- TokenManagerProofs theorems
  |    '- MC_TokenManager
  '- BearerProxy (INSTANCE)  + request threads, background thread, servers
       |- BearerProxyProofs   (and TokenManagerProofs, INSTANCE)
       '- MC_BearerProxy
RoutePolicy                  which requests may go to the upstream
  '- RequestHandler          one request in the handler
       |- RequestHandlerProofs
       '- MC_RequestHandler
JsonPointer                  json_pointer_get, and RFC 6901
  '- Authentication          authenticate and validate_token
       |- AuthenticationProofs
       '- MC_Authentication
Configuration                from the files to a server
  |- ConfigurationProofs
  '- MC_Configuration
DataLemmas                   induction, recursion, FlattenSeq, finite graphs:
                             shared by AuthenticationProofs and ConfigurationProofs
Readiness, ReadinessProofs   snapshots and the two clocks
Lifecycle                    the process, its threads and signals
PidFile                      the scripts
  |- MC_PidFile
  '- ProcessProofs           about Lifecycle and PidFile
```

**Durations** is extended by `TokenManager`, `RefreshContract`, `BearerProxy` and
`Readiness`. The code's times are floats; here they are whole seconds, `Inf` and `NaN`,
with `Less`, `Plus` and `Minus` as Python has them (`NaN` compares with nothing),
because neither `_coerce_expires_in` nor `_runtime_config` refuses the last two.

**TokenManager.** One variable for each attribute of the class, plus the holder of
`_refresh_lock`, and for each thread where it is (`pc`), its call, its `auth_result`
(`candidate`) and the time it read (`clock`). A section under `_state_lock` touches
only memory and is one action: `Decline` and `Proceed` (the early returns and their
opposite), `Install` (lines 77-89), `RecordFailure` (66-75). What lies between two
such sections is a step of its own: the wait for the lock, the clock reading
(`Acquire`), each HTTP exchange (`Authenticate`, `Validate`, `Fail`). The token is
compared, never looked into. `Calls` has both entry points with every argument.

**RefreshContract** is the same promise without threads and locks: a refresh begins
only with a cause that holds *at that moment*, asks for a candidate, has it validated
and installs that candidate, or fails and changes nothing but the quiet time. The
mapping in **TokenManagerContract** takes the refresh under way to be that of the
thread that holds the lock and has decided to refresh. That the code decides on a
clock reading of an earlier moment, and that callers queue behind a refresh that
changes what they came for, is what makes it more than a renaming.

**BearerProxy** composes an INSTANCE of TokenManager with the threads that call it.
A request is `TakeToken` or `AskForToken` and `EnsureToken` (`ensure_token`, with its
two separate reads), `Forward`, `Respond` or `Recover` and `Replace`
(`request_with_recovery`). The background thread is `LoopWake`, `LoopSleep`,
`LoopDies`, `LoopEnds`. The servers hand out tokens (`Issue`), end them (`Revoke`, at
any time) and fail. Constants say whether a new token ends the one before
(`SingleSession`), whether the endpoint may hand out the same token again (`Reissue`)
and whether candidates are validated. `rejections`, `disturbed` and `served` are
history variables for the properties. Callers never force a refresh, as in the code
(`Forced <- {FALSE}`); `MaxFailures <- 0` bounds only the callers of TokenManager's own
`Next`, whose place the request threads and the background thread take.

**RoutePolicy** is the part of `SecurityPolicy` that looks at method and path. A path
is the sequence of its segments ("/a/b/" is `<<"a", "b", "">>`), as the prefix tests
of the code all end at a slash; the constant `Decoded` gives the parts of a segment
once unquoted, because `_reject_unsafe_path` unquotes and the comparison with the
lists does not.

**RequestHandler** takes one request through `_handle_proxy`. A body is its length, a
target a path, a whole URL or what `urlsplit` cannot parse, a `Content-Length` header a
number or junk. `endless` says that the refresh due is infinitely far away when the
request comes: `snapshot` then raises, outside any `try` statement, and there is no
reply (`SnapshotRaises`). Replies go through `_headers_buffer` to the wire in two
writes; the client may leave before either. `guarded` says whether a write that fails is
caught by the last `except` clause, which then writes a second reply. The exchange is
`BearerProxy`'s subject; here it answers or raises.

**Authentication** has the two exchanges of a refresh, each in the steps `Build`,
`Open`, `Read` and a judgement (`Authenticate`, `Validate`). A peer answers, is out of
reach, is late or hangs up before or within its response, or ends it early; the body
is read up to `MaxResponse + 1` bytes. `lapse` is a history variable: how the peer
failed. `_extract_token`, `_coerce_expires_in` and the case-insensitive header lookup
are operators that return a value or the name of the exception. A body is text, a
document, a document that nests beyond Python's recursion limit ("deep": `json.loads`
raises `RecursionError` once the part that nests has come), or binary. Characters stand
for their kinds: `arabic1` is one that Latin-1 does not have, `eol` a line break, which
`http.client` takes in a header value only before a blank (`Encodable`, `Folded`).
`Open` has a disjunct for each place where it may fail: the headers, then the name
lookup and the timeout, then the peer. **JsonPointer** has
`json_pointer_get` character by character, because escapes and index digits are what
it is about (one digit of another script and one superscript stand for the others that
`str.isdigit()` holds for), and beside it `Located`, the places of a document with
the pointers that RFC 6901 gives them, built from the document and not from a
pointer.

**Configuration** goes from the start of the process to the moment it may serve: one
action for each line of `proxy.env`, for reading and for substituting the document,
for each section of `parse_config`, and for what `main` makes of the result. Strings
are sequences of pieces (references, numerals, texts), numbers are integers, NaN or
infinity, and a document is a function from the dotted names of its fields, absent
ones being outside its domain. `Expansion`, `Reached` and `Effective` are references
that compute bottom-up, or from the last line backwards, what the code finds in rounds
or by overwriting.

**Readiness** models `snapshot` against refreshes, with a monotonic clock and a wall
clock that somebody sets. Times are in ticks, `Unit` of them to a second, because the
code rounds down; the date of the next refresh may be infinite or NaN, and a snapshot then may
end without a report (`SnapshotRaises`). That refreshes are one at a time is taken from TokenManager.

**Lifecycle** has the main thread's steps, a stack of `request_stop` frames on top of it
(Python runs signal handlers between bytecodes, also inside a handler and while the main
thread waits for a lock), the threads that call `server.shutdown()`, and time, which
passes only while the main thread blocks. `stopping.set()` is two steps, `LockStopping`
and `MarkStopping`, because the lock of an `Event` is not reentrant: a call of
`request_stop` that interrupts another between the two waits for ever, and `Stuck` says
so. The thread that a handler starts is one step, as the locks that `Thread.start` takes
for the registry of threads are reentrant. The background thread may die of too long a
delay (`Refresh`). `serve_forever` and `shutdown` are modelled from how the standard
library's `socketserver` behaves: the flag is not cleared when serving starts, only when
it ends.

**PidFile** has the commands of the three scripts as steps, the redirection `> file`
as two (the shell truncates, then `printf` writes to a file that may have been
unlinked meanwhile). A process is `booting` until `run.sh` has become
`python app.py`, which is what `is_proxy_pid` looks for. `status=stale_pid_file`
counts as a report that the proxy is not running. `alone` is a history variable, the
scripts that no other has overlapped from start to end, so that a report can be held
against them. Its names begin with `PidFile`
(`PidFileSpec`, `PidFileTypeOK`) where Lifecycle has the same ones, so that one module
can hold the proofs about the process seen from inside and from outside.

Operators whose comment begins with "A faulty ..." are no part of the model: each is
the operator after it with a plausible bug, and `PROJECT.json` names the property
that detects it.

## 3. Runs

| run | instance | shows |
|---|---|---|
| `token_manager` | 3 threads, 2 tokens, lifetimes absent / used up by the margin / long / infinite / NaN, 4 ticks, forced and unforced calls | `TypeOK`, `LockDiscipline`, `RecoveryReplacesOnlyRejected`, `ScheduledRefreshSpacing`, `BackoffHonoured`, `ErrorFlagsAgree`; and `ImplementsContract`, the refinement |
| `proxy` | 2 requests, the background thread, 3 tokens, single session, validation, one lifetime, 3 ticks | `NoStampede`, `RefusalIsRecovered`, `ErrorsHaveCause`, `TokenIsNewest`, `RefreshedInTime` |
| `proxy_liveness` | 1 request, the background thread, a normal and a too long lifetime | `EveryRequestAnswered`, `StopEndsLoop`; the long lifetime kills the background thread (see 5), and requests are answered all the same |
| `request_handler` | all commands, keys, framings of up to two `Content-Length` headers, 20 targets, with and without an infinite delay | `OneReply`, `RefusalsStayLocal`, `UpstreamSeesOnlyPermitted`, `ListedIsServed` |
| `authentication` | every pointer of up to 5 characters into two documents, one an array of twelve; JSON, header and text tokens, with and without lifetime and validation, documents that nest too deep, tokens that no header can hold, peers that fail at every point | `LookupFollowsRfc6901`, `TokenIsWhole`, `ValidatedTokensWork`, `OtherFailuresAreCaused` |
| `configuration` | three variables with every pattern of references; `proxy.env` of up to two lines over environments and documents; documents with one or two unusual fields | `SubstitutionIsExpansion`, `SettingsHaveTheirSource`, `ServedIsSafe` |
| `readiness` | half-second ticks, threshold 1.5 s, delays finite, infinite and NaN, one setting of the clock | `ReportIsCoherent`, `ReadinessIsTruthful`, and in `TypeOK` that no age is negative |
| `lifecycle` | 3 signals, 2 requests in flight, polls of 1 s, join of 5 s | `StopNotLost`, `OnlyEarlySignalsStick`, `StopsWithinGrace`, `StopTerminates` |
| `pid_file` | 4 scripts one after another, 4 processes | `Registered`, `OneProxy` |

Three more runs check a statement of the repository that the code does not keep:

* `stampede` (`NoStampede`): `docs/SECURITY_MODEL.md:53` says that concurrent 401s
  for one token avoid a stampede. A finished refresh is recognised only by a token
  that differs from the refused one; when the endpoint hands out the same token
  again, each queued request authenticates again. In `proxy` tokens are never handed
  out twice, and the property holds.
* `short_lived_token` (`RefreshedInTime`): `README.md:99`, "refresh before expiry". A
  401 recovery that brings a token with a shorter lifetime does not wake the
  background thread, which sleeps until the date of the former token. In `proxy` all
  lifetimes are equal, and the property holds.
* `pid_file_race` (`TruthfulReports`): a `stop.sh` or `status.sh` beside a `start.sh`
  removes the PID file of a proxy that is still booting. A third script, which runs when
  both are over and beside nobody, then finds no PID file and says "is not running" of a
  proxy that is up.

Other disagreements are named where a property excepts them; section 5 lists them.

**Bounds.** The clock runs to 3-7 ticks, with intervals of 1-3: long enough for a
schedule to be set, to come due, to fail, to wait out the retry interval and to
succeed. Three threads are the holder of the lock, one that queued before the outcome
and one that comes after; more of them add no other relation to the holder. Three
tokens are one refused, one that replaces it, and one that replaces that. Consecutive
failures are bounded by 2 (the first one sets the start of the error, the second must
not) or by the number of threads. Three signals are one to start the stop, one that
interrupts its handler between lock and flag, and one late. In `pid_file` four
scripts are start, stop, start, and a status. In `configuration` three variables make
every chain, circle and missing link that `Rounds = 3` tells apart (a chain of three
is already too deep for the rounds: the last of them must change nothing), and the
three families of inputs are kept apart, since substitution, sources and the checks of
one section do not depend on each other beyond a field's value; fields that do are
varied two at a time (`Related`). In `authentication` a pointer of five characters has
two parts with an escape, or an index of four digits, the array has indices of one
digit and of two, and documents are three levels deep;
bodies are shorter than, as long as, one longer than and two longer than
`MaxResponse`. Token, thread and script
identities are only compared, so permutations of them are used as symmetry in runs
without temporal properties other than action properties. Deadlock is not checked:
clocks and calls are bounded, requests end, processes exit, so every model may stop.

**Fairness.** `BearerProxy` assumes that threads run (weak fairness of what a thread
does by itself), that an exchange ends in an answer or an error (weak fairness;
`HTTPClient` passes a timeout to every socket operation, which leaves out an endpoint
that trickles bytes for ever), and that a thread queued on `_refresh_lock` is not
passed over for ever (strong fairness of `Acquire`; `threading.Lock` gives no such
guarantee on paper, the operating system's wake-ups do in practice). Nothing is
assumed of clients arriving, tokens ending or `stop()` being called. `Lifecycle`
assumes that runnable threads run and time passes, and nothing of a refresh or a
request under way, which may last for ever. The other modules state no liveness.

## 4. Proofs

`TokenManagerProofs` proves, for any sets of threads and tokens, any lifetimes and
any configuration that satisfies the named assumptions of `TokenManager`:

* `TypeCorrect`, `MutualExclusion`, `RecoveryIsTargeted`, `RefreshesAreSpaced`,
  `RetriesWait`, `ErrorRecordsAgree`: `Spec => []P` for each safety invariant of the
  `token_manager` run;
* `ManagerImplementsContract`: `Spec => Contract!Spec`, the refinement.

The assumptions are `ConfigAssumption` (no interval or lifetime is zero or negative and
no margin negative, which is what the comparisons in `_runtime_config` and
`_coerce_expires_in` enforce; any of them may be infinite or NaN), `FloatAssumption`,
`NoneAssumption` and `BoundAssumption`. The bounds `MaxTime` and `MaxFailures` are
arbitrary numbers, so they exclude no finite behaviour.

The argument. `TypeOK` is not inductive: `Install` needs that the candidate of a thread
that is installing is a token, so `TypeInv` adds `LocalsOK`. `LockDiscipline` is
inductive with it. The three policy properties say that the reason for a refresh still
holds while it is under way. `PolicyInv` adds what that takes: clock readings lie in the
past (a decision made with an old reading is valid later, because time only helps), and
the scheduled date is NaN or at least the minimum interval after the last success (from
`DelayAtLeastMinInterval`, the lemma about `_compute_refresh_delay`, and the lemmas
about floats before it). `RefreshesAreSpaced` therefore excepts NaN dates, as does the
property. A thread that has decided keeps its reason because only the holder of the lock
changes token and schedule, and there is one (`ReasonsStep`, from `MutualExclusion`).
For the refinement, `ViewIdle` and `ViewBusy` say what the contract sees while no
refresh and while thread *t*'s refresh is under way, and `ContractStep` takes every
action to a step of the contract or a stutter; `Proceed` maps to `Begin` by `PolicyInv`
and the guard that `Decline` leaves.

`ProcessProofs` proves of Lifecycle `TypeCorrect`, `NoStopIsLost`, `MarkedNeverSticks`
and `GraceIsKept` (the invariants of the `lifecycle` run) for any number of signals and
requests, and any poll interval and join timeout that together are shorter than the
grace. `NoStopIsLost` and `GraceIsKept` except a main thread that is stuck;
`MarkedNeverSticks` says that it takes a second signal, and that once the stop is marked
nothing can get it stuck. The invariant adds four accounts. `SignalsAccounted`: every
frame of `request_stop` and every shutdown thread has a signal of its own, and there are
none before the handlers are installed. `LockAccounted`: the lock of the event has one
holder, and who waits on top of it does so before the stop is marked. `StopComing`: from
the signal on, a frame, a shutdown thread or the flag carries the stop. `TimeAccounted`:
in each place of the main thread, how much of the grace is spent, at most a poll before
the join and a poll and the time blocked during it. What a signal, the end of a
handler's call and its next step do to the stack is in `SignalOnTop`, `CallEnds` and
`CallGoesOn`, from which `SignalStep` and `HandlerStep` follow.

`ReadinessProofs` proves `TypeCorrect`, `CoherentReports` and `TruthfulReadiness` for
any resolution of the clocks, threshold and settings. What a report says depends on two
readings of each clock at different moments, so the invariant (`MomentsOK`) compares all
the moments that are kept with one another: as long as nobody set the clock between two
of them (`SameEra`), wall clock and monotonic clock have gone the same way.
`RecordsAgree` says that the error flag, its date and the failure count go together,
with the outage as it really was. `AgeOf` is the lemma about rounding down, negative
differences included, `DateIsSpan` the one about dates that may be infinite or NaN. The
proofs say nothing of snapshots that raise, for which there is no report.

`RequestHandlerProofs` proves all five invariants of the `request_handler` run for any
lists of methods and paths, any prefix, targets, framings and limits. `TypeCorrect`,
`OneWholeReply`, `RefusalsAreLocal` and `OnlyPermittedIsSent` follow from an invariant
that says what has been judged by the time the handler is at each place (`Judged`), of
what was sent on that all of it had been (`SentOn`), that nothing is written before a
decision (`NothingYet`), and of the two writes (`Written`) that the headers of a second
reply stay in the buffer because they are only written when the client has gone.
`OneWholeReply` names the two requests that get no reply at all (`Unanswered`), and says
that no other ends without one. `Reasons` gives each refusal its reason, from which
`ListedPathsAreServed` follows. Between the code's prefix tests and the statements about
paths stand lemmas on sequences: `PatternOfPath` (a pattern that matches is a beginning
of the path and a star) and `PrefixOfConcat` (and conversely).

The assumptions of these three are `LifecycleAssumption`, `ReadinessAssumption`,
`PolicyAssumption` and `HandlerAssumption`: types of the constants, positive units,
a prefix that is not "/" and patterns that are not empty, as `normalize_path` and
`parse_config` see to, except for the prefix "/" (see 5).

`BearerProxyProofs` proves all five invariants of the `proxy` run, the types and the
refinement, for any sets of requests and tokens, any lifetimes, servers and clock:

* `TypeCorrect`, `ErrorsAreCaused`, `NewestTokenIsInUse`, without further hypotheses;
* `OneRefreshForAllRefusals`, `OneRefusalIsRecovered`, provided that the endpoint never
  hands out a token again (`~ Reissue`); the run `stampede` shows that the first of
  them is false otherwise;
* `LoopWakesInTime`, provided that all lifetimes lead to one delay (`OneDelay`); the run
  `short_lived_token` shows that it is false otherwise;
* `ProxyImplementsContract`: the proxy with all its threads implements
  `RefreshContract`, so what the token manager promises holds among its real callers.

The assumptions are those of `TokenManager` (`ManagerAssumption`) and
`ProxyAssumption`. The argument begins with `StepOfManager`: every step of the proxy
is a step of the manager or leaves it alone, hence keeps the invariant that
`TokenManagerProofs` established (`BaseStep`). `BaseInv` adds that a thread is inside
the manager only while its caller waits for it, with the call that its caller made
(`CallersOK`), and what a request has in hand at each stage (`RequestsOK`). Each
property then gets an invariant of its own on top of that one:

* `CauseInv`: while the last attempt stands failed, it has disturbed every request
  under way, so that what `ensure_token` or a recovery reports names no other cause;
* `NewestInv`: the newest token is in use or in the hands of the holder of the lock,
  unless an attempt failed after it had been handed out. There is one holder
  (`OneHolder`), so nothing older can be installed over it;
* `FreshInv`, `RecoveredInv`, `ServedInv`, `RefusalsInv`: a candidate is nobody's token
  yet; therefore a token installed after a refusal differs from the refused one,
  whoever installed it; therefore a queued recovery finds its work done and a
  request is refused twice only if two tokens ended;
* `ScheduledInv` and `WakeInv`: the date of the next refresh is one delay after some
  past success, and the loop's wait ends by it or a minimum (or retry) interval
  later. `DateNotBroughtForward` is where `OneDelay` is used, and nowhere else.

Of PidFile it proves `PidFileTypes` for any number of scripts at a time and, with one
at a time (`MaxActive = 1`), `FileIsRight`, `NeverTwo` and `ReportsAreTrue`, the action
property that two scripts break in `pid_file_race`. `PidFileInv` says what holds
between scripts (`Settled`: whatever is up is named by the file, nothing boots) and
what the script that runs knows at each of its commands (`Knows`); processes may end
or crash at any moment (`ProcessesOnlyEnd`).

`AuthenticationProofs` proves `ResultsAreFit` (the types), `TokensComeWhole`,
`ValidationIsTold` and `FailuresAreCaused` for any answers of the servers, any pointers
into any documents, and any limit on responses. `AuthenticationAssumption` says that
the values that stand for none, NaN, infinity and huge numbers differ,
`SetupsAssumption` that answers have the form of responses and strings that of
sequences of characters. `ExchangeInv` says where the body in hand came from and how
much of it there is (`WhatCame`: it is the whole of an answer, or its first
`MaxResponse + 1` bytes, or the connection broke). The rest is about the operators:
`ExtractOutcome` (a token is a string that is not blank, or which exception comes
out), `PointerOutcome` (what `json_pointer_get` may return or raise), `HeaderIsSent`,
and `StripTwice`, since `_extract_token` strips what is tested for blanks.

`LookupIsRight` (`LookupFollowsRfc6901`) is the largest of them: for documents of any
width and depth and pointers of any length, the pointer finds what the document has at
that place, and nothing where it has nothing. `json_pointer_get` reads a pointer from
the left; the reference, `Located`, writes pointers from the root of the document down.
That they agree takes four steps.

* `WrittenAndRead`, `ReadAndWritten`: on strings that are well escaped and have no
  slash (`Fit`), `_decode_pointer_part` and `Escape` undo each other, in both orders.
  What the code makes of a character depends on the one before it, so the induction is
  on pieces that begin and end between escapes (`InARow`).
* `IndicesAreListed`, `IndexIsUnique`: the numerals without leading zeros, in the order
  of their values, are the indices of an array, each once. `LongIndex` takes the last
  digit off.
* `GetLonger`: a pointer with one more part is followed one turn further
  (`PartsOfLonger`: the parts before it are the same).
* `PlacesAreFound` goes down the document level by level, `FindingsArePlaces` up the
  pointer part by part, each with one member for its step (`MemberIsFound`,
  `FoundIsMember`).

The proof showed that the code takes a liberty more than the zeros at the beginning of
an index: `str.isdigit()` and `int()` take the digits of every script. `TakesLiberty`
names both, and where a pointer takes neither the code does what RFC 6901 says. A
document is taken to be JSON in all its places (`SetupsAssumption`: names and strings
are sequences of characters, arrays are sequences). Python's limit on the digits that
`int()` converts is left out: an index of more than 4300 digits finds nothing in either
case, but raises `ValueError`.

`ConfigurationProofs` proves `TypeCorrect`, `SettingsAreFirstSourced`, `ServingIsSound`
and `SubstitutionIsSound` for every `proxy.env`, every environment and every document.
`ConfigurationAssumption` says that three values differ, no URL is a placeholder and the
names of variables are finitely many, `InputsAssumption` that the lines of the file are
blank, malformed or assignments, that every string of the document is a sequence of
pieces, and that what stands for an exception is no string. `EnvironmentInv` gives the
environment after each line in closed form: the last line so far that assigns a
variable, or what the process was started with (`OneLineMore`). `ParsedInv` says that
what has been parsed is what `Runtime` and `Server` make of the document and
environment, which stay as they are meanwhile, and that it passed the checks of its
section. Which of up to four sources a number comes from is settled by `FirstSource`,
`IntervalSource` and `ThreeRetries`. `ServingIsSound` promises what the comparisons of
`_runtime_config` see to, that no interval is zero or negative, which is
`ConfigAssumption` of TokenManager; NaN and infinity pass both. None of these depends on
how deep references go, because the sections are parsed from whatever substitution
returned.

`SubstitutionIsSound` (`SubstitutionIsExpansion`) is about how deep they go. The code
replaces all references of a string at once, round after round, until a round changes
nothing; the references `Reached`, `Circular`, `Height` and `Expansion` are computed
over the names. In between stands the graph whose nodes are names, with an edge to each
name that a value refers to. The names that a string refers to after *k* rounds are
those that a walk of *k* steps ends at (`OrbitWalks`). If no reachable name is on a
circle, walks end before they have as many steps as there are names (`WalksEnd`), so
the string comes to rest (`OrbitRests`), after `Height` rounds (`HeightValue`), at its
expansion (`ExpansionValue`, from `JoinedTwice`: replacing pieces one by one or all at
once is the same). If one is, there is a walk of every length (`WalksGoOn`), and so
references never run out: the rounds do, or a round leaves the string as it was
(`Standstill`). `SubstitutionOfOne` puts the cases together for one string and
`SubstitutionKept` for the document.

`DataLemmas` has what both kinds of proof about data rest on. The induction theorems of
the library take a predicate as a parameter, which the provers cannot instantiate; here
a set of naturals takes its place (`AllNaturals`, `AllUpTo`, from `LeastNatural`, the
absence of a first counterexample). `SomeTurns` and `SameTurns` say that a function
defined by recursion on a natural exists and is the only one, `FlattenType`,
`FlattenConcat` and `FlattenElements` what `FlattenSeq` does, and the `Closure` and
`Walks` lemmas what the nodes of a finite graph lead to.

The strengthened invariants of these four hold on the instances of their runs as well
(`ConfigurationInv` and `AuthenticationInv` except for the membership of the inputs in
their sets, which TLC would have to enumerate).

Every invariant that a run checks is stated by a theorem, and so are the refinement and
the action property of `pid_file_race`, where it holds. Model-checked only:

* all liveness, `EveryRequestAnswered`, `StopEndsLoop`, `StopTerminates`: fairness and
  ENABLED are beyond the prover;
* that what the proofs have as hypotheses cannot be spared: the three runs that end in a
  violation.

## 5. Not modelled

* Header filters (`filter_request_headers`, `filter_response_headers`): lookups in a
  set, without state.
* TLS, redirects (refused by `NoRedirectHandler`), logging; the grammar of URLs and the
  spelling of texts (case, blanks): classes of texts stand for them.
* The duration of an exchange: the timeout bounds one socket operation, so a peer that
  sends a byte now and then holds an exchange, and with it `_refresh_lock`, for ever.
  Number of threads; inbound clients that stall.
* Process numbers used again by another program.
* `setup.sh`, the autostart scripts, images and pipelines: file copies and crontab edits
  run once by an operator; building and packaging.

* A script that is killed, `start.sh` between the spawn and the write of the PID file
  above all, and a machine on which a second is not enough for `run.sh` to boot.
* References that arise from pieces of two values (`config.py:351` scans the text that a
  round has made): the pieces of Configuration cannot join into a new reference.
* What `float()` reads beyond whole numbers, NaN and infinity (fractions, signs and
  exponents in a string); characters of more than one byte in a body that is the token.

What the code does against its documents, and the models therefore say, with the
exception named in the property:

* A lifetime, or an interval, that is NaN passes the comparisons (`auth.py:157`,
  `config.py:504`), although the message at `config.py:505` says "must be positive and
  safe". The date of the next refresh is then NaN, before which no time is: refreshes
  follow each other without the "minimum scheduled refresh delay" of
  `docs/CONFIG_REFERENCE.md:81`. `ScheduledRefreshSpacing` and `ServedIsSafe` except it.
* A delay over `threading.TIMEOUT_MAX`, an infinite one included, makes `Event.wait`
  raise outside the `try` statement and ends the background thread
  (`token_manager.py:160`), against `README.md:99`. `LoopDies` and Lifecycle's `Refresh`
  have it; `EveryRequestAnswered` holds all the same.
* After an infinite lifetime (`json` reads `1e999` as one) `snapshot` raises in
  `int(next_seconds)` (`token_manager.py:143`): `/readyz`, from which `Dockerfile:27`
  takes the container's health, and `/metrics` close the connection without a reply.
  `OneReply` excepts them.
* A wrong proxy key that is not ASCII makes `compare_digest` raise (`server.py:106`): no
  reply; `OneReply` excepts it.
* A second SIGTERM or SIGINT that comes while the first is between the lock and the flag
  of `stopping.set()` (`server.py:216`) waits for that lock on the thread that holds it:
  the process goes on until it is killed, although the message at `server.py:217` says
  "stopping". The properties of `lifecycle` except `Stuck`, and `OnlyEarlySignalsStick`
  says how narrow that is.
* The path of the authentication endpoint is compared as it is spelled
  (`security.py:76`); `docs/INTEGRATION_GUIDE.md:158`, `README.md:141` and
  `docs/SECURITY_MODEL.md:18` say that it is never exposed. A path with an escape in it
  that decodes to it is sent on where the list allows it, as the default does.
  `UpstreamSeesOnlyPermitted` promises the spelling of the configuration only.
* A peer that hangs up, and one that stalls in the body of a refusal, raise exceptions
  that are no `TransportError` (`errors.py:13`); a document that nests too deep, a number
  too large for a float and superscript digits in an index ones that are no
  `AuthenticationError` (`errors.py:25`): the caller gets 500 where 502 is meant.
  `OtherFailuresAreCaused` names them.
* An index with leading zeros, or with digits of another script, is accepted, against
  RFC 6901 and so `docs/CONFIG_REFERENCE.md:51`. `LookupFollowsRfc6901` names both.

Noticed on the way, where no document says otherwise:

* `"${A}"` with `A="${A}"` counts as resolved and comes out with the placeholder in it.
* The body of `auth.validation` is not compared with its `body_type`
  (`config.py:475`): the first refresh finds out, with an `AttributeError`, which
  `OtherFailuresAreCaused` names. A `null` for `server.proxy_api_key` raises
  `AttributeError` instead of `ConfigError`.
* With `route_prefix` "/" no path is reachable.
* A token that no header can hold fails in `http.client` with `ValueError` or
  `UnicodeEncodeError`; without validation it is installed. A line break before a blank
  is a fold, and passes.
* A timeout that is NaN or beyond what a socket takes makes every exchange raise
  `ValueError` or `OverflowError` once the peer's name is resolved.
* `docs/SETUP_GUIDE.md:59` names `runtime/bearer-token-api-proxy.pid`, the scripts use
  `runtime/bearer-token-api_proxy.pid`.

## 6. Plan

1. done: `TokenManager`, `RefreshContract`, refinement and proofs; `BearerProxy`;
   `Lifecycle`, `Readiness`, `RequestHandler` and their proofs; `PidFile`;
   `RoutePolicy`; `Authentication` and `JsonPointer`; `Configuration`.
2. done, proofs: `BearerProxy` on top of the invariant of `TokenManager`, with the
   refinement; `PidFile`; `Authentication`, with the lookup of RFC 6901 for every
   document and pointer; `Configuration`, with substitution for every environment.
3. next, proofs: action properties of `BearerProxy` (a token that was replaced does not
   come back while `~ Reissue`).
4. then: the duration of exchanges in `BearerProxy`, to say what a slow endpoint holds up.
