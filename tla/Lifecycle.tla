----------------------------- MODULE Lifecycle -----------------------------
(***************************************************************************)
(* The life of the proxy process (server.run_server, TokenManager.start    *)
(* and stop, app.main): the main thread, the SIGTERM and SIGINT handler    *)
(* that Python runs on top of it, the thread that calls server.shutdown(), *)
(* the background refresh thread and the request threads, all daemons.     *)
(*                                                                         *)
(* Time counts only from the moment a stop is asked for, in seconds.       *)
(***************************************************************************)
EXTENDS Integers, Sequences

CONSTANTS
  MaxSignals,   \* bound on the signals sent
  MaxRequests,  \* bound on the requests in flight
  Poll,         \* serve_forever's poll_interval, rounded up
  JoinTimeout,  \* the timeout of stop()'s join
  Grace         \* bound on the clock: what supervisors wait before they kill

ASSUME LifecycleAssumption ==
  /\ {MaxSignals, MaxRequests, Poll, JoinTimeout, Grace} \subseteq Nat
  /\ Poll + JoinTimeout < Grace

Signals == {"SIGTERM", "SIGINT"}

VARIABLES
  main,             \* where run_server is
  installed,        \* the signals that request_stop handles
  frames,           \* calls of request_stop on the main thread, innermost first
  stopping,         \* the event that request_stop sets
  callers,          \* threads that are about to call server.shutdown()
  shutdownRequest,  \* the flag that shutdown() sets for serve_forever
  listening,        \* the listening socket is open
  background,       \* the refresh thread
  stopEvent,        \* TokenManager._stop_event
  inFlight,         \* requests being handled
  sent,             \* signals sent so far
  elapsed,          \* time since the stop was asked for
  blocked           \* time the main thread has spent in its blocking call

server == <<shutdownRequest, listening>>
manager == <<background, stopEvent>>
timers == <<elapsed, blocked>>
vars == <<main, installed, frames, stopping, callers, server, manager, inFlight,
          sent, timers>>

Ended == {"failed", "killed", "exited"}
Places == {"configuring", "binding", "installing", "starting", "serving",
           "leaving", "closing", "stopping", "joining"} \cup Ended
Alive == main \notin Ended

Init ==
  /\ main = "configuring"
  /\ installed = {}
  /\ frames = <<>>
  /\ stopping = FALSE
  /\ callers = 0
  /\ shutdownRequest = FALSE /\ listening = FALSE
  /\ background = "none" /\ stopEvent = FALSE
  /\ inFlight = 0
  /\ sent = 0
  /\ elapsed = 0 /\ blocked = 0

-----------------------------------------------------------------------------
(* run_server.  The main thread goes on only when no handler runs on it.   *)

At(p) == main = p /\ frames = <<>>

Go(p) == main' = p /\ blocked' = 0

\* check_configuration and build_application.
Configure ==
  /\ At("configuring")
  /\ Go("binding")
  /\ UNCHANGED <<installed, frames, stopping, callers, server, manager, inFlight, sent, elapsed>>

\* Any of the two, or binding the port, may raise: app.main returns 1.
StartFails ==
  /\ At("configuring") \/ At("binding")
  /\ Go("failed")
  /\ UNCHANGED <<installed, frames, stopping, callers, server, manager, inFlight, sent, elapsed>>

\* ProxyHTTPServer(...) binds and listens.
Bind ==
  /\ At("binding")
  /\ listening' = TRUE
  /\ Go("installing")
  /\ UNCHANGED <<installed, frames, stopping, callers, shutdownRequest, manager, inFlight, sent, elapsed>>

\* signal.signal(SIGTERM, ...), then signal.signal(SIGINT, ...).
InstallHandler ==
  /\ At("installing")
  /\ IF "SIGTERM" \in installed
     THEN installed' = Signals /\ Go("starting")
     ELSE installed' = {"SIGTERM"} /\ Go("installing")
  /\ UNCHANGED <<frames, stopping, callers, server, manager, inFlight, sent, elapsed>>

\* A faulty StartManager: a stop that came early is forgotten, as
\* serve_forever would if it cleared the flag on entry.
StartManagerClearsRequest ==
  /\ At("starting")
  /\ background' = "waiting"
  /\ shutdownRequest' = FALSE
  /\ Go("serving")
  /\ UNCHANGED <<installed, frames, stopping, callers, listening, stopEvent, inFlight, sent, elapsed>>

\* app.token_manager.start()
StartManager ==
  /\ At("starting")
  /\ background' = "waiting"
  /\ Go("serving")
  /\ UNCHANGED <<installed, frames, stopping, callers, server, stopEvent, inFlight, sent, elapsed>>

\* serve_forever sees the flag and leaves its loop; its finally clears it.
Leave ==
  /\ At("serving")
  /\ shutdownRequest
  /\ Go("leaving")
  /\ UNCHANGED <<installed, frames, stopping, callers, server, manager, inFlight, sent, elapsed>>

ClearRequest ==
  /\ At("leaving")
  /\ shutdownRequest' = FALSE
  /\ Go("closing")
  /\ UNCHANGED <<installed, frames, stopping, callers, listening, manager, inFlight, sent, elapsed>>

\* A faulty Close: run_server forgets server_close().
CloseNothing ==
  /\ At("closing")
  /\ Go("stopping")
  /\ UNCHANGED <<installed, frames, stopping, callers, server, manager, inFlight, sent, elapsed>>

\* server.server_close(): with daemon_threads it waits for no request.
Close ==
  /\ At("closing")
  /\ listening' = FALSE
  /\ Go("stopping")
  /\ UNCHANGED <<installed, frames, stopping, callers, shutdownRequest, manager, inFlight, sent, elapsed>>

\* app.token_manager.stop()
StopManager ==
  /\ At("stopping")
  /\ stopEvent' = TRUE
  /\ Go("joining")
  /\ UNCHANGED <<installed, frames, stopping, callers, server, background, inFlight, sent, elapsed>>

\* A faulty JoinOver: the join waits for the refresh under way.
JoinHasNoTimeout == background \in {"ended", "died"}

JoinOver == background \in {"ended", "died"} \/ blocked >= JoinTimeout

\* The join ends with the thread or with its timeout; run_server returns and
\* the process exits, cutting off the threads that are left.
Exit ==
  /\ At("joining")
  /\ JoinOver
  /\ Go("exited")
  /\ inFlight' = 0
  /\ UNCHANGED <<installed, frames, stopping, callers, server, manager, sent, elapsed>>

Main ==
  \/ Configure \/ StartFails \/ Bind \/ InstallHandler \/ StartManager
  \/ Leave \/ ClearRequest \/ Close \/ StopManager \/ Exit

-----------------------------------------------------------------------------
(* Signals.                                                                *)

\* A signal that request_stop handles interrupts the main thread, a handler
\* that is running included; any other one ends the process.
Signal(s) ==
  /\ Alive
  /\ sent < MaxSignals
  /\ sent' = sent + 1
  /\ IF s \in installed
     THEN frames' = <<"testing">> \o frames /\ UNCHANGED <<main, inFlight>>
     ELSE main' = "killed" /\ frames' = <<>> /\ inFlight' = 0
  /\ UNCHANGED <<installed, stopping, callers, server, manager, timers>>

\* The call of request_stop on top of the others.
Handling(p) == Alive /\ frames # <<>> /\ Head(frames) = p

InHandler(p) == frames' = <<p>> \o Tail(frames)

\* A faulty TestStopping: every signal sets the event anew.
TestNothing ==
  /\ Handling("testing")
  /\ InHandler("locking")
  /\ UNCHANGED <<main, installed, stopping, callers, server, manager, inFlight, sent, timers>>

\* if stopping.is_set(): return
TestStopping ==
  /\ Handling("testing")
  /\ IF stopping THEN frames' = Tail(frames) ELSE InHandler("locking")
  /\ UNCHANGED <<main, installed, stopping, callers, server, manager, inFlight, sent, timers>>

\* stopping.set() takes the event's lock, which is not reentrant: a call that
\* interrupts another one between the lock and the flag waits for it in vain.
LockStopping ==
  /\ Handling("locking")
  /\ \A i \in DOMAIN frames : frames[i] # "setting"
  /\ InHandler("setting")
  /\ UNCHANGED <<main, installed, stopping, callers, server, manager, inFlight, sent, timers>>

\* Under the lock it sets the flag.
MarkStopping ==
  /\ Handling("setting")
  /\ stopping' = TRUE
  /\ InHandler("spawning")
  /\ UNCHANGED <<main, installed, callers, server, manager, inFlight, sent, timers>>

\* A faulty SpawnShutdown: request_stop only sets its own event.
SpawnNothing ==
  /\ Handling("spawning")
  /\ frames' = Tail(frames)
  /\ UNCHANGED <<main, installed, stopping, callers, server, manager, inFlight, sent, timers>>

\* threading.Thread(target=server.shutdown).start()
SpawnShutdown ==
  /\ Handling("spawning")
  /\ callers' = callers + 1
  /\ frames' = Tail(frames)
  /\ UNCHANGED <<main, installed, stopping, server, manager, inFlight, sent, timers>>

Handler == TestStopping \/ LockStopping \/ MarkStopping \/ SpawnShutdown

\* server.shutdown() sets the flag; what it then waits for blocks nobody else.
Shutdown ==
  /\ Alive
  /\ callers > 0
  /\ callers' = callers - 1
  /\ shutdownRequest' = TRUE
  /\ UNCHANGED <<main, installed, frames, stopping, listening, manager, inFlight, sent, timers>>

-----------------------------------------------------------------------------
(* The other threads, and time.                                            *)

\* serve_forever accepts a connection and starts its thread.
Accept ==
  /\ At("serving")
  /\ ~ shutdownRequest
  /\ inFlight < MaxRequests
  /\ inFlight' = inFlight + 1
  /\ UNCHANGED <<main, installed, frames, stopping, callers, server, manager, sent, timers>>

\* A request thread ends.
Respond ==
  /\ inFlight > 0
  /\ inFlight' = inFlight - 1
  /\ UNCHANGED <<main, installed, frames, stopping, callers, server, manager, sent, timers>>

\* A refresh lasts as long as the endpoint takes.  The wait after it, unless the
\* event is set, raises OverflowError for a delay that no timeout can express:
\* that ends the thread.
Refresh ==
  /\ Alive
  /\ \/ background = "waiting" /\ ~ stopEvent /\ background' = "refreshing"
     \/ background = "refreshing" /\ background' = "waiting"
     \/ background = "refreshing" /\ ~ stopEvent /\ background' = "died"
  /\ UNCHANGED <<main, installed, frames, stopping, callers, server, stopEvent, inFlight, sent, timers>>

\* _stop_event.wait returns True.
EndLoop ==
  /\ Alive
  /\ background = "waiting"
  /\ stopEvent
  /\ background' = "ended"
  /\ UNCHANGED <<main, installed, frames, stopping, callers, server, stopEvent, inFlight, sent, timers>>

\* The main thread waits for ever: a call of request_stop waits for the event's
\* lock, which a call that it interrupted holds.
Stuck ==
  \E i, j \in DOMAIN frames : i < j /\ frames[i] = "locking" /\ frames[j] = "setting"

\* A handled signal has come.
Asked == stopping \/ frames # <<>>

\* Time passes only while the main thread blocks, in select, in join or for
\* ever, and the shutdown threads have run.
Tick ==
  /\ Asked
  /\ callers = 0
  /\ elapsed < Grace
  /\ elapsed' = elapsed + 1
  /\ \/ frames = <<>> /\ main = "serving" /\ blocked < Poll /\ blocked' = blocked + 1
     \/ frames = <<>> /\ main = "joining" /\ ~ JoinOver /\ blocked' = blocked + 1
     \/ Stuck /\ UNCHANGED blocked
  /\ UNCHANGED <<main, installed, frames, stopping, callers, server, manager, inFlight, sent>>

Next ==
  \/ Main
  \/ \E s \in Signals : Signal(s)
  \/ Handler
  \/ Shutdown
  \/ Accept
  \/ Respond
  \/ Refresh
  \/ EndLoop
  \/ Tick

\* Threads that can run do, and time passes.  Nothing is assumed of requests
\* and of a refresh under way: they may last for ever.
Fairness ==
  /\ WF_vars(Main)
  /\ WF_vars(Handler)
  /\ WF_vars(Shutdown)
  /\ WF_vars(EndLoop)
  /\ WF_vars(Tick)

Spec == Init /\ [][Next]_vars
FairSpec == Spec /\ Fairness

-----------------------------------------------------------------------------
(* Properties.                                                             *)

TypeOK ==
  /\ main \in Places
  /\ installed \subseteq Signals
  /\ frames \in Seq({"testing", "locking", "setting", "spawning"})
  /\ stopping \in BOOLEAN
  /\ callers \in 0 .. MaxSignals
  /\ shutdownRequest \in BOOLEAN
  /\ listening \in BOOLEAN
  /\ main # "killed" =>
       (listening <=> main \in {"installing", "starting", "serving", "leaving", "closing"})
  /\ background \in {"none", "waiting", "refreshing", "died", "ended"}
  /\ stopEvent \in BOOLEAN
  /\ inFlight \in 0 .. MaxRequests
  /\ elapsed \in 0 .. Grace /\ blocked \in 0 .. Grace

\* A stop that a signal asked for is never lost, not even one that comes before
\* serve_forever starts, unless the main thread is stuck in request_stop: until
\* the server has left its loop either the flag is up or a thread, or a call of
\* request_stop, is on its way to raise it.
StopNotLost ==
  Asked /\ ~ Stuck /\ main \in {"installing", "starting", "serving"}
    => \/ shutdownRequest
       \/ callers > 0
       \/ \E i \in DOMAIN frames :
            \/ frames[i] \in {"locking", "setting", "spawning"}
            \/ frames[i] = "testing" /\ ~ stopping

\* Only a second signal that comes before the first is marked can get the main
\* thread stuck: once the stop is marked, no signal can.
OnlyEarlySignalsStick == Stuck => ~ stopping /\ sent >= 2

\* From the moment the stop is asked for, the process is gone within the poll
\* interval and the join timeout, whatever request or refresh is under way, unless
\* its main thread is stuck: well before scripts/stop.sh (20 s) and compose.yml
\* (stop_grace_period 15s) give up.
StopsWithinGrace == Alive /\ ~ Stuck => elapsed <= Poll + JoinTimeout

\* A stop that was asked for ends the process, or leaves it stuck: "stopping", as
\* the message of request_stop says (server.py:217), holds but for that.
StopTerminates == Asked ~> ~ Alive \/ Stuck
=============================================================================
