---------------------------- MODULE ProcessProofs ---------------------------
(***************************************************************************)
(* Proofs about the process: what it does when it is told to stop, and     *)
(* what the scripts that start and stop it know of it.                     *)
(*                                                                         *)
(* About Lifecycle, for any number of signals and requests, and any poll   *)
(* interval and join timeout that add up to less than the grace period.    *)
(*                                                                         *)
(* About PidFile, that the variables keep their types whatever the scripts *)
(* do, and that the PID file is right as long as the operator lets one     *)
(* script end before the next begins (MaxActive = 1).  The run             *)
(* pid_file_race shows that two scripts at a time are too many.            *)
(***************************************************************************)
EXTENDS Lifecycle, PidFile, FiniteSetTheorems, SequenceTheorems, TLAPS

-----------------------------------------------------------------------------
(* The handler's frames.                                                   *)

Steps == {"testing", "locking", "setting", "spawning"}

\* A call of request_stop is on its way to shutdown().
Coming(f, marked) ==
  \E i \in DOMAIN f :
    \/ f[i] \in {"locking", "setting", "spawning"}
    \/ f[i] = "testing" /\ ~ marked

\* A call waits for a lock that one beneath it holds.
Waiting(f) ==
  \E i, j \in DOMAIN f : i < j /\ f[i] = "locking" /\ f[j] = "setting"

\* One call at most holds the lock.
OneHolder(f) ==
  \A i, j \in DOMAIN f : f[i] = "setting" /\ f[j] = "setting" => i = j

\* A call of request_stop on top of those under way.
LEMMA Pushed ==
  ASSUME NEW f \in Seq(Steps), NEW x \in Steps
  PROVE  /\ <<x>> \o f \in Seq(Steps)
         /\ Len(f) \in Nat /\ DOMAIN f = 1 .. Len(f)
         /\ Len(<<x>> \o f) = Len(f) + 1
         /\ DOMAIN (<<x>> \o f) = 1 .. Len(f) + 1
         /\ (<<x>> \o f)[1] = x
         /\ \A i \in 1 .. Len(f) : (<<x>> \o f)[i + 1] = f[i]
<1>1. <<x>> \in Seq(Steps) /\ Len(<<x>>) = 1 /\ <<x>>[1] = x
  OBVIOUS
<1>2. /\ <<x>> \o f \in Seq(Steps)
      /\ Len(<<x>> \o f) = Len(f) + 1
      /\ \A i \in 1 .. Len(f) + 1 : (<<x>> \o f)[i] = IF i <= 1 THEN x ELSE f[i - 1]
  BY <1>1, ConcatProperties
<1>3. Len(f) \in Nat /\ DOMAIN f = 1 .. Len(f) /\ DOMAIN (<<x>> \o f) = 1 .. Len(f) + 1
  BY <1>2, LenProperties
<1>4. QED
  BY <1>2, <1>3

\* The call on top is over.
LEMMA Popped ==
  ASSUME NEW f \in Seq(Steps), f # <<>>
  PROVE  /\ Tail(f) \in Seq(Steps)
         /\ Len(f) \in Nat \ {0} /\ DOMAIN f = 1 .. Len(f)
         /\ Len(Tail(f)) = Len(f) - 1
         /\ DOMAIN Tail(f) = 1 .. Len(f) - 1
         /\ Head(f) = f[1]
         /\ \A i \in 1 .. Len(f) - 1 : Tail(f)[i] = f[i + 1]
<1>1. /\ Tail(f) \in Seq(Steps)
      /\ Head(f) = f[1]
      /\ Len(Tail(f)) = Len(f) - 1
      /\ \A i \in 1 .. Len(Tail(f)) : Tail(f)[i] = f[i + 1]
  BY HeadTailProperties
<1>2. /\ Len(f) \in Nat \ {0} /\ DOMAIN f = 1 .. Len(f)
      /\ DOMAIN Tail(f) = 1 .. Len(f) - 1
  BY <1>1, LenProperties, EmptySeq
<1>3. QED
  BY <1>1, <1>2

\* The call on top goes on to x.
LEMMA Replaced ==
  ASSUME NEW f \in Seq(Steps), f # <<>>, NEW x \in Steps
  PROVE  LET g == <<x>> \o Tail(f) IN
         /\ g \in Seq(Steps)
         /\ Len(f) \in Nat \ {0} /\ DOMAIN f = 1 .. Len(f)
         /\ Len(g) = Len(f) /\ DOMAIN g = 1 .. Len(f)
         /\ Head(f) = f[1] /\ g[1] = x
         /\ \A i \in 2 .. Len(f) : g[i] = f[i]
<1> DEFINE g == <<x>> \o Tail(f)
<1>1. /\ Tail(f) \in Seq(Steps)
      /\ Len(f) \in Nat \ {0} /\ DOMAIN f = 1 .. Len(f)
      /\ Len(Tail(f)) = Len(f) - 1
      /\ Head(f) = f[1]
      /\ \A i \in 1 .. Len(f) - 1 : Tail(f)[i] = f[i + 1]
  BY Popped
<1>2. /\ g \in Seq(Steps)
      /\ Len(g) = Len(Tail(f)) + 1
      /\ DOMAIN g = 1 .. Len(Tail(f)) + 1
      /\ g[1] = x
      /\ \A i \in 1 .. Len(Tail(f)) : g[i + 1] = Tail(f)[i]
  BY <1>1, Pushed
<1>3. ASSUME NEW i \in 2 .. Len(f) PROVE g[i] = f[i]
  <2>1. i - 1 \in 1 .. Len(f) - 1 /\ (i - 1) + 1 = i
    BY <1>1
  <2>2. g[(i - 1) + 1] = Tail(f)[i - 1] /\ Tail(f)[i - 1] = f[(i - 1) + 1]
    BY <1>1, <1>2, <2>1
  <2>3. QED
    BY <2>1, <2>2
<1>4. Len(g) = Len(f) /\ DOMAIN g = 1 .. Len(f)
  BY <1>1, <1>2
<1>5. QED
  BY <1>1, <1>2, <1>3, <1>4

\* A signal puts a call on top: it is on its way, and changes nothing else.
LEMMA SignalOnTop ==
  ASSUME NEW f \in Seq(Steps), NEW marked \in BOOLEAN
  PROVE  LET g == <<"testing">> \o f IN
         /\ g \in Seq(Steps) /\ Len(f) \in Nat /\ Len(g) = Len(f) + 1 /\ g # <<>>
         /\ ~ marked => Coming(g, marked)
         /\ Coming(f, marked) => Coming(g, marked)
         /\ Waiting(f) <=> Waiting(g)
         /\ OneHolder(f) => OneHolder(g)
<1> DEFINE g == <<"testing">> \o f
<1>1. /\ g \in Seq(Steps) /\ Len(f) \in Nat /\ DOMAIN f = 1 .. Len(f)
      /\ Len(g) = Len(f) + 1 /\ DOMAIN g = 1 .. Len(f) + 1
      /\ g[1] = "testing" /\ \A i \in 1 .. Len(f) : g[i + 1] = f[i]
  BY Pushed DEF Steps
<1> HIDE DEF g
<1>2. g # <<>>
  BY <1>1, LenProperties, EmptySeq
<1>3. \A i \in DOMAIN g : i = 1 \/ (i - 1 \in DOMAIN f /\ g[i] = f[i - 1])
  BY <1>1
<1>4. ~ marked => Coming(g, marked)
  <2>1. 1 \in DOMAIN g
    BY <1>1
  <2>2. QED
    BY <1>1, <2>1 DEF Coming
<1>5. ASSUME Coming(f, marked) PROVE Coming(g, marked)
  <2>1. PICK i \in DOMAIN f : f[i] \in {"locking", "setting", "spawning"} \/ (f[i] = "testing" /\ ~ marked)
    BY <1>5 DEF Coming
  <2>2. i + 1 \in DOMAIN g /\ g[i + 1] = f[i]
    BY <1>1
  <2>3. QED
    BY <2>1, <2>2 DEF Coming
<1>6. ASSUME Waiting(f) PROVE Waiting(g)
  <2>1. PICK i, j \in DOMAIN f : i < j /\ f[i] = "locking" /\ f[j] = "setting"
    BY <1>6 DEF Waiting
  <2>2. /\ i + 1 \in DOMAIN g /\ j + 1 \in DOMAIN g /\ i + 1 < j + 1
        /\ g[i + 1] = "locking" /\ g[j + 1] = "setting"
    BY <1>1, <2>1
  <2>3. QED
    BY <2>2 DEF Waiting
<1>7. ASSUME Waiting(g) PROVE Waiting(f)
  <2>1. PICK i, j \in DOMAIN g : i < j /\ g[i] = "locking" /\ g[j] = "setting"
    BY <1>7 DEF Waiting
  <2>2. i # 1 /\ j # 1
    BY <1>1, <2>1
  <2>3. /\ i - 1 \in DOMAIN f /\ j - 1 \in DOMAIN f /\ i - 1 < j - 1
        /\ f[i - 1] = "locking" /\ f[j - 1] = "setting"
    BY <1>1, <1>3, <2>1, <2>2
  <2>4. QED
    BY <2>3 DEF Waiting
<1>8. ASSUME OneHolder(f) PROVE OneHolder(g)
  <2> SUFFICES ASSUME NEW i \in DOMAIN g, NEW j \in DOMAIN g, g[i] = "setting", g[j] = "setting"
               PROVE  i = j
    BY DEF OneHolder
  <2>1. i # 1 /\ j # 1
    BY <1>1
  <2>2. /\ i - 1 \in DOMAIN f /\ j - 1 \in DOMAIN f
        /\ f[i - 1] = "setting" /\ f[j - 1] = "setting"
    BY <1>3, <2>1
  <2>3. i - 1 = j - 1
    BY <1>8, <2>2 DEF OneHolder
  <2>4. QED
    BY <1>1, <2>3
<1>9. QED
  BY <1>1, <1>2, <1>4, <1>5, <1>6, <1>7, <1>8 DEF g

\* A call that ends holds nothing and waits for nothing.
LEMMA CallEnds ==
  ASSUME NEW f \in Seq(Steps), f # <<>>, Head(f) \in {"testing", "spawning"}
  PROVE  /\ Tail(f) \in Seq(Steps) /\ Len(f) \in Nat \ {0} /\ Len(Tail(f)) = Len(f) - 1
         /\ Head(f) = "testing" /\ Coming(f, TRUE) => Coming(Tail(f), TRUE)
         /\ Waiting(f) <=> Waiting(Tail(f))
         /\ OneHolder(f) => OneHolder(Tail(f))
<1> DEFINE g == Tail(f)
<1>1. /\ g \in Seq(Steps) /\ Len(f) \in Nat \ {0} /\ DOMAIN f = 1 .. Len(f)
      /\ Len(g) = Len(f) - 1 /\ DOMAIN g = 1 .. Len(f) - 1
      /\ f[1] \in {"testing", "spawning"} /\ f[1] = Head(f)
      /\ \A i \in 1 .. Len(f) - 1 : g[i] = f[i + 1]
  BY Popped
<1> HIDE DEF g
<1>2. \A i \in DOMAIN f : i = 1 \/ (i - 1 \in DOMAIN g /\ g[i - 1] = f[i])
  <2> TAKE i \in DOMAIN f
  <2>1. CASE i # 1
    <3>1. i - 1 \in 1 .. Len(f) - 1 /\ (i - 1) + 1 = i
      BY <1>1, <2>1
    <3>2. QED
      BY <1>1, <3>1
  <2>2. QED
    BY <2>1
<1>3. ASSUME Head(f) = "testing", Coming(f, TRUE) PROVE Coming(g, TRUE)
  <2>1. PICK i \in DOMAIN f : f[i] \in {"locking", "setting", "spawning"}
    BY <1>3 DEF Coming
  <2>2. i - 1 \in DOMAIN g /\ g[i - 1] \in {"locking", "setting", "spawning"}
    BY <1>1, <1>2, <1>3, <2>1
  <2>3. QED
    BY <2>2 DEF Coming
<1>4. ASSUME Waiting(f) PROVE Waiting(g)
  <2>1. PICK i, j \in DOMAIN f : i < j /\ f[i] = "locking" /\ f[j] = "setting"
    BY <1>4 DEF Waiting
  <2>2. i # 1 /\ j # 1
    BY <1>1, <2>1
  <2>3. /\ i - 1 \in DOMAIN g /\ j - 1 \in DOMAIN g /\ i - 1 < j - 1
        /\ g[i - 1] = "locking" /\ g[j - 1] = "setting"
    BY <1>1, <1>2, <2>1, <2>2
  <2>4. QED
    BY <2>3 DEF Waiting
<1>5. ASSUME Waiting(g) PROVE Waiting(f)
  <2>1. PICK i, j \in DOMAIN g : i < j /\ g[i] = "locking" /\ g[j] = "setting"
    BY <1>5 DEF Waiting
  <2>2. /\ i + 1 \in DOMAIN f /\ j + 1 \in DOMAIN f /\ i + 1 < j + 1
        /\ f[i + 1] = "locking" /\ f[j + 1] = "setting"
    BY <1>1, <2>1
  <2>3. QED
    BY <2>2 DEF Waiting
<1>6. ASSUME OneHolder(f) PROVE OneHolder(g)
  <2> SUFFICES ASSUME NEW i \in DOMAIN g, NEW j \in DOMAIN g, g[i] = "setting", g[j] = "setting"
               PROVE  i = j
    BY DEF OneHolder
  <2>1. /\ i + 1 \in DOMAIN f /\ j + 1 \in DOMAIN f
        /\ f[i + 1] = "setting" /\ f[j + 1] = "setting"
    BY <1>1
  <2>2. i + 1 = j + 1
    BY <1>6, <2>1 DEF OneHolder
  <2>3. QED
    BY <1>1, <2>2
<1>7. QED
  BY <1>1, <1>3, <1>4, <1>5, <1>6 DEF g

\* A call that goes on leaves those beneath it as they are.
LEMMA CallGoesOn ==
  ASSUME NEW f \in Seq(Steps), f # <<>>, NEW x \in {"locking", "setting", "spawning"},
         NEW marked \in BOOLEAN
  PROVE  LET g == <<x>> \o Tail(f) IN
         /\ g \in Seq(Steps) /\ Len(f) \in Nat \ {0} /\ Len(g) = Len(f) /\ g # <<>>
         /\ Coming(g, marked)
         /\ Head(f) # "locking" /\ Waiting(f) => Waiting(g)
         /\ x # "locking" /\ Waiting(g) => Waiting(f)
         /\ x # "setting" /\ OneHolder(f) => OneHolder(g)
         /\ (\A i \in DOMAIN f : f[i] # "setting") => OneHolder(g) /\ ~ Waiting(f)
         /\ Head(f) = "setting" /\ OneHolder(f) => ~ Waiting(f)
<1> DEFINE g == <<x>> \o Tail(f)
<1>1. /\ g \in Seq(Steps) /\ Len(f) \in Nat \ {0} /\ DOMAIN f = 1 .. Len(f)
      /\ Len(g) = Len(f) /\ DOMAIN g = 1 .. Len(f)
      /\ f[1] = Head(f) /\ g[1] = x
      /\ \A i \in 2 .. Len(f) : g[i] = f[i]
  BY Replaced DEF Steps
<1> HIDE DEF g
<1>2. /\ g # <<>>
      /\ 1 \in DOMAIN f /\ DOMAIN g = DOMAIN f
      /\ \A i \in DOMAIN f : i = 1 \/ (i > 1 /\ g[i] = f[i])
  BY <1>1, LenProperties, EmptySeq
<1>3. Coming(g, marked)
  BY <1>1, <1>2 DEF Coming
<1>4. Head(f) # "locking" /\ Waiting(f) => Waiting(g)
  BY <1>1, <1>2 DEF Waiting
<1>5. x # "locking" /\ Waiting(g) => Waiting(f)
  BY <1>1, <1>2 DEF Waiting
<1>6. x # "setting" /\ OneHolder(f) => OneHolder(g)
  BY <1>1, <1>2 DEF OneHolder
<1>7. (\A i \in DOMAIN f : f[i] # "setting") => OneHolder(g) /\ ~ Waiting(f)
  BY <1>1, <1>2 DEF OneHolder, Waiting
<1>8. Head(f) = "setting" /\ OneHolder(f) => ~ Waiting(f)
  BY <1>1, <1>2 DEF OneHolder, Waiting
<1>9. QED
  BY <1>1, <1>2, <1>3, <1>4, <1>5, <1>6, <1>7, <1>8 DEF g

-----------------------------------------------------------------------------
(* The inductive invariant.                                                *)

\* Every handler and every shutdown thread comes from a signal of its own; the
\* handler runs only when it has been installed.
SignalsAccounted ==
  /\ sent \in 0 .. MaxSignals
  /\ callers + Len(frames) <= sent
  /\ installed = {} => frames = <<>> /\ ~ stopping
  /\ main \in {"configuring", "binding"} => installed = {}

\* The lock of the event has one holder, and who waits for it on top of the
\* holder does so before the stop is marked.
LockAccounted ==
  /\ OneHolder(frames)
  /\ Waiting(frames) => ~ stopping

\* The stop is on its way, from the signal to the flag.
StopComing ==
  Asked /\ main \in {"installing", "starting", "serving"}
    => shutdownRequest \/ callers > 0 \/ Coming(frames, stopping)

\* How the time since the stop was asked for is spent.
TimeAccounted ==
  ~ Waiting(frames) =>
    /\ main \in {"configuring", "binding", "installing", "starting"} => elapsed = 0
    /\ main = "serving" => elapsed <= blocked /\ blocked <= Poll
    /\ main \in {"leaving", "closing", "stopping"} => elapsed <= Poll
    /\ main = "joining" => elapsed <= Poll + blocked /\ blocked <= JoinTimeout

IInv ==
  /\ TypeOK
  /\ SignalsAccounted
  /\ LockAccounted
  /\ StopComing
  /\ TimeAccounted

\* Nothing runs on top of the main thread.
LEMMA NoFrames ==
  ASSUME frames = <<>>
  PROVE  /\ frames \in Seq(Steps) /\ Len(frames) = 0
         /\ ~ Waiting(frames) /\ OneHolder(frames) /\ \A m : ~ Coming(frames, m)
         /\ ~ Stuck
<1>1. frames \in Seq(Steps) /\ Len(frames) = 0 /\ DOMAIN frames = {}
  BY EmptySeq
<1>2. QED
  BY <1>1 DEF Waiting, OneHolder, Coming, Stuck

\* The process begins in the invariant.
LEMMA IInvInit == Init => IInv
<1> SUFFICES ASSUME Init PROVE IInv
  OBVIOUS
<1>1. frames = <<>>
  BY DEF Init
<1>2. {stopping, shutdownRequest, listening, stopEvent} \subseteq BOOLEAN
  BY Zenon DEF Init
<1>3. QED
  BY <1>1, <1>2, NoFrames, LifecycleAssumption
     DEF Init, IInv, TypeOK, SignalsAccounted, LockAccounted, StopComing,
            TimeAccounted, Asked, Places, Ended, Signals, Steps

\* A step of the main thread leaves the frames alone: there are none.
LEMMA MainStep ==
  ASSUME IInv, Main
  PROVE  IInv'
<1> USE LifecycleAssumption
<1> USE DEF IInv, TypeOK, SignalsAccounted, LockAccounted, StopComing,
            TimeAccounted, Asked, Places, Ended, Signals, At, Go,
            server, manager, timers
<1>0. /\ frames = <<>> /\ frames' = <<>> /\ stopping' = stopping
      /\ ~ Waiting(frames) /\ ~ Coming(frames, stopping)
      /\ OneHolder(frames)
  BY NoFrames
     DEF Main, Configure, StartFails, Bind, InstallHandler, StartManager, Leave,
         ClearRequest, Close, StopManager, Exit
<1>1. CASE Configure
  BY <1>0, <1>1 DEF Configure
<1>2. CASE StartFails
  BY <1>0, <1>2 DEF StartFails
<1>3. CASE Bind
  BY <1>0, <1>3 DEF Bind
<1>4. CASE InstallHandler
  <2>1. /\ main = "installing" /\ main' \in {"installing", "starting"}
        /\ installed' \subseteq Signals /\ installed' # {} /\ blocked' = 0
        /\ UNCHANGED <<frames, stopping, callers, server, manager, inFlight, sent, elapsed>>
    BY <1>4 DEF InstallHandler
  <2>2. TypeOK' /\ SignalsAccounted'
    BY <1>0, <2>1
  <2>3. LockAccounted' /\ TimeAccounted' /\ StopComing'
    BY <1>0, <2>1
  <2>4. QED
    BY <2>2, <2>3
<1>5. CASE StartManager
  BY <1>0, <1>5 DEF StartManager
<1>6. CASE Leave
  BY <1>0, <1>6 DEF Leave
<1>7. CASE ClearRequest
  <2>1. shutdownRequest' \in BOOLEAN
    BY <1>7, Zenon DEF ClearRequest
  <2>2. QED
    BY <1>0, <1>7, <2>1 DEF ClearRequest
<1>8. CASE Close
  <2>1. listening' \in BOOLEAN
    BY <1>8, Zenon DEF Close
  <2>2. QED
    BY <1>0, <1>8, <2>1 DEF Close
<1>9. CASE StopManager
  BY <1>0, <1>9 DEF StopManager
<1>10. CASE Exit
  BY <1>0, <1>10 DEF Exit
<1>11. QED
  BY <1>1, <1>2, <1>3, <1>4, <1>5, <1>6, <1>7, <1>8, <1>9, <1>10 DEF Main

\* A signal interrupts the main thread, or ends the process.
LEMMA SignalStep ==
  ASSUME IInv, NEW s \in Signals, Signal(s)
  PROVE  IInv'
<1> USE LifecycleAssumption
<1> USE DEF IInv, TypeOK, SignalsAccounted, LockAccounted, StopComing,
            TimeAccounted, Asked, Places, Ended, Alive, Signals, Steps,
            server, manager, timers
<1>1. CASE s \in installed
  <2>1. frames' = <<"testing">> \o frames /\ stopping' = stopping
    BY <1>1 DEF Signal
  <2>2. /\ frames' \in Seq(Steps) /\ Len(frames) \in Nat /\ Len(frames') = Len(frames) + 1
        /\ ~ stopping => Coming(frames', stopping)
        /\ Coming(frames, stopping) => Coming(frames', stopping)
        /\ Waiting(frames) <=> Waiting(frames')
        /\ OneHolder(frames) => OneHolder(frames')
    BY <2>1, SignalOnTop
  <2>3. QED
    BY <1>1, <2>1, <2>2 DEF Signal
<1>2. CASE s \notin installed
  <2>1. frames' = <<>> /\ main' = "killed" /\ stopping' = stopping
    BY <1>2 DEF Signal
  <2>2. /\ frames' \in Seq(Steps) /\ Len(frames') = 0
        /\ ~ Waiting(frames') /\ OneHolder(frames')
        /\ Len(frames) \in Nat
    BY <2>1, EmptySeq, LenProperties DEF Waiting, OneHolder
  <2>3. QED
    BY <1>2, <2>1, <2>2 DEF Signal
<1>3. QED
  BY <1>1, <1>2

\* The steps of the handler.
LEMMA HandlerStep ==
  ASSUME IInv, Handler
  PROVE  IInv'
<1> USE LifecycleAssumption
<1> USE DEF IInv, TypeOK, SignalsAccounted, LockAccounted, StopComing,
            TimeAccounted, Asked, Places, Ended, Alive, Signals, Steps,
            Handling, InHandler, server, manager, timers
<1>0. /\ frames \in Seq(Steps) /\ frames # <<>> /\ installed # {}
      /\ frames' = Tail(frames) \/ \E x \in Steps : frames' = <<x>> \o Tail(frames)
  BY DEF Handler, TestStopping, LockStopping, MarkStopping, SpawnShutdown
<1>1. CASE TestStopping /\ stopping
  <2>0. frames' = Tail(frames) /\ Head(frames) = "testing" /\ OneHolder(frames)
    BY <1>1, Zenon DEF TestStopping
  <2>1. /\ frames' \in Seq(Steps) /\ Len(frames) \in Nat \ {0}
        /\ Len(frames') = Len(frames) - 1
        /\ Coming(frames, TRUE) => Coming(frames', TRUE)
        /\ Waiting(frames) <=> Waiting(frames')
        /\ OneHolder(frames')
    <3> HIDE DEF IInv, TypeOK, Steps
    <3>1. QED
      BY <1>0, <2>0, CallEnds
  <2>2. stopping = TRUE /\ stopping' = TRUE
    BY <1>1 DEF TestStopping
  <2>3. Coming(frames, stopping) => Coming(frames', stopping')
    BY <2>1, <2>2
  <2>4. UNCHANGED <<main, installed, stopping, callers, server, manager, inFlight, sent, timers>>
    BY <1>1 DEF TestStopping
  <2>5. TypeOK' /\ SignalsAccounted'
    BY <1>0, <2>1, <2>4
  <2>6. LockAccounted' /\ TimeAccounted'
    BY <2>1, <2>2, <2>4
  <2>7. StopComing'
    BY <1>0, <2>2, <2>3, <2>4
  <2>8. QED
    BY <2>5, <2>6, <2>7
<1>2. CASE TestStopping /\ ~ stopping
  <2>0. /\ frames' = <<"locking">> \o Tail(frames) /\ Head(frames) = "testing"
        /\ stopping \in BOOLEAN /\ OneHolder(frames)
    BY <1>2, Zenon DEF TestStopping
  <2>1. /\ frames' \in Seq(Steps) /\ Len(frames) \in Nat \ {0} /\ Len(frames') = Len(frames)
        /\ Coming(frames', stopping)
        /\ Waiting(frames) => Waiting(frames')
        /\ OneHolder(frames')
    <3> HIDE DEF IInv, TypeOK, Steps
    <3>1. QED
      BY <1>0, <2>0, CallGoesOn
  <2>2. QED
    BY <1>0, <1>2, <2>1 DEF TestStopping
<1>3. CASE LockStopping
  <2>0. /\ frames' = <<"setting">> \o Tail(frames)
        /\ \A i \in DOMAIN frames : frames[i] # "setting"
        /\ stopping \in BOOLEAN
    BY <1>3 DEF LockStopping
  <2>1. /\ frames' \in Seq(Steps) /\ Len(frames) \in Nat \ {0} /\ Len(frames') = Len(frames)
        /\ Coming(frames', stopping)
        /\ Waiting(frames') => Waiting(frames)
        /\ OneHolder(frames') /\ ~ Waiting(frames)
    <3> HIDE DEF IInv, TypeOK, Steps
    <3>1. QED
      BY <1>0, <2>0, CallGoesOn
  <2>2. QED
    BY <1>0, <1>3, <2>1 DEF LockStopping
<1>4. CASE MarkStopping
  <2>0. /\ frames' = <<"spawning">> \o Tail(frames) /\ Head(frames) = "setting"
        /\ OneHolder(frames)
    BY <1>4 DEF MarkStopping
  <2>1. /\ frames' \in Seq(Steps) /\ Len(frames) \in Nat \ {0} /\ Len(frames') = Len(frames)
        /\ Coming(frames', TRUE)
        /\ Waiting(frames') => Waiting(frames)
        /\ OneHolder(frames') /\ ~ Waiting(frames)
    <3> HIDE DEF IInv, TypeOK, Steps
    <3>1. QED
      BY <1>0, <2>0, CallGoesOn
  <2>2. stopping' = TRUE
    BY <1>4 DEF MarkStopping
  <2>3. Coming(frames', stopping') /\ ~ Waiting(frames')
    BY <2>1, <2>2
  <2>4. QED
    BY <1>0, <1>4, <2>1, <2>2, <2>3 DEF MarkStopping
<1>5. CASE SpawnShutdown
  <2>1. /\ frames' \in Seq(Steps) /\ Len(frames) \in Nat \ {0}
        /\ Len(frames') = Len(frames) - 1
        /\ Waiting(frames) <=> Waiting(frames')
        /\ OneHolder(frames')
    BY <1>0, <1>5, CallEnds DEF SpawnShutdown
  <2>2. QED
    BY <1>0, <1>5, <2>1 DEF SpawnShutdown
<1>6. QED
  BY <1>1, <1>2, <1>3, <1>4, <1>5 DEF Handler

\* A step of another thread, or of time.
LEMMA OtherStep ==
  ASSUME IInv, Shutdown \/ Accept \/ Respond \/ Refresh \/ EndLoop \/ Tick
  PROVE  IInv'
<1> USE LifecycleAssumption
<1> USE DEF IInv, TypeOK, SignalsAccounted, LockAccounted, StopComing,
            TimeAccounted, Asked, Places, Ended, Alive, Signals, At,
            server, manager, timers
<1>0. Len(frames) \in Nat /\ (Waiting(frames) <=> Stuck)
  BY LenProperties DEF Waiting, Stuck
<1>1. CASE Shutdown
  BY <1>0, <1>1 DEF Shutdown
<1>2. CASE Accept
  BY <1>2 DEF Accept
<1>3. CASE Respond
  BY <1>3 DEF Respond
<1>4. CASE Refresh
  BY <1>4 DEF Refresh
<1>5. CASE EndLoop
  BY <1>5 DEF EndLoop
<1>6. CASE Tick
  <2>1. UNCHANGED <<main, installed, frames, stopping, callers, server, manager, inFlight, sent>>
    BY <1>6 DEF Tick
  <2>2. elapsed' \in 0 .. Grace /\ blocked' \in 0 .. Grace
    BY <1>6 DEF Tick, JoinOver
  <2>3. TimeAccounted'
    BY <1>0, <1>6 DEF Tick, JoinOver
  <2>4. QED
    BY <2>1, <2>2, <2>3
<1>7. QED
  BY <1>1, <1>2, <1>3, <1>4, <1>5, <1>6

\* The invariant holds throughout.
LEMMA IInvariant == Spec => []IInv
<1>1. Init => IInv
  BY IInvInit
<1>2. IInv /\ [Next]_vars => IInv'
  <2> SUFFICES ASSUME IInv, [Next]_vars PROVE IInv'
    OBVIOUS
  <2>1. CASE UNCHANGED vars
    BY <2>1 DEF vars, server, manager, timers, IInv, TypeOK, SignalsAccounted, LockAccounted,
                StopComing, TimeAccounted, Asked
  <2>2. QED
    BY <2>1, MainStep, SignalStep, HandlerStep, OtherStep DEF Next
<1>3. QED
  BY <1>1, <1>2, PTL DEF Spec

-----------------------------------------------------------------------------
(* Theorems.                                                               *)

\* Every variable keeps its type; in particular there are never more shutdown
\* threads than signals were sent.
THEOREM TypeCorrect == Spec => []TypeOK
<1>1. IInv => TypeOK
  BY DEF IInv
<1>2. QED
  BY <1>1, IInvariant, PTL

\* No stop that a signal asked for is lost, whenever the signals come, the ones
\* that interrupt the handler included, unless they leave the main thread waiting
\* for ever for the event's lock (request_stop, server.py:214).
THEOREM NoStopIsLost == Spec => []StopNotLost
<1>1. IInv => StopNotLost
  BY DEF IInv, StopComing, StopNotLost, Coming
<1>2. QED
  BY <1>1, IInvariant, PTL

\* Signals leave the main thread waiting for ever only if two of them come before
\* the event is set: the test of server.py:215 protects what comes later.
THEOREM MarkedNeverSticks == Spec => []OnlyEarlySignalsStick
<1>1. ASSUME IInv, Stuck
      PROVE  ~ stopping /\ sent >= 2
  <2>1. PICK i, j \in DOMAIN frames : i < j /\ frames[i] = "locking" /\ frames[j] = "setting"
    BY <1>1 DEF Stuck
  <2>2. /\ frames \in Seq(Steps) /\ DOMAIN frames = 1 .. Len(frames) /\ Len(frames) \in Nat
    BY <1>1, LenProperties DEF IInv, TypeOK, Steps
  <2>3. Len(frames) >= 2
    BY <2>1, <2>2
  <2>4. callers \in Nat /\ sent \in Nat /\ callers + Len(frames) <= sent
    BY <1>1, LifecycleAssumption DEF IInv, TypeOK, SignalsAccounted
  <2>5. ~ stopping
    BY <1>1 DEF IInv, LockAccounted, Stuck, Waiting
  <2>6. QED
    BY <2>2, <2>3, <2>4, <2>5
<1>2. IInv => OnlyEarlySignalsStick
  BY <1>1 DEF OnlyEarlySignalsStick
<1>3. QED
  BY <1>2, IInvariant, PTL

\* A process that has been asked to stop is alive no longer than the poll
\* interval and the join timeout (token_manager.py:43), unless it is stuck.
THEOREM GraceIsKept == Spec => []StopsWithinGrace
<1>1. IInv => StopsWithinGrace
  BY LifecycleAssumption
     DEF IInv, TypeOK, TimeAccounted, StopsWithinGrace, Stuck, Waiting, Alive, Places, Ended
<1>2. QED
  BY <1>1, IInvariant, PTL

-----------------------------------------------------------------------------
(* The scripts and the PID file.                                           *)

\* Where [ -f "$PID_FILE" ] leads.
LEMMA TestOutcome ==
  ASSUME NEW s \in Scripts, Test(s)
  PROVE  /\ pc[s] = "test" /\ UNCHANGED <<file, process, runs, pid, linked>>
         /\ \/ file # Absent /\ Goto(s, "read") /\ UNCHANGED report
            \/ file = Absent /\ Goto(s, "checkConfig") /\ UNCHANGED report
            \/ file = Absent /\ Finish(s, "notRunning")
  BY Zenon DEF Test

\* Where is_proxy_pid leads.
LEMMA CheckOutcome ==
  ASSUME NEW s \in Scripts, Check(s)
  PROVE  /\ pc[s] = "check" /\ UNCHANGED <<file, process, runs, pid, linked>>
         /\ \/ ~ IsProxyPid(pid[s]) /\ Goto(s, "remove") /\ UNCHANGED report
            \/ Finish(s, "alreadyRunning")
            \/ Finish(s, "running")
            \/ IsProxyPid(pid[s]) /\ Goto(s, "kill") /\ UNCHANGED report
  BY Zenon DEF Check

\* Every variable keeps its type.
THEOREM PidFileTypes == PidFileSpec => []PidFileTypeOK
<1> USE PidFileAssumption DEF PidFileTypeOK, Commands, Kinds, Reports, runs, Active
<1>1. PidFileInit => PidFileTypeOK
  BY DEF PidFileInit
<1>2. PidFileTypeOK /\ [PidFileNext]_pidFileVars => PidFileTypeOK'
  <2> SUFFICES ASSUME PidFileTypeOK, [PidFileNext]_pidFileVars
               PROVE  PidFileTypeOK'
    OBVIOUS
  <2>1. ASSUME NEW s \in Scripts, NEW k \in Kinds, Run(s, k)
        PROVE  PidFileTypeOK'
    BY <2>1 DEF Run, Goto
  <2>2. ASSUME NEW s \in Scripts, Test(s) \/ Read(s)
        PROVE  PidFileTypeOK'
    BY <2>2, TestOutcome DEF Read, Goto, Finish
  <2>3. ASSUME NEW s \in Scripts, Check(s)
        PROVE  PidFileTypeOK'
    <3>1. pc' \in [Scripts -> Commands] /\ report' \in [Scripts -> Reports]
      BY <2>3, CheckOutcome DEF Goto, Finish
    <3>2. \A t \in Scripts : pc'[t] # pc[t] /\ pc'[t] = "kill" => IsProxyPid(pid[t])
      BY <2>3, CheckOutcome DEF Goto, Finish
    <3>3. \A t \in Scripts : pc'[t] = pc[t] \/ pc'[t] \in {"remove", "kill", "done"}
      BY <2>3, CheckOutcome DEF Goto, Finish
    <3>4. UNCHANGED <<file, process, runs, pid, linked>>
      BY <2>3, CheckOutcome
    <3>5. ASSUME NEW t \in Scripts,
                 pc'[t] \in {"truncate", "write", "verify", "kill", "wait"}
          PROVE  pid[t] \in Pids
      BY <3>2, <3>3, <3>5 DEF IsProxyPid
    <3>6. QED
      BY <3>1, <3>4, <3>5
  <2>4. ASSUME NEW s \in Scripts, RemoveStale(s)
        PROVE  PidFileTypeOK'
    BY <2>4 DEF RemoveStale, Remove, Goto, Finish
  <2>5. ASSUME NEW s \in Scripts, CheckConfig(s)
        PROVE  PidFileTypeOK'
    BY <2>5 DEF CheckConfig, Goto, Finish
  <2>6. ASSUME NEW s \in Scripts, Spawn(s)
        PROVE  PidFileTypeOK'
    BY <2>6 DEF Spawn, Goto
  <2>7. ASSUME NEW s \in Scripts, Truncate(s) \/ Write(s)
        PROVE  PidFileTypeOK'
    BY <2>7 DEF Truncate, Write, Goto
  <2>8. ASSUME NEW s \in Scripts, Verify(s)
        PROVE  PidFileTypeOK'
    <3>1. pc' = [pc EXCEPT ![s] = "done"] /\ \E r \in Reports : report' = [report EXCEPT ![s] = r]
      BY <2>8 DEF Verify, Goto, Finish
    <3>2. file' \in {file, Absent} /\ linked' \in [Scripts -> BOOLEAN]
      BY <2>8 DEF Verify, Remove
    <3>3. UNCHANGED <<process, runs, pid>>
      BY <2>8 DEF Verify
    <3>4. QED
      BY <3>1, <3>2, <3>3
  <2>9. ASSUME NEW s \in Scripts, Kill(s)
        PROVE  PidFileTypeOK'
    BY <2>9 DEF Kill, IsProxyPid, Goto, Finish
  <2>10. ASSUME NEW s \in Scripts, Wait(s)
        PROVE  PidFileTypeOK'
    BY <2>10 DEF Wait, Goto, Finish
  <2>11. ASSUME NEW s \in Scripts, RemoveStopped(s)
         PROVE  PidFileTypeOK'
    BY <2>11 DEF RemoveStopped, Remove, Goto, Finish
  <2>12. ASSUME NEW p \in Pids, Exec(p) \/ BindPort(p) \/ Die(p)
         PROVE  PidFileTypeOK'
    BY <2>12 DEF Exec, BindPort, Die, Become, scriptVars
  <2>13. CASE UNCHANGED pidFileVars
    BY <2>13 DEF pidFileVars, scriptVars
  <2>14. QED
    BY <2>1, <2>2, <2>3, <2>4, <2>5, <2>6, <2>7,
       <2>8, <2>9, <2>10, <2>11, <2>12, <2>13
    DEF PidFileNext, Step
<1>3. QED
  BY <1>1, <1>2, PTL DEF PidFileSpec

-----------------------------------------------------------------------------
(* One script at a time.                                                   *)

Running(s) == pc[s] \notin {"new", "done"}

\* No two scripts run.
OneScript == \A s, t \in Scripts : Running(s) /\ Running(t) => s = t

\* No two processes are up.
OneUp == \A p, q \in Up : p = q

\* What a script that runs, or has just ended, can rely on.  From the test of the
\* file on it is the only one to start, register or stop anything: at some of its
\* commands nothing is up, at others only the process whose number it has.  But
\* while it has yet to write the file, the file names what is up.  And it waits
\* for the process that it started to become python app.py.
Knows(s) ==
  /\ pc[s] \in {"remove", "checkConfig", "spawn", "removeStopped"} => Up = {}
  /\ pc[s] \in {"check", "truncate", "write", "verify", "kill", "wait"} =>
       Up \subseteq {pid[s]}
  /\ pc[s] \notin {"truncate", "write"} => Up \subseteq {file}
  /\ pc[s] = "write" => linked[s]
  /\ \A p \in Pids : process[p] = "booting" =>
       pc[s] \in {"truncate", "write", "verify"} /\ pid[s] = p

\* What holds between scripts.
Settled ==
  /\ Up \subseteq {file}
  /\ \A p \in Pids : process[p] # "booting"

PidFileInv ==
  /\ OneScript
  /\ OneUp
  /\ \A s \in Scripts : Running(s) => Knows(s)
  /\ (\A s \in Scripts : ~ Running(s)) => Settled

\* A command is one of a script that runs, and changes what that script has only.
LEMMA CommandOfScript ==
  ASSUME PidFileTypeOK, NEW s \in Scripts, Step(s)
  PROVE  /\ Running(s)
         /\ \A t \in Scripts \ {s} : pc'[t] = pc[t]
<1> USE DEF PidFileTypeOK, Running, Goto, Finish
<1>1. CASE Test(s) \/ Check(s)
  BY <1>1, TestOutcome, CheckOutcome
<1>2. CASE Read(s) \/ RemoveStale(s) \/ CheckConfig(s)
  BY <1>2 DEF Read, RemoveStale, CheckConfig
<1>3. CASE Spawn(s) \/ Truncate(s) \/ Write(s)
  BY <1>3 DEF Spawn, Truncate, Write
<1>4. CASE Verify(s) \/ Kill(s)
  BY <1>4 DEF Verify, Kill
<1>5. CASE Wait(s) \/ RemoveStopped(s)
  BY <1>5 DEF Wait, RemoveStopped
<1>6. QED
  BY <1>1, <1>2, <1>3, <1>4, <1>5 DEF Step

\* Each command leaves its script with what it can rely on next, and no two
\* processes up.
LEMMA CommandKeepsKnowledge ==
  ASSUME PidFileTypeOK, OneUp, NEW s \in Scripts, Knows(s), Step(s)
  PROVE  OneUp' /\ Knows(s)'
<1> USE PidFileAssumption DEF PidFileTypeOK, OneUp, Knows, Up, Goto, Finish
<1>1. CASE Test(s)
  BY <1>1, TestOutcome
<1>2. CASE Read(s)
  BY <1>2 DEF Read
<1>3. CASE Check(s)
  BY <1>3, CheckOutcome DEF IsProxyPid
<1>4. CASE RemoveStale(s)
  BY <1>4 DEF RemoveStale, Remove
<1>5. CASE CheckConfig(s)
  BY <1>5 DEF CheckConfig
<1>6. CASE Spawn(s)
  BY <1>6 DEF Spawn
<1>7. CASE Truncate(s)
  BY <1>7 DEF Truncate
<1>8. CASE Write(s)
  BY <1>8 DEF Write
<1>9. CASE Verify(s)
  BY <1>9 DEF Verify, IsProxyPid, Remove
<1>10. CASE Kill(s)
  BY <1>10 DEF Kill, IsProxyPid
<1>11. CASE Wait(s)
  BY <1>11 DEF Wait, IsProxyPid
<1>12. CASE RemoveStopped(s)
  BY <1>12 DEF RemoveStopped, Remove
<1>13. QED
  BY <1>1, <1>2, <1>3, <1>4, <1>5, <1>6, <1>7, <1>8, <1>9, <1>10, <1>11, <1>12 DEF Step

\* What a process does on its own brings nothing up.
LEMMA ProcessesOnlyEnd ==
  ASSUME PidFileTypeOK, NEW p \in Pids, Exec(p) \/ BindPort(p) \/ Die(p)
  PROVE  /\ Up' \subseteq Up
         /\ \A q \in Pids : process'[q] = "booting" => process[q] = "booting"
         /\ UNCHANGED <<file, scriptVars>>
  BY DEF PidFileTypeOK, Up, Exec, BindPort, Die, Become

\* With one script at a time, a script starts when none runs.
LEMMA RunsAlone ==
  ASSUME MaxActive = 1, PidFileInv, NEW s \in Scripts, NEW k \in Kinds, Run(s, k)
  PROVE  \A t \in Scripts : ~ Running(t)
<1> SUFFICES ASSUME NEW t \in Scripts, Running(t)
             PROVE  FALSE
  OBVIOUS
<1>1. Active = {t}
  BY DEF Active, Running, PidFileInv, OneScript
<1>2. Cardinality(Active) = 1
  BY <1>1, FS_Singleton
<1>3. QED
  BY <1>2 DEF Run

\* The invariant is kept by every step.
LEMMA PidFileStep ==
  ASSUME MaxActive = 1, PidFileTypeOK, PidFileInv, [PidFileNext]_pidFileVars
  PROVE  PidFileInv'
<1>1. ASSUME NEW s \in Scripts, Step(s)
      PROVE  PidFileInv'
  <2>1. /\ Running(s)
        /\ \A t \in Scripts \ {s} : ~ Running(t) /\ ~ Running(t)'
    BY <1>1, CommandOfScript DEF PidFileInv, OneScript, Running
  <2>2. OneUp' /\ Knows(s)'
    BY <1>1, <2>1, CommandKeepsKnowledge DEF PidFileInv
  <2>3. ~ Running(s)' => Settled'
    BY <2>2 DEF Running, Knows, Settled
  <2>4. QED
    BY <2>1, <2>2, <2>3 DEF PidFileInv, OneScript
<1>2. ASSUME NEW s \in Scripts, NEW k \in Kinds, Run(s, k)
      PROVE  PidFileInv'
  <2>1. /\ \A t \in Scripts : ~ Running(t)
        /\ Settled /\ OneUp
    BY <1>2, RunsAlone DEF PidFileInv
  <2>2. /\ pc' = [pc EXCEPT ![s] = "test"]
        /\ UNCHANGED <<file, process, pid, linked>>
    BY <1>2 DEF Run, Goto
  <2>3. pc'[s] = "test" /\ \A t \in Scripts \ {s} : ~ Running(t)'
    BY <2>1, <2>2 DEF PidFileTypeOK, Running
  <2>4. Knows(s)' /\ OneUp'
    BY <2>1, <2>2, <2>3 DEF Settled, Knows, OneUp, Up
  <2>5. QED
    BY <2>3, <2>4 DEF PidFileInv, OneScript, Running
<1>3. ASSUME NEW p \in Pids, Exec(p) \/ BindPort(p) \/ Die(p)
      PROVE  PidFileInv'
  BY <1>3, ProcessesOnlyEnd
     DEF PidFileInv, OneScript, OneUp, Running, Knows, Settled, scriptVars
<1>4. CASE UNCHANGED pidFileVars
  BY <1>4 DEF pidFileVars, scriptVars, PidFileInv, OneScript, OneUp, Running, Knows, Settled, Up
<1>5. QED
  BY <1>1, <1>2, <1>3, <1>4 DEF PidFileNext

\* It holds from the start, where there is neither a file nor a process.
LEMMA PidFileInvariant ==
  ASSUME MaxActive = 1
  PROVE  PidFileSpec => []PidFileInv
<1>1. PidFileInit => PidFileInv
  BY DEF PidFileInit, PidFileInv, OneScript, OneUp, Running, Settled, Up
<1>2. PidFileInv /\ PidFileTypeOK /\ [PidFileNext]_pidFileVars => PidFileInv'
  BY PidFileStep
<1>3. QED
  BY <1>1, <1>2, PidFileTypes, PTL DEF PidFileSpec

\* Between scripts the file names the proxy that is up: a proxy that start.sh
\* started is never lost to the next stop.sh or status.sh, whether a script
\* fails half-way, gives up, or the process dies at any moment.
THEOREM FileIsRight ==
  ASSUME MaxActive = 1
  PROVE  PidFileSpec => []Registered
<1>1. PidFileInv => Registered
  BY DEF PidFileInv, Registered, Active, Running, Settled
<1>2. QED
  BY <1>1, PidFileInvariant, PTL

\* start.sh never brings up a second proxy.
THEOREM NeverTwo ==
  ASSUME MaxActive = 1
  PROVE  PidFileSpec => []OneProxy
<1>1. ASSUME OneUp
      PROVE  OneProxy
  <2>1. CASE Up = {}
    BY <2>1, FS_EmptySet DEF OneProxy
  <2>2. CASE Up # {}
    <3>1. PICK p : Up = {p}
      BY <1>1, <2>2 DEF OneUp
    <3>2. Cardinality(Up) = 1
      BY <3>1, FS_Singleton
    <3>3. QED
      BY <3>2 DEF OneProxy
  <2>3. QED
    BY <2>1, <2>2
<1>2. QED
  BY <1>1, PidFileInvariant, PTL DEF PidFileInv

\* And "not running" and "stopped" are true when the operator reads them: what
\* the run pid_file_race refutes for two scripts holds for one.
THEOREM ReportsAreTrue ==
  ASSUME MaxActive = 1
  PROVE  PidFileSpec => TruthfulReports
<1>1. ASSUME PidFileTypeOK, PidFileInv, [PidFileNext]_pidFileVars, NEW s \in Scripts,
             report'[s] # report[s], report'[s] \in {"notRunning", "stopped"}
      PROVE  Up' = {}
  <2>1. ASSUME NEW t \in Scripts, Step(t)
        PROVE  Up' = {}
    <3>1. t = s /\ (Test(s) \/ RemoveStale(s) \/ RemoveStopped(s))
      <4> USE <1>1, <2>1 DEF PidFileTypeOK, Goto, Finish
      <4>1. t = s
        BY TestOutcome, CheckOutcome DEF Step, Read, RemoveStale, CheckConfig, Spawn,
           Truncate, Write, Verify, Kill, Wait, RemoveStopped
      <4>2. QED
        BY <4>1, CheckOutcome DEF Step, Read, CheckConfig, Spawn, Truncate, Write,
           Verify, Kill, Wait
    <3>2. Knows(s)
      BY <1>1, <2>1, <3>1, CommandOfScript DEF PidFileInv
    <3>3. Up = {}
      <4>1. CASE Test(s)
        <5>1. file = Absent
          BY <1>1, <4>1, TestOutcome
        <5>2. QED
          BY <3>2, <4>1, <5>1, TestOutcome, PidFileAssumption DEF Knows, Up
      <4>2. CASE RemoveStale(s) \/ RemoveStopped(s)
        BY <3>2, <4>2 DEF Knows, RemoveStale, RemoveStopped
      <4>3. QED
        BY <3>1, <4>1, <4>2
    <3>4. UNCHANGED process
      BY <3>1, TestOutcome DEF RemoveStale, RemoveStopped
    <3>5. QED
      BY <3>3, <3>4 DEF Up
  <2>2. ASSUME NEW t \in Scripts, NEW k \in Kinds, Run(t, k)
        PROVE  FALSE
    BY <1>1, <2>2 DEF Run
  <2>3. ASSUME NEW p \in Pids, Exec(p) \/ BindPort(p) \/ Die(p)
        PROVE  FALSE
    BY <1>1, <2>3, ProcessesOnlyEnd DEF scriptVars
  <2>4. ~ UNCHANGED pidFileVars
    BY <1>1 DEF pidFileVars, scriptVars
  <2>5. QED
    BY <1>1, <2>1, <2>2, <2>3, <2>4 DEF PidFileNext
<1>2. PidFileTypeOK /\ PidFileInv /\ [PidFileNext]_pidFileVars =>
        [\A s \in alone :
           report'[s] # report[s] /\ report'[s] \in {"notRunning", "stopped"}
             => Up' = {}]_pidFileVars
  BY <1>1 DEF PidFileTypeOK
<1>3. QED
  BY <1>2, PidFileTypes, PidFileInvariant, PTL DEF PidFileSpec, TruthfulReports
=============================================================================
