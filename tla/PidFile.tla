------------------------------ MODULE PidFile ------------------------------
(***************************************************************************)
(* scripts/start.sh, stop.sh and status.sh, the PID file they share and    *)
(* the proxy processes it names.  A step is a command of a script; between *)
(* two commands the processes and the other scripts go on.                 *)
(*                                                                         *)
(* Not modelled: a process number that is used again by another program.   *)
(***************************************************************************)
EXTENDS FiniteSets, Naturals

CONSTANTS
  Scripts,    \* runs of the scripts, each makes one
  Pids,       \* process numbers
  MaxActive,  \* bound: scripts that run at the same time
  Absent,     \* there is no PID file
  Empty       \* it is there and empty

ASSUME PidFileAssumption ==
  /\ Absent \notin Pids /\ Empty \notin Pids /\ Absent # Empty
  /\ MaxActive \in Nat \ {0}
  /\ Cardinality(Pids) >= Cardinality(Scripts)

VARIABLES
  file,     \* the PID file: Absent, Empty or the process number in it
  process,  \* what became of each process
  kind,     \* which script each run is of
  alone,    \* the runs that no other has overlapped
  pc,       \* where it is
  pid,      \* its variable PID
  linked,   \* the file it has open for writing is still the PID file
  report    \* what it told the operator

runs == <<kind, alone>>
scriptVars == <<runs, pc, pid, linked, report>>
pidFileVars == <<file, process, scriptVars>>

Kinds == {"start", "stop", "status"}
Commands == {"new", "test", "read", "check", "remove", "checkConfig", "spawn",
           "truncate", "write", "verify", "kill", "wait", "removeStopped", "done"}
Reports == {"none", "alreadyRunning", "started", "failed", "notRunning",
            "stopped", "running", "gaveUp"}

\* "booting": the shell or nohup, before run.sh has become python app.py;
\* "python": app.py is in the command line; "serving": it has bound the port;
\* "stopping": it was sent SIGTERM.
Up == {p \in Pids : process[p] \in {"booting", "python", "serving", "stopping"}}

\* is_proxy_pid, on /proc
IsProxyPid(p) == p \in Pids /\ process[p] \in {"python", "serving", "stopping"}

Active == {s \in Scripts : pc[s] \notin {"new", "done"}}

PidFileInit ==
  /\ file = Absent
  /\ process = [p \in Pids |-> "unused"]
  /\ kind = [s \in Scripts |-> "none"]
  /\ alone = {}
  /\ pc = [s \in Scripts |-> "new"]
  /\ pid = [s \in Scripts |-> Empty]
  /\ linked = [s \in Scripts |-> FALSE]
  /\ report = [s \in Scripts |-> "none"]

-----------------------------------------------------------------------------
(* Commands.                                                               *)

Goto(s, p) == pc' = [pc EXCEPT ![s] = p]

Finish(s, r) ==
  /\ Goto(s, "done")
  /\ report' = [report EXCEPT ![s] = r]

\* rm -f "$PID_FILE"
Remove ==
  /\ file' = Absent
  /\ linked' = [s \in Scripts |-> FALSE]

Run(s, k) ==
  /\ pc[s] = "new"
  /\ Cardinality(Active) < MaxActive
  /\ kind' = [kind EXCEPT ![s] = k]
  /\ alone' = (IF Active = {} THEN alone \cup {s} ELSE alone \ Active)
  /\ Goto(s, "test")
  /\ UNCHANGED <<file, process, pid, linked, report>>

\* [ -f "$PID_FILE" ]
Test(s) ==
  /\ pc[s] = "test"
  /\ CASE file # Absent -> Goto(s, "read") /\ UNCHANGED report
       [] file = Absent /\ kind[s] = "start" -> Goto(s, "checkConfig") /\ UNCHANGED report
       [] OTHER -> Finish(s, "notRunning")
  /\ UNCHANGED <<file, process, runs, pid, linked>>

\* PID=$(cat "$PID_FILE" 2>/dev/null || true)
Read(s) ==
  /\ pc[s] = "read"
  /\ pid' = [pid EXCEPT ![s] = IF file = Absent THEN Empty ELSE file]
  /\ Goto(s, "check")
  /\ UNCHANGED <<file, process, runs, linked, report>>

\* A faulty Check: start.sh does not look whether the process it found is up.
CheckStartsAnyway(s) ==
  /\ pc[s] = "check"
  /\ CASE ~ IsProxyPid(pid[s]) \/ kind[s] = "start" -> Goto(s, "remove") /\ UNCHANGED report
       [] IsProxyPid(pid[s]) /\ kind[s] = "status" -> Finish(s, "running")
       [] OTHER -> Goto(s, "kill") /\ UNCHANGED report
  /\ UNCHANGED <<file, process, runs, pid, linked>>

\* if is_proxy_pid "$PID"
Check(s) ==
  /\ pc[s] = "check"
  /\ CASE ~ IsProxyPid(pid[s]) -> Goto(s, "remove") /\ UNCHANGED report
       [] IsProxyPid(pid[s]) /\ kind[s] = "start" -> Finish(s, "alreadyRunning")
       [] IsProxyPid(pid[s]) /\ kind[s] = "status" -> Finish(s, "running")
       [] OTHER -> Goto(s, "kill") /\ UNCHANGED report
  /\ UNCHANGED <<file, process, runs, pid, linked>>

\* The file is stale.
RemoveStale(s) ==
  /\ pc[s] = "remove"
  /\ Remove
  /\ IF kind[s] = "start"
     THEN Goto(s, "checkConfig") /\ UNCHANGED report
     ELSE Finish(s, "notRunning")
  /\ UNCHANGED <<process, runs, pid>>

\* check-config.sh; set -e ends the script when it fails.
CheckConfig(s) ==
  /\ pc[s] = "checkConfig"
  /\ \/ Goto(s, "spawn") /\ UNCHANGED report
     \/ Finish(s, "failed")
  /\ UNCHANGED <<file, process, runs, pid, linked>>

\* A faulty Spawn: $! is not kept.
SpawnForgetsPid(s) ==
  /\ pc[s] = "spawn"
  /\ \E p \in Pids :
       /\ process[p] = "unused"
       /\ process' = [process EXCEPT ![p] = "booting"]
  /\ Goto(s, "truncate")
  /\ UNCHANGED <<file, runs, pid, linked, report>>

\* nohup run.sh & PID=$!
Spawn(s) ==
  /\ pc[s] = "spawn"
  /\ \E p \in Pids :
       /\ process[p] = "unused"
       /\ process' = [process EXCEPT ![p] = "booting"]
       /\ pid' = [pid EXCEPT ![s] = p]
  /\ Goto(s, "truncate")
  /\ UNCHANGED <<file, runs, linked, report>>

\* printf ... > "$PID_FILE": the shell opens and truncates the file ...
Truncate(s) ==
  /\ pc[s] = "truncate"
  /\ file' = Empty
  /\ linked' = [linked EXCEPT ![s] = TRUE]
  /\ Goto(s, "write")
  /\ UNCHANGED <<process, runs, pid, report>>

\* ... and printf writes, to a file that may have been removed meanwhile.
Write(s) ==
  /\ pc[s] = "write"
  /\ file' = IF linked[s] THEN pid[s] ELSE file
  /\ linked' = [linked EXCEPT ![s] = FALSE]
  /\ Goto(s, "verify")
  /\ UNCHANGED <<process, runs, pid, report>>

\* sleep 1, which is taken to be enough for run.sh to become python app.py;
\* then is_proxy_pid "$PID", and rm -f if it is gone.
Verify(s) ==
  /\ pc[s] = "verify"
  /\ process[pid[s]] # "booting"
  /\ IF IsProxyPid(pid[s])
     THEN Finish(s, "started") /\ UNCHANGED <<file, linked>>
     ELSE Finish(s, "failed") /\ Remove
  /\ UNCHANGED <<process, runs, pid>>

\* kill "$PID"; set -e ends the script when the process is gone.
Kill(s) ==
  /\ pc[s] = "kill"
  /\ IF IsProxyPid(pid[s])
     THEN /\ process' = [process EXCEPT ![pid[s]] = "stopping"]
          /\ Goto(s, "wait")
          /\ UNCHANGED report
     ELSE /\ Finish(s, "failed")
          /\ UNCHANGED process
  /\ UNCHANGED <<file, runs, pid, linked>>

\* A faulty Wait: stop.sh does not wait for the process to go.
WaitNotAtAll(s) ==
  /\ pc[s] = "wait"
  /\ Goto(s, "removeStopped")
  /\ UNCHANGED <<file, process, runs, pid, linked, report>>

\* while is_proxy_pid "$PID", at most 20 seconds
Wait(s) ==
  /\ pc[s] = "wait"
  /\ IF IsProxyPid(pid[s])
     THEN Finish(s, "gaveUp")
     ELSE Goto(s, "removeStopped") /\ UNCHANGED report
  /\ UNCHANGED <<file, process, runs, pid, linked>>

RemoveStopped(s) ==
  /\ pc[s] = "removeStopped"
  /\ Remove
  /\ Finish(s, "stopped")
  /\ UNCHANGED <<process, runs, pid>>

Step(s) ==
  \/ Test(s) \/ Read(s) \/ Check(s) \/ RemoveStale(s) \/ CheckConfig(s)
  \/ Spawn(s) \/ Truncate(s) \/ Write(s) \/ Verify(s)
  \/ Kill(s) \/ Wait(s) \/ RemoveStopped(s)

-----------------------------------------------------------------------------
(* Processes.                                                              *)

Become(p, from, to) ==
  /\ process[p] = from
  /\ process' = [process EXCEPT ![p] = to]
  /\ UNCHANGED <<file, scriptVars>>

\* run.sh: exec python app.py
Exec(p) == Become(p, "booting", "python")

\* ProxyHTTPServer binds the port, which one process at a time can have.
BindPort(p) ==
  /\ \A q \in Pids \ {p} : process[q] # "serving"
  /\ Become(p, "python", "serving")

\* It crashes, cannot bind, or ends after SIGTERM.
Die(p) ==
  /\ p \in Up
  /\ process' = [process EXCEPT ![p] = "dead"]
  /\ UNCHANGED <<file, scriptVars>>

PidFileNext ==
  \/ \E s \in Scripts : Step(s) \/ \E k \in Kinds : Run(s, k)
  \/ \E p \in Pids : Exec(p) \/ BindPort(p) \/ Die(p)

PidFileSpec == PidFileInit /\ [][PidFileNext]_pidFileVars

-----------------------------------------------------------------------------
(* Properties.                                                             *)

PidFileTypeOK ==
  /\ file \in Pids \cup {Absent, Empty}
  /\ process \in [Pids -> {"unused", "booting", "python", "serving", "stopping", "dead"}]
  /\ kind \in [Scripts -> Kinds \cup {"none"}]
  /\ alone \subseteq Scripts
  /\ pc \in [Scripts -> Commands]
  /\ pid \in [Scripts -> Pids \cup {Empty}]
  /\ \A s \in Scripts :
       pc[s] \in {"truncate", "write", "verify", "kill", "wait"} => pid[s] \in Pids
  /\ linked \in [Scripts -> BOOLEAN]
  /\ report \in [Scripts -> Reports]

\* Between scripts, a proxy that is up is the one the PID file names, so that
\* the next stop.sh or status.sh finds it.
Registered == Active = {} => \A p \in Up : file = p

\* The scripts never have two proxies up at a time.
OneProxy == Cardinality(Up) <= 1

\* When a script that no other overlaps tells the operator that the proxy is not
\* running, or stopped, no proxy is up (stop.sh:18 "is not running (no PID
\* file)", stop.sh:40 "stopped", status.sh:18 "status=stopped").
TruthfulReports ==
  [][\A s \in alone :
       report'[s] # report[s] /\ report'[s] \in {"notRunning", "stopped"}
         => Up' = {}]_pidFileVars
=============================================================================
