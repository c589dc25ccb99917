--------------------------- MODULE RefreshContract ---------------------------
(***************************************************************************)
(* What bearer_proxy/token_manager.py promises, told without its threads,  *)
(* its two locks and its clock readings: token refreshes happen one at a   *)
(* time.  A refresh begins only with a cause that holds at that moment,    *)
(* asks for a candidate, has that same candidate validated and installs    *)
(* it, or fails and leaves the token in use alone.                         *)
(*                                                                         *)
(* TokenManagerContract maps the code's state to this one.                 *)
(***************************************************************************)
EXTENDS Durations

CONSTANTS
  Tokens,       \* bearer tokens the authentication endpoint may return
  Causes,       \* the calls that may begin a refresh
  MinInterval,  \* least distance of the next scheduled refresh
  Retry,        \* quiet time after a failure
  None

VARIABLES
  now,         \* the clock
  token,       \* the token in use
  stage,       \* "idle", or how far the refresh under way has come
  cause,       \* the call it works for
  candidate,   \* the token it was given
  since,       \* when its outcome was known
  due,         \* when the next scheduled refresh may begin
  quietUntil   \* after a failure, when the next attempt may begin

attempt == <<stage, cause, candidate, since>>
policy == <<token, due, quietUntil>>
vars == <<now, policy, attempt>>

Init ==
  /\ now = 0
  /\ token = None
  /\ stage = "idle"
  /\ cause = None
  /\ candidate = None
  /\ since = 0
  /\ due = 0
  /\ quietUntil = 0

\* A forced refresh needs no reason.  A scheduled one waits for its date and
\* for the quiet time; a recovery, for the quiet time, and it must be about
\* the token in use.  Nobody waits for a date that is NaN.
MayBegin(c) ==
  \/ c.force
  \/ /\ ~ Less(now, quietUntil)
     /\ \/ c.op = "refresh" /\ (token = None \/ ~ Less(now, due))
        \/ c.op = "recover" /\ c.rejected = token

Begin(c) ==
  /\ stage = "idle"
  /\ MayBegin(c)
  /\ stage' = "asking"
  /\ cause' = c
  /\ UNCHANGED <<now, policy, candidate, since>>

Answered(k) ==
  /\ stage = "asking"
  /\ stage' = "answered"
  /\ candidate' = k
  /\ UNCHANGED <<now, policy, cause, since>>

Validated ==
  /\ stage = "answered"
  /\ stage' = "checked"
  /\ since' = now
  /\ UNCHANGED <<now, policy, cause, candidate>>

Failed ==
  /\ stage \in {"asking", "answered"}
  /\ stage' = "failed"
  /\ candidate' = None
  /\ since' = now
  /\ UNCHANGED <<now, policy, cause>>

Over ==
  /\ stage' = "idle"
  /\ cause' = None
  /\ candidate' = None
  /\ since' = 0
  /\ UNCHANGED now

Install ==
  /\ stage = "checked"
  /\ token' = candidate
  /\ due' \in Spans
  /\ ~ Less(due', Plus(since, MinInterval))
  /\ quietUntil' = 0
  /\ Over

Record ==
  /\ stage = "failed"
  /\ quietUntil' = Plus(since, Retry)
  /\ UNCHANGED <<token, due>>
  /\ Over

Tick ==
  /\ now' = now + 1
  /\ UNCHANGED <<policy, attempt>>

Next ==
  \/ \E c \in Causes : Begin(c)
  \/ \E k \in Tokens : Answered(k)
  \/ Validated
  \/ Failed
  \/ Install
  \/ Record
  \/ Tick

Spec == Init /\ [][Next]_vars
=============================================================================
