------------------------ MODULE TokenManagerContract ------------------------
(***************************************************************************)
(* TokenManager implements RefreshContract.  The refresh under way is that *)
(* of the thread that holds _refresh_lock and has decided to refresh.      *)
(***************************************************************************)
EXTENDS TokenManager

UnderWay == refreshLock # None /\ pc[refreshLock] # "deciding"

Stage ==
  IF UnderWay
  THEN CASE pc[refreshLock] = "authenticating" -> "asking"
         [] pc[refreshLock] = "validating"     -> "answered"
         [] pc[refreshLock] = "installing"     -> "checked"
         [] OTHER                              -> "failed"
  ELSE "idle"

Cause == IF UnderWay THEN call[refreshLock] ELSE None

Candidate ==
  IF Stage \in {"answered", "checked"} THEN candidate[refreshLock].token ELSE None

Since == IF Stage \in {"checked", "failed"} THEN clock[refreshLock] ELSE 0

QuietUntil == IF lastError THEN nextAttempt ELSE 0

Contract == INSTANCE RefreshContract WITH
  Causes     <- Calls,
  stage      <- Stage,
  cause      <- Cause,
  candidate  <- Candidate,
  since      <- Since,
  due        <- nextRefresh,
  quietUntil <- QuietUntil

\* Every behaviour of the token manager is one of the contract: under any
\* interleaving of the callers, refreshes begin only with a valid cause, the
\* token installed is the candidate that was validated, and a failure leaves
\* the token in use alone (token_manager.py, _perform_refresh_locked,
\* refresh and refresh_rejected_token).
ImplementsContract == Contract!Spec
=============================================================================
