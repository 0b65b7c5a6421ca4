--------------------------- MODULE ReconnectPolicy ---------------------------
(***************************************************************************)
(* The pure half of the reconnect supervisor: apps/desktop/src/reconnect.rs *)
(* and the retryability judgement of crates/core-ssh/src/error.rs.          *)
(*                                                                         *)
(* How long a decision to reconnect sleeps (Backoff::delay) is left open: a *)
(* sleep in module Supervisor may last any time.                           *)
(***************************************************************************)
EXTENDS Naturals

CONSTANTS
    Enabled,      \* ReconnectPolicy.enabled, resolved by reconnect_policy_for
    MaxAttempts   \* ReconnectPolicy.max_attempts

ASSUME PolicyAssumption ==
    /\ Enabled \in BOOLEAN
    /\ MaxAttempts \in Nat

-----------------------------------------------------------------------------
(* Failures of one (re)connect attempt: the variants of SshError that the   *)
(* connect path can return, plus the failures of establish_saved_host that  *)
(* happen before SSH is reached.                                            *)

RetryableErrors == {"ConnectTimeout", "Io", "Protocol"}

FatalErrors == {"HostKeyRejected", "AuthFailed", "Agent", "KeyLoad",
                "HostRemoved", "StoreFailed"}

ConnectErrors == RetryableErrors \cup FatalErrors

\* SshError::is_retryable, and the `retryable: false` that
\* establish_saved_host gives its own failures.
IsRetryable(err) == err \in RetryableErrors

-----------------------------------------------------------------------------
\* Mutants: the ceiling is off by one in either direction.
ReconnectOrGiveUp_OneLess(attempt) ==
    IF Enabled /\ MaxAttempts # 0 /\ attempt < MaxAttempts
    THEN "reconnect" ELSE "giveup"

ReconnectOrGiveUp_OneMore(attempt) ==
    IF Enabled /\ MaxAttempts # 0 /\ attempt <= MaxAttempts + 1
    THEN "reconnect" ELSE "giveup"

(* ReconnectPolicy::reconnect_or_give_up: `attempt` is the attempt being    *)
(* considered, counted from 1.                                              *)
ReconnectOrGiveUp(attempt) ==
    IF Enabled /\ MaxAttempts # 0 /\ attempt <= MaxAttempts
    THEN "reconnect"
    ELSE "giveup"

\* ReconnectPolicy::decide: what follows the end of an output pump.
Decide(end, attempt) ==
    IF end = "dropped" THEN ReconnectOrGiveUp(attempt) ELSE "exit"

\* ReconnectPolicy::after_failed_attempt: what follows a failed attempt.
\* `attempt + 1` is a u32 in the code; reaching its limit takes 2^32 attempts
\* spaced by up to 30 s each, so the width is not modelled.
AfterFailedAttempt(attempt, err) ==
    IF IsRetryable(err) THEN ReconnectOrGiveUp(attempt + 1) ELSE "giveup"
=============================================================================
