----------------------------- MODULE BreakerOps -----------------------------
(***************************************************************************)
(* The state machine shared by execution-relay's two circuit breakers:     *)
(* ChainHealthBreaker (health.rs, one entry per chain) and                 *)
(* SigningFailureBreaker (signing_health.rs, one entry per relay).  Every  *)
(* method of the code runs under one mutex, so each is an operator from an *)
(* entry to an entry.                                                      *)
(***************************************************************************)
EXTENDS Integers

CONSTANTS
    FailureThreshold,   \* consecutive failures that open the breaker
    CooldownMs,         \* how long an open breaker blocks
    MaxFailures         \* where the failure counter saturates (u32::MAX in the code)

ASSUME ThresholdAssumption ==
    /\ FailureThreshold \in Nat \ {0}
    /\ MaxFailures \in Nat
    /\ FailureThreshold <= MaxFailures

ASSUME CooldownAssumption == CooldownMs \in Nat

Health == {"Healthy", "Degraded", "Unavailable"}

Entry == [consecutive_failures : 0 .. MaxFailures,
          state                : Health,
          cooldown_until_ms    : Nat,
          probe_in_flight      : BOOLEAN]

DefaultEntry == [consecutive_failures |-> 0,
                 state                |-> "Healthy",
                 cooldown_until_ms    |-> 0,
                 probe_in_flight      |-> FALSE]

\* The read-only gate: would an admission be granted at now?
CheckAllowed(entry, now) ==
    \/ entry.state = "Healthy"
    \/ /\ ~entry.probe_in_flight
       /\ entry.state = "Unavailable" => now >= entry.cooldown_until_ms

\* A healthy admission owns no probe; every other admission owns the one probe.
ConsumesProbe(entry) == entry.state # "Healthy"

\* The entry after admit_probe grants an admission (the caller has checked
\* CheckAllowed under the same lock).
Admitted(entry) ==
    IF ConsumesProbe(entry)
    THEN [entry EXCEPT !.state = "Degraded", !.probe_in_flight = TRUE]
    ELSE entry

RecordSuccess(entry) ==
    [consecutive_failures |-> 0,
     state                |-> "Healthy",
     cooldown_until_ms    |-> entry.cooldown_until_ms,
     probe_in_flight      |-> FALSE]

SaturatingIncrement(n) == IF n < MaxFailures THEN n + 1 ELSE MaxFailures

RecordFailure(entry, now) ==
    LET failures == SaturatingIncrement(entry.consecutive_failures)
    IN  IF failures >= FailureThreshold
        THEN [consecutive_failures |-> failures,
              state                |-> "Unavailable",
              cooldown_until_ms    |-> now + CooldownMs,
              probe_in_flight      |-> FALSE]
        ELSE [consecutive_failures |-> failures,
              state                |-> "Degraded",
              cooldown_until_ms    |-> entry.cooldown_until_ms,
              probe_in_flight      |-> FALSE]

\* A healthy reading of the adapter is ignored, any other counts as a failure.
Observe(entry, health, now) ==
    IF health = "Healthy" THEN entry ELSE RecordFailure(entry, now)

\* Mutant: no Drop implementation, a cancelled caller just disappears.
DropGuardSilently(entry, guard) == entry

\* Dropping a guard that was never resolved.
DropGuard(entry, guard) ==
    IF guard.consumed_probe
    THEN RecordFailure(entry, guard.admitted_at_ms)
    ELSE entry
=============================================================================
