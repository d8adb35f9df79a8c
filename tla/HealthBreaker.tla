---------------------------- MODULE HealthBreaker ----------------------------
(***************************************************************************)
(* A breaker entry shared by concurrent callers.  A caller is admitted,    *)
(* holds an RAII guard across its await (adapter.submit or signing.sign),  *)
(* and then resolves it as a success or a failure, or is cancelled and     *)
(* drops it.  Both failures and drops are recorded at the caller's own     *)
(* now_ms, which is the time of its admission.                             *)
(*                                                                         *)
(* The safety properties are proved at the end of the module, for any      *)
(* number of callers, any threshold, any cooldown and any clock.           *)
(***************************************************************************)
EXTENDS BreakerOps, TLAPS

CONSTANTS
    Callers,    \* concurrent execute() futures
    Horizon,    \* bound: last instant at which a call may start
    MaxNow      \* bound: last instant of the model's clock

ASSUME TimeAssumption == /\ Horizon \in Nat
                         /\ MaxNow \in Nat
                         /\ Horizon + CooldownMs <= MaxNow

VARIABLES
    entry,      \* the breaker entry
    now,        \* the clock the callers read their now_ms from
    guards      \* guards[c]: the guard c holds, NoGuard when it holds none

breakerVars == <<entry, now, guards>>

NoGuard == [live |-> FALSE, admitted_at_ms |-> 0, consumed_probe |-> FALSE]

Guard == [live : BOOLEAN, admitted_at_ms : Nat, consumed_probe : BOOLEAN]

BreakerInit ==
    /\ entry = DefaultEntry
    /\ now = 0
    /\ guards = [c \in Callers |-> NoGuard]

\* admit_probe returns Some(guard).
AdmitProbe(c) ==
    /\ ~guards[c].live
    /\ now <= Horizon
    /\ CheckAllowed(entry, now)
    /\ guards' = [guards EXCEPT ![c] = [live           |-> TRUE,
                                        admitted_at_ms |-> now,
                                        consumed_probe |-> ConsumesProbe(entry)]]
    /\ entry' = Admitted(entry)
    /\ UNCHANGED now

Release(c) == guards' = [guards EXCEPT ![c] = NoGuard]

GuardSuccess(c) ==
    /\ guards[c].live
    /\ entry' = RecordSuccess(entry)
    /\ Release(c)
    /\ UNCHANGED now

GuardFailure(c) ==
    /\ guards[c].live
    /\ entry' = RecordFailure(entry, guards[c].admitted_at_ms)
    /\ Release(c)
    /\ UNCHANGED now

\* The awaiting future is cancelled.
GuardDrop(c) ==
    /\ guards[c].live
    /\ entry' = DropGuard(entry, guards[c])
    /\ Release(c)
    /\ UNCHANGED now

\* A starting call feeds the adapter's reading into the breaker.
ObserveHealth ==
    /\ now <= Horizon
    /\ \E health \in Health : entry' = Observe(entry, health, now)
    /\ UNCHANGED <<now, guards>>

Tick ==
    /\ now < MaxNow
    /\ now' = now + 1
    /\ UNCHANGED <<entry, guards>>

BreakerNext ==
    \/ \E c \in Callers : AdmitProbe(c)
    \/ \E c \in Callers : GuardSuccess(c)
    \/ \E c \in Callers : GuardFailure(c)
    \/ \E c \in Callers : GuardDrop(c)
    \/ ObserveHealth
    \/ Tick

BreakerSpec == BreakerInit /\ [][BreakerNext]_breakerVars

-----------------------------------------------------------------------------

\* The breaker entry is well formed (its saturating failure counter included),
\* and every guard is what admit_probe or the guard's own methods made of it.
BreakerTypeOK ==
    /\ entry \in Entry
    /\ now \in Nat
    /\ guards \in [Callers -> Guard]

ProbeHolders == {c \in Callers : guards[c].live /\ guards[c].consumed_probe}

\* A probe is never stranded: whenever the entry says a probe is in flight, some
\* live caller holds a guard that will resolve it (health.rs:99-103).
ProbeNotStranded == entry.probe_in_flight => ProbeHolders # {}

\* Once the threshold is reached, only a probe can stand between the breaker and
\* new traffic: past the threshold it is either blocking or half-open with its
\* probe flag up, and it counts as healthy only with no failure recorded.
OpenCircuitAdmitsOnlyProbes ==
    /\ entry.consecutive_failures >= FailureThreshold
           => \/ entry.state = "Unavailable" /\ ~entry.probe_in_flight
              \/ entry.state = "Degraded" /\ entry.probe_in_flight
    /\ entry.state = "Healthy" <=> entry.consecutive_failures = 0
    /\ entry.state = "Unavailable" => entry.consecutive_failures >= FailureThreshold

\* The breaker never wedges: once every admitted call has ended, however it ended
\* and in whatever order, a caller is admitted after one more cooldown
\* (health.rs:193-197).
Reopens == (\A c \in Callers : ~guards[c].live) => CheckAllowed(entry, now + CooldownMs)

\* The breaker neither strands its probe, nor lets an open circuit pass for a
\* healthy one, nor stays shut for good.
BreakerIsSound == ProbeNotStranded /\ OpenCircuitAdmitsOnlyProbes /\ Reopens

-----------------------------------------------------------------------------
(* Proofs: what the entry operators preserve *)

USE ThresholdAssumption, CooldownAssumption

\* The part of OpenCircuitAdmitsOnlyProbes that an entry satisfies on its own.
Consistent(e) ==
    /\ e.consecutive_failures >= FailureThreshold
           => \/ e.state = "Unavailable" /\ ~e.probe_in_flight
              \/ e.state = "Degraded" /\ e.probe_in_flight
    /\ e.state = "Healthy" <=> e.consecutive_failures = 0
    /\ e.state = "Unavailable" => e.consecutive_failures >= FailureThreshold

\* Recording a failure keeps a well-formed entry well-formed: the counter
\* saturates at its maximum (health.rs, record_failure).
LEMMA RecordFailureType ==
    ASSUME NEW e \in Entry, NEW t \in Nat
    PROVE  RecordFailure(e, t) \in Entry
  <1>1. SaturatingIncrement(e.consecutive_failures) \in 0 .. MaxFailures
    BY DEF SaturatingIncrement, Entry
  <1>2. t + CooldownMs \in Nat
    OBVIOUS
  <1> QED
    BY <1>1, <1>2 DEF RecordFailure, Entry, Health

\* A recorded failure leaves no probe in flight and a consistent entry.
LEMMA RecordFailureConsistent ==
    ASSUME NEW e \in Entry, NEW t \in Nat
    PROVE  /\ Consistent(RecordFailure(e, t))
           /\ ~RecordFailure(e, t).probe_in_flight
  <1> DEFINE f == SaturatingIncrement(e.consecutive_failures)
  <1>1. f \in Nat /\ f > 0
    BY DEF SaturatingIncrement, Entry
  <1> HIDE DEF f
  <1>2. CASE f >= FailureThreshold
    <2>1. RecordFailure(e, t) = [consecutive_failures |-> f, state |-> "Unavailable",
                                 cooldown_until_ms |-> t + CooldownMs,
                                 probe_in_flight |-> FALSE]
      BY <1>2 DEF RecordFailure, f
    <2> QED
      BY <2>1, <1>1, <1>2 DEF Consistent
  <1>3. CASE ~(f >= FailureThreshold)
    <2>1. RecordFailure(e, t) = [consecutive_failures |-> f, state |-> "Degraded",
                                 cooldown_until_ms |-> e.cooldown_until_ms,
                                 probe_in_flight |-> FALSE]
      BY <1>3 DEF RecordFailure, f
    <2> QED
      BY <2>1, <1>1, <1>3 DEF Consistent
  <1> QED
    BY <1>2, <1>3

\* Recording a success closes the breaker and releases the probe.
LEMMA RecordSuccessEntry ==
    ASSUME NEW e \in Entry
    PROVE  /\ RecordSuccess(e) \in Entry
           /\ Consistent(RecordSuccess(e))
           /\ ~RecordSuccess(e).probe_in_flight
  BY DEF RecordSuccess, Entry, Health, Consistent

\* An admission keeps the entry consistent, and raises the probe flag exactly
\* when the admitted caller becomes the owner of the probe.
LEMMA AdmittedEntry ==
    ASSUME NEW e \in Entry, Consistent(e), NEW t \in Nat, CheckAllowed(e, t)
    PROVE  /\ Admitted(e) \in Entry
           /\ Consistent(Admitted(e))
           /\ Admitted(e).probe_in_flight => ConsumesProbe(e) \/ e.probe_in_flight
  BY DEF Admitted, ConsumesProbe, CheckAllowed, Entry, Health, Consistent

-----------------------------------------------------------------------------

\* Type correctness: in particular consecutive_failures never leaves its range.
THEOREM TypeCorrect == BreakerSpec => []BreakerTypeOK
  <1>1. BreakerInit => BreakerTypeOK
    BY DEF BreakerInit, BreakerTypeOK, DefaultEntry, Entry, Health, NoGuard, Guard
  <1>2. BreakerTypeOK /\ [BreakerNext]_breakerVars => BreakerTypeOK'
    <2> SUFFICES ASSUME BreakerTypeOK, [BreakerNext]_breakerVars PROVE BreakerTypeOK'
      OBVIOUS
    <2> USE DEF BreakerTypeOK
    <2>1. ASSUME NEW c \in Callers, AdmitProbe(c) PROVE BreakerTypeOK'
      BY <2>1 DEF AdmitProbe, Admitted, ConsumesProbe, Entry, Health, Guard
    <2>2. ASSUME NEW c \in Callers, GuardSuccess(c) PROVE BreakerTypeOK'
      BY <2>2, RecordSuccessEntry DEF GuardSuccess, Release, NoGuard, Guard
    <2>3. ASSUME NEW c \in Callers, GuardFailure(c) PROVE BreakerTypeOK'
      <3>1. guards[c].admitted_at_ms \in Nat
        BY DEF Guard
      <3> QED
        BY <2>3, <3>1, RecordFailureType DEF GuardFailure, Release, NoGuard, Guard
    <2>4. ASSUME NEW c \in Callers, GuardDrop(c) PROVE BreakerTypeOK'
      <3>1. guards[c].admitted_at_ms \in Nat
        BY DEF Guard
      <3> QED
        BY <2>4, <3>1, RecordFailureType DEF GuardDrop, DropGuard, Release, NoGuard, Guard
    <2>5. CASE ObserveHealth
      BY <2>5, RecordFailureType DEF ObserveHealth, Observe
    <2>6. CASE Tick
      BY <2>6 DEF Tick
    <2>7. CASE UNCHANGED breakerVars
      BY <2>7 DEF breakerVars
    <2> QED
      BY <2>1, <2>2, <2>3, <2>4, <2>5, <2>6, <2>7 DEF BreakerNext
  <1> QED
    BY <1>1, <1>2, PTL DEF BreakerSpec

\* Once the threshold is reached only probes are admitted, whatever the order in
\* which concurrent callers resolve their guards.
THEOREM OpenCircuit == BreakerSpec => []OpenCircuitAdmitsOnlyProbes
  <1>1. BreakerInit => OpenCircuitAdmitsOnlyProbes
    BY DEF BreakerInit, OpenCircuitAdmitsOnlyProbes, DefaultEntry
  <1>2. BreakerTypeOK /\ OpenCircuitAdmitsOnlyProbes /\ [BreakerNext]_breakerVars => OpenCircuitAdmitsOnlyProbes'
    <2> SUFFICES ASSUME BreakerTypeOK, Consistent(entry), [BreakerNext]_breakerVars PROVE Consistent(entry')
      BY DEF OpenCircuitAdmitsOnlyProbes, Consistent
    <2>0. entry \in Entry /\ now \in Nat /\ \A c \in Callers : guards[c].admitted_at_ms \in Nat
      BY DEF BreakerTypeOK, Guard
    <2>1. ASSUME NEW c \in Callers, AdmitProbe(c) PROVE Consistent(entry')
      BY <2>0, <2>1, AdmittedEntry DEF AdmitProbe
    <2>2. ASSUME NEW c \in Callers, GuardSuccess(c) PROVE Consistent(entry')
      BY <2>0, <2>2, RecordSuccessEntry DEF GuardSuccess
    <2>3. ASSUME NEW c \in Callers, GuardFailure(c) PROVE Consistent(entry')
      BY <2>0, <2>3, RecordFailureConsistent DEF GuardFailure
    <2>4. ASSUME NEW c \in Callers, GuardDrop(c) PROVE Consistent(entry')
      BY <2>0, <2>4, RecordFailureConsistent DEF GuardDrop, DropGuard
    <2>5. CASE ObserveHealth
      BY <2>0, <2>5, RecordFailureConsistent DEF ObserveHealth, Observe
    <2>6. CASE Tick
      BY <2>6 DEF Tick
    <2>7. CASE UNCHANGED breakerVars
      BY <2>7 DEF breakerVars
    <2> QED
      BY <2>1, <2>2, <2>3, <2>4, <2>5, <2>6, <2>7 DEF BreakerNext
  <1> QED
    BY <1>1, <1>2, TypeCorrect, PTL DEF BreakerSpec

\* A probe is never stranded: whenever the entry says a probe is in flight, a
\* live guard that consumed it exists and will resolve it, by Drop if need be.
THEOREM NoStrandedProbe == BreakerSpec => []ProbeNotStranded
  <1>1. BreakerInit => ProbeNotStranded
    BY DEF BreakerInit, ProbeNotStranded, DefaultEntry
  <1>2. BreakerTypeOK /\ ProbeNotStranded /\ [BreakerNext]_breakerVars => ProbeNotStranded'
    <2> SUFFICES ASSUME BreakerTypeOK, ProbeNotStranded, [BreakerNext]_breakerVars, entry'.probe_in_flight
                 PROVE  ProbeHolders' # {}
      BY DEF ProbeNotStranded
    <2>0. entry \in Entry /\ now \in Nat /\ guards \in [Callers -> Guard]
          /\ \A c \in Callers : guards[c].admitted_at_ms \in Nat
      BY DEF BreakerTypeOK, Guard
    <2>1. ASSUME NEW c \in Callers, AdmitProbe(c) PROVE ProbeHolders' # {}
      <3>1. CASE ConsumesProbe(entry)
        <4>1. guards'[c].live /\ guards'[c].consumed_probe
          BY <2>0, <2>1, <3>1 DEF AdmitProbe
        <4> QED
          BY <4>1 DEF ProbeHolders
      <3>2. CASE ~ConsumesProbe(entry)
        <4>1. entry' = entry
          BY <2>1, <3>2 DEF AdmitProbe, Admitted
        <4>2. PICK d \in Callers : guards[d].live /\ guards[d].consumed_probe
          BY <4>1 DEF ProbeNotStranded, ProbeHolders
        <4>3. d # c
          BY <2>1, <4>2 DEF AdmitProbe
        <4>4. guards'[d] = guards[d]
          BY <2>0, <2>1, <4>3 DEF AdmitProbe
        <4> QED
          BY <4>2, <4>4 DEF ProbeHolders
      <3> QED
        BY <3>1, <3>2
    <2>2. ASSUME NEW c \in Callers, GuardSuccess(c) PROVE FALSE
      BY <2>0, <2>2, RecordSuccessEntry DEF GuardSuccess
    <2>3. ASSUME NEW c \in Callers, GuardFailure(c) PROVE FALSE
      BY <2>0, <2>3, RecordFailureConsistent DEF GuardFailure
    <2>4. ASSUME NEW c \in Callers, GuardDrop(c) PROVE ProbeHolders' # {}
      <3>1. ~guards[c].consumed_probe /\ entry' = entry
        BY <2>0, <2>4, RecordFailureConsistent DEF GuardDrop, DropGuard
      <3>2. PICK d \in Callers : guards[d].live /\ guards[d].consumed_probe
        BY <3>1 DEF ProbeNotStranded, ProbeHolders
      <3>3. guards'[d] = guards[d]
        BY <2>0, <2>4, <3>1, <3>2 DEF GuardDrop, Release
      <3> QED
        BY <3>2, <3>3 DEF ProbeHolders
    <2>5. CASE ObserveHealth
      <3>1. entry' = entry /\ guards' = guards
        BY <2>0, <2>5, RecordFailureConsistent DEF ObserveHealth, Observe
      <3> QED
        BY <3>1 DEF ProbeNotStranded, ProbeHolders
    <2>6. CASE Tick
      BY <2>6 DEF Tick, ProbeNotStranded, ProbeHolders
    <2>7. CASE UNCHANGED breakerVars
      BY <2>7 DEF breakerVars, ProbeNotStranded, ProbeHolders
    <2> QED
      BY <2>1, <2>2, <2>3, <2>4, <2>5, <2>6, <2>7 DEF BreakerNext
  <1> QED
    BY <1>1, <1>2, TypeCorrect, PTL DEF BreakerSpec

\* Cooldowns are counted from an instant that has passed: a guard was admitted
\* before now, and failures are recorded at now or at an admission.
CooldownIsDue ==
    /\ entry.cooldown_until_ms <= now + CooldownMs
    /\ \A c \in Callers : guards[c].admitted_at_ms <= now

\* No clock reading of a caller is ahead of the clock.
LEMMA CooldownBounded == BreakerSpec => []CooldownIsDue
  <1>1. BreakerInit => CooldownIsDue
    BY DEF BreakerInit, CooldownIsDue, DefaultEntry, NoGuard
  <1>2. BreakerTypeOK /\ CooldownIsDue /\ [BreakerNext]_breakerVars => CooldownIsDue'
    <2> SUFFICES ASSUME BreakerTypeOK, CooldownIsDue, [BreakerNext]_breakerVars
                 PROVE  CooldownIsDue'
      OBVIOUS
    <2>0. /\ entry \in Entry /\ now \in Nat /\ guards \in [Callers -> Guard]
          /\ entry.cooldown_until_ms \in Nat
          /\ \A c \in Callers : guards[c].admitted_at_ms \in Nat
      BY DEF BreakerTypeOK, Guard, Entry
    <2>f. ASSUME NEW t \in Nat, t <= now
          PROVE  RecordFailure(entry, t).cooldown_until_ms <= now + CooldownMs
      BY <2>0, <2>f DEF RecordFailure, CooldownIsDue
    <2>1. ASSUME NEW c \in Callers, AdmitProbe(c) PROVE CooldownIsDue'
      <3>1. entry'.cooldown_until_ms = entry.cooldown_until_ms /\ now' = now
        BY <2>0, <2>1 DEF AdmitProbe, Admitted, Entry
      <3>2. \A d \in Callers : guards'[d].admitted_at_ms <= now
        BY <2>0, <2>1 DEF AdmitProbe, CooldownIsDue
      <3> QED
        BY <3>1, <3>2 DEF CooldownIsDue
    <2>r. ASSUME NEW c \in Callers, Release(c), now' = now,
                 entry'.cooldown_until_ms <= now + CooldownMs
          PROVE  CooldownIsDue'
      <3>1. \A d \in Callers : guards'[d].admitted_at_ms <= now
        BY <2>0, <2>r DEF Release, NoGuard, CooldownIsDue
      <3> QED
        BY <2>r, <3>1 DEF CooldownIsDue
    <2>2. ASSUME NEW c \in Callers, GuardSuccess(c) PROVE CooldownIsDue'
      BY <2>2, <2>r DEF GuardSuccess, RecordSuccess, CooldownIsDue
    <2>3. ASSUME NEW c \in Callers, GuardFailure(c) PROVE CooldownIsDue'
      BY <2>0, <2>3, <2>f, <2>r DEF GuardFailure, CooldownIsDue
    <2>4. ASSUME NEW c \in Callers, GuardDrop(c) PROVE CooldownIsDue'
      BY <2>0, <2>4, <2>f, <2>r DEF GuardDrop, DropGuard, CooldownIsDue
    <2>5. CASE ObserveHealth
      BY <2>0, <2>5, <2>f DEF ObserveHealth, Observe, CooldownIsDue
    <2>6. CASE Tick
      BY <2>0, <2>6 DEF Tick, CooldownIsDue
    <2>7. CASE UNCHANGED breakerVars
      BY <2>7 DEF breakerVars, CooldownIsDue
    <2> QED
      BY <2>1, <2>2, <2>3, <2>4, <2>5, <2>6, <2>7 DEF BreakerNext
  <1> QED
    BY <1>1, <1>2, TypeCorrect, PTL DEF BreakerSpec

\* The breaker is sound for any number of callers: no stranded probe, no open
\* circuit that passes for a healthy one, and no shut door once every call ended.
THEOREM Sound == BreakerSpec => []BreakerIsSound
  <1>1. BreakerTypeOK /\ CooldownIsDue /\ ProbeNotStranded => Reopens
    <2> SUFFICES ASSUME BreakerTypeOK, CooldownIsDue, ProbeNotStranded,
                        \A c \in Callers : ~guards[c].live
                 PROVE  CheckAllowed(entry, now + CooldownMs)
      BY DEF Reopens
    <2>1. ~entry.probe_in_flight
      BY DEF ProbeNotStranded, ProbeHolders
    <2>2. now + CooldownMs >= entry.cooldown_until_ms
      BY DEF CooldownIsDue, BreakerTypeOK, Entry
    <2> QED
      BY <2>1, <2>2 DEF CheckAllowed
  <1> QED
    BY <1>1, TypeCorrect, OpenCircuit, NoStrandedProbe, CooldownBounded, PTL DEF BreakerIsSound
=============================================================================
