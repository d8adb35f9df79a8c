----------------------------- MODULE TriggerSearch -----------------------------
(***************************************************************************)
(* limit-engine's max_safe_fill: the largest chunk of an order whose exact *)
(* net economics satisfy its limit, found by bisection over probes of the  *)
(* quote provider, then confirmed and fitted to the order's minimum fill.  *)
(*                                                                         *)
(* One action per probe.  A provider is pure by contract (the same answer  *)
(* for the same amount); the confirmation ladder guards against one that   *)
(* is not, so both are explored.                                           *)
(***************************************************************************)
EXTENDS Integers

CONSTANTS
    MaxRemaining,       \* bound: the largest remaining input
    MaxSearchSteps,     \* MAX_SEARCH_STEPS
    MaxFallbackSteps    \* MAX_FALLBACK_STEPS

ASSUME SearchAssumption ==
    /\ MaxRemaining \in Nat
    /\ MaxSearchSteps \in Nat
    /\ MaxFallbackSteps \in Nat

VARIABLES
    remaining, min_fill, allow_partial,     \* of the order
    pure,           \* whether the provider keeps its contract
    executable,     \* the amounts a pure provider finds executable
    pc,
    lo, hi, steps,  \* the bisection
    chunk,          \* the candidate of finalize_candidate
    fallback_steps,
    probed,         \* the last amount found executable
    result          \* the chunk returned; 0 for None

searched == <<remaining, min_fill, allow_partial, pure, executable>>
searchVars == <<searched, pc, lo, hi, steps, chunk, fallback_steps, probed, result>>

SearchInit ==
    /\ remaining \in 0..MaxRemaining
    /\ min_fill \in 0..MaxRemaining
    /\ allow_partial \in BOOLEAN
    /\ pure \in BOOLEAN
    /\ executable \in IF pure THEN SUBSET (1..remaining) ELSE {{}}
    /\ pc = "start"
    /\ lo = 0 /\ hi = 0 /\ steps = 0
    /\ chunk = 0 /\ fallback_steps = 0
    /\ probed = 0
    /\ result = 0

\* attempt_is_executable: zero and more than the remainder never are.
Probe(amount, answer) ==
    /\ answer => 0 < amount /\ amount <= remaining
    /\ pure => answer = (amount \in executable)
    /\ probed' = IF answer THEN amount ELSE probed

Return(amount) ==
    /\ pc' = "done"
    /\ result' = amount
    /\ UNCHANGED <<searched, lo, hi, steps, chunk, fallback_steps>>

Goto(l) ==
    /\ pc' = l
    /\ UNCHANGED <<searched, lo, hi, steps, chunk, fallback_steps, result>>

Start ==
    /\ pc = "start"
    /\ UNCHANGED probed
    /\ IF min_fill = 0 \/ min_fill > remaining THEN Return(0) ELSE Goto("full")

\* Steps 1 and 2: the full remainder, the only chunk of an all-or-nothing order.
ProbeFull(answer) ==
    /\ pc = "full"
    /\ Probe(remaining, answer)
    /\ IF answer THEN Return(remaining)
       ELSE IF allow_partial THEN Goto("minimum") ELSE Return(0)

\* Step 3.
ProbeMinimum(answer) ==
    /\ pc = "minimum"
    /\ Probe(min_fill, answer)
    /\ IF answer
       THEN /\ pc' = "bisect"
            /\ lo' = min_fill
            /\ hi' = remaining
            /\ UNCHANGED <<searched, steps, chunk, fallback_steps, result>>
       ELSE Return(0)

\* Mutant: the bisection keeps the side it should discard.
BisectAgainst(answer) ==
    LET mid == lo + (hi - lo) \div 2 IN
    /\ pc = "bisect" /\ hi - lo > 1 /\ steps < MaxSearchSteps
    /\ Probe(mid, answer)
    /\ lo' = IF answer THEN lo ELSE mid
    /\ hi' = IF answer THEN mid ELSE hi
    /\ steps' = steps + 1
    /\ UNCHANGED <<searched, pc, chunk, fallback_steps, result>>

\* Step 4: an iteration of the bisection, and its end.
Bisect(answer) ==
    LET mid == lo + (hi - lo) \div 2 IN
    /\ pc = "bisect" /\ hi - lo > 1 /\ steps < MaxSearchSteps
    /\ Probe(mid, answer)
    /\ lo' = IF answer THEN mid ELSE lo
    /\ hi' = IF answer THEN hi ELSE mid
    /\ steps' = steps + 1
    /\ UNCHANGED <<searched, pc, chunk, fallback_steps, result>>

BisectionEnds ==
    /\ pc = "bisect" /\ ~(hi - lo > 1 /\ steps < MaxSearchSteps)
    /\ pc' = "confirm"
    /\ chunk' = lo
    /\ UNCHANGED <<searched, lo, hi, steps, fallback_steps, probed, result>>

\* Mutant: the candidate is returned as soon as it is confirmed.
ConfirmOnly(answer) ==
    /\ pc = "confirm"
    /\ Probe(chunk, answer)
    /\ IF answer THEN Return(chunk) ELSE Return(0)

\* Step 6: confirm the candidate, or halve it, never below the minimum; then
\* step 5: is the remainder it leaves still fillable?
Confirm(answer) ==
    /\ pc = "confirm"
    /\ Probe(chunk, answer)
    /\ IF answer
       THEN IF chunk # remaining /\ remaining - chunk < min_fill
            THEN Goto("complete")
            ELSE Return(chunk)
       ELSE IF fallback_steps >= MaxFallbackSteps \/ chunk < min_fill \/ chunk \div 2 < min_fill
       THEN Return(0)
       ELSE /\ chunk' = chunk \div 2
            /\ fallback_steps' = fallback_steps + 1
            /\ UNCHANGED <<searched, pc, lo, hi, steps, result>>

\* Complete the order when that is safe ...
ProbeComplete(answer) ==
    /\ pc = "complete"
    /\ Probe(remaining, answer)
    /\ IF answer THEN Return(remaining)
       ELSE IF remaining - min_fill < min_fill THEN Return(0)
       ELSE Goto("cap")

\* ... otherwise leave exactly the minimum.
ProbeCapped(answer) ==
    /\ pc = "cap"
    /\ Probe(remaining - min_fill, answer)
    /\ IF answer THEN Return(remaining - min_fill) ELSE Return(0)

\* A probe of a dishonest provider fails its integrity checks.
IntegrityViolation ==
    /\ pc \in {"full", "minimum", "bisect", "confirm", "complete", "cap"}
    /\ ~pure
    /\ UNCHANGED probed
    /\ Return(0)

SearchNext ==
    \/ Start
    \/ BisectionEnds
    \/ IntegrityViolation
    \/ \E answer \in BOOLEAN :
          \/ ProbeFull(answer)
          \/ ProbeMinimum(answer)
          \/ Bisect(answer)
          \/ Confirm(answer)
          \/ ProbeComplete(answer)
          \/ ProbeCapped(answer)

SearchSpec == SearchInit /\ [][SearchNext]_searchVars

-----------------------------------------------------------------------------
\* The search's locals are well formed and both of its step counters keep their
\* bounds.
SearchTypeOK ==
    /\ remaining \in Nat /\ min_fill \in Nat
    /\ allow_partial \in BOOLEAN /\ pure \in BOOLEAN
    /\ executable \subseteq 1..remaining
    /\ pc \in {"start", "full", "minimum", "bisect", "confirm", "complete", "cap", "done"}
    /\ lo \in Nat /\ hi \in Nat /\ chunk \in Nat /\ probed \in Nat /\ result \in Nat
    /\ steps \in 0..MaxSearchSteps
    /\ fallback_steps \in 0..MaxFallbackSteps

\* A chunk the order can be filled by: all of it, or a part of at least the
\* minimum that leaves at least the minimum.
Viable(amount) ==
    /\ min_fill <= amount /\ amount <= remaining
    /\ amount # remaining => allow_partial /\ remaining - amount >= min_fill

\* Whatever the provider does, a chunk that is returned was found executable by
\* the last probe that succeeded and leaves a viable remainder (trigger.rs,
\* "Safety over completeness"; INVARIANTS.md 3).
ReturnsSafeChunk == result # 0 => result = probed /\ Viable(result)

Monotone == \A a \in executable : 1..a \subseteq executable

Best == {a \in executable : Viable(a)}

\* With a pure provider and monotone economics the chunk returned is the largest
\* one there is, and None means that there is none.
MaximalWhenMonotone ==
    pc = "done" /\ pure /\ Monotone /\ min_fill > 0 =>
        IF Best = {} THEN result = 0
        ELSE result \in Best /\ \A a \in Best : a <= result

Stage == [start |-> 0, full |-> 1, minimum |-> 2, bisect |-> 3, confirm |-> 4, complete |-> 5,
          cap |-> 6, done |-> 7]

\* The search ends, whatever the provider answers: no step goes back to an earlier
\* probe, and a step that stays at one uses up one of the bounded iterations.
SearchDescends ==
    [][\/ Stage[pc'] > Stage[pc]
       \/ pc' = pc /\ steps' + fallback_steps' > steps + fallback_steps]_searchVars
=============================================================================
