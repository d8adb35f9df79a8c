----------------------------- MODULE EnginesProofs -----------------------------
(***************************************************************************)
(* What holds of an order, of the trigger search, of market orders, of the *)
(* audit trail, of adaptive execution and of a wallet's limits for every   *)
(* value of their constants.                                               *)
(*                                                                         *)
(* OrderLedger: what apply_transition keeps of an order.                   *)
(*                                                                         *)
(* TriggerSearch: the chunk max_safe_fill returns is safe, and it is the   *)
(* largest one when the provider keeps its contract. The invariant says    *)
(* what the search knows at each probe: the order passed the first check,  *)
(* only a partial order gets past the full remainder, the interval stays   *)
(* between the minimum and the remainder, and so does the candidate.       *)
(*                                                                         *)
(* MarketAttempts: an order that was sent and whose fate is unknown stays  *)
(* in the registry of the reconcile loop. The invariant counts, for each   *)
(* entry, the calls that may still give a reference back.                  *)
(*                                                                         *)
(* MarketQuotes, TradeBackend: what is executed is what was reviewed, and  *)
(* an attempt is kept under the identity of the command that made it.      *)
(*                                                                         *)
(* AuditTrail: what is replayed is what was appended. The invariant says   *)
(* what each stored ciphertext was sealed for, and how far a writer and a  *)
(* replay can be from the table.                                           *)
(*                                                                         *)
(* AdaptiveExecution: what was executed and what remains make the total,   *)
(* in no more slices than the plan has, and a recorded winner earned it.   *)
(* The invariant says that the executed amount is the sum of the recorded  *)
(* slices, each recorded once, and what the auction knew when it decided.  *)
(*                                                                         *)
(* WalletPolicy: a change of limits that was not confirmed only tightens   *)
(* them. The invariant says that stored limits name a venue.               *)
(***************************************************************************)
EXTENDS TriggerSearch, OrderLedger, TradeBackend, WalletPolicy, AuditTrail, AdaptiveExecution,
        FiniteSetTheorems, SequenceTheorems, NaturalsInduction, WellFoundedInduction, TLAPS

Searching ==
    /\ pc \notin {"start", "done"} => 0 < min_fill /\ min_fill <= remaining
    /\ pc \in {"minimum", "bisect", "confirm", "complete", "cap"} => allow_partial
    /\ pc = "bisect" => min_fill <= lo /\ lo <= hi /\ hi <= remaining
    /\ pc = "confirm" => min_fill <= chunk /\ chunk <= remaining
    /\ pc = "cap" => min_fill <= remaining - min_fill
    /\ pc # "done" => result = 0

IInv == SearchTypeOK /\ Searching /\ ReturnsSafeChunk

\* The middle of the interval stays inside it.
LEMMA Middle ==
    ASSUME NEW a \in Nat, NEW b \in Nat, a <= b
    PROVE  /\ a + (b - a) \div 2 \in Nat
           /\ a <= a + (b - a) \div 2
           /\ a + (b - a) \div 2 <= b
OBVIOUS

\* Half of a candidate is a candidate.
LEMMA Half ==
    ASSUME NEW a \in Nat
    PROVE  a \div 2 \in Nat /\ a \div 2 <= a
OBVIOUS

\* A returned amount is safe when its own probe succeeded.
LEMMA ReturnPreserves ==
    ASSUME IInv, NEW amount \in Nat, NEW answer \in BOOLEAN,
           Probe(amount, answer), answer, Viable(amount), Return(amount)
    PROVE  IInv'
BY DEF IInv, SearchTypeOK, Searching, ReturnsSafeChunk, Viable, Probe, Return, searched

\* Giving up is always safe.
LEMMA GiveUpPreserves ==
    ASSUME IInv, probed' \in Nat, Return(0)
    PROVE  IInv'
BY DEF IInv, SearchTypeOK, Searching, ReturnsSafeChunk, Return, searched

\* A probe (attempt_is_executable) remembers the amount that it was asked about,
\* and nothing else of the search.
LEMMA ProbeType ==
    ASSUME SearchTypeOK, NEW amount \in Nat, NEW answer \in BOOLEAN, Probe(amount, answer)
    PROVE  probed' \in Nat
BY DEF SearchTypeOK, Probe

\* Before max_safe_fill is called nothing has been searched or returned.
LEMMA InitHolds == SearchInit => IInv
BY SearchAssumption DEF SearchInit, IInv, SearchTypeOK, Searching, ReturnsSafeChunk

\* The early returns of max_safe_fill: an order with no fillable remainder ends
\* the search with nothing to send.
LEMMA StartPreserves == ASSUME IInv, Start PROVE IInv'
<1>1. probed' \in Nat
  BY DEF Start, IInv, SearchTypeOK
<1>2. CASE Return(0)
  BY <1>1, <1>2, GiveUpPreserves
<1>3. CASE /\ 0 < min_fill /\ min_fill <= remaining
           /\ Goto("full")
  BY <1>3 DEF Start, Goto, IInv, SearchTypeOK, Searching, ReturnsSafeChunk, searched
<1> QED
  BY <1>2, <1>3 DEF Start, IInv, SearchTypeOK

\* Trying the whole remainder first: what it returns is the remainder it probed.
LEMMA ProbeFullPreserves ==
    ASSUME IInv, NEW answer \in BOOLEAN, ProbeFull(answer) PROVE IInv'
<1>1. /\ pc = "full" /\ Probe(remaining, answer) /\ remaining \in Nat
      /\ 0 < min_fill /\ min_fill <= remaining
  BY DEF ProbeFull, IInv, SearchTypeOK, Searching
<1>2. probed' \in Nat
  BY <1>1, ProbeType DEF IInv
<1>3. CASE answer
  <2>1. Return(remaining)
    BY <1>3, Zenon DEF ProbeFull
  <2>2. Viable(remaining)
    BY <1>1 DEF Viable
  <2> QED
    BY <1>1, <1>3, <2>1, <2>2, ReturnPreserves
<1>4. CASE ~answer /\ allow_partial
  BY <1>1, <1>2, <1>4 DEF ProbeFull, Goto, IInv, SearchTypeOK, Searching, ReturnsSafeChunk, searched
<1>5. CASE ~answer /\ ~allow_partial
  BY <1>2, <1>5, GiveUpPreserves DEF ProbeFull
<1> QED
  BY <1>3, <1>4, <1>5

\* Trying the minimum fill: it opens the bisection interval within the order or
\* ends the search empty-handed.
LEMMA ProbeMinimumPreserves ==
    ASSUME IInv, NEW answer \in BOOLEAN, ProbeMinimum(answer) PROVE IInv'
<1>1. /\ pc = "minimum" /\ Probe(min_fill, answer) /\ min_fill \in Nat
      /\ 0 < min_fill /\ min_fill <= remaining
  BY DEF ProbeMinimum, IInv, SearchTypeOK, Searching
<1>2. probed' \in Nat
  BY <1>1, ProbeType DEF IInv
<1>3. CASE answer
  <2>1. /\ pc' = "bisect" /\ lo' = min_fill /\ hi' = remaining
        /\ UNCHANGED <<searched, steps, chunk, fallback_steps, result>>
    BY <1>3, Zenon DEF ProbeMinimum
  <2> QED
    BY <1>1, <1>2, <2>1 DEF IInv, SearchTypeOK, Searching, ReturnsSafeChunk, searched
<1>4. CASE ~answer
  BY <1>2, <1>4, GiveUpPreserves DEF ProbeMinimum
<1> QED
  BY <1>3, <1>4

\* One halving keeps the interval between the minimum and the remainder and the
\* step count within its bound.
LEMMA BisectPreserves ==
    ASSUME IInv, NEW answer \in BOOLEAN, Bisect(answer) PROVE IInv'
<1> DEFINE mid == lo + (hi - lo) \div 2
<1>1. /\ pc = "bisect" /\ steps < MaxSearchSteps /\ Probe(mid, answer)
      /\ lo \in Nat /\ hi \in Nat /\ lo <= hi /\ min_fill <= lo /\ hi <= remaining
      /\ min_fill \in Nat /\ remaining \in Nat
  BY DEF Bisect, IInv, SearchTypeOK, Searching
<1>2. mid \in Nat /\ lo <= mid /\ mid <= hi
  BY <1>1, Middle
<1>3. probed' \in Nat
  BY <1>1, <1>2, ProbeType DEF IInv
<1>4. /\ lo' = (IF answer THEN mid ELSE lo)
      /\ hi' = (IF answer THEN hi ELSE mid)
      /\ steps' = steps + 1
      /\ UNCHANGED <<searched, pc, chunk, fallback_steps, result>>
  BY DEF Bisect
<1> HIDE DEF mid
<1>5. /\ lo' \in Nat /\ hi' \in Nat
      /\ min_fill <= lo' /\ lo' <= hi' /\ hi' <= remaining
  BY <1>1, <1>2, <1>4
<1>6. steps' \in 0..MaxSearchSteps
  BY <1>1, <1>4, SearchAssumption DEF IInv, SearchTypeOK
<1> QED
  BY <1>1, <1>3, <1>4, <1>5, <1>6 DEF IInv, SearchTypeOK, Searching, ReturnsSafeChunk, searched

\* Leaving the loop hands the lower end of the interval to the confirmation.
LEMMA BisectionEndsPreserves == ASSUME IInv, BisectionEnds PROVE IInv'
BY DEF BisectionEnds, IInv, SearchTypeOK, Searching, ReturnsSafeChunk, searched

\* One rung of the confirmation ladder returns the chunk it has just probed, or
\* goes down, never below the minimum.
LEMMA ConfirmPreserves ==
    ASSUME IInv, NEW answer \in BOOLEAN, Confirm(answer) PROVE IInv'
<1>1. /\ pc = "confirm" /\ Probe(chunk, answer) /\ allow_partial
      /\ chunk \in Nat /\ min_fill \in Nat /\ remaining \in Nat
      /\ 0 < min_fill /\ min_fill <= chunk /\ chunk <= remaining
  BY DEF Confirm, IInv, SearchTypeOK, Searching
<1>2. probed' \in Nat
  BY <1>1, ProbeType DEF IInv
<1>3. CASE answer /\ chunk # remaining /\ remaining - chunk < min_fill
  BY <1>1, <1>2, <1>3 DEF Confirm, Goto, IInv, SearchTypeOK, Searching, ReturnsSafeChunk, searched
<1>4. CASE answer /\ ~(chunk # remaining /\ remaining - chunk < min_fill)
  <2>1. Viable(chunk)
    BY <1>1, <1>4 DEF Viable
  <2> QED
    BY <1>1, <1>4, <2>1, ReturnPreserves DEF Confirm
<1>5. CASE ~answer
  <2>1. CASE Return(0)
    BY <1>2, <2>1, GiveUpPreserves
  <2>2. CASE /\ fallback_steps < MaxFallbackSteps /\ min_fill <= chunk \div 2
             /\ chunk' = chunk \div 2
             /\ fallback_steps' = fallback_steps + 1
             /\ UNCHANGED <<searched, pc, lo, hi, steps, result>>
    <3>1. chunk' \in Nat /\ min_fill <= chunk' /\ chunk' <= remaining
      BY <1>1, <2>2, Half
    <3>2. fallback_steps' \in 0..MaxFallbackSteps
      BY <2>2, SearchAssumption DEF IInv, SearchTypeOK
    <3> QED
      BY <1>1, <1>2, <2>2, <3>1, <3>2
      DEF IInv, SearchTypeOK, Searching, ReturnsSafeChunk, searched
  <2> QED
    BY <1>1, <1>5, <2>1, <2>2, Half, SearchAssumption DEF Confirm, IInv, SearchTypeOK
<1> QED
  BY <1>3, <1>4, <1>5

\* The chunk raised to the whole remainder is returned only on its own probe.
LEMMA ProbeCompletePreserves ==
    ASSUME IInv, NEW answer \in BOOLEAN, ProbeComplete(answer) PROVE IInv'
<1>1. /\ pc = "complete" /\ Probe(remaining, answer)
      /\ remaining \in Nat /\ min_fill \in Nat
      /\ 0 < min_fill /\ min_fill <= remaining
  BY DEF ProbeComplete, IInv, SearchTypeOK, Searching
<1>2. probed' \in Nat
  BY <1>1, ProbeType DEF IInv
<1>3. CASE answer
  <2>1. Return(remaining)
    BY <1>3, Zenon DEF ProbeComplete
  <2>2. Viable(remaining)
    BY <1>1 DEF Viable
  <2> QED
    BY <1>1, <1>3, <2>1, <2>2, ReturnPreserves
<1>4. CASE ~answer /\ remaining - min_fill < min_fill
  BY <1>2, <1>4, GiveUpPreserves DEF ProbeComplete
<1>5. CASE ~answer /\ ~(remaining - min_fill < min_fill)
  <2>1. Goto("cap")
    BY <1>5, Zenon DEF ProbeComplete
  <2>2. min_fill <= remaining - min_fill
    BY <1>1, <1>5
  <2> QED
    BY <1>1, <1>2, <2>1, <2>2 DEF Goto, IInv, SearchTypeOK, Searching, ReturnsSafeChunk, searched
<1> QED
  BY <1>3, <1>4, <1>5

\* The chunk lowered so that a fillable remainder is left is returned only on its
\* own probe.
LEMMA ProbeCappedPreserves ==
    ASSUME IInv, NEW answer \in BOOLEAN, ProbeCapped(answer) PROVE IInv'
<1>1. /\ pc = "cap" /\ Probe(remaining - min_fill, answer)
      /\ remaining \in Nat /\ min_fill \in Nat /\ allow_partial
      /\ 0 < min_fill /\ min_fill <= remaining - min_fill
  BY DEF ProbeCapped, IInv, SearchTypeOK, Searching
<1>2. remaining - min_fill \in Nat /\ Viable(remaining - min_fill)
  BY <1>1 DEF Viable
<1>3. probed' \in Nat
  BY <1>1, <1>2, ProbeType DEF IInv
<1>4. CASE answer
  BY <1>1, <1>2, <1>4, ReturnPreserves DEF ProbeCapped
<1>5. CASE ~answer
  BY <1>3, <1>5, GiveUpPreserves DEF ProbeCapped
<1> QED
  BY <1>4, <1>5

\* The inductive step: every step of the search keeps the invariant.
LEMMA StepHolds == IInv /\ [SearchNext]_searchVars => IInv'
<1> SUFFICES ASSUME IInv, [SearchNext]_searchVars PROVE IInv'
  OBVIOUS
<1>1. CASE IntegrityViolation
  BY <1>1, GiveUpPreserves DEF IntegrityViolation, IInv, SearchTypeOK
<1>2. CASE UNCHANGED searchVars
  BY <1>2 DEF searchVars, searched, IInv, SearchTypeOK, Searching, ReturnsSafeChunk, Viable
<1> QED
  BY <1>1, <1>2, StartPreserves, BisectionEndsPreserves, ProbeFullPreserves,
     ProbeMinimumPreserves, BisectPreserves, ConfirmPreserves, ProbeCompletePreserves,
     ProbeCappedPreserves DEF SearchNext

\* Whatever the provider answers, the chunk max_safe_fill returns was found
\* executable by its last successful probe, lies between the minimum fill and the
\* remainder, and leaves a remainder that can still be filled.
THEOREM SafeChunk == SearchSpec => []ReturnsSafeChunk
<1>1. IInv => ReturnsSafeChunk
  BY DEF IInv
<1> QED
  BY InitHolds, StepHolds, <1>1, PTL DEF SearchSpec

\* The search state is well formed: the bisection and the ladder never exceed
\* MAX_SEARCH_STEPS and MAX_FALLBACK_STEPS.
THEOREM TypeCorrect == SearchSpec => []SearchTypeOK
<1>1. IInv => SearchTypeOK
  BY DEF IInv
<1> QED
  BY InitHolds, StepHolds, <1>1, PTL DEF SearchSpec

\* A step of the search that stays at a probe counts one iteration; every other
\* step goes on to a later probe or to the end.
LEMMA StepDescends ==
    ASSUME SearchTypeOK, SearchNext
    PROVE  \/ Stage[pc'] > Stage[pc]
           \/ pc' = pc /\ steps' + fallback_steps' > steps + fallback_steps
<1> USE DEF Stage, Goto, Return, searched
<1>1. steps \in Nat /\ fallback_steps \in Nat
  BY SearchAssumption DEF SearchTypeOK
<1>2. CASE Start
  BY <1>2 DEF Start
<1>3. CASE BisectionEnds
  BY <1>3 DEF BisectionEnds
<1>4. CASE IntegrityViolation
  BY <1>4 DEF IntegrityViolation
<1>5. ASSUME NEW answer \in BOOLEAN, ProbeFull(answer) PROVE Stage[pc'] > Stage[pc]
  BY <1>5 DEF ProbeFull
<1>6. ASSUME NEW answer \in BOOLEAN, ProbeMinimum(answer) PROVE Stage[pc'] > Stage[pc]
  BY <1>6 DEF ProbeMinimum
<1>7. ASSUME NEW answer \in BOOLEAN, Bisect(answer)
      PROVE  pc' = pc /\ steps' + fallback_steps' > steps + fallback_steps
  BY <1>1, <1>7 DEF Bisect
<1>8. ASSUME NEW answer \in BOOLEAN, Confirm(answer)
      PROVE  \/ Stage[pc'] > Stage[pc]
             \/ pc' = pc /\ steps' + fallback_steps' > steps + fallback_steps
  BY <1>1, <1>8 DEF Confirm
<1>9. ASSUME NEW answer \in BOOLEAN, ProbeComplete(answer) PROVE Stage[pc'] > Stage[pc]
  BY <1>9 DEF ProbeComplete
<1>10. ASSUME NEW answer \in BOOLEAN, ProbeCapped(answer) PROVE Stage[pc'] > Stage[pc]
  BY <1>10 DEF ProbeCapped
<1> QED
  BY <1>2, <1>3, <1>4, <1>5, <1>6, <1>7, <1>8, <1>9, <1>10 DEF SearchNext

\* max_safe_fill ends whatever the provider answers: with its iterations bounded
\* (TypeCorrect), no infinite sequence of probes descends.
THEOREM Descends == SearchSpec => SearchDescends
<1>1. SearchTypeOK /\ [SearchNext]_searchVars
        => [\/ Stage[pc'] > Stage[pc]
            \/ pc' = pc /\ steps' + fallback_steps' > steps + fallback_steps]_searchVars
  BY StepDescends
<1> QED
  BY <1>1, TypeCorrect, PTL DEF SearchSpec, SearchDescends

-----------------------------------------------------------------------------
(* The chunk is the largest there is *)

\* What the search knows at each probe of a pure provider with monotone economics.
\* The width of the interval after s iterations is at most width[s]; the candidate
\* is the last executable amount.
Known(width) ==
    /\ pc \in {"start", "full", "minimum"} => steps = 0
    /\ pc \in {"minimum", "bisect", "confirm", "complete", "cap"} => remaining \notin executable
    /\ pc = "bisect" => /\ lo \in executable /\ hi \notin executable
                        /\ hi - lo <= width[steps]
    /\ pc \in {"confirm", "complete", "cap"} =>
          /\ chunk \in executable /\ chunk + 1 \notin executable
    /\ pc \in {"complete", "cap"} => remaining - chunk < min_fill

\* The invariant: the search's own, the bound on the order, and what is known.
MaxInv(width) ==
    /\ IInv
    /\ remaining <= MaxRemaining
    /\ pure /\ Monotone => Known(width)
    /\ MaximalWhenMonotone

\* MAX_SEARCH_STEPS halvings narrow the largest interval to one: width[s] is what
\* is left of it after s of them.
Narrows(width) ==
    /\ width \in [0..MaxSearchSteps -> Nat]
    /\ MaxRemaining <= width[0]
    /\ \A s \in 0..MaxSearchSteps : s < MaxSearchSteps => width[s] <= 2 * width[s + 1]
    /\ width[MaxSearchSteps] = 1

\* One halving of an interval leaves at most half of it, rounded up.
LEMMA Halves ==
    ASSUME NEW a \in Nat, NEW b \in Nat, NEW v \in Nat, NEW w \in Nat,
           b - a > 1, b - a <= v, v <= 2 * w
    PROVE  LET mid == a + (b - a) \div 2 IN mid - a <= w /\ b - mid <= w
OBVIOUS

\* Below an executable amount everything is executable.
LEMMA Below ==
    ASSUME SearchTypeOK, Monotone, NEW a \in executable, NEW b \in Nat, 0 < b, b <= a
    PROVE  b \in executable
<1>1. a \in Nat
  BY DEF SearchTypeOK
<1> QED
  BY <1>1 DEF Monotone

\* The largest chunk there is, returned.
LEMMA BestReturned ==
    ASSUME NEW amount \in executable, Viable(amount), Return(amount),
           \A a \in executable : Viable(a) => a <= amount
    PROVE  MaximalWhenMonotone'
<1>1. amount \in Best /\ \A a \in Best : a <= amount
  BY DEF Best
<1>2. Best' = Best /\ result' = amount
  BY DEF Best, Viable, Return, searched
<1> QED
  BY <1>1, <1>2, Zenon DEF MaximalWhenMonotone

\* None is returned when no chunk can be.
LEMMA NoneReturned ==
    ASSUME Return(0), \A a \in executable : ~Viable(a)
    PROVE  MaximalWhenMonotone'
<1>1. Best = {}
  BY DEF Best
<1>2. Best' = Best /\ result' = 0
  BY DEF Best, Viable, Return, searched
<1> QED
  BY <1>1, <1>2, Zenon DEF MaximalWhenMonotone

\* At the start nothing is known and nothing is returned.
LEMMA MaxInit == ASSUME NEW width, SearchInit PROVE MaxInv(width)
<1>1. IInv
  BY InitHolds
<1>2. remaining <= MaxRemaining /\ pc = "start" /\ steps = 0
  BY SearchAssumption DEF SearchInit
<1> QED
  BY <1>1, <1>2 DEF MaxInv, Known, MaximalWhenMonotone

\* A step that ends in a probe and not in a return has nothing to show yet.
LEMMA StillSearching == ASSUME pc' # "done" PROVE MaximalWhenMonotone'
BY DEF MaximalWhenMonotone

\* What the search knows grows with each probe: the inductive step.
LEMMA MaxStep ==
    ASSUME NEW width, Narrows(width), MaxInv(width), [SearchNext]_searchVars
    PROVE  MaxInv(width)'
<1>1. IInv /\ IInv' /\ SearchTypeOK /\ Searching
  BY StepHolds DEF MaxInv, IInv
<1>2. CASE UNCHANGED searchVars
  BY <1>1, <1>2 DEF MaxInv, Known, MaximalWhenMonotone, Best, Viable, Monotone, searchVars, searched
<1> SUFFICES ASSUME SearchNext PROVE MaxInv(width)'
  BY <1>2
<1>3. UNCHANGED searched
  BY DEF SearchNext, Start, BisectionEnds, IntegrityViolation, ProbeFull, ProbeMinimum, Bisect,
         Confirm, ProbeComplete, ProbeCapped, Return, Goto
<1>4. remaining' <= MaxRemaining
  BY <1>3 DEF MaxInv, searched
<1>5. CASE ~(pure /\ Monotone /\ min_fill > 0)
  <2>1. ~(pure /\ Monotone /\ min_fill > 0)' /\ min_fill' \in Nat
    BY <1>1, <1>3, <1>5 DEF Monotone, searched, SearchTypeOK
  <2>2. CASE ~(pure /\ Monotone)
    BY <1>1, <1>3, <1>4, <2>1, <2>2 DEF MaxInv, MaximalWhenMonotone, Monotone, searched
  <2>3. CASE ~(min_fill > 0)
    <3>1. pc' = "done"
      BY <1>1, <2>3 DEF Searching, SearchTypeOK, SearchNext, Start, BisectionEnds, IntegrityViolation,
         ProbeFull, ProbeMinimum, Bisect, Confirm, ProbeComplete, ProbeCapped, Return, Goto
    <3>2. Known(width)'
      BY <3>1 DEF Known
    <3> QED
      BY <1>1, <1>4, <2>1, <3>2 DEF MaxInv, MaximalWhenMonotone
  <2> QED
    BY <1>5, <2>2, <2>3
<1>6. CASE pure /\ Monotone /\ min_fill > 0
  <2>1. /\ remaining \in Nat /\ min_fill \in Nat /\ lo \in Nat /\ hi \in Nat /\ chunk \in Nat
        /\ steps \in 0..MaxSearchSteps /\ executable \subseteq 1..remaining /\ Known(width)
    BY <1>1, <1>6 DEF SearchTypeOK, MaxInv
  <2>2. SUFFICES Known(width)' /\ MaximalWhenMonotone'
    BY <1>1, <1>4 DEF MaxInv
  <2>3. CASE Start
    <3>1. CASE min_fill = 0 \/ min_fill > remaining
      <4>1. Return(0)
        BY <2>3, <3>1 DEF Start
      <4>2. \A a \in executable : ~Viable(a)
        BY <1>6, <2>1, <3>1 DEF Viable
      <4> QED
        BY <4>1, <4>2, NoneReturned DEF Known, Return
    <3>2. CASE ~(min_fill = 0 \/ min_fill > remaining)
      BY <2>1, <2>3, <3>2, StillSearching DEF Start, Goto, Known
    <3> QED
      BY <3>1, <3>2
  <2>4. CASE BisectionEnds
    <3>1. /\ pc = "bisect" /\ lo \in executable /\ hi \notin executable /\ remaining \notin executable
          /\ hi - lo <= width[steps] /\ lo <= hi
          /\ ~(hi - lo > 1 /\ steps < MaxSearchSteps)
          /\ pc' = "confirm" /\ chunk' = lo
      BY <1>1, <2>1, <2>4 DEF BisectionEnds, Known, Searching
    <3>2. hi - lo <= 1
      <4>1. CASE steps = MaxSearchSteps
        BY <2>1, <3>1, <4>1 DEF Narrows
      <4> QED
        BY <2>1, <3>1, <4>1, SearchAssumption
    <3>3. hi = lo + 1
      BY <2>1, <3>1, <3>2
    <3> QED
      BY <1>3, <3>1, <3>3, StillSearching DEF Known, searched
  <2>5. CASE IntegrityViolation
    BY <1>6, <2>5 DEF IntegrityViolation
  <2>6. ASSUME NEW answer \in BOOLEAN, ProbeFull(answer) PROVE Known(width)' /\ MaximalWhenMonotone'
    <3>1. pc = "full" /\ answer = (remaining \in executable) /\ min_fill <= remaining /\ steps = 0
      BY <1>1, <1>6, <2>1, <2>6 DEF ProbeFull, Probe, Searching, Known
    <3>2. CASE answer
      <4>1. Return(remaining)
        BY <2>6, <3>2, Zenon DEF ProbeFull
      <4>2. remaining \in executable
        BY <3>1, <3>2
      <4>3. Viable(remaining)
        BY <2>1, <3>1 DEF Viable
      <4>4. \A a \in executable : Viable(a) => a <= remaining
        BY DEF Viable
      <4> QED
        BY <4>1, <4>2, <4>3, <4>4, BestReturned DEF Known, Return
    <3>3. CASE ~answer /\ allow_partial
      BY <1>3, <2>6, <3>1, <3>3, StillSearching DEF ProbeFull, Goto, Known, searched
    <3>4. CASE ~answer /\ ~allow_partial
      <4>1. Return(0)
        BY <2>6, <3>4, Zenon DEF ProbeFull
      <4>2. \A a \in executable : ~Viable(a)
        BY <3>1, <3>4 DEF Viable
      <4> QED
        BY <4>1, <4>2, NoneReturned DEF Known, Return
    <3> QED
      BY <3>2, <3>3, <3>4
  <2>7. ASSUME NEW answer \in BOOLEAN, ProbeMinimum(answer) PROVE Known(width)' /\ MaximalWhenMonotone'
    <3>1. /\ pc = "minimum" /\ answer = (min_fill \in executable) /\ remaining \notin executable
          /\ steps = 0
      BY <1>6, <2>1, <2>7 DEF ProbeMinimum, Probe, Known
    <3>2. CASE answer
      <4>1. pc' = "bisect" /\ lo' = min_fill /\ hi' = remaining /\ steps' = 0 /\ UNCHANGED searched
        BY <1>3, <2>7, <3>1, <3>2 DEF ProbeMinimum
      <4>2. remaining - min_fill <= width[0]
        BY <2>1, SearchAssumption DEF Narrows, MaxInv
      <4>3. executable' = executable /\ remaining' = remaining
        BY <4>1 DEF searched
      <4> QED
        BY <3>1, <3>2, <4>1, <4>2, <4>3, StillSearching DEF Known
    <3>3. CASE ~answer
      <4>1. Return(0)
        BY <2>7, <3>3, Zenon DEF ProbeMinimum
      <4>2. \A a \in executable : ~Viable(a)
        BY <1>1, <1>6, <2>1, <3>1, <3>3, Below DEF Viable
      <4> QED
        BY <4>1, <4>2, NoneReturned DEF Known, Return
    <3> QED
      BY <3>2, <3>3
  <2>8. ASSUME NEW answer \in BOOLEAN, Bisect(answer) PROVE Known(width)' /\ MaximalWhenMonotone'
    <3> DEFINE mid == lo + (hi - lo) \div 2
    <3>1. /\ pc = "bisect" /\ hi - lo > 1 /\ steps < MaxSearchSteps
          /\ answer = (mid \in executable)
          /\ lo' = (IF answer THEN mid ELSE lo)
          /\ hi' = (IF answer THEN hi ELSE mid)
          /\ steps' = steps + 1 /\ pc' = "bisect"
      BY <1>6, <2>8 DEF Bisect, Probe
    <3>2. /\ lo \in executable /\ hi \notin executable /\ remaining \notin executable
          /\ hi - lo <= width[steps]
      BY <2>1, <3>1 DEF Known
    <3>3. width[steps] \in Nat /\ width[steps + 1] \in Nat /\ width[steps] <= 2 * width[steps + 1]
      BY <2>1, <3>1, SearchAssumption DEF Narrows
    <3>4. mid - lo <= width[steps + 1] /\ hi - mid <= width[steps + 1]
      BY <2>1, <3>1, <3>2, <3>3, Halves
    <3> HIDE DEF mid
    <3>5. /\ lo' \in executable /\ hi' \notin executable /\ hi' - lo' <= width[steps']
      BY <3>1, <3>2, <3>4
    <3>6. executable' = executable /\ remaining' = remaining
      BY <1>3 DEF searched
    <3> QED
      BY <3>1, <3>2, <3>5, <3>6, StillSearching DEF Known
  <2>9. ASSUME NEW answer \in BOOLEAN, Confirm(answer) PROVE Known(width)' /\ MaximalWhenMonotone'
    <3>1. /\ pc = "confirm" /\ answer /\ chunk \in executable /\ chunk + 1 \notin executable
          /\ remaining \notin executable
          /\ min_fill <= chunk /\ chunk <= remaining /\ allow_partial
      BY <1>1, <1>6, <2>1, <2>9 DEF Confirm, Probe, Known, Searching
    <3>2. CASE chunk # remaining /\ remaining - chunk < min_fill
      <4>1. Goto("complete")
        BY <2>9, <3>1, <3>2 DEF Confirm
      <4> QED
        BY <1>3, <3>1, <3>2, <4>1, StillSearching DEF Known, Goto, searched
    <3>3. CASE ~(chunk # remaining /\ remaining - chunk < min_fill)
      <4>1. Return(chunk)
        BY <2>9, <3>1, <3>3 DEF Confirm
      <4>2. Viable(chunk)
        BY <2>1, <3>1, <3>3 DEF Viable
      <4>3. ASSUME NEW a \in executable PROVE a <= chunk
        BY <1>1, <1>6, <2>1, <3>1, Below
      <4> QED
        BY <3>1, <4>1, <4>2, <4>3, BestReturned DEF Known, Return
    <3> QED
      BY <3>2, <3>3
  <2>10. ASSUME NEW answer \in BOOLEAN, ProbeComplete(answer)
         PROVE  Known(width)' /\ MaximalWhenMonotone'
    <3>1. /\ pc = "complete" /\ ~answer /\ chunk \in executable /\ chunk + 1 \notin executable
          /\ remaining \notin executable /\ remaining - chunk < min_fill
      BY <1>6, <2>1, <2>10 DEF ProbeComplete, Probe, Known
    <3>2. CASE remaining - min_fill < min_fill
      <4>1. Return(0)
        BY <2>10, <3>1, <3>2 DEF ProbeComplete
      <4>2. \A a \in executable : ~Viable(a)
        BY <2>1, <3>1, <3>2 DEF Viable
      <4> QED
        BY <4>1, <4>2, NoneReturned DEF Known, Return
    <3>3. CASE ~(remaining - min_fill < min_fill)
      <4>1. Goto("cap")
        BY <2>10, <3>1, <3>3 DEF ProbeComplete
      <4> QED
        BY <1>3, <3>1, <4>1, StillSearching DEF Known, Goto, searched
    <3> QED
      BY <3>2, <3>3
  <2>11. ASSUME NEW answer \in BOOLEAN, ProbeCapped(answer)
         PROVE  Known(width)' /\ MaximalWhenMonotone'
    <3>1. /\ pc = "cap" /\ answer = (remaining - min_fill \in executable)
          /\ chunk \in executable /\ remaining \notin executable /\ remaining - chunk < min_fill
          /\ min_fill <= remaining - min_fill /\ allow_partial
      BY <1>1, <1>6, <2>1, <2>11 DEF ProbeCapped, Probe, Known, Searching
    <3>2. remaining - min_fill \in Nat /\ 0 < remaining - min_fill /\ remaining - min_fill <= chunk
      BY <1>6, <2>1, <3>1
    <3>3. remaining - min_fill \in executable
      BY <1>1, <1>6, <3>1, <3>2, Below
    <3>4. Return(remaining - min_fill)
      BY <2>11, <3>1, <3>3 DEF ProbeCapped
    <3>5. Viable(remaining - min_fill)
      BY <2>1, <3>1, <3>2 DEF Viable
    <3>6. ASSUME NEW a \in executable, Viable(a) PROVE a <= remaining - min_fill
      BY <2>1, <3>1, <3>6 DEF Viable
    <3> QED
      BY <3>3, <3>4, <3>5, <3>6, BestReturned DEF Known, Return
  <2> QED
    BY <2>3, <2>4, <2>5, <2>6, <2>7, <2>8, <2>9, <2>10, <2>11 DEF SearchNext
<1> QED
  BY <1>5, <1>6

\* For every order whose interval MAX_SEARCH_STEPS halvings can narrow to one
\* (with u128 amounts every order: width[s] is 2^(MAX_SEARCH_STEPS - s)), a pure
\* provider and monotone economics make max_safe_fill return the largest chunk
\* that is executable and leaves a fillable remainder, and None only when there
\* is none.
THEOREM LargestChunk ==
    ASSUME NEW CONSTANT width, Narrows(width)
    PROVE  SearchSpec => []MaximalWhenMonotone
<1>1. SearchInit => MaxInv(width)
  BY MaxInit
<1>2. MaxInv(width) /\ [SearchNext]_searchVars => MaxInv(width)'
  BY MaxStep
<1>3. MaxInv(width) => MaximalWhenMonotone
  BY DEF MaxInv
<1> QED
  BY <1>1, <1>2, <1>3, PTL DEF SearchSpec

-----------------------------------------------------------------------------
\* MarketAttempts.

Entries == [attempt : Attempts, refs : Nat, epoch : Nat]

CallStates ==
    [pc : {"idle", "quote", "relay", "claimed", "sent", "return", "done"},
     attempt : Attempts \cup {NoCall.attempt}, epoch : Nat,
     result : {"none", "Value", "Denied", "Unavailable", "Failed"}]

\* The entries of a registry, and that an attempt has one.
Listed(p) == {p[i] : i \in DOMAIN p}

OneEach(p) == \A i, j \in DOMAIN p : p[i].attempt = p[j].attempt => i = j

\* A call that may still give its reference back, whatever the relay learns.
MayRelease(call) ==
    \/ call.pc \in {"quote", "relay", "claimed", "sent"}
    \/ call.pc = "return" /\ call.result # "Value"

HoldsEntry(call, e) == MayRelease(call) /\ call.attempt = e.attempt /\ call.epoch = e.epoch

Holders(e) == {c \in MarketCalls : HoldsEntry(calls[c], e)}

\* The same while the attempt is undecided: a call that has sent keeps its reference.
Releasers(e) == {c \in Holders(e) : calls[c].pc # "sent"}

Undecided(k) == verdict[k] \in {"unclaimed", "open"}

AttemptsTypeOK ==
    /\ verdict \in [MarketOrders -> {"unclaimed", "open", "confirmed", "rejected", "unsent"}]
    /\ sends \in [MarketOrders -> {0, 1}]
    /\ pending \in Seq(Entries) /\ OneEach(pending)
    /\ nextEpoch \in Nat
    /\ calls \in [MarketCalls -> CallStates]

EpochsOK ==
    /\ \A e \in Listed(pending) : e.epoch < nextEpoch
    /\ \A c \in MarketCalls : calls[c].pc \notin {"idle", "done"} =>
         calls[c].attempt \in Attempts /\ calls[c].epoch < nextEpoch

RefsOK == \A e \in Listed(pending) : Cardinality(Holders(e)) <= e.refs

\* A call on its way to the relay finds its entry as long as the attempt is undecided.
EntryHeld ==
    \A c \in MarketCalls :
        calls[c].pc \in {"quote", "relay", "claimed"} /\ Undecided(calls[c].attempt.order) =>
            \E e \in Listed(pending) : e.attempt = calls[c].attempt /\ e.epoch = calls[c].epoch

Claimed ==
    /\ \A c \in MarketCalls : calls[c].pc \in {"claimed", "sent"} =>
         verdict[calls[c].attempt.order] # "unclaimed"
    /\ \A k \in MarketOrders : sends[k] = 1 => verdict[k] # "unclaimed"

\* An undecided order that was sent has an entry with a reference that nobody gives back.
ReferenceKept ==
    \A k \in MarketOrders : sends[k] = 1 /\ verdict[k] = "open" =>
        \E e \in Listed(pending) : e.attempt.order = k /\ Cardinality(Releasers(e)) + 1 <= e.refs

AttemptsInv ==
    /\ AttemptsTypeOK
    /\ EpochsOK
    /\ RefsOK
    /\ EntryHeld
    /\ Claimed
    /\ ReferenceKept

-----------------------------------------------------------------------------
(* The registry as a set of entries. *)

LEMMA RegistryRemoves ==
    ASSUME NEW p \in Seq(Entries), OneEach(p), NEW i \in DOMAIN p
    PROVE  LET q == [j \in 1..Len(p) - 1 |-> p[IF j < i THEN j ELSE j + 1]] IN
           q \in Seq(Entries) /\ OneEach(q) /\ Listed(q) = Listed(p) \ {p[i]}
<1> DEFINE q == [j \in 1..Len(p) - 1 |-> p[IF j < i THEN j ELSE j + 1]]
           at(j) == IF j < i THEN j ELSE j + 1
<1>1. Len(p) \in Nat /\ DOMAIN p = 1..Len(p) /\ i \in 1..Len(p) /\ Len(p) - 1 \in Nat
  OBVIOUS
<1>2. \A j \in 1..Len(p) - 1 : at(j) \in DOMAIN p /\ at(j) # i
  BY <1>1
<1>3. \A j, m \in 1..Len(p) - 1 : at(j) = at(m) => j = m
  BY <1>1
<1>4. \A m \in DOMAIN p : m # i => \E j \in 1..Len(p) - 1 : at(j) = m
  <2>1. ASSUME NEW m \in DOMAIN p, m # i PROVE \E j \in 1..Len(p) - 1 : at(j) = m
    <3>1. CASE m < i
      BY <3>1, <1>1
    <3>2. CASE m > i
      <4>1. m - 1 \in 1..Len(p) - 1 /\ at(m - 1) = m
        BY <3>2, <1>1
      <4> QED
        BY <4>1
    <3> QED
      BY <2>1, <3>1, <3>2, <1>1
  <2> QED
    BY <2>1
<1>5. DOMAIN q = 1..Len(p) - 1 /\ \A j \in 1..Len(p) - 1 : q[j] = p[at(j)]
  OBVIOUS
<1>6. \A j \in DOMAIN p : p[j] \in Entries
  BY <1>1
<1>7. q \in [1..Len(p) - 1 -> Entries]
  BY <1>2, <1>6
<1>8. q \in Seq(Entries)
  BY <1>1, <1>7
<1> HIDE DEF q, at
<1>9. OneEach(q)
  BY <1>2, <1>3, <1>5 DEF OneEach
<1>10. Listed(q) = Listed(p) \ {p[i]}
  <2>1. ASSUME NEW e \in Listed(q) PROVE e \in Listed(p) /\ e # p[i]
    <3>1. PICK j \in 1..Len(p) - 1 : e = p[at(j)]
      BY <1>5 DEF Listed
    <3> QED
      BY <3>1, <1>2 DEF Listed, OneEach
  <2>2. ASSUME NEW e \in Listed(p), e # p[i] PROVE e \in Listed(q)
    <3>1. PICK m \in DOMAIN p : e = p[m]
      BY DEF Listed
    <3>2. m # i
      BY <2>2, <3>1
    <3>3. PICK j \in 1..Len(p) - 1 : at(j) = m
      BY <1>4, <3>2
    <3> QED
      BY <3>1, <3>3, <1>5 DEF Listed
  <2> QED
    BY <2>1, <2>2
<1> QED
  BY <1>8, <1>9, <1>10 DEF q

LEMMA RegistryCounts ==
    ASSUME NEW p \in Seq(Entries), OneEach(p), NEW i \in DOMAIN p, NEW r \in Nat
    PROVE  LET q == [p EXCEPT ![i].refs = r] IN
           /\ q \in Seq(Entries) /\ OneEach(q)
           /\ Listed(q) = (Listed(p) \ {p[i]}) \cup {[p[i] EXCEPT !.refs = r]}
<1> DEFINE x == [p[i] EXCEPT !.refs = r]
           q == [p EXCEPT ![i] = x]
<1>1. \A j \in DOMAIN p : p[j] \in Entries
  OBVIOUS
<1>2. x \in Entries /\ x.attempt = p[i].attempt
  BY <1>1 DEF Entries
<1>3. [p EXCEPT ![i].refs = r] = q
  OBVIOUS
<1> HIDE DEF x
<1>4. q \in Seq(Entries) /\ DOMAIN q = DOMAIN p /\ q[i] = x /\ \A j \in DOMAIN p : j # i => q[j] = p[j]
  BY <1>2
<1> HIDE DEF q
<1>5. OneEach(q)
  BY <1>2, <1>4 DEF OneEach
<1>6. Listed(q) = (Listed(p) \ {p[i]}) \cup {x}
  <2>1. ASSUME NEW e \in Listed(q) PROVE e \in (Listed(p) \ {p[i]}) \cup {x}
    <3>1. PICK j \in DOMAIN p : e = q[j]
      BY <1>4 DEF Listed
    <3> QED
      BY <3>1, <1>4 DEF Listed, OneEach
  <2>2. ASSUME NEW e \in Listed(p), e # p[i] PROVE e \in Listed(q)
    <3>1. PICK j \in DOMAIN p : e = p[j]
      BY DEF Listed
    <3> QED
      BY <3>1, <2>2, <1>4 DEF Listed
  <2>3. x \in Listed(q)
    BY <1>4 DEF Listed
  <2> QED
    BY <2>1, <2>2, <2>3
<1> QED
  BY <1>3, <1>4, <1>5, <1>6 DEF x

LEMMA RegistryGrows ==
    ASSUME NEW p \in Seq(Entries), OneEach(p), NEW x \in Entries,
           {i \in DOMAIN p : p[i].attempt = x.attempt} = {}
    PROVE  /\ Append(p, x) \in Seq(Entries) /\ OneEach(Append(p, x))
           /\ Listed(Append(p, x)) = Listed(p) \cup {x}
<1> DEFINE q == Append(p, x)
<1>1. /\ q \in Seq(Entries) /\ DOMAIN q = DOMAIN p \cup {Len(p) + 1} /\ q[Len(p) + 1] = x
      /\ \A j \in DOMAIN p : q[j] = p[j]
  OBVIOUS
<1> HIDE DEF q
<1>2. OneEach(q)
  BY <1>1 DEF OneEach
<1>3. Listed(q) = Listed(p) \cup {x}
  <2>1. ASSUME NEW e \in Listed(q) PROVE e \in Listed(p) \cup {x}
    BY <1>1 DEF Listed
  <2>2. ASSUME NEW e \in Listed(p) \cup {x} PROVE e \in Listed(q)
    BY <1>1 DEF Listed
  <2> QED
    BY <2>1, <2>2
<1> QED
  BY <1>1, <1>2, <1>3 DEF q

-----------------------------------------------------------------------------
(* Steps. *)

LEMMA HoldersFinite ==
    ASSUME NEW e
    PROVE  /\ IsFiniteSet(Holders(e)) /\ Cardinality(Holders(e)) \in Nat
           /\ IsFiniteSet(Releasers(e)) /\ Cardinality(Releasers(e)) \in Nat
<1>1. Holders(e) \subseteq MarketCalls /\ Releasers(e) \subseteq MarketCalls
  BY DEF Holders, Releasers
<1> QED
  BY <1>1, AttemptsAssumption, FS_Subset, FS_CardinalityType

LEMMA ListedTyped ==
    ASSUME AttemptsInv, NEW e \in Listed(pending)
    PROVE  e \in Entries /\ e.refs \in Nat /\ e.epoch \in Nat /\ e.epoch < nextEpoch
           /\ e.attempt \in Attempts /\ e.attempt.order \in MarketOrders
<1>1. PICK i \in DOMAIN pending : e = pending[i]
  BY DEF Listed
<1>2. pending \in Seq(Entries)
  BY DEF AttemptsInv, AttemptsTypeOK
<1>3. e \in Entries
  BY <1>1, <1>2
<1>4. e.epoch < nextEpoch
  BY DEF AttemptsInv, EpochsOK
<1> QED
  BY <1>3, <1>4 DEF Entries, Attempts

LEMMA OutcomeTyped ==
    ASSUME NEW res \in {"ConfirmedWithFill", "ConfirmedNoFill", "Unknown", "AdapterUnavailable",
                        "AdapterTimeout", "Submitted", "Reserved", "Signed", "TradingDisabled",
                        "ChainHealthUnavailable", "SigningUnavailable", "Rejected",
                        "FailedBeforeSubmit", "SigningFailed", "StoreUnavailable"}
    PROVE  ExecutionOutcome(PortOutcome(res)) \in {"Value", "Denied", "Unavailable", "Failed"}
  BY DEF ExecutionOutcome, PortOutcome

\* What an answer of the relay means for an undecided attempt that was sent: it is kept.
LEMMA ExistingTyped ==
    ASSUME NEW k, verdict[k] \in {"open", "confirmed", "rejected", "unsent"}, NEW res \in Existing(k)
    PROVE  /\ ExecutionOutcome(PortOutcome(res)) \in {"Value", "Denied", "Unavailable", "Failed"}
           /\ verdict[k] = "open" => ExecutionOutcome(PortOutcome(res)) = "Value"
  BY DEF ExecutionOutcome, PortOutcome, Existing

\* Verdicts only become more decided; a transaction is sent by a call that says so.
Forward ==
    \A k \in MarketOrders :
        /\ verdict'[k] \in {"unclaimed", "open"} => verdict[k] \in {"unclaimed", "open"}
        /\ verdict[k] # "unclaimed" => verdict'[k] # "unclaimed"
        /\ sends'[k] = 1 => verdict'[k] # "unclaimed"

SentBy(k, sending) ==
    \A m \in MarketOrders : sends'[m] = 1 /\ verdict'[m] = "open" =>
        \/ sends[m] = 1 /\ verdict[m] = "open"
        \/ sending /\ m = k

LEMMA HoldersAfter ==
    ASSUME AttemptsInv, NEW c \in MarketCalls, NEW r \in CallStates,
           calls' = [calls EXCEPT ![c] = r], NEW e
    PROVE  /\ Holders(e)' = (Holders(e) \ {c}) \cup (IF HoldsEntry(r, e) THEN {c} ELSE {})
           /\ Releasers(e)' = (Releasers(e) \ {c}) \cup
                              (IF HoldsEntry(r, e) /\ r.pc # "sent" THEN {c} ELSE {})
<1>1. calls'[c] = r /\ \A d \in MarketCalls : d # c => calls'[d] = calls[d]
  BY DEF AttemptsInv, AttemptsTypeOK
<1>2. Holders(e)' = {d \in MarketCalls : HoldsEntry(calls'[d], e)}
  BY DEF Holders, HoldsEntry, MayRelease
<1>3. Releasers(e)' = {d \in Holders(e)' : calls'[d].pc # "sent"}
  BY DEF Releasers
<1>4. Holders(e)' = (Holders(e) \ {c}) \cup (IF HoldsEntry(r, e) THEN {c} ELSE {})
  BY <1>1, <1>2 DEF Holders
<1> QED
  BY <1>1, <1>3, <1>4 DEF Holders, Releasers

\* A call that moves and takes no reference: every part but the kept reference.
LEMMA CallMoves ==
    ASSUME AttemptsInv, NEW c \in MarketCalls, NEW r \in CallStates,
           calls' = [calls EXCEPT ![c] = r], pending' = pending, nextEpoch' = nextEpoch,
           r.pc \in {"idle", "done"} \/ (r.attempt = calls[c].attempt /\ r.epoch = calls[c].epoch),
           r.pc \notin {"idle", "done"} => calls[c].pc \notin {"idle", "done"},
           MayRelease(r) => MayRelease(calls[c]),
           r.pc \in {"quote", "relay", "claimed"} => calls[c].pc \in {"quote", "relay", "claimed"},
           r.pc \in {"claimed", "sent"} => verdict'[r.attempt.order] # "unclaimed",
           Forward
    PROVE  EpochsOK' /\ RefsOK' /\ EntryHeld' /\ Claimed'
<1>1. /\ calls'[c] = r /\ \A d \in MarketCalls : d # c => calls'[d] = calls[d]
  BY DEF AttemptsInv, AttemptsTypeOK
<1>2. Listed(pending)' = Listed(pending)
  BY DEF Listed
<1>3. EpochsOK'
  BY <1>1, <1>2 DEF AttemptsInv, EpochsOK
<1>4. ASSUME NEW e PROVE Holders(e)' \subseteq Holders(e)
  <2>1. Holders(e)' = (Holders(e) \ {c}) \cup (IF HoldsEntry(r, e) THEN {c} ELSE {})
    BY HoldersAfter
  <2>2. ASSUME HoldsEntry(r, e) PROVE c \in Holders(e)
    <3>1. r.pc \notin {"idle", "done"}
      BY <2>2 DEF HoldsEntry, MayRelease
    <3> QED
      BY <3>1, <2>2 DEF HoldsEntry, Holders
  <2> QED
    BY <2>1, <2>2
<1>5. RefsOK'
  <2>1. ASSUME NEW e \in Listed(pending) PROVE Cardinality(Holders(e)') <= e.refs
    <3>1. Holders(e)' \subseteq Holders(e)
      BY <1>4
    <3>2. /\ Cardinality(Holders(e)) <= e.refs /\ IsFiniteSet(Holders(e))
          /\ Cardinality(Holders(e)) \in Nat
      BY HoldersFinite DEF AttemptsInv, RefsOK
    <3>3. Cardinality(Holders(e)') \in Nat /\ Cardinality(Holders(e)') <= Cardinality(Holders(e))
      BY <3>1, <3>2, FS_Subset, FS_CardinalityType
    <3>4. e.refs \in Nat
      BY ListedTyped
    <3> QED
      BY <3>2, <3>3, <3>4
  <2> QED
    BY <1>2, <2>1 DEF RefsOK
<1>6. EntryHeld'
  <2>1. ASSUME NEW d \in MarketCalls, calls'[d].pc \in {"quote", "relay", "claimed"},
               verdict'[calls'[d].attempt.order] \in {"unclaimed", "open"}
        PROVE  \E e \in Listed(pending) :
                  e.attempt = calls'[d].attempt /\ e.epoch = calls'[d].epoch
    <3>1. /\ calls'[d].attempt = calls[d].attempt /\ calls'[d].epoch = calls[d].epoch
          /\ calls[d].pc \in {"quote", "relay", "claimed"}
      BY <1>1, <2>1
    <3>2. calls[d].attempt.order \in MarketOrders
      BY <3>1 DEF AttemptsInv, EpochsOK, Attempts
    <3>3. Undecided(calls[d].attempt.order)
      BY <2>1, <3>1, <3>2 DEF Undecided, Forward
    <3> QED
      BY <3>1, <3>3 DEF AttemptsInv, EntryHeld
  <2> QED
    BY <1>2, <2>1 DEF EntryHeld, Undecided
<1>7. Claimed'
  <2>1. ASSUME NEW d \in MarketCalls, calls'[d].pc \in {"claimed", "sent"}
        PROVE  verdict'[calls'[d].attempt.order] # "unclaimed"
    <3>1. CASE d = c
      BY <3>1, <1>1, <2>1
    <3>2. CASE d # c
      <4>1. calls'[d] = calls[d]
        BY <3>2, <1>1
      <4>2. calls[d].attempt.order \in MarketOrders
        BY <4>1, <2>1 DEF AttemptsInv, EpochsOK, Attempts
      <4> QED
        BY <4>1, <4>2, <2>1 DEF AttemptsInv, Claimed, Forward
    <3> QED
      BY <3>1, <3>2
  <2> QED
    BY <2>1 DEF Claimed, Forward
<1> QED
  BY <1>3, <1>5, <1>6, <1>7

\* A call on its way to or back from the relay.
LEMMA CallAdvances ==
    ASSUME AttemptsInv, NEW c \in MarketCalls,
           NEW p \in {"relay", "claimed", "sent", "return"},
           NEW x \in {"none", "Value", "Denied", "Unavailable", "Failed"},
           Advance(c, p, x), pending' = pending, nextEpoch' = nextEpoch,
           calls[c].pc \in {"quote", "relay", "claimed", "sent"},
           p \in {"relay", "claimed"} => calls[c].pc \in {"quote", "relay"},
           p = "sent" => calls[c].pc = "claimed",
           verdict' \in [MarketOrders -> {"unclaimed", "open", "confirmed", "rejected", "unsent"}],
           sends' \in [MarketOrders -> {0, 1}],
           Forward, SentBy(calls[c].attempt.order, p = "sent"),
           p = "claimed" => verdict'[calls[c].attempt.order] # "unclaimed",
           calls[c].pc = "sent" /\ x # "Value" => verdict'[calls[c].attempt.order] # "open"
    PROVE  AttemptsInv'
<1> DEFINE r == [calls[c] EXCEPT !.pc = p, !.result = x]
           k == calls[c].attempt.order
<1>1. calls[c] \in CallStates
  BY DEF AttemptsInv, AttemptsTypeOK
<1>2. /\ r \in CallStates /\ r.pc = p /\ r.result = x /\ r.attempt = calls[c].attempt
      /\ r.epoch = calls[c].epoch
  BY <1>1 DEF CallStates
<1>3. calls' = [calls EXCEPT ![c] = r]
  BY DEF Advance
<1> HIDE DEF r
<1>4. AttemptsTypeOK'
  <2>1. calls' \in [MarketCalls -> CallStates]
    BY <1>2, <1>3 DEF AttemptsInv, AttemptsTypeOK
  <2>2. pending' \in Seq(Entries) /\ OneEach(pending) /\ nextEpoch' \in Nat
    BY DEF AttemptsInv, AttemptsTypeOK
  <2>3. OneEach(pending)'
    BY <2>2 DEF OneEach
  <2> QED
    BY <2>1, <2>2, <2>3 DEF AttemptsTypeOK
<1>5. k \in MarketOrders
  BY DEF AttemptsInv, EpochsOK, Attempts
<1>6. verdict[k] # "unclaimed" => verdict'[k] # "unclaimed"
  BY <1>5 DEF Forward
<1>7. r.pc \in {"claimed", "sent"} => verdict'[r.attempt.order] # "unclaimed"
  BY <1>2, <1>6 DEF AttemptsInv, Claimed
<1>8. MayRelease(r) => MayRelease(calls[c])
  BY DEF MayRelease
<1>9. EpochsOK' /\ RefsOK' /\ EntryHeld' /\ Claimed'
  <2>1. /\ r.pc \in {"idle", "done"} \/ (r.attempt = calls[c].attempt /\ r.epoch = calls[c].epoch)
        /\ r.pc \notin {"idle", "done"} => calls[c].pc \notin {"idle", "done"}
        /\ r.pc \in {"quote", "relay", "claimed"} => calls[c].pc \in {"quote", "relay", "claimed"}
    BY <1>2
  <2> QED
    BY <1>2, <1>3, <1>7, <1>8, <2>1, CallMoves
<1>10. Listed(pending)' = Listed(pending)
  BY DEF Listed
<1>11. ReferenceKept'
  <2>1. ASSUME NEW m \in MarketOrders, sends'[m] = 1, verdict'[m] = "open"
        PROVE  \E e \in Listed(pending) :
                  e.attempt.order = m /\ Cardinality(Releasers(e)') + 1 <= e.refs
    <3>1. CASE sends[m] = 1 /\ verdict[m] = "open"
      <4>1. PICK e \in Listed(pending) :
              e.attempt.order = m /\ Cardinality(Releasers(e)) + 1 <= e.refs
        BY <3>1 DEF AttemptsInv, ReferenceKept
      <4>2. Releasers(e)' = (Releasers(e) \ {c}) \cup
                              (IF HoldsEntry(r, e) /\ r.pc # "sent" THEN {c} ELSE {})
        BY <1>2, <1>3, HoldersAfter
      <4>3. ASSUME HoldsEntry(r, e), r.pc # "sent" PROVE c \in Releasers(e)
        <5>1. r.attempt = e.attempt /\ k = m
          BY <4>1, <4>3, <1>2 DEF HoldsEntry
        <5>2. calls[c].pc # "sent"
          BY <5>1, <4>3, <1>2, <2>1 DEF HoldsEntry, MayRelease
        <5> QED
          BY <5>2, <4>3, <1>2, <1>8 DEF HoldsEntry, Releasers, Holders
      <4>4. Releasers(e)' \subseteq Releasers(e)
        BY <4>2, <4>3
      <4>5. Cardinality(Releasers(e)') \in Nat
            /\ Cardinality(Releasers(e)') <= Cardinality(Releasers(e))
            /\ Cardinality(Releasers(e)) \in Nat
        BY <4>4, HoldersFinite, FS_Subset, FS_CardinalityType
      <4>6. e.refs \in Nat
        BY ListedTyped
      <4>7. Cardinality(Releasers(e)') + 1 <= e.refs
        BY <4>1, <4>5, <4>6
      <4> QED
        BY <4>1, <4>7
    <3>2. CASE p = "sent" /\ m = k
      <4>1. calls[c].pc = "claimed" /\ Undecided(k)
        BY <2>1, <3>2, <1>5 DEF Forward, Undecided
      <4>2. PICK e \in Listed(pending) : e.attempt = calls[c].attempt /\ e.epoch = calls[c].epoch
        BY <4>1 DEF AttemptsInv, EntryHeld
      <4>3. Releasers(e)' = (Releasers(e) \ {c}) \cup
                              (IF HoldsEntry(r, e) /\ r.pc # "sent" THEN {c} ELSE {})
        BY <1>2, <1>3, HoldersAfter
      <4>4. c \in Holders(e)
        BY <4>1, <4>2 DEF Holders, HoldsEntry, MayRelease
      <4>5. Releasers(e)' \subseteq Holders(e) \ {c}
        BY <3>2, <4>3, <1>2 DEF Releasers
      <4>6. /\ IsFiniteSet(Holders(e)) /\ Cardinality(Holders(e)) \in Nat
            /\ Cardinality(Holders(e)) <= e.refs
        BY HoldersFinite DEF AttemptsInv, RefsOK
      <4>7. IsFiniteSet(Holders(e) \ {c}) /\ Cardinality(Holders(e) \ {c}) = Cardinality(Holders(e)) - 1
        BY <4>4, <4>6, FS_RemoveElement
      <4>8. /\ Cardinality(Releasers(e)') \in Nat
            /\ Cardinality(Releasers(e)') <= Cardinality(Holders(e) \ {c})
        BY <4>5, <4>7, FS_Subset, FS_CardinalityType
      <4>9. e.refs \in Nat
        BY ListedTyped
      <4>10. Cardinality(Releasers(e)') + 1 <= e.refs
        BY <4>6, <4>7, <4>8, <4>9
      <4> QED
        BY <4>2, <4>10, <3>2
    <3> QED
      BY <2>1, <3>1, <3>2 DEF SentBy
  <2> QED
    BY <2>1, <1>10 DEF ReferenceKept
<1> QED
  BY <1>4, <1>9, <1>11 DEF AttemptsInv

LEMMA StepsOfACall ==
    ASSUME AttemptsInv, NEW c \in MarketCalls,
           QuoteAfresh(c) \/ RelayClaim(c) \/ RelaySend(c) \/ RelayReturn(c)
    PROVE  AttemptsInv'
<1> DEFINE k == calls[c].attempt.order
           Results == {"none", "Value", "Denied", "Unavailable", "Failed"}
           Verdicts == {"unclaimed", "open", "confirmed", "rejected", "unsent"}
<1>1. /\ verdict \in [MarketOrders -> Verdicts] /\ sends \in [MarketOrders -> {0, 1}]
      /\ \A m \in MarketOrders : sends[m] = 1 => verdict[m] # "unclaimed"
  BY DEF AttemptsInv, AttemptsTypeOK, Claimed
<1>2. calls[c].pc \in {"quote", "relay", "claimed", "sent"} => k \in MarketOrders
  BY DEF AttemptsInv, EpochsOK, Attempts
<1>3. \A res \in PreSend : ExecutionOutcome(PortOutcome(res)) \in Results \ {"none", "Value"}
  BY DEF ExecutionOutcome, PortOutcome, PreSend
<1>4. ASSUME UNCHANGED <<verdict, sends>>
      PROVE  /\ verdict' \in [MarketOrders -> Verdicts] /\ sends' \in [MarketOrders -> {0, 1}]
             /\ Forward /\ \A sending : SentBy(k, sending)
  BY <1>1, <1>4 DEF Forward, SentBy
<1>5. CASE QuoteAfresh(c)
  <2>1. /\ calls[c].pc = "quote" /\ pending' = pending /\ nextEpoch' = nextEpoch
        /\ UNCHANGED <<verdict, sends>>
        /\ \/ Advance(c, "relay", "none") \/ Advance(c, "return", "Denied")
           \/ Advance(c, "return", "Unavailable")
    BY <1>5 DEF QuoteAfresh
  <2> QED
    BY <2>1, <1>4, CallAdvances
<1>6. CASE RelayClaim(c)
  <2>1. calls[c].pc = "relay" /\ pending' = pending /\ nextEpoch' = nextEpoch
    BY <1>6 DEF RelayClaim
  <2>2. CASE Ledger!Claim(k) /\ Advance(c, "claimed", "none")
    <3>1. /\ verdict[k] = "unclaimed" /\ verdict' = [verdict EXCEPT ![k] = "open"] /\ sends' = sends
      BY <2>2 DEF Ledger!Claim
    <3>2. /\ verdict' \in [MarketOrders -> Verdicts] /\ sends' \in [MarketOrders -> {0, 1}]
          /\ verdict'[k] = "open" /\ \A m \in MarketOrders : m # k => verdict'[m] = verdict[m]
      BY <3>1, <1>1, <1>2, <2>1
    <3>3. Forward
      BY <3>1, <3>2, <1>1 DEF Forward
    <3>4. SentBy(k, FALSE)
      BY <3>1, <3>2, <1>1 DEF SentBy
    <3> QED
      BY <2>1, <2>2, <3>2, <3>3, <3>4, CallAdvances
  <2>3. ASSUME verdict[k] # "unclaimed", NEW res \in Existing(k),
               Advance(c, "return", ExecutionOutcome(PortOutcome(res))),
               UNCHANGED <<verdict, sends>>
        PROVE  AttemptsInv'
    <3>1. ExecutionOutcome(PortOutcome(res)) \in Results
      BY <2>3, <1>1, <1>2, <2>1, ExistingTyped
    <3> QED
      BY <3>1, <2>1, <2>3, <1>4, CallAdvances
  <2>4. ASSUME NEW res \in PreSend, Advance(c, "return", ExecutionOutcome(PortOutcome(res))),
               UNCHANGED <<verdict, sends>>
        PROVE  AttemptsInv'
    BY <2>1, <2>4, <1>3, <1>4, CallAdvances
  <2> QED
    BY <1>6, <2>2, <2>3, <2>4 DEF RelayClaim
<1>7. CASE RelaySend(c)
  <2>1. calls[c].pc = "claimed" /\ pending' = pending /\ nextEpoch' = nextEpoch
    BY <1>7 DEF RelaySend
  <2>2. CASE Ledger!Send(k) /\ Advance(c, "sent", "none")
    <3>1. /\ verdict[k] = "open" /\ sends' = [sends EXCEPT ![k] = 1] /\ verdict' = verdict
      BY <2>2 DEF Ledger!Send
    <3>2. /\ verdict' \in [MarketOrders -> Verdicts] /\ sends' \in [MarketOrders -> {0, 1}]
          /\ sends'[k] = 1 /\ \A m \in MarketOrders : m # k => sends'[m] = sends[m]
      BY <3>1, <1>1, <1>2, <2>1
    <3>3. Forward
      BY <3>1, <3>2, <1>1 DEF Forward
    <3>4. SentBy(k, TRUE)
      BY <3>1, <3>2, <1>1 DEF SentBy
    <3> QED
      BY <2>1, <2>2, <3>2, <3>3, <3>4, CallAdvances
  <2>3. ASSUME NEW res \in PreSend, Advance(c, "return", ExecutionOutcome(PortOutcome(res))),
               Ledger!Decide(k, "unsent") \/ UNCHANGED <<verdict, sends>>
        PROVE  AttemptsInv'
    <3>1. CASE UNCHANGED <<verdict, sends>>
      BY <2>1, <2>3, <3>1, <1>3, <1>4, CallAdvances
    <3>2. CASE Ledger!Decide(k, "unsent")
      <4>1. verdict[k] = "open" /\ verdict' = [verdict EXCEPT ![k] = "unsent"] /\ sends' = sends
        BY <3>2 DEF Ledger!Decide
      <4>2. /\ verdict' \in [MarketOrders -> Verdicts] /\ sends' \in [MarketOrders -> {0, 1}]
            /\ verdict'[k] = "unsent" /\ \A m \in MarketOrders : m # k => verdict'[m] = verdict[m]
        BY <4>1, <1>1, <1>2, <2>1
      <4>3. Forward
        BY <4>1, <4>2, <1>1 DEF Forward
      <4>4. SentBy(k, FALSE)
        BY <4>1, <4>2, <1>1 DEF SentBy
      <4> QED
        BY <2>1, <2>3, <4>2, <4>3, <4>4, <1>3, CallAdvances
    <3> QED
      BY <2>3, <3>1, <3>2
  <2> QED
    BY <1>7, <2>2, <2>3 DEF RelaySend
<1>8. CASE RelayReturn(c)
  <2>1. /\ calls[c].pc = "sent" /\ pending' = pending /\ nextEpoch' = nextEpoch
        /\ UNCHANGED <<verdict, sends>>
    BY <1>8 DEF RelayReturn
  <2>2. PICK res \in {"Submitted", "Unknown", "AdapterUnavailable", "AdapterTimeout"} \cup Existing(k) :
          Advance(c, "return", ExecutionOutcome(PortOutcome(res)))
    BY <1>8 DEF RelayReturn
  <2>3. verdict[k] \in Verdicts /\ verdict[k] # "unclaimed"
    BY <1>1, <1>2, <2>1 DEF AttemptsInv, Claimed
  <2> DEFINE x == ExecutionOutcome(PortOutcome(res))
  <2>4. x \in Results /\ (verdict[k] = "open" => x = "Value")
    <3>1. CASE res \in Existing(k)
      <4>1. verdict[k] \in {"open", "confirmed", "rejected", "unsent"}
        BY <2>3
      <4> HIDE DEF k
      <4>2. /\ ExecutionOutcome(PortOutcome(res)) \in {"Value", "Denied", "Unavailable", "Failed"}
            /\ verdict[k] = "open" => ExecutionOutcome(PortOutcome(res)) = "Value"
        BY <3>1, <4>1, ExistingTyped
      <4> QED
        BY <4>2
    <3>2. CASE res \in {"Submitted", "Unknown", "AdapterUnavailable", "AdapterTimeout"}
      BY <3>2 DEF ExecutionOutcome, PortOutcome
    <3> QED
      BY <2>2, <3>1, <3>2
  <2> HIDE DEF x
  <2>5. Advance(c, "return", x)
    BY <2>2 DEF x
  <2> QED
    BY <2>1, <2>4, <2>5, <1>4, CallAdvances
<1> QED
  BY <1>5, <1>6, <1>7, <1>8

\* A call that ends and leaves the registry alone.
LEMMA CallIsOver ==
    ASSUME AttemptsInv, NEW c \in MarketCalls, NEW r \in CallStates, r.pc \in {"idle", "done"},
           calls' = [calls EXCEPT ![c] = r],
           UNCHANGED <<verdict, sends, pending, nextEpoch>>
    PROVE  AttemptsInv'
<1>1. AttemptsTypeOK'
  BY DEF AttemptsInv, AttemptsTypeOK, OneEach
<1>2. Forward
  BY DEF Forward, AttemptsInv, Claimed
<1>3. ~MayRelease(r)
  BY DEF MayRelease
<1>4. EpochsOK' /\ RefsOK' /\ EntryHeld' /\ Claimed'
  BY <1>2, <1>3, CallMoves
<1>5. Listed(pending)' = Listed(pending)
  BY DEF Listed
<1>6. ReferenceKept'
  <2>1. ASSUME NEW m \in MarketOrders, sends[m] = 1, verdict[m] = "open"
        PROVE  \E e \in Listed(pending) :
                  e.attempt.order = m /\ Cardinality(Releasers(e)') + 1 <= e.refs
    <3>1. PICK e \in Listed(pending) :
            e.attempt.order = m /\ Cardinality(Releasers(e)) + 1 <= e.refs
      BY <2>1 DEF AttemptsInv, ReferenceKept
    <3>2. Releasers(e)' = (Releasers(e) \ {c}) \cup
                            (IF HoldsEntry(r, e) /\ r.pc # "sent" THEN {c} ELSE {})
      BY HoldersAfter
    <3>3. Releasers(e)' \subseteq Releasers(e)
      BY <3>2, <1>3 DEF HoldsEntry
    <3>4. Cardinality(Releasers(e)') \in Nat
          /\ Cardinality(Releasers(e)') <= Cardinality(Releasers(e))
          /\ Cardinality(Releasers(e)) \in Nat
      BY <3>3, HoldersFinite, FS_Subset, FS_CardinalityType
    <3>5. e.refs \in Nat
      BY ListedTyped
    <3>6. Cardinality(Releasers(e)') + 1 <= e.refs
      BY <3>1, <3>4, <3>5
    <3> QED
      BY <3>1, <3>6
  <2> QED
    BY <2>1, <1>5 DEF ReferenceKept
<1> QED
  BY <1>1, <1>4, <1>6 DEF AttemptsInv

\* An entry with a reference to spare has one after the step.
SpareKept ==
    \A e \in Listed(pending) : Cardinality(Releasers(e)) + 1 <= e.refs =>
        \E f \in Listed(pending)' :
            f.attempt = e.attempt /\ Cardinality(Releasers(f)') + 1 <= f.refs

LEMMA SpareSuffices ==
    ASSUME AttemptsInv, UNCHANGED <<verdict, sends>>, SpareKept
    PROVE  ReferenceKept'
<1>1. ASSUME NEW m \in MarketOrders, sends[m] = 1, verdict[m] = "open"
      PROVE  \E f \in Listed(pending)' :
                f.attempt.order = m /\ Cardinality(Releasers(f)') + 1 <= f.refs
  <2>1. PICK e \in Listed(pending) :
          e.attempt.order = m /\ Cardinality(Releasers(e)) + 1 <= e.refs
    BY <1>1 DEF AttemptsInv, ReferenceKept
  <2> QED
    BY <2>1 DEF SpareKept
<1> QED
  BY <1>1 DEF ReferenceKept

\* A call takes a reference of the entry x of its attempt, which replaces the one before, if any;
\* the rest of the registry stays.
Replaces(x, rest) ==
    /\ rest \subseteq Listed(pending)
    /\ \A e \in rest : e.attempt # x.attempt
    /\ \A e \in Listed(pending) \ rest :
         e.attempt = x.attempt /\ e.epoch = x.epoch /\ x.refs = e.refs + 1

LEMMA TakesReference ==
    ASSUME AttemptsInv, NEW c \in MarketCalls, calls[c].pc = "idle", NEW x \in Entries,
           NEW r \in CallStates,
           r.pc = "quote", r.attempt = x.attempt, r.epoch = x.epoch, r.result = "none",
           calls' = [calls EXCEPT ![c] = r], UNCHANGED <<verdict, sends>>,
           pending' \in Seq(Entries), OneEach(pending)', nextEpoch' \in Nat,
           nextEpoch <= nextEpoch', x.epoch < nextEpoch',
           NEW rest, Replaces(x, rest), Listed(pending)' = rest \cup {x},
           Cardinality(Holders(x)) + 1 <= x.refs
    PROVE  AttemptsInv'
<1> USE DEF Replaces
<1>1. /\ calls'[c] = r /\ \A d \in MarketCalls : d # c => calls'[d] = calls[d]
      /\ calls' \in [MarketCalls -> CallStates]
  BY DEF AttemptsInv, AttemptsTypeOK
<1>2. AttemptsTypeOK'
  BY <1>1 DEF AttemptsInv, AttemptsTypeOK
<1>3. EpochsOK'
  <2>1. ASSUME NEW e \in Listed(pending)' PROVE e.epoch < nextEpoch'
    <3>1. CASE e = x
      BY <3>1
    <3>2. CASE e \in Listed(pending)
      BY <3>2, ListedTyped DEF AttemptsInv, AttemptsTypeOK
    <3> QED
      BY <3>1, <3>2
  <2>2. ASSUME NEW d \in MarketCalls, calls'[d].pc \notin {"idle", "done"}
        PROVE  calls'[d].attempt \in Attempts /\ calls'[d].epoch < nextEpoch'
    <3>1. CASE d = c
      BY <3>1, <1>1 DEF Entries
    <3>2. CASE d # c
      <4>1. calls'[d] = calls[d] /\ calls[d].epoch \in Nat /\ nextEpoch \in Nat
        BY <3>2, <1>1 DEF AttemptsInv, AttemptsTypeOK, CallStates
      <4>2. calls[d].attempt \in Attempts /\ calls[d].epoch < nextEpoch
        BY <4>1, <2>2 DEF AttemptsInv, EpochsOK
      <4> QED
        BY <4>1, <4>2
    <3> QED
      BY <3>1, <3>2
  <2> QED
    BY <2>1, <2>2 DEF EpochsOK
<1>4. \A e : c \notin Holders(e) /\ c \notin Releasers(e)
  BY DEF Holders, Releasers, HoldsEntry, MayRelease
<1>5. HoldsEntry(r, x) /\ \A e \in rest : ~HoldsEntry(r, e)
  BY DEF HoldsEntry, MayRelease
<1>6. ASSUME NEW e \in rest PROVE Holders(e)' = Holders(e) /\ Releasers(e)' = Releasers(e)
  <2>1. /\ Holders(e)' = (Holders(e) \ {c}) \cup (IF HoldsEntry(r, e) THEN {c} ELSE {})
        /\ Releasers(e)' = (Releasers(e) \ {c}) \cup
                           (IF HoldsEntry(r, e) /\ r.pc # "sent" THEN {c} ELSE {})
    BY HoldersAfter
  <2> QED
    BY <2>1, <1>4, <1>5
<1>7. Holders(x)' = Holders(x) \cup {c} /\ Releasers(x)' = Releasers(x) \cup {c}
  <2>1. /\ Holders(x)' = (Holders(x) \ {c}) \cup (IF HoldsEntry(r, x) THEN {c} ELSE {})
        /\ Releasers(x)' = (Releasers(x) \ {c}) \cup
                           (IF HoldsEntry(r, x) /\ r.pc # "sent" THEN {c} ELSE {})
    BY HoldersAfter
  <2> QED
    BY <2>1, <1>4, <1>5
<1>8. /\ Cardinality(Holders(x)') = Cardinality(Holders(x)) + 1
      /\ Cardinality(Releasers(x)') = Cardinality(Releasers(x)) + 1
  BY <1>4, <1>7, HoldersFinite, FS_AddElement
<1>9. RefsOK'
  <2>1. ASSUME NEW e \in Listed(pending)' PROVE Cardinality(Holders(e)') <= e.refs
    <3>1. CASE e = x
      BY <3>1, <1>8
    <3>2. CASE e \in rest
      BY <3>2, <1>6 DEF AttemptsInv, RefsOK
    <3> QED
      BY <3>1, <3>2
  <2> QED
    BY <2>1 DEF RefsOK
<1>10. EntryHeld'
  <2>1. ASSUME NEW d \in MarketCalls, calls'[d].pc \in {"quote", "relay", "claimed"},
               Undecided(calls'[d].attempt.order)
        PROVE  \E e \in Listed(pending)' :
                  e.attempt = calls'[d].attempt /\ e.epoch = calls'[d].epoch
    <3>1. CASE d = c
      BY <3>1, <1>1
    <3>2. CASE d # c
      <4>1. calls'[d] = calls[d]
        BY <3>2, <1>1
      <4>2. PICK e \in Listed(pending) : e.attempt = calls[d].attempt /\ e.epoch = calls[d].epoch
        BY <4>1, <2>1 DEF AttemptsInv, EntryHeld
      <4>3. CASE e \in rest
        BY <4>1, <4>2, <4>3
      <4>4. CASE e \notin rest
        BY <4>1, <4>2, <4>4
      <4> QED
        BY <4>3, <4>4
    <3> QED
      BY <3>1, <3>2
  <2> QED
    BY <2>1 DEF EntryHeld, Undecided
<1>11. Claimed'
  BY <1>1 DEF AttemptsInv, Claimed
<1>12. SpareKept
  <2>1. ASSUME NEW e \in Listed(pending), Cardinality(Releasers(e)) + 1 <= e.refs
        PROVE  \E f \in Listed(pending)' :
                  f.attempt = e.attempt /\ Cardinality(Releasers(f)') + 1 <= f.refs
    <3>1. CASE e \in rest
      <4>1. Cardinality(Releasers(e)') + 1 <= e.refs /\ e \in Listed(pending)'
        BY <3>1, <2>1, <1>6
      <4> QED
        BY <4>1
    <3>2. CASE e \notin rest
      <4>1. e.attempt = x.attempt /\ e.epoch = x.epoch /\ x.refs = e.refs + 1
        BY <3>2
      <4>2. Releasers(e) = Releasers(x)
        BY <4>1 DEF Releasers, Holders, HoldsEntry
      <4>3. e.refs \in Nat /\ Cardinality(Releasers(x)) \in Nat
        BY ListedTyped, HoldersFinite
      <4>4. Cardinality(Releasers(x)') + 1 <= x.refs
        BY <2>1, <4>1, <4>2, <4>3, <1>8
      <4> QED
        BY <4>1, <4>4
    <3> QED
      BY <3>1, <3>2
  <2> QED
    BY <2>1 DEF SpareKept
<1> QED
  BY <1>2, <1>3, <1>9, <1>10, <1>11, <1>12, SpareSuffices DEF AttemptsInv

LEMMA StepReserve ==
    ASSUME AttemptsInv, NEW c \in MarketCalls, NEW attempt \in Attempts, ReserveSlot(c, attempt)
    PROVE  AttemptsInv'
<1> DEFINE at == IndexOf(attempt)
<1>1. /\ pending \in Seq(Entries) /\ OneEach(pending) /\ nextEpoch \in Nat
      /\ calls \in [MarketCalls -> CallStates] /\ calls[c].pc = "idle"
      /\ UNCHANGED <<verdict, sends>>
  BY DEF AttemptsInv, AttemptsTypeOK, ReserveSlot
<1>2. at = {i \in DOMAIN pending : pending[i].attempt = attempt}
  BY DEF IndexOf
<1>3. OneEach(pending') => OneEach(pending)'
  BY DEF OneEach
<1>4. Listed(pending') = Listed(pending)'
  BY DEF Listed
<1> HIDE DEF at
<1>5. CASE at # {}
  <2> DEFINE i == CHOOSE n \in at : TRUE
             o == pending[i]
             x == [o EXCEPT !.refs = o.refs + 1]
             rest == Listed(pending) \ {o}
             r == [pc |-> "quote", attempt |-> attempt, epoch |-> o.epoch, result |-> "none"]
  <2>1. /\ pending' = [pending EXCEPT ![i].refs = @ + 1] /\ calls' = [calls EXCEPT ![c] = r]
        /\ nextEpoch' = nextEpoch
    BY <1>5 DEF ReserveSlot, at
  <2>2. i \in DOMAIN pending /\ o.attempt = attempt
    <3>1. i \in at
      BY <1>5
    <3> QED
      BY <3>1, <1>2
  <2> HIDE DEF i
  <2>3. o \in Listed(pending)
    BY <2>2 DEF Listed
  <2>4. o \in Entries /\ o.refs \in Nat /\ o.epoch \in Nat /\ o.epoch < nextEpoch
    BY <2>3, ListedTyped
  <2>5. o.refs + 1 \in Nat /\ pending' = [pending EXCEPT ![i].refs = o.refs + 1]
    BY <2>1, <2>4
  <2>6. /\ pending' \in Seq(Entries) /\ OneEach(pending') /\ Listed(pending') = rest \cup {x}
    BY <2>2, <2>5, <1>1, RegistryCounts
  <2>7. /\ x \in Entries /\ x.attempt = attempt /\ x.epoch = o.epoch /\ x.refs = o.refs + 1
    BY <2>2, <2>4 DEF Entries
  <2>8. r \in CallStates /\ r.pc = "quote" /\ r.attempt = x.attempt /\ r.epoch = x.epoch
        /\ r.result = "none"
    BY <2>4, <2>7 DEF CallStates
  <2>9. Replaces(x, rest)
    <3>1. ASSUME NEW e \in rest PROVE e.attempt # x.attempt
      <4>1. PICK j \in DOMAIN pending : e = pending[j]
        BY DEF Listed
      <4> QED
        BY <4>1, <2>2, <2>7, <1>1 DEF OneEach
    <3> HIDE DEF x
    <3> QED
      BY <3>1, <2>2, <2>7 DEF Replaces
  <2>10. Cardinality(Holders(x)) + 1 <= x.refs
    <3>1. Holders(x) = Holders(o)
      BY <2>2, <2>7 DEF Holders, HoldsEntry
    <3>2. Cardinality(Holders(o)) <= o.refs /\ Cardinality(Holders(o)) \in Nat
      BY <2>3, HoldersFinite DEF AttemptsInv, RefsOK
    <3> QED
      BY <3>1, <3>2, <2>4, <2>7
  <2>11. nextEpoch' \in Nat /\ nextEpoch <= nextEpoch' /\ x.epoch < nextEpoch'
    BY <2>1, <2>4, <2>7, <1>1
  <2>12. calls' = [calls EXCEPT ![c] = r]
    BY <2>1
  <2> HIDE DEF x, r, rest, o
  <2>13. OneEach(pending)' /\ Listed(pending)' = rest \cup {x}
    BY <2>6, <1>3, <1>4
  <2> QED
    BY <1>1, <2>6, <2>7, <2>8, <2>9, <2>10, <2>11, <2>12, <2>13, TakesReference
<1>6. CASE at = {} /\ Len(pending) < MaxPending
  <2> DEFINE x == [attempt |-> attempt, refs |-> 1, epoch |-> nextEpoch]
             rest == Listed(pending)
             r == [pc |-> "quote", attempt |-> attempt, epoch |-> nextEpoch, result |-> "none"]
  <2>1. /\ pending' = Append(pending, x) /\ calls' = [calls EXCEPT ![c] = r]
        /\ nextEpoch' = nextEpoch + 1
    BY <1>6, AttemptsAssumption DEF ReserveSlot, at
  <2>2. /\ x \in Entries /\ x.attempt = attempt /\ x.epoch = nextEpoch /\ x.refs = 1
    BY <1>1 DEF Entries
  <2>3. r \in CallStates /\ r.pc = "quote" /\ r.attempt = x.attempt /\ r.epoch = x.epoch
        /\ r.result = "none"
    BY <1>1 DEF CallStates
  <2> HIDE DEF x, r
  <2>4. /\ pending' \in Seq(Entries) /\ OneEach(pending') /\ Listed(pending') = rest \cup {x}
    <3>1. {i \in DOMAIN pending : pending[i].attempt = x.attempt} = {}
      BY <1>2, <1>6, <2>2
    <3> QED
      BY <3>1, <2>1, <2>2, <1>1, RegistryGrows
  <2>5. Replaces(x, rest)
    BY <1>2, <1>6, <2>2 DEF Replaces, Listed
  <2>6. Cardinality(Holders(x)) + 1 <= x.refs
    <3>1. ASSUME NEW d \in Holders(x) PROVE FALSE
      <4>1. d \in MarketCalls /\ calls[d].pc \notin {"idle", "done"} /\ calls[d].epoch = nextEpoch
        BY <2>2 DEF Holders, HoldsEntry, MayRelease
      <4>2. calls[d].epoch < nextEpoch
        BY <4>1 DEF AttemptsInv, EpochsOK
      <4> QED
        BY <4>1, <4>2, <1>1
    <3>2. Holders(x) = {}
      BY <3>1
    <3>3. Cardinality(Holders(x)) = 0
      BY <3>2, FS_EmptySet
    <3> QED
      BY <3>3, <2>2
  <2>7. nextEpoch' \in Nat /\ nextEpoch <= nextEpoch' /\ x.epoch < nextEpoch'
    BY <2>1, <2>2, <1>1
  <2> HIDE DEF rest
  <2> QED
    BY <1>1, <1>3, <1>4, <2>1, <2>2, <2>3, <2>4, <2>5, <2>6, <2>7, TakesReference
<1>7. CASE at = {} /\ ~(Len(pending) < MaxPending)
  <2> DEFINE r == [NoCall EXCEPT !.pc = "done", !.attempt = attempt, !.result = "Denied"]
  <2>1. calls' = [calls EXCEPT ![c] = r] /\ UNCHANGED <<pending, nextEpoch>>
    BY <1>7 DEF ReserveSlot, at
  <2>2. r \in CallStates /\ r.pc = "done"
    BY DEF NoCall, CallStates
  <2> HIDE DEF r
  <2> QED
    BY <1>1, <2>1, <2>2, CallIsOver
<1> QED
  BY <1>5, <1>6, <1>7

\* The call is answered: without a value in hand its reference goes, and the entry with the last one.
LEMMA StepAnswer ==
    ASSUME AttemptsInv, NEW c \in MarketCalls, Answer(c)
    PROVE  AttemptsInv'
<1> DEFINE attempt == calls[c].attempt
           epoch == calls[c].epoch
           r == [calls[c] EXCEPT !.pc = "done"]
           at == {i \in IndexOf(attempt) : pending[i].epoch = epoch}
<1>1. /\ calls[c].pc = "return" /\ UNCHANGED <<verdict, sends, nextEpoch>>
      /\ calls' = [calls EXCEPT ![c] = r]
      /\ pending' = IF calls[c].result # "Value" THEN ReleaseHold(attempt, epoch) ELSE pending
  BY DEF Answer
<1>2. /\ pending \in Seq(Entries) /\ OneEach(pending) /\ nextEpoch \in Nat
      /\ calls \in [MarketCalls -> CallStates]
  BY DEF AttemptsInv, AttemptsTypeOK
<1>3. r \in CallStates /\ r.pc = "done"
  BY <1>2 DEF CallStates
<1>4. \A i \in at : i \in DOMAIN pending /\ pending[i].attempt = attempt /\ pending[i].epoch = epoch
  BY DEF IndexOf
<1> HIDE DEF r, at
<1>5. CASE calls[c].result = "Value" \/ at = {}
  <2>1. pending' = pending
    BY <1>1, <1>5 DEF ReleaseHold, at
  <2> QED
    BY <2>1, <1>1, <1>3, CallIsOver
<1>6. CASE calls[c].result # "Value" /\ at # {}
  <2> DEFINE i == CHOOSE n \in at : TRUE
             o == pending[i]
             x == [o EXCEPT !.refs = o.refs - 1]
             rest == Listed(pending) \ {o}
  <2>1. i \in at
    BY <1>6
  <2>2. pending' = IF o.refs =< 1 THEN PendingWithout(i) ELSE [pending EXCEPT ![i].refs = @ - 1]
    BY <1>1, <1>6 DEF ReleaseHold, at
  <2> HIDE DEF i
  <2>3. i \in DOMAIN pending /\ o.attempt = attempt /\ o.epoch = epoch
    BY <2>1, <1>4
  <2>4. o \in Listed(pending)
    BY <2>3 DEF Listed
  <2>5. o \in Entries /\ o.refs \in Nat
    BY <2>4, ListedTyped
  <2>6. c \in Holders(o) /\ c \in Releasers(o)
    BY <1>1, <1>6, <2>3 DEF Holders, Releasers, HoldsEntry, MayRelease
  <2>7. /\ Cardinality(Holders(o)) <= o.refs /\ Cardinality(Holders(o)) \in Nat
        /\ IsFiniteSet(Holders(o)) /\ IsFiniteSet(Releasers(o)) /\ Cardinality(Releasers(o)) \in Nat
    BY <2>4, HoldersFinite DEF AttemptsInv, RefsOK
  <2>8. ASSUME NEW e PROVE Holders(e)' = Holders(e) \ {c} /\ Releasers(e)' = Releasers(e) \ {c}
    <3>1. /\ Holders(e)' = (Holders(e) \ {c}) \cup (IF HoldsEntry(r, e) THEN {c} ELSE {})
          /\ Releasers(e)' = (Releasers(e) \ {c}) \cup
                             (IF HoldsEntry(r, e) /\ r.pc # "sent" THEN {c} ELSE {})
      BY <1>1, <1>3, HoldersAfter
    <3>2. ~HoldsEntry(r, e)
      BY <1>3 DEF HoldsEntry, MayRelease
    <3> QED
      BY <3>1, <3>2
  <2>9. ASSUME NEW e \in rest
        PROVE  /\ Cardinality(Holders(e)') <= e.refs
               /\ Cardinality(Releasers(e)) + 1 <= e.refs => Cardinality(Releasers(e)') + 1 <= e.refs
    <3>1. /\ Cardinality(Holders(e)) <= e.refs /\ e.refs \in Nat
          /\ IsFiniteSet(Holders(e)) /\ Cardinality(Holders(e)) \in Nat
          /\ IsFiniteSet(Releasers(e)) /\ Cardinality(Releasers(e)) \in Nat
      BY HoldersFinite, ListedTyped DEF AttemptsInv, RefsOK
    <3>2. Holders(e)' \subseteq Holders(e) /\ Releasers(e)' \subseteq Releasers(e)
      BY <2>8
    <3>3. /\ Cardinality(Holders(e)') \in Nat /\ Cardinality(Holders(e)') <= Cardinality(Holders(e))
      BY <3>1, <3>2, FS_Subset, FS_CardinalityType
    <3>4. /\ Cardinality(Releasers(e)') \in Nat
          /\ Cardinality(Releasers(e)') <= Cardinality(Releasers(e))
      BY <3>1, <3>2, FS_Subset, FS_CardinalityType
    <3> QED
      BY <3>1, <3>3, <3>4
  <2>10. /\ calls'[c] = r /\ calls' \in [MarketCalls -> CallStates]
         /\ \A d \in MarketCalls : d # c => calls'[d] = calls[d]
    BY <1>1, <1>2, <1>3
  <2>11. Claimed'
    BY <1>1, <1>3, <2>10 DEF AttemptsInv, Claimed
  <2>12. OneEach(pending') => OneEach(pending)'
    BY DEF OneEach
  <2>13. Listed(pending)' = Listed(pending')
    BY DEF Listed
  <2>14. Cardinality(Holders(o) \ {c}) = Cardinality(Holders(o)) - 1
         /\ Cardinality(Releasers(o) \ {c}) = Cardinality(Releasers(o)) - 1
    BY <2>6, <2>7, FS_RemoveElement
  <2>15. ASSUME NEW d \in MarketCalls, calls'[d].pc \in {"quote", "relay", "claimed"},
                Undecided(calls'[d].attempt.order)
         PROVE  /\ d # c /\ calls'[d] = calls[d]
                /\ \E e \in Listed(pending) :
                      e.attempt = calls[d].attempt /\ e.epoch = calls[d].epoch
    <3>1. d # c /\ calls'[d] = calls[d]
      BY <2>10, <2>15, <1>3
    <3> QED
      BY <3>1, <2>15 DEF AttemptsInv, EntryHeld
  <2>16. CASE o.refs <= 1
    <3>1. pending' \in Seq(Entries) /\ OneEach(pending') /\ Listed(pending') = rest
      <4>1. pending' = [j \in 1..Len(pending) - 1 |-> pending[IF j < i THEN j ELSE j + 1]]
        BY <2>2, <2>16 DEF PendingWithout
      <4> QED
        BY <4>1, <2>3, <1>2, RegistryRemoves
    <3>2. Holders(o) = {c} /\ Cardinality(Releasers(o)) + 1 > o.refs
      <4>1. {c} \in SUBSET Holders(o) /\ Cardinality({c}) = 1
        BY <2>6, FS_Singleton
      <4>2. Cardinality(Holders(o)) = 1
        <5>1. Cardinality({c}) <= Cardinality(Holders(o))
          BY <4>1, <2>7, FS_Subset
        <5> QED
          BY <5>1, <4>1, <2>7, <2>16, <2>5
      <4>3. Holders(o) = {c}
        BY <4>1, <4>2, <2>7, FS_Subset
      <4>4. Cardinality(Releasers(o)) >= 1
        BY <2>6, <2>7, FS_EmptySet
      <4> QED
        BY <4>3, <4>4, <2>7, <2>5, <2>16
    <3> HIDE DEF rest, o
    <3>3. AttemptsTypeOK'
      BY <3>1, <2>12, <2>10, <1>1, <1>2 DEF AttemptsInv, AttemptsTypeOK
    <3>4. EpochsOK'
      BY <3>1, <2>13, <2>10, <1>1, <1>3 DEF AttemptsInv, EpochsOK, rest
    <3>5. RefsOK'
      BY <3>1, <2>13, <2>9 DEF RefsOK
    <3>6. EntryHeld'
      <4>1. ASSUME NEW d \in MarketCalls, calls'[d].pc \in {"quote", "relay", "claimed"},
                   Undecided(calls'[d].attempt.order)
            PROVE  \E e \in Listed(pending)' :
                      e.attempt = calls'[d].attempt /\ e.epoch = calls'[d].epoch
        <5>1. d # c /\ calls'[d] = calls[d]
          BY <4>1, <2>15
        <5>2. PICK e \in Listed(pending) : e.attempt = calls[d].attempt /\ e.epoch = calls[d].epoch
          BY <4>1, <2>15
        <5>3. d \in Holders(e)
          BY <4>1, <5>1, <5>2 DEF Holders, HoldsEntry, MayRelease
        <5>4. e # o
          BY <5>1, <5>3, <3>2
        <5> QED
          BY <5>1, <5>2, <5>4, <3>1, <2>13 DEF rest
      <4> QED
        BY <4>1, <1>1 DEF EntryHeld, Undecided
    <3>7. SpareKept
      <4>1. ASSUME NEW e \in Listed(pending), Cardinality(Releasers(e)) + 1 <= e.refs
            PROVE  e \in Listed(pending)' /\ Cardinality(Releasers(e)') + 1 <= e.refs
        <5>1. e # o
          BY <4>1, <3>2, <2>5, <2>7
        <5> QED
          BY <5>1, <4>1, <2>9, <3>1, <2>13 DEF rest
      <4> QED
        BY <4>1 DEF SpareKept
    <3>8. ReferenceKept'
      BY <3>7, <1>1, SpareSuffices
    <3> QED
      BY <3>3, <3>4, <3>5, <3>6, <3>8, <2>11 DEF AttemptsInv
  <2>17. CASE ~(o.refs <= 1)
    <3>1. o.refs - 1 \in Nat /\ pending' = [pending EXCEPT ![i].refs = o.refs - 1]
      BY <2>2, <2>5, <2>17
    <3>2. pending' \in Seq(Entries) /\ OneEach(pending') /\ Listed(pending') = rest \cup {x}
      BY <3>1, <2>3, <1>2, RegistryCounts
    <3>3. x.attempt = attempt /\ x.epoch = epoch /\ x.refs = o.refs - 1
      BY <2>3, <2>5 DEF Entries
    <3> HIDE DEF rest, o, x
    <3>4. PICK y : y = x
      OBVIOUS
    <3>5. y.attempt = attempt /\ y.epoch = epoch /\ y.refs = o.refs - 1
          /\ Listed(pending') = rest \cup {y}
      BY <3>3, <3>2, <3>4
    <3>6. Holders(y) = Holders(o) /\ Releasers(y) = Releasers(o)
      BY <3>5, <2>3 DEF Holders, Releasers, HoldsEntry
    <3>7. Holders(y)' = Holders(o) \ {c} /\ Releasers(y)' = Releasers(o) \ {c}
      BY <3>6, <2>8
    <3>8. AttemptsTypeOK'
      BY <3>2, <2>12, <2>10, <1>1, <1>2 DEF AttemptsInv, AttemptsTypeOK
    <3>9. EpochsOK'
      <4>1. \A e \in Listed(pending)' : e.epoch < nextEpoch
        BY <3>5, <2>3, <2>4, <2>13 DEF AttemptsInv, EpochsOK, rest
      <4> QED
        BY <4>1, <2>10, <1>1, <1>3 DEF AttemptsInv, EpochsOK
    <3>10. RefsOK'
      <4>1. Cardinality(Holders(y)') <= y.refs
        BY <3>5, <3>7, <2>5, <2>7, <2>14
      <4> QED
        BY <4>1, <3>5, <2>13, <2>9 DEF RefsOK
    <3>11. EntryHeld'
      <4>1. ASSUME NEW d \in MarketCalls, calls'[d].pc \in {"quote", "relay", "claimed"},
                   Undecided(calls'[d].attempt.order)
            PROVE  \E e \in Listed(pending)' :
                      e.attempt = calls'[d].attempt /\ e.epoch = calls'[d].epoch
        <5>1. d # c /\ calls'[d] = calls[d]
          BY <4>1, <2>15
        <5>2. PICK e \in Listed(pending) : e.attempt = calls[d].attempt /\ e.epoch = calls[d].epoch
          BY <4>1, <2>15
        <5>3. CASE e = o
          BY <5>1, <5>2, <5>3, <3>5, <2>3, <2>13
        <5>4. CASE e # o
          BY <5>1, <5>2, <5>4, <3>5, <2>13 DEF rest
        <5> QED
          BY <5>3, <5>4
      <4> QED
        BY <4>1, <1>1 DEF EntryHeld, Undecided
    <3>12. SpareKept
      <4>1. ASSUME NEW e \in Listed(pending), Cardinality(Releasers(e)) + 1 <= e.refs
            PROVE  \E f \in Listed(pending)' :
                      f.attempt = e.attempt /\ Cardinality(Releasers(f)') + 1 <= f.refs
        <5>1. CASE e = o
          <6>1. Cardinality(Releasers(y)') + 1 <= y.refs
            BY <5>1, <4>1, <3>5, <3>7, <2>5, <2>7, <2>14
          <6> QED
            BY <5>1, <6>1, <3>5, <2>3, <2>13
        <5>2. CASE e # o
          BY <5>2, <4>1, <2>9, <3>5, <2>13 DEF rest
        <5> QED
          BY <5>1, <5>2
      <4> QED
        BY <4>1 DEF SpareKept
    <3>13. ReferenceKept'
      BY <3>12, <1>1, SpareSuffices
    <3> QED
      BY <3>8, <3>9, <3>10, <3>11, <3>13, <2>11 DEF AttemptsInv
  <2> QED
    BY <2>16, <2>17
<1> QED
  BY <1>5, <1>6

\* What the reconcile loop may do to the registry: an entry goes only when its order is decided.
LEMMA StepExamine ==
    ASSUME AttemptsInv, ~ReconcileFaults, Examine
    PROVE  AttemptsInv'
<1> DEFINE attempt == Head(pass)
           k == attempt.order
           Verdicts == {"unclaimed", "open", "confirmed", "rejected", "unsent"}
           Stays == pending' = pending
           Goes == pending' = Unlist(attempt)
<1>1. UNCHANGED <<nextEpoch, calls>>
  BY DEF Examine
<1>2. /\ verdict \in [MarketOrders -> Verdicts] /\ sends \in [MarketOrders -> {0, 1}]
      /\ pending \in Seq(Entries) /\ OneEach(pending)
  BY DEF AttemptsInv, AttemptsTypeOK
<1>3. /\ sends' = sends
      /\ \/ /\ verdict[k] = "open" /\ \E v \in {"confirmed", "rejected"} : verdict' = [verdict EXCEPT ![k] = v]
            /\ (Stays \/ Goes)
         \/ /\ verdict' = verdict /\ Stays
         \/ /\ verdict' = verdict /\ verdict[k] \notin {"unclaimed", "open"} /\ (Stays \/ Goes)
  <2> DEFINE Apply(res) == pending' = IF PortOutcome(res) \in {"Filled", "Failed", "Denied"}
                                      THEN Unlist(attempt) ELSE pending
  <2>1. ASSUME NEW res PROVE Apply(res) => Stays \/ Goes
    OBVIOUS
  <2>2. ASSUME NEW res \in {"Unknown", "AdapterUnavailable", "InvalidTransition"}
        PROVE  Apply(res) => Stays
    <3>1. PortOutcome(res) = "Unknown"
      BY DEF PortOutcome
    <3> QED
      BY <3>1
  <2>3. \/ /\ sends[k] = 1
           /\ \/ Ledger!Decide(k, "confirmed") /\ \E res \in {"ConfirmedWithFill",
                                                             "ConfirmedNoFill"} : Apply(res)
              \/ Ledger!Decide(k, "rejected") /\ Apply("Rejected")
        \/ /\ verdict[k] \in {"unclaimed", "open"}
           /\ \E res \in {"Unknown", "AdapterUnavailable", "InvalidTransition"} : Apply(res)
           /\ UNCHANGED <<verdict, sends>>
        \/ /\ verdict[k] \notin {"unclaimed", "open"}
           /\ \E res \in Existing(k) : Apply(res)
           /\ UNCHANGED <<verdict, sends>>
    BY DEF Examine
  <2> HIDE DEF Apply, Stays, Goes, k, attempt
  <2>4. CASE \/ Ledger!Decide(k, "confirmed") /\ \E res \in {"ConfirmedWithFill",
                                                             "ConfirmedNoFill"} : Apply(res)
             \/ Ledger!Decide(k, "rejected") /\ Apply("Rejected")
    BY <2>1, <2>4 DEF Ledger!Decide
  <2>5. CASE /\ \E res \in {"Unknown", "AdapterUnavailable", "InvalidTransition"} : Apply(res)
             /\ UNCHANGED <<verdict, sends>>
    BY <2>2, <2>5
  <2>6. CASE /\ verdict[k] \notin {"unclaimed", "open"}
             /\ \E res \in Existing(k) : Apply(res)
             /\ UNCHANGED <<verdict, sends>>
    BY <2>1, <2>6
  <2> QED
    BY <2>3, <2>4, <2>5, <2>6
<1>4. /\ verdict' \in [MarketOrders -> Verdicts] /\ sends' = sends
      /\ \A m \in MarketOrders : m # k => verdict'[m] = verdict[m]
      /\ \A m \in MarketOrders : verdict'[m] \in {"unclaimed", "open"} => verdict'[m] = verdict[m]
      /\ \A m \in MarketOrders : verdict[m] # "unclaimed" => verdict'[m] # "unclaimed"
      /\ \/ Stays
         \/ Goes /\ (k \in MarketOrders => verdict'[k] \notin {"unclaimed", "open"})
  <2> HIDE DEF Stays, Goes, k, attempt
  <2> QED
    BY <1>2, <1>3
<1>5. /\ pending' \in Seq(Entries) /\ OneEach(pending') /\ Listed(pending') \subseteq Listed(pending)
      /\ \A e \in Listed(pending) : e \in Listed(pending') \/
           (e.attempt.order = k /\ verdict'[e.attempt.order] \notin {"unclaimed", "open"})
  <2>1. CASE Stays \/ IndexOf(attempt) = {}
    <3>1. pending' = pending
      BY <2>1, <1>4 DEF Unlist
    <3> QED
      BY <3>1, <1>2
  <2>2. CASE Goes /\ IndexOf(attempt) # {} /\ (k \in MarketOrders => verdict'[k] \notin {"unclaimed", "open"})
    <3> DEFINE i == CHOOSE n \in IndexOf(attempt) : TRUE
    <3>1. pending' = PendingWithout(i) /\ i \in IndexOf(attempt)
      BY <2>2 DEF Unlist
    <3> HIDE DEF i
    <3>2. i \in DOMAIN pending /\ pending[i].attempt = attempt
      BY <3>1 DEF IndexOf
    <3>3. pending' = [j \in 1..Len(pending) - 1 |-> pending[IF j < i THEN j ELSE j + 1]]
      BY <3>1 DEF PendingWithout
    <3>4. pending' \in Seq(Entries) /\ OneEach(pending') /\ Listed(pending') = Listed(pending) \ {pending[i]}
      BY <3>2, <3>3, <1>2, RegistryRemoves
    <3>5. pending[i] \in Listed(pending)
      BY <3>2 DEF Listed
    <3>6. k \in MarketOrders
      BY <3>2, <3>5, ListedTyped
    <3> QED
      BY <3>2, <3>4, <3>6, <2>2
  <2> QED
    BY <1>4, <2>1, <2>2
<1> HIDE DEF k, attempt, Stays, Goes
<1>6. Listed(pending)' = Listed(pending') /\ (OneEach(pending') => OneEach(pending)')
  BY DEF Listed, OneEach
<1>7. \A e : Holders(e)' = Holders(e) /\ Releasers(e)' = Releasers(e)
  BY <1>1 DEF Holders, Releasers, HoldsEntry, MayRelease
<1>8. AttemptsTypeOK'
  BY <1>1, <1>2, <1>4, <1>5, <1>6 DEF AttemptsInv, AttemptsTypeOK
<1>9. EpochsOK'
  BY <1>1, <1>5, <1>6 DEF AttemptsInv, EpochsOK
<1>10. RefsOK'
  <2>1. ASSUME NEW e \in Listed(pending)' PROVE Cardinality(Holders(e)') <= e.refs
    BY <1>5, <1>6, <1>7 DEF AttemptsInv, RefsOK
  <2> QED
    BY <2>1 DEF RefsOK
<1>11. EntryHeld'
  <2>1. ASSUME NEW d \in MarketCalls, calls[d].pc \in {"quote", "relay", "claimed"},
               verdict'[calls[d].attempt.order] \in {"unclaimed", "open"}
        PROVE  \E e \in Listed(pending)' :
                  e.attempt = calls[d].attempt /\ e.epoch = calls[d].epoch
    <3>1. calls[d].attempt.order \in MarketOrders
      BY <2>1 DEF AttemptsInv, EpochsOK, Attempts
    <3>2. Undecided(calls[d].attempt.order)
      BY <2>1, <3>1, <1>4 DEF Undecided
    <3>3. PICK e \in Listed(pending) : e.attempt = calls[d].attempt /\ e.epoch = calls[d].epoch
      BY <2>1, <3>2 DEF AttemptsInv, EntryHeld
    <3> QED
      BY <2>1, <3>3, <1>5, <1>6
  <2> QED
    BY <2>1, <1>1 DEF EntryHeld, Undecided
<1>12. Claimed'
  <2>1. ASSUME NEW d \in MarketCalls, calls[d].pc \in {"claimed", "sent"}
        PROVE  verdict'[calls[d].attempt.order] # "unclaimed"
    <3>1. calls[d].attempt.order \in MarketOrders
      BY <2>1 DEF AttemptsInv, EpochsOK, Attempts
    <3> QED
      BY <2>1, <3>1, <1>4 DEF AttemptsInv, Claimed
  <2> QED
    BY <2>1, <1>1, <1>4 DEF AttemptsInv, Claimed
<1>13. ReferenceKept'
  <2>1. ASSUME NEW m \in MarketOrders, sends[m] = 1, verdict'[m] = "open"
        PROVE  \E e \in Listed(pending)' :
                  e.attempt.order = m /\ Cardinality(Releasers(e)') + 1 <= e.refs
    <3>1. verdict[m] = "open"
      BY <2>1, <1>4
    <3>2. PICK e \in Listed(pending) :
            e.attempt.order = m /\ Cardinality(Releasers(e)) + 1 <= e.refs
      BY <2>1, <3>1 DEF AttemptsInv, ReferenceKept
    <3>3. e \in Listed(pending)'
      BY <2>1, <3>2, <1>5, <1>6
    <3>4. Cardinality(Releasers(e)') + 1 <= e.refs
      BY <3>2, <1>7
    <3> QED
      BY <3>2, <3>3, <3>4
  <2> QED
    BY <2>1, <1>4 DEF ReferenceKept
<1> QED
  BY <1>8, <1>9, <1>10, <1>11, <1>12, <1>13 DEF AttemptsInv

LEMMA AttemptsInitially == AttemptsInit => AttemptsInv
<1> SUFFICES ASSUME AttemptsInit PROVE AttemptsInv
  OBVIOUS
<1>1. /\ verdict = [k \in MarketOrders |-> "unclaimed"] /\ sends = [k \in MarketOrders |-> 0]
      /\ pending = <<>> /\ nextEpoch = 0 /\ calls = [c \in MarketCalls |-> NoCall]
  BY DEF AttemptsInit, Ledger!Init
<1>2. NoCall \in CallStates /\ NoCall.pc = "idle"
  BY DEF NoCall, CallStates
<1>3. pending \in Seq(Entries) /\ OneEach(pending) /\ Listed(pending) = {}
  BY <1>1 DEF OneEach, Listed
<1>4. AttemptsTypeOK
  BY <1>1, <1>2, <1>3 DEF AttemptsTypeOK
<1>5. \A c \in MarketCalls : calls[c].pc = "idle"
  BY <1>1, <1>2
<1> QED
  BY <1>1, <1>3, <1>4, <1>5 DEF AttemptsInv, EpochsOK, RefsOK, EntryHeld, Claimed, ReferenceKept

LEMMA AttemptsStep ==
    ASSUME ~ReconcileFaults
    PROVE  AttemptsInv /\ [AttemptsNext]_attemptVars => AttemptsInv'
<1> SUFFICES ASSUME AttemptsInv, [AttemptsNext]_attemptVars PROVE AttemptsInv'
  OBVIOUS
<1>1. ASSUME UNCHANGED <<verdict, sends, pending, nextEpoch, calls>> PROVE AttemptsInv'
  <2>1. Listed(pending)' = Listed(pending) /\ OneEach(pending)' = OneEach(pending)
    BY <1>1 DEF Listed, OneEach
  <2>2. \A e : Holders(e)' = Holders(e) /\ Releasers(e)' = Releasers(e)
    BY <1>1 DEF Holders, Releasers, HoldsEntry, MayRelease
  <2>3. AttemptsTypeOK'
    BY <1>1, <2>1 DEF AttemptsInv, AttemptsTypeOK
  <2>4. EpochsOK' /\ EntryHeld' /\ Claimed'
    BY <1>1, <2>1 DEF AttemptsInv, EpochsOK, EntryHeld, Claimed, Undecided
  <2>5. RefsOK'
    BY <2>1, <2>2 DEF AttemptsInv, RefsOK
  <2>6. ReferenceKept'
    BY <1>1, <2>1, <2>2 DEF AttemptsInv, ReferenceKept
  <2> QED
    BY <2>3, <2>4, <2>5, <2>6 DEF AttemptsInv
<1>2. CASE UNCHANGED attemptVars
  BY <1>1, <1>2 DEF attemptVars
<1>3. CASE StartPass
  BY <1>1, <1>3 DEF StartPass
<1>4. ASSUME NEW c \in MarketCalls, DropCall(c) PROVE AttemptsInv'
  <2>1. NoCall \in CallStates /\ NoCall.pc \in {"idle", "done"}
    BY DEF NoCall, CallStates
  <2>2. /\ calls' = [calls EXCEPT ![c] = NoCall]
        /\ UNCHANGED <<verdict, sends, pending, nextEpoch>>
    BY <1>4 DEF DropCall
  <2> QED
    BY <2>1, <2>2, CallIsOver
<1> QED
  BY <1>2, <1>3, <1>4, StepsOfACall, StepReserve, StepAnswer, StepExamine DEF AttemptsNext

\* Any number of orders, calls, channels and entries: an order that was sent and whose fate is not
\* known stays in the registry for the reconcile loop, unless the relay's store fails under a
\* reconcile, which lib.rs:414-417 takes for a failed attempt.
THEOREM SentOrdersTracked ==
    ASSUME ~ReconcileFaults
    PROVE  AttemptsSpec => []TrackedUntilDecided
<1>1. AttemptsInv => TrackedUntilDecided
  BY DEF AttemptsInv, ReferenceKept, TrackedUntilDecided, Listed
<1> QED
  BY <1>1, AttemptsInitially, AttemptsStep, PTL DEF AttemptsSpec

-----------------------------------------------------------------------------
\* MarketQuotes.

\* A parked quote is one that was shown, and lives as long as it was shown to.
WasShown(q) ==
    \E r \in reviewed : /\ r.kid = q.kid /\ r.intent = q.intent /\ r.router = q.router
                        /\ r.at \in Nat /\ r.at <= quoteNow /\ q.expires = r.at + QuoteTtl

QuotesInv ==
    /\ quoteNow \in Nat /\ DOMAIN previews = QuoteCalls
    /\ \A c \in QuoteCalls : previews[c].now \in Nat /\ previews[c].now <= quoteNow
    /\ \A q \in quotes : WasShown(q)
    /\ ExecutedAsReviewed

\* What was shown before is still shown, and the clock does not go back.
LEMMA ShownStays ==
    ASSUME NEW q, WasShown(q), reviewed \subseteq reviewed', quoteNow <= quoteNow',
           quoteNow \in Nat, quoteNow' \in Nat
    PROVE  WasShown(q)'
  BY DEF WasShown

LEMMA ForwardedStays ==
    ASSUME ExecutedAsReviewed, reviewed \subseteq reviewed', forwarded' = forwarded
    PROVE  ExecutedAsReviewed'
  BY DEF ExecutedAsReviewed

LEMMA QuotesStep == QuotesInv /\ [QuotesNext]_quoteVars => QuotesInv'
<1> SUFFICES ASSUME QuotesInv, [QuotesNext]_quoteVars PROVE QuotesInv'
  OBVIOUS
<1> USE DEF QuotesInv
<1>1. CASE UNCHANGED quoteVars
  BY <1>1 DEF quoteVars, WasShown, ExecutedAsReviewed
<1>2. CASE QuoteTick
  <2>1. quoteNow' \in Nat /\ quoteNow <= quoteNow'
    BY <1>2 DEF QuoteTick
  <2> QED
    BY <1>2, <2>1, ShownStays, ForwardedStays DEF QuoteTick
<1>3. ASSUME NEW c \in QuoteCalls, NEW k \in QuoteKids, NEW i \in Intents, NEW r \in Routers,
             StartPreview(c, k, i, r)
      PROVE  QuotesInv'
  <2>1. /\ DOMAIN previews' = QuoteCalls
        /\ \A d \in QuoteCalls : previews'[d].now \in Nat /\ previews'[d].now <= quoteNow
    BY <1>3 DEF StartPreview
  <2> QED
    BY <1>3, <2>1, ShownStays, ForwardedStays DEF StartPreview
<1>4. ASSUME NEW c \in QuoteCalls, FinishPreview(c) PROVE QuotesInv'
  <2> DEFINE p == previews[c]
  <2>1. PICK shown : shown = [kid |-> p.kid, intent |-> p.intent, router |-> p.router, at |-> p.now]
    OBVIOUS
  <2>2. PICK fresh : fresh = [kid |-> p.kid, sequence |-> nextQuote, intent |-> p.intent,
                              router |-> p.router, expires |-> p.now + QuoteTtl]
    OBVIOUS
  <2>3. reviewed' = reviewed \cup {shown} /\ quoteNow' = quoteNow
    BY <1>4, <2>1 DEF FinishPreview
  <2>4. WasShown(fresh)'
    BY <2>1, <2>2, <2>3 DEF WasShown
  <2>5. quotes' \subseteq quotes \cup {fresh}
    BY <1>4, <2>2 DEF FinishPreview, Insert, EvictAny, EvictFor, Unexpired
  <2>6. \A q \in quotes' : WasShown(q)'
    BY <2>3, <2>4, <2>5, ShownStays
  <2>7. /\ DOMAIN previews' = QuoteCalls
        /\ \A d \in QuoteCalls : previews'[d].now \in Nat /\ previews'[d].now <= quoteNow
    BY <1>4 DEF FinishPreview, NoPreview
  <2> QED
    BY <1>4, <2>3, <2>6, <2>7, ForwardedStays DEF FinishPreview
<1>5. ASSUME NEW c \in QuoteCalls, DropPreview(c) PROVE QuotesInv'
  <2>1. /\ DOMAIN previews' = QuoteCalls
        /\ \A d \in QuoteCalls : previews'[d].now \in Nat /\ previews'[d].now <= quoteNow
    BY <1>5 DEF DropPreview, NoPreview
  <2> QED
    BY <1>5, <2>1, ShownStays, ForwardedStays DEF DropPreview
<1>6. ASSUME NEW k \in QuoteKids, NEW id \in 0..MaxQuoteIds - 1, NEW r \in Routers,
             ExecuteQuote(k, id, r)
      PROVE  QuotesInv'
  <2>1. \A q \in quotes' : q \in quotes
    BY <1>6 DEF ExecuteQuote, Unexpired
  <2>2. ASSUME NEW f \in forwarded' \ forwarded
        PROVE  \E s \in reviewed : /\ s.kid = f.kid /\ s.intent = f.intent /\ s.router = f.router
                                   /\ s.at <= f.at /\ f.at < s.at + QuoteTtl
    <3>1. PICK q \in quotes : /\ q.expires > quoteNow /\ q.kid = k /\ q.router = r
                              /\ f = [kid |-> k, intent |-> q.intent, router |-> r, at |-> quoteNow]
      BY <1>6, <2>2 DEF ExecuteQuote, Get, Unexpired
    <3>2. WasShown(q)
      OBVIOUS
    <3> QED
      BY <3>1, <3>2 DEF WasShown
  <2>3. ExecutedAsReviewed'
    BY <1>6, <2>2 DEF ExecuteQuote, ExecutedAsReviewed
  <2> QED
    BY <1>6, <2>1, <2>3, ShownStays DEF ExecuteQuote
<1> QED
  BY <1>1, <1>2, <1>3, <1>4, <1>5, <1>6 DEF QuotesNext

\* A session executes only what it reviewed, while it lives (web_integration.rs:254), for any
\* sessions, limits and life time.
THEOREM QuotesAsReviewed == QuotesSpec => []ExecutedAsReviewed
<1>1. QuotesInit => QuotesInv
  BY DEF QuotesInit, QuotesInv, ExecutedAsReviewed, NoPreview
<1>2. QuotesInv => ExecutedAsReviewed
  BY DEF QuotesInv
<1> QED
  BY <1>1, <1>2, QuotesStep, PTL DEF QuotesSpec

-----------------------------------------------------------------------------
\* TradeBackend.

\* The identity of a command says exactly what its terms are.
LEMMA IdentityIsTerms ==
    ASSUME NEW c, NEW d, c.router \in TradeRouters, d.router \in TradeRouters
    PROVE  Binding(c) = Binding(d) <=> TradeTerms(c) = TradeTerms(d)
  BY DEF Binding, DerivedIdentity, PreviewParts, TradeTerms, TradeRouters
\* What a call in progress is about, and what the answer of a reconcile was read from.
TradeCallOK(k) ==
    /\ trade[k].step \in {"proposing", "revalidating", "sending"} => trade[k].command \in TradeCommands
    /\ trade[k].step = "done" /\ "asked" \in DOMAIN trade[k] =>
         LET c == trade[k].command IN
         /\ c \in TradeCommands
         /\ trade[k].reply # "Unknown" => Binding(c) \in DOMAIN attempts[c.router]
         /\ trade[k].merged # "Unknown" =>
              \E r \in TradeRouters : Binding(c) \in DOMAIN attempts[r]

\* An attempt is kept under the identity of the command that made it, and was sent once.
AttemptsOwned ==
    \A r \in TradeRouters : \A id \in DOMAIN attempts[r] :
        /\ attempts[r][id] \in [status : {"Submitted", "Filled", "Failed"}, by : TradeCommands]
        /\ attempts[r][id].by.router = r /\ Binding(attempts[r][id].by) = id

TradeInv ==
    /\ DOMAIN trade = TradeCalls
    /\ DOMAIN attempts = TradeRouters /\ DOMAIN tradeSends = TradeRouters
    /\ \A k \in TradeCalls : TradeCallOK(k)
    /\ AttemptsOwned
    /\ \A r \in TradeRouters : \A id \in DOMAIN tradeSends[r] : tradeSends[r][id] = 1

LEMMA TradeInvHolds == TradeInv => TradeIdentityHolds
<1> SUFFICES ASSUME TradeInv PROVE TradeIdentityHolds
  OBVIOUS
<1>1. ASSUME NEW r \in TradeRouters, NEW id \in DOMAIN attempts[r], NEW c \in TradeCommands,
             id = Binding(c)
      PROVE  TradeTerms(attempts[r][id].by) = TradeTerms(c)
  BY <1>1, TradeAssumption, IdentityIsTerms DEF TradeInv, AttemptsOwned
<1>2. ReconcileFindsItsOwn
  <2> SUFFICES ASSUME NEW k \in TradeCalls, trade[k].step = "done", "asked" \in DOMAIN trade[k],
                      NEW c, c = trade[k].command
               PROVE  /\ trade[k].reply # "Unknown" =>
                           \E id \in DOMAIN attempts[c.router] :
                             TradeTerms(attempts[c.router][id].by) = TradeTerms(c)
                      /\ trade[k].merged # "Unknown" =>
                           \E r \in TradeRouters : \E id \in DOMAIN attempts[r] :
                             /\ id = Binding(c)
                             /\ TradeTerms(attempts[r][id].by) = TradeTerms(c)
    BY DEF ReconcileFindsItsOwn
  <2>1. /\ c \in TradeCommands
        /\ trade[k].reply # "Unknown" => Binding(c) \in DOMAIN attempts[c.router]
        /\ trade[k].merged # "Unknown" =>
             \E r \in TradeRouters : Binding(c) \in DOMAIN attempts[r]
    BY DEF TradeInv, TradeCallOK
  <2>2. c.router \in TradeRouters
    BY <2>1, TradeAssumption
  <2> QED
    BY <2>1, <2>2, <1>1
<1>3. SentOnce
  <2>1. ASSUME NEW r \in TradeRouters, NEW i \in DOMAIN attempts[r], NEW j \in DOMAIN attempts[r],
               TradeTerms(attempts[r][i].by) = TradeTerms(attempts[r][j].by)
        PROVE  i = j
    BY <2>1, IdentityIsTerms DEF TradeInv, AttemptsOwned
  <2> QED
    BY <2>1 DEF TradeInv, SentOnce
<1> QED
  BY <1>2, <1>3 DEF TradeIdentityHolds

\* A step that leaves the attempts alone changes one call.
LEMMA TradeCallChanges ==
    ASSUME TradeInv, NEW k \in TradeCalls, NEW value,
           trade' = [trade EXCEPT ![k] = value], UNCHANGED <<attempts, tradeSends>>,
           TradeCallOK(k)'
    PROVE  TradeInv'
<1>1. ASSUME NEW d \in TradeCalls PROVE TradeCallOK(d)'
  <2>1. CASE d = k
    BY <2>1
  <2>2. CASE d # k
    <3>1. trade'[d] = trade[d]
      BY <2>2 DEF TradeInv
    <3> QED
      BY <3>1 DEF TradeInv, TradeCallOK
  <2> QED
    BY <2>1, <2>2
<1> QED
  BY <1>1 DEF TradeInv, AttemptsOwned

\* Attempts are added and decided, never renamed or dropped.
LEMMA TradeCallStays ==
    ASSUME NEW k, TradeCallOK(k), trade'[k] = trade[k],
           \A r \in TradeRouters : DOMAIN attempts[r] \subseteq DOMAIN attempts'[r]
    PROVE  TradeCallOK(k)'
<1>1. trade[k].command \in TradeCommands => trade[k].command.router \in TradeRouters
  BY TradeAssumption
<1> QED
  BY <1>1 DEF TradeCallOK

LEMMA TradeStep ==
    ASSUME NEW CONSTANT facts
    PROVE  TradeInv /\ [TradeNext(facts)]_tradeVars => TradeInv'
<1> SUFFICES ASSUME TradeInv, [TradeNext(facts)]_tradeVars PROVE TradeInv'
  OBVIOUS
<1>0. ASSUME NEW k \in TradeCalls, NEW reply,
             trade' = [trade EXCEPT ![k] = Replied(reply)], UNCHANGED <<attempts, tradeSends>>
      PROVE  TradeInv'
  <2>1. trade'[k] = Replied(reply)
    BY <1>0 DEF TradeInv
  <2>2. TradeCallOK(k)'
    BY <2>1 DEF TradeCallOK, Replied
  <2> QED
    BY <1>0, <2>2, TradeCallChanges
<1>1. ASSUME NEW k \in TradeCalls, NEW step \in {"proposing", "revalidating", "sending"},
             NEW c \in TradeCommands,
             trade' = [trade EXCEPT ![k] = Stepped(step, c)], UNCHANGED <<attempts, tradeSends>>
      PROVE  TradeInv'
  <2>1. trade'[k] = Stepped(step, c)
    BY <1>1 DEF TradeInv
  <2>2. TradeCallOK(k)'
    BY <2>1 DEF TradeCallOK, Stepped
  <2> QED
    BY <1>1, <2>2, TradeCallChanges
<1>2. CASE UNCHANGED tradeVars
  BY <1>2 DEF tradeVars, TradeInv, TradeCallOK, AttemptsOwned
<1>3. CASE MarketMoves
  BY <1>3 DEF MarketMoves, TradeInv, TradeCallOK, AttemptsOwned
<1>4. ASSUME NEW k \in TradeCalls, NEW c \in TradeCommands, NEW f \in facts,
             QuoteRead(k, c, f) \/ PreviewMarketOrder(k, c, f)
      PROVE  TradeInv'
  BY <1>0, <1>4 DEF QuoteRead, PreviewMarketOrder, SetCall
<1>5. ASSUME NEW k \in TradeCalls, NEW c \in TradeCommands, NEW f \in facts,
             ExecuteMarketOrder(k, c, f)
      PROVE  TradeInv'
  BY <1>0, <1>1, <1>5 DEF ExecuteMarketOrder, SetCall
<1>6. ASSUME NEW k \in TradeCalls, NEW p \in {"Unavailable", "Rejected", "Unverified", "Verified"},
             OkxProposed(k, p)
      PROVE  TradeInv'
  <2>1. trade[k].command \in TradeCommands
    BY <1>6 DEF OkxProposed, TradeInv, TradeCallOK
  <2> QED
    BY <1>0, <1>1, <1>6, <2>1 DEF OkxProposed, SetCall
<1>7. ASSUME NEW k \in TradeCalls, OkxRevalidate(k) PROVE TradeInv'
  <2>1. trade[k].command \in TradeCommands
    BY <1>7 DEF OkxRevalidate, TradeInv, TradeCallOK
  <2> QED
    BY <1>0, <1>1, <1>7, <2>1 DEF OkxRevalidate, SetCall
<1>8. ASSUME NEW k \in TradeCalls, HandBack(k) PROVE TradeInv'
  <2>1. trade'[k] = Resting
    BY <1>8 DEF HandBack, SetCall, TradeInv
  <2>2. TradeCallOK(k)'
    BY <2>1 DEF TradeCallOK, Resting
  <2> QED
    BY <1>8, <2>2, TradeCallChanges DEF HandBack, SetCall
<1>9. ASSUME NEW k \in TradeCalls, NEW c \in TradeCommands, ReconcileMarketOrder(k, c) PROVE TradeInv'
  <2>1. CASE PreviewDenied(c)
    BY <1>0, <1>9, <2>1 DEF ReconcileMarketOrder, SetCall
  <2>2. CASE ~PreviewDenied(c)
    <3> DEFINE answer == [step |-> "done", command |-> c, asked |-> TRUE,
                          reply |-> PortReconcile(c.router, Binding(c)),
                          merged |-> ReconcileAny(Binding(c))]
    <3>1. trade' = [trade EXCEPT ![k] = answer] /\ UNCHANGED <<attempts, tradeSends>>
      BY <1>9, <2>2 DEF ReconcileMarketOrder, SetCall
    <3>2. \A r : PortReconcile(r, Binding(c)) # "Unknown" => Binding(c) \in DOMAIN attempts[r]
      BY DEF PortReconcile
    <3>3. ReconcileAny(Binding(c)) # "Unknown" =>
            \E r \in TradeRouters : Binding(c) \in DOMAIN attempts[r]
      BY <3>2 DEF ReconcileAny, TradeRouters
    <3>4. trade'[k] = answer
      BY <3>1 DEF TradeInv
    <3>5. TradeCallOK(k)'
      <4>1. /\ trade'[k].step = "done" /\ trade'[k].command = c
            /\ trade'[k].reply = PortReconcile(c.router, Binding(c))
            /\ trade'[k].merged = ReconcileAny(Binding(c))
        BY <3>4
      <4> HIDE DEF answer
      <4> QED
        BY <4>1, <3>1, <3>2, <3>3 DEF TradeCallOK
    <3> QED
      BY <3>1, <3>5, TradeCallChanges
  <2> QED
    BY <2>1, <2>2
<1>10. ASSUME NEW k \in TradeCalls, Send(k) PROVE TradeInv'
  <2> DEFINE c == trade[k].command
             r == c.router
             id == Binding(c)
  <2>1. c \in TradeCommands /\ r \in TradeRouters
    BY <1>10, TradeAssumption DEF Send, TradeInv, TradeCallOK
  <2>2. CASE id \in DOMAIN attempts[r]
    BY <1>0, <1>10, <2>2 DEF Send, SetCall
  <2>3. CASE id \notin DOMAIN attempts[r]
    <3>1. /\ attempts' = [attempts EXCEPT ![r] =
                            WithEntry(attempts[r], id, [status |-> "Submitted", by |-> c])]
          /\ tradeSends' = [tradeSends EXCEPT ![r] = WithEntry(tradeSends[r], id, 1)]
          /\ trade' = [trade EXCEPT ![k] = Replied("Submitted")]
      BY <1>10, <2>3 DEF Send, SetCall
    <3> HIDE DEF c, r, id
    <3>2. /\ DOMAIN attempts' = TradeRouters /\ DOMAIN tradeSends' = TradeRouters
          /\ DOMAIN trade' = TradeCalls
      BY <3>1 DEF TradeInv
    <3>3. /\ DOMAIN attempts'[r] = DOMAIN attempts[r] \cup {id}
          /\ attempts'[r][id] = [status |-> "Submitted", by |-> c]
          /\ \A i \in DOMAIN attempts[r] : i # id => attempts'[r][i] = attempts[r][i]
          /\ \A s \in TradeRouters : s # r => attempts'[s] = attempts[s]
      BY <3>1, <2>1 DEF TradeInv, WithEntry
    <3>4. AttemptsOwned'
      <4>1. r = c.router /\ id = Binding(c)
        BY DEF r, id
      <4>2. ASSUME NEW s \in TradeRouters, NEW i \in DOMAIN attempts'[s]
            PROVE  /\ attempts'[s][i] \in [status : {"Submitted", "Filled", "Failed"},
                                           by : TradeCommands]
                   /\ attempts'[s][i].by.router = s /\ Binding(attempts'[s][i].by) = i
        <5>1. CASE s = r /\ i = id
          BY <5>1, <4>1, <3>3, <2>1
        <5>2. CASE s # r \/ i # id
          <6>1. i \in DOMAIN attempts[s] /\ attempts'[s][i] = attempts[s][i]
            BY <5>2, <4>2, <3>3
          <6> QED
            BY <6>1 DEF TradeInv, AttemptsOwned
        <5> QED
          BY <5>1, <5>2
      <4> QED
        BY <4>2 DEF AttemptsOwned
    <3>5. \A s \in TradeRouters : \A i \in DOMAIN tradeSends'[s] : tradeSends'[s][i] = 1
      BY <3>1, <2>1 DEF TradeInv, WithEntry
    <3>6. ASSUME NEW d \in TradeCalls PROVE TradeCallOK(d)'
      <4>1. CASE d = k
        <5>1. trade'[d] = Replied("Submitted")
          BY <4>1, <3>1 DEF TradeInv
        <5> QED
          BY <5>1 DEF TradeCallOK, Replied
      <4>2. CASE d # k
        <5>1. trade'[d] = trade[d] /\ TradeCallOK(d)
          BY <4>2, <3>1 DEF TradeInv
        <5>2. \A s \in TradeRouters : DOMAIN attempts[s] \subseteq DOMAIN attempts'[s]
          BY <3>3
        <5> QED
          BY <5>1, <5>2, TradeCallStays
      <4> QED
        BY <4>1, <4>2
    <3> QED
      BY <3>2, <3>4, <3>5, <3>6 DEF TradeInv
  <2> QED
    BY <2>2, <2>3
<1>11. ASSUME NEW r \in TradeRouters, NEW id \in DOMAIN attempts[r], NEW o \in {"Filled", "Failed"},
              AttemptDecided(r, id, o)
       PROVE  TradeInv'
  <2>1. attempts' = [attempts EXCEPT ![r][id].status = o] /\ UNCHANGED <<trade, tradeSends>>
    BY <1>11 DEF AttemptDecided
  <2>2. /\ DOMAIN attempts' = TradeRouters
        /\ \A s \in TradeRouters : DOMAIN attempts'[s] = DOMAIN attempts[s]
        /\ \A s \in TradeRouters : \A i \in DOMAIN attempts[s] :
             /\ attempts'[s][i].by = attempts[s][i].by
             /\ attempts'[s][i] \in [status : {"Submitted", "Filled", "Failed"}, by : TradeCommands]
    BY <2>1 DEF TradeInv, AttemptsOwned
  <2>3. AttemptsOwned'
    BY <2>2 DEF TradeInv, AttemptsOwned
  <2>4. \A k \in TradeCalls : TradeCallOK(k)'
    BY <2>1, <2>2, TradeCallStays DEF TradeInv
  <2> QED
    BY <2>1, <2>2, <2>3, <2>4 DEF TradeInv
<1> QED
  BY <1>2, <1>3, <1>4, <1>5, <1>6, <1>7, <1>8, <1>9, <1>10, <1>11 DEF TradeNext

\* Identity parity (trade.rs:293-421): for any commands, calls and answers of the sources, a
\* reconcile learns only of an attempt with the terms it names, and an order is sent once.
THEOREM TradeIdentity ==
    ASSUME NEW CONSTANT facts
    PROVE  TradeSpec(facts) => []TradeIdentityHolds
<1>1. TradeInit => TradeInv
  BY DEF TradeInit, TradeInv, TradeCallOK, AttemptsOwned, Resting
<1> QED
  BY <1>1, TradeStep, TradeInvHolds, PTL DEF TradeSpec

\* The three parts of a market order together: the dispatcher's quotes, the registry of attempts
\* and the trade backend keep it as it was reviewed, tracked and sent once, unless the relay's
\* store fails under a reconcile.
THEOREM TradesKept ==
    ASSUME NEW CONSTANT facts, ~ReconcileFaults
    PROVE  QuotesSpec /\ AttemptsSpec /\ TradeSpec(facts) => []TradesAreKept
<1>1. ExecutedAsReviewed /\ TrackedUntilDecided /\ TradeIdentityHolds => TradesAreKept
  BY DEF TradesAreKept
<1> QED
  BY <1>1, QuotesAsReviewed, SentOrdersTracked, TradeIdentity, PTL

-----------------------------------------------------------------------------
\* AuditTrail.

Ciphers == [kid : Kids, stream : Streams, seq : Nat, event : AuditEvents]

AppendStates ==
    {AuditIdle} \cup [step : {"inserting"}, event : AuditEvents, stream : Streams, cipher : Ciphers]

\* What the tables hold: as many rows as events were sealed, each a ciphertext that was sealed
\* for a position of its own stream, with the event of that position.
TableOK ==
    /\ rows \in [Streams -> Seq(Ciphers)]
    /\ sealed \in [Streams -> Seq(AuditEvents)]
    /\ \A s \in Streams : Len(rows[s]) = Len(sealed[s])
    /\ \A s \in Streams : \A n \in 1..Len(sealed[s]) :
         sealed[s][n].seq = n /\ EventValid(sealed[s][n])
    /\ \A s \in Streams : \A n \in 1..Len(sealed[s]) :
         LET c == rows[s][n] IN
         c.stream = s /\ c.seq \in 1..Len(sealed[s]) /\ c.event = sealed[s][c.seq]

\* What a writer is about to insert is valid and at most one ahead of the table.
WritersOK ==
    /\ append \in [AuditWriters -> AppendStates]
    /\ \A w \in AuditWriters : append[w].step = "inserting" =>
         LET a == append[w] IN
         /\ EventValid(a.event) /\ a.event.seq \in 1..Len(sealed[a.stream]) + 1
         /\ a.cipher.stream = a.stream /\ a.cipher.seq = a.event.seq
         /\ a.cipher.event = a.event

AckedOK ==
    \A p \in acked :
        /\ p \in Streams \X AuditEvents
        /\ p[2].seq \in 1..Len(sealed[p[1]]) /\ sealed[p[1]][p[2].seq] = p[2]

\* What a replay has read is a prefix of what was sealed.
ReplayStates ==
    [step : {"reading", "done", "failed"}, lookup : AuditLookups, stream : Streams, expected : Nat,
     events : Seq(AuditEvents), floor : SUBSET Nat]

ReplayOK ==
    \/ replay = [step |-> "none"]
    \/ /\ replay \in ReplayStates
       /\ Len(replay.events) <= Len(sealed[replay.stream])
       /\ \A i \in 1..Len(replay.events) : replay.events[i] = sealed[replay.stream][i]
       /\ replay.floor \subseteq 1..Len(sealed[replay.stream])
       /\ replay.step = "reading" => replay.expected = Len(replay.events) + 1
       /\ replay.step = "done" => replay.floor \subseteq 1..Len(replay.events)

AuditInv ==
    /\ TableOK
    /\ WritersOK
    /\ AckedOK
    /\ ReplayOK
    /\ kidIndex \in 1..Len(AuditKids)

\* The key in use and the stream of an intent.
LEMMA AuditStreams ==
    /\ 1 \in 1..Len(AuditKids)
    /\ \A n \in 1..Len(AuditKids) : AuditKids[n] \in Kids
    /\ \A k \in Kids, i \in AuditIntents : StreamOf(k, i) \in Streams
    /\ \A e \in AuditEvents : e.intent \in AuditIntents
    /\ \A l \in AuditLookups : l.intent \in AuditIntents
<1> DEFINE K == {AuditKids[i] : i \in DOMAIN AuditKids}
<1>1. K = Kids
  BY DEF Kids
<1>2. AuditKids \in Seq(K) /\ AuditKids # <<>>
  BY AuditAssumption
<1> HIDE DEF K
<1>3. /\ 1 \in 1..Len(AuditKids)
      /\ \A n \in 1..Len(AuditKids) : AuditKids[n] \in K
  BY <1>2
<1> QED
  BY <1>1, <1>3 DEF StreamOf, Streams, AuditIntents

\* A row after the last one is an append to the stream.
LEMMA AuditAppended ==
    ASSUME NEW S, NEW f \in Seq(S), NEW x \in S
    PROVE  WithRow(f, Len(f) + 1, x) = Append(f, x)
<1>1. Len(f) \in Nat /\ DOMAIN f = 1..Len(f)
  OBVIOUS
<1>2. DOMAIN f \cup {Len(f) + 1} = 1..(Len(f) + 1)
  BY <1>1
<1>3. WithRow(f, Len(f) + 1, x) = [n \in 1..(Len(f) + 1) |-> IF n = Len(f) + 1 THEN x ELSE f[n]]
  BY <1>2 DEF WithRow
<1> QED
  BY <1>1, <1>3

\* What read_events returns of a table of L rows.
BatchOf(L, from) ==
    {n \in 1..L : n >= from /\ Cardinality({m \in 1..L : m >= from /\ m < n}) < ReplayBatch}

\* A batch that is not full reaches the end of the table.
LEMMA AuditBatch ==
    ASSUME NEW L \in Nat, NEW from \in Nat \ {0}
    PROVE  /\ BatchOf(L, from) \subseteq from..L
           /\ IsFiniteSet(BatchOf(L, from)) /\ Cardinality(BatchOf(L, from)) \in Nat
           /\ Cardinality(BatchOf(L, from)) < ReplayBatch => BatchOf(L, from) = from..L
<1> DEFINE batch == BatchOf(L, from)
<1>0. batch = {n \in 1..L :
                n >= from /\ Cardinality({m \in 1..L : m >= from /\ m < n}) < ReplayBatch}
  BY DEF BatchOf
<1> HIDE DEF batch
<1> USE AuditAssumption
<1>1. ASSUME NEW n \in from..L
      PROVE  Cardinality({m \in 1..L : m >= from /\ m < n}) = n - from
  <2>1. {m \in 1..L : m >= from /\ m < n} = from..(n - 1)
    <3>1. ASSUME NEW m PROVE m \in 1..L /\ m >= from /\ m < n <=> m \in from..(n - 1)
      OBVIOUS
    <3> QED
      BY ONLY <3>1
  <2>2. Cardinality(from..(n - 1)) = IF from > n - 1 THEN 0 ELSE n - 1 - from + 1
    <3>1. from \in Int /\ n - 1 \in Int
      OBVIOUS
    <3> QED
      BY ONLY <3>1, FS_Interval
  <2>3. (IF from > n - 1 THEN 0 ELSE n - 1 - from + 1) = n - from
    OBVIOUS
  <2> HIDE AuditAssumption
  <2> QED
    BY ONLY <2>1, <2>2, <2>3, Zenon
<1>2. batch = {n \in from..L : n - from < ReplayBatch}
  <2>1. ASSUME NEW n PROVE n \in batch <=> n \in from..L /\ n - from < ReplayBatch
    <3>1. n \in batch <=> /\ n \in 1..L /\ n >= from
                          /\ Cardinality({m \in 1..L : m >= from /\ m < n}) < ReplayBatch
      BY <1>0
    <3>2. n \in 1..L /\ n >= from <=> n \in from..L
      OBVIOUS
    <3> QED
      BY <3>1, <3>2, <1>1
  <2> QED
    BY <2>1
<1>3. batch \subseteq from..L
  BY <1>2
<1>4. IsFiniteSet(from..L)
  <2>1. from \in Int /\ L \in Int
    OBVIOUS
  <2> QED
    BY <2>1, FS_Interval
<1>5. IsFiniteSet(batch) /\ Cardinality(batch) \in Nat
  BY <1>3, <1>4, FS_Subset, FS_CardinalityType
<1>6. ASSUME Cardinality(batch) < ReplayBatch PROVE batch = from..L
  <2>1. CASE L < from + ReplayBatch
    BY <2>1, <1>2
  <2>2. CASE L >= from + ReplayBatch
    <3> DEFINE part == from..(from + ReplayBatch - 1)
    <3>1. batch = part
      <4>1. ASSUME NEW n PROVE n \in from..L /\ n - from < ReplayBatch <=> n \in part
        BY <2>2
      <4> HIDE DEF part
      <4> QED
        BY <1>2, <4>1
    <3>2. Cardinality(part) = IF from > from + ReplayBatch - 1 THEN 0
                              ELSE from + ReplayBatch - 1 - from + 1
      <4>1. from \in Int /\ from + ReplayBatch - 1 \in Int
        OBVIOUS
      <4> QED
        BY <4>1, FS_Interval
    <3>3. Cardinality(part) = ReplayBatch
      BY <3>2
    <3>4. Cardinality(batch) = ReplayBatch
      BY ONLY <3>1, <3>3
    <3> QED
      BY ONLY <3>4, <1>6, AuditAssumption
  <2> QED
    BY <2>1, <2>2
<1> QED
  BY <1>3, <1>5, <1>6 DEF batch

LEMMA AuditInitially == AuditInit => AuditInv
<1> SUFFICES ASSUME AuditInit PROVE AuditInv
  OBVIOUS
<1>1. TableOK
  <2>1. \A s \in Streams : rows[s] = <<>> /\ sealed[s] = <<>>
    BY DEF AuditInit
  <2>2. rows \in [Streams -> Seq(Ciphers)] /\ sealed \in [Streams -> Seq(AuditEvents)]
    BY DEF AuditInit
  <2> QED
    BY <2>1, <2>2 DEF TableOK
<1>2. WritersOK
  BY DEF WritersOK, AuditInit, AppendStates, AuditIdle
<1>3. AckedOK /\ ReplayOK
  BY DEF AckedOK, ReplayOK, AuditInit
<1> QED
  BY <1>1, <1>2, <1>3, AuditStreams DEF AuditInv, AuditInit

\* A sequence number the table does not have and a writer may hold is the next one.
LEMMA AuditNextRow ==
    ASSUME TableOK, NEW s \in Streams
    PROVE  /\ rows[s] \in Seq(Ciphers) /\ sealed[s] \in Seq(AuditEvents)
           /\ DOMAIN rows[s] = 1..Len(sealed[s]) /\ DOMAIN sealed[s] = 1..Len(sealed[s])
           /\ Len(sealed[s]) \in Nat /\ MaxSeq(s) = Len(sealed[s])
<1>1. /\ rows[s] \in Seq(Ciphers) /\ sealed[s] \in Seq(AuditEvents)
      /\ Len(rows[s]) = Len(sealed[s])
  BY DEF TableOK
<1>2. /\ DOMAIN rows[s] = 1..Len(sealed[s]) /\ DOMAIN sealed[s] = 1..Len(sealed[s])
      /\ Len(sealed[s]) \in Nat
  BY <1>1
<1>3. Cardinality(1..Len(sealed[s])) = IF 1 > Len(sealed[s]) THEN 0 ELSE Len(sealed[s]) - 1 + 1
  <2>1. 1 \in Int /\ Len(sealed[s]) \in Int
    BY <1>2
  <2> QED
    BY ONLY <2>1, FS_Interval
<1>4. MaxSeq(s) = Cardinality(1..Len(sealed[s]))
  BY <1>2 DEF MaxSeq
<1> QED
  BY <1>1, <1>2, <1>3, <1>4

LEMMA AuditAppendEvent ==
    ASSUME AuditInv, NEW w \in AuditWriters, NEW e \in AuditEvents, AppendEvent(w, e)
    PROVE  AuditInv'
<1> DEFINE kid == AuditKids[kidIndex]
           stream == StreamOf(kid, e.intent)
           a == [step |-> "inserting", event |-> e, stream |-> stream,
                 cipher |-> SealAtRest(kid, stream, e.seq, e)]
<1>1. /\ kid \in Kids /\ stream \in Streams
  BY AuditStreams DEF AuditInv
<1>2. /\ EventValid(e) /\ e.seq = MaxSeq(stream) + 1 /\ append' = [append EXCEPT ![w] = a]
      /\ UNCHANGED <<rows, highWater, kidIndex, replay, acked, sealed, tampered>>
  BY DEF AppendEvent, GatePasses, Write
<1> HIDE DEF stream, kid
<1>3. MaxSeq(stream) = Len(sealed[stream]) /\ Len(sealed[stream]) \in Nat
  BY <1>1, AuditNextRow DEF AuditInv
<1>4. e.seq \in Nat /\ e.seq \in 1..Len(sealed[stream]) + 1
  BY <1>2, <1>3
<1>5. SealAtRest(kid, stream, e.seq, e) \in Ciphers
  BY <1>1, <1>4 DEF SealAtRest, Ciphers
<1>6. a \in AppendStates
  BY <1>1, <1>5 DEF AppendStates
<1>7. /\ a.step = "inserting" /\ a.event = e /\ a.stream = stream
      /\ a.cipher.stream = stream /\ a.cipher.seq = e.seq /\ a.cipher.event = e
  BY DEF SealAtRest
<1> HIDE DEF a
<1>8. WritersOK'
  <2>1. append' \in [AuditWriters -> AppendStates]
    BY <1>2, <1>6 DEF AuditInv, WritersOK
  <2>2. ASSUME NEW v \in AuditWriters, append'[v].step = "inserting"
        PROVE  LET b == append'[v] IN
               /\ EventValid(b.event) /\ b.event.seq \in 1..Len(sealed[b.stream]) + 1
               /\ b.cipher.stream = b.stream /\ b.cipher.seq = b.event.seq
               /\ b.cipher.event = b.event
    <3>1. CASE v = w
      <4>1. append'[v] = a
        BY <3>1, <1>2 DEF AuditInv, WritersOK
      <4> QED
        BY <4>1, <1>2, <1>4, <1>7
    <3>2. CASE v # w
      <4>1. append'[v] = append[v]
        BY <3>2, <1>2 DEF AuditInv, WritersOK
      <4> QED
        BY <4>1, <2>2 DEF AuditInv, WritersOK
    <3> QED
      BY <3>1, <3>2
  <2>3. sealed' = sealed
    BY <1>2
  <2> QED
    BY <2>1, <2>2, <2>3 DEF WritersOK
<1>9. TableOK' /\ AckedOK' /\ ReplayOK'
  BY <1>2 DEF AuditInv, TableOK, AckedOK, ReplayOK
<1> QED
  BY <1>2, <1>8, <1>9 DEF AuditInv

\* What is said of a table stays true when it grows.
LEMMA AuditGrows ==
    ASSUME AuditInv, sealed' \in [Streams -> Seq(AuditEvents)],
           \A s \in Streams : Len(sealed[s]) <= Len(sealed'[s]),
           \A s \in Streams : \A n \in 1..Len(sealed[s]) : sealed'[s][n] = sealed[s][n]
    PROVE  /\ \A p \in acked :
                /\ p \in Streams \X AuditEvents
                /\ p[2].seq \in 1..Len(sealed'[p[1]]) /\ sealed'[p[1]][p[2].seq] = p[2]
           /\ replay' = replay => ReplayOK'
<1>1. \A s \in Streams : Len(sealed[s]) \in Nat /\ Len(sealed'[s]) \in Nat
  BY DEF AuditInv, TableOK
<1>2. ASSUME NEW p \in acked
      PROVE  /\ p \in Streams \X AuditEvents
             /\ p[2].seq \in 1..Len(sealed'[p[1]]) /\ sealed'[p[1]][p[2].seq] = p[2]
  <2>1. /\ p \in Streams \X AuditEvents
        /\ p[2].seq \in 1..Len(sealed[p[1]]) /\ sealed[p[1]][p[2].seq] = p[2]
    BY DEF AuditInv, AckedOK
  <2>2. p[1] \in Streams
    BY <2>1
  <2> QED
    BY <2>1, <2>2, <1>1
<1>3. ASSUME replay' = replay PROVE ReplayOK'
  <2>1. CASE replay = [step |-> "none"]
    BY <2>1, <1>3 DEF ReplayOK
  <2>2. CASE replay # [step |-> "none"]
    <3>1. /\ replay \in ReplayStates
          /\ Len(replay.events) <= Len(sealed[replay.stream])
          /\ \A i \in 1..Len(replay.events) : replay.events[i] = sealed[replay.stream][i]
          /\ replay.floor \subseteq 1..Len(sealed[replay.stream])
          /\ replay.step = "reading" => replay.expected = Len(replay.events) + 1
          /\ replay.step = "done" => replay.floor \subseteq 1..Len(replay.events)
      BY <2>2 DEF AuditInv, ReplayOK
    <3>2. replay.stream \in Streams /\ Len(replay.events) \in Nat
      BY <3>1 DEF ReplayStates
    <3>3. /\ Len(replay.events) <= Len(sealed'[replay.stream])
          /\ \A i \in 1..Len(replay.events) : replay.events[i] = sealed'[replay.stream][i]
          /\ replay.floor \subseteq 1..Len(sealed'[replay.stream])
      BY <3>1, <3>2, <1>1
    <3> QED
      BY <3>1, <3>3, <1>3 DEF ReplayOK
  <2> QED
    BY <2>1, <2>2
<1> QED
  BY <1>2, <1>3

LEMMA AuditAppendInsert ==
    ASSUME AuditInv, NEW w \in AuditWriters, NEW lost \in BOOLEAN, AppendInsert(w, lost)
    PROVE  AuditInv'
<1> DEFINE a == append[w]
           s == a.stream
           seq == a.event.seq
           fresh == seq \notin DOMAIN rows[s]
<1>1. /\ a.step = "inserting" /\ append' = [append EXCEPT ![w] = AuditIdle]
      /\ rows' = IF fresh THEN [rows EXCEPT ![s] = WithRow(@, seq, a.cipher)] ELSE rows
      /\ sealed' = IF fresh THEN [sealed EXCEPT ![s] = WithRow(@, seq, a.event)] ELSE sealed
      /\ IF fresh /\ ~lost THEN acked' = acked \cup {<<s, a.event>>} ELSE acked' = acked
      /\ kidIndex' = kidIndex /\ replay' = replay
  BY DEF AppendInsert, Write
<1>2. /\ a \in AppendStates /\ EventValid(a.event)
      /\ seq \in 1..Len(sealed[s]) + 1
      /\ a.cipher.stream = s /\ a.cipher.seq = seq /\ a.cipher.event = a.event
  BY <1>1 DEF AuditInv, WritersOK
<1>3. s \in Streams /\ a.event \in AuditEvents /\ a.cipher \in Ciphers
  BY <1>1, <1>2 DEF AppendStates, AuditIdle
<1>4. /\ rows[s] \in Seq(Ciphers) /\ sealed[s] \in Seq(AuditEvents)
      /\ DOMAIN rows[s] = 1..Len(sealed[s]) /\ Len(sealed[s]) \in Nat
      /\ Len(rows[s]) = Len(sealed[s])
  BY <1>3, AuditNextRow DEF AuditInv, TableOK
<1>5. /\ rows \in [Streams -> Seq(Ciphers)] /\ sealed \in [Streams -> Seq(AuditEvents)]
  BY DEF AuditInv, TableOK
<1>6. append' \in [AuditWriters -> AppendStates] /\ append'[w] = AuditIdle
      /\ \A v \in AuditWriters : v # w => append'[v] = append[v]
  BY <1>1 DEF AuditInv, WritersOK, AppendStates
<1> HIDE DEF a
<1>7. CASE ~fresh
  <2>1. UNCHANGED <<rows, sealed, acked, replay, kidIndex>>
    BY <1>1, <1>7
  <2>2. TableOK' /\ AckedOK' /\ ReplayOK'
    BY <2>1 DEF AuditInv, TableOK, AckedOK, ReplayOK
  <2>3. WritersOK'
    BY <2>1, <1>6 DEF AuditInv, WritersOK, AuditIdle
  <2> QED
    BY <2>1, <2>2, <2>3 DEF AuditInv
<1>8. CASE fresh
  <2>1. seq = Len(sealed[s]) + 1
    BY <1>8, <1>2, <1>4
  <2>2. /\ WithRow(rows[s], seq, a.cipher) = Append(rows[s], a.cipher)
        /\ WithRow(sealed[s], seq, a.event) = Append(sealed[s], a.event)
    <3>1. WithRow(rows[s], Len(rows[s]) + 1, a.cipher) = Append(rows[s], a.cipher)
      BY ONLY <1>3, <1>4, AuditAppended
    <3>2. WithRow(sealed[s], Len(sealed[s]) + 1, a.event) = Append(sealed[s], a.event)
      BY ONLY <1>3, <1>4, AuditAppended
    <3> QED
      BY ONLY <2>1, <3>1, <3>2, <1>4
  <2>3. /\ rows' = [rows EXCEPT ![s] = Append(rows[s], a.cipher)]
        /\ sealed' = [sealed EXCEPT ![s] = Append(sealed[s], a.event)]
    BY <1>1, <1>8, <2>2
  <2>4. /\ Append(rows[s], a.cipher) \in Seq(Ciphers)
        /\ Append(sealed[s], a.event) \in Seq(AuditEvents)
    BY <1>3, <1>4
  <2>5. /\ rows' \in [Streams -> Seq(Ciphers)] /\ sealed' \in [Streams -> Seq(AuditEvents)]
        /\ rows'[s] = Append(rows[s], a.cipher) /\ sealed'[s] = Append(sealed[s], a.event)
        /\ \A t \in Streams : t # s => rows'[t] = rows[t] /\ sealed'[t] = sealed[t]
    BY <2>3, <2>4, <1>3, <1>5
  <2>6. /\ Len(rows'[s]) = seq /\ Len(sealed'[s]) = seq
        /\ rows'[s][seq] = a.cipher /\ sealed'[s][seq] = a.event
        /\ \A n \in 1..Len(sealed[s]) : rows'[s][n] = rows[s][n] /\ sealed'[s][n] = sealed[s][n]
    BY <2>1, <2>5, <1>3, <1>4
  <2>7. \A t \in Streams : Len(sealed[t]) \in Nat /\ Len(sealed'[t]) \in Nat
    BY <1>5, <2>5
  <2>8. /\ \A t \in Streams : Len(sealed[t]) <= Len(sealed'[t])
        /\ \A t \in Streams : \A n \in 1..Len(sealed[t]) : sealed'[t][n] = sealed[t][n]
    <3>1. ASSUME NEW t \in Streams
          PROVE  /\ Len(sealed[t]) <= Len(sealed'[t])
                 /\ \A n \in 1..Len(sealed[t]) : sealed'[t][n] = sealed[t][n]
      <4>1. CASE t = s
        <5>1. Len(sealed[s]) <= Len(sealed'[s])
          BY ONLY <2>1, <2>6, <1>4
        <5> QED
          BY ONLY <4>1, <5>1, <2>6
      <4>2. CASE t # s
        BY <4>2, <2>5, <2>7
      <4> QED
        BY <4>1, <4>2
    <3> QED
      BY <3>1
  <2>9. TableOK'
    <3>1. ASSUME NEW t \in Streams
          PROVE  /\ Len(rows'[t]) = Len(sealed'[t])
                 /\ \A n \in 1..Len(sealed'[t]) :
                      sealed'[t][n].seq = n /\ EventValid(sealed'[t][n])
                 /\ \A n \in 1..Len(sealed'[t]) :
                      /\ rows'[t][n].stream = t /\ rows'[t][n].seq \in 1..Len(sealed'[t])
                      /\ rows'[t][n].event = sealed'[t][rows'[t][n].seq]
      <4>1. CASE t # s
        <5>1. rows'[t] = rows[t] /\ sealed'[t] = sealed[t]
          BY <4>1, <2>5
        <5> QED
          BY <5>1 DEF AuditInv, TableOK
      <4>2. CASE t = s
        <5>1. ASSUME NEW n \in 1..seq
              PROVE  /\ sealed'[s][n].seq = n /\ EventValid(sealed'[s][n])
                     /\ rows'[s][n].stream = s /\ rows'[s][n].seq \in 1..seq
                     /\ rows'[s][n].event = sealed'[s][rows'[s][n].seq]
          <6>1. CASE n = seq
            <7>1. sealed'[s][n] = a.event /\ rows'[s][n] = a.cipher
              BY <6>1, <2>6
            <7> QED
              BY <6>1, <7>1, <1>2, <2>1, <1>4, <2>6
          <6>2. CASE n # seq
            <7>1. n \in 1..Len(sealed[s])
              BY <6>2, <2>1, <1>4
            <7>2. rows'[s][n] = rows[s][n] /\ sealed'[s][n] = sealed[s][n]
              BY <7>1, <2>6
            <7>3. /\ sealed[s][n].seq = n /\ EventValid(sealed[s][n])
                  /\ rows[s][n].stream = s /\ rows[s][n].seq \in 1..Len(sealed[s])
                  /\ rows[s][n].event = sealed[s][rows[s][n].seq]
              BY <7>1, <1>3 DEF AuditInv, TableOK
            <7>4. rows[s][n].seq \in 1..seq
              BY <7>3, <2>1, <1>4
            <7> QED
              BY <7>2, <7>3, <7>4, <2>6
          <6> QED
            BY <6>1, <6>2
        <5> QED
          BY <4>2, <5>1, <2>6
      <4> QED
        BY <4>1, <4>2
    <3> QED
      BY <2>5, <3>1 DEF TableOK
  <2>10. WritersOK'
    <3>1. ASSUME NEW v \in AuditWriters, append'[v].step = "inserting"
          PROVE  LET b == append'[v] IN
                 /\ EventValid(b.event) /\ b.event.seq \in 1..Len(sealed'[b.stream]) + 1
                 /\ b.cipher.stream = b.stream /\ b.cipher.seq = b.event.seq
                 /\ b.cipher.event = b.event
      <4>1. v # w
        BY <3>1, <1>6 DEF AuditIdle
      <4>2. append'[v] = append[v]
        BY <4>1, <1>6
      <4>3. /\ EventValid(append[v].event)
            /\ append[v].event.seq \in 1..Len(sealed[append[v].stream]) + 1
            /\ append[v].cipher.stream = append[v].stream
            /\ append[v].cipher.seq = append[v].event.seq
            /\ append[v].cipher.event = append[v].event
            /\ append[v] \in AppendStates
        BY <3>1, <4>2 DEF AuditInv, WritersOK
      <4>4. append[v].stream \in Streams
        BY <3>1, <4>2, <4>3 DEF AppendStates, AuditIdle
      <4>5. append[v].event.seq \in 1..Len(sealed'[append[v].stream]) + 1
        BY <4>3, <4>4, <2>7, <2>8
      <4> QED
        BY <4>2, <4>3, <4>5
    <3> QED
      BY <3>1, <1>6 DEF WritersOK
  <2>11. /\ \A p \in acked :
             /\ p \in Streams \X AuditEvents
             /\ p[2].seq \in 1..Len(sealed'[p[1]]) /\ sealed'[p[1]][p[2].seq] = p[2]
         /\ replay' = replay => ReplayOK'
    BY <2>5, <2>8, AuditGrows
  <2>12. AckedOK'
    <3>1. acked' \subseteq acked \cup {<<s, a.event>>}
      BY <1>1
    <3>2. /\ <<s, a.event>> \in Streams \X AuditEvents
          /\ seq \in 1..Len(sealed'[s]) /\ sealed'[s][seq] = a.event
      BY <1>3, <1>4, <2>1, <2>6
    <3>3. ASSUME NEW p \in acked'
          PROVE  /\ p \in Streams \X AuditEvents
                 /\ p[2].seq \in 1..Len(sealed'[p[1]]) /\ sealed'[p[1]][p[2].seq] = p[2]
      <4>1. CASE p \in acked
        BY <4>1, <2>11
      <4>2. CASE p = <<s, a.event>>
        <5>1. p[1] = s /\ p[2] = a.event
          BY <4>2
        <5> QED
          BY <4>2, <5>1, <3>2
      <4> QED
        BY <3>1, <4>1, <4>2
    <3> QED
      BY <3>3 DEF AckedOK
  <2> QED
    BY <1>1, <2>9, <2>10, <2>11, <2>12 DEF AuditInv
<1> QED
  BY <1>7, <1>8

LEMMA AuditTamper ==
    ASSUME AuditInv, NEW s \in Streams, NEW seq \in DOMAIN rows[s], NEW from \in DOMAIN rows[s],
           Tamper(s, seq, from)
    PROVE  AuditInv'
<1>1. /\ rows' = [rows EXCEPT ![s][seq] = rows[s][from]]
      /\ UNCHANGED <<append, kidIndex, replay, acked, sealed>>
  BY DEF Tamper
<1>2. /\ rows[s] \in Seq(Ciphers) /\ DOMAIN rows[s] = 1..Len(sealed[s])
      /\ Len(rows[s]) = Len(sealed[s])
  BY AuditNextRow DEF AuditInv, TableOK
<1> DEFINE r == [rows[s] EXCEPT ![seq] = rows[s][from]]
<1>3. r \in Seq(Ciphers) /\ Len(r) = Len(rows[s])
      /\ \A n \in DOMAIN rows[s] : r[n] = IF n = seq THEN rows[s][from] ELSE rows[s][n]
  BY <1>2
<1>4. rows' = [rows EXCEPT ![s] = r]
  BY <1>1
<1> HIDE DEF r
<1>5. /\ rows' \in [Streams -> Seq(Ciphers)] /\ rows'[s] = r
      /\ \A t \in Streams : t # s => rows'[t] = rows[t]
  BY <1>3, <1>4 DEF AuditInv, TableOK
<1>6. TableOK'
  <2>1. ASSUME NEW t \in Streams
        PROVE  /\ Len(rows'[t]) = Len(sealed[t])
               /\ \A n \in 1..Len(sealed[t]) :
                    sealed[t][n].seq = n /\ EventValid(sealed[t][n])
               /\ \A n \in 1..Len(sealed[t]) :
                    /\ rows'[t][n].stream = t /\ rows'[t][n].seq \in 1..Len(sealed[t])
                    /\ rows'[t][n].event = sealed[t][rows'[t][n].seq]
    <3>1. /\ Len(rows[t]) = Len(sealed[t])
          /\ \A n \in 1..Len(sealed[t]) :
               sealed[t][n].seq = n /\ EventValid(sealed[t][n])
          /\ \A n \in 1..Len(sealed[t]) :
               /\ rows[t][n].stream = t /\ rows[t][n].seq \in 1..Len(sealed[t])
               /\ rows[t][n].event = sealed[t][rows[t][n].seq]
      BY DEF AuditInv, TableOK
    <3>2. CASE t # s
      BY <3>1, <3>2, <1>5
    <3>3. CASE t = s
      <4>1. \A n \in 1..Len(sealed[s]) : rows'[s][n] = rows[s][n] \/ rows'[s][n] = rows[s][from]
        BY <1>2, <1>3, <1>5
      <4>2. from \in 1..Len(sealed[s])
        BY <1>2
      <4>3. Len(rows'[s]) = Len(sealed[s])
        BY <1>2, <1>3, <1>5
      <4>4. ASSUME NEW n \in 1..Len(sealed[s])
            PROVE  /\ rows'[s][n].stream = s /\ rows'[s][n].seq \in 1..Len(sealed[s])
                   /\ rows'[s][n].event = sealed[s][rows'[s][n].seq]
        <5>1. PICK m \in 1..Len(sealed[s]) : rows'[s][n] = rows[s][m]
          BY <4>1, <4>2
        <5>2. /\ rows[s][m].stream = s /\ rows[s][m].seq \in 1..Len(sealed[s])
              /\ rows[s][m].event = sealed[s][rows[s][m].seq]
          BY <3>1, <3>3
        <5> QED
          BY ONLY <5>1, <5>2
      <4> QED
        BY ONLY <3>1, <3>3, <4>3, <4>4
    <3> QED
      BY <3>2, <3>3
  <2> QED
    BY <2>1, <1>1, <1>5 DEF AuditInv, TableOK
<1>7. WritersOK' /\ AckedOK' /\ ReplayOK'
  BY <1>1 DEF AuditInv, WritersOK, AckedOK, ReplayOK
<1> QED
  BY <1>1, <1>6, <1>7 DEF AuditInv

LEMMA AuditReplayStart ==
    ASSUME AuditInv, NEW l \in AuditLookups, NEW k \in Kids, ReplayStart(l, k)
    PROVE  AuditInv'
<1> DEFINE s == StreamOf(k, l.intent)
           floor == {p[2].seq : p \in {q \in acked : q[1] = s}}
<1>1. /\ replay' = [step |-> "reading", lookup |-> l, stream |-> s, expected |-> 1,
                    events |-> <<>>, floor |-> floor]
      /\ UNCHANGED <<rows, append, kidIndex, acked, sealed>>
  BY DEF ReplayStart
<1>2. s \in Streams
  BY AuditStreams
<1>3. Len(sealed[s]) \in Nat
  BY <1>2, AuditNextRow DEF AuditInv
<1>4. floor \subseteq 1..Len(sealed[s])
  BY DEF AuditInv, AckedOK
<1> HIDE DEF s, floor
<1>5. replay' \in ReplayStates
  <2>1. floor \in SUBSET Nat
    BY <1>3, <1>4
  <2>2. <<>> \in Seq(AuditEvents)
    OBVIOUS
  <2> QED
    BY <1>1, <1>2, <2>1, <2>2 DEF ReplayStates
<1>6. ReplayOK'
  <2>1. replay'.events = <<>> /\ Len(replay'.events) = 0 /\ replay'.stream = s
        /\ replay'.floor = floor /\ replay'.step = "reading" /\ replay'.expected = 1
    BY <1>1
  <2>2. sealed' = sealed
    BY <1>1
  <2> QED
    BY <1>3, <1>4, <1>5, <2>1, <2>2 DEF ReplayOK
<1>7. TableOK' /\ AckedOK' /\ WritersOK'
  BY <1>1 DEF AuditInv, TableOK, AckedOK, WritersOK
<1> QED
  BY <1>1, <1>6, <1>7 DEF AuditInv

\* A batch without a gap and without a record that does not open extends the prefix.
AgreesFrom(events, start, table) ==
    \A i \in 1..Len(events) : events[i] = table[start + i]

LEMMA AuditPrefix ==
    ASSUME NEW S, NEW table, NEW events \in Seq(S), NEW opened \in Seq(S),
           AgreesFrom(events, 0, table), AgreesFrom(opened, Len(events), table)
    PROVE  /\ events \o opened \in Seq(S) /\ Len(events \o opened) = Len(events) + Len(opened)
           /\ AgreesFrom(events \o opened, 0, table)
<1> DEFINE both == events \o opened
<1>1. both \in Seq(S) /\ Len(both) = Len(events) + Len(opened)
  OBVIOUS
<1>2. /\ \A i \in 1..Len(events) : both[i] = events[i]
      /\ \A i \in 1..Len(opened) : both[Len(events) + i] = opened[i]
  OBVIOUS
<1>3. Len(events) \in Nat /\ Len(opened) \in Nat
  OBVIOUS
<1> HIDE DEF both
<1>4. ASSUME NEW i \in 1..Len(both) PROVE both[i] = table[0 + i]
  <2>1. CASE i <= Len(events)
    BY <2>1, <1>1, <1>2, <1>3 DEF AgreesFrom
  <2>2. CASE i > Len(events)
    <3>1. i - Len(events) \in 1..Len(opened) /\ Len(events) + (i - Len(events)) = 0 + i
      BY <2>2, <1>1, <1>3
    <3>2. both[Len(events) + (i - Len(events))] = opened[i - Len(events)]
      BY <3>1, <1>2
    <3>3. opened[i - Len(events)] = table[Len(events) + (i - Len(events))]
      BY <3>1 DEF AgreesFrom
    <3> QED
      BY <3>1, <3>2, <3>3
  <2> QED
    BY <1>1, <1>3, <2>1, <2>2
<1> QED
  BY <1>1, <1>4 DEF both, AgreesFrom

LEMMA AuditReplayRead ==
    ASSUME AuditInv, ReplayRead
    PROVE  AuditInv'
<1> DEFINE s == replay.stream
           from == replay.expected
           L == Len(sealed[s])
           batch == StoredBatch(s, from)
           size == Cardinality(batch)
           bad == \E n \in batch : ~Opens(rows[s][n], s, n)
           gap == batch # from..(from + size - 1)
           opened == [i \in 1..size |-> rows[s][from + i - 1].event]
<1>1. /\ replay.step = "reading"
      /\ replay' =
           IF size > 0 /\ (gap \/ bad)
           THEN [replay EXCEPT !.step = "failed", !.events = <<>>]
           ELSE IF size < ReplayBatch
           THEN [replay EXCEPT !.step = "done", !.events = @ \o opened]
           ELSE [replay EXCEPT !.expected = @ + size, !.events = @ \o opened]
      /\ UNCHANGED <<rows, append, kidIndex, acked, sealed>>
  BY DEF ReplayRead
<1>2. /\ replay \in ReplayStates
      /\ Len(replay.events) <= Len(sealed[replay.stream])
      /\ \A i \in 1..Len(replay.events) : replay.events[i] = sealed[replay.stream][i]
      /\ replay.floor \subseteq 1..Len(sealed[replay.stream])
      /\ replay.expected = Len(replay.events) + 1
  BY <1>1 DEF AuditInv, ReplayOK
<1>3. s \in Streams /\ replay.events \in Seq(AuditEvents) /\ replay.floor \in SUBSET Nat
      /\ replay.lookup \in AuditLookups /\ Len(replay.events) \in Nat
  BY <1>2 DEF ReplayStates
<1>4. /\ rows[s] \in Seq(Ciphers) /\ sealed[s] \in Seq(AuditEvents)
      /\ DOMAIN rows[s] = 1..L /\ L \in Nat
  BY <1>3, AuditNextRow DEF AuditInv
<1>5. \A n \in 1..L : /\ rows[s][n].stream = s /\ rows[s][n].seq \in 1..L
                       /\ rows[s][n].event = sealed[s][rows[s][n].seq]
  BY <1>3 DEF AuditInv, TableOK
<1>6. from \in Nat \ {0} /\ from = Len(replay.events) + 1
  BY <1>2, <1>3
<1>7. /\ batch \subseteq from..L /\ IsFiniteSet(batch) /\ size \in Nat
      /\ size < ReplayBatch => batch = from..L
  <2>1. batch = BatchOf(L, from)
    BY <1>4 DEF StoredBatch, BatchOf
  <2> HIDE DEF s, from, L, batch
  <2>2. /\ BatchOf(L, from) \subseteq from..L
        /\ IsFiniteSet(BatchOf(L, from)) /\ Cardinality(BatchOf(L, from)) \in Nat
        /\ Cardinality(BatchOf(L, from)) < ReplayBatch => BatchOf(L, from) = from..L
    BY <1>4, <1>6, AuditBatch
  <2> QED
    BY <2>1, <2>2
<1>8. TableOK' /\ AckedOK' /\ WritersOK'
  BY <1>1 DEF AuditInv, TableOK, AckedOK, WritersOK
<1> SUFFICES ReplayOK'
  BY <1>1, <1>8 DEF AuditInv
<1>9. CASE size > 0 /\ (gap \/ bad)
  <2>1. replay' = [replay EXCEPT !.step = "failed", !.events = <<>>]
    BY <1>1, <1>9
  <2>2. /\ replay' \in ReplayStates /\ replay'.step = "failed" /\ replay'.events = <<>>
        /\ replay'.stream = s /\ replay'.floor = replay.floor
    <3> DEFINE none == <<>>
    <3>1. none \in Seq(AuditEvents)
      OBVIOUS
    <3> HIDE DEF none
    <3>2. replay' = [replay EXCEPT !.step = "failed", !.events = none]
      BY <2>1 DEF none
    <3> QED
      BY <3>1, <3>2, <1>2 DEF ReplayStates, none
  <2>3. Len(replay'.events) = 0
    BY <2>2
  <2> QED
    BY <2>2, <2>3, <1>1, <1>2, <1>4 DEF ReplayOK
<1>10. CASE ~(size > 0 /\ (gap \/ bad))
  <2> HIDE DEF batch, gap, bad, opened, size
  <2>1. batch = from..(from + size - 1)
    <3>1. CASE size = 0
      <4>1. batch = {}
        BY <3>1, <1>7, FS_EmptySet DEF size
      <4>2. from..(from + size - 1) = {}
        BY <3>1, <1>6
      <4> QED
        BY <4>1, <4>2
    <3>2. CASE size > 0
      BY <3>2, <1>10 DEF gap
    <3> QED
      BY <3>1, <3>2, <1>7
  <2>2. \A n \in batch : rows[s][n].event = sealed[s][n] /\ n \in 1..L
    <3>1. ASSUME NEW n \in batch PROVE rows[s][n].event = sealed[s][n] /\ n \in 1..L
      <4>1. n \in 1..L
        BY <1>6, <1>7, <1>4
      <4>2. size # 0
        BY <1>7, FS_EmptySet DEF size
      <4>3. rows[s][n].seq = n
        BY <4>2, <1>7, <1>10 DEF bad, Opens
      <4> QED
        BY <4>1, <4>3, <1>5
    <3> QED
      BY <3>1
  <2>3. \A i \in 1..size : from + i - 1 \in batch /\ from + i - 1 = Len(replay.events) + i
    BY <2>1, <1>6, <1>7
  <2>4. opened \in Seq(AuditEvents) /\ Len(opened) = size
        /\ \A i \in 1..size : opened[i] = sealed[s][Len(replay.events) + i]
    <3>1. \A i \in 1..size : /\ rows[s][from + i - 1].event = sealed[s][Len(replay.events) + i]
                              /\ sealed[s][Len(replay.events) + i] \in AuditEvents
      <4>1. ASSUME NEW i \in 1..size
            PROVE  /\ rows[s][from + i - 1].event = sealed[s][Len(replay.events) + i]
                   /\ sealed[s][Len(replay.events) + i] \in AuditEvents
        <5>1. from + i - 1 \in batch /\ from + i - 1 = Len(replay.events) + i
          BY <2>3
        <5>2. Len(replay.events) + i \in 1..L
          BY <5>1, <2>2
        <5> QED
          BY <5>1, <5>2, <2>2, <1>4
      <4> QED
        BY <4>1
    <3>2. opened \in [1..size -> AuditEvents]
      BY <3>1 DEF opened
    <3>3. opened \in Seq(AuditEvents) /\ Len(opened) = size
      BY <3>2, <1>7
    <3>4. \A i \in 1..size : opened[i] = rows[s][from + i - 1].event
      BY DEF opened
    <3> QED
      BY <3>1, <3>3, <3>4
  <2>5. Len(replay.events) + size <= L
    <3>1. CASE size = 0
      BY <3>1, <1>2, <1>3
    <3>2. CASE size # 0
      <4>1. from + size - 1 \in batch
        BY <3>2, <1>7, <2>3
      <4> QED
        BY <4>1, <1>3, <1>6, <1>7
    <3> QED
      BY <3>1, <3>2
  <2> DEFINE both == replay.events \o opened
  <2>6. /\ both \in Seq(AuditEvents) /\ Len(both) = Len(replay.events) + size
        /\ \A i \in 1..Len(both) : both[i] = sealed[s][i]
    <3> HIDE DEF s
    <3>1. AgreesFrom(replay.events, 0, sealed[s])
      BY <1>2, <1>3 DEF s, AgreesFrom
    <3>2. AgreesFrom(opened, Len(replay.events), sealed[s])
      BY <2>4 DEF AgreesFrom
    <3>3. /\ both \in Seq(AuditEvents) /\ Len(both) = Len(replay.events) + Len(opened)
          /\ AgreesFrom(both, 0, sealed[s])
      BY <3>1, <3>2, <1>3, <2>4, AuditPrefix
    <3> HIDE DEF both
    <3>4. \A i \in 1..Len(both) : 0 + i = i
      BY <3>3
    <3> QED
      BY <3>3, <3>4, <2>4 DEF AgreesFrom
  <2> HIDE DEF both
  <2>7. CASE size < ReplayBatch
    <3>1. replay' = [replay EXCEPT !.step = "done", !.events = both]
      BY <1>1, <1>10, <2>7 DEF both
    <3>2. /\ replay' \in ReplayStates /\ replay'.step = "done" /\ replay'.events = both
          /\ replay'.stream = s /\ replay'.floor = replay.floor
      BY <3>1, <1>2, <2>6 DEF ReplayStates
    <3>3. 1..L \subseteq 1..Len(both)
      <4>1. L <= Len(both)
        <5>1. CASE from > L
          BY <5>1, <1>4, <1>6, <1>3, <1>7, <2>6
        <5>2. CASE from <= L
          <6>1. L \in batch
            BY <5>2, <1>4, <1>6, <1>7, <2>7
          <6>2. L <= from + size - 1
            BY <6>1, <2>1, <1>6, <1>7
          <6> QED
            BY <6>2, <2>6, <1>6, <1>3, <1>7, <1>4
        <5> QED
          BY <5>1, <5>2, <1>4, <1>6
      <4> QED
        BY <4>1, <1>4, <2>6, <1>3, <1>7
    <3>4. Len(both) <= L
      BY <2>5, <2>6
    <3>5. replay'.floor \subseteq 1..Len(both)
      BY <3>2, <3>3, <1>2
    <3> QED
      BY <3>2, <3>4, <3>5, <1>1, <1>2, <2>6 DEF ReplayOK
  <2>8. CASE ~(size < ReplayBatch)
    <3>1. replay' = [replay EXCEPT !.expected = from + size, !.events = both]
      BY <1>1, <1>10, <2>8 DEF both
    <3>2. from + size \in Nat /\ from + size = Len(both) + 1
      BY <1>6, <1>7, <1>3, <2>6
    <3>3. /\ replay' \in ReplayStates /\ replay'.step = "reading" /\ replay'.events = both
          /\ replay'.stream = s /\ replay'.floor = replay.floor /\ replay'.expected = from + size
      BY <3>1, <3>2, <1>1, <1>2, <2>6 DEF ReplayStates
    <3>4. Len(both) <= L
      BY <2>5, <2>6
    <3> QED
      BY <3>2, <3>3, <3>4, <1>1, <1>2, <2>6 DEF ReplayOK
  <2> QED
    BY <2>7, <2>8
<1> QED
  BY <1>9, <1>10

LEMMA AuditStep == AuditInv /\ [AuditNext]_auditVars => AuditInv'
<1> SUFFICES ASSUME AuditInv, [AuditNext]_auditVars PROVE AuditInv'
  OBVIOUS
<1>1. CASE UNCHANGED auditVars
  BY <1>1 DEF AuditInv, TableOK, WritersOK, AckedOK, ReplayOK, auditVars
<1>2. ASSUME NEW w \in AuditWriters, WriterRestart(w) PROVE AuditInv'
  BY <1>2 DEF AuditInv, TableOK, WritersOK, AckedOK, ReplayOK, WriterRestart
<1>3. CASE Rotate
  <2>1. /\ kidIndex' \in 1..Len(AuditKids)
        /\ UNCHANGED <<rows, append, replay, acked, sealed>>
    <3>1. Len(AuditKids) \in Nat /\ kidIndex \in 1..Len(AuditKids)
      BY AuditAssumption DEF AuditInv
    <3> QED
      BY <3>1, <1>3 DEF Rotate
  <2> QED
    BY <2>1 DEF AuditInv, TableOK, WritersOK, AckedOK, ReplayOK
<1>4. CASE ReplayTaken
  BY <1>4 DEF AuditInv, TableOK, WritersOK, AckedOK, ReplayOK, ReplayTaken
<1> QED
  BY <1>1, <1>2, <1>3, <1>4, AuditAppendEvent, AuditAppendInsert, AuditTamper, AuditReplayStart,
     AuditReplayRead DEF AuditNext

\* The audit trail for every number of writers, events, lookups, keys and altered rows: a stream
\* has no hole, an acknowledged append stays where it was put, and a replay that answers returns
\* exactly what was appended (AuditWriter::append, replay_with_material, append_event's gate).
THEOREM AuditFaithful == AuditSpec => []AuditIsFaithful
<1>1. AuditInv => AuditIsFaithful
  <2> SUFFICES ASSUME AuditInv PROVE AuditIsFaithful
    OBVIOUS
  <2>1. StreamIsContiguous
    <3>1. ASSUME NEW s \in Streams PROVE DOMAIN rows[s] = 1..Cardinality(DOMAIN rows[s])
      BY AuditNextRow DEF AuditInv, MaxSeq
    <3> QED
      BY <3>1 DEF StreamIsContiguous, AuditInv, AckedOK
  <2>2. ReplayIsFaithful
    <3> SUFFICES ASSUME replay.step = "done" PROVE ReplayIsFaithful
      BY DEF ReplayIsFaithful
    <3>1. /\ replay \in ReplayStates
          /\ Len(replay.events) <= Len(sealed[replay.stream])
          /\ \A i \in 1..Len(replay.events) : replay.events[i] = sealed[replay.stream][i]
          /\ replay.floor \subseteq 1..Len(replay.events)
      BY DEF AuditInv, ReplayOK
    <3>2. /\ replay.stream \in Streams
          /\ DOMAIN replay.events = 1..Len(replay.events) /\ Len(replay.events) \in Nat
      BY <3>1 DEF ReplayStates
    <3>3. Len(sealed[replay.stream]) \in Nat
      BY <3>2, AuditNextRow DEF AuditInv
    <3>4. \A i \in 1..Len(replay.events) : EventValid(sealed[replay.stream][i])
      BY <3>1, <3>2, <3>3 DEF AuditInv, TableOK
    <3>5. \A i \in ReplayView : replay.lookup.owner \in {"any", replay.events[i].owner}
      BY DEF ReplayView, Authenticates
    <3> QED
      BY <3>1, <3>2, <3>4, <3>5 DEF ReplayIsFaithful
  <2> QED
    BY <2>1, <2>2 DEF AuditIsFaithful
<1> QED
  BY <1>1, AuditInitially, AuditStep, PTL DEF AuditSpec


--------------------------------------------------------------------------------
\* Least member of a set of naturals.
LEMMA LeastMember ==
  ASSUME NEW T \in SUBSET Nat, NEW k \in T
  PROVE  \E m \in T : \A n \in T : m <= n
<1> DEFINE R == OpToRel(<, Nat)
<1>1. IsWellFoundedOn(R, Nat)
  BY NatLessThanWellFounded
<1>2. \A m, n \in Nat : m < n => <<m, n>> \in R
  BY DEF OpToRel
<1> HIDE DEF R
<1>3. PICK m \in T : \A n \in T : ~(<<n, m>> \in R)
  BY <1>1, WFMin
<1>4. ASSUME NEW n \in T PROVE m <= n
  <2>1. m \in Nat /\ n \in Nat /\ ~(n < m)
    BY <1>2, <1>3
  <2> QED
    BY <2>1
<1> QED
  BY <1>4

\* Induction over the naturals, for a set.
LEMMA SetInduction ==
  ASSUME NEW T, 0 \in T, \A n \in Nat : n \in T => n + 1 \in T
  PROVE  Nat \subseteq T
<1> SUFFICES ASSUME NEW k \in Nat \ T PROVE FALSE
  OBVIOUS
<1>1. PICK m \in Nat \ T : \A n \in Nat \ T : m <= n
  <2> DEFINE U == Nat \ T
  <2>1. U \in SUBSET Nat /\ k \in U
    OBVIOUS
  <2> HIDE DEF U
  <2>2. \E m \in U : \A n \in U : m <= n
    BY <2>1, LeastMember
  <2> QED
    BY <2>2 DEF U
<1>2. m # 0 /\ m - 1 \in Nat /\ m - 1 \in T
  BY <1>1
<1>3. (m - 1) + 1 \in T
  BY <1>2
<1> QED
  BY <1>1, <1>3

-----------------------------------------------------------------------------
(* The sum of the recorded slices.                                         *)

\* f adds up the recorded chunks of the keys up to N.
SumsUpTo(f, a, N) ==
  /\ f \in [0..N -> Nat]
  /\ f[0] = 0
  /\ \A n \in 1..N : f[n] = f[n - 1] + AppliedOf(a, n)

LEMMA SumFcnExists ==
  ASSUME NEW N \in Nat, NEW a, \A n \in Nat : AppliedOf(a, n) \in Nat
  PROVE  \E f : SumsUpTo(f, a, N)
<1> DEFINE T == {n \in Nat : \E f : SumsUpTo(f, a, n)}
<1>1. 0 \in T
  <2>1. SumsUpTo([n \in 0..0 |-> 0], a, 0)
    BY DEF SumsUpTo
  <2> QED
    BY <2>1
<1>2. ASSUME NEW n \in Nat, n \in T PROVE n + 1 \in T
  <2>1. PICK f : SumsUpTo(f, a, n)
    BY <1>2
  <2>2. f \in [0..n -> Nat] /\ f[0] = 0
    BY <2>1 DEF SumsUpTo
  <2>3. \A k \in 1..n : f[k] = f[k - 1] + AppliedOf(a, k)
    BY <2>1 DEF SumsUpTo
  <2>7. AppliedOf(a, n + 1) \in Nat
    BY <1>2
  <2> DEFINE g == [k \in 0..(n + 1) |-> IF k = n + 1 THEN f[n] + AppliedOf(a, n + 1) ELSE f[k]]
  <2>8. f[n] + AppliedOf(a, n + 1) \in Nat
    BY <2>2, <2>7
  <2>9. ASSUME NEW k \in 0..(n + 1), k # n + 1 PROVE f[k] \in Nat
    BY <2>2, <2>9
  <2>10. g \in [0..(n + 1) -> Nat]
    BY <2>8, <2>9
  <2>11. g[0] = f[0]
    OBVIOUS
  <2>4. g \in [0..(n + 1) -> Nat] /\ g[0] = 0
    BY <2>2, <2>10, <2>11
  <2>5. ASSUME NEW k \in 1..(n + 1) PROVE g[k] = g[k - 1] + AppliedOf(a, k)
    <3>1. CASE k = n + 1
      <4>1. g[n + 1] = f[n] + AppliedOf(a, n + 1) /\ g[n] = f[n] /\ k - 1 = n
        BY <3>1
      <4> QED
        BY <4>1, <3>1
    <3>2. CASE k # n + 1
      <4>1. k \in 1..n /\ k - 1 \in 0..n /\ k - 1 # n + 1 /\ k \in 0..(n + 1) /\ k - 1 \in 0..(n + 1)
        BY <3>2
      <4>2. g[k] = f[k] /\ g[k - 1] = f[k - 1]
        BY <4>1
      <4> QED
        BY <4>1, <4>2, <2>3
    <3> QED
      BY <3>1, <3>2
  <2> HIDE DEF g
  <2>6. SumsUpTo(g, a, n + 1)
    BY <2>4, <2>5 DEF SumsUpTo
  <2> QED
    BY <2>6
<1>3. Nat \subseteq T
  <2> HIDE DEF T
  <2> QED
    BY <1>1, <1>2, SetInduction
<1> QED
  BY <1>3

\* What Executed evaluates.
LEMMA ExecutedIs ==
  ASSUME NEW t, t.plan.slices \in Nat, \A n \in Nat : AppliedOf(t.applied, n) \in Nat
  PROVE  \E f : SumsUpTo(f, t.applied, t.plan.slices) /\ Executed(t) = f[t.plan.slices]
<1> DEFINE N == t.plan.slices
           F(f) == [n \in 0..N |-> IF n = 0 THEN 0 ELSE f[n - 1] + AppliedOf(t.applied, n)]
           s == CHOOSE f : f = F(f)
<1>1. PICK f : SumsUpTo(f, t.applied, N)
  BY SumFcnExists
<1>2. f = F(f)
  <2>1. f = [n \in 0..N |-> f[n]]
    BY <1>1 DEF SumsUpTo
  <2>2. \A n \in 0..N : f[n] = IF n = 0 THEN 0 ELSE f[n - 1] + AppliedOf(t.applied, n)
    BY <1>1 DEF SumsUpTo
  <2> QED
    BY <2>1, <2>2
<1>3. s = F(s)
  BY <1>2
<1>4. Executed(t) = s[N]
  BY DEF Executed
<1> HIDE DEF s
<1>5. \A n \in 0..N : s[n] = IF n = 0 THEN 0 ELSE s[n - 1] + AppliedOf(t.applied, n)
  BY <1>3
<1>6. DOMAIN s = 0..N /\ s = [n \in 0..N |-> s[n]]
  BY <1>3
<1>7. \A n \in 0..N : s[n] \in Nat
  <2> DEFINE T == {n \in Nat : n <= N => s[n] \in Nat}
  <2>1. 0 \in T
    BY <1>5
  <2>2. ASSUME NEW n \in Nat, n \in T PROVE n + 1 \in T
    <3>1. SUFFICES ASSUME n + 1 <= N PROVE s[n + 1] \in Nat
      OBVIOUS
    <3>2. n + 1 \in 0..N /\ n + 1 # 0 /\ (n + 1) - 1 = n /\ s[n] \in Nat
      BY <3>1, <2>2
    <3>3. s[n + 1] = s[n] + AppliedOf(t.applied, n + 1)
      BY <1>5, <3>2
    <3> QED
      BY <3>2, <3>3
  <2>3. Nat \subseteq T
    <3> HIDE DEF T
    <3> QED
      BY <2>1, <2>2, SetInduction
  <2> QED
    BY <2>3
<1>8. SumsUpTo(s, t.applied, N)
  <2>1. s \in [0..N -> Nat]
    BY <1>6, <1>7
  <2>2. s[0] = 0
    BY <1>5
  <2>3. \A n \in 1..N : s[n] = s[n - 1] + AppliedOf(t.applied, n)
    BY <1>5
  <2> QED
    BY <2>1, <2>2, <2>3 DEF SumsUpTo
<1> QED
  BY <1>4, <1>8

\* Nothing recorded adds up to nothing.
LEMMA NothingExecuted ==
  ASSUME NEW N \in Nat, NEW a, NEW f, SumsUpTo(f, a, N), \A n \in Nat : AppliedOf(a, n) = 0
  PROVE  f[N] = 0
<1> DEFINE T == {n \in Nat : n <= N => f[n] = 0}
<1>1. 0 \in T
  BY DEF SumsUpTo
<1>2. ASSUME NEW n \in Nat, n \in T PROVE n + 1 \in T
  <2>1. SUFFICES ASSUME n + 1 <= N PROVE f[n + 1] = 0
    OBVIOUS
  <2>2. n + 1 \in 1..N /\ (n + 1) - 1 = n /\ f[n] = 0
    BY <2>1, <1>2
  <2>3. f[n + 1] = f[n] + AppliedOf(a, n + 1)
    BY <2>2 DEF SumsUpTo
  <2> QED
    BY <2>2, <2>3
<1>3. Nat \subseteq T
  <2> HIDE DEF T
  <2> QED
    BY <1>1, <1>2, SetInduction
<1> QED
  BY <1>3

\* One more recorded slice adds its chunk.
LEMMA OneMoreExecuted ==
  ASSUME NEW N \in Nat, NEW a, NEW b, NEW f, NEW g, NEW key \in 1..N, NEW amt \in Nat,
         SumsUpTo(f, a, N), SumsUpTo(g, b, N), AppliedOf(a, key) = 0, AppliedOf(b, key) = amt,
         \A n \in Nat : AppliedOf(a, n) \in Nat,
         \A n \in Nat : n # key => AppliedOf(b, n) = AppliedOf(a, n)
  PROVE  g[N] = f[N] + amt
<1> DEFINE T == {n \in Nat : n <= N => g[n] = f[n] + (IF n < key THEN 0 ELSE amt)}
<1>1. 0 \in T
  BY DEF SumsUpTo
<1>2. ASSUME NEW n \in Nat, n \in T PROVE n + 1 \in T
  <2>1. SUFFICES ASSUME n + 1 <= N PROVE g[n + 1] = f[n + 1] + (IF n + 1 < key THEN 0 ELSE amt)
    OBVIOUS
  <2>2. n + 1 \in 1..N /\ (n + 1) - 1 = n /\ n \in 0..N /\ n + 1 \in 0..N
    BY <2>1
  <2>3. g[n] = f[n] + (IF n < key THEN 0 ELSE amt)
    BY <2>1, <1>2
  <2>4. f[n + 1] = f[n] + AppliedOf(a, n + 1) /\ g[n + 1] = g[n] + AppliedOf(b, n + 1)
    BY <2>2 DEF SumsUpTo
  <2>5. f[n] \in Nat /\ g[n] \in Nat /\ f[n + 1] \in Nat /\ g[n + 1] \in Nat
    BY <2>2 DEF SumsUpTo
  <2>6. CASE n + 1 = key
    BY <2>3, <2>4, <2>5, <2>6
  <2>7. CASE n + 1 # key
    <3>1. AppliedOf(b, n + 1) = AppliedOf(a, n + 1) /\ AppliedOf(a, n + 1) \in Nat
      BY <2>7
    <3> QED
      BY <2>3, <2>4, <2>5, <2>7, <3>1
  <2> QED
    BY <2>6, <2>7
<1>3. Nat \subseteq T
  <2> HIDE DEF T
  <2> QED
    BY <1>1, <1>2, SetInduction
<1> QED
  BY <1>3

-----------------------------------------------------------------------------
(* The plan's progress.                                                    *)

PlanType == [total : Nat, slices : Nat \ {0}, min_chunk : Nat \ {0}, max_chunk : Nat \ {0},
             max_slippage : Nat]

TwapType(t) ==
  /\ t = [plan |-> t.plan, remaining |-> t.remaining, slices_done |-> t.slices_done,
          status |-> t.status, version |-> t.version, applied |-> t.applied]
  /\ t.plan \in PlanType /\ t.plan.min_chunk <= t.plan.max_chunk
  /\ t.remaining \in Nat /\ t.slices_done \in Nat /\ t.version \in Nat
  /\ t.status \in {"Pending", "Running", "Complete", "Halted", "Cancelled"}

\* Slices are recorded in order, under their numbers.
InOrder(t) ==
  /\ t.applied \in [1..t.slices_done -> Nat]
  /\ t.slices_done <= t.plan.slices
  /\ t.remaining > 0 => t.slices_done < t.plan.slices

Accounted(t) ==
  /\ Executed(t) + t.remaining = t.plan.total
  /\ (t.remaining = 0 /\ t.plan.total > 0) <=> t.status = "Complete"

\* The driver's slice is recorded, or is the next one and fits: the last
\* number takes everything.
SliceFits(t, s) ==
  s.step = "decided" =>
    /\ s.chunk \in Nat /\ s.key \in Nat \ {0}
    /\ s.reason # "Final" => s.chunk <= t.plan.max_chunk
    /\ \/ s.key \in DOMAIN t.applied
       \/ /\ s.key = t.slices_done + 1 /\ s.chunk > 0 /\ s.chunk <= t.remaining
          /\ s.key < t.plan.slices \/ s.chunk = t.remaining

TwapInv == TwapType(twap) /\ InOrder(twap) /\ Accounted(twap) /\ SliceFits(twap, slice)

LEMMA AppliedTyped ==
  ASSUME NEW t, InOrder(t)
  PROVE  \A n \in Nat : AppliedOf(t.applied, n) \in Nat
BY DEF InOrder, AppliedOf

LEMMA MostIs == ASSUME NEW a \in Int, NEW b \in Int
                PROVE  Most(a, b) \in {a, b} /\ Most(a, b) >= a /\ Most(a, b) >= b
BY DEF Most

LEMMA LeastIs == ASSUME NEW a \in Int, NEW b \in Int
                 PROVE  Least(a, b) \in {a, b} /\ Least(a, b) <= a /\ Least(a, b) <= b
BY DEF Least

LEMMA TwapInitOK == ASSUME AdaptInit PROVE TwapInv
<1>1. PICK p \in TwapPlans : twap = NewTwap(p)
  BY DEF AdaptInit
<1>2. p \in [total : Nat, slices : Nat, min_chunk : Nat, max_chunk : Nat, max_slippage : Nat]
  BY AdaptAssumption
<1> DEFINE q == NewPlan(p)
<1>3. /\ q \in PlanType /\ q.min_chunk <= q.max_chunk /\ q.total = p.total
  <2>1. Most(p.min_chunk, 1) \in Nat \ {0} /\ Most(p.slices, 1) \in Nat \ {0}
    BY <1>2 DEF Most
  <2>2. /\ Most(p.max_chunk, Most(p.min_chunk, 1)) \in Nat \ {0}
        /\ Most(p.min_chunk, 1) <= Most(p.max_chunk, Most(p.min_chunk, 1))
    BY <1>2, <2>1 DEF Most
  <2>4. p = [total |-> p.total, slices |-> p.slices, min_chunk |-> p.min_chunk,
             max_chunk |-> p.max_chunk, max_slippage |-> p.max_slippage]
    BY <1>2
  <2>3. q = [total |-> p.total, slices |-> Most(p.slices, 1), min_chunk |-> Most(p.min_chunk, 1),
             max_chunk |-> Most(p.max_chunk, Most(p.min_chunk, 1)),
             max_slippage |-> p.max_slippage]
    <3>1. PICK a, b, c : a = Most(p.min_chunk, 1) /\ c = Most(p.slices, 1)
                         /\ b = Most(p.max_chunk, Most(p.min_chunk, 1))
      OBVIOUS
    <3>2. q = [p EXCEPT !.min_chunk = a, !.max_chunk = b, !.slices = c]
      BY <3>1 DEF NewPlan
    <3>3. q = [total |-> p.total, slices |-> c, min_chunk |-> a, max_chunk |-> b,
               max_slippage |-> p.max_slippage]
      BY <2>4, <3>2
    <3> QED
      BY <3>1, <3>3
  <2> QED
    BY <1>2, <2>1, <2>2, <2>3 DEF PlanType
<1> HIDE DEF q
<1>4. twap = [plan |-> q, remaining |-> p.total, slices_done |-> 0,
              status |-> "Pending", version |-> 1, applied |-> <<>>]
  BY <1>1 DEF NewTwap, q
<1>5. TwapType(twap)
  BY <1>2, <1>3, <1>4 DEF TwapType
<1>6. InOrder(twap)
  <2>1. << >> \in [1..0 -> Nat]
    OBVIOUS
  <2> QED
    BY <1>2, <1>3, <1>4, <2>1 DEF InOrder, PlanType
<1>7. \A n \in Nat : AppliedOf(twap.applied, n) = 0
  <2>1. DOMAIN twap.applied = {}
    BY <1>4
  <2> QED
    BY <2>1 DEF AppliedOf
<1>8. twap.plan.slices \in Nat
  BY <1>3, <1>4 DEF PlanType
<1>9. PICK f : SumsUpTo(f, twap.applied, twap.plan.slices) /\ Executed(twap) = f[twap.plan.slices]
  BY <1>7, <1>8, ExecutedIs
<1>10. Executed(twap) = 0
  BY <1>7, <1>8, <1>9, NothingExecuted
<1>11. Accounted(twap)
  BY <1>2, <1>3, <1>4, <1>10 DEF Accounted
<1>12. SliceFits(twap, slice)
  BY DEF SliceFits, AdaptInit, NoSlice
<1> QED
  BY <1>5, <1>6, <1>11, <1>12 DEF TwapInv

\* The status moves only while something remains.
LEMMA MovesOK ==
  ASSUME TwapInv, NEW next \in {"Running", "Cancelled", "Halted"}, TwapMoves(next)
  PROVE  TwapType(twap)' /\ InOrder(twap)' /\ Accounted(twap)' /\ SliceFits(twap, slice)
         /\ SliceFits(twap', slice)
<1>1. twap' = [twap EXCEPT !.status = next, !.version = @ + 1]
      /\ <<twap.status, next>> \in TwapTransitions
  BY DEF TwapMoves
<1>2. TwapType(twap)
  BY DEF TwapInv
<1>3. /\ twap'.plan = twap.plan /\ twap'.remaining = twap.remaining
      /\ twap'.slices_done = twap.slices_done /\ twap'.applied = twap.applied
      /\ twap'.status = next /\ twap'.version = twap.version + 1
      /\ twap.status \in {"Pending", "Running"}
      /\ twap' = [plan |-> twap'.plan, remaining |-> twap'.remaining,
                  slices_done |-> twap'.slices_done, status |-> twap'.status,
                  version |-> twap'.version, applied |-> twap'.applied]
  BY <1>1, <1>2 DEF TwapType, TwapTransitions
<1>4. Executed(twap)' = Executed(twap)
  BY <1>3 DEF Executed
<1>5. TwapType(twap)'
  BY <1>2, <1>3 DEF TwapType
<1>6. InOrder(twap)'
  BY <1>3 DEF InOrder, TwapInv
<1>7. Accounted(twap)'
  BY <1>3, <1>4 DEF Accounted, TwapInv
<1>8. SliceFits(twap, slice) /\ SliceFits(twap', slice)
  BY <1>3 DEF SliceFits, TwapInv
<1> QED
  BY <1>5, <1>6, <1>7, <1>8

\* What the engine proposes fits what remains, and the last slice takes it.
LEMMA NextFits ==
  ASSUME NEW t, TwapType(t), InOrder(t), NEW o, AdaptiveNext(t, o).do = "Execute"
  PROVE  LET d == AdaptiveNext(t, o)
             k == t.slices_done + 1
         IN  /\ d.chunk \in Nat /\ d.chunk > 0 /\ d.chunk <= t.remaining
             /\ d.reason # "Final" => d.chunk <= t.plan.max_chunk
             /\ k < t.plan.slices \/ d.chunk = t.remaining
<1> DEFINE left == Most(t.plan.slices - t.slices_done, 1)
           base == Most(t.remaining \div left, 1)
           pace == Pace(t.plan, base, o)
           up == Most(Least(pace.chunk, t.plan.max_chunk), t.plan.min_chunk)
           clamped == Least(up, t.remaining)
           final == left <= 1 \/ t.remaining <= t.plan.min_chunk \/ clamped >= t.remaining
           d == AdaptiveNext(t, o)
<1>1. /\ t.remaining \in Nat /\ t.slices_done \in Nat /\ t.plan.slices \in Nat
      /\ t.plan.min_chunk \in Nat \ {0} /\ t.plan.max_chunk \in Nat
      /\ t.plan.min_chunk <= t.plan.max_chunk
  BY DEF TwapType, PlanType
<1>2. left \in Nat /\ left >= 1 /\ left >= t.plan.slices - t.slices_done
      /\ left \in {t.plan.slices - t.slices_done, 1}
  BY <1>1 DEF Most
<1>3. base \in Nat /\ base >= 1
  <2> HIDE DEF left
  <2>1. t.remaining \div left \in Nat
    BY <1>1, <1>2
  <2> QED
    BY <2>1 DEF Most
<1>4. pace.chunk \in Nat
  <2> HIDE DEF base
  <2>1. base \div 2 \in Nat /\ 2 * base \in Nat
    BY <1>3
  <2>2. Most(base \div 2, 1) \in Nat
    BY <2>1 DEF Most
  <2> QED
    BY <1>3, <2>1, <2>2 DEF Pace
<1>5. d.chunk = (IF final THEN t.remaining ELSE clamped) /\ t.remaining # 0
      /\ d.reason = (IF final THEN "Final" ELSE pace.reason)
  BY DEF AdaptiveNext
<1> HIDE DEF d, pace, left
<1>6. up \in Nat /\ up >= 1 /\ up <= t.plan.max_chunk
  BY <1>1, <1>4 DEF Most, Least
<1> HIDE DEF up
<1>7. clamped \in Nat /\ clamped >= 1 /\ clamped <= t.plan.max_chunk /\ clamped <= t.remaining
  BY <1>1, <1>5, <1>6 DEF Least
<1> HIDE DEF clamped
<1>8. d.chunk \in Nat /\ d.chunk > 0 /\ d.chunk <= t.remaining
  BY <1>1, <1>5, <1>7
<1>9. d.reason # "Final" => d.chunk <= t.plan.max_chunk
  BY <1>5, <1>7
<1>10. t.slices_done + 1 < t.plan.slices \/ d.chunk = t.remaining
  <2>1. CASE left <= 1
    BY <2>1, <1>5
  <2>2. CASE ~(left <= 1)
    BY <2>2, <1>1, <1>2
  <2> QED
    BY <2>1, <2>2
<1> QED
  BY <1>8, <1>9, <1>10 DEF d

LEMMA DecideOK ==
  ASSUME TwapInv, NEW o \in Observations, Decide(o)
  PROVE  TwapInv'
<1> DEFINE d == AdaptiveNext(twap, o)
<1>1. CASE d.do = "Halt"
  <2>1. TwapMoves("Halted") /\ slice' = slice
    BY <1>1 DEF Decide
  <2> QED
    BY <2>1, MovesOK DEF TwapInv
<1>2. CASE d.do # "Halt"
  <2>1. /\ d.do = "Execute" /\ twap' = twap
        /\ slice' = [step |-> "decided", chunk |-> d.chunk, key |-> twap.slices_done + 1,
                     reason |-> d.reason]
    BY <1>2 DEF Decide
  <2>2. TwapType(twap) /\ InOrder(twap) /\ Accounted(twap)
    BY DEF TwapInv
  <2>3. /\ d.chunk \in Nat /\ d.chunk > 0 /\ d.chunk <= twap.remaining
        /\ d.reason # "Final" => d.chunk <= twap.plan.max_chunk
        /\ twap.slices_done + 1 < twap.plan.slices \/ d.chunk = twap.remaining
    BY <2>1, <2>2, NextFits
  <2> HIDE DEF d
  <2>4. SliceFits(twap, slice)'
    BY <2>1, <2>2, <2>3 DEF SliceFits, TwapType
  <2>5. (TwapType(twap) /\ InOrder(twap) /\ Accounted(twap))'
    BY <2>1, <2>2 DEF TwapType, InOrder, Accounted
  <2> QED
    BY <2>4, <2>5 DEF TwapInv
<1> QED
  BY <1>1, <1>2

\* A record either changes nothing or adds the slice.
LEMMA RecordOK ==
  ASSUME NEW t, TwapType(t), InOrder(t), Accounted(t), NEW s, s.step = "decided", SliceFits(t, s),
         NEW u, u = RecordSlice(t, s.chunk, s.key)
  PROVE  TwapType(u) /\ InOrder(u) /\ Accounted(u) /\ SliceFits(u, s)
<1>1. CASE u = t
  BY <1>1
<1>2. CASE u # t
  <2> DEFINE c == s.chunk
             k == s.key
  <2>1. /\ k \notin DOMAIN t.applied /\ t.status = "Running" /\ c # 0
        /\ u = [t EXCEPT !.remaining = @ - c, !.slices_done = @ + 1, !.version = @ + 1,
                         !.status = IF t.remaining = c THEN "Complete" ELSE "Running",
                         !.applied = WithKey(@, k, c)]
    BY <1>2 DEF RecordSlice
  <2>2. /\ c \in Nat /\ k \in Nat \ {0} /\ k = t.slices_done + 1 /\ c > 0 /\ c <= t.remaining
        /\ k < t.plan.slices \/ c = t.remaining
        /\ s.reason # "Final" => c <= t.plan.max_chunk
    BY <2>1 DEF SliceFits
  <2> HIDE DEF c, k
  <2>3. /\ u.plan = t.plan /\ u.remaining = t.remaining - c /\ u.slices_done = t.slices_done + 1
        /\ u.version = t.version + 1 /\ u.applied = WithKey(t.applied, k, c)
        /\ u.status = IF t.remaining = c THEN "Complete" ELSE "Running"
        /\ u = [plan |-> u.plan, remaining |-> u.remaining, slices_done |-> u.slices_done,
                status |-> u.status, version |-> u.version, applied |-> u.applied]
    BY <2>1 DEF TwapType
  <2>4. /\ t.plan \in PlanType /\ t.plan.min_chunk <= t.plan.max_chunk
        /\ t.remaining \in Nat /\ t.slices_done \in Nat /\ t.version \in Nat
        /\ t.plan.total \in Nat /\ t.plan.slices \in Nat
    BY DEF TwapType, PlanType
  <2>5. TwapType(u)
    BY <2>2, <2>3, <2>4 DEF TwapType
  <2>6. /\ t.applied \in [1..t.slices_done -> Nat] /\ t.slices_done < t.plan.slices
    BY <2>2, <2>4 DEF InOrder
  <2>7. DOMAIN u.applied = 1..u.slices_done
    <3>1. DOMAIN u.applied = (1..t.slices_done) \cup {k}
      BY <2>3, <2>6 DEF WithKey
    <3> QED
      BY <3>1, <2>2, <2>3, <2>4
  <2>8. /\ u.applied[k] = c
        /\ \A n \in 1..t.slices_done : n # k => u.applied[n] = t.applied[n]
    BY <2>3, <2>6 DEF WithKey
  <2>9. InOrder(u)
    <3>1. u.applied \in [1..u.slices_done -> Nat]
      <4>1. u.applied = [n \in DOMAIN u.applied |-> u.applied[n]]
        BY <2>3 DEF WithKey
      <4>2. \A n \in 1..u.slices_done : u.applied[n] \in Nat
        BY <2>2, <2>3, <2>4, <2>6, <2>8
      <4> QED
        BY <4>1, <4>2, <2>7
    <3>2. u.slices_done <= u.plan.slices /\ (u.remaining > 0 => u.slices_done < u.plan.slices)
      BY <2>2, <2>3, <2>4, <2>6
    <3> QED
      BY <3>1, <3>2 DEF InOrder
  <2>10. /\ AppliedOf(t.applied, k) = 0 /\ AppliedOf(u.applied, k) = c
         /\ \A n \in Nat : n # k => AppliedOf(u.applied, n) = AppliedOf(t.applied, n)
    <3>1. k \in DOMAIN u.applied
      BY <2>2, <2>3, <2>4, <2>7
    <3>2. ASSUME NEW n \in Nat, n # k PROVE AppliedOf(u.applied, n) = AppliedOf(t.applied, n)
      <4>1. DOMAIN t.applied = 1..t.slices_done
        BY <2>6
      <4>2. n \in DOMAIN u.applied <=> n \in DOMAIN t.applied
        BY <3>2, <4>1, <2>2, <2>3, <2>4, <2>7
      <4> QED
        BY <4>1, <4>2, <2>8, <3>2 DEF AppliedOf
    <3> QED
      BY <2>1, <2>8, <3>1, <3>2 DEF AppliedOf, k
  <2>11. Executed(u) = Executed(t) + c /\ Executed(t) \in Nat
    <3>1. \A n \in Nat : AppliedOf(t.applied, n) \in Nat
      BY AppliedTyped
    <3>2. \A n \in Nat : AppliedOf(u.applied, n) \in Nat
      BY <2>9, AppliedTyped
    <3>3. PICK f : SumsUpTo(f, t.applied, t.plan.slices) /\ Executed(t) = f[t.plan.slices]
      BY <3>1, <2>4, ExecutedIs
    <3>4. PICK g : SumsUpTo(g, u.applied, u.plan.slices) /\ Executed(u) = g[u.plan.slices]
      BY <3>2, <2>3, <2>4, ExecutedIs
    <3>5. k \in 1..t.plan.slices
      BY <2>2, <2>4, <2>6
    <3>6. g[t.plan.slices] = f[t.plan.slices] + c
      <4>1. PICK N, a, b : N = t.plan.slices /\ a = t.applied /\ b = u.applied
        OBVIOUS
      <4>2. N \in Nat /\ k \in 1..N /\ c \in Nat /\ SumsUpTo(f, a, N) /\ SumsUpTo(g, b, N)
        BY <4>1, <3>3, <3>4, <3>5, <2>2, <2>3, <2>4
      <4>3. /\ AppliedOf(a, k) = 0 /\ AppliedOf(b, k) = c
            /\ \A n \in Nat : AppliedOf(a, n) \in Nat
            /\ \A n \in Nat : n # k => AppliedOf(b, n) = AppliedOf(a, n)
        BY <4>1, <3>1, <2>10
      <4>4. g[N] = f[N] + c
        BY <4>2, <4>3, OneMoreExecuted
      <4> QED
        BY <4>1, <4>4
    <3>7. f[t.plan.slices] \in Nat
      BY <3>3, <2>4 DEF SumsUpTo
    <3> QED
      BY <3>3, <3>4, <3>6, <3>7, <2>3
  <2>12. Accounted(u)
    <3>1. Executed(t) + t.remaining = t.plan.total
      BY DEF Accounted
    <3> QED
      BY <3>1, <2>2, <2>3, <2>4, <2>11 DEF Accounted
  <2>13. SliceFits(u, s)
    <3>1. k \in DOMAIN u.applied
      BY <2>2, <2>3, <2>4, <2>7
    <3> QED
      BY <3>1, <2>2, <2>3 DEF SliceFits, c, k
  <2> QED
    BY <2>5, <2>9, <2>12, <2>13
<1> QED
  BY <1>1, <1>2

LEMMA TwapStepOK ==
  ASSUME TwapInv, TwapNext \/ RfqNext \/ UNCHANGED adaptVars
  PROVE  TwapInv'
<1>1. CASE UNCHANGED <<twap, slice>>
  BY <1>1 DEF TwapInv, TwapType, InOrder, Accounted, SliceFits
<1>2. CASE TwapStart
  BY <1>2, MovesOK DEF TwapStart, TwapInv
<1>3. CASE TwapCancel
  BY <1>3, MovesOK DEF TwapCancel, TwapInv
<1>4. ASSUME NEW o \in Observations, Decide(o) PROVE TwapInv'
  BY <1>4, DecideOK
<1>5. ASSUME NEW lost \in BOOLEAN, RecordProgress(lost) PROVE TwapInv'
  <2>1. /\ slice.step = "decided" /\ twap' = RecordSlice(twap, slice.chunk, slice.key)
        /\ slice' = IF lost THEN slice ELSE NoSlice
    BY <1>5 DEF RecordProgress
  <2>2. PICK u : u = twap'
    OBVIOUS
  <2>3. TwapType(u) /\ InOrder(u) /\ Accounted(u) /\ SliceFits(u, slice)
    BY <2>1, <2>2, RecordOK DEF TwapInv
  <2>4. SliceFits(u, slice')
    BY <2>1, <2>3 DEF SliceFits, NoSlice
  <2> QED
    BY <2>2, <2>3, <2>4 DEF TwapInv
<1>6. ASSUME NEW k \in DOMAIN twap.applied, RecordAgain(k) PROVE TwapInv'
  <2>1. twap' = twap /\ slice' = slice
    BY <1>6 DEF RecordAgain, RecordSlice
  <2> QED
    BY <1>1, <2>1
<1>7. CASE RfqNext
  <2>1. UNCHANGED <<twap, slice>>
    <3>1. CASE AuctionStart
      BY <3>1 DEF AuctionStart
    <3>2. CASE AuctionDecides
      BY <3>2 DEF AuctionDecides
    <3>3. CASE Passes
      BY <3>3 DEF Passes
    <3>4. ASSUME NEW r \in SolverReplies, SolverAnswers(r) PROVE UNCHANGED <<twap, slice>>
      BY <3>4 DEF SolverAnswers
    <3>5. ASSUME NEW k \in ProgressKeys,
                 RecordQuoted(k) \/ RecordDecision(k) \/ RfqCancel(k) \/ RfqFail(k)
          PROVE  UNCHANGED <<twap, slice>>
      BY <3>5 DEF RecordQuoted, RecordDecision, RfqCancel, RfqFail
    <3> QED
      BY <1>7, <3>1, <3>2, <3>3, <3>4, <3>5 DEF RfqNext
  <2> QED
    BY <1>1, <2>1
<1>8. CASE UNCHANGED adaptVars
  BY <1>1, <1>8 DEF adaptVars
<1> QED
  BY <1>2, <1>3, <1>4, <1>5, <1>6, <1>7, <1>8 DEF TwapNext

LEMMA TwapInvConserves == ASSUME TwapInv PROVE TwapConserves
<1>1. DOMAIN twap.applied = 1..twap.slices_done /\ twap.slices_done \in Nat
  BY DEF TwapInv, TwapType, InOrder
<1>2. Cardinality(1..twap.slices_done) = twap.slices_done
  <2>1. PICK n \in Nat : n = twap.slices_done
    BY <1>1
  <2>2. Cardinality(1..n) = IF 1 > n THEN 0 ELSE n - 1 + 1
    BY FS_Interval
  <2>3. Cardinality(1..n) = n
    BY <2>2
  <2> QED
    BY <2>1, <2>3
<1> QED
  BY <1>1, <1>2 DEF TwapInv, TwapConserves, Accounted, InOrder, SliceFits

-----------------------------------------------------------------------------
(* The competition and its progress.                                       *)

QuoteType == [solver : Nat \ {0}, amount : Nat, valid : Nat]

\* The quotes counted so far: valid when the run began, and one is the best.
QuotesOK(qs, began) ==
  /\ qs \subseteq QuoteType
  /\ \A q \in qs : q.valid >= began
  /\ qs # {} => \E q \in qs : \A o \in qs : Better(q, o)

\* q is the best of the quotes and beats the local route by the margin.
Earned(q, qs, began, request) ==
  /\ q \in qs /\ q.valid >= began
  /\ \A o \in qs : q.amount >= o.amount
  /\ q.amount * 10000 >= request.baseline * (10000 + request.margin)

AuctionOK(a, request) ==
  /\ a.step \in {"none", "asking", "decided"}
  /\ a.step = "asking" =>
       /\ a = [step |-> "asking", solver |-> a.solver, quotes |-> a.quotes, began |-> a.began]
       /\ a.solver \in Nat \ {0} /\ a.began \in Nat /\ QuotesOK(a.quotes, a.began)
  /\ a.step = "decided" =>
       \/ a.winner = 0
       \/ /\ a.winner # 0
          /\ \E q \in a.quotes : q.solver = a.winner /\ Earned(q, a.quotes, a.began, request)

RfqOK(r, a) ==
  /\ r = [request |-> r.request, status |-> r.status, winner |-> r.winner,
          improvement |-> r.improvement, applied |-> r.applied]
  /\ r.status \in {"Requested", "Quoted", "Won", "NoWinner", "Cancelled", "FailedFinal"}
  /\ r.winner # 0 <=> r.status = "Won"
  /\ r.status = "Won" => a.step = "decided" /\ a.winner = r.winner

CompetitionInv == tick \in Nat /\ AuctionOK(auction, rfq.request) /\ RfqOK(rfq, auction)

LEMMA CompetitionInitOK == ASSUME AdaptInit PROVE CompetitionInv
<1>1. PICK q \in Rfqs : rfq = NewRfq(q)
  BY DEF AdaptInit
<1>2. RfqOK(rfq, auction)
  BY <1>1 DEF NewRfq, RfqOK
<1>3. AuctionOK(auction, rfq.request)
  BY DEF AdaptInit, NoAuction, AuctionOK
<1> QED
  BY <1>2, <1>3 DEF CompetitionInv, AdaptInit

\* One more quote that counts.
LEMMA QuoteAdded ==
  ASSUME NEW qs, NEW began, QuotesOK(qs, began), NEW q \in QuoteType, q.valid >= began
  PROVE  QuotesOK(qs \cup {q}, began)
<1> DEFINE all == qs \cup {q}
<1>1. all \subseteq QuoteType /\ \A o \in all : o.valid >= began
  BY DEF QuotesOK
<1>2. \E b \in all : \A o \in all : Better(b, o)
  <2>1. CASE qs = {}
    <3>1. Better(q, q)
      BY DEF Better, QuoteType
    <3> QED
      BY <2>1, <3>1
  <2>2. CASE qs # {}
    <3>1. PICK b \in qs : \A o \in qs : Better(b, o)
      BY <2>2 DEF QuotesOK
    <3>2. b \in QuoteType /\ \A o \in qs : o \in QuoteType
      BY DEF QuotesOK
    <3>3. CASE Better(b, q)
      BY <3>1, <3>3
    <3>4. CASE ~Better(b, q)
      <4>1. Better(q, b) /\ Better(q, q)
        BY <3>2, <3>4 DEF Better, QuoteType
      <4>2. ASSUME NEW o \in qs PROVE Better(q, o)
        <5>1. Better(b, o) /\ o \in QuoteType
          BY <3>1, <3>2
        <5> QED
          BY <4>1, <5>1, <3>2 DEF Better, QuoteType
      <4> QED
        BY <4>1, <4>2
    <3> QED
      BY <3>3, <3>4
  <2> QED
    BY <2>1, <2>2
<1> QED
  BY <1>1, <1>2 DEF QuotesOK

\* A change of the progress: none, or the one asked for.
LEMMA RfqMovesIs ==
  ASSUME NEW r, NEW a, RfqOK(r, a), NEW next, NEW key, NEW winner, NEW improvement, NEW u,
         u = RfqMoves(r, next, key, winner, improvement)
  PROVE  \/ u = r
         \/ /\ <<r.status, next>> \in RfqTransitions
            /\ u = [request |-> r.request, status |-> next, winner |-> winner,
                    improvement |-> improvement, applied |-> u.applied]
BY DEF RfqMoves, RfqOK

LEMMA AuctionDecidesOK ==
  ASSUME CompetitionInv, AuctionDecides
  PROVE  CompetitionInv'
<1> DEFINE qs == auction.quotes
           best == BestQuote(qs)
           wins == qs # {} /\ best.amount * 10000
                              >= rfq.request.baseline * (10000 + rfq.request.margin)
           imp == IF qs = {} THEN 0 ELSE ImprovementBps(best.amount, rfq.request.baseline)
<1>1. /\ auction.step = "asking" /\ rfq' = rfq /\ tick' = tick
      /\ auction' = [step |-> "decided", winner |-> IF wins THEN best.solver ELSE 0,
                     improvement |-> imp, quotes |-> qs, began |-> auction.began]
  BY DEF AuctionDecides, Decision
<1>2. QuotesOK(qs, auction.began) /\ auction.began \in Nat
  BY <1>1 DEF CompetitionInv, AuctionOK
<1>3. ASSUME qs # {} PROVE best \in qs /\ \A o \in qs : Better(best, o)
  <2>1. \E q \in qs : \A o \in qs : Better(q, o)
    BY <1>2, <1>3 DEF QuotesOK
  <2> QED
    BY <2>1 DEF BestQuote
<1> HIDE DEF best, imp
<1>4. ASSUME wins
      PROVE  best \in qs /\ best.solver # 0 /\ Earned(best, qs, auction.began, rfq.request)
  <2>1. best \in qs /\ \A o \in qs : Better(best, o)
    BY <1>3, <1>4
  <2>2. \A o \in qs : o \in QuoteType
    BY <1>2 DEF QuotesOK
  <2>3. \A o \in qs : best.amount >= o.amount
    BY <2>1, <2>2 DEF Better, QuoteType
  <2>4. best.valid >= auction.began
    BY <2>1, <1>2 DEF QuotesOK
  <2>5. best.solver # 0
    BY <2>1, <2>2 DEF QuoteType
  <2> QED
    BY <2>1, <2>3, <2>4, <2>5, <1>4 DEF Earned
<1> HIDE DEF wins
<1>5. AuctionOK(auction, rfq.request)'
  <2>1. /\ auction'.step = "decided" /\ auction'.quotes = qs /\ auction'.began = auction.began
        /\ auction'.winner = IF wins THEN best.solver ELSE 0
    BY <1>1
  <2>2. CASE wins
    <3>1. auction'.winner = best.solver /\ best.solver # 0 /\ best \in auction'.quotes
          /\ Earned(best, auction'.quotes, auction'.began, rfq'.request)
      BY <2>1, <2>2, <1>1, <1>4
    <3> QED
      BY <2>1, <3>1 DEF AuctionOK
  <2>3. CASE ~wins
    BY <2>1, <2>3 DEF AuctionOK
  <2> QED
    BY <2>2, <2>3
<1>6. RfqOK(rfq, auction)'
  <2>1. rfq.status # "Won"
    BY <1>1 DEF CompetitionInv, RfqOK
  <2> QED
    BY <1>1, <2>1 DEF CompetitionInv, RfqOK
<1> QED
  BY <1>1, <1>5, <1>6 DEF CompetitionInv

LEMMA SolverAnswersOK ==
  ASSUME CompetitionInv, NEW reply \in SolverReplies, SolverAnswers(reply)
  PROVE  CompetitionInv'
<1> DEFINE q == [solver |-> auction.solver, amount |-> reply.amount, valid |-> reply.valid]
           qs == IF QuoteCounts(reply, auction.began) THEN auction.quotes \cup {q}
                 ELSE auction.quotes
<1>1. /\ auction.step = "asking" /\ rfq' = rfq /\ tick' = tick
      /\ auction' = [auction EXCEPT !.solver = @ + 1, !.quotes = qs]
  BY DEF SolverAnswers
<1>2. /\ auction = [step |-> "asking", solver |-> auction.solver, quotes |-> auction.quotes,
                    began |-> auction.began]
      /\ auction.solver \in Nat \ {0} /\ auction.began \in Nat
      /\ QuotesOK(auction.quotes, auction.began)
  BY <1>1 DEF CompetitionInv, AuctionOK
<1>3. QuotesOK(qs, auction.began)
  <2>1. CASE QuoteCounts(reply, auction.began)
    <3>1. reply.amount \in Nat /\ reply.valid \in Nat
      BY AdaptAssumption
    <3>2. q \in QuoteType /\ q.valid >= auction.began
      BY <2>1, <3>1, <1>2 DEF QuoteCounts, QuoteType
    <3> HIDE DEF q
    <3>3. QuotesOK(auction.quotes \cup {q}, auction.began)
      BY <1>2, <3>2, QuoteAdded
    <3> QED
      BY <2>1, <3>3
  <2>2. CASE ~QuoteCounts(reply, auction.began)
    BY <2>2, <1>2
  <2> QED
    BY <2>1, <2>2
<1> HIDE DEF qs
<1>4. auction' = [step |-> "asking", solver |-> auction.solver + 1, quotes |-> qs,
                  began |-> auction.began]
  BY <1>1, <1>2
<1>5. AuctionOK(auction, rfq.request)'
  <2>1. /\ auction'.step = "asking" /\ auction'.quotes = qs /\ auction'.began = auction.began
        /\ auction'.solver = auction.solver + 1
    BY <1>4
  <2> QED
    BY <1>2, <1>3, <1>4, <2>1 DEF AuctionOK
<1>6. RfqOK(rfq, auction)'
  <2>1. rfq.status # "Won"
    BY <1>1 DEF CompetitionInv, RfqOK
  <2> QED
    BY <1>1, <2>1 DEF CompetitionInv, RfqOK
<1> QED
  BY <1>1, <1>5, <1>6 DEF CompetitionInv

LEMMA AuctionStartOK ==
  ASSUME CompetitionInv, AuctionStart
  PROVE  CompetitionInv'
<1>1. auction.step = "none" /\ rfq' = rfq /\ tick' = tick /\ tick \in Nat
  BY DEF AuctionStart, CompetitionInv
<1>2. \/ auction' = [step |-> "decided", winner |-> 0, quotes |-> {}, improvement |-> 0,
                     began |-> tick]
      \/ auction' = [step |-> "asking", solver |-> 1, quotes |-> {}, began |-> tick]
  BY DEF AuctionStart
<1>3. QuotesOK({}, tick)
  BY DEF QuotesOK
<1>4. AuctionOK(auction, rfq.request)'
  BY <1>1, <1>2, <1>3 DEF AuctionOK
<1>5. RfqOK(rfq, auction)'
  BY <1>1 DEF CompetitionInv, RfqOK
<1> QED
  BY <1>1, <1>4, <1>5 DEF CompetitionInv

\* A change of the progress that names no winner.
LEMMA QuietMoveOK ==
  ASSUME CompetitionInv, NEW next \in {"Quoted", "Cancelled", "FailedFinal"}, NEW key,
         rfq' = RfqMoves(rfq, next, key, rfq.winner, rfq.improvement),
         UNCHANGED <<auction, tick>>
  PROVE  CompetitionInv'
<1>1. RfqOK(rfq, auction)
  BY DEF CompetitionInv
<1>2. PICK u : u = rfq'
  OBVIOUS
<1>3. \/ u = rfq
      \/ /\ <<rfq.status, next>> \in RfqTransitions
         /\ u = [request |-> rfq.request, status |-> next, winner |-> rfq.winner,
                 improvement |-> rfq.improvement, applied |-> u.applied]
  BY <1>1, <1>2, RfqMovesIs
<1>4. RfqOK(u, auction) /\ u.request = rfq.request
  BY <1>1, <1>3 DEF RfqOK, RfqTransitions
<1>5. rfq'.request = rfq.request /\ RfqOK(rfq', auction)
  BY <1>2, <1>4
<1> QED
  BY <1>5 DEF CompetitionInv, AuctionOK, RfqOK

LEMMA DecisionOK ==
  ASSUME CompetitionInv, NEW key, RecordDecision(key)
  PROVE  CompetitionInv'
<1> DEFINE next == IF auction.winner = 0 THEN "NoWinner" ELSE "Won"
<1>1. /\ auction.step = "decided" /\ UNCHANGED <<auction, tick>>
      /\ rfq' = RfqMoves(rfq, next, key, auction.winner, auction.improvement)
      /\ RfqOK(rfq, auction)
  BY DEF CompetitionInv, RecordDecision
<1>2. PICK u : u = rfq'
  OBVIOUS
<1>3. \/ u = rfq
      \/ /\ <<rfq.status, next>> \in RfqTransitions
         /\ u = [request |-> rfq.request, status |-> next, winner |-> auction.winner,
                 improvement |-> auction.improvement, applied |-> u.applied]
  BY <1>1, <1>2, RfqMovesIs
<1>4. RfqOK(u, auction) /\ u.request = rfq.request
  BY <1>1, <1>3 DEF RfqOK, RfqTransitions
<1>5. rfq'.request = rfq.request /\ RfqOK(rfq', auction)
  BY <1>2, <1>4
<1> QED
  BY <1>1, <1>5 DEF CompetitionInv, AuctionOK, RfqOK

LEMMA CompetitionStepOK ==
  ASSUME CompetitionInv, TwapNext \/ RfqNext \/ UNCHANGED adaptVars
  PROVE  CompetitionInv'
<1>1. CASE UNCHANGED <<rfq, auction, tick>>
  BY <1>1 DEF CompetitionInv, AuctionOK, RfqOK
<1>2. CASE TwapNext
  <2>1. UNCHANGED <<rfq, auction, tick>>
    BY <1>2 DEF TwapNext, TwapStart, TwapCancel, Decide, RecordProgress, RecordAgain
  <2> QED
    BY <1>1, <2>1
<1>3. CASE Passes
  BY <1>3 DEF Passes, CompetitionInv, AuctionOK, RfqOK
<1>4. ASSUME NEW k \in ProgressKeys, RecordQuoted(k) \/ RfqCancel(k) \/ RfqFail(k)
      PROVE  CompetitionInv'
  BY <1>4, QuietMoveOK DEF RecordQuoted, RfqCancel, RfqFail
<1>5. ASSUME NEW k \in ProgressKeys, RecordDecision(k) PROVE CompetitionInv'
  BY <1>5, DecisionOK
<1>6. CASE UNCHANGED adaptVars
  BY <1>1, <1>6 DEF adaptVars
<1> QED
  BY <1>2, <1>3, <1>4, <1>5, <1>6, AuctionStartOK, AuctionDecidesOK, SolverAnswersOK DEF RfqNext

LEMMA CompetitionEarned == ASSUME CompetitionInv PROVE WinnerIsEarned
<1>1. rfq.winner # 0 <=> rfq.status = "Won"
  BY DEF CompetitionInv, RfqOK
<1>2. ASSUME rfq.status = "Won"
      PROVE  \E q \in auction.quotes :
               q.solver = rfq.winner /\ Earned(q, auction.quotes, auction.began, rfq.request)
  BY <1>1, <1>2 DEF CompetitionInv, RfqOK, AuctionOK
<1> QED
  BY <1>1, <1>2 DEF WinnerIsEarned, Earned

\* Adaptive execution (crates/adaptive-exec): for every plan, every sequence
\* of observations and every repetition of a record, what was executed and
\* what remains make the total, in no more slices than the plan has; and for
\* every set of solver answers a recorded winner was the best valid quote
\* and beats the local route by the margin.
THEOREM AdaptiveExact == AdaptSpec => []AdaptiveIsExact
<1>1. AdaptInit => TwapInv /\ CompetitionInv
  BY TwapInitOK, CompetitionInitOK
<1>2. TwapInv /\ CompetitionInv /\ [TwapNext \/ RfqNext]_adaptVars
      => (TwapInv /\ CompetitionInv)'
  BY TwapStepOK, CompetitionStepOK
<1>3. TwapInv /\ CompetitionInv => AdaptiveIsExact
  BY TwapInvConserves, CompetitionEarned DEF AdaptiveIsExact
<1> QED
  BY <1>1, <1>2, <1>3, PTL DEF AdaptSpec

(***************************************************************************)
(* The limits of a wallet.                                                 *)
(***************************************************************************)
\* Stored limits name a venue, unless a change may empty the list.
StoredLimits == record = NoLimits \/ (record \in Limits /\ (EmptyVenues \/ record.venues # {}))

\* The only step that changes the record is a write without an error.
LEMMA ChangeIsWritten ==
    ASSUME PolicyNext, record' # record
    PROVE  \E key \in PolicyKeys, next \in Limits, expected \in {version, version - 1},
              strong \in BOOLEAN :
               /\ EmptyVenues \/ next.venues # {}
               /\ ApplyError(key, next, expected, strong) = "none"
               /\ record' = next
               /\ policyAnswer'.strong = strong
<1>1. PICK key \in PolicyKeys, next \in Limits, expected \in {version, version - 1},
           strong \in BOOLEAN :
               /\ EmptyVenues \/ next.venues # {}
               /\ ApplyLimits(key, next, expected, strong)
  BY DEF PolicyNext, Withdraw, CloseGate
<1>2. ApplyError(key, next, expected, strong) = "none" /\ record' = next
  BY <1>1 DEF ApplyLimits
<1>3. policyAnswer'.strong = strong
  BY <1>1 DEF ApplyLimits
<1> QED
  BY <1>1, <1>2, <1>3

\* Limits that are not looser in any field admit no trade that the others refuse, if both name
\* venues.
LEMMA NotLooser ==
    ASSUME NEW new \in Limits, NEW old \in Limits, ~LooserThan(new, old), new.venues # {},
           NEW t \in Trades, TradeAllowed(new, t)
    PROVE  TradeAllowed(old, t)
<1>1. /\ t.usd \in Nat /\ t.used \in Nat
      /\ new.max_trade \in Nat /\ old.max_trade \in Nat
      /\ new.turnover \in Nat /\ old.turnover \in Nat
  BY PolicyAssumption DEF Limits, Trades
<1>2. /\ new.max_trade <= old.max_trade /\ new.turnover <= old.turnover
      /\ new.chains \subseteq old.chains /\ new.venues \subseteq old.venues
  BY <1>1 DEF LooserThan
<1>3. QED
  BY <1>1, <1>2 DEF TradeAllowed

\* Whatever changes are asked for, repeated or raced, an unconfirmed one only tightens: this is
\* what UnconfirmedChangeOnlyTightens says of apply(), where no change may list no venue.
THEOREM TightensOnly ==
    ASSUME ~EmptyVenues
    PROVE  PolicySpec => UnconfirmedChangeOnlyTightens
<1>1. PolicyInit => StoredLimits
  BY DEF PolicyInit, StoredLimits
<1>2. StoredLimits /\ [PolicyNext]_policyVars => StoredLimits'
  <2> SUFFICES ASSUME StoredLimits, [PolicyNext]_policyVars, record' # record
               PROVE  StoredLimits'
    BY DEF StoredLimits
  <2>1. PolicyNext
    BY DEF policyVars
  <2> QED
    BY <2>1, ChangeIsWritten DEF StoredLimits
<1>3. StoredLimits /\ PolicyNext /\ record' # record /\ ~policyAnswer'.strong
      => /\ record # NoLimits
         /\ \A t \in Trades : TradeAllowed(record', t) => TradeAllowed(record, t)
  <2> SUFFICES ASSUME StoredLimits, PolicyNext, record' # record, ~policyAnswer'.strong
               PROVE  /\ record # NoLimits
                      /\ \A t \in Trades : TradeAllowed(record', t) => TradeAllowed(record, t)
    OBVIOUS
  <2>1. PICK key \in PolicyKeys, next \in Limits, expected \in {version, version - 1} :
               /\ next.venues # {}
               /\ ApplyError(key, next, expected, FALSE) = "none"
               /\ record' = next
    BY ChangeIsWritten
  <2>2. ~RequiresStrongConfirmation(ClassifyLimitsChange(record, next))
    BY <2>1 DEF ApplyError
  <2>3. record # NoLimits /\ ~LooserThan(next, record)
    BY <2>2 DEF ClassifyLimitsChange, RequiresStrongConfirmation
  <2>4. record \in Limits
    BY <2>3 DEF StoredLimits
  <2> QED
    BY <2>1, <2>3, <2>4, NotLooser
<1> QED
  BY <1>1, <1>2, <1>3, PTL DEF PolicySpec, UnconfirmedChangeOnlyTightens, policyVars

(***************************************************************************)
(* Orders.  LedgerTypeOK and LedgerAgrees together are inductive: the      *)
(* amounts of an open order carry the minimum that LimitOrder::validate    *)
(* checks at the next transition.                                          *)
(***************************************************************************)
\* The terms of an order, as create_order validated them.
LEMMA TermsValid ==
    ASSUME NEW t \in Terms(MaxInputs, Expiries)
    PROVE  /\ t.max_input \in Nat /\ t.min_fill \in Nat
           /\ t.allow_partial \in BOOLEAN /\ t.expires_at \in Nat
           /\ 0 < t.min_fill /\ t.min_fill <= t.max_input
           /\ ~t.allow_partial => t.min_fill = t.max_input
BY LedgerAssumption DEF Terms

\* apply_transition reaches a closed status or an open one, never anything else,
\* and only from an open one.
LEMMA StatusTable ==
    ASSUME NEW from, NEW to, CanTransitionTo(from, to)
    PROVE  from \in Open /\ to \in OrderStatus
BY DEF CanTransitionTo, Successors, Open, Closed, OrderStatus

\* The status apply_transition leaves is the requested one, or a closed one.
LEMMA EffectiveStatusValues ==
    ASSUME NEW t, NEW o, NEW to \in OrderStatus, NEW fill, NEW at
    PROVE  EffectiveStatus(t, o, to, fill, at) \in {to, "Expired", "Filled"}
BY DEF EffectiveStatus, RequestedStatus

\* A validated order starts with all of its input unspent.
LEMMA InitAgrees == LedgerInit => LedgerTypeOK /\ LedgerAgrees
<1> SUFFICES ASSUME LedgerInit PROVE LedgerTypeOK /\ LedgerAgrees
  OBVIOUS
<1>1. /\ terms.max_input \in Nat /\ terms.min_fill \in Nat
      /\ 0 < terms.min_fill /\ terms.min_fill <= terms.max_input
  BY TermsValid DEF LedgerInit
<1>2. /\ order.status = "Created" /\ order.remaining = terms.max_input /\ order.filled = 0
  BY DEF LedgerInit, NewOrder
<1>3. LedgerTypeOK
  BY <1>1 DEF LedgerInit, LedgerTypeOK, NewOrder, OrderStatus, Open
<1>4. LedgerAgrees
  BY <1>1, <1>2 DEF LedgerAgrees, Open
<1> QED
  BY <1>3, <1>4

\* One accepted transition, with or without a fill.
LEMMA TransitionAgrees ==
    ASSUME LedgerTypeOK, LedgerAgrees,
           NEW to \in OrderStatus, NEW fill \in Fills, NEW at \in Instants,
           Transition(to, fill, at)
    PROVE  /\ LedgerTypeOK'
           /\ LedgerAgrees'
           /\ order.status \in Open
           /\ order'.filled >= order.filled
           /\ order'.filled # order.filled =>
                 /\ order'.filled - order.filled >= terms.min_fill
                 /\ order.status \in InFlightOrPartial
<1> DEFINE requested == RequestedStatus(terms, order, to, fill, at)
           effective == EffectiveStatus(terms, order, to, fill, at)
<1>1. /\ terms.max_input \in Nat /\ terms.min_fill \in Nat
      /\ terms.allow_partial \in BOOLEAN /\ terms.expires_at \in Nat
      /\ 0 < terms.min_fill /\ terms.min_fill <= terms.max_input
  BY TermsValid DEF LedgerTypeOK
<1>2. terms' = terms /\ order' = Applied(terms, order, to, fill, at)
  BY DEF Transition
<1>3. /\ order'.status = effective
      /\ order'.remaining = RemainingAfter(order, fill)
      /\ order'.filled = FilledAfter(order, fill)
  BY <1>2 DEF Applied
<1>4. /\ CanTransitionTo(order.status, requested)
      /\ HasFill(fill) => FillAllowed(order.status, to) /\ FillApplies(terms, order, fill)
      /\ FillRequired(order.status, to) => HasFill(fill)
      /\ to = "Filled" => RemainingAfter(order, fill) = 0
      /\ to = "PartiallyFilled" => RemainingAfter(order, fill) # 0
      /\ HasFill(fill) => FillPolicyAllows(terms, effective, fill)
      /\ Validates(terms, effective, RemainingAfter(order, fill), at)
  BY Zenon DEF Transition, Accepts
<1>5. order.status \in Open /\ requested \in OrderStatus
  BY <1>4, StatusTable
<1>6. /\ order.remaining \in Nat /\ order.filled \in Nat
      /\ order.filled + order.remaining = terms.max_input
      /\ order.remaining > 0
  BY <1>5 DEF LedgerTypeOK, LedgerAgrees, Open
<1>7. CASE ~HasFill(fill)
  <2>1. order'.remaining = order.remaining /\ order'.filled = order.filled
    BY <1>3, <1>7 DEF RemainingAfter, FilledAfter
  <2>2. effective = requested /\ requested = to
    BY <1>7 DEF EffectiveStatus, RequestedStatus
  <2>3. to # "Filled"
    BY <1>4, <1>6, <1>7 DEF RemainingAfter
  <2>4. order' \in [status : OrderStatus, remaining : Nat, filled : Nat]
    BY <1>2, <1>3, <1>6, <2>1, <2>2 DEF Applied
  <2>5. order'.status \in Open => terms.min_fill <= order'.remaining
    BY <1>3, <1>4, <2>1 DEF Validates
  <2>6. order'.status \in Open /\ ~terms.allow_partial => order'.filled = 0
    BY <1>5, <2>1 DEF LedgerAgrees
  <2> QED
    BY <1>1, <1>2, <1>3, <1>5, <1>6, <2>1, <2>2, <2>3, <2>4, <2>5, <2>6
    DEF LedgerTypeOK, LedgerAgrees
<1>8. CASE HasFill(fill)
  <2>1. /\ fill.input \in Nat /\ fill.remaining_after \in Nat
        /\ fill.input <= order.remaining
        /\ fill.remaining_after = order.remaining - fill.input
    BY <1>1, <1>4, <1>8 DEF Fills, HasFill, NoFill, FillApplies
  <2>2. /\ order'.remaining = order.remaining - fill.input
        /\ order'.filled = order.filled + fill.input
    BY <1>3, <1>8 DEF RemainingAfter, FilledAfter
  <2>3. fill.input > 0 /\ fill.input >= terms.min_fill
    BY <1>4, <1>8 DEF FillPolicyAllows
  <2>4. /\ order.status \in InFlightOrPartial
        /\ to \in {"PartiallyFilled", "Filled", "Expired"}
    BY <1>4, <1>8 DEF FillAllowed, FillRequired, InFlightOrPartial
  <2>5. effective \in {"PartiallyFilled", "Filled", "Expired"}
    BY <2>4, EffectiveStatusValues
  <2>6. effective = "Filled" <=> order'.remaining = 0
    <3>1. CASE to = "Filled"
      BY <1>3, <1>4, <3>1 DEF EffectiveStatus, RequestedStatus
    <3>2. CASE to = "PartiallyFilled"
      BY <1>3, <1>4, <3>2 DEF EffectiveStatus, RequestedStatus
    <3>3. CASE to = "Expired"
      BY <1>3, <1>8, <2>4, <3>3 DEF EffectiveStatus, RequestedStatus
    <3> QED
      BY <2>4, <3>1, <3>2, <3>3
  <2>7. order' \in [status : OrderStatus, remaining : Nat, filled : Nat]
    <3>1. order'.remaining \in Nat /\ order'.filled \in Nat
      BY <1>6, <2>1, <2>2
    <3>2. effective \in OrderStatus
      BY <2>5 DEF OrderStatus, Open, Closed
    <3> QED
      BY <1>2, <1>3, <3>1, <3>2 DEF Applied
  <2>8. order'.filled + order'.remaining = terms.max_input
    BY <1>6, <2>1, <2>2
  <2>9. order'.status \in Open => terms.min_fill <= order'.remaining
    BY <1>3, <1>4 DEF Validates
  <2>10. order'.status \in Open => terms.allow_partial
    BY <1>3, <1>4, <1>8, <2>5 DEF FillPolicyAllows, Open
  <2> QED
    BY <1>1, <1>2, <1>3, <1>5, <1>6, <2>1, <2>2, <2>3, <2>4, <2>6, <2>7, <2>8, <2>9, <2>10
    DEF LedgerTypeOK, LedgerAgrees
<1> QED
  BY <1>7, <1>8

\* The inductive step: whatever apply_transition accepts, or rejects, the ledger
\* still agrees.
LEMMA StepAgrees == LedgerTypeOK /\ LedgerAgrees /\ [LedgerNext]_ledgerVars => (LedgerTypeOK /\ LedgerAgrees)'
<1> SUFFICES ASSUME LedgerTypeOK, LedgerAgrees, [LedgerNext]_ledgerVars PROVE (LedgerTypeOK /\ LedgerAgrees)'
  OBVIOUS
<1>1. CASE LedgerNext
  BY <1>1, TransitionAgrees DEF LedgerNext
<1>2. CASE UNCHANGED ledgerVars
  BY <1>2 DEF ledgerVars, LedgerTypeOK, LedgerAgrees
<1> QED
  BY <1>1, <1>2

\* The pair is an invariant of every order.
THEOREM LedgerInductive == LedgerSpec => [](LedgerTypeOK /\ LedgerAgrees)
BY InitAgrees, StepAgrees, PTL DEF LedgerSpec

\* Orders are well formed.
THEOREM LedgerTypeCorrect == LedgerSpec => []LedgerTypeOK
BY LedgerInductive, PTL

\* apply_transition never loses input, never calls an order Filled that has
\* input left or anything else when it has none, and keeps open orders fillable.
THEOREM Conserved == LedgerSpec => []LedgerAgrees
BY LedgerInductive, PTL

\* An open order can always be closed at its deadline.
THEOREM NoWedge == LedgerSpec => []AlwaysClosable
<1>1. LedgerTypeOK /\ LedgerAgrees => AlwaysClosable
  <2> SUFFICES ASSUME LedgerTypeOK, LedgerAgrees, order.status \in Open
               PROVE  Accepts(terms, order, "Expired", NoFill, terms.expires_at)
    BY DEF AlwaysClosable
  <2>1. /\ terms.max_input \in Nat /\ terms.min_fill \in Nat /\ terms.expires_at \in Nat
    BY TermsValid DEF LedgerTypeOK
  <2>2. /\ order.remaining \in Nat /\ order.filled \in Nat
        /\ order.filled + order.remaining = terms.max_input
    BY DEF LedgerTypeOK, LedgerAgrees
  <2>3. ~HasFill(NoFill)
    BY DEF HasFill
  <2>4. /\ RequestedStatus(terms, order, "Expired", NoFill, terms.expires_at) = "Expired"
        /\ EffectiveStatus(terms, order, "Expired", NoFill, terms.expires_at) = "Expired"
        /\ RemainingAfter(order, NoFill) = order.remaining
    BY <2>3 DEF RequestedStatus, EffectiveStatus, RemainingAfter
  <2>5. CanTransitionTo(order.status, "Expired")
    BY DEF CanTransitionTo, Successors, Open
  <2>6. ~FillRequired(order.status, "Expired")
    BY DEF FillRequired
  <2>7. DeadlineAllows(terms, "Expired", terms.expires_at)
    BY <2>1 DEF DeadlineAllows, Closed
  <2>8. Validates(terms, "Expired", order.remaining, terms.expires_at)
    BY <2>1, <2>2 DEF Validates, Open
  <2>9. ConservationHolds(terms, order)
    BY <2>2 DEF ConservationHolds
  <2> QED
    BY <2>3, <2>4, <2>5, <2>6, <2>7, <2>8, <2>9 DEF Accepts
<1> QED
  BY <1>1, LedgerInductive, PTL

\* The amounts of an order agree with its status and an open order can be closed,
\* for all terms, fills and instants.
THEOREM OrderSound == LedgerSpec => []OrderIsSound
BY Conserved, NoWedge, PTL DEF OrderIsSound

\* A closed order is never changed, and consumed input is never taken back.
THEOREM Absorbing == LedgerSpec => ClosedForGood
<1>1. LedgerTypeOK /\ LedgerAgrees /\ [LedgerNext]_ledgerVars
        => [order.status \notin Closed /\ order'.filled >= order.filled]_ledgerVars
  <2> SUFFICES ASSUME LedgerTypeOK, LedgerAgrees, LedgerNext
               PROVE  order.status \notin Closed /\ order'.filled >= order.filled
    OBVIOUS
  <2>1. order.status \in Open /\ order'.filled >= order.filled
    BY TransitionAgrees DEF LedgerNext
  <2> QED
    BY <2>1 DEF Open, Closed
<1> QED
  BY <1>1, LedgerInductive, PTL DEF LedgerSpec, ClosedForGood

\* Every fill applied to an order meets its minimum, and only an order in flight
\* or partly filled takes one.
THEOREM FillsRespected == LedgerSpec => FillsRespectTerms
<1>1. LedgerTypeOK /\ LedgerAgrees /\ [LedgerNext]_ledgerVars
        => [order'.filled # order.filled =>
               /\ order'.filled - order.filled >= terms.min_fill
               /\ order.status \in InFlightOrPartial]_ledgerVars
  BY TransitionAgrees DEF LedgerNext
<1> QED
  BY <1>1, LedgerInductive, PTL DEF LedgerSpec, FillsRespectTerms
=============================================================================
