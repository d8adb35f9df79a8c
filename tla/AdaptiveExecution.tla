-------------------------- MODULE AdaptiveExecution --------------------------
(***************************************************************************)
(* Adaptive execution (crates/adaptive-exec): the TWAP engine that sizes   *)
(* the next slice from the plan, its progress and a market observation,    *)
(* the solver competition that asks each solver in turn, and the durable   *)
(* progress of both, in which every change carries an idempotency key.     *)
(*                                                                         *)
(* A driver asks the engine for a slice, executes it and records it; the   *)
(* record may be repeated (its reply was lost) at any later time.  The     *)
(* competition awaits every solver while time passes.                      *)
(***************************************************************************)
EXTENDS Integers, Sequences, FiniteSets

CONSTANTS
  TwapPlans,       \* plans, as TwapPlan::new is called
  Observations,    \* market observations, [empty, age, slippage, recovery, volatility]
  StaleAfter,      \* TwapPolicy::observation_stale_ms
  ProgressKeys,    \* idempotency keys
  MaxProgressKeys, \* MAX_APPLIED_PROGRESS_KEYS
  Rfqs,            \* RfqRequest and baseline, [deadline, margin, baseline, same_asset]
  Solvers,         \* number of solvers, asked in order 1..Solvers
  SolverReplies,   \* what a solver answers, [ok, asset, amount, valid]
  AdaptHorizon     \* bound on time

ASSUME AdaptAssumption ==
  /\ TwapPlans \subseteq [total : Nat, slices : Nat, min_chunk : Nat, max_chunk : Nat,
                          max_slippage : Nat]
  /\ Rfqs \subseteq [deadline : Nat, margin : Nat, baseline : Nat, same_asset : BOOLEAN]
  /\ SolverReplies \subseteq [ok : BOOLEAN, asset : BOOLEAN, amount : Nat, valid : Nat]
  /\ Solvers \in Nat

VARIABLES
  twap,    \* TwapProgress
  slice,   \* the driver's slice: decided, executed, recorded
  rfq,     \* RfqProgress
  auction, \* a SolverCompetition::run in progress
  tick

adaptVars == <<twap, slice, rfq, auction, tick>>

Most(a, b) == IF a > b THEN a ELSE b
Least(a, b) == IF a < b THEN a ELSE b

-----------------------------------------------------------------------------
(* TWAP.                                                                   *)

\* TwapPlan::new normalises its bounds.
NewPlan(p) ==
  [p EXCEPT !.min_chunk = Most(p.min_chunk, 1),
            !.max_chunk = Most(p.max_chunk, Most(p.min_chunk, 1)),
            !.slices = Most(p.slices, 1)]

\* TwapProgress::new
NewTwap(p) ==
  [plan |-> NewPlan(p), remaining |-> p.total, slices_done |-> 0,
   status |-> "Pending", version |-> 1, applied |-> <<>>]

TwapTransitions ==
  {<<"Pending", "Running">>, <<"Pending", "Cancelled">>, <<"Running", "Running">>,
   <<"Running", "Complete">>, <<"Running", "Halted">>, <<"Running", "Cancelled">>}

\* The engine's pace: how much, and why.
Pace(plan, base, o) ==
  IF o.empty \/ o.age > StaleAfter THEN [chunk |-> base, reason |-> "FallbackCron"]
  ELSE IF \/ o.volatility = "high" \/ o.recovery = "low"
          \/ plan.max_slippage > 0 /\ 2 * o.slippage >= plan.max_slippage
  THEN [chunk |-> Most(base \div 2, 1), reason |-> "Slowed"]
  ELSE IF o.recovery = "high" THEN [chunk |-> 2 * base, reason |-> "Accelerated"]
  ELSE [chunk |-> base, reason |-> "Schedule"]

\* Mutant: the last slice is clamped like every other.
AdaptiveNextClamped(t, o) ==
  LET left == Most(t.plan.slices - t.slices_done, 1)
      pace == Pace(t.plan, Most(t.remaining \div left, 1), o)
  IN  IF t.remaining = 0 THEN [do |-> "Complete", chunk |-> 0, reason |-> "none"]
      ELSE IF ~o.empty /\ o.slippage > t.plan.max_slippage
      THEN [do |-> "Halt", chunk |-> 0, reason |-> "SlippageExceeded"]
      ELSE [do |-> "Execute", reason |-> pace.reason,
            chunk |-> Least(Most(Least(pace.chunk, t.plan.max_chunk), t.plan.min_chunk),
                            t.remaining)]

\* AdaptiveTwap::next.  The slippage cap is checked on any observation, stale
\* or not; the last slice takes everything, whatever max_chunk says.
AdaptiveNext(t, o) ==
  LET left == Most(t.plan.slices - t.slices_done, 1)
      pace == Pace(t.plan, Most(t.remaining \div left, 1), o)
      clamped == Least(Most(Least(pace.chunk, t.plan.max_chunk), t.plan.min_chunk),
                       t.remaining)
      final == left <= 1 \/ t.remaining <= t.plan.min_chunk \/ clamped >= t.remaining
  IN  IF t.remaining = 0 THEN [do |-> "Complete", chunk |-> 0, reason |-> "none"]
      ELSE IF ~o.empty /\ o.slippage > t.plan.max_slippage
      THEN [do |-> "Halt", chunk |-> 0, reason |-> "SlippageExceeded"]
      ELSE [do |-> "Execute", chunk |-> IF final THEN t.remaining ELSE clamped,
            reason |-> IF final THEN "Final" ELSE pace.reason]

\* applied_keys with one more key.
WithKey(applied, key, chunk) ==
  [k \in DOMAIN applied \cup {key} |-> IF k = key THEN chunk ELSE applied[k]]

\* TwapProgress::record_slice; a record it refuses leaves the progress alone.
RecordSlice(t, chunk, key) ==
  IF key \in DOMAIN t.applied THEN t
  ELSE IF t.status # "Running" \/ chunk = 0 \/ chunk > t.remaining THEN t
  ELSE IF Cardinality(DOMAIN t.applied) >= MaxProgressKeys THEN t
  ELSE [t EXCEPT !.remaining = @ - chunk, !.slices_done = @ + 1, !.version = @ + 1,
                 !.status = IF t.remaining = chunk THEN "Complete" ELSE "Running",
                 !.applied = WithKey(@, key, chunk)]

NoSlice == [step |-> "none", chunk |-> 0, key |-> "none", reason |-> "none"]

\* start, halt and cancel: TwapProgress::transition
TwapMoves(next) ==
  /\ <<twap.status, next>> \in TwapTransitions
  /\ twap' = [twap EXCEPT !.status = next, !.version = @ + 1]

TwapStart == TwapMoves("Running") /\ twap.status = "Pending" /\ UNCHANGED <<slice, rfq, auction, tick>>
TwapCancel == TwapMoves("Cancelled") /\ UNCHANGED <<slice, rfq, auction, tick>>

\* The driver asks for the next slice: one key per slice number.
Decide(o) ==
  LET d == AdaptiveNext(twap, o) IN
  /\ twap.status = "Running" /\ slice.step = "none"
  /\ IF d.do = "Halt" THEN TwapMoves("Halted") /\ UNCHANGED slice
     ELSE /\ d.do = "Execute"
          /\ slice' = [step |-> "decided", chunk |-> d.chunk, key |-> twap.slices_done + 1,
                       reason |-> d.reason]
          /\ UNCHANGED twap
  /\ UNCHANGED <<rfq, auction, tick>>

\* The slice was executed and is recorded; its reply may be lost, in which
\* case it is recorded again.
RecordProgress(lost) ==
  /\ slice.step = "decided"
  /\ twap' = RecordSlice(twap, slice.chunk, slice.key)
  /\ slice' = IF lost THEN slice ELSE NoSlice
  /\ UNCHANGED <<rfq, auction, tick>>

\* An old record arrives once more.
RecordAgain(key) ==
  /\ key \in DOMAIN twap.applied
  /\ twap' = RecordSlice(twap, twap.applied[key], key)
  /\ UNCHANGED <<slice, rfq, auction, tick>>

-----------------------------------------------------------------------------
(* The solver competition and its progress.                                *)

NewRfq(q) ==
  [request |-> q, status |-> "Requested", winner |-> 0, improvement |-> 0, applied |-> {}]

RfqTransitions ==
  {<<"Requested", s>> : s \in {"Quoted", "Cancelled", "FailedFinal"}}
  \cup {<<"Quoted", s>> : s \in {"Won", "NoWinner", "Cancelled", "FailedFinal"}}

\* RfqProgress::transition.  A key seen before answers the progress as it is,
\* whatever the change asked for.
RfqMoves(r, next, key, winner, improvement) ==
  IF key \in r.applied \/ <<r.status, next>> \notin RfqTransitions
     \/ Cardinality(r.applied) >= MaxProgressKeys
  THEN r
  ELSE [r EXCEPT !.status = next, !.applied = @ \cup {key}, !.winner = winner,
                 !.improvement = improvement]

NoAuction == [step |-> "none"]

\* run: an expired request or a foreign baseline is decided before any solver.
AuctionStart ==
  /\ auction.step = "none"
  /\ auction' =
       IF tick > rfq.request.deadline THEN [step |-> "decided", winner |-> 0, quotes |-> {},
                                            improvement |-> 0, began |-> tick]
       ELSE IF ~rfq.request.same_asset THEN [step |-> "decided", winner |-> 0, quotes |-> {},
                                             improvement |-> 0, began |-> tick]
       ELSE [step |-> "asking", solver |-> 1, quotes |-> {}, began |-> tick]
  /\ UNCHANGED <<twap, slice, rfq, tick>>

\* A quote competes unless it failed, is of another asset, is zero, or was
\* already expired at the time the run was given.
QuoteCounts(reply, now) ==
  reply.ok /\ reply.asset /\ reply.amount > 0 /\ reply.valid >= now

\* One solver's answer.
SolverAnswers(reply) ==
  /\ auction.step = "asking" /\ auction.solver <= Solvers
  /\ auction' = [auction EXCEPT
       !.solver = @ + 1,
       !.quotes = IF QuoteCounts(reply, auction.began)
                  THEN @ \cup {[solver |-> auction.solver, amount |-> reply.amount,
                                valid |-> reply.valid]} ELSE @]
  /\ UNCHANGED <<twap, slice, rfq, tick>>

\* improvement_bps, saturating at a zero baseline.
ImprovementBps(winner, baseline) ==
  IF winner <= baseline THEN 0
  ELSE IF baseline = 0 THEN 65535
  ELSE Least(((winner - baseline) * 10000) \div baseline, 65535)

\* Best output first, then the smaller solver id.
Better(a, b) ==
  a.amount > b.amount \/ (a.amount = b.amount /\ a.solver <= b.solver)

BestQuote(qs) == CHOOSE q \in qs : \A o \in qs : Better(q, o)

\* The best quote wins when it beats the local route by the margin.
Decision(qs, request, began) ==
  LET best == BestQuote(qs)
      wins == qs # {} /\ best.amount * 10000 >= request.baseline * (10000 + request.margin)
  IN  [step |-> "decided", winner |-> IF wins THEN best.solver ELSE 0,
       improvement |-> IF qs = {} THEN 0 ELSE ImprovementBps(best.amount, request.baseline),
       quotes |-> qs, began |-> began]

AuctionDecides ==
  /\ auction.step = "asking" /\ auction.solver > Solvers
  /\ auction' = Decision(auction.quotes, rfq.request, auction.began)
  /\ UNCHANGED <<twap, slice, rfq, tick>>

\* record_quoted, record_decision, cancel and fail_final, each with a key.
RecordQuoted(key) ==
  /\ rfq' = RfqMoves(rfq, "Quoted", key, rfq.winner, rfq.improvement)
  /\ UNCHANGED <<twap, slice, auction, tick>>

RecordDecision(key) ==
  /\ auction.step = "decided"
  /\ rfq' = RfqMoves(rfq, IF auction.winner = 0 THEN "NoWinner" ELSE "Won", key,
                     auction.winner, auction.improvement)
  /\ UNCHANGED <<twap, slice, auction, tick>>

RfqCancel(key) ==
  /\ rfq' = RfqMoves(rfq, "Cancelled", key, rfq.winner, rfq.improvement)
  /\ UNCHANGED <<twap, slice, auction, tick>>

RfqFail(key) ==
  /\ rfq' = RfqMoves(rfq, "FailedFinal", key, rfq.winner, rfq.improvement)
  /\ UNCHANGED <<twap, slice, auction, tick>>

Passes ==
  /\ tick < AdaptHorizon /\ tick' = tick + 1
  /\ UNCHANGED <<twap, slice, rfq, auction>>

-----------------------------------------------------------------------------
AdaptInit ==
  /\ twap \in {NewTwap(p) : p \in TwapPlans} /\ rfq \in {NewRfq(q) : q \in Rfqs}
  /\ slice = NoSlice /\ auction = NoAuction /\ tick = 0

TwapNext ==
  \/ TwapStart \/ TwapCancel
  \/ \E o \in Observations : Decide(o)
  \/ \E lost \in BOOLEAN : RecordProgress(lost)
  \/ \E k \in DOMAIN twap.applied : RecordAgain(k)

RfqNext ==
  \/ AuctionStart \/ AuctionDecides \/ Passes
  \/ \E r \in SolverReplies : SolverAnswers(r)
  \/ \E k \in ProgressKeys :
       RecordQuoted(k) \/ RecordDecision(k) \/ RfqCancel(k) \/ RfqFail(k)

AdaptSpec == AdaptInit /\ [][TwapNext \/ RfqNext]_adaptVars

-----------------------------------------------------------------------------
(* Properties.                                                             *)

AppliedOf(applied, n) == IF n \in DOMAIN applied THEN applied[n] ELSE 0

\* What was recorded, over every key a slice can have.
Executed(t) ==
  LET sum[n \in 0..t.plan.slices] ==
        IF n = 0 THEN 0 ELSE sum[n - 1] + AppliedOf(t.applied, n)
  IN  sum[t.plan.slices]

\* Conservation (lib.rs): whatever the observations say and however often a
\* record is repeated, what was recorded and what remains make the total, the
\* plan takes no more slices than it was given, and it is complete exactly
\* when nothing remains.
TwapConserves ==
  /\ Executed(twap) + twap.remaining = twap.plan.total
  /\ twap.slices_done = Cardinality(DOMAIN twap.applied)
  /\ twap.slices_done <= twap.plan.slices
  /\ (twap.remaining = 0 /\ twap.plan.total > 0) <=> twap.status = "Complete"
  /\ slice.step = "decided" /\ slice.reason # "Final" => slice.chunk <= twap.plan.max_chunk

\* Best execution (lib.rs): a recorded winner was the best of the quotes that
\* were still valid when the competition began, and beats the local route by
\* the margin the request names, whichever keys the changes were made under.
WinnerIsEarned ==
  /\ rfq.winner # 0 <=> rfq.status = "Won"
  /\ rfq.status = "Won" =>
       \E q \in auction.quotes :
         /\ q.solver = rfq.winner /\ q.valid >= auction.began
         /\ \A o \in auction.quotes : q.amount >= o.amount
         /\ q.amount * 10000 >= rfq.request.baseline * (10000 + rfq.request.margin)

AdaptiveIsExact == TwapConserves /\ WinnerIsEarned
=============================================================================
