----------------------------- MODULE SplitSearch ------------------------------
(***************************************************************************)
(* The split optimizer: the best division of one input between two paths,  *)
(* extended a path at a time.                                              *)
(*                                                                         *)
(* q.config is [bps, minIn, minOut, usd, usdPrice, maxLegs].  A leg of a   *)
(* split is the quote of a path for its share; `spent` counts the quotes   *)
(* drawn against MaxSplitQuotes.                                           *)
(***************************************************************************)
EXTENDS RouteSearch

CONSTANTS MinSplitLegs, MaxSplitPairs, GridSteps, RefineSteps, MaxSplitQuotes

ASSUME SplitAssumption ==
    {MinSplitLegs, MaxSplitPairs, GridSteps, RefineSteps, MaxSplitQuotes} \subseteq Nat \ {0}

SplitConfigError(q) ==
    FirstFailure(<<
        Check(q.config.maxLegs < MinSplitLegs \/ q.config.maxLegs > MaxSplitLegs,
              "UnsupportedSplitLegCount"),
        Check(q.config.minIn = 0 \/ q.config.minOut = 0, "InvalidSplitConfig"),
        Check(q.config.usd > 0 /\ q.config.usdPrice = << >>, "InvalidSplitConfig")>>, "none")

PassesDust(q, leg) ==
    /\ leg.ok
    /\ leg.branch.amount >= q.config.minIn
    /\ leg.net >= q.config.minOut
    /\ q.config.usd > 0 =>
          (leg.branch.amount * q.config.usdPrice[1]) \div q.config.usdPrice[2] >= q.config.usd

SplitImproves(q, net, single) == net * BpsOne > single * (BpsOne + q.config.bps)

PoolsOf(path) == {path[k].pool.id : k \in DOMAIN path}

SplitInput(legs) == Total([b \in DOMAIN legs |-> legs[b].branch.amount])
SplitNet(legs) == Total([b \in DOMAIN legs |-> legs[b].net])

\* A fault: a split costs what its first branch costs.
FirstLegGas(q, legs) == q.gas[legs[1].hops]

\* Gas counts only when every branch has a cost.
SplitGas(q, legs) ==
    IF \E b \in DOMAIN legs : q.gas[legs[b].hops] = 0
    THEN 0 ELSE Total([b \in DOMAIN legs |-> q.gas[legs[b].hops]])

SplitPrimaryNet(q, legs) == NetAfterGas(q, SplitNet(legs), SplitGas(q, legs))

\* build_split_quote: whether the legs make a split at all; whole is the sum of their deltas.
BuildableAs(q, legs, whole) ==
    /\ Len(legs) >= MinSplitLegs /\ Len(legs) <= MaxSplitLegs
    /\ \A b \in DOMAIN legs : PassesDust(q, legs[b])
    /\ whole # NoDelta
    /\ SplitNet(legs) = whole.net
    /\ SplitPlanError(q.intent, PreviewOf(q, legs)) = "none"

Buildable(q, legs) ==
    BuildableAs(q, legs, AggregateDelta([b \in DOMAIN legs |-> legs[b].delta]))

\* quote_branch: a branch is quoted without depth, which is a key of single paths only.
NoDepth(q) == [q EXCEPT !.depth = << >>]
QuoteBranch(q, path, in) == QuotePath(NoDepth(q), path, in)

(***************************************************************************)
(* Two paths: a grid of shares, then bisection around the best one.        *)
(***************************************************************************)
NoPoint(spent) == [ok |-> FALSE, x |-> 0, legs |-> << >>, value |-> 0, spent |-> spent]

PointOf(q, x, a, b) ==
    IF ~a.ok THEN NoPoint(1)
    ELSE IF ~PassesDust(q, a) \/ ~PassesDust(q, b) \/ a.net + b.net > AmountMax THEN NoPoint(2)
    ELSE [ok |-> TRUE, x |-> x, legs |-> <<a, b>>, value |-> a.net + b.net, spent |-> 2]

EvalTwoPath(q, left, right, x) ==
    IF x < q.config.minIn \/ q.amount - x < q.config.minIn THEN NoPoint(0)
    ELSE PointOf(q, x, QuoteBranch(q, left, x), QuoteBranch(q, right, q.amount - x))

BetterPoint(p, best) == p.ok /\ (p.value > best.value \/ (p.value = best.value /\ p.x < best.x))

\* One round of the refinement, on [best, lo, hi, loVal, hiVal, done, spent], with the point p
\* at the middle; a value of NoAmount is an endpoint that could not be priced.
Bisected(st, mid, p) ==
    LET worth(v) == IF v = NoAmount THEN 0 ELSE v
        up == worth(st.loVal) <= worth(st.hiVal)
        val == IF p.ok THEN p.value ELSE NoAmount
        moved == [st EXCEPT !.spent = @ + p.spent,
                            !.best = IF BetterPoint(p, @) THEN p ELSE @]
        known == {v \in {"lo", "hi"} : (IF v = "lo" THEN st.loVal ELSE st.hiVal) # NoAmount}
    IN  IF p.ok THEN IF up THEN [moved EXCEPT !.lo = mid, !.loVal = val]
                           ELSE [moved EXCEPT !.hi = mid, !.hiVal = val]
        ELSE CASE known = {"lo", "hi"} -> IF up THEN [moved EXCEPT !.lo = mid]
                                                ELSE [moved EXCEPT !.hi = mid]
               [] known = {"lo"} -> [moved EXCEPT !.hi = mid]
               [] known = {"hi"} -> [moved EXCEPT !.lo = mid]
               [] OTHER -> [moved EXCEPT !.done = TRUE]

RefineStep(q, left, right, st) ==
    LET mid == st.lo + (st.hi - st.lo) \div 2
    IN  IF st.done \/ st.hi <= st.lo + 1 THEN [st EXCEPT !.done = TRUE]
        ELSE Bisected(st, mid, EvalTwoPath(q, left, right, mid))

\* The refinement starts at the neighbours of the best point of the grid.
Bracket(first, lo, hi, spent) ==
    [best |-> first, lo |-> lo.x, hi |-> hi.x, done |-> FALSE,
     loVal |-> IF lo.p.ok THEN lo.p.value ELSE NoAmount,
     hiVal |-> IF hi.p.ok THEN hi.p.value ELSE NoAmount,
     spent |-> spent + lo.p.spent + hi.p.spent]

Refined(st) == [st.best EXCEPT !.spent = st.spent]

Refine(q, left, right, first, spent) ==
    LET step == q.amount \div GridSteps
        lo == Max({first.x - step, q.config.minIn})
        hi == Min({first.x + step, q.amount - q.config.minIn})
    IN  Refined(FoldLeft(LAMBDA st, k : RefineStep(q, left, right, st),
                         Bracket(first, [x |-> lo, p |-> EvalTwoPath(q, left, right, lo)],
                                 [x |-> hi, p |-> EvalTwoPath(q, left, right, hi)], spent),
                         [k \in 1..RefineSteps |-> k]))

\* The best point of the grid, refined.
BestOfGrid(q, left, right, grid) ==
    LET spent == Total([k \in DOMAIN grid |-> grid[k].spent])
        priced == {p \in Range(grid) : p.ok}
    IN  IF priced = {} THEN NoPoint(spent)
        ELSE Refine(q, left, right, CHOOSE p \in priced : \A r \in priced : ~BetterPoint(r, p), spent)

BestTwoPath(q, left, right) ==
    IF q.amount < 2 * q.config.minIn THEN NoPoint(0)
    ELSE BestOfGrid(q, left, right,
             [k \in 1..(GridSteps - 1) |-> EvalTwoPath(q, left, right, (q.amount * k) \div GridSteps)])

(***************************************************************************)
(* More paths: every share shrinks to make room for a new one, then shares *)
(* move between the legs while that pays more.                             *)
(***************************************************************************)
\* One move of a share from leg a to leg b, on [legs, spent, accepted].
TryMove(q, st, a, b, from, to) ==
    LET moved == [st.legs EXCEPT ![a] = from, ![b] = to]
        drawn == IF from.ok THEN 2 ELSE 1
    IN  IF /\ from.ok /\ to.ok
           /\ PassesDust(q, from) /\ PassesDust(q, to)
           /\ AggregateDelta([k \in DOMAIN moved |-> moved[k].delta]) # NoDelta
           /\ SplitNet(moved) > SplitNet(st.legs)
        THEN [legs |-> moved, spent |-> st.spent + drawn, accepted |-> TRUE]
        ELSE [st EXCEPT !.spent = @ + drawn]

MoveShare(q, st, a, b) ==
    LET legs == st.legs
        quantum == Max({legs[a].branch.amount \div 8, q.config.minIn})
    IN  IF a = b \/ legs[a].branch.amount <= quantum THEN st
        ELSE TryMove(q, st, a, b, QuoteBranch(q, legs[a].path, legs[a].branch.amount - quantum),
                                  QuoteBranch(q, legs[b].path, legs[b].branch.amount + quantum))

\* One pass over the ordered pairs of legs; passes follow while one moves a share.
MovePass(q, n, st) ==
    FoldLeft(LAMBDA now, k : MoveShare(q, now, (k - 1) \div n + 1, ((k - 1) % n) + 1),
             [st EXCEPT !.accepted = FALSE], [k \in 1..(n * n) |-> k])

Reallocate(q, start) ==
    FoldLeft(LAMBDA st, k : IF st.accepted THEN MovePass(q, Len(st.legs), st) ELSE st,
             start, [k \in 1..RefineSteps |-> k])

\* The trial split, its shares moved, takes over when it pays more.
Adopt(q, single, st, moved) ==
    IF /\ SplitNet(moved.legs) > SplitNet(st.legs)
       /\ Buildable(q, moved.legs)
       /\ SplitImproves(q, SplitPrimaryNet(q, moved.legs), single)
    THEN [legs |-> moved.legs, cands |-> st.cands \cup {moved.legs}, spent |-> moved.spent,
          adopted |-> TRUE]
    ELSE [st EXCEPT !.spent = moved.spent]

TryLegs(q, single, st, scaled, added) ==
    LET n == Len(st.legs)
        kept == {k \in 1..n : \A j \in 1..k : PassesDust(q, scaled[j])}
        trial == Append(scaled, added)
        drawn == IF Cardinality(kept) < n THEN Cardinality(kept) + 1 ELSE n + 1
    IN  IF \/ Cardinality(kept) < n
           \/ ~PassesDust(q, added)
           \/ AggregateDelta([k \in DOMAIN trial |-> trial[k].delta]) = NoDelta
        THEN [st EXCEPT !.spent = @ + drawn]
        ELSE Adopt(q, single, st,
                   Reallocate(q, [legs |-> trial, spent |-> st.spent + drawn, accepted |-> TRUE]))

\* One path tried as a further leg, on [legs, cands, spent, adopted].
ExtendWith(q, single, path, st) ==
    LET n == Len(st.legs)
        scale(k) == (st.legs[k].branch.amount * n) \div (n + 1)
        share == q.amount - Total([k \in 1..n |-> scale(k)])
    IN  IF \/ n >= q.config.maxLegs
           \/ \E k \in 1..n : PoolsOf(st.legs[k].path) \cap PoolsOf(path) # {}
           \/ share < q.config.minIn
        THEN st
        ELSE TryLegs(q, single, st, [k \in 1..n |-> QuoteBranch(q, st.legs[k].path, scale(k))],
                     QuoteBranch(q, path, share))

\* One pass over the best paths; passes follow while one is adopted and a leg may be added.
ExtendPass(q, single, top, st) ==
    FoldLeft(LAMBDA now, x : ExtendWith(q, single, x.path, now), [st EXCEPT !.adopted = FALSE], top)

Extend(q, single, top, start) ==
    FoldLeft(LAMBDA st, k : IF st.adopted /\ Len(st.legs) < q.config.maxLegs
                            THEN ExtendPass(q, single, top, st) ELSE st,
             start, [k \in 1..q.config.maxLegs |-> k])

SplitKey(legs) == FlattenSeq([b \in DOMAIN legs |-> Tail(PathKey(legs[b].path))])

\* compare_candidates: more output, then fewer legs, then the key.
SplitBefore(a, b) ==
    LexLess(<<-SplitNet(a), Len(a)>> \o SplitKey(a), <<-SplitNet(b), Len(b)>> \o SplitKey(b))

\* Every disjoint pair of the best single paths, with the best way to share the input between
\* them; a split is kept when it pays more than the single path.
SplitsOf(q, single, points) ==
    [cands |-> {p.legs : p \in {p \in Range(points) :
                  /\ p.ok
                  /\ Buildable(q, p.legs)
                  /\ SplitImproves(q, SplitPrimaryNet(q, p.legs), single)}},
     spent |-> Total([k \in DOMAIN points |-> points[k].spent])]

PointsOf(q, top, pairs) ==
    [k \in DOMAIN pairs |-> BestTwoPath(q, top[pairs[k][1]].path, top[pairs[k][2]].path)]

TwoPathSplits(q, top, single) ==
    LET disjoint == {ij \in (DOMAIN top) \X (DOMAIN top) :
                       ij[1] < ij[2] /\ PoolsOf(top[ij[1]].path) \cap PoolsOf(top[ij[2]].path) = {}}
    IN  SplitsOf(q, single, PointsOf(q, top, SetToSeq(disjoint)))

\* The first candidate that the preview accepts.
SelectSplit(q, cands) ==
    LET verified == {s \in cands : PreviewAccepts(q, s)} IN
    IF verified = {} THEN << >>
    ELSE CHOOSE s \in verified : \A t \in verified : ~SplitBefore(t, s)

\* two are the splits of two paths: the best of them grows a path at a time.
GrowSplits(q, single, top, two) ==
    IF two.cands = {} THEN [legs |-> << >>, cands |-> {}, spent |-> two.spent, adopted |-> FALSE]
    ELSE Extend(q, single, top,
                [legs |-> CHOOSE s \in two.cands : \A t \in two.cands : ~SplitBefore(t, s),
                 cands |-> two.cands, spent |-> two.spent, adopted |-> TRUE])

Verdict(spent, single, selected, incumbents) ==
    IF spent > MaxSplitQuotes THEN Failed("SplitBudgetExceeded")
    ELSE IF selected = << >> /\ incumbents = << >> THEN Failed("SelectedRejected")
    ELSE Done([selected |-> selected, spent |-> spent, single |-> single,
               incumbent |-> IF incumbents = << >> THEN << >> ELSE <<incumbents[1]>>])

Conclude(q, single, incumbents, baseline, found) ==
    Verdict(baseline + found.spent, single, SelectSplit(q, found.cands), incumbents)

SplitRanked(q, ranked, baseline) ==
    LET single == PrimaryNet(q, ranked[1])
        top == SubSeq(ranked, 1, Min({Len(ranked), MaxSplitPairs}))
    IN  Conclude(q, single, Acceptable(q, ranked), baseline,
                 GrowSplits(q, single, top, TwoPathSplits(q, top, single)))

\* A quote whose score is inconsistent counts as a failure; depth does not rank the baseline.
Scored(q, quotes) ==
    {IF x.ok /\ ScoreInconsistent(q, x) THEN NoQuote("ScoreInconsistent") ELSE x : x \in quotes}

SplitQuoted(q, quotes, baseline) ==
    IF baseline > MaxSplitQuotes THEN Failed("SplitBudgetExceeded")
    ELSE IF \A x \in quotes : ~x.ok THEN Failed(AggregateFailure({x.err : x \in quotes}))
    ELSE SplitRanked(q, Baseline(NoDepth(q), quotes), baseline)

PlanSplit(q) ==
    IF IntakeError(q) # "none" THEN Failed(IntakeError(q))
    ELSE IF SplitConfigError(q) # "none" THEN Failed(SplitConfigError(q))
    ELSE IF ContextError(q) # "none" THEN Failed(ContextError(q))
    ELSE SplitQuoted(q, Scored(q, Quotes(q)), Len(EnumerateCandidates(q).paths))

(***************************************************************************)
(* Contracts.                                                              *)
(***************************************************************************)
\* A single path (plan_single_path) is quoted and accepted, and no path over the pools that the
\* bounds admit pays more after gas and would be accepted too.
NothingBeats(q, plan) ==
    plan.ok /\ ~EnumerateCandidates(q).truncated =>
        \A path \in PathsOf(q, EdgesOf(q), Bridges(q, EdgesOf(q))) :
            \A x \in {QuotePath(q, path, q.amount)} :
                x.ok /\ PreviewAccepts(q, <<x>>) => PrimaryNet(q, x) <= PrimaryNet(q, plan.out[1])

SinglePathIsBest(q) == NothingBeats(q, PlanSinglePath(q))

\* A split (plan_split) spends exactly the requested input through disjoint pools, no leg is
\* dust, what the pools then pay is what the split was scored with, and after the gas of every
\* leg it beats the best single path by the configured margin.
LegsAreSound(q, legs, single) ==
    LET gas == Total([b \in DOMAIN legs |-> q.gas[legs[b].hops]])
    IN  /\ SplitInput(legs) = q.amount
        /\ \A a, b \in DOMAIN legs : a # b => PoolsOf(legs[a].path) \cap PoolsOf(legs[b].path) = {}
        /\ \A b \in DOMAIN legs :
              /\ legs[b].branch.amount >= q.config.minIn /\ legs[b].net >= q.config.minOut
              /\ QuoteBranch(q, legs[b].path, legs[b].branch.amount).net = legs[b].net
        /\ Len(legs) <= q.config.maxLegs
        /\ SplitImproves(q, NetAfterGas(q, SplitNet(legs), gas), single)

PlanIsSound(q, plan) ==
    plan.ok /\ plan.out.selected # << >> => LegsAreSound(q, plan.out.selected, plan.out.single)

SplitIsSound(q) == PlanIsSound(q, PlanSplit(q))
=============================================================================
