----------------------------- MODULE RouteSearch ------------------------------
(***************************************************************************)
(* Route search: the candidate paths over a set of pools, the quote and    *)
(* the score of a path, the best single path and the best split.           *)
(*                                                                         *)
(* A request q is [intent, pools, amount, assess, hops, now, policy,       *)
(* maxImpact, gas, gasPrice, depth, config].  A pool is                    *)
(* [id, venue, ref, tokens, kind, state, at, seq, impact]; gas gives the   *)
(* cost of a path by its hops, 0 for none; gasPrice is << >> or the output *)
(* one unit of gas costs, as a fraction.                                   *)
(***************************************************************************)
EXTENDS PreSignGate, AmmSimulation

CONSTANTS Labels,         \* every address, venue and reference, in byte order
          MaxHops, MaxPools, MaxBridges, MaxCandidates

ASSUME RouteAssumption == /\ MaxHops = 2
                          /\ {MaxPools, MaxBridges, MaxCandidates} \subseteq Nat \ {0}

LabelRank(x) == CHOOSE k \in DOMAIN Labels : Labels[k] = x

LexLess(a, b) ==
    \/ \E k \in DOMAIN a \cap DOMAIN b : a[k] < b[k] /\ \A j \in 1..(k - 1) : a[j] = b[j]
    \/ Len(a) < Len(b) /\ \A j \in DOMAIN a : a[j] = b[j]

(***************************************************************************)
(* The paths.  An edge is a pool and the direction it is taken in.         *)
(***************************************************************************)
TokenIn(e) == IF e.dir = 0 THEN e.pool.tokens[1] ELSE e.pool.tokens[2]
TokenOut(e) == IF e.dir = 0 THEN e.pool.tokens[2] ELSE e.pool.tokens[1]

StateKey(d) == IF d.kind = "Cpmm" THEN <<0, d.state.r[0], d.state.r[1], d.state.fee>>
               ELSE IF d.kind = "Clmm" THEN <<1, d.state.tick, d.state.s, d.state.liq, d.state.fee>>
               ELSE <<2, d.state.active, d.state.step, d.state.fee>>

DescriptorKey(d) ==
    <<LabelRank(d.venue), LabelRank(d.ref), d.at, d.seq, d.impact>> \o StateKey(d)

\* Of several descriptors of one pool, the least in descriptor order stands for it.
DedupeEdges(edges) ==
    {e \in edges : ~\E f \in edges : /\ f.pool.id = e.pool.id /\ f.dir = e.dir
                                     /\ LexLess(DescriptorKey(f.pool), DescriptorKey(e.pool))}

EdgesOf(q) == DedupeEdges([pool : Range(q.pools), dir : {0, 1}])

PathKey(path) ==
    <<Len(path)>> \o FlattenSeq([k \in DOMAIN path |->
        <<LabelRank(path[k].pool.venue), LabelRank(path[k].pool.ref),
          LabelRank(TokenIn(path[k])[2]), LabelRank(TokenOut(path[k])[2])>>])

\* Bridge assets in address order, the first MaxBridges of them.
Bridges(q, edges) ==
    LET reached == {TokenOut(e) : e \in {e \in edges : TokenIn(e) = q.intent.tokens[1]}}
    IN  SetToSortSeq(reached \ {q.intent.tokens[1], q.intent.tokens[2]},
                     LAMBDA a, b: LabelRank(a[2]) < LabelRank(b[2]))

PathsOf(q, edges, bridges) ==
    LET first == {e \in edges : TokenIn(e) = q.intent.tokens[1]}
        last == {e \in edges : TokenOut(e) = q.intent.tokens[2]}
    IN  {<<e>> : e \in first \cap last}
        \cup {<<e, f>> : <<e, f>> \in {ef \in first \X last :
                 /\ q.hops >= 2
                 /\ TokenOut(ef[1]) \in Range(bridges)
                 /\ TokenIn(ef[2]) = TokenOut(ef[1])
                 /\ ef[1].pool.id # ef[2].pool.id}}

EnumerationError(q) ==
    FirstFailure(<<
        Check(q.hops = 0 \/ q.hops > MaxHops, "UnsupportedHopCount"),
        Check(q.pools = << >>, "EmptyPoolSet"),
        Check(Len(q.pools) > MaxPools, "PoolSetTooLarge"),
        Check(q.intent.tokens[1] = q.intent.tokens[2], "SameAssetPair"),
        Check(\E k \in DOMAIN q.pools : \E t \in 1..2 : q.pools[k].tokens[t][1] # q.intent.chain,
              "PoolChainMismatch")>>, "none")

EnumerateCandidates(q) ==
    LET edges == EdgesOf(q)
        bridges == Bridges(q, edges)
        kept == SubSeq(bridges, 1, Min({Len(bridges), MaxBridges}))
        paths == SetToSortSeq(PathsOf(q, edges, kept), LAMBDA a, b: LexLess(PathKey(a), PathKey(b)))
    IN  [paths |-> SubSeq(paths, 1, Min({Len(paths), MaxCandidates})),
         truncated |-> Len(bridges) > MaxBridges \/ Len(paths) > MaxCandidates]

(***************************************************************************)
(* The quote of one path for one input.                                    *)
(***************************************************************************)
PoolFreshnessError(q, d) ==
    LET seen == <<EvaluateFreshness(q.policy, d.at, q.now),
                  EvaluateFreshness(DefaultPolicy, d.at, q.now)>>
        verdict(f) == CASE f = "Stale" -> "StalePoolState" [] f = "ResyncRequired" -> f
                        [] f = "Invalid" -> "Internal" [] OTHER -> "none"
    IN  FirstFailure(<<Check(d.seq = 0, "ResyncRequired"),
                       Check(d.at <= 0, "StalePoolState"),
                       Check(seen[1] # "Fresh", verdict(seen[1])),
                       Check(seen[2] # "Fresh", verdict(seen[2]))>>, "none")

RouteAssessmentError(q) ==
    LET a == q.assess
    IN  FirstFailure(<<
            Check(a.asset[1] # q.intent.chain, "TaxAssessmentMismatch"),
            Check(a.asset # AssessedAsset(q.intent), "TaxAssessmentMismatch"),
            Check(a.status # "Fresh" \/ a.seq = 0, "TaxAssessmentNotFresh"),
            Check(EvaluateFreshness(q.policy, a.at, q.now) # "Fresh", "TaxAssessmentNotFresh"),
            Check(EvaluateFreshness(DefaultPolicy, a.at, q.now) # "Fresh",
                  "TaxAssessmentNotFresh")>>, "none")

CpmmImpact(p, dir, in) ==
    LET eff == in - (in * p.fee) \div BpsOne
    IN  (BpsOne * eff) \div (p.r[dir] + eff)

Swap(kind, p, dir, in) ==
    CASE kind = "Cpmm" -> CpmmExactInput(p, dir, in)
      [] kind = "Clmm" -> ClmmExactInput(p, dir, in)
      [] kind = "Bin" -> BinExactInput(p, dir, in)

HopImpact(q, e, in) ==
    LET p == e.pool.state IN
    CASE e.pool.kind = "Cpmm" -> CpmmImpact(p, e.dir, in)
      [] e.pool.kind = "Clmm" /\ q.depth # << >> -> ClmmImpact(p.s, ClmmRun(p, e.dir, in).s)
      [] e.pool.kind = "Bin" /\ q.depth # << >> -> BinImpact(p, BinRun(p, e.dir, in).active)
      [] OTHER -> e.pool.impact

HopOutcome(q, e, in, r) ==
    [ok |-> r.ok, out |-> r.out, fee |-> (in * e.pool.state.fee) \div BpsOne,
     impact |-> IF r.ok THEN HopImpact(q, e, in) ELSE NoAmount]

SimulateHop(q, e, in) == HopOutcome(q, e, in, Swap(e.pool.kind, e.pool.state, e.dir, in))

NoQuote(err) == [ok |-> FALSE, err |-> err, net |-> 0]

\* RoutingError::HopSimulationFailed names the family of the pool.
HopSimulationFailed == [Cpmm |-> "CpmmHopFailed", Clmm |-> "ClmmHopFailed", Bin |-> "BinHopFailed"]

\* A hop takes what the one before it paid; a hop that fails ends the route.
QuoteHops(q, path, paid) ==
    FoldLeft(LAMBDA hops, e :
                IF hops # << >> /\ ~Last(hops).ok THEN hops
                ELSE Append(hops, SimulateHop(q, e, IF hops = << >> THEN paid ELSE Last(hops).out)),
             << >>, path)

\* What the hops pay, as a route and as a change of the wallet's balances.
QuoteOfHops(q, path, in, paid, hops) ==
    LET i == q.intent
        failed == {k \in DOMAIN hops : ~hops[k].ok}
        impacts == {hops[k].impact : k \in DOMAIN hops}
        impact == IF NoAmount \in impacts THEN NoAmount ELSE Max(impacts)
        gross == Last(hops).out
        bought == ApplyBuyTax(gross, q.assess.buyTax)
        fee == IF Len(path) = 1 THEN hops[1].fee ELSE 0
        branch == [amount |-> in, out |-> IF i.side = "Buy" THEN bought.net ELSE gross,
                   outAsset |-> i.tokens[2],
                   legs |-> [k \in DOMAIN path |->
                       [venue |-> path[k].pool.venue, pool |-> path[k].pool.ref,
                        tokens |-> <<TokenIn(path[k]), TokenOut(path[k])>>,
                        in |-> IF k = 1 THEN paid ELSE hops[k - 1].out, out |-> hops[k].out]],
                   state |-> [at |-> Min({path[k].pool.at : k \in DOMAIN path}),
                              seq |-> Min({path[k].pool.seq : k \in DOMAIN path})]]
        delta == IF i.side = "Buy" THEN BuyDelta(i.tokens, in, gross, fee, q.assess.buyTax)
                                   ELSE SellDelta(i.tokens, in, gross, fee, q.assess.sellTax)
    IN  IF failed # {} THEN NoQuote(HopSimulationFailed[path[Min(failed)].pool.kind])
        ELSE IF q.maxImpact # 0 /\ impact = NoAmount THEN NoQuote("ImpactUnavailable")
        ELSE IF q.maxImpact # 0 /\ impact > q.maxImpact THEN NoQuote("ImpactExceedsCap")
        ELSE IF i.side = "Buy" /\ bought.error # "none" THEN NoQuote("ZeroNetOutput")
        ELSE IF RouteError(branch) # "none" THEN NoQuote(RouteError(branch))
        ELSE IF ~DeltaValid(delta) THEN NoQuote("Internal")
        ELSE [ok |-> TRUE, err |-> "none", net |-> branch.out, branch |-> branch,
              delta |-> delta, impact |-> impact, hops |-> Len(path), path |-> path]

QuotePath(q, path, in) ==
    LET stale == {k \in DOMAIN path : PoolFreshnessError(q, path[k].pool) # "none"}
        sold == ApplySellTax(in, q.assess.sellTax)
        paid == IF q.intent.side = "Sell" THEN sold.net ELSE in
    IN  IF stale # {} THEN NoQuote(PoolFreshnessError(q, path[Min(stale)].pool))
        ELSE IF q.intent.side = "Sell" /\ sold.error # "none" THEN NoQuote("ZeroHopOutput")
        ELSE IF paid = 0 THEN NoQuote("ZeroHopOutput")
        ELSE QuoteOfHops(q, path, in, paid, QuoteHops(q, path, paid))

(***************************************************************************)
(* Scores: the output left after gas, where gas is known and priced.       *)
(***************************************************************************)
NetAfterGas(q, net, cost) ==
    LET converted == (cost * q.gasPrice[1]) \div q.gasPrice[2]
    IN  IF cost = 0 \/ q.gasPrice = << >> THEN net
        ELSE IF net > converted THEN net - converted ELSE 0

PrimaryNet(q, quote) == NetAfterGas(q, quote.net, q.gas[quote.hops])

\* validate_score: a cost is of the traded pair, and nothing is netted upwards.
ScoreInconsistent(q, quote) ==
    LET d == quote.delta IN
    \/ d.net > d.gross
    \/ d.fee > 0 /\ d.tokens[1] \notin Range(q.intent.tokens)
    \/ d.tax > 0 /\ d.taxAsset \notin Range(q.intent.tokens)

DepthOf(q, quote) ==
    LET e == quote.path[1]
        in == quote.branch.legs[1].in
    IN  IF e.pool.kind = "Clmm" THEN ClmmProfile(e.pool.state, e.dir, in, q.depth)
                                ELSE BinProfile(e.pool.state, e.dir, in, q.depth)

\* Only a direct route through a pool whose depth is measured has a depth to compare.
RankedDepth(q, quote) ==
    IF q.depth = << >> \/ quote.hops # 1 \/ quote.path[1].pool.kind = "Cpmm"
    THEN Unusable ELSE DepthOf(q, quote)

Deeper(x, y) == x.usable /\ (y.usable => DeeperThan(x, y))

\* Equal on everything that is paid: x and y are the depths of a and b.
TieBefore(a, b, x, y) ==
    IF Deeper(x, y) \/ Deeper(y, x) THEN Deeper(x, y) ELSE LexLess(PathKey(a.path), PathKey(b.path))

\* A fault: gas does not count.
ScoredByOutput(q, a, b) ==
    LexLess(<<-a.net>> \o PathKey(a.path), <<-b.net>> \o PathKey(b.path))

\* compare_scored: output after gas, output, gas, depth, legs, key.
ScoredBefore(q, a, b) ==
    LET key(x) == <<-PrimaryNet(q, x), -x.net, q.gas[x.hops]>>
    IN  IF key(a) # key(b) THEN LexLess(key(a), key(b))
        ELSE TieBefore(a, b, RankedDepth(q, a), RankedDepth(q, b))

\* aggregate_failure: what is reported when no candidate could be quoted.
AggregateFailure(failures) ==
    IF Cardinality(failures) = 1
       /\ failures \subseteq {"ImpactUnavailable", "ImpactExceedsCap", "Internal"}
                             \cup Range(HopSimulationFailed)
    THEN CHOOSE f \in failures : TRUE ELSE "NoViableRoute"

\* What is checked of the request itself, and then of the assessment and the pools.
IntakeError(q) ==
    FirstFailure(<<
        Check(q.intent.tokens[1] = q.intent.tokens[2], "SameAssetPair"),
        Check(q.intent.amountType # "InputAssetAtomic", "UnsupportedAmountType"),
        Check(q.hops = 0 \/ q.hops > MaxHops, "UnsupportedHopCount"),
        Check(IntentError(q.intent, q.now) # "none", IntentError(q.intent, q.now)),
        Check(q.amount = 0 \/ q.amount > q.intent.amount, "InputConservationViolated")>>, "none")

ContextError(q) ==
    IF RouteAssessmentError(q) # "none" THEN RouteAssessmentError(q) ELSE EnumerationError(q)

RequestError(q) == IF IntakeError(q) # "none" THEN IntakeError(q) ELSE ContextError(q)

Quotes(q) ==
    LET paths == EnumerateCandidates(q).paths
    IN  {QuotePath(q, paths[k], q.amount) : k \in DOMAIN paths}

\* The request of the preview that a quote, or the branches of a split, is shown to.
PreviewOf(q, quotes) ==
    [kind |-> IF Len(quotes) = 1 THEN "single" ELSE "split", intent |-> q.intent, now |-> q.now,
     plan |-> [b \in DOMAIN quotes |-> quotes[b].branch],
     deltas |-> [b \in DOMAIN quotes |-> quotes[b].delta],
     expected |-> Total([b \in DOMAIN quotes |-> quotes[b].net]),
     state |-> [at |-> Min({quotes[b].branch.state.at : b \in DOMAIN quotes}),
                seq |-> Min({quotes[b].branch.state.seq : b \in DOMAIN quotes})]]

PreviewAccepts(q, quotes) ==
    LET r == PreviewOf(q, quotes)
    IN  IF Len(quotes) = 1 THEN ValidateDeltaPreview(r, q.assess) = "none"
                           ELSE ValidateSplitDeltaPreview(r, q.assess) = "none"

\* Quotes in the order of their scores.
Baseline(q, quotes) == SetToSortSeq({x \in quotes : x.ok}, LAMBDA a, b: ScoredBefore(q, a, b))

\* The ranked quotes that the preview accepts, best first.
Acceptable(q, ranked) == SelectSeq(ranked, LAMBDA x: PreviewAccepts(q, <<x>>))

SelectSingle(final) == IF final = << >> THEN Failed("SelectedRejected") ELSE Done(final)

PlanQuoted(q, quotes) ==
    IF \E x \in quotes : x.ok /\ ScoreInconsistent(q, x) THEN Failed("ScoreInconsistent")
    ELSE IF \A x \in quotes : ~x.ok THEN Failed(AggregateFailure({x.err : x \in quotes}))
    ELSE SelectSingle(Acceptable(q, Baseline(q, quotes)))

PlanSinglePath(q) ==
    IF RequestError(q) # "none" THEN Failed(RequestError(q)) ELSE PlanQuoted(q, Quotes(q))

-----------------------------------------------------------------------------
(* The direct planner, which prices one leg per pool and takes the best, with the *)
(* tax-aware swaps it is built from; the quote of an outside provider on the same *)
(* terms; and the benchmark that compares the two.                                *)

(***************************************************************************)
(* A swap with the token's own tax.                                        *)
(***************************************************************************)
NoLeg(err) == [ok |-> FALSE, err |-> err]

RawLeg(in, gross, net, fee, tax) ==
    [ok |-> TRUE, err |-> "none", in |-> in, gross |-> gross, net |-> net, fee |-> fee, tax |-> tax]

\* simulate_tax_aware_*_buy: the tax comes out of what the pool pays.
BoughtLeg(p, in, bps, r) ==
    LET taxed == ApplyBuyTax(r.out, bps)
    IN  IF ~r.ok THEN NoLeg(r.err)
        ELSE IF bps > 0 /\ taxed.error # "none" THEN NoLeg(taxed.error)
        ELSE RawLeg(in, r.out, taxed.net, (in * p.fee) \div BpsOne, taxed.tax)

TaxedBuy(kind, p, dir, in, bps) == BoughtLeg(p, in, bps, Swap(kind, p, dir, in))

\* simulate_tax_aware_*_sell: the tax comes out of what the wallet sends.
SoldLeg(p, taxed, r) ==
    IF ~r.ok THEN NoLeg(r.err)
    ELSE RawLeg(taxed.net, r.out, r.out, (taxed.net * p.fee) \div BpsOne, taxed.tax)

TaxedSell(kind, p, dir, in, bps) ==
    LET taxed == ApplySellTax(in, bps)
    IN  IF bps > 0 /\ taxed.error # "none" THEN NoLeg(taxed.error)
        ELSE SoldLeg(p, taxed, Swap(kind, p, dir, taxed.net))

\* simulate_tax_aware_*_roundtrip: the proceeds of a buy sold into the pool the buy left behind.
WayBack(kind, staged, dir, there, sellTax) ==
    IF there.ok THEN TaxedSell(kind, staged, Other(dir), there.net, sellTax) ELSE there

RoundTrip(kind, p, dir, in, buyTax, sellTax) ==
    WayBack(kind, IF kind = "Cpmm" THEN CpmmAfter(p, dir, in) ELSE ClmmAfter(p, dir, in), dir,
            TaxedBuy(kind, p, dir, in, buyTax), sellTax)

(***************************************************************************)
(* One leg.                                                                *)
(***************************************************************************)
LegFreshness(policy, at, now) ==
    LET seen == EvaluateFreshness(policy, at, now) IN
    CASE seen = "Fresh" -> "none" [] seen = "Stale" -> "StaleState"
      [] seen = "ResyncRequired" -> seen [] OTHER -> "Internal"

ValidateTaxAssessment(q) ==
    LET a == q.assess IN
    FirstFailure(<<Check(a.asset[1] # q.intent.chain, "TaxChainMismatch"),
                   Check(a.asset # AssessedAsset(q.intent), "TaxAssetMismatch"),
                   Check(a.status = "Stale", "StaleState"),
                   Check(a.status = "ResyncRequired", "ResyncRequired")>>,
                 LegFreshness(q.policy, a.at, q.now))

ContainsPair(d, i) ==
    /\ \A t \in 1..2 : d.tokens[t][1] = i.chain
    /\ {i.tokens[1], i.tokens[2]} \subseteq {d.tokens[1], d.tokens[2]}

SwapDir(d, token) == IF token = d.tokens[1] THEN 0 ELSE 1

\* finish_leg: what the tax took is accounted for, and the pool's fee is within its rate.
FinishLeg(q, d, raw) ==
    LET i == q.intent IN
    IF ~raw.ok THEN raw
    ELSE IF \/ i.side = "Buy" /\ raw.net + raw.tax # raw.gross
            \/ i.side = "Sell" /\ raw.in + raw.tax # i.amount
    THEN NoLeg("InputConservationViolated")
    ELSE IF raw.fee * BpsOne > raw.in * d.state.fee THEN NoLeg("Internal")
    ELSE raw

\* simulate_leg, of a pool that holds the pair.
SimulateLeg(q, d) ==
    LET i == q.intent
        dir == SwapDir(d, i.tokens[1])
        raw == IF i.side = "Buy" THEN TaxedBuy(d.kind, d.state, dir, q.amount, q.assess.buyTax)
                                 ELSE TaxedSell(d.kind, d.state, dir, q.amount, q.assess.sellTax)
    IN  IF q.amount # i.amount THEN NoLeg("InputConservationViolated")
        ELSE IF LegFreshness(q.policy, d.at, q.now) # "none" THEN NoLeg(LegFreshness(q.policy, d.at, q.now))
        ELSE IF ValidateTaxAssessment(q) # "none" THEN NoLeg(ValidateTaxAssessment(q))
        ELSE FinishLeg(q, d, raw)

(***************************************************************************)
(* The plan: the most output, then the pool's reference and venue.         *)
(***************************************************************************)
PathBefore(a, b) ==
    LexLess(<<-a.leg.net, LabelRank(a.pool.ref), LabelRank(a.pool.venue)>>,
            <<-b.leg.net, LabelRank(b.pool.ref), LabelRank(b.pool.venue)>>)

\* to_route_plan: the leg of the plan promises the net output.
ToRoutePlan(q, best) ==
    [amount |-> q.amount, out |-> best.leg.net, outAsset |-> q.intent.tokens[2],
     legs |-> <<[venue |-> best.pool.venue, pool |-> best.pool.ref, tokens |-> q.intent.tokens,
                 in |-> best.leg.in, out |-> best.leg.net]>>,
     state |-> [at |-> best.pool.at, seq |-> best.pool.seq]]

\* validate_shape of what was chosen.
Validated(plan) == IF RouteError(plan) # "none" THEN Failed(RouteError(plan)) ELSE Done(plan)

ChooseDirect(q, ranked) ==
    IF ranked = {} THEN Failed("NoViableRoute")
    ELSE Validated(ToRoutePlan(q, CHOOSE a \in ranked : \A b \in ranked : ~PathBefore(b, a)))

\* Every pool of the pair, with its leg; a leg that fails drops its pool.
PairLegs(q) ==
    {[pool |-> q.pools[k], leg |-> SimulateLeg(q, q.pools[k])] :
        k \in {k \in DOMAIN q.pools : ContainsPair(q.pools[k], q.intent)}}

PlanDirectRoute(q) ==
    IF IntentError(q.intent, q.now) # "none" THEN Failed(IntentError(q.intent, q.now))
    ELSE IF MaxCandidates = 0 \/ Len(q.pools) > MaxCandidates THEN Failed("BudgetExceeded")
    ELSE IF ValidateTaxAssessment(q) # "none" THEN Failed(ValidateTaxAssessment(q))
    ELSE ChooseDirect(q, {a \in PairLegs(q) : a.leg.ok})

(***************************************************************************)
(* A provider's quote, held to the same tax, cap and preview.              *)
(***************************************************************************)
QuoteProviderRoute(q, offered, impact) ==
    LET i == q.intent
        sold == ApplySellTax(q.amount, q.assess.sellTax)
        bought == ApplyBuyTax(offered, q.assess.buyTax)
        swapped == IF i.side = "Sell" THEN sold.net ELSE q.amount
        net == IF i.side = "Buy" THEN bought.net ELSE offered
        branch == [amount |-> q.amount, out |-> net, outAsset |-> i.tokens[2],
                   legs |-> <<[venue |-> "v1", pool |-> "p1", tokens |-> i.tokens,
                               in |-> swapped, out |-> offered]>>,
                   state |-> [at |-> q.now, seq |-> 1]]
        delta == IF i.side = "Buy" THEN BuyDelta(i.tokens, q.amount, offered, 0, q.assess.buyTax)
                                   ELSE SellDelta(i.tokens, q.amount, offered, 0, q.assess.sellTax)
        quote == [ok |-> TRUE, err |-> "none", net |-> net, branch |-> branch, delta |-> delta]
        verdict == FirstFailure(<<
            Check(IntentError(i, q.now) # "none", "InvalidTradeIntent"),
            Check(RouteAssessmentError(q) # "none", RouteAssessmentError(q)),
            Check(q.amount = 0, "InputConservationViolated"),
            Check(i.side = "Sell" /\ sold.error # "none", "ZeroHopOutput"),
            Check(offered = 0, "ZeroHopOutput"),
            Check(q.maxImpact # 0 /\ impact = NoAmount, "ImpactUnavailable"),
            Check(q.maxImpact # 0 /\ impact > q.maxImpact, "ImpactExceedsCap"),
            Check(i.side = "Buy" /\ bought.error # "none", "ZeroNetOutput"),
            Check(RouteError(branch) # "none", RouteError(branch)),
            Check(~DeltaValid(delta), "Internal")>>, "none")
    IN  IF verdict # "none" THEN NoQuote(verdict)
        ELSE IF ~PreviewAccepts(q, <<quote>>) THEN NoQuote("SelectedRejected")
        ELSE quote

\* compare_route: local and provider are [tokens, in, out, at], policy [bps, maxLocal, maxProvider, least].
CompareRoute(local, provider, policy, now) ==
    LET diff == IF local.out > provider.out THEN local.out - provider.out ELSE provider.out - local.out
        deviation == (BpsOne * diff) \div provider.out
        verdict(v) == [verdict |-> v, deviation |-> deviation,
                       direction |-> IF local.out >= provider.out THEN "LocalBetter" ELSE "ProviderBetter"]
    IN  IF local.tokens # provider.tokens THEN Failed("PairMismatch")
        ELSE IF local.in # provider.in THEN Failed("InputMismatch")
        ELSE IF local.in = 0 THEN Failed("ZeroInput")
        ELSE IF local.out = 0 THEN Failed("ZeroLocalOutput")
        ELSE IF now < local.at THEN Failed("LocalFromFuture")
        ELSE IF now < provider.at THEN Failed("ProviderFromFuture")
        ELSE IF local.in < policy.least THEN Done([verdict |-> "BelowLargeOrderThreshold"])
        ELSE IF now - local.at > policy.maxLocal THEN Done([verdict |-> "LocalStateStale"])
        ELSE IF now - provider.at > policy.maxProvider THEN Done([verdict |-> "ProviderStale"])
        ELSE IF provider.out = 0 THEN Failed("ZeroProviderOutput")
        ELSE IF deviation =< policy.bps THEN Done(verdict("Agree")) ELSE Done(verdict("Disagree"))

\* build_swap_instruction: the floor of a swap is at most what was quoted for it.
BuildSwap(in, floor, r) ==
    IF ~r.ok THEN Failed(r.err)
    ELSE IF floor > r.out THEN Failed("MinAmountOutExceedsQuote")
    ELSE Done([in |-> in, min |-> floor])

\* recommend_slippage, capped by the user's own limit; Second is a thousand milliseconds.
RecommendSlippage(signals, policy, cap, second) ==
    LET latency == signals.state + signals.confirmation
        raw == policy.base + signals.volatility + signals.uncertainty
                 + CeilDiv(latency * policy.drift, second)
    IN  IF raw > cap THEN cap ELSE raw

(***************************************************************************)
(* Contracts.                                                              *)
(***************************************************************************)
\* direct is what plan_direct_route returned, hops the one-hop quotes, best the one that pays most.
AgreeOn(q, direct, hops, best) ==
    /\ direct.ok <=> hops # {}
    /\ direct.ok => direct.out.out = best.net
    /\ hops # {} => LET offered == QuoteProviderRoute(q, best.delta.gross, NoAmount)
                    IN  offered.ok => offered.net = best.net

\* The two planners and the provider's quote price a direct trade alike: what plan_direct_route
\* picks is the most that any one-hop quote of plan_single_path pays, and a provider that offers
\* that path's gross output is quoted the same net output.
PlannersAgree(q, quotes) ==
    LET hops == {x \in quotes : x.ok /\ x.hops = 1} IN
    RequestError(q) = "none" /\ ~EnumerateCandidates(q).truncated /\ q.maxImpact = 0 =>
        AgreeOn(q, PlanDirectRoute(q), hops, CHOOSE x \in hops : \A y \in hops : y.net =< x.net)

\* A local quote and a provider's disagree exactly when they lie more than the tolerance apart, in
\* basis points of the provider's output rounded down.
ComparisonIsExact(q, mine, theirs, bps) ==
    LET quote(out) == [tokens |-> q.intent.tokens, in |-> q.amount, out |-> out, at |-> q.now]
        result == CompareRoute(quote(mine), quote(theirs),
                               [bps |-> bps, maxLocal |-> 0, maxProvider |-> 0, least |-> 1], q.now)
        apart == IF mine > theirs THEN mine - theirs ELSE theirs - mine
    IN  result.ok =>
            result.out.verdict = (IF apart * BpsOne < (bps + 1) * theirs THEN "Agree" ELSE "Disagree")

\* Whatever slippage is recommended, the floor it gives can be built into the swap it was quoted
\* for, and slower state never raises that floor.
FloorsBuild(in, cap, r) ==
    LET advice(delay) == RecommendSlippage(
            [state |-> delay, confirmation |-> 1, volatility |-> 1, uncertainty |-> 0],
            [base |-> 1, drift |-> 3], cap, 4)
        floor(delay) == CeilDiv(r.out * (BpsOne - advice(delay)), BpsOne)
    IN  r.ok => \A delay \in 0..4 : /\ BuildSwap(in, floor(delay), r).ok
                                  /\ floor(delay + 1) =< floor(delay)

RecommendedFloorBuilds(kind, p, dir, in, cap) == FloorsBuild(in, cap, Swap(kind, p, dir, in))

\* Buying a token and selling it again, both taxed, never returns more than it cost.
RoundTripLoses(kind, p, dir, in, buyTax, sellTax) ==
    LET back == RoundTrip(kind, p, dir, in, buyTax, sellTax) IN
    back.ok => back.net =< in
=============================================================================
