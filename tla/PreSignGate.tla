----------------------------- MODULE PreSignGate ------------------------------
(***************************************************************************)
(* Everything between a priced plan and a signature: the tax arithmetic,   *)
(* the net delta, the domain's preview, the pre-sign revalidation of a     *)
(* single route and of a split, the digest a signing request is bound to,  *)
(* and the verification of a provider's swap.                              *)
(*                                                                         *)
(* An asset is <<chain, address>>.  A request r holds what the code passes *)
(* by reference: r.intent, r.approval, r.plan (a sequence of branches, one *)
(* for a single route), r.deltas, r.basis, r.tax, r.balance, r.allowances. *)
(* An amount that is absent (a fee, a tax, a limit price, a cap, an        *)
(* expiry) is 0 or NoPrice.                                                *)
(***************************************************************************)
EXTENDS Kernel

CONSTANTS DefaultStale,  \* FreshnessPolicy::default().max_staleness_ms
          DefaultSkew,   \* FreshnessPolicy::default().max_future_skew_ms
          MaxSplitLegs,  \* domain::MAX_SPLIT_LEGS
          MaxCalldata,   \* provider_verification::MAX_CALLDATA_BYTES
          MaxPayload,    \* execution_relay::MAX_SIGNED_PAYLOAD_BYTES
          GateCases      \* what the gate may be asked: a priced request, the one that was signed
                         \* instead, the payloads handed over and the providers' offers

VARIABLE gate            \* the case at the gate, if any

IsSeq(s) == s \in Seq({s[i] : i \in DOMAIN s})

\* u128 amounts, of legs and of simulated deltas.
Amounts == 0..AmountMax

IsLeg(leg) ==
    /\ leg = [venue |-> leg.venue, pool |-> leg.pool, tokens |-> leg.tokens, in |-> leg.in,
              out |-> leg.out]
    /\ {leg.in, leg.out} \subseteq Amounts

IsDelta(d) ==
    /\ d = [tokens |-> d.tokens, in |-> d.in, gross |-> d.gross, net |-> d.net, fee |-> d.fee,
            tax |-> d.tax, taxAsset |-> d.taxAsset]
    /\ {d.in, d.gross, d.net, d.fee, d.tax} \subseteq Amounts

\* What the caller hands to the gate: a plan of branches with a delta each.  A single route has one
\* branch, the whole input, and one allowance, of the router.
PricedRequest(r) ==
    /\ r.kind \in {"single", "split"}
    /\ IsSeq(r.plan) /\ IsSeq(r.approved) /\ IsSeq(r.deltas) /\ IsSeq(r.allowances)
    /\ \A b \in DOMAIN r.plan : /\ r.plan[b].amount \in Amounts /\ IsSeq(r.plan[b].legs)
                                /\ \A k \in DOMAIN r.plan[b].legs : IsLeg(r.plan[b].legs[k])
    /\ \A b \in DOMAIN r.deltas : IsDelta(r.deltas[b])
    /\ r.kind = "single" => /\ Len(r.plan) = 1 /\ Len(r.deltas) = 1 /\ Len(r.allowances) = 1
                            /\ r.plan[1].amount = r.deltas[1].in
    /\ \A a \in DOMAIN r.allowances : r.allowances[a].amount \in Amounts
    /\ {r.expected, r.balance.amount, r.minOut.amount} \subseteq Amounts
    /\ {r.intent.slippage, r.intent.buyCap, r.intent.sellCap, r.tax.buyTax, r.tax.sellTax}
          \subseteq Nat

GateCase(c) ==
    /\ PricedRequest(c.request) /\ PricedRequest(c.signed)
    /\ c.sent \subseteq [size : Nat, bytes : STRING]
    /\ \A o \in c.offers : o.proposal.minReceive \in Int

ASSUME GateAssumption == /\ DefaultStale \in Nat \ {0}
                         /\ DefaultSkew \in Nat
                         /\ MaxSplitLegs \in Nat \ {0}
                         /\ MaxCalldata \in Nat \ {0}
                         /\ MaxPayload \in Nat \ {0}
                         /\ \A c \in GateCases : GateCase(c)

NoPrice == [num |-> 0, den |-> 0, assets |-> << >>]

LegsOf(plan) == FlattenSeq([b \in DOMAIN plan |-> plan[b].legs])

(***************************************************************************)
(* Freshness.                                                              *)
(***************************************************************************)
DefaultPolicy == [stale |-> DefaultStale, skew |-> DefaultSkew]

EvaluateFreshness(policy, at, now) ==
    CASE policy.stale < 1 \/ at <= 0 \/ now <= 0 -> "Invalid"
      [] policy.stale >= 1 /\ at > 0 /\ now > 0 /\ at > now ->
            IF at - now > policy.skew THEN "ResyncRequired" ELSE "Fresh"
      [] OTHER -> IF now - at > policy.stale THEN "Stale" ELSE "Fresh"

ClassifyFreshness(policy, state, now) ==
    IF state.seq = 0 THEN "ResyncRequired" ELSE EvaluateFreshness(policy, state.at, now)

(***************************************************************************)
(* Domain validation of the intent, the route and the split.               *)
(***************************************************************************)
PriceAssets(side, tokens) == IF side = "Buy" THEN tokens ELSE <<tokens[2], tokens[1]>>

OffChain(tokens, chain) == \E t \in 1..2 : tokens[t][1] # chain

RiskError(i) ==
    FirstFailure(<<Check(i.maxCost # 0 /\ i.maxCostAsset # i.tokens[1],
                         "MaxTotalCostAssetMismatch")>>, "none")

IntentError(i, now) ==
    FirstFailure(<<
        Check(i.amount = 0, "ZeroTradeAmount"),
        Check(i.tokens[1] = i.tokens[2], "SameAssetPair"),
        Check(OffChain(i.tokens, i.chain), "ChainMismatch"),
        Check(i.order = "Market" /\ i.limit # NoPrice, "UnexpectedLimitPrice"),
        Check(i.order = "Limit" /\ i.limit = NoPrice, "MissingLimitPrice"),
        Check(i.limit # NoPrice /\ i.limit.assets # PriceAssets(i.side, i.tokens),
              "LimitPriceAssetMismatch"),
        Check(i.expiry # 0 /\ i.expiry <= now, "Expired")>>,
        RiskError(i))

LegError(leg) ==
    FirstFailure(<<Check(leg.venue = "" \/ leg.pool = "", "EmptyRouteRef"),
                   Check(leg.tokens[1] = leg.tokens[2], "SameAssetPair"),
                   Check(leg.in = 0 \/ leg.out = 0, "ZeroTradeAmount")>>, "none")

RouteOffChain(legs, chain) == \E k \in DOMAIN legs : OffChain(legs[k].tokens, chain)

RouteTokens(legs) == <<Head(legs).tokens[1], Last(legs).tokens[2]>>

\* A first leg that takes more than the amount at hand, a later one more than the one before paid.
Overdrawn(legs, amount) == legs # << >> /\ Head(legs).in > amount
Unfunded(legs) == \E k \in 1..(Len(legs) - 1) : legs[k + 1].in > legs[k].out

RouteError(b) ==
    FirstFailure(<<
        Check(b.legs = << >>, "EmptyRoute"),
        Check(\E k \in DOMAIN b.legs : LegError(b.legs[k]) # "none", "InvalidLeg"),
        Check(\E k \in 1..(Len(b.legs) - 1) : b.legs[k].tokens[2] # b.legs[k + 1].tokens[1],
              "RouteTokenMismatch"),
        Check(b.legs # << >> /\ b.outAsset # Last(b.legs).tokens[2], "RouteOutputAssetMismatch"),
        Check(b.out = 0, "ZeroTradeAmount")>>, "none")

BranchError(i, b) ==
    FirstFailure(<<
        Check(b.amount = 0, "ZeroTradeAmount"),
        Check(RouteError(b) # "none", RouteError(b)),
        Check(b.legs # << >> /\ RouteTokens(b.legs) # i.tokens, "SplitLegTokenMismatch"),
        Check(RouteOffChain(b.legs, i.chain), "ChainMismatch"),
        Check(Unfunded(b.legs) \/ Overdrawn(b.legs, b.amount), "SplitLegUnmodeledFunding")>>, "none")

PoolReused(plan) ==
    LET legs == LegsOf(plan)
    IN  \E a, b \in DOMAIN legs : a < b /\ legs[a].pool = legs[b].pool

InvalidBranch(i, plan) == \E b \in DOMAIN plan : BranchError(i, plan[b]) # "none"

SplitPlanChecks(i, r) ==
    <<Check(r.plan = << >>, "EmptySplitPlan"),
      Check(Len(r.plan) > MaxSplitLegs, "SplitLegCountExceeded"),
      Check(InvalidBranch(i, r.plan), "InvalidBranch"),
      Check(PoolReused(r.plan), "SplitPoolReused"),
      Check(r.expected > AmountMax, "SplitOutputOverflow"),
      Check(r.expected # Total([b \in DOMAIN r.plan |-> r.plan[b].out]),
            "SplitOutputConservationViolated"),
      Check(r.expected = 0, "ZeroTradeAmount"),
      Check(r.state.at <= 0, "StaleMarketState"),
      Check(r.state.seq = 0, "ResyncRequired"),
      Check(r.plan # << >> /\
            r.state # [at |-> Min({r.plan[b].state.at : b \in DOMAIN r.plan}),
                       seq |-> Min({r.plan[b].state.seq : b \in DOMAIN r.plan})],
            "SplitStateMismatch")>>

SplitPlanError(i, r) == FirstFailure(SplitPlanChecks(i, r), "none")

(***************************************************************************)
(* The token's tax: what an observation lets through, and what it costs.   *)
(***************************************************************************)
AssessedAsset(i) == IF i.side = "Buy" THEN i.tokens[2] ELSE i.tokens[1]

TaxObservationValid(o) ==
    /\ o.router # ""
    /\ o.at < o.expires
    /\ o.sells => o.sellable

TaxSafetyChecks(i, o, now, policy) ==
    LET fresh == EvaluateFreshness(policy, o.at, now)
    IN  <<Check(IntentError(i, now) # "none", "InvalidTradeIntent"),
          Check(~o.present, "MissingObservation"),
          Check(~TaxObservationValid(o), "InvalidTaxObservation"),
          Check(o.token[1] # i.chain, "ChainMismatch"),
          Check(o.token # AssessedAsset(i), "AssessedAssetMismatch"),
          Check(fresh = "Invalid", "FreshnessEvaluationFailed"),
          Check(fresh = "Stale", "StaleObservation"),
          Check(fresh = "ResyncRequired", "ResyncRequired"),
          Check(~o.buys, "BuySimulationFailed"),
          Check(~o.sellable, "TokenNotSellable"),
          Check(~o.sells, "SellSimulationFailed"),
          Check(o.buyTax > i.buyCap, "BuyTaxExceedsCap"),
          Check(o.sellTax > i.sellCap, "SellTaxExceedsCap")>>

TaxSafetyError(i, o, now, policy) == FirstFailure(TaxSafetyChecks(i, o, now, policy), "none")

\* A tax of bps on an amount, without forming amount * bps.
FloorBps(amount, bps) ==
    (amount \div BpsOne) * bps + ((amount % BpsOne) * bps) \div BpsOne

ApplyBuyTax(gross, bps) ==
    [tax |-> FloorBps(gross, bps), net |-> gross - FloorBps(gross, bps),
     error |-> FirstFailure(<<Check(gross = 0, "ZeroGrossOutput"),
                              Check(gross = FloorBps(gross, bps), "ZeroNetOutput")>>, "none")]

ApplySellTax(gross, bps) ==
    [tax |-> FloorBps(gross, bps), net |-> gross - FloorBps(gross, bps),
     error |-> FirstFailure(<<Check(gross = 0, "ZeroGrossInput"),
                              Check(gross = FloorBps(gross, bps), "ZeroNetInput")>>, "none")]

(***************************************************************************)
(* The net delta of one simulated quote, and of the branches of a split.   *)
(***************************************************************************)
\* A buy's tax is taken from what the pool pays out; a sell's from what the wallet sends, and
\* the delta's input is what the wallet sends.
BuyDelta(tokens, in, out, fee, bps) ==
    [tokens |-> tokens, in |-> in, gross |-> out, net |-> ApplyBuyTax(out, bps).net,
     fee |-> fee, tax |-> FloorBps(out, bps), taxAsset |-> tokens[2]]

SellDelta(tokens, in, out, fee, bps) ==
    [tokens |-> tokens, in |-> in, gross |-> out, net |-> out,
     fee |-> fee, tax |-> FloorBps(in, bps), taxAsset |-> tokens[1]]

DeltaValid(d) ==
    /\ d.tokens[1] # d.tokens[2]
    /\ d.tokens[1][1] = d.tokens[2][1]
    /\ d.in > 0 /\ d.gross > 0 /\ d.net > 0
    /\ d.net <= d.gross
    /\ d.fee <= d.in
    /\ \/ d.tax = 0 /\ d.net = d.gross
       \/ d.tax > 0 /\ d.taxAsset = d.tokens[2] /\ d.net + d.tax = d.gross
       \/ d.tax > 0 /\ d.taxAsset = d.tokens[1] /\ d.net = d.gross /\ d.in - d.tax >= d.fee

Sum(deltas, Part(_)) == Total([b \in DOMAIN deltas |-> Part(deltas[b])])

NoAsset == <<"", "">>

NoDelta == [tokens |-> <<NoAsset, NoAsset>>, in |-> 0, gross |-> 0, net |-> 0, fee |-> 0,
            tax |-> 0, taxAsset |-> NoAsset]

\* NoDelta when the branches cannot be added up.
AggregateDelta(deltas) ==
    LET taxed == {b \in DOMAIN deltas : deltas[b].tax > 0}
        d == [tokens |-> deltas[1].tokens,
              in |-> Sum(deltas, LAMBDA x: x.in), gross |-> Sum(deltas, LAMBDA x: x.gross),
              net |-> Sum(deltas, LAMBDA x: x.net), fee |-> Sum(deltas, LAMBDA x: x.fee),
              tax |-> Sum(deltas, LAMBDA x: x.tax),
              taxAsset |-> IF taxed = {} THEN NoAsset ELSE deltas[Min(taxed)].taxAsset]
    IN  IF /\ deltas # << >>
           /\ \A b \in DOMAIN deltas :
                 DeltaValid(deltas[b]) /\ deltas[b].tokens = deltas[1].tokens
           /\ \A b \in taxed : deltas[b].taxAsset = d.taxAsset
           /\ d.in <= AmountMax /\ d.gross <= AmountMax
           /\ DeltaValid(d)
        THEN d ELSE NoDelta

(***************************************************************************)
(* The execution preview.                                                  *)
(***************************************************************************)
\* Compared as exact 256-bit products on the net amounts.
SatisfiesLimit(side, in, net, limit) ==
    IF side = "Buy" THEN in * limit.den <= limit.num * net
                    ELSE net * limit.den >= limit.num * in

PreviewInternalError(d) ==
    LET outputCosts == IF d.tax > 0 /\ d.taxAsset = d.tokens[2] THEN d.tax ELSE 0
    IN  FirstFailure(<<
            Check(d.tokens[1] = d.tokens[2], "SameAssetPair"),
            Check(d.in = 0 \/ d.net = 0 \/ d.gross = 0, "ZeroSimulatedDelta"),
            Check(d.net > d.gross, "InconsistentNetEconomics"),
            Check(d.net + outputCosts > d.gross, "InconsistentNetEconomics")>>, "none")

AmountAndRiskError(i, d) ==
    FirstFailure(<<
        Check(i.maxCost # 0 /\ i.maxCostAsset # d.tokens[1], "MaxTotalCostAssetMismatch"),
        Check(i.maxCost # 0 /\ d.in > i.maxCost, "InconsistentNetEconomics"),
        Check(i.amountType # "InputAssetAtomic", "UnsupportedAmountType"),
        Check(d.in > i.amount, "InconsistentNetEconomics"),
        Check(~i.partial /\ d.in # i.amount, "InconsistentNetEconomics")>>, "none")

AggregateFreshnessError(state, now) ==
    LET fresh == EvaluateFreshness(DefaultPolicy, state.at, now)
    IN  FirstFailure(<<Check(state.at <= 0 \/ fresh \in {"Stale", "Invalid"}, "StaleMarketState"),
                       Check(fresh = "ResyncRequired" \/ state.seq = 0, "ResyncRequired")>>,
                     "none")

LimitError(i, d) ==
    IF i.limit # NoPrice /\ ~SatisfiesLimit(i.side, d.in, d.net, i.limit)
    THEN "LimitPriceViolated" ELSE "none"

\* What both kinds of plan are held to once their own shape is right.
CommonPreviewChecks(r, d) ==
    <<Check(AggregateFreshnessError(r.state, r.now) # "none",
            AggregateFreshnessError(r.state, r.now)),
      Check(AmountAndRiskError(r.intent, d) # "none", AmountAndRiskError(r.intent, d)),
      Check(LimitError(r.intent, d) # "none", LimitError(r.intent, d))>>

PreviewChecks(r, d) ==
    LET i == r.intent
        b == r.plan[1]
    IN  <<Check(IntentError(i, r.now) # "none", IntentError(i, r.now)),
          Check(RouteError(b) # "none", RouteError(b)),
          Check(PreviewInternalError(d) # "none", PreviewInternalError(d)),
          Check(b.legs # << >> /\ RouteTokens(b.legs)[1] # d.tokens[1], "RouteTokenMismatch"),
          Check(b.legs # << >> /\ RouteTokens(b.legs)[2] # d.tokens[2],
                "RouteOutputAssetMismatch"),
          Check(b.outAsset # d.tokens[2], "RouteOutputAssetMismatch"),
          Check(b.out # d.net, "RouteOutputAmountMismatch"),
          Check(RouteOffChain(b.legs, i.chain), "ChainMismatch"),
          Check(Overdrawn(b.legs, d.in), "RouteUnmodeledFunding"),
          Check(Unfunded(b.legs), "RouteUnmodeledFunding")>>

PreviewError(r, d) == FirstFailure(PreviewChecks(r, d) \o CommonPreviewChecks(r, d), "none")

SplitPreviewChecks(r, d) ==
    LET i == r.intent
    IN  <<Check(IntentError(i, r.now) # "none", IntentError(i, r.now)),
          Check(SplitPlanError(i, r) # "none", SplitPlanError(i, r)),
          Check(PreviewInternalError(d) # "none", PreviewInternalError(d)),
          Check(Total([b \in DOMAIN r.plan |-> r.plan[b].amount]) # d.in,
                "SplitInputConservationViolated"),
          Check(r.expected # d.net, "SplitOutputConservationViolated")>>

SplitPreviewError(r, d) ==
    FirstFailure(SplitPreviewChecks(r, d) \o CommonPreviewChecks(r, d), "none")

\* build_execution_preview: the delta must be the intent's trade, taxed on the assessed side.
BuildPreviewChecks(i, d) ==
    <<Check(~DeltaValid(d), "NetDeltaInconsistent"),
      Check(OffChain(d.tokens, i.chain), "BridgeInvalid"),
      Check(d.tokens # i.tokens, "BridgeInvalid"),
      Check(d.tax > 0 /\ d.taxAsset # AssessedAsset(i), "BridgeInvalid")>>

BuildPreviewError(i, d) == FirstFailure(BuildPreviewChecks(i, d), "none")

\* The tax a delta claims is the tax the assessment implies for its amounts.
TaxMatches(i, d, assessment) ==
    LET implied == IF i.side = "Buy" THEN FloorBps(d.gross, assessment.buyTax)
                                     ELSE FloorBps(d.in, assessment.sellTax)
    IN  /\ d.tax = implied
        /\ implied > 0 => d.taxAsset = AssessedAsset(i)

TaxMismatch(i, deltas, assessment) ==
    \E b \in DOMAIN deltas : ~TaxMatches(i, deltas[b], assessment)

OverCap(i, assessment) == IF i.side = "Buy" THEN assessment.buyTax > i.buyCap
                                            ELSE assessment.sellTax > i.sellCap

AssessmentChecks(i, deltas, assessment) ==
    <<Check(TaxMismatch(i, deltas, assessment), "BridgeInvalid"),
      Check(OverCap(i, assessment), "TaxCapExceeded")>>

AssessmentError(i, deltas, assessment) ==
    FirstFailure(AssessmentChecks(i, deltas, assessment), "none")

DeltaPreviewChecks(r, d, assessment) ==
    LET fresh == EvaluateFreshness(DefaultPolicy, r.state.at, r.now)
    IN  <<Check(AssessmentError(r.intent, r.deltas, assessment) # "none",
                AssessmentError(r.intent, r.deltas, assessment)),
          Check(fresh = "Invalid", "FreshnessUnavailable"),
          Check(BuildPreviewError(r.intent, d) # "none", BuildPreviewError(r.intent, d))>>

ValidateDeltaPreview(r, assessment) ==
    LET d == r.deltas[1] IN FirstFailure(DeltaPreviewChecks(r, d, assessment), PreviewError(r, d))

\* A branch's delta is not the branch's trade.
BranchMismatch(r) ==
    \E b \in DOMAIN r.plan \cap DOMAIN r.deltas :
        r.deltas[b].in # r.plan[b].amount \/ r.deltas[b].net # r.plan[b].out

SplitDeltaPreviewChecks(r, d, assessment) ==
    LET fresh == EvaluateFreshness(DefaultPolicy, r.state.at, r.now)
    IN  <<Check(Len(r.deltas) # Len(r.plan), "NetDeltaInconsistent"),
          Check(AssessmentError(r.intent, r.deltas, assessment) # "none",
                AssessmentError(r.intent, r.deltas, assessment)),
          Check(d = NoDelta, "NetDeltaInconsistent"),
          Check(BranchMismatch(r), "NetDeltaInconsistent"),
          Check(fresh = "Invalid", "FreshnessUnavailable"),
          Check(BuildPreviewError(r.intent, d) # "none", BuildPreviewError(r.intent, d))>>

ValidateSplitDeltaPreview(r, assessment) ==
    LET d == AggregateDelta(r.deltas)
    IN  FirstFailure(SplitDeltaPreviewChecks(r, d, assessment), SplitPreviewError(r, d))

(***************************************************************************)
(* The pre-sign gate.                                                      *)
(***************************************************************************)
Valid == [outcome |-> "Valid", reason |-> "none"]
Final(reason) == [outcome |-> "AbortFinal", reason |-> reason]
Requote(reason) == [outcome |-> "AbortRequote", reason |-> reason]

FreshnessVerdict(fresh) ==
    CASE fresh = "Stale" -> Requote("StaleState")
      [] fresh = "ResyncRequired" -> Final("ResyncRequired")
      [] fresh = "Invalid" -> Final("StateRegression")
      [] OTHER -> Valid

FreshCheck(r, state) ==
    LET fresh == ClassifyFreshness(r.policy, state, r.now)
    IN  Check(fresh # "Fresh", FreshnessVerdict(fresh))

MapTaxError(error) ==
    CASE error = "MissingObservation" -> Final("MissingTaxObservation")
      [] error \in {"StaleObservation", "FreshnessEvaluationFailed"} ->
            Requote("TaxObservationStale")
      [] error = "ResyncRequired" -> Final("ResyncRequired")
      [] error = "TokenNotSellable" -> Final("TokenNotSellable")
      [] error \in {"BuyTaxExceedsCap", "SellTaxExceedsCap"} -> Final("TaxCapExceeded")
      [] OTHER -> Final("DomainInvalid")

MapBridgeError(error) ==
    CASE error = "none" -> Valid
      [] error = "NetDeltaInconsistent" -> Final("NetDeltaInconsistent")
      [] error \in {"FreshnessUnavailable", "StaleMarketState"} -> Requote("StaleState")
      [] error = "TaxCapExceeded" -> Final("TaxCapExceeded")
      [] error = "ResyncRequired" -> Final("ResyncRequired")
      [] error = "LimitPriceViolated" -> Requote("MinOutNotMet")
      [] error = "InconsistentNetEconomics" -> Requote("AmountPolicyViolation")
      [] error = "UnsupportedAmountType" -> Final("UnsupportedAmountType")
      [] OTHER -> Final("DomainInvalid")

\* What an approval is bound to: the approved plan's legs without their amounts; a split also
\* pins the amount of each branch.
LegRef(leg) == [venue |-> leg.venue, pool |-> leg.pool, tokens |-> leg.tokens]
RouteBinding(b) == [k \in DOMAIN b.legs |-> LegRef(b.legs[k])]
SplitRouteBinding(plan) ==
    [b \in DOMAIN plan |-> [amount |-> plan[b].amount, legs |-> RouteBinding(plan[b])]]

\* A router pulls the input of the first leg: on Solana the pool's program, elsewhere the venue.
SpenderOf(legs, chain) ==
    IF legs = << >> THEN "none" ELSE IF chain = "Solana" THEN legs[1].pool ELSE legs[1].venue

ExpectedSpender(r) == SpenderOf(r.approved[1].legs, r.intent.chain)

\* The required spenders, each with what its branches add up to.
LastBranchOnly(binding, chain) ==
    [s \in {SpenderOf(binding[b].legs, chain) : b \in DOMAIN binding} |->
        binding[Max({b \in DOMAIN binding : SpenderOf(binding[b].legs, chain) = s})].amount]

RequiredSplitSpenders(binding, chain) ==
    [s \in {SpenderOf(binding[b].legs, chain) : b \in DOMAIN binding} |->
        Total([b \in DOMAIN binding |->
                  IF SpenderOf(binding[b].legs, chain) = s THEN binding[b].amount ELSE 0])]

ForeignAllowance(r) ==
    \E a \in DOMAIN r.allowances : r.allowances[a].required /\ ~r.allowances[a].mine

VenueOutside(r) ==
    /\ r.venues # {}
    /\ \E k \in DOMAIN LegsOf(r.plan) : LegsOf(r.plan)[k].venue \notin r.venues

ProgramOutside(r) ==
    \E k \in DOMAIN LegsOf(r.plan) :
        /\ \E t \in 1..2 : LegsOf(r.plan)[k].tokens[t][1] = "Solana"
        /\ LegsOf(r.plan)[k].pool \notin r.programs

\* The gates both paths make first, in order.
AuthorityChecks(r) ==
    <<Check(~r.enabled, Final("TradingDisabled")),
      Check(~r.approval.present, Final("ApprovalMissing")),
      Check(~r.approval.bound, Final("ApprovalBindingMismatch")),
      Check(r.approval.expires # 0 /\ r.approval.expires <= r.now, Final("PolicyExpired")),
      Check(~r.balance.mine, Final("RecipientMismatch")),
      Check(r.tax.present /\ ~r.tax.mine, Final("RecipientMismatch")),
      Check(ForeignAllowance(r), Final("RecipientMismatch")),
      Check(VenueOutside(r), Final("VenueNotAllowlisted")),
      Check(ProgramOutside(r), Final("ProgramNotAllowlisted"))>>

RouterChecks(r, spenders) ==
    <<Check(r.tax.present /\ r.intent.chain = "Solana" /\ r.tax.router \notin r.programs,
            Final("ProgramNotAllowlisted")),
      Check(r.tax.present /\ r.intent.chain # "Solana" /\ r.tax.router \notin spenders,
            Final("AllowanceSpenderMismatch"))>>

AllowanceFreshness(r) ==
    [a \in DOMAIN r.allowances |->
        IF r.allowances[a].required THEN FreshCheck(r, r.allowances[a].state)
                                    ELSE Check(FALSE, Valid)]

TaxChecks(r) ==
    <<Check(~r.tax.present, Final("MissingTaxObservation")),
      Check(TaxSafetyError(r.intent, r.tax, r.now, r.policy) # "none",
            MapTaxError(TaxSafetyError(r.intent, r.tax, r.now, r.policy))),
      Check(r.tax.buyTax # r.basis.buyTax \/ r.tax.sellTax # r.basis.sellTax,
            Requote("TaxChanged"))>>

\* Freshness of everything read, then the token's tax as it is now against the priced basis.
StateChecks(r) ==
    <<FreshCheck(r, r.state), FreshCheck(r, r.balance.state)>> \o AllowanceFreshness(r) \o TaxChecks(r)

BalanceChecks(r, d) ==
    <<Check(r.balance.asset # d.tokens[1], Final("StateRegression")),
      Check(r.balance.amount < d.in, Requote("InsufficientBalance"))>>

\* min_out must be met by the delta and itself lie within the approved slippage.
FloorChecks(r, d) ==
    <<Check(r.minOut.asset # r.intent.tokens[2], Final("MinOutNotMet")),
      Check(d.net < r.minOut.amount, Requote("MinOutNotMet")),
      Check(r.minOut.amount * BpsOne <
               r.expected * (IF r.intent.slippage > BpsOne THEN 0 ELSE BpsOne - r.intent.slippage),
            Final("AmountPolicyViolation"))>>

AllowanceChecks(r, d, a) ==
    <<Check(a.required /\ a.spender # ExpectedSpender(r), Final("AllowanceSpenderMismatch")),
      Check(a.required /\ a.asset # d.tokens[1], Final("StateRegression")),
      Check(a.required /\ a.amount < d.in, Requote("InsufficientAllowance"))>>

RevalidatePreSign(r) ==
    LET d == r.deltas[1]
    IN  FirstFailure(
            AuthorityChecks(r) \o RouterChecks(r, {ExpectedSpender(r)})
            \o <<Check(RouteBinding(r.plan[1]) # r.approved[1].legs,
                       Requote("SelectedRouteMismatch"))>>
            \o StateChecks(r) \o BalanceChecks(r, d) \o AllowanceChecks(r, d, r.allowances[1])
            \o FloorChecks(r, d),
            MapBridgeError(ValidateDeltaPreview(r, r.tax)))

SeenBefore(r, a) == \E b \in 1..(a - 1) : r.allowances[b].spender = r.allowances[a].spender

\* Each observation must be of a required spender, and the only one of it.
ObservationChecks(r, required, a) ==
    LET o == r.allowances[a]
    IN  <<Check(~o.required, Final("MissingAllowanceObservation")),
          Check(o.spender \notin DOMAIN required, Final("AllowanceSpenderMismatch")),
          Check(SeenBefore(r, a), Final("AllowanceSpenderMismatch"))>>

ObservationsOf(r, s) == {a \in DOMAIN r.allowances : r.allowances[a].spender = s}

FirstObservation(r, s) == r.allowances[Min(ObservationsOf(r, s))]

\* Spender s must be allowed all its branches together.
SpenderChecks(r, required, d, s) ==
    LET seen == ObservationsOf(r, s) # {}
        o == FirstObservation(r, s)
    IN  <<Check(~seen, Final("MissingAllowanceObservation")),
          Check(seen /\ o.asset # d.tokens[1], Final("StateRegression")),
          Check(seen /\ o.amount < required[s], Requote("InsufficientAllowance"))>>

Uncountable(required) ==
    "none" \in DOMAIN required \/ \E s \in DOMAIN required : required[s] > AmountMax

\* Every required spender is observed, and the plan is the approved one.
PlanChecks(r, required) ==
    LET seen == {r.allowances[a].spender : a \in DOMAIN r.allowances}
    IN  <<Check(~(DOMAIN required \subseteq seen), Final("MissingAllowanceObservation")),
          Check(SplitRouteBinding(r.plan) # r.approved, Requote("SelectedRouteMismatch"))>>

RevalidateSplitPreSign(r) ==
    LET d == AggregateDelta(r.deltas)
        required == RequiredSplitSpenders(r.approved, r.intent.chain)
    IN  FirstFailure(
            AuthorityChecks(r)
            \o <<Check(Uncountable(required), Final("AmountPolicyViolation"))>>
            \o RouterChecks(r, DOMAIN required)
            \o <<Check(DOMAIN required = {} /\ r.allowances # << >>,
                       Final("AllowanceSpenderMismatch"))>>
            \o FlattenSeq([a \in DOMAIN r.allowances |-> ObservationChecks(r, required, a)])
            \o PlanChecks(r, required) \o StateChecks(r)
            \o <<Check(d = NoDelta, Final("NetDeltaInconsistent"))>>
            \o BalanceChecks(r, d)
            \o FlattenSeq([b \in DOMAIN r.approved |->
                    SpenderChecks(r, required, d, SpenderOf(r.approved[b].legs, r.intent.chain))])
            \o FloorChecks(r, d),
            MapBridgeError(ValidateSplitDeltaPreview(r, r.tax)))

Revalidate(r) == IF r.kind = "single" THEN RevalidatePreSign(r) ELSE RevalidateSplitPreSign(r)

(***************************************************************************)
(* Signing: a request is bound to one digest, and the digest is what the   *)
(* signer and its idempotency key see.  SHA-256 over length-prefixed       *)
(* fields is the record of the fields.                                     *)
(***************************************************************************)
TaggedChains == {"Solana", "Base", "BnbChain", "Ethereum", "RobinhoodAssociated"}

LegFields(legs) ==
    [k \in DOMAIN legs |-> <<legs[k].venue, legs[k].pool, legs[k].tokens, legs[k].in, legs[k].out>>]

RouteDigest(b) == <<"route", LegFields(b.legs), b.outAsset, b.out>>

SplitRouteDigest(r) ==
    <<"split", [b \in DOMAIN r.plan |-> <<r.plan[b].amount, LegFields(r.plan[b].legs),
                                          r.plan[b].outAsset, r.plan[b].out>>],
      r.intent.tokens[2], Total([b \in DOMAIN r.plan |-> r.plan[b].amount]), r.expected>>

IntentDigest(i) == <<"intent", i>>

RequestDigest(r, payload) ==
    LET d == AggregateDelta(r.deltas)
    IN  [id |-> r.intent.id, chain |-> r.intent.chain, nonce |-> r.intent.nonce,
         side |-> r.intent.side, tokens |-> r.intent.tokens,
         amounts |-> <<d.in, d.gross, d.net>>, payload |-> payload,
         expires |-> r.approval.expires, prepared |-> r.prepared.ref,
         route |-> IF r.kind = "single" THEN RouteDigest(r.plan[1]) ELSE SplitRouteDigest(r),
         intent |-> IntentDigest(r.intent)]

\* SigningRequest::bind and bind_split; a zero payload digest is "zero".
BindChecks(r, d, payload) ==
    LET preview == IF r.kind = "single" THEN PreviewError(r, d) ELSE SplitPreviewError(r, d)
    IN  <<Check(~r.approval.bound, "ApprovalBindingMismatch"),
          Check(~r.prepared.bound, "ApprovalBindingMismatch"),
          Check(d.tokens # r.intent.tokens, "PreviewRevalidationFailed"),
          Check(~r.enabled, "TradingDisabled"),
          Check(r.approval.expires # 0 /\ r.approval.expires <= r.now, "ApprovalExpired"),
          Check(preview # "none", "PreviewRevalidationFailed"),
          Check(payload = "zero", "MissingPayloadDigest"),
          Check(r.intent.chain \notin TaggedChains, "UnsupportedChain")>>

BindError(r, payload) == FirstFailure(BindChecks(r, AggregateDelta(r.deltas), payload), "none")

(***************************************************************************)
(* The relay's submission: a signed payload is [size, bytes], its digest   *)
(* its bytes; an attestation is [ref, digest, id, key].                    *)
(***************************************************************************)
PayloadError(payload) ==
    FirstFailure(<<Check(payload.size = 0, "SignedPayloadEmpty"),
                   Check(payload.size > MaxPayload, "SignedPayloadTooLarge")>>, "none")

SigningRequestOf(r, payload, key) ==
    [id |-> r.intent.id, key |-> key, chain |-> r.intent.chain, payload |-> payload,
     digest |-> RequestDigest(r, payload)]

\* What the signing boundary attests to.
SignedReference(signing, ref) ==
    [ref |-> ref, digest |-> signing.digest, id |-> signing.id, key |-> signing.key]

\* SubmitRequest::bind.
SubmitChecks(signing, signed, payload, chain) ==
    <<Check(<<signed.digest, signed.id, signed.key>> # <<signing.digest, signing.id, signing.key>>,
            "SigningRequestMismatch"),
      Check(chain # signing.chain, "ChainMismatch"),
      Check(PayloadError(payload) # "none", PayloadError(payload)),
      Check(payload.bytes # signing.payload, "SignedPayloadDigestMismatch")>>

SubmitError(signing, signed, payload, chain) ==
    FirstFailure(SubmitChecks(signing, signed, payload, chain), "none")

SubmitRequestOf(signing, signed, payload) ==
    [id |-> signing.id, key |-> signing.key, chain |-> signing.chain, digest |-> signing.digest,
     payloadDigest |-> signing.payload, ref |-> signed.ref, payload |-> payload]

\* SubmitRequest::restore, of a stored submission.
RestoreChecks(stored) ==
    <<Check(PayloadError(stored.payload) # "none", PayloadError(stored.payload)),
      Check(stored.payload.bytes # stored.payloadDigest, "SignedPayloadDigestMismatch")>>

RestoreError(stored) == FirstFailure(RestoreChecks(stored), "none")

(***************************************************************************)
(* A provider's swap against the locally priced trade.                     *)
(***************************************************************************)
SlippageExceeds(deviation, out, capBps) == out = 0 \/ deviation * BpsOne > out * capBps

NoSpender == ""

ProposalAccessChecks(r, p, policy) ==
    <<Check(r.plan[1].legs = << >>, "RouteMissing"),
      Check(p.chain # r.intent.chain, "ChainMismatch"),
      Check(p.tokens # r.intent.tokens, "TokenMismatch"),
      Check(~p.wallet, "WalletMismatch"),
      Check(~p.receiver, "ReceiverMismatch"),
      Check(p.router \notin policy.routers, "RouterNotAllowed"),
      Check(p.spender # NoSpender /\ p.spender \notin policy.spenders, "SpenderNotAllowed"),
      Check(p.approval > policy.maxApproval, "ApprovalExceeded")>>

ProposalAmountChecks(r, p, policy) ==
    LET legs == r.plan[1].legs
        d == r.deltas[1]
    IN  <<Check(legs # << >> /\ p.in # Head(legs).in, "AmountInMismatch"),
          Check(legs # << >> /\ p.out # Head(legs).out, "AmountOutMismatch"),
          Check(p.out # d.gross, "AmountOutMismatch"),
          Check(legs # << >> /\ (Head(legs).tokens # r.intent.tokens
                                 \/ d.tokens # r.intent.tokens), "TokenMismatch"),
          Check(p.minReceive = 0, "MinReceiveMissing"),
          Check(p.minReceive < policy.minReceive, "MinReceiveTooLow"),
          Check(p.minReceive > p.out, "SlippageExceeded"),
          Check(SlippageExceeds(p.out - p.minReceive, p.out, policy.slippage),
                "SlippageExceeded")>>

ProposalCallChecks(r, p, policy) ==
    <<Check(p.value > policy.maxValue, "ValueExceeded"),
      Check(p.size = 0, "CalldataEmpty"),
      Check(p.size > MaxCalldata, "CalldataTooLarge"),
      Check(~p.digest, "CalldataDigestMismatch"),
      Check(p.at > r.now, "ProposalFromFuture"),
      Check(r.now - p.at > policy.maxAge, "ProposalStale"),
      Check(r.tax.token # AssessedAsset(r.intent), "AssessmentMismatch")>>

VerifyProviderProposal(r, p, policy) ==
    FirstFailure(ProposalAccessChecks(r, p, policy) \o ProposalAmountChecks(r, p, policy)
                 \o ProposalCallChecks(r, p, policy), "none")

(***************************************************************************)
(* Contracts, for one request at a time.                                   *)
(***************************************************************************)
AllowedTo(r, s) ==
    LET of == {a \in DOMAIN r.allowances : r.allowances[a].required /\ r.allowances[a].spender = s}
    IN  IF of = {} THEN AmountMax ELSE Max({r.allowances[a].amount : a \in of})

\* A request the gate (revalidate_pre_sign, revalidate_split_pre_sign) lets through spends no
\* more than the wallet holds and than each spender, over all its branches, is allowed; it
\* receives, after the tax the token charges now, the approved slippage floor of what was
\* expected; it pays no tax above the caps; and no pool is priced twice.
ValidIsSafe(r) ==
    Revalidate(r) = Valid =>
        LET i == r.intent
            paid == Total([b \in DOMAIN r.plan |-> r.plan[b].amount])
            gross == Total([b \in DOMAIN r.deltas |-> r.deltas[b].gross])
            taxed == Total([b \in DOMAIN r.deltas |->
                               IF i.side = "Buy" THEN (r.deltas[b].gross * r.tax.buyTax) \div BpsOne
                                                 ELSE 0])
            got == gross - taxed
        IN  /\ paid <= r.balance.amount
            /\ \A s \in {SpenderOf(r.plan[b].legs, i.chain) : b \in DOMAIN r.plan} :
                  Total([b \in DOMAIN r.plan |->
                            IF SpenderOf(r.plan[b].legs, i.chain) = s THEN r.plan[b].amount ELSE 0])
                  <= AllowedTo(r, s)
            /\ got * BpsOne >= r.expected * (BpsOne - i.slippage)
            /\ r.tax.buyTax <= i.buyCap /\ r.tax.sellTax <= i.sellCap
            /\ i.limit # NoPrice => SatisfiesLimit(i.side, paid, got, i.limit)
            /\ r.kind = "split" => ~PoolReused(r.plan)

\* A signature (SigningRequest::bind, bind_split) stands for one trade: two requests with one
\* digest, hence one provider idempotency id, pay and receive the same through the same legs.
DigestNamesOneTrade(r1, p1, r2, p2) ==
    /\ BindError(r1, p1) = "none"
    /\ BindError(r2, p2) = "none"
    /\ RequestDigest(r1, p1) = RequestDigest(r2, p2)
    => /\ p1 = p2
       /\ r1.intent = r2.intent
       /\ LegsOf(r1.plan) = LegsOf(r2.plan)
       /\ AggregateDelta(r1.deltas).net = AggregateDelta(r2.deltas).net

\* What the relay submits (SubmitRequest::bind) is the payload that was signed for this very
\* trade, on its chain: a reference to another routing, another payload or another chain is
\* refused; what was bound can be restored after a restart (SubmitRequest::restore), and a stored
\* payload that changed cannot.
SubmissionIsSigned(signing, theirs, sent, chain) ==
    LET signed == SignedReference(theirs, "ref")
        bound == SubmitRequestOf(signing, signed, sent)
    IN  SubmitError(signing, signed, sent, chain) = "none" =>
            /\ theirs.digest = signing.digest
            /\ sent.bytes = signing.payload /\ chain = signing.chain
            /\ RestoreError(bound) = "none"
            /\ RestoreError([bound EXCEPT !.payload.bytes = "changed"]) # "none"

\* A provider's swap that is verified against the gate's own floor (min_receive = min_out)
\* guarantees an untaxed trade the approved slippage floor of what was expected.
ProviderFloorHolds(r, p, policy) ==
    /\ Revalidate(r) = Valid
    /\ r.kind = "single" /\ r.tax.buyTax = 0
    /\ policy.minReceive = r.minOut.amount
    /\ VerifyProviderProposal(r, p, policy) = "none"
    => /\ p.minReceive * BpsOne >= r.expected * (BpsOne - r.intent.slippage)
       /\ p.in <= r.balance.amount

\* The gate and the signer agree: what revalidation lets through can be bound with a payload.
GateImpliesBindable(r) ==
    Revalidate(r) = Valid /\ r.prepared.bound /\ r.intent.chain \in TaggedChains
        => BindError(r, "payload") = "none"

(***************************************************************************)
(* A case arrives at the gate.                                             *)
(***************************************************************************)
GateInit == gate = {}
GateNext == gate = {} /\ \E c \in GateCases : gate' = {c}
GateSpec == GateInit /\ [][GateNext]_gate

\* What passes the pre-sign gate is affordable, allowed, within the caps and above the floor; the
\* signer can bind it, to a digest that no other routing of the same amounts has; the relay submits
\* only the payload signed under that digest; and a provider's swap that is verified against it
\* pays the same floor.
GateIsSafe ==
    \A c \in gate :
        LET r == c.request IN
        /\ ValidIsSafe(r)
        /\ GateImpliesBindable(r)
        /\ DigestNamesOneTrade(r, "payload", c.signed, "payload")
        /\ \A sent \in c.sent, chain \in TaggedChains, key \in {"k1", "k2"} :
              SubmissionIsSigned(SigningRequestOf(r, "payload", "k1"),
                                 SigningRequestOf(c.signed, "payload", key), sent, chain)
        /\ \A o \in c.offers : ProviderFloorHolds(r, o.proposal, o.policy)
=============================================================================
