-------------------------- MODULE IntentTranslation ---------------------------
(***************************************************************************)
(* What the web client asks for, translated into the shared command        *)
(* vocabulary: symbols become assets, decimal amounts and prices become    *)
(* atomic integers, and a cap the command cannot carry is refused.         *)
(*                                                                         *)
(* A payload is a function from the keys that are present to their values; *)
(* a required key with a value of the wrong shape, and any key with null,  *)
(* is as good as absent.  A decimal number is [digits, scale], worth       *)
(* digits / Base^scale.  A cap is negative where it does not decode.       *)
(***************************************************************************)
EXTENDS Kernel, AgentCommand

CONSTANT MaxDecimals  \* the most precise asset that is supported

ASSUME TranslationAssumption == MaxDecimals \in Nat

Base == 10

Protocol == Failed("Protocol")

Given(payload, field) == field \in DOMAIN payload

-----------------------------------------------------------------------------
(* Amounts and prices. *)

\* decimal_to_scaled: exact, or refused.
DecimalToScaled(amount, decimals) ==
    IF \/ decimals > MaxDecimals
       \/ amount.scale > decimals
       \/ amount.digits * Base^(decimals - amount.scale) > AmountMax
    THEN Protocol
    ELSE Done(amount.digits * Base^(decimals - amount.scale))

AtomicUnit(amountType) == IF amountType = "token" THEN "token_atomic" ELSE "stablecoin_atomic"

\* A fault: zero is an amount like any other.
AmountSpecOrZero(amount, amountType, decimals) ==
    LET atomic == DecimalToScaled(amount, decimals) IN
    IF amountType \notin {"stablecoin", "token"} \/ ~atomic.ok THEN Protocol
    ELSE Done([unit |-> AtomicUnit(amountType), value |-> atomic.out])

\* amount_spec_for: dollars cannot be placed, and neither can nothing.
AmountSpecFor(amount, amountType, decimals) ==
    LET atomic == DecimalToScaled(amount, decimals) IN
    IF amountType \notin {"stablecoin", "token"} \/ ~atomic.ok \/ atomic.out = 0 THEN Protocol
    ELSE Done([unit |-> AtomicUnit(amountType), value |-> atomic.out])

Ratio(price, up, down) ==
    IF \/ up > MaxDecimals \/ down > MaxDecimals
       \/ price.digits = 0
       \/ price.digits * Base^up > AmountMax
       \/ Base^(price.scale + down) > AmountMax
    THEN Protocol
    ELSE Done([numerator_atomic |-> price.digits * Base^up,
               denominator_atomic |-> Base^(price.scale + down)])

\* decimal_to_atomic_ratio: quote units over base units.
DecimalToAtomicRatio(price, quoteDecimals, baseDecimals) ==
    Ratio(price, quoteDecimals, baseDecimals)

-----------------------------------------------------------------------------
(* Commands.  The registry maps <<chain, token>> to the asset it knows.    *)

Wire(tool, fields) == [tool |-> tool, kind |-> "absent", fields |-> fields, bad |-> {}]

Resolves(payload, registry) ==
    /\ {<<payload["chain"], payload["token_in"]>>, <<payload["chain"], payload["token_out"]>>}
          \subseteq DOMAIN registry
    /\ registry[<<payload["chain"], payload["token_in"]>>].chain
          = registry[<<payload["chain"], payload["token_out"]>>].chain

InMeta(payload, registry) == registry[<<payload["chain"], payload["token_in"]>>]
OutMeta(payload, registry) == registry[<<payload["chain"], payload["token_out"]>>]

AssetJson(meta, token) == [chain |-> meta.chain, address |-> token]

SideOk(payload) == Given(payload, "side") /\ payload["side"] \in {"buy", "sell"}

Only(fields, keys) == [f \in DOMAIN fields \cap keys |-> fields[f]]

MarketRequired == {"chain", "token_in", "token_out", "amount_type", "amount"}

\* translate_market_intent, for a quote or, with the fields of a trade, for a market order.
TranslateMarketIntent(payload, router, registry, tool) ==
    LET forTrade == tool # "get_quote"
        complete == (\A f \in MarketRequired : Given(payload, f)) /\ (forTrade => SideOk(payload))
        amount == AmountSpecFor(payload["amount"], payload["amount_type"],
                                InMeta(payload, registry).decimals)
        capsOk == \A f \in {"max_slippage_bps", "max_price_impact_bps"} \cap DOMAIN payload :
                     payload[f] >= 0
        fields == [token_in |-> AssetJson(InMeta(payload, registry), payload["token_in"]),
                   token_out |-> AssetJson(OutMeta(payload, registry), payload["token_out"]),
                   amount |-> amount.out, router_preference |-> router]
        trade == {f \in {"side", "max_slippage_bps", "max_price_impact_bps"} : Given(payload, f)}
    IN  IF \/ ~complete
           \/ ~Resolves(payload, registry)
           \/ ~amount.ok
           \/ forTrade /\ (~capsOk \/ Given(payload, "max_total_cost_usd"))
        THEN Protocol
        ELSE Done(Wire(tool, IF forTrade THEN fields @@ Only(payload, trade) ELSE fields))

\* A cap the limit order cannot carry is refused, never dropped.
UnenforceableCaps == {"max_buy_tax_bps", "max_sell_tax_bps", "max_price_impact_bps",
                      "max_slippage_bps", "max_total_cost_usd"}

LimitRequired == MarketRequired \cup {"limit_price", "allow_partial_fill", "expiry_ms"}

\* translate_place_limit_order: the price is quoted in what a buy pays and a sell receives.
TranslatePlaceLimitOrder(payload, registry) ==
    LET complete == (\A f \in LimitRequired : Given(payload, f)) /\ SideOk(payload)
        in == InMeta(payload, registry)
        out == OutMeta(payload, registry)
        amount == AmountSpecFor(payload["amount"], payload["amount_type"], in.decimals)
        price == IF payload["side"] = "buy"
                 THEN DecimalToAtomicRatio(payload["limit_price"], in.decimals, out.decimals)
                 ELSE DecimalToAtomicRatio(payload["limit_price"], out.decimals, in.decimals)
    IN  IF \/ ~complete
           \/ \E f \in UnenforceableCaps : Given(payload, f)
           \/ ~Resolves(payload, registry)
           \/ ~amount.ok
           \/ ~price.ok
        THEN Protocol
        ELSE Done(Wire("place_limit_order",
                       [token_in |-> AssetJson(in, payload["token_in"]),
                        token_out |-> AssetJson(out, payload["token_out"]),
                        side |-> payload["side"], amount |-> amount.out,
                        limit_price |-> price.out,
                        allow_partial_fill |-> payload["allow_partial_fill"],
                        expires_at_ms |-> payload["expiry_ms"]]))

\* translate_token_payload; the window passes through and is read by the parser, if it can be.
TranslateTokenPayload(payload, chains, tool) ==
    IF \/ ~Given(payload, "chain") \/ ~Given(payload, "address")
       \/ payload["chain"] \notin DOMAIN chains
       \/ tool = "get_chart" /\ "window" \notin DOMAIN payload
    THEN Protocol
    ELSE LET token == [token |-> [chain |-> chains[payload["chain"]],
                                  address |-> payload["address"]]]
         IN  Done(Wire(tool, IF tool = "get_chart"
                             THEN token @@ [window |-> payload["window"]] ELSE token))

-----------------------------------------------------------------------------
(* What a preview shows. *)

\* The worst output the user's slippage cap still allows.
MinReceivedShown(net, bps) == net - (net * bps) \div BpsOne

\* market_min_out: what the execution enforces.
MarketMinOut(net, bps) ==
    LET floor == CeilDiv(net * (IF bps > BpsOne THEN 0 ELSE BpsOne - bps), BpsOne) IN
    IF floor > 1 THEN floor ELSE 1

\* proportional_bps: a cost in the asset of the gross output, as a rounded share of it.
ProportionalBps(cost, gross) ==
    LET scaled == (cost.amount * BpsOne + gross.amount \div 2) \div gross.amount IN
    IF gross.amount = 0 \/ cost.asset # gross.asset \/ scaled > BpsOne THEN "null" ELSE scaled

\* project_preview, for the document the backend returned and the user's cap (negative when there
\* is none): what is not known is shown as null, never as a default.
ProjectPreview(doc, cap) ==
    LET shown(f) == IF Given(doc, f) THEN doc[f] ELSE "null"
        share(f) == IF Given(doc, f) /\ Given(doc, "gross_output")
                    THEN ProportionalBps(doc[f], doc["gross_output"]) ELSE "null"
    IN  [netOutput |-> shown("net_output"),
         minReceived |-> IF Given(doc, "net_output") /\ cap >= 0
                         THEN MinReceivedShown(doc["net_output"], cap) ELSE "null",
         taxBps |-> share("tax_cost"),
         dexFeeBps |-> share("dex_fee"),
         routeKind |-> IF Given(doc, "hops") /\ doc["hops"] = 1 THEN "direct" ELSE "bridge",
         routerSource |-> shown("router_source"),
         revalidationRequired |-> FALSE]

-----------------------------------------------------------------------------
(* Contracts. *)

\* A limit price in atomic units admits exactly the trades that the decimal price admits: paid
\* units of the quote asset for got units of the base asset.
PriceIsExact(price, quoteDecimals, baseDecimals, paid, got) ==
    LET r == DecimalToAtomicRatio(price, quoteDecimals, baseDecimals) IN
    r.ok =>
      ((paid * Base^quoteDecimals * r.out.denominator_atomic
            =< r.out.numerator_atomic * got * Base^baseDecimals)
          <=> (paid * Base^price.scale =< price.digits * got))

\* Whatever the translation lets through is a command: the parser accepts it, the amount is worth
\* what the user typed, and no cap the user set has been left out of it.
TranslationIsFaithful(payload, translated, decimals) ==
    translated.ok =>
      LET wire == translated.out IN
      /\ BuildError(wire) = "none"
      /\ wire.fields["amount"].value * Base^payload["amount"].scale
            = payload["amount"].digits * Base^decimals
      /\ wire.tool # "get_quote" =>
            \A f \in UnenforceableCaps : Given(payload, f) => f \in DOMAIN wire.fields

\* A translated command that reaches the backend and can spend is worth, at the price the backend
\* trusts, no more than the wallet's cap; and a final refusal means that it never got there, or
\* that the backend denied it.
SpendIsAuthorized(payload, translated, decimals, caps, usdPerUnit, outcome) ==
    translated.ok =>
      LET d == Dispatch(translated.out, TRUE, caps, usdPerUnit, outcome)
          spends == IsMutating(translated.out.tool) IN
      /\ d.reached /\ spends =>
            /\ usdPerUnit >= 0 /\ caps.trading_enabled
            /\ payload["amount"].digits * Base^decimals * usdPerUnit
                  =< caps.max_trade_usd * Base^payload["amount"].scale
      /\ d.reply = "determinate" /\ spends => ~d.reached \/ outcome = "Denied"

\* The floor a preview shows is the floor that is enforced for the same quote; without a cap no
\* floor is shown at all.
ShownFloorIsEnforced(net, bps) ==
    LET doc == [net_output |-> net, hops |-> 1]
        shown == ProjectPreview(doc, bps).minReceived IN
    /\ MarketMinOut(net, bps) = (IF shown > 1 THEN shown ELSE 1)
    /\ ProjectPreview(doc, -1).minReceived = "null"

\* A tax that is shown is the tax in basis points of the gross output, to the nearest, and a tax
\* in another asset is not shown as a share.
ShownTaxIsExact(cost, gross) ==
    LET doc == [gross_output |-> gross, tax_cost |-> cost, hops |-> 1]
        shown == ProjectPreview(doc, -1).taxBps
        exact == gross.amount > 0 /\ cost.asset = gross.asset /\ cost.amount =< gross.amount IN
    IF exact
    THEN /\ 2 * (shown * gross.amount - cost.amount * BpsOne) =< gross.amount
         /\ 2 * (cost.amount * BpsOne - shown * gross.amount) =< gross.amount
    ELSE gross.amount = 0 \/ cost.asset # gross.asset => shown = "null"
=============================================================================
