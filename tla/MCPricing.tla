------------------------------ MODULE MCPricing -------------------------------
(***************************************************************************)
(* The pure code of a trade for TLC: a behaviour picks a topic and an item *)
(* (a pool, a request), asks one question of it, and ends.                 *)
(***************************************************************************)
EXTENDS SplitSearch, IntentTranslation, OkxClient

VARIABLES topic, item, asked, ask

MCTickFactors == <<80, 100, 156>>
MCTickFactorsDown == <<51, 41, 26>>
MCLabels == <<"a", "b", "c", "p1", "p2", "p3", "v1", "v2">>

pricingVars == <<topic, item, asked, ask, gate, okx>>

(***************************************************************************)
(* Pools.                                                                  *)
(***************************************************************************)
CpmmOf(a, b, fee) == [r |-> (0 :> a) @@ (1 :> b), fee |-> fee]

CpmmPools == {CpmmOf(a, b, fee) : a \in {1, 3, 8, 20}, b \in {1, 5, 9, 30}, fee \in {0, 1, 3, 9, 10}}

ClmmOf(s, liq, fee, a, n) ==
    [s |-> s, tick |-> TickFromSqrtPrice(s), liq |-> liq, fee |-> fee,
     ticks |-> <<[index |-> -2, net |-> 0], [index |-> a, net |-> n],
                 [index |-> a + 2, net |-> -n], [index |-> 6, net |-> 0]>>]

ClmmPools ==
    {p \in {ClmmOf(s, liq, fee, a, n) : s \in {50, 52, 64, 70, 90, 110, 160}, liq \in {20, 40},
                                        fee \in {0, 2}, a \in {-1, 1, 2}, n \in {-10, 0, 15}} :
        ClmmPoolError(p) = "none"}

BinPools ==
    {[active |-> 0, step |-> 5, d0 |-> 0, d1 |-> d1, fee |-> fee,
      bins |-> <<[id |-> -1, r |-> (0 :> 0) @@ (1 :> x1)],
                 [id |-> 0, r |-> (0 :> x2) @@ (1 :> x3)],
                 [id |-> 2, r |-> (0 :> x4) @@ (1 :> 0)]>>] :
        d1 \in {0, 1}, fee \in {0, 2}, x1 \in {0, 7}, x2 \in {0, 4, 9}, x3 \in {0, 5}, x4 \in {0, 6}}

Curve(kind, p, dir) ==
    [in \in 1..AmountMax |-> CASE kind = "clmm" -> ClmmExactInput(p, dir, in)
                               [] OTHER -> BinExactInput(p, dir, in)]

\* What a pool pays for every input, one pool in four.
Curves ==
    {[kind |-> "clmm", pool |-> p, dir |-> d] : p \in {p \in ClmmPools : p.liq = 20 /\ p.fee = 2},
                                              d \in {0, 1}}
    \cup {[kind |-> "bin", pool |-> p, dir |-> d] : p \in {p \in BinPools : p.fee = 2}, d \in {0, 1}}

(***************************************************************************)
(* Trades.                                                                 *)
(***************************************************************************)
Asset(chain, a) == <<chain, a>>

IntentOf(chain, side, amount, slippage, cap, limit) ==
    [id |-> "i1", nonce |-> 1, chain |-> chain, side |-> side,
     tokens |-> <<Asset(chain, "a"), Asset(chain, "b")>>, amount |-> amount,
     amountType |-> "InputAssetAtomic", order |-> IF limit = NoPrice THEN "Market" ELSE "Limit",
     limit |-> limit, expiry |-> 0, slippage |-> slippage, buyCap |-> cap, sellCap |-> cap,
     maxCost |-> 0, maxCostAsset |-> Asset(chain, "a"), partial |-> FALSE]

\* A priced trade of n branches over n pools at two units out for one in; venues repeat.
TradeBases == [n : {1, 2, 3}, side : {"Buy", "Sell"}, chain : {"Base", "Solana"},
               tax : {0, 2}, slippage : {0, 3}]

Shares(n) == <<<<20>>, <<12, 8>>, <<8, 7, 5>>>>[n]

VenueOf(b) == IF b = 3 THEN "v2" ELSE "v1"
PoolOf(b) == <<"p1", "p2", "p3">>[b]

TradeAsks == [balance : {19, 20}, allowed : {5, 12, 15, 20}, floor : {-1, 0, 1}, taxNow : {0, 2},
              cap : {1, 2}, limit : {"none", "met", "missed"}, at : {10}, reuse : {FALSE}]
             \cup [balance : {20}, allowed : {20}, floor : {0}, taxNow : {0, 2}, cap : {2},
                   limit : {"none"}, at : {1, 5, 10, 12, 14}, reuse : {TRUE, FALSE}]

TradeOf(base, k) ==
    LET sold == base.side = "Sell"
        tokens == <<Asset(base.chain, "a"), Asset(base.chain, "b")>>
        shares == Shares(base.n)
        paid(b) == IF sold THEN ApplySellTax(shares[b], base.tax).net ELSE shares[b]
        delta(b) == IF sold THEN SellDelta(tokens, shares[b], 2 * paid(b), 0, base.tax)
                            ELSE BuyDelta(tokens, shares[b], 2 * paid(b), 0, base.tax)
        deltas == [b \in 1..base.n |-> delta(b)]
        expected == Total([b \in 1..base.n |-> deltas[b].net])
        price == IF sold THEN [num |-> IF k.limit = "missed" THEN expected + 1 ELSE expected,
                               den |-> 20, assets |-> <<tokens[2], tokens[1]>>]
                 ELSE [num |-> 20, den |-> IF k.limit = "missed" THEN expected + 1 ELSE expected,
                       assets |-> tokens]
        state == [at |-> k.at, seq |-> 3]
        plan == [b \in 1..base.n |->
                   [amount |-> shares[b], out |-> deltas[b].net, outAsset |-> tokens[2],
                    state |-> state,
                    legs |-> <<[venue |-> VenueOf(b),
                                pool |-> IF k.reuse THEN "p1" ELSE PoolOf(b),
                                tokens |-> tokens, in |-> paid(b), out |-> deltas[b].gross]>>]]
        spenders == SetToSeq({SpenderOf(plan[b].legs, base.chain) : b \in 1..base.n})
    IN  [kind |-> IF base.n = 1 THEN "single" ELSE "split", enabled |-> TRUE, now |-> 12,
         policy |-> DefaultPolicy, venues |-> {}, programs |-> {"p1", "p2", "p3"},
         intent |-> IntentOf(base.chain, base.side, 20, base.slippage, k.cap,
                             IF k.limit = "none" THEN NoPrice ELSE price),
         approval |-> [present |-> TRUE, bound |-> TRUE, expires |-> 0],
         prepared |-> [bound |-> TRUE, ref |-> "prep"],
         plan |-> plan, approved |-> SplitRouteBinding(plan), expected |-> expected,
         state |-> state, deltas |-> deltas, basis |-> [buyTax |-> base.tax, sellTax |-> base.tax],
         tax |-> [present |-> TRUE, mine |-> TRUE, token |-> AssessedAsset([side |-> base.side, tokens |-> tokens]),
                  router |-> IF base.chain = "Solana" THEN "p1" ELSE "v1", at |-> k.at, expires |-> 20,
                  buys |-> TRUE, sellable |-> TRUE, sells |-> TRUE,
                  buyTax |-> k.taxNow, sellTax |-> k.taxNow],
         minOut |-> [asset |-> tokens[2], amount |->
                       k.floor + CeilDiv(expected * (BpsOne - base.slippage), BpsOne)],
         balance |-> [mine |-> TRUE, asset |-> tokens[1], amount |-> k.balance, state |-> state],
         allowances |-> [a \in DOMAIN spenders |->
                            [required |-> TRUE, mine |-> TRUE, spender |-> spenders[a],
                             asset |-> tokens[1], amount |-> k.allowed, state |-> state]]]

\* A provider's answer to a single trade and the policy it is held to.
ProposalOf(r, received) ==
    [chain |-> r.intent.chain, tokens |-> r.intent.tokens, wallet |-> TRUE, receiver |-> TRUE,
     router |-> "v1", spender |-> "", approval |-> 0, in |-> r.plan[1].legs[1].in,
     out |-> r.deltas[1].gross, minReceive |-> received, value |-> 0, size |-> 1, digest |-> TRUE,
     at |-> r.now]

ProviderPolicy(r) ==
    [routers |-> {"v1"}, spenders |-> {}, maxApproval |-> 0, minReceive |-> r.minOut.amount,
     slippage |-> r.intent.slippage, maxValue |-> 0, maxAge |-> 2]

\* What the payload source hands over after the signature.
SentPayloads == {[size |-> 1, bytes |-> "payload"], [size |-> 1, bytes |-> "other"],
                 [size |-> 0, bytes |-> "payload"], [size |-> MaxPayload + 1, bytes |-> "payload"]}

MCGateCases ==
    {LET r == TradeOf(base, k)
     IN  [request |-> r, signed |-> [r EXCEPT !.plan = Reverse(@), !.deltas = Reverse(@)],
          sent |-> SentPayloads,
          offers |-> {[proposal |-> ProposalOf(r, r.minOut.amount + n), policy |-> ProviderPolicy(r)] :
                         n \in {-1, 0, 1}}] : base \in TradeBases, k \in TradeAsks}

(***************************************************************************)
(* Route requests: up to four pools over three tokens.                     *)
(***************************************************************************)
TokenPair(k) == <<<<"a", "b">>, <<"b", "a">>, <<"a", "c">>, <<"c", "b">>>>[k]

PoolDescriptor(n, pair, state, at) ==
    [id |-> PoolOf(n), venue |-> VenueOf(n), ref |-> PoolOf(n),
     tokens |-> <<Asset("Base", TokenPair(pair)[1]), Asset("Base", TokenPair(pair)[2])>>,
     kind |-> "Cpmm", state |-> state, at |-> at, seq |-> 1, impact |-> NoAmount]

Depths == {<<30, 30>>, <<60, 50>>}

\* The second pool pays so much that a second hop may be worth its price, and not its gas.
RichDepths == {<<30, 30>>, <<60, 100>>}

RoutePools ==
    {<<PoolDescriptor(1, 1, CpmmOf(d1[1], d1[2], 0), 10),
       PoolDescriptor(2, p2, CpmmOf(d2[1], d2[2], 1), 10),
       PoolDescriptor(3, p3, CpmmOf(d3[1], d3[2], 0), at)>> :
        p2 \in {1, 2, 3}, p3 \in {1, 4}, d1 \in Depths, d2 \in RichDepths, d3 \in Depths,
        at \in {4, 10}}

RouteAsks == [amount : {7, 30}, side : {"Buy", "Sell"}, tax : {0, 1}, gas : {<<0, 0>>, <<1, 3>>},
              min : {1, 3}]

RequestOf(pools, k) ==
    [intent |-> IntentOf("Base", k.side, k.amount, 2, 2, NoPrice), pools |-> pools,
     amount |-> k.amount, hops |-> 2, now |-> 12, policy |-> DefaultPolicy, maxImpact |-> 0,
     assess |-> [asset |-> Asset("Base", IF k.side = "Buy" THEN "b" ELSE "a"), status |-> "Fresh",
                 at |-> 10, seq |-> 1, buyTax |-> k.tax, sellTax |-> k.tax],
     gas |-> k.gas, gasPrice |-> <<1, 1>>, depth |-> << >>,
     config |-> [bps |-> 0, minIn |-> k.min, minOut |-> 1, usd |-> 0, usdPrice |-> << >>,
                 maxLegs |-> 3]]

(***************************************************************************)
(* What the web client sends, for two tokens of some precision.            *)
(***************************************************************************)
IntentItems == [tool : {"get_quote", "preview_market_order", "execute_market_order",
                        "place_limit_order"},
                side : {"buy", "sell"}, in : 0..2, out : 0..2]

Registry(i) == (<<"base", "a">> :> [chain |-> "Base", decimals |-> i.in])
               @@ (<<"base", "b">> :> [chain |-> "Base", decimals |-> i.out])
               @@ (<<"base", "x">> :> [chain |-> "Solana", decimals |-> 0])

IntentAsks == [digits : {0, 1, 7, 12}, scale : 0..1, type : {"token", "stablecoin", "usd"},
               price : {0, 3}, to : {"b", "x"}, cap : {"none", "max_slippage_bps", "max_total_cost_usd"},
               lost : {"none"}]
              \cup [digits : {7}, scale : {0}, type : {"token"}, price : {3}, to : {"b"}, cap : {"none"},
                    lost : LimitRequired \cup {"side"}]

PayloadOf(i, k) ==
    LET all == [chain |-> "base", token_in |-> "a", token_out |-> k.to, side |-> i.side,
                amount_type |-> k.type, amount |-> [digits |-> k.digits, scale |-> k.scale],
                limit_price |-> [digits |-> k.price, scale |-> k.scale],
                allow_partial_fill |-> FALSE, expiry_ms |-> 9]
        capped == IF k.cap = "none" THEN all ELSE all @@ (k.cap :> 3)
    IN  Only(capped, DOMAIN capped \ {k.lost})

Translated(i, k) ==
    IF i.tool = "place_limit_order" THEN TranslatePlaceLimitOrder(PayloadOf(i, k), Registry(i))
    ELSE TranslateMarketIntent(PayloadOf(i, k), "local", Registry(i), i.tool)

(***************************************************************************)
(* OKX answers.                                                            *)
(***************************************************************************)
OkxRequest == [chain |-> "Base", in |-> <<"Base", "a">>, out |-> <<"Base", "b">>, amount |-> 3,
               slippage |-> 50, wallet |-> "w"]

Absent == [text |-> "absent"]
BadText == [text |-> "bad", v |-> "bad"]
Percents == {[neg |-> FALSE, int |-> i, digits |-> ds] :
                i \in {0, 3, 100, 101}, ds \in {<< >>, <<0>>, <<5>>, <<0, 1>>, <<0, 0, 1>>, <<2, 5, 0, 9>>,
                                             <<0, 0, 0, 0, 1>>}}

QuoteEntry(chain, from, nested, paid, got, impact) ==
    [code |-> "0", data |-> <<[chainIndex |-> chain, from |-> from, fromNested |-> nested,
                               to |-> Text("b"), toNested |-> Absent, fromAmount |-> paid,
                               toAmount |-> got, impact |-> impact]>>]

QuoteAnswers ==
    {QuoteEntry(chain, from, nested, paid, got, impact) :
        chain \in {Absent, Text(8453), Text(1)}, from \in {Absent, Text("a"), Text("c")},
        nested \in {Absent, Text("a"), Text("c")}, paid \in {Text(3), Text(4)},
        got \in {Text(0), Text(7), BadText}, impact \in {Absent, BadText} \cup {Text(p) : p \in Percents}}

Address(vs) == {Absent, [text |-> "empty", v |-> ""], BadText} \cup {Text(v) : v \in vs}

SwapAnswer(from, receivers, spenders, floors) ==
    [code |-> "0",
     data |-> <<[chainIndex |-> Text(8453), from |-> Text("a"), fromNested |-> Text("a"),
                 to |-> Absent, toNested |-> Text("b"), fromAmount |-> Text(3), toAmount |-> Text(7),
                 receivers |-> receivers, spenders |-> spenders, floors |-> floors,
                 tx |-> [text |-> "ok", from |-> from, to |-> Text("r"), value |-> Text(0),
                         calldata |-> Text("0x01")]]>>]

OkxAsks ==
    {<<r1, r2, s1, f1, f2>> : r1 \in Address({"w"}), r2 \in Address({"w", "x"}),
                              s1 \in {Absent, Text("s")}, f1 \in {Absent, Text(5)},
                              f2 \in {Absent, Text(5), Text(6)}}

Delivered == [sent |-> "ok", status |-> 200, oversized |-> FALSE, json |-> TRUE]
OkxReplies == {Delivered, [Delivered EXCEPT !.status = 429], [Delivered EXCEPT !.sent = "timeout"],
               [Delivered EXCEPT !.oversized = TRUE], [Delivered EXCEPT !.json = FALSE]}

\* First days of years around the century and leap rules.
YearStarts == {0, 365, 730, 10957, 11323, 47482, 47847, 157054, 2932532}

MCOkxCases ==
    {[kind |-> "quote", request |-> OkxRequest, answer |-> e, replies |-> OkxReplies] :
        e \in QuoteAnswers}
    \cup {[kind |-> "swap", request |-> OkxRequest, replies |-> {Delivered},
           answer |-> SwapAnswer(from, <<k[1], Absent, k[2]>>, <<k[3], Absent, Text("s")>>,
                                 <<k[4], k[5]>>)] :
             from \in {Text("w"), Text("x"), BadText}, k \in OkxAsks}
    \cup {[kind |-> "sign", request |-> OkxRequest, days |-> y + d, bps |-> (y + d * 27) % 10001,
           at |-> 60, times |-> {59, 60, 3600},
           others |-> {[OkxRequest EXCEPT !.slippage = bps, !.amount = n] :
                          bps \in {-1, 0, 5, 50}, n \in {3, 30}}] :
             y \in YearStarts, d \in 0..366}

(***************************************************************************)
(* The questions.                                                          *)
(***************************************************************************)
Init ==
    /\ asked = FALSE /\ ask = << >> /\ GateInit /\ OkxInit
    /\ \/ topic = "cpmm" /\ item \in CpmmPools
       \/ topic = "clmm" /\ item \in ClmmPools
       \/ topic = "bin" /\ item \in BinPools
       \/ topic = "curve" /\ item \in {Curve(c.kind, c.pool, c.dir) : c \in Curves}
       \/ topic = "trade" /\ item = "gate"
       \/ topic = "route" /\ item \in RoutePools
       \/ topic = "intent" /\ item \in IntentItems
       \/ topic = "okx" /\ item = "client"

Questions ==
    CASE topic = "cpmm" -> {0, 1} \X (0..60)
      [] topic = "clmm" -> {0, 1} \X {0, 1, 2, 3, 5, 8, 13, 30, 60}
      [] topic = "bin" -> {0, 1} \X (0..20)
      [] topic = "curve" -> {0} \X (1..20)
      [] topic = "route" -> RouteAsks
      [] topic = "intent" -> IntentAsks

Next ==
    /\ ~asked /\ asked' = TRUE /\ UNCHANGED <<topic, item>>
    /\ \/ topic = "trade" /\ GateNext /\ UNCHANGED <<ask, okx>>
       \/ topic = "okx" /\ OkxNext /\ UNCHANGED <<ask, gate>>
       \/ topic \notin {"trade", "okx"} /\ ask' \in Questions /\ UNCHANGED <<gate, okx>>

Spec == Init /\ [][Next]_pricingVars

Asked(t) == topic = t /\ asked

\* No swap the simulator prices creates value: through a constant-product or a concentrated pool
\* the proceeds, swapped back with or without the token's taxes, never return more than was paid;
\* a bin pool pays no more than it holds and never less for more; and an exact-output quote names
\* the smallest input that pays it, by formula or by growth and bisection.
SwapsKeepValue ==
    /\ Asked("cpmm") => /\ CpmmKeepsValue(item, ask[1], ask[2])
                        /\ CpmmOutputIsMinimal(item, ask[1], ask[2])
                        /\ \A tax \in {0, 2} : RoundTripLoses("Cpmm", item, ask[1], ask[2], tax, 1)
                        /\ RecommendedFloorBuilds("Cpmm", item, ask[1], ask[2], 4)
    /\ Asked("clmm") => /\ ClmmKeepsValue(item, ask[1], ask[2])
                        /\ \A r \in {30, 50, 60, 80, 150} : ImpactIsLeast(item.s, r)
                        /\ RoundTripLoses("Clmm", item, ask[1], ask[2], 2, 1)
    /\ Asked("bin") => BinIsMonotone(item, ask[1], ask[2])
    /\ Asked("curve") => SearchIsMinimal(item, ask[2])

\* The best single path is the best that could have been accepted, and the two planners and a
\* provider's quote agree on what a direct trade is worth.
BestRouteIsBest ==
    Asked("route") =>
        /\ SinglePathIsBest(RequestOf(item, ask))
        /\ PlannersAgree(RequestOf(item, ask), Quotes(RequestOf(item, ask)))
        /\ \A mine \in 1..3, theirs \in {7, 8, 9}, bps \in {0, 6} :
              ComparisonIsExact(RequestOf(item, ask), mine * 4, theirs, bps)

\* A split the optimizer selects spends the request exactly, through disjoint pools, and is worth
\* more than the best single path after everybody's gas.
SplitPaysOff == Asked("route") => SplitIsSound(RequestOf(item, ask))

\* What the web client typed is what the command says: every translated intent parses, is worth
\* the amount typed, prices exactly and drops no cap; it reaches the backend only within the
\* wallet's cap; and the floor shown is the floor enforced.
IntentIsKept ==
    Asked("intent") =>
        /\ TranslationIsFaithful(PayloadOf(item, ask), Translated(item, ask), item.in)
        /\ \A paid \in 1..4, got \in 1..4 :
              PriceIsExact([digits |-> ask.price, scale |-> ask.scale], item.in, item.out, paid, got)
        /\ \A on \in BOOLEAN, cap \in {0, 50}, usd \in {-1, 0, 1, 2}, outcome \in {"Denied", "Failed"} :
              SpendIsAuthorized(PayloadOf(item, ask), Translated(item, ask), item.in,
                                [trading_enabled |-> on, max_trade_usd |-> cap,
                                 allowed_chains |-> {"Base"}], usd, outcome)
        /\ \A bps \in 0..BpsOne : ShownFloorIsEnforced(ask.digits, bps)
        /\ \A cost \in 0..3, asset \in {"a", "b"} :
              ShownTaxIsExact([amount |-> cost, asset |-> asset],
                              [amount |-> ask.digits, asset |-> "a"])
        /\ \A tool \in {"get_token", "get_chart"}, lost \in {"none", "chain", "address", "window"} :
              LET whole == [chain |-> "base", address |-> "t", window |-> "d1"]
                  read == TranslateTokenPayload(Only(whole, DOMAIN whole \ {lost}),
                                                [base |-> "Base"], tool)
              IN  read.ok => BuildError(read.out) = "none"

=============================================================================
