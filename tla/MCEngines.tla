------------------------------- MODULE MCEngines -------------------------------
(***************************************************************************)
(* The engines below the private API for TLC: the relay's breaker, orders  *)
(* and their trigger, market orders, wallet policy, adaptive execution,    *)
(* the provider broker and the services on it, the agent channels, the     *)
(* audit trail, the start of the service and the edge in front of it.      *)
(* Each behaviour runs one of them, named by scope.                        *)
(***************************************************************************)
EXTENDS HealthBreaker, OrderLedger, TriggerSearch, WalletPolicy, MarketQuotes, MarketAttempts,
        TradeBackend, AdaptiveExecution, IntelServices, AgentChannels, AuditTrail,
        ServiceStartup, EdgeGateway

VARIABLE scope

engineVars == <<scope, breakerVars, ledgerVars, searchVars, policyVars, quoteVars, attemptVars,
                tradeVars, adaptVars, brokerVars, intelVars, agentVars, auditVars, startVars, edgeVars>>

(***************************************************************************)
(* Trade commands, and what their environment answers.                     *)
(***************************************************************************)
WebSell == [channel |-> "Web", in |-> [chain |-> "base", address |-> "x"],
            out |-> [chain |-> "base", address |-> "y"], side |-> "Sell", unit |-> "TokenAtomic",
            value |-> 1, slippage |-> 99, impact |-> 99, router |-> "Okx"]

MCTradeCommands ==
    {WebSell, [WebSell EXCEPT !.channel = "Telegram", !.unit = "StablecoinAtomic"],
     [WebSell EXCEPT !.router = "Local", !.slippage = 1],
     [WebSell EXCEPT !.slippage = 3]}

GoodFacts == [snapshot |-> TRUE, routing |-> "none", sellable |-> TRUE, provider |-> "Ok",
              composes |-> TRUE]

TradeFacts == {GoodFacts, [GoodFacts EXCEPT !.snapshot = FALSE],
               [GoodFacts EXCEPT !.routing = "StaleState", !.sellable = FALSE]}

(***************************************************************************)
(* Slices, market observations and auctions.                               *)
(***************************************************************************)
TwapOf(total, slices, min, max) ==
    [total |-> total, slices |-> slices, min_chunk |-> min, max_chunk |-> max, max_slippage |-> 2]

MCTwapPlans == {TwapOf(7, 3, 0, 3), TwapOf(5, 3, 2, 2), TwapOf(3, 0, 1, 1)}

CalmMarket == [empty |-> FALSE, age |-> 0, slippage |-> 0, recovery |-> "flat", volatility |-> "low"]

MCObservations ==
    {CalmMarket, [CalmMarket EXCEPT !.recovery = "high"], [CalmMarket EXCEPT !.recovery = "low"],
     [CalmMarket EXCEPT !.slippage = 3, !.age = 2], [CalmMarket EXCEPT !.age = 2],
     [CalmMarket EXCEPT !.empty = TRUE], [CalmMarket EXCEPT !.slippage = 1]}

Auction == [deadline |-> 1, margin |-> 5000, baseline |-> 2, same_asset |-> TRUE]

MCRfqs == {Auction, [Auction EXCEPT !.baseline = 0], [Auction EXCEPT !.same_asset = FALSE]}

SolverQuote(amount, valid) == [ok |-> TRUE, asset |-> TRUE, amount |-> amount, valid |-> valid]

MCSolverReplies ==
    {SolverQuote(3, 0), SolverQuote(2, 2), SolverQuote(3, 2),
     [SolverQuote(3, 3) EXCEPT !.ok = FALSE], [SolverQuote(4, 3) EXCEPT !.asset = FALSE]}

(***************************************************************************)
(* Provider operations and what comes back.                                *)
(***************************************************************************)
NoCandidate == [id |-> "none", score |-> 0, threshold |-> 0]
CallContext(candidate, position, priority) ==
    [candidate |-> candidate, position |-> position, priority |-> priority]
Plain == CallContext(NoCandidate, "none", "Normal")

GoodReply == [failure |-> "none", is_error |-> FALSE, text |-> TRUE, oversized |-> FALSE,
              parses |-> TRUE, flagged |-> FALSE, decodes |-> TRUE]

MCAdapterReplies == {GoodReply, [GoodReply EXCEPT !.failure = "Timeout"]}

\* One operation of every profile.
SampleOps == {CHOOSE op \in DOMAIN OperationProfile : OperationProfile[op] = p : p \in Range(OperationProfile)}

MCBrokerMenus ==
    {[ops |-> {"gmgn_kline"}, contexts |-> {Plain, CallContext(NoCandidate, "none", "Low")}],
     [ops |-> {"gmgn_top_holders"},
      contexts |-> {Plain, CallContext([id |-> "a", score |-> 1, threshold |-> 1], "p", "High")}]}
    \cup {[ops |-> {op}, contexts |-> {Plain}] : op \in SampleOps}

PlannedQuote(pair, in, out, at) == [pair |-> pair, in |-> in, out |-> out, at |-> at]

MCBenchRequests ==
    {[local |-> PlannedQuote("ab", 2, 3, 0), eligible |-> TRUE, priority |-> "Normal"],
     [local |-> PlannedQuote("ab", 2, 3, 0), eligible |-> TRUE, priority |-> "Low"],
     [local |-> PlannedQuote("cd", 1, 3, 0), eligible |-> TRUE, priority |-> "Normal"],
     [local |-> PlannedQuote("ab", 2, 3, 0), eligible |-> FALSE, priority |-> "Normal"]}

ProviderQuote(pair, in, out, at) == [source |-> "okx", pair |-> pair, in |-> in, out |-> out, at |-> at]

MCBenchQuotes == {ProviderQuote("ab", 2, 2, 0), ProviderQuote("ab", 2, 0, 0), ProviderQuote("cd", 2, 3, 0),
                  ProviderQuote("ab", 2, 3, 2)}

SocialRequest(token, priority, eligible, position) ==
    [token |-> token, priority |-> priority, eligible |-> eligible, position |-> position]

MCSocialRequests == {SocialRequest("t", "ActivePositionRisk", FALSE, TRUE),
                     SocialRequest("t", "PromisingCandidate", TRUE, FALSE),
                     SocialRequest("u", "HighConvictionPreTrade", TRUE, FALSE),
                     SocialRequest("u", "HighConvictionPreTrade", FALSE, TRUE)}

MCSocialSnapshots == {[token |-> "t", signals |-> 1, weight |-> 3],
                      [token |-> "u", signals |-> 3, weight |-> 1]}

(***************************************************************************)
(* Agent messages: x and s are the bytes of a frame, r, n and u a carriage *)
(* return, a newline and a byte that is no UTF-8.                          *)
(***************************************************************************)
MCAgentCaps == [trading_enabled |-> TRUE, allowed_chains |-> {"base"}, max_trade_usd |-> 2]
MCAgentValues == {-1, 2, 3}

ToolCall(tool, fields) == [tool |-> tool, kind |-> "absent", bad |-> {}, fields |-> fields]
CancelOrder == ToolCall("cancel_order", [order_id |-> [chain |-> "base"]])

RpcCall(id) == [json |-> "object", version |-> TRUE, id |-> id, method |-> "tools/call",
                params |-> "object", name |-> "cancel_order", args |-> CancelOrder]

MCMcpRequest(line) ==
    CASE line = <<"x">> -> RpcCall("7")
      [] line = <<"x", "x">> -> RpcCall("none")
      [] line = <<"s", "x">> -> [RpcCall("8") EXCEPT !.method = "tools/list", !.params = "none",
                                                     !.name = "absent"]
      [] OTHER -> [RpcCall("none") EXCEPT !.json = "malformed", !.method = "absent",
                                          !.params = "none", !.name = "absent"]

MCMcpInputs == UNION {[1..n -> {"x", "r", "n"}] : n \in 0..5} \cup {<<"u", "n", "s", "x">>}

TgUpdate(id, chat, text) == [id |-> id, ok |-> TRUE, chat |-> chat, sender |-> "a", text |-> text]

MCTgLog == <<TgUpdate(-1, "c", CancelOrder), TgUpdate(3, "c", CancelOrder),
             TgUpdate(4, "d", CancelOrder), TgUpdate(6, "c", ToolCall("bad", << >>))>>

(***************************************************************************)
(* Lifecycle events, release files, environments.                          *)
(***************************************************************************)
LifecycleEvent(seq, owner, execution, outcome, signed) ==
    [seq |-> seq, intent |-> "i", owner |-> owner, execution |-> execution, outcome |-> outcome,
     signed |-> signed, bound |-> TRUE]

MCAuditEvents == {LifecycleEvent(1, "u", "x", "Submitted", TRUE),
                  LifecycleEvent(2, "v", "x", "Confirmed", TRUE)}

MCAuditLookups == {[intent |-> "i", owner |-> "v", execution |-> "any"]}
MCAuditKids == <<"k1", "k2">>

FullEnv == [trading |-> "true", live |-> "1", allow_no_manifest |-> "unset", manifest |-> "path",
            dsn |-> TRUE, rpc |-> TRUE, privy |-> TRUE, passkeys |-> "valid", recovery |-> "unset",
            enrolment |-> TRUE, token |-> "present", payload |-> TRUE, relay |-> "full",
            fomo |-> "full", stream_target |-> TRUE, host |-> "loopback"]

MCStartEnvs ==
    {FullEnv, [FullEnv EXCEPT !.live = "unset", !.dsn = FALSE, !.trading = "yes"],
     [FullEnv EXCEPT !.live = "0", !.relay = "unset", !.stream_target = FALSE, !.trading = "unset",
                     !.manifest = "unset", !.allow_no_manifest = "true"],
     [FullEnv EXCEPT !.fomo = "unset", !.payload = FALSE, !.passkeys = "unset", !.enrolment = FALSE],
     [FullEnv EXCEPT !.dsn = FALSE], [FullEnv EXCEPT !.token = "untrusted"],
     [FullEnv EXCEPT !.host = "remote", !.fomo = "unset"],
     [FullEnv EXCEPT !.relay = "partial", !.fomo = "partial"],
     [FullEnv EXCEPT !.relay = "remote", !.fomo = "unset"]}

ReleaseFile(shape, sha) == [state |-> "ok", shape |-> shape, header |-> 1, sha |-> sha]

MCArtifacts == {ReleaseFile(TRUE, 1), ReleaseFile(TRUE, 2), Nothing("absent")}
MCManifests == {ReleaseFile(TRUE, 1), ReleaseFile(FALSE, 1), Nothing("link")}

EdgeEnv(files, header) ==
    [cert |-> files, key |-> files, ca |-> files, dns |-> files, origin |-> files,
     header |-> header, bind |-> "loopback", jwt |-> FALSE]

MCEdgeEnvs ==
    {EdgeEnv("ok", "ok"), EdgeEnv("absent", "absent"), EdgeEnv("ok", "blank"),
     EdgeEnv("ok", "network"), [EdgeEnv("ok", "ok") EXCEPT !.bind = "public"],
     [EdgeEnv("ok", "ok") EXCEPT !.origin = "http"]}

(***************************************************************************)
(* The scopes.                                                             *)
(***************************************************************************)
Scopes == {"breaker", "ledger", "search", "policy", "quotes", "attempts", "trade", "twap", "rfq",
           "broker", "bench", "social", "stdio", "poller", "audit", "start", "edge"}

AnyOrder == CHOOSE t \in Terms(MaxInputs, Expiries) : TRUE
AnyTwap == CHOOSE p \in TwapPlans : TRUE
AnyMenu == CHOOSE m \in BrokerMenus : TRUE
GoodDisk == [manifest |-> ReleaseFile(TRUE, 1), artifact |-> ReleaseFile(TRUE, 1)]

\* A scope that is not running rests in one of its initial states.
Init ==
    /\ scope \in Scopes
    /\ AgentInit
    /\ scope = "stdio" \/ mcp.source = << >>
    /\ scope = "ledger" \/ terms = AnyOrder
    /\ scope = "search" \/ (remaining = 0 /\ min_fill = 0 /\ allow_partial = TRUE /\ pure = TRUE)
    /\ scope = "policy" \/ gateOpen = TRUE
    /\ scope = "twap" \/ twap = NewTwap(AnyTwap)
    /\ scope = "rfq" \/ rfq = NewRfq(Auction)
    /\ scope = "broker" \/ menu = AnyMenu
    /\ scope = "start" \/ (env = FullEnv /\ disk = GoodDisk)
    /\ BreakerInit /\ LedgerInit /\ SearchInit /\ PolicyInit /\ QuotesInit /\ AttemptsInit
    /\ TradeInit /\ AdaptInit /\ BrokerInit /\ IntelInit /\ AuditInit /\ StartupInit
    /\ EdgeInit

Runs(s) ==
    /\ scope = s /\ UNCHANGED scope
    /\ IF s = "breaker" THEN TRUE ELSE UNCHANGED breakerVars
    /\ IF s = "ledger" THEN TRUE ELSE UNCHANGED ledgerVars
    /\ IF s = "search" THEN TRUE ELSE UNCHANGED searchVars
    /\ IF s = "policy" THEN TRUE ELSE UNCHANGED policyVars
    /\ IF s = "quotes" THEN TRUE ELSE UNCHANGED quoteVars
    /\ IF s = "attempts" THEN TRUE ELSE UNCHANGED attemptVars
    /\ IF s = "trade" THEN TRUE ELSE UNCHANGED tradeVars
    /\ IF s \in {"twap", "rfq"} THEN TRUE ELSE UNCHANGED adaptVars
    /\ IF s = "broker" THEN TRUE ELSE UNCHANGED brokerVars
    /\ IF s \in {"bench", "social"} THEN TRUE ELSE UNCHANGED intelVars
    /\ IF s \in {"stdio", "poller"} THEN TRUE ELSE UNCHANGED agentVars
    /\ IF s = "audit" THEN TRUE ELSE UNCHANGED auditVars
    /\ IF s = "start" THEN TRUE ELSE UNCHANGED startVars
    /\ IF s = "edge" THEN TRUE ELSE UNCHANGED edgeVars

\* Calls come before the frames of the stream that one of them opened.
EdgeStep ==
    \/ /\ bridge.sent = 0 /\ bridge.pushed = 0 /\ bridge.state \in {"none", "open"} /\ bridge.backend
       /\ EdgeCallNext
    \/ (\A c \in EdgeCalls : ecalls[c].step = "idle") /\ BridgeNext

Next ==
    \/ scope = "breaker" /\ BreakerNext /\ Runs("breaker")
    \/ scope = "ledger" /\ LedgerNext /\ Runs("ledger")
    \/ scope = "search" /\ SearchNext /\ Runs("search")
    \/ scope = "policy" /\ PolicyNext /\ Runs("policy")
    \/ scope = "quotes" /\ QuotesNext /\ Runs("quotes")
    \/ scope = "attempts" /\ AttemptsNext /\ Runs("attempts")
    \/ scope = "trade" /\ TradeNext(TradeFacts) /\ Runs("trade")
    \/ scope = "twap" /\ TwapNext /\ Runs("twap")
    \/ scope = "rfq" /\ RfqNext /\ Runs("rfq")
    \/ scope = "broker" /\ BrokerNext /\ Runs("broker")
    \/ scope = "bench" /\ BenchNext /\ Runs("bench")
    \/ scope = "social" /\ SocialNext /\ Runs("social")
    \/ scope = "stdio" /\ StdioNext /\ Runs("stdio")
    \/ scope = "poller" /\ PollerNext /\ Runs("poller")
    \/ scope = "audit" /\ AuditNext /\ Runs("audit")
    \/ scope = "start" /\ StartupNext /\ Runs("start")
    \/ scope = "edge" /\ EdgeStep /\ Runs("edge")

Spec == Init /\ [][Next]_engineVars

\* The provider broker alone.
ProviderSpec == Init /\ scope = "broker" /\ [][Next]_engineVars
=============================================================================
