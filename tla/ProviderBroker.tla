---------------------------- MODULE ProviderBroker ----------------------------
(***************************************************************************)
(* The provider intelligence broker (crates/provider-broker) over the      *)
(* typed MCP adapters (crates/mcp-adapters): a logical cache with fresh,   *)
(* stale-while-revalidate and negative entries, singleflight coalescing,   *)
(* and per provider a token-bucket budget and a circuit breaker.           *)
(*                                                                         *)
(* One action is the code between two awaits or two locks: the cache       *)
(* lookup, the in_flight lock, the leader's pre-flight check, and the      *)
(* completion of its fetch.  A clock tick is one second.  An answer keeps  *)
(* the instant its data left the provider at the earliest.                 *)
(***************************************************************************)
EXTENDS Integers, Sequences, FiniteSetsExt, Functions

CONSTANTS
  FreshTtl, StaleGrace, NegativeTtl, MaxBudget, RefillPerTick,
  BrokerThreshold, BrokerCooldown,   \* the policy, in ticks of one second
  BrokerCallers,   \* concurrent callers of the typed operations
  BrokerMenus,     \* [ops, contexts]: the operations, and the candidate, position
                   \* and priority, that the callers of one behaviour use
  AdapterReplies,  \* what the MCP transport may answer
  Cancellation,    \* the future of a leader may be dropped while it fetches
  BrokerHorizon    \* bound of the clock

ASSUME BrokerAssumption ==
  {FreshTtl, StaleGrace, NegativeTtl, MaxBudget, RefillPerTick, BrokerThreshold, BrokerCooldown}
    \subseteq Nat

VARIABLES
  brokerNow, menu,
  budget,          \* [provider -> [available, last]]
  circuit,         \* [provider -> [state, failures, until, probe]]
  cached,          \* LogicalCache.entries: key -> [at], and when its data was asked for
  negative,        \* LogicalCache.negative_entries: key -> [until, kind]
  inFlight,        \* singleflight map: key -> the caller that leads
  swr,             \* swr_pending with the state of its task: key -> [step, at]
  asked,           \* [caller -> its call]
  spent            \* [provider -> weight sent upstream so far] (history)

brokerVars == <<brokerNow, menu, budget, circuit, cached, negative, inFlight,
                swr, asked, spent>>

ProviderIds == {"fomo", "gmgn"}

-----------------------------------------------------------------------------
(* Budget and circuit of one provider.  The benchmark and social services  *)
(* keep their own instances of them, and of the cache.                     *)

Replenish(b, now) ==
  IF now <= b.last THEN b
  ELSE [available |-> Min({MaxBudget, b.available + (now - b.last) * RefillPerTick}),
        last |-> now]

IsUnderPressure(b, now) == 4 * Replenish(b, now).available < MaxBudget

TryConsume(b, now, cost) ==
  LET r == Replenish(b, now)
  IN  IF r.available >= cost
      THEN [ok |-> TRUE, budget |-> [r EXCEPT !.available = @ - cost]]
      ELSE [ok |-> FALSE, budget |-> r]

NewCircuit == [state |-> "Healthy", failures |-> 0, until |-> 0, probe |-> FALSE]

CircuitAllowed(c, now) ==
  CASE c.state = "Healthy" -> [ok |-> TRUE, circuit |-> c]
    [] c.state = "Degraded" -> [ok |-> ~c.probe, circuit |-> c]
    [] c.state = "CircuitOpen" ->
         IF now < c.until THEN [ok |-> FALSE, circuit |-> c]
         ELSE [ok |-> TRUE,
               circuit |-> [c EXCEPT !.state = "Degraded", !.probe = TRUE]]

CircuitSuccess(c) == [c EXCEPT !.failures = 0, !.state = "Healthy", !.probe = FALSE]

\* The failure counter saturates; the model caps it at the threshold, the
\* only value it is compared with.
CircuitFailure(c, now) ==
  IF c.failures + 1 >= BrokerThreshold
  THEN [state |-> "CircuitOpen", failures |-> BrokerThreshold,
        until |-> now + BrokerCooldown, probe |-> FALSE]
  ELSE [c EXCEPT !.failures = @ + 1, !.state = "Degraded", !.probe = FALSE]

HealthState(c, now) ==
  IF c.state = "CircuitOpen" /\ now >= c.until THEN "Degraded" ELSE c.state

-----------------------------------------------------------------------------
(* The logical cache: entries and negative entries.  An entry is stamped   *)
(* with `at`, the instant its fetch was admitted.                          *)

Dropped(f, key) == Restrict(f, DOMAIN f \ {key})
Entered(f, key, entry) == [k \in DOMAIN f \cup {key} |-> IF k = key THEN entry ELSE f[k]]

Lookup(entries, negatives, key, now) ==
  IF key \in DOMAIN negatives /\ now < negatives[key].until THEN "Negative"
  ELSE IF key \notin DOMAIN entries THEN "Miss"
  ELSE LET age == now - entries[key].at
       IN  IF age <= FreshTtl THEN "Fresh"
           ELSE IF age <= FreshTtl + StaleGrace THEN "Stale"
           ELSE "Expired"

\* An expired negative entry is removed by the lookup that meets it.
LookedUp(negatives, key, now) ==
  IF key \in DOMAIN negatives /\ now >= negatives[key].until
  THEN Dropped(negatives, key) ELSE negatives

\* A success also clears the negative entry of its key.
InsertSuccess(entries, key, entry) == Entered(entries, key, entry)

InsertNegative(negatives, key, kind, now) ==
  Entered(negatives, key, [until |-> now + NegativeTtl, kind |-> kind])

\* get_stale_fallback: any entry, however old.
HasFallback(entries, key) == key \in DOMAIN entries
-----------------------------------------------------------------------------
(* The typed requests: the fields each validate() checks, in its order.    *)

FomoSearchTokensRequest == <<"query">>
FomoGetTokenRequest == <<"network_id", "token_address">>
FomoTrendingTokensRequest == <<"list">>
FomoRecentEventsRequest ==
  <<"since_minutes", "since", "until", "action", "user_handle", "user_id",
    "network_id", "token_address", "min_usd", "limit">>
GmgnTrendingRequest == <<"chain", "interval", "limit">>
GmgnSearchRequest == <<"query", "chain">>
GmgnTokenRequest == <<"chain", "address">>
GmgnTopHoldersRequest == <<"chain", "address", "limit", "order_by">>
GmgnKlineRequest == <<"chain", "address", "resolution", "from", "to">>

\* OperationProfile of every operation: its service, weight and class.
Profile(service, weight, expensive) ==
  [service |-> service, weight |-> weight, expensive |-> expensive]

OperationProfile ==
  [fomo_capabilities        |-> Profile("fomo", 1, FALSE),
   fomo_search_tokens       |-> Profile("fomo", 1, FALSE),
   fomo_get_token           |-> Profile("fomo", 1, FALSE),
   fomo_get_trending_tokens |-> Profile("fomo", 1, FALSE),
   fomo_get_recent_events   |-> Profile("fomo", 2, FALSE),
   gmgn_trending            |-> Profile("gmgn", 1, FALSE),
   gmgn_search              |-> Profile("gmgn", 1, FALSE),
   gmgn_token_info          |-> Profile("gmgn", 1, FALSE),
   gmgn_token_security      |-> Profile("gmgn", 2, FALSE),
   gmgn_top_holders         |-> Profile("gmgn", 5, TRUE),
   gmgn_kline               |-> Profile("gmgn", 3, FALSE)]

\* A key separates requests by operation, arguments, candidate and position.
LogicalRequestKey(op, ctx) == <<op, ctx.candidate.id, ctx.position>>
ServiceOf(key) == OperationProfile[key[1]].service
WeightOf(key) == OperationProfile[key[1]].weight

IsEligible(candidate) ==
  candidate.id # "none" /\ candidate.score >= candidate.threshold

-----------------------------------------------------------------------------
(* The adapters: what a transport answer becomes.                          *)

IntoAdapterError(failure) ==
  IF failure = "Unavailable" THEN "ServiceUnavailable" ELSE "TransportFailure"

\* unpack_mcp_response: text blocks are joined and parsed, otherwise the
\* structured payload or the payload itself is taken.
UnpackMcpResponse(r) ==
  CASE r.is_error -> "ToolExecutionFailed"
    [] r.text /\ r.oversized -> "OversizedResponse"
    [] r.text /\ ~r.parses -> "MalformedResponse"
    [] r.oversized -> "OversizedResponse"
    [] r.flagged -> "ToolExecutionFailed"
    [] OTHER -> "Ok"

FomoAdapterResult(r) ==
  IF r.failure # "none" THEN IntoAdapterError(r.failure)
  ELSE IF UnpackMcpResponse(r) = "Ok" /\ ~r.decodes THEN "MalformedResponse"
  ELSE UnpackMcpResponse(r)

\* GmgnResponse::from_value accepts any JSON value.
GmgnAdapterResult(r) ==
  IF r.failure # "none" THEN IntoAdapterError(r.failure)
  ELSE UnpackMcpResponse(r)

AdapterResult(key, r) ==
  IF ServiceOf(key) = "fomo" THEN FomoAdapterResult(r) ELSE GmgnAdapterResult(r)

-----------------------------------------------------------------------------
(* Admission of a request to a provider.                                  *)

\* pre_flight_check: circuit, then shedding, then budget.  What an earlier
\* check changed stays changed when a later one refuses.
PreFlightCheck(p, now, cost, priority) ==
  LET allowed == CircuitAllowed(circuit[p], now)
      shed == /\ priority = "Low"
              /\ \/ IsUnderPressure(budget[p], now)
                 \/ HealthState(allowed.circuit, now) # "Healthy"
      paid == TryConsume(budget[p], now, cost)
  IN  CASE ~allowed.ok -> [refusal |-> "CooldownActive", circuit |-> allowed.circuit,
                           budget |-> budget[p]]
        [] allowed.ok /\ shed -> [refusal |-> "LowPriorityShed",
                                  circuit |-> allowed.circuit, budget |-> budget[p]]
        [] allowed.ok /\ ~shed /\ ~paid.ok ->
             [refusal |-> "BudgetExhausted", circuit |-> allowed.circuit,
              budget |-> paid.budget]
        [] OTHER -> [refusal |-> "none", circuit |-> allowed.circuit,
                     budget |-> paid.budget]

-----------------------------------------------------------------------------
(* A call and its answer.                                                  *)

Idle == [step |-> "idle"]
BrokerAnswer(label, asOf, reason) ==
  [step |-> "done", label |-> label, asOf |-> asOf, reason |-> reason,
   when |-> brokerNow]
NoData == -1

CallAt(step, key, priority, at) ==
  [step |-> step, key |-> key, priority |-> priority, at |-> at]

\* execute_logical_request up to the cache answer, with the caller's request
\* validated first.  `bad` is the set of malformed fields of the request.
BrokerCall(c, op, fields, bad, ctx) ==
  LET key == LogicalRequestKey(op, ctx)
      now == brokerNow
      found == Lookup(cached, negative, key, now)
      gated == OperationProfile[op].expensive /\ ~IsEligible(ctx.candidate)
  IN  /\ asked[c].step \in {"idle", "done"}
      /\ op \in menu.ops
      /\ UNCHANGED <<brokerNow, menu, budget, circuit, cached, inFlight, spent>>
      /\ IF Range(fields) \cap bad # {} \/ gated
         THEN /\ asked' = [asked EXCEPT ![c] =
                             BrokerAnswer("Miss", NoData, "CandidateGatingRejected")]
              /\ UNCHANGED <<negative, swr>>
         ELSE /\ negative' = LookedUp(negative, key, now)
              /\ asked' = [asked EXCEPT ![c] =
                   CASE found = "Fresh" -> BrokerAnswer("FreshHit", cached[key].asked, "none")
                     [] found = "Negative" -> BrokerAnswer("NegativeHit", NoData, "NegativeCached")
                     [] found = "Stale" -> BrokerAnswer("StaleServed", cached[key].asked, "none")
                     [] OTHER -> CallAt("join", key, ctx.priority, now)]
              /\ swr' = IF found = "Stale" /\ key \notin DOMAIN swr
                        THEN Entered(swr, key, [step |-> "spawned", at |-> now])
                        ELSE swr

fomo_capabilities(c, bad, ctx) == BrokerCall(c, "fomo_capabilities", <<>>, bad, ctx)
fomo_search_tokens(c, bad, ctx) ==
  BrokerCall(c, "fomo_search_tokens", FomoSearchTokensRequest, bad, ctx)
fomo_get_token(c, bad, ctx) ==
  BrokerCall(c, "fomo_get_token", FomoGetTokenRequest, bad, ctx)
fomo_get_trending_tokens(c, bad, ctx) ==
  BrokerCall(c, "fomo_get_trending_tokens", FomoTrendingTokensRequest, bad, ctx)
fomo_get_recent_events(c, bad, ctx) ==
  BrokerCall(c, "fomo_get_recent_events", FomoRecentEventsRequest, bad, ctx)
gmgn_trending(c, bad, ctx) ==
  BrokerCall(c, "gmgn_trending", GmgnTrendingRequest, bad, ctx)
gmgn_search(c, bad, ctx) == BrokerCall(c, "gmgn_search", GmgnSearchRequest, bad, ctx)
gmgn_token_info(c, bad, ctx) ==
  BrokerCall(c, "gmgn_token_info", GmgnTokenRequest, bad, ctx)
gmgn_token_security(c, bad, ctx) ==
  BrokerCall(c, "gmgn_token_security", GmgnTokenRequest, bad, ctx)
gmgn_top_holders(c, bad, ctx) ==
  BrokerCall(c, "gmgn_top_holders", GmgnTopHoldersRequest, bad, ctx)
gmgn_kline(c, bad, ctx) == BrokerCall(c, "gmgn_kline", GmgnKlineRequest, bad, ctx)

\* The in_flight lock: follow the leader of the key, or become it.
JoinFlight(c) ==
  LET key == asked[c].key
  IN  /\ asked[c].step = "join"
      /\ IF key \in DOMAIN inFlight
         THEN /\ asked' = [asked EXCEPT ![c].step = "wait"]
              /\ UNCHANGED inFlight
         ELSE /\ asked' = [asked EXCEPT ![c].step = "preflight"]
              /\ inFlight' = Entered(inFlight, key, c)
      /\ UNCHANGED <<brokerNow, menu, budget, circuit, cached, negative, swr, spent>>

Followers(key) == {c \in BrokerCallers : asked[c].step = "wait" /\ asked[c].key = key}

\* The leader removes its entry and broadcasts: every follower is answered.
\* A follower labels an Ok outcome a Miss of age 0, whatever the leader had.
Broadcast(c, key, answer, followerAnswer) ==
  /\ inFlight' = Dropped(inFlight, key)
  /\ asked' = [d \in BrokerCallers |->
                IF d = c THEN answer
                ELSE IF d \in Followers(key) THEN followerAnswer ELSE asked[d]]

LeaderPreFlight(c) ==
  LET key == asked[c].key
      p == ServiceOf(key)
      check == PreFlightCheck(p, brokerNow, WeightOf(key), asked[c].priority)
  IN  /\ asked[c].step = "preflight"
      /\ circuit' = [circuit EXCEPT ![p] = check.circuit]
      /\ budget' = [budget EXCEPT ![p] = check.budget]
      /\ \/ /\ check.refusal = "none"
            /\ asked' = [asked EXCEPT ![c] = CallAt("fetch", key, @.priority, brokerNow)]
            /\ spent' = [spent EXCEPT ![p] = @ + WeightOf(key)]
            /\ UNCHANGED inFlight
         \/ /\ check.refusal # "none" /\ HasFallback(cached, key)
            /\ Broadcast(c, key, BrokerAnswer("StaleServed", cached[key].asked, check.refusal),
                                 BrokerAnswer("Miss", cached[key].asked, "none"))
            /\ UNCHANGED spent
         \/ /\ check.refusal # "none" /\ ~HasFallback(cached, key)
            /\ Broadcast(c, key, BrokerAnswer("Miss", NoData, check.refusal),
                                 BrokerAnswer("Miss", NoData, check.refusal))
            /\ UNCHANGED spent
      /\ UNCHANGED <<brokerNow, menu, cached, negative, swr>>

StoreSuccess(key, at, began) ==
  /\ cached' = InsertSuccess(cached, key, [at |-> at, asked |-> began])
  /\ negative' = Dropped(negative, key)
StoreNegative(key, kind, at) ==
  /\ negative' = InsertNegative(negative, key, kind, at)
  /\ UNCHANGED cached

\* Mutant: the entry is stamped with the instant the fetch ended.
RecordAtEnd(key, result, at) ==
  LET p == ServiceOf(key)
  IN  IF result = "Ok"
      THEN /\ circuit' = [circuit EXCEPT ![p] = CircuitSuccess(@)]
           /\ StoreSuccess(key, brokerNow, at)
      ELSE /\ circuit' = [circuit EXCEPT ![p] = CircuitFailure(@, at)]
           /\ StoreNegative(key, result, at)

\* What a finished fetch records, with the instant read before the await.
Record(key, result, at) ==
  LET p == ServiceOf(key)
  IN  IF result = "Ok"
      THEN /\ circuit' = [circuit EXCEPT ![p] = CircuitSuccess(@)]
           /\ StoreSuccess(key, at, at)
      ELSE /\ circuit' = [circuit EXCEPT ![p] = CircuitFailure(@, at)]
           /\ StoreNegative(key, result, at)

LeaderFinish(c, r) ==
  LET key == asked[c].key
      result == AdapterResult(key, r)
      answer == IF result = "Ok" THEN BrokerAnswer("Miss", asked[c].at, "none")
                ELSE BrokerAnswer("Miss", NoData, "ProviderUnavailable")
  IN  /\ asked[c].step = "fetch"
      /\ Record(key, result, asked[c].at)
      /\ Broadcast(c, key, answer, answer)
      /\ UNCHANGED <<brokerNow, menu, budget, swr, spent>>

\* The spawned stale-while-revalidate task: pre-flight at Normal priority.
SwrStart(key) ==
  LET p == ServiceOf(key)
      check == PreFlightCheck(p, brokerNow, WeightOf(key), "Normal")
  IN  /\ key \in DOMAIN swr /\ swr[key].step = "spawned"
      /\ circuit' = [circuit EXCEPT ![p] = check.circuit]
      /\ budget' = [budget EXCEPT ![p] = check.budget]
      /\ IF check.refusal = "none"
         THEN /\ swr' = [swr EXCEPT ![key] = [step |-> "fetch", at |-> brokerNow]]
              /\ spent' = [spent EXCEPT ![p] = @ + WeightOf(key)]
         ELSE /\ swr' = Dropped(swr, key)
              /\ UNCHANGED spent
      /\ UNCHANGED <<brokerNow, menu, cached, negative, inFlight, asked>>

SwrFinish(key, r) ==
  /\ key \in DOMAIN swr /\ swr[key].step = "fetch"
  /\ Record(key, AdapterResult(key, r), swr[key].at)
  /\ swr' = Dropped(swr, key)
  /\ UNCHANGED <<brokerNow, menu, budget, inFlight, asked, spent>>

\* A caller gives up: its future is dropped where it awaits.
DropBrokerCall(c) ==
  /\ asked[c].step = "wait" \/ (Cancellation /\ asked[c].step = "fetch")
  /\ asked' = [asked EXCEPT ![c] = Idle]
  /\ UNCHANGED <<brokerNow, menu, budget, circuit, cached, negative, inFlight, swr, spent>>

BrokerTick ==
  /\ brokerNow < BrokerHorizon
  /\ brokerNow' = brokerNow + 1
  /\ UNCHANGED <<menu, budget, circuit, cached, negative, inFlight, swr, asked, spent>>

BrokerInit ==
  /\ brokerNow = 0
  /\ menu \in BrokerMenus
  /\ budget = [p \in ProviderIds |-> [available |-> MaxBudget, last |-> 0]]
  /\ circuit = [p \in ProviderIds |-> NewCircuit]
  /\ cached = <<>> /\ negative = <<>> /\ inFlight = <<>> /\ swr = <<>>
  /\ asked = [c \in BrokerCallers |-> Idle]
  /\ spent = [p \in ProviderIds |-> 0]

BrokerNext ==
  \/ \E c \in BrokerCallers, bad \in {{}, {"chain", "query"}}, ctx \in menu.contexts :
       \/ fomo_capabilities(c, bad, ctx) \/ fomo_search_tokens(c, bad, ctx)
       \/ fomo_get_token(c, bad, ctx) \/ fomo_get_trending_tokens(c, bad, ctx)
       \/ fomo_get_recent_events(c, bad, ctx) \/ gmgn_trending(c, bad, ctx)
       \/ gmgn_search(c, bad, ctx) \/ gmgn_token_info(c, bad, ctx)
       \/ gmgn_token_security(c, bad, ctx) \/ gmgn_top_holders(c, bad, ctx)
       \/ gmgn_kline(c, bad, ctx)
  \/ \E c \in BrokerCallers : \/ JoinFlight(c) \/ LeaderPreFlight(c) \/ DropBrokerCall(c)
                              \/ \E r \in AdapterReplies : LeaderFinish(c, r)
  \/ \E key \in DOMAIN swr : SwrStart(key) \/ \E r \in AdapterReplies : SwrFinish(key, r)
  \/ BrokerTick

BrokerSpec == BrokerInit /\ [][BrokerNext]_brokerVars

-----------------------------------------------------------------------------
(* Properties.                                                             *)

Leading == {c \in BrokerCallers : asked[c].step \in {"preflight", "fetch"}}
Fetching == {key \in DOMAIN swr : swr[key].step = "fetch"}

\* Singleflight (execute_logical_request, lib.rs: "identical concurrent
\* requests coalesce to <= 1 adapter call"): a key has at most one leader, the
\* in_flight map names it, and a follower always waits for a caller that is
\* still going to broadcast.
FollowersHaveALeader ==
  /\ \A c \in Leading : asked[c].key \in DOMAIN inFlight /\ inFlight[asked[c].key] = c
  /\ \A c \in BrokerCallers : asked[c].step = "wait" =>
       asked[c].key \in DOMAIN inFlight /\ inFlight[asked[c].key] \in Leading

\* The token bucket meters every upstream call, leaders and refreshes alike:
\* by any instant a provider was sent no more weight than its capacity and
\* the refill since the start.
UpstreamIsMetered ==
  \A p \in ProviderIds : spent[p] <= MaxBudget + brokerNow * RefillPerTick

\* An answer labelled fresh carries data that left the provider at most
\* fresh_ttl_ms before the answer was made, although the entry is stamped by a
\* fetch that may end long after it began and may be overtaken by another.
FreshAnswersAreRecent ==
  \A c \in BrokerCallers :
    asked[c].step = "done" /\ asked[c].label = "FreshHit"
      => asked[c].when - asked[c].asOf <= FreshTtl

\* What the broker promises a caller, in one invariant.
BrokerKeepsItsPromises ==
  FollowersHaveALeader /\ UpstreamIsMetered /\ FreshAnswersAreRecent

\* circuit.rs, check_allowed, of probe_in_flight: "A single probe is currently
\* executing".  Whenever the flag is set some request of the provider is
\* between its admission and its recorded outcome.
ProbeIsExecuting ==
  \A p \in ProviderIds : circuit[p].probe =>
    \/ \E c \in BrokerCallers : asked[c].step = "fetch" /\ ServiceOf(asked[c].key) = p
    \/ \E key \in Fetching : ServiceOf(key) = p
=============================================================================
