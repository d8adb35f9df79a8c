---------------------------- MODULE IntelServices ----------------------------
(***************************************************************************)
(* The two analytics services built on the broker's parts: the provider    *)
(* benchmark (crates/provider-benchmark, driven pass by pass by            *)
(* apps/trading-core/src/benchmark.rs) and social intelligence             *)
(* (crates/social-intel).  Both run one call at a time (&mut self, behind  *)
(* a tokio mutex); the fetch is their only await, where the call may also  *)
(* be dropped.                                                             *)
(***************************************************************************)
EXTENDS ProviderBroker

CONSTANTS
  BenchRequests,     \* [local : [pair, in, out, at], eligible, priority]
  BenchQuotes,       \* [source, pair, in, out, at] a provider may answer
  BenchCost, MinInput, MaxQuoteAge, MaxStateAge, MaxPerBenchPass,
  SocialRequests,    \* [token, priority, eligible, position]
  SocialSnapshots,   \* [token, signals, weight] the provider may answer
  MaxSignals, MaxWeight,
  IntelHorizon       \* bound of the clock

ASSUME IntelAssumption ==
  /\ {MaxSignals, MaxWeight, MaxPerBenchPass} \subseteq Nat
  /\ \A s \in SocialSnapshots :
       /\ s = [token |-> s.token, signals |-> s.signals, weight |-> s.weight]
       /\ s.signals \in Nat /\ s.weight \in Nat

VARIABLES
  intelNow,
  bench,        \* ProviderBenchmarkService and the fetch it is in
  benchPass,    \* requests the pass has yet to evaluate
  benchReport,  \* ProviderBenchmarkPassReport of the pass
  benchSink,    \* the last record given to the sink
  social        \* SocialIntelService and the fetch it is in

intelVars == <<intelNow, bench, benchPass, benchReport, benchSink, social>>

NoFetch == [busy |-> FALSE]
NoAnswer == [state |-> "none"]
NoRecord == [deviates |-> FALSE, quote |-> "none"]

-----------------------------------------------------------------------------
(* Benchmark.                                                              *)

\* The candidate is not part of the key: equal orders share a quote.
BenchKey(local) == <<local.pair, local.in>>

Binds(local, quote, now) ==
  /\ quote.source = "okx"
  /\ quote.pair = local.pair /\ quote.in = local.in
  /\ quote.at <= now

\* compare_route as far as the service looks at it; RouteSearch!CompareRoute
\* has its arithmetic.
Comparison(local, quote, now) ==
  IF local.in = 0 \/ local.out = 0 \/ now < local.at \/ now < quote.at THEN "Rejected"
  ELSE IF local.in < MinInput \/ now - local.at > MaxStateAge
          \/ now - quote.at > MaxQuoteAge THEN "Skipped"
  ELSE IF quote.out = 0 THEN "ZeroProviderOutput" ELSE "Verdict"

\* compare_outcome: a verdict, or a skipped comparison, reaches the sink; a
\* skipped one is recorded with deviation 0.
CompareOutcome(local, quote, now) ==
  LET c == Comparison(local, quote, now)
  IN  IF c \in {"Verdict", "Skipped"}
      THEN [compared |-> TRUE,
            record |-> [deviates |-> c = "Verdict" /\ local.out # quote.out,
                        quote |-> quote]]
      ELSE [compared |-> FALSE, record |-> NoRecord]

SkippedOutcome == [compared |-> FALSE, record |-> NoRecord]

\* run_pass tallies the outcome and hands a record to the sink.
Tally(outcome) ==
  /\ benchReport' = [benchReport EXCEPT
       !.compared = @ + (IF outcome.compared THEN 1 ELSE 0),
       !.skipped = @ + (IF outcome.compared THEN 0 ELSE 1)]
  /\ benchSink' = IF outcome.compared THEN outcome.record ELSE benchSink
  /\ benchPass' = Tail(benchPass)

FallbackOutcome(local, key, now) ==
  IF HasFallback(bench.entries, key)
  THEN CompareOutcome(local, bench.entries[key].quote, now) ELSE SkippedOutcome

\* What denies a request before anything is spent.
BenchGated(r, now) ==
  \/ ~r.eligible
  \/ r.local.in = 0 \/ r.local.out = 0
  \/ r.local.in < MinInput
  \/ r.local.at > now

\* refresh_or_fallback up to the fetch: open circuit, shedding, budget, and
\* only then the half-open probe.
Refresh(b, priority, now) ==
  LET health == HealthState(b.circuit, now)
      paid == TryConsume(b.budget, now, BenchCost)
      allowed == CircuitAllowed(b.circuit, now)
  IN  IF \/ health = "CircuitOpen"
         \/ (priority = "Low") /\ (IsUnderPressure(b.budget, now) \/ health # "Healthy")
      THEN [ok |-> FALSE, bench |-> b]
      ELSE [ok |-> paid.ok /\ allowed.ok,
            bench |-> [b EXCEPT !.budget = paid.budget,
                                !.circuit = IF paid.ok THEN allowed.circuit ELSE @]]

\* A pass of the loop takes the next requests, at most max_per_pass.
BenchPassStart(requests) ==
  /\ benchPass = <<>> /\ ~bench.fetch.busy
  /\ benchPass' = SubSeq(requests, 1, Min({Len(requests), MaxPerBenchPass}))
  /\ benchReport' = [requested |-> Len(benchPass'), compared |-> 0, skipped |-> 0]
  /\ UNCHANGED <<intelNow, bench, benchSink, social>>

\* benchmark(): the next request of the pass, up to its fetch.
Benchmark ==
  /\ benchPass # <<>> /\ ~bench.fetch.busy
  /\ LET r == Head(benchPass)
         now == intelNow
         key == BenchKey(r.local)
         found == Lookup(bench.entries, bench.negatives, key, now)
         met == [bench EXCEPT !.negatives = LookedUp(@, key, now)]
         refresh == Refresh(met, r.priority, now)
     IN  \/ /\ BenchGated(r, now)
            /\ Tally(SkippedOutcome)
            /\ UNCHANGED bench
         \/ /\ ~BenchGated(r, now) /\ found \in {"Fresh", "Negative"}
            /\ Tally(FallbackOutcome(r.local, key, now))
            /\ bench' = met
         \/ /\ ~BenchGated(r, now) /\ found \in {"Stale", "Expired", "Miss"}
            /\ IF refresh.ok
               THEN /\ bench' = [refresh.bench EXCEPT !.fetch =
                                  [busy |-> TRUE, request |-> r, at |-> now]]
                    /\ UNCHANGED <<benchPass, benchReport, benchSink>>
               ELSE /\ bench' = refresh.bench
                    /\ Tally(FallbackOutcome(r.local, key, now))
  /\ UNCHANGED <<intelNow, social>>

\* The source answers.  A quote that does not bind, or is worth nothing, is a
\* failure like no answer at all.
BenchFetched(quote) ==
  LET local == bench.fetch.request.local
      at == bench.fetch.at
      key == BenchKey(local)
  IN  /\ bench.fetch.busy
      /\ IF /\ Binds(local, quote, at)
            /\ Comparison(local, quote, at) # "ZeroProviderOutput"
         THEN /\ bench' = [bench EXCEPT
                   !.circuit = CircuitSuccess(@), !.fetch = NoFetch,
                   !.entries = InsertSuccess(@, key, [at |-> at, quote |-> quote]),
                   !.negatives = Dropped(@, key)]
              /\ Tally(CompareOutcome(local, quote, at))
         ELSE /\ bench' = [bench EXCEPT
                   !.circuit = CircuitFailure(@, at), !.fetch = NoFetch,
                   !.negatives = InsertNegative(@, key, "MalformedResponse", at)]
              /\ Tally(FallbackOutcome(local, key, at))
      /\ UNCHANGED <<intelNow, social>>

BenchFailed ==
  LET local == bench.fetch.request.local
      at == bench.fetch.at
      key == BenchKey(local)
  IN  /\ bench.fetch.busy
      /\ bench' = [bench EXCEPT
           !.circuit = CircuitFailure(@, at), !.fetch = NoFetch,
           !.negatives = InsertNegative(@, key, "ServiceUnavailable", at)]
      /\ Tally(FallbackOutcome(local, key, at))
      /\ UNCHANGED <<intelNow, social>>

\* The pass is dropped during the fetch: ProbeGuard records a failure.
BenchDropped ==
  /\ bench.fetch.busy
  /\ bench' = [bench EXCEPT !.circuit = CircuitFailure(@, bench.fetch.at), !.fetch = NoFetch]
  /\ benchPass' = <<>>
  /\ UNCHANGED <<intelNow, benchReport, benchSink, social>>

-----------------------------------------------------------------------------
(* Social intelligence.                                                    *)

CostUnits == [ActivePositionRisk |-> 4, HighConvictionPreTrade |-> 2,
              PromisingCandidate |-> 1]

\* gate: position risk needs a position, the others an eligible candidate.
SocialGated(r) ==
  IF r.priority = "ActivePositionRisk" THEN ~r.position ELSE ~r.eligible

SocialKey(r) == <<r.token, r.eligible, r.position>>

Sanitize(snapshot) ==
  [snapshot EXCEPT !.signals = Min({@, MaxSignals}), !.weight = Min({@, MaxWeight})]

Degraded(r, state) ==
  [state |-> state, request |-> r,
   value |-> [token |-> r.token, signals |-> 0, weight |-> 0]]

Served(r, state, snapshot) ==
  [state |-> state, request |-> r, value |-> Sanitize(snapshot)]

\* fallback_or_degraded
SocialFallback(r, key, state) ==
  IF HasFallback(social.entries, key)
  THEN Served(r, "StaleServed", social.entries[key].snapshot)
  ELSE Degraded(r, state)

\* get_intelligence up to its fetch.
GetIntelligence(r) ==
  LET now == intelNow
      key == SocialKey(r)
      found == Lookup(social.entries, social.negatives, key, now)
      paid == TryConsume(social.budget, now, CostUnits[r.priority])
      met == LookedUp(social.negatives, key, now)
  IN  /\ ~social.fetch.busy
      /\ social' =
           IF SocialGated(r) THEN [social EXCEPT !.answer = Degraded(r, "Miss")]
           ELSE IF found = "Fresh"
           THEN [social EXCEPT !.negatives = met,
                   !.answer = Served(r, "FreshHit", social.entries[key].snapshot)]
           ELSE IF found = "Negative"
           THEN [social EXCEPT !.answer = SocialFallback(r, key, "NegativeHit")]
           ELSE IF paid.ok
           THEN [social EXCEPT !.negatives = met, !.budget = paid.budget,
                   !.fetch = [busy |-> TRUE, request |-> r, at |-> now]]
           ELSE [social EXCEPT !.negatives = met, !.budget = paid.budget,
                   !.answer = SocialFallback(r, key, "Miss")]
      /\ UNCHANGED <<intelNow, bench, benchPass, benchReport, benchSink>>

AboutTheToken(snapshot, r) == snapshot.token = r.token

SocialFetched(snapshot) ==
  LET r == social.fetch.request
      at == social.fetch.at
      key == SocialKey(r)
  IN  /\ social.fetch.busy
      /\ social' =
           IF AboutTheToken(snapshot, r)
           THEN [social EXCEPT !.fetch = NoFetch,
                   !.entries = InsertSuccess(@, key,
                                 [at |-> at, snapshot |-> Sanitize(snapshot)]),
                   !.negatives = Dropped(@, key),
                   !.answer = Served(r, "Miss", snapshot)]
           ELSE [social EXCEPT !.fetch = NoFetch,
                   !.negatives = InsertNegative(@, key, "ServiceUnavailable", at),
                   !.answer = SocialFallback(r, key, "NegativeHit")]
      /\ UNCHANGED <<intelNow, bench, benchPass, benchReport, benchSink>>

SocialFailed ==
  LET r == social.fetch.request
      key == SocialKey(r)
  IN  /\ social.fetch.busy
      /\ social' = [social EXCEPT !.fetch = NoFetch,
           !.negatives = InsertNegative(@, key, "ServiceUnavailable", social.fetch.at),
           !.answer = SocialFallback(r, key, "NegativeHit")]
      /\ UNCHANGED <<intelNow, bench, benchPass, benchReport, benchSink>>

-----------------------------------------------------------------------------
IntelTick ==
  /\ intelNow < IntelHorizon
  /\ intelNow' = intelNow + 1
  /\ UNCHANGED <<bench, benchPass, benchReport, benchSink, social>>

FullBudget == [available |-> MaxBudget, last |-> 0]

BenchIdle ==
  /\ bench = [budget |-> FullBudget, circuit |-> NewCircuit, entries |-> <<>>,
              negatives |-> <<>>, fetch |-> NoFetch]
  /\ benchPass = <<>>
  /\ benchReport = [requested |-> 0, compared |-> 0, skipped |-> 0]
  /\ benchSink = NoRecord

SocialIdle ==
  social = [budget |-> FullBudget, entries |-> <<>>, negatives |-> <<>>,
            fetch |-> NoFetch, answer |-> NoAnswer]

IntelInit == intelNow = 0 /\ BenchIdle /\ SocialIdle

BenchNext ==
  \/ \E r1, r2 \in BenchRequests : BenchPassStart(<<r1, r2>>)
  \/ Benchmark
  \/ \E q \in BenchQuotes : BenchFetched(q)
  \/ BenchFailed \/ BenchDropped
  \/ IntelTick

SocialNext ==
  \/ \E r \in SocialRequests : GetIntelligence(r)
  \/ \E s \in SocialSnapshots : SocialFetched(s)
  \/ SocialFailed
  \/ IntelTick

IntelSpec == IntelInit /\ [][BenchNext \/ SocialNext]_intelVars

-----------------------------------------------------------------------------
(* Properties.                                                             *)

\* service.rs: "a denied fetch can never strand the circuit's single in-flight
\* probe", and the guard resolves it when the call is dropped: the probe flag
\* of the benchmark is set only while a fetch of it is running; and a pass
\* reports no more outcomes than it took requests.
BenchmarkProbeResolves ==
  /\ bench.circuit.probe => bench.fetch.busy
  /\ benchReport.compared + benchReport.skipped <= benchReport.requested

\* Whatever the provider answered and whatever the cache kept, an answer is
\* about the token that was asked for, and within the output bounds.
SocialAnswersBound ==
  social.answer # NoAnswer =>
    /\ social.answer.value.token = social.answer.request.token
    /\ social.answer.value.signals <= MaxSignals
    /\ social.answer.value.weight <= MaxWeight

IntelKeepsItsPromises == BenchmarkProbeResolves /\ SocialAnswersBound

\* The broker and the two services on it spend, label, share and age provider
\* answers as they say they do.
ProvidersKeepTheirPromises == BrokerKeepsItsPromises /\ IntelKeepsItsPromises
=============================================================================
