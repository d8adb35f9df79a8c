----------------------------- MODULE TradeBackend -----------------------------
(***************************************************************************)
(* The trading agent backend (crates/agent-backend/src/trade.rs) over the  *)
(* source-bound execution ports of crates/market-execution: how a market   *)
(* command becomes an intent with a derived identity, is quoted by the     *)
(* router it names, executed through that router's port, and later         *)
(* reconciled from nothing but the command's own parameters.               *)
(*                                                                         *)
(* A command is [channel, in, out, side, unit, value, slippage, impact,    *)
(* router]; an asset is [chain, address]; NoCap stands for an absent cap.  *)
(* The relays behind the ports are external here (ExecutionRelay and       *)
(* MarketAttempts model them): they keep one attempt per binding.          *)
(*                                                                         *)
(* A market order comes to the backend from a quote that MarketQuotes      *)
(* parked or from an agent; what the three modules promise of it together  *)
(* is stated at the end.                                                   *)
(***************************************************************************)
EXTENDS MarketQuotes, MarketAttempts

CONSTANTS
  TradeCommands,     \* the market commands agents send
  TradeCalls,        \* concurrent calls of the backend
  HomeChain,         \* TradingBackendConfig.chain
  SlippageCap, ImpactCap,   \* hard caps of the wallet
  NoCap,
  OkxConfigured      \* an OKX port is composed in

VARIABLES
  trade,      \* [call -> the command it is in and how far it got]
  attempts,   \* [router -> identity -> [status, by]] the relays' attempts
  tradeSends, \* [router -> identity -> how often it was sent] (history)
  market      \* whether the market state still supports the quote

tradeVars == <<trade, attempts, tradeSends, market>>

TradeRouters == {"Local", "Okx"}

\* A command names one of the two routers.
ASSUME TradeAssumption ==
  /\ \A c \in TradeCommands : c.router \in TradeRouters
  /\ OkxConfigured \in BOOLEAN

-----------------------------------------------------------------------------
(* The intent and its identity.                                            *)

\* A requested cap may only tighten the wallet's; zero is refused.
CapDenied(trusted, requested) ==
  requested # NoCap /\ (requested = 0 \/ requested > trusted)
EffectiveCap(trusted, requested) == IF requested = NoCap THEN trusted ELSE requested

\* prefixed_hex: an injective hash of length-prefixed parts under a domain.
DerivedIdentity(domain, parts) == <<domain, parts>>

\* preview_parts: what tells one market order from another.  Neither the
\* channel nor the time is part of it; OKX appends its discriminant.
PreviewParts(c) ==
  <<c.in, c.out, c.side, c.value, EffectiveCap(SlippageCap, c.slippage),
    EffectiveCap(ImpactCap, c.impact)>>
  \o (IF c.router = "Okx" THEN <<"okx">> ELSE <<>>)

PreviewDenied(c) ==
  \/ c.in.chain # HomeChain \/ c.out.chain # HomeChain
  \/ c.in = c.out
  \/ c.unit = "UsdMicros" \/ c.value = 0
  \/ CapDenied(SlippageCap, c.slippage) \/ CapDenied(ImpactCap, c.impact)

\* preview_intent's binding: the identity under which an attempt is kept.
Binding(c) == DerivedIdentity("preview", PreviewParts(c))

-----------------------------------------------------------------------------
(* Quoting.  `facts` is what the sources answer this call.                 *)

\* classify: which routing errors mean there is no route.
Classify(error) ==
  IF error \in {"NoViableRoute", "ImpactExceedsCap", "ImpactUnavailable",
                "HopSimulationFailed", "SelectedRejected", "ZeroNetOutput",
                "ZeroHopOutput", "StaleState", "StalePoolState",
                "ResyncRequired", "EmptyPoolSet"}
  THEN "NoViableRoute" ELSE "Unavailable"

PlanMarketPreview(facts) ==
  IF ~facts.snapshot THEN "Unavailable"
  ELSE IF facts.routing # "none" THEN Classify(facts.routing) ELSE "Ok"

\* quote_market_preview for the local router: no await.
LocalQuote(facts) ==
  LET p == PlanMarketPreview(facts)
  IN  IF p = "NoViableRoute" THEN "Denied" ELSE p

\* and for OKX: the snapshot and the sell tax come before the provider.
OkxQuote(c, facts) ==
  IF ~facts.snapshot THEN "Unavailable"
  ELSE IF c.side = "Sell" /\ ~facts.sellable THEN "Denied"
  ELSE IF facts.provider = "Unavailable" THEN "Unavailable"
  ELSE IF facts.provider = "Rejected" \/ ~facts.composes THEN "Denied"
  ELSE "Ok"

Quote(c, facts) ==
  IF PreviewDenied(c) THEN "Denied"
  ELSE IF c.router = "Local" THEN LocalQuote(facts) ELSE OkxQuote(c, facts)

-----------------------------------------------------------------------------
(* Calls.                                                                  *)

Resting == [step |-> "idle"]
Replied(reply) == [step |-> "done", reply |-> reply]
Stepped(step, command) == [step |-> step, command |-> command]

SetCall(k, value) == trade' = [trade EXCEPT ![k] = value]

Free(k) == trade[k].step = "idle"

\* The reply is handed to the caller.
HandBack(k) ==
  /\ trade[k].step = "done"
  /\ SetCall(k, Resting)
  /\ UNCHANGED <<attempts, tradeSends, market>>

\* preview_market_order and get_quote: answer a quote and touch no port.
\* get_quote is always a Buy under the wallet's own caps.
QuoteRead(k, c, facts) ==
  LET asked == [c EXCEPT !.side = "Buy", !.slippage = NoCap, !.impact = NoCap]
  IN  /\ Free(k)
      /\ SetCall(k, Replied(Quote(asked, facts)))
      /\ UNCHANGED <<attempts, tradeSends, market>>

PreviewMarketOrder(k, c, facts) ==
  /\ Free(k)
  /\ SetCall(k, Replied(Quote(c, facts)))
  /\ UNCHANGED <<attempts, tradeSends, market>>

\* execute_market_order quotes, then hands the exact quote to the port.  Only
\* an OKX port awaits between the quote and the send.
ExecuteMarketOrder(k, c, facts) ==
  /\ Free(k)
  /\ SetCall(k, IF Quote(c, facts) # "Ok" THEN Replied(Quote(c, facts))
                ELSE IF c.router = "Okx" /\ ~OkxConfigured THEN Replied("Denied")
                ELSE Stepped(IF c.router = "Okx" THEN "proposing" ELSE "sending", c))
  /\ UNCHANGED <<attempts, tradeSends, market>>

\* VerifiedProviderExecutionPort::execute: the provider's swap comes back and
\* is verified against the intent, the plan and the floor.
OkxProposed(k, proposal) ==
  /\ trade[k].step = "proposing"
  /\ SetCall(k, CASE proposal = "Unavailable" -> Replied("Unavailable")
                  [] proposal \in {"Rejected", "Unverified"} ->
                       Replied("Denied")
                  [] proposal = "Verified" -> Stepped("revalidating", trade[k].command))
  /\ UNCHANGED <<attempts, tradeSends, market>>

\* The last-moment gate, after the provider's answer and before the sink.
OkxRevalidate(k) ==
  /\ trade[k].step = "revalidating"
  /\ SetCall(k, IF market = "good" THEN Stepped("sending", trade[k].command)
                ELSE Replied("Denied"))
  /\ UNCHANGED <<attempts, tradeSends, market>>

WithEntry(table, id, entry) ==
  [i \in DOMAIN table \cup {id} |-> IF i = id THEN entry ELSE table[i]]

\* The relay behind a port: one attempt per binding, a repeated one is
\* answered with the attempt that exists.
Send(k) ==
  LET c == trade[k].command
      id == Binding(c)
      r == c.router
  IN  /\ trade[k].step = "sending"
      /\ IF id \in DOMAIN attempts[r]
         THEN /\ SetCall(k, Replied(attempts[r][id].status))
              /\ UNCHANGED <<attempts, tradeSends>>
         ELSE /\ attempts' = [attempts EXCEPT ![r] =
                                WithEntry(@, id, [status |-> "Submitted", by |-> c])]
              /\ tradeSends' = [tradeSends EXCEPT ![r] = WithEntry(@, id, 1)]
              /\ SetCall(k, Replied("Submitted"))
      /\ UNCHANGED market

\* Rank of an outcome in the source-agnostic reconcile.
Rank == [Unknown |-> 0, Submitted |-> 1, Failed |-> 2, Filled |-> 3]

PortReconcile(r, id) ==
  IF r = "Okx" /\ ~OkxConfigured THEN "Unknown"
  ELSE IF id \in DOMAIN attempts[r] THEN attempts[r][id].status ELSE "Unknown"

\* SourceBoundMarketExecutionPort::reconcile asks both and keeps the most
\* decided answer.
ReconcileAny(id) ==
  LET local == PortReconcile("Local", id)
      okx == PortReconcile("Okx", id)
  IN  IF OkxConfigured /\ Rank[local] < Rank[okx] THEN okx ELSE local

\* reconcile_market_order: the identity is rebuilt from the parameters.
ReconcileMarketOrder(k, c) ==
  /\ Free(k)
  /\ SetCall(k, IF PreviewDenied(c) THEN Replied("Denied")
                ELSE [step |-> "done", command |-> c, asked |-> TRUE,
                      reply |-> PortReconcile(c.router, Binding(c)),
                      merged |-> ReconcileAny(Binding(c))])
  /\ UNCHANGED <<attempts, tradeSends, market>>

\* The chain decides an attempt; the market moves.
AttemptDecided(r, id, outcome) ==
  /\ id \in DOMAIN attempts[r] /\ attempts[r][id].status = "Submitted"
  /\ attempts' = [attempts EXCEPT ![r][id].status = outcome]
  /\ UNCHANGED <<trade, tradeSends, market>>

MarketMoves ==
  /\ market' = IF market = "good" THEN "bad" ELSE "good"
  /\ UNCHANGED <<trade, attempts, tradeSends>>

-----------------------------------------------------------------------------
(* Behaviour.                                                              *)

TradeInit ==
  /\ trade = [k \in TradeCalls |-> Resting]
  /\ attempts = [r \in TradeRouters |-> <<>>]
  /\ tradeSends = [r \in TradeRouters |-> <<>>]
  /\ market = "good"

\* AgentBackend::execute and execute_trade dispatch a command.
TradeNext(facts) ==
  \/ \E k \in TradeCalls, c \in TradeCommands, f \in facts :
       QuoteRead(k, c, f) \/ PreviewMarketOrder(k, c, f) \/ ExecuteMarketOrder(k, c, f)
  \/ \E k \in TradeCalls, p \in {"Unavailable", "Rejected", "Unverified", "Verified"} :
       OkxProposed(k, p)
  \/ \E k \in TradeCalls : OkxRevalidate(k) \/ Send(k) \/ HandBack(k)
  \/ \E k \in TradeCalls, c \in TradeCommands : ReconcileMarketOrder(k, c)
  \/ \E r \in TradeRouters : \E id \in DOMAIN attempts[r], o \in {"Filled", "Failed"} :
       AttemptDecided(r, id, o)
  \/ MarketMoves

TradeSpec(facts) == TradeInit /\ [][TradeNext(facts)]_tradeVars

-----------------------------------------------------------------------------
(* Properties.                                                             *)

\* What a command asks for, apart from who asks and in which unit.
TradeTerms(c) ==
  [in |-> c.in, out |-> c.out, side |-> c.side, value |-> c.value, router |-> c.router,
   slippage |-> EffectiveCap(SlippageCap, c.slippage),
   impact |-> EffectiveCap(ImpactCap, c.impact)]

\* Identity parity (preview_parts, reconcile_market_order_outcome): a reconcile
\* that learns anything learns it of an attempt that was sent with exactly the
\* terms it names, under its own router, whichever channel asked; and an
\* OKX answer never comes from a Local attempt even when both are asked.
ReconcileFindsItsOwn ==
  \A k \in TradeCalls :
    trade[k].step = "done" /\ "asked" \in DOMAIN trade[k] =>
      LET c == trade[k].command IN
      /\ trade[k].reply # "Unknown" =>
           \E id \in DOMAIN attempts[c.router] :
             TradeTerms(attempts[c.router][id].by) = TradeTerms(c)
      /\ trade[k].merged # "Unknown" =>
           \E r \in TradeRouters : \E id \in DOMAIN attempts[r] :
             /\ id = Binding(c)
             /\ TradeTerms(attempts[r][id].by) = TradeTerms(c)

\* However often an order is repeated, over whichever channels, it is sent once.
SentOnce ==
  /\ \A r \in TradeRouters : \A id \in DOMAIN tradeSends[r] : tradeSends[r][id] = 1
  /\ \A r \in TradeRouters : \A i, j \in DOMAIN attempts[r] :
       TradeTerms(attempts[r][i].by) = TradeTerms(attempts[r][j].by) => i = j

TradeIdentityHolds == ReconcileFindsItsOwn /\ SentOnce

\* A market order is executed as it was reviewed, from the session that
\* reviewed it and before its quote expired; it is tracked until the chain has
\* decided it; and it has one identity in every channel, under which it is sent
\* once (dispatcher, market registry and trade backend).
TradesAreKept == ExecutedAsReviewed /\ TrackedUntilDecided /\ TradeIdentityHolds
=============================================================================
