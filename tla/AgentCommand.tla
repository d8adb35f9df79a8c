----------------------------- MODULE AgentCommand -----------------------------
(***************************************************************************)
(* The command vocabulary that the web, MCP and Telegram channels share:   *)
(* which tools exist, what a wire document must hold to become a command,  *)
(* and what the wallet's capabilities let through.                         *)
(*                                                                         *)
(* A wire document is [tool, kind, fields, bad]: kind is the optional      *)
(* "command" discriminator, fields maps each key that is present to what   *)
(* its value decodes to, and bad holds the keys whose value does not.      *)
(***************************************************************************)
EXTENDS Integers, Sequences, FiniteSets

ReadTools == {"search_token", "get_token", "get_chart", "get_intelligence", "get_quote",
              "get_orders", "get_portfolio"}

TradeTools == {"preview_market_order", "execute_market_order", "place_limit_order",
               "cancel_order"}

\* What moves capital or keys is refused by name before anything is read.
ForbiddenTools == {"withdraw", "withdraw_all", "transfer", "transfer_token", "send", "set_owner",
                   "set_wallet_owner", "change_owner", "raise_limit", "raise_security_limit",
                   "set_limit", "sign", "sign_raw", "sign_transaction", "sign_message",
                   "export_key", "export_private_key", "get_private_key"}

\* The fields each reader decodes, in the order it decodes them.
ReadFields(tool) ==
    CASE tool = "search_token" -> <<"query">>
      [] tool \in {"get_token", "get_intelligence"} -> <<"token">>
      [] tool = "get_chart" -> <<"token", "window">>
      [] tool = "get_quote" -> <<"token_in", "token_out", "amount", "router_preference">>
      [] tool = "get_orders" -> <<"status">>
      [] tool = "get_portfolio" -> << >>

TradeFields(tool) ==
    CASE tool \in {"preview_market_order", "execute_market_order"} ->
            <<"token_in", "token_out", "side", "amount", "max_slippage_bps",
              "max_price_impact_bps", "router_preference">>
      [] tool = "place_limit_order" ->
            <<"token_in", "token_out", "side", "amount", "limit_price", "allow_partial_fill",
              "expires_at_ms">>
      [] tool = "cancel_order" -> <<"order_id">>

OptionalFields == {"status", "max_slippage_bps", "max_price_impact_bps", "router_preference"}

\* What a field that is missing or does not decode is reported as.
FieldError(field) ==
    CASE field \in {"token", "token_in", "token_out"} -> "InvalidAsset"
      [] field = "window" -> "InvalidWindow"
      [] field = "limit_price" -> "InvalidLimitPrice"
      [] OTHER -> "Malformed"

\* An amount must name its unit and a positive value; units are read before values.
AmountError(amount) ==
    CASE "unit" \notin DOMAIN amount -> "MissingUnit"
      [] "value" \notin DOMAIN amount -> "AmbiguousAmount"
      [] amount.unit \notin {"token_atomic", "stablecoin_atomic", "usd_micros"} -> "InvalidAmount"
      [] amount.value = 0 -> "InvalidAmount"
      [] OTHER -> "none"

\* A price is two positive atomic amounts.
LimitPriceError(price) ==
    IF price.numerator_atomic = 0 \/ price.denominator_atomic = 0
    THEN "InvalidLimitPrice" ELSE "none"

ErrorOf(wire, f) ==
    CASE f \notin DOMAIN wire.fields -> IF f \in OptionalFields THEN "none" ELSE FieldError(f)
      [] f \in wire.bad -> FieldError(f)
      [] f = "amount" -> AmountError(wire.fields[f])
      [] f = "limit_price" -> LimitPriceError(wire.fields[f])
      [] OTHER -> "none"

FieldsOf(tool) == IF tool \in ReadTools THEN ReadFields(tool) ELSE TradeFields(tool)

\* build_read and build_trade: unknown keys first, then the first field that fails.
BuildError(wire) ==
    LET known == FieldsOf(wire.tool)
        failing == {i \in 1..Len(known) : ErrorOf(wire, known[i]) # "none"} IN
    CASE ~(DOMAIN wire.fields \subseteq {known[i] : i \in 1..Len(known)}) -> "Malformed"
      [] failing = {} -> "none"
      [] OTHER -> ErrorOf(wire, known[CHOOSE i \in failing : \A j \in failing : i =< j])

\* AgentCommand::parse: forbidden names, the discriminator, the two closed lists, the fields.
ParseError(wire) ==
    CASE wire.tool = "bad" -> "Malformed"
      [] wire.tool \in ForbiddenTools -> "ForbiddenOperation"
      [] wire.kind \notin {"absent", "read", "trade"} -> "Malformed"
      [] wire.tool \in ReadTools /\ wire.kind = "trade" -> "Malformed"
      [] wire.tool \in TradeTools /\ wire.kind = "read" -> "Malformed"
      [] wire.tool \in ReadTools \cup TradeTools -> BuildError(wire)
      [] OTHER -> "ForbiddenOperation"

\* command_wire_json: the payload may not name the tool itself.
CommandWireError(wire) ==
    IF "tool" \in DOMAIN wire.fields THEN "Malformed" ELSE ParseError(wire)

IsMutating(tool) == tool \in TradeTools \ {"preview_market_order"}

\* A preview has no notional to authorise; a cancellation is worth nothing.
ValuationUsdMicros(wire, usdPerUnit) ==
    CASE wire.tool = "cancel_order" -> 0
      [] wire.tool \in {"place_limit_order", "execute_market_order"} ->
            IF wire.fields["amount"].unit = "usd_micros" THEN -1
            ELSE wire.fields["amount"].value * usdPerUnit
      [] OTHER -> -1

Chains(wire) ==
    {wire.fields[f].chain : f \in {"token_in", "token_out"} \cap DOMAIN wire.fields}

\* authorize: the kill switch, the chains, and a notional that is known and within the cap.
Authorize(wire, caps, valuation) ==
    CASE wire.tool \in ReadTools -> "authorized"
      [] IsMutating(wire.tool) /\ ~caps.trading_enabled -> "TradingDisabled"
      [] ~(Chains(wire) \subseteq caps.allowed_chains) -> "ChainNotAllowed"
      [] IsMutating(wire.tool) /\ valuation < 0 -> "NotionalExceedsLimit"
      [] IsMutating(wire.tool) /\ valuation > caps.max_trade_usd -> "NotionalExceedsLimit"
      [] OTHER -> "authorized"

\* How the dispatcher reports a document that is no command, and one that is not allowed.
ParseDenial(error) ==
    IF error \in {"ForbiddenOperation", "UnknownTool"} THEN "CapabilityMissing" ELSE "Protocol"

\* How it reports what the backend did; a failed write may have happened.
BackendReply(outcome, mutating) ==
    CASE outcome = "Value" -> "answered"
      [] outcome = "Denied" -> "determinate"
      [] outcome = "Unavailable" -> "indeterminate"
      [] outcome = "Failed" -> IF mutating THEN "indeterminate" ELSE "determinate"

\* The opaque dispatcher's whole answer to a document, with an idempotency key or without one:
\* what it refuses itself is final.  A value the port does not know is negative.
Dispatch(wire, keyed, caps, usdPerUnit, outcome) ==
    LET wireError == CommandWireError(wire)
        error == IF wireError = "none" /\ IsMutating(wire.tool) /\ ~keyed THEN "Malformed"
                 ELSE wireError
        verdict == Authorize(wire, caps, ValuationUsdMicros(wire, usdPerUnit))
    IN  IF error # "none" THEN [reached |-> FALSE, code |-> ParseDenial(error), reply |-> "determinate"]
        ELSE IF verdict # "authorized" THEN [reached |-> FALSE, code |-> verdict, reply |-> "determinate"]
        ELSE [reached |-> TRUE, code |-> "none", reply |-> BackendReply(outcome, IsMutating(wire.tool))]
=============================================================================
