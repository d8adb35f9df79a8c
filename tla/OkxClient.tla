------------------------------- MODULE OkxClient -------------------------------
(***************************************************************************)
(* The OKX DEX client (crates/okx-client): which requests it builds and    *)
(* signs, and what it makes of an answer.  A text field of an answer is    *)
(* [text, v]: text is "absent", "empty", "bad" (does not decode) or "ok",  *)
(* and v is then what it says.                                             *)
(***************************************************************************)
EXTENDS Integers, Sequences, FiniteSets

CONSTANTS MaxFraction,  \* the digits percent_to_bps_ceil takes behind the point
          OkxCases      \* what the client may be asked to sign, and answered

VARIABLE okx            \* the request or answer at the client, if any

Text(v) == [text |-> "ok", v |-> v]
Stated(t) == t.text \notin {"absent", "empty"}

(***************************************************************************)
(* Requests.                                                               *)
(***************************************************************************)
\* okx_chain_index: the four named chains, and another one by its canonical number, which may be
\* that of a named one.
OkxChainIndex(chain) ==
    CASE chain = "Solana" -> 501
      [] chain = "Ethereum" -> 1
      [] chain = "Base" -> 8453
      [] chain = "BnbChain" -> 56
      [] chain = "Other10" -> 10
      [] chain = "Other1" -> 1
      [] OTHER -> 0

\* OkxQuoteRequest::new
OkxQuoteRequestError(q) ==
    CASE q.in[1] # q.chain \/ q.out[1] # q.chain -> "InvalidRequest"
      [] q.in = q.out -> "InvalidRequest"
      [] q.amount = 0 -> "InvalidRequest"
      [] OkxChainIndex(q.chain) = 0 -> "UnsupportedChain"
      [] OTHER -> "none"

\* OkxSwapRequest::new also asks for a wallet that is an address.
OkxSwapRequestError(q) ==
    IF OkxQuoteRequestError(q) # "none" THEN OkxQuoteRequestError(q)
    ELSE IF q.wallet = "bad" THEN "InvalidRequest" ELSE "none"

\* format_bps_as_percent, as [int, digits]: no trailing zero, no empty fraction.
FormatBpsAsPercent(bps) ==
    LET whole == bps \div 100
        fraction == bps % 100
    IN  [neg |-> FALSE, int |-> whole,
         digits |-> IF fraction = 0 THEN << >>
                    ELSE IF fraction % 10 = 0 THEN <<fraction \div 10>>
                    ELSE <<fraction \div 10, fraction % 10>>]

\* to_http: the query both requests send, the slippage as a percentage when there is one.
OkxQuery(q) ==
    [chainIndex |-> OkxChainIndex(q.chain), fromTokenAddress |-> q.in[2],
     toTokenAddress |-> q.out[2], amount |-> q.amount,
     slippage |-> IF q.slippage < 0 THEN << >> ELSE <<FormatBpsAsPercent(q.slippage)>>]

\* civil_from_days: the proleptic Gregorian date of a day count since 1970-01-01.  An era is 400
\* years, and a year begins in March.
YearOfEra(doe) == (doe - doe \div 1460 + doe \div 36524 - doe \div 146096) \div 365
YearStart(yoe) == 365 * yoe + yoe \div 4 - yoe \div 100
MonthStart(mp) == (153 * mp + 2) \div 5

DateOf(era, yoe, doy) ==
    LET mp == (5 * doy + 2) \div 153
        month == IF mp < 10 THEN mp + 3 ELSE mp - 9
    IN  [year |-> yoe + era * 400 + (IF month <= 2 THEN 1 ELSE 0), month |-> month,
         day |-> doy - MonthStart(mp) + 1]

CivilFromDays(days) ==
    LET z == days + 719468
        era == z \div 146097
        doe == z - era * 146097
        yoe == YearOfEra(doe)
    IN  DateOf(era, yoe, doe - YearStart(yoe))

\* format_rfc3339_millis, to the second (an Int of TLC has no room for more).
FormatRfc3339(seconds) ==
    [date |-> CivilFromDays(seconds \div 86400), hour |-> (seconds % 86400) \div 3600,
     minute |-> (seconds % 3600) \div 60, second |-> seconds % 60]

\* A GET has no body.
NoBody == ""

\* sign_request: the tag covers the time, the method, the path with its query, and the body.
SignRequest(q, path, seconds) ==
    [timestamp |-> FormatRfc3339(seconds),
     tag |-> <<FormatRfc3339(seconds), "GET", path, OkxQuery(q), NoBody>>]

(***************************************************************************)
(* Answers.                                                                *)
(***************************************************************************)
OkxErr(code) == [ok |-> FALSE, code |-> code]

\* resolve_address: top level or nested, and the same when both are given.
ResolveAddress(top, nested) ==
    CASE Stated(top) /\ Stated(nested) ->
            IF top.v = nested.v THEN [ok |-> TRUE, v |-> top.v] ELSE OkxErr("MalformedResponse")
      [] Stated(top) /\ ~Stated(nested) -> [ok |-> TRUE, v |-> top.v]
      [] Stated(nested) /\ ~Stated(top) -> [ok |-> TRUE, v |-> nested.v]
      [] OTHER -> OkxErr("MalformedResponse")

\* parse_atomic_decimal: canonical digits only.
ParseAtomicDecimal(t, nonzero) ==
    CASE t.text # "ok" -> OkxErr("MalformedResponse")
      [] nonzero /\ t.v = 0 -> OkxErr("QuoteMismatch")
      [] OTHER -> [ok |-> TRUE, v |-> t.v]

\* Mutant: the first one named is taken.
ResolveOptionalFirst(candidates) ==
    LET given == {i \in DOMAIN candidates : Stated(candidates[i])} IN
    CASE given = {} -> [ok |-> TRUE, v |-> "none"]
      [] OTHER -> [ok |-> TRUE, v |-> candidates[CHOOSE i \in given : \A j \in given : i <= j].v]

\* resolve_optional_address, resolve_optional_decimal: all that are given decode and agree.
ResolveOptional(candidates) ==
    LET given == {i \in DOMAIN candidates : Stated(candidates[i])} IN
    CASE given = {} -> [ok |-> TRUE, v |-> "none"]
      [] \E i \in given : candidates[i].text = "bad" -> OkxErr("MalformedResponse")
      [] \E i, j \in given : candidates[i].v # candidates[j].v -> OkxErr("MalformedResponse")
      [] OTHER -> [ok |-> TRUE, v |-> candidates[CHOOSE i \in given : TRUE].v]

\* The number written as d followed by the digits ds.
Numeral(d, ds) ==
    LET v[n \in 0..Len(ds)] == IF n = 0 THEN d ELSE v[n - 1] * 10 + ds[n] IN v[Len(ds)]

Digits(ds) == Numeral(0, ds)
Pow10(n) == Numeral(1, [k \in 1..n |-> 0])

\* percent_to_bps_ceil: the sign is dropped, a fraction of a basis point rounds up.
PercentToBpsCeil(p) ==
    LET scale == Pow10(Len(p.digits))
        bps == p.int * 100 + (Digits(p.digits) * 100 + scale - 1) \div scale
    IN  IF Len(p.digits) > MaxFraction \/ bps > 10000 THEN OkxErr("MalformedResponse")
        ELSE [ok |-> TRUE, v |-> bps]

\* parse_price_impact_bps: absent is no impact stated.
ParsePriceImpact(t) ==
    CASE t.text = "absent" -> [ok |-> TRUE, v |-> -1]
      [] t.text = "ok" -> PercentToBpsCeil(t.v)
      [] OTHER -> OkxErr("MalformedResponse")

\* What quotes and swaps ask alike: one entry, our chain, our tokens, our amount.
AnswerError(q, e) ==
    LET d == e.data[1]
        from == ResolveAddress(d.from, d.fromNested)
        to == ResolveAddress(d.to, d.toNested)
        paid == ParseAtomicDecimal(d.fromAmount, FALSE)
    IN  CASE e.code # "0" -> "ProviderError"
          [] Len(e.data) # 1 -> "MalformedResponse"
          [] d.chainIndex.text # "ok" -> "MalformedResponse"
          [] d.chainIndex.v # OkxChainIndex(q.chain) -> "QuoteMismatch"
          [] ~from.ok \/ ~to.ok -> "MalformedResponse"
          [] from.v # q.in[2] \/ to.v # q.out[2] -> "QuoteMismatch"
          [] ~paid.ok -> "MalformedResponse"
          [] paid.v # q.amount -> "QuoteMismatch"
          [] OTHER -> "none"

\* normalize_quote (an unusable quote id is replaced, never an error).
NormalizeQuote(q, e, now) ==
    LET d == e.data[1]
        got == ParseAtomicDecimal(d.toAmount, TRUE)
        impact == ParsePriceImpact(d.impact)
    IN  CASE AnswerError(q, e) # "none" -> OkxErr(AnswerError(q, e))
          [] ~got.ok -> got
          [] ~impact.ok -> impact
          [] OTHER -> [ok |-> TRUE, chain |-> q.chain, in |-> q.in, out |-> q.out,
                       amountIn |-> q.amount, amountOut |-> got.v, impact |-> impact.v, at |-> now]

\* normalize_swap: without a receiver of its own the swap pays its sender.
NormalizeSwap(q, e, now) ==
    LET d == e.data[1]
        got == ParseAtomicDecimal(d.toAmount, TRUE)
        value == ParseAtomicDecimal(d.tx.value, FALSE)
        floor == ResolveOptional(d.floors)
        spender == ResolveOptional(d.spenders)
        receiver == ResolveOptional(d.receivers)
    IN  CASE AnswerError(q, e) # "none" -> OkxErr(AnswerError(q, e))
          [] ~got.ok -> got
          [] d.tx.text # "ok" \/ d.tx.from.text # "ok" \/ d.tx.to.text # "ok" -> OkxErr("MalformedResponse")
          [] ~value.ok -> value
          [] d.tx.calldata.text # "ok" -> OkxErr("MalformedResponse")
          [] ~floor.ok \/ ~spender.ok \/ ~receiver.ok -> OkxErr("MalformedResponse")
          [] OTHER -> [ok |-> TRUE, chain |-> q.chain, in |-> q.in, out |-> q.out,
                       wallet |-> d.tx.from.v, router |-> d.tx.to.v, amountIn |-> q.amount,
                       amountOut |-> got.v, value |-> value.v, floor |-> floor.v,
                       spender |-> spender.v, calldata |-> d.tx.calldata.v, at |-> now,
                       receiver |-> IF receiver.v = "none" THEN d.tx.from.v ELSE receiver.v]

\* OkxClient::quote and swap around the normalizers.
ClientAnswer(reply, normalized) ==
    CASE reply.sent = "unavailable" -> OkxErr("TransportUnavailable")
      [] reply.sent # "ok" -> OkxErr("TransportFailure")
      [] reply.status # 200 -> OkxErr("ProviderError")
      [] reply.oversized -> OkxErr("OversizedResponse")
      [] ~reply.json -> OkxErr("MalformedResponse")
      [] OTHER -> normalized

(***************************************************************************)
(* Contracts, for one request and answer at a time.                        *)
(***************************************************************************)
\* An accepted quote (normalize_quote) is of what was asked, pays something, and never states less
\* impact than the provider did.
QuoteIsOurs(q, e, reply) ==
    LET n == ClientAnswer(reply, NormalizeQuote(q, e, 0))
        d == e.data[1] IN
    OkxQuoteRequestError(q) = "none" /\ n.ok =>
            /\ reply.status = 200 /\ e.code = "0"
            /\ d.chainIndex.v = OkxChainIndex(q.chain) /\ d.chainIndex.v # 0
            /\ \A t \in {d.from, d.fromNested} : Stated(t) => t.v = q.in[2]
            /\ \A t \in {d.to, d.toNested} : Stated(t) => t.v = q.out[2]
            /\ n.amountOut > 0
            /\ d.impact.text = "ok" =>
                  n.impact * Pow10(Len(d.impact.v.digits))
                    >= (d.impact.v.int * Pow10(Len(d.impact.v.digits)) + Digits(d.impact.v.digits)) * 100

\* An accepted swap (normalize_swap) hands the verifier every receiver, spender and minimum that
\* its answer names anywhere: none is hidden behind another.
SwapIsWhole(q, e, reply) ==
    LET n == ClientAnswer(reply, NormalizeSwap(q, e, 0))
        d == e.data[1]
        Named(candidates, v) == \A i \in DOMAIN candidates : Stated(candidates[i]) => candidates[i].v = v
    IN  OkxSwapRequestError(q) = "none" /\ n.ok =>
                /\ Named(d.receivers, n.receiver) /\ Named(d.spenders, n.spender)
                /\ Named(d.floors, n.floor)
                /\ (\A i \in DOMAIN d.receivers : ~Stated(d.receivers[i])) => n.receiver = n.wallet

\* The slippage sent is the slippage asked for (format_bps_as_percent read back).
SlippageIsSent(bps) == PercentToBpsCeil(FormatBpsAsPercent(bps)) = [ok |-> TRUE, v |-> bps]

LeapYear(y) == y % 4 = 0 /\ (y % 100 # 0 \/ y % 400 = 0)
MonthDays(y, m) == IF m = 2 THEN (IF LeapYear(y) THEN 29 ELSE 28)
                   ELSE IF m \in {4, 6, 9, 11} THEN 30 ELSE 31
DayAfter(d) ==
    IF d.day < MonthDays(d.year, d.month) THEN [d EXCEPT !.day = @ + 1]
    ELSE IF d.month < 12 THEN [year |-> d.year, month |-> d.month + 1, day |-> 1]
    ELSE [year |-> d.year + 1, month |-> 1, day |-> 1]

\* The signed timestamp's date is the calendar's (civil_from_days against the rules of the months).
DateIsCalendar(days) ==
    /\ CivilFromDays(0) = [year |-> 1970, month |-> 1, day |-> 1]
    /\ CivilFromDays(days + 1) = DayAfter(CivilFromDays(days))

\* One signature (sign_request) stands for one request, as the provider knows it, at one second.
SignatureNamesRequest(q1, q2, path, s1, s2) ==
    SignRequest(q1, path, s1).tag = SignRequest(q2, path, s2).tag
        => /\ OkxChainIndex(q1.chain) = OkxChainIndex(q2.chain)
           /\ q1.in[2] = q2.in[2] /\ q1.out[2] = q2.out[2]
           /\ q1.amount = q2.amount /\ q1.slippage = q2.slippage /\ s1 = s2

(***************************************************************************)
(* A request or an answer arrives at the client.                           *)
(***************************************************************************)
IsPercent(p) == p.int \in Nat /\ p.digits \in Seq(0..9)

\* A slippage is a Bps, or absent.
IsSlippage(bps) == bps \in Int /\ -1 <= bps /\ bps <= 10000

\* Amounts and percentages that decode are numbers, and "none" is nobody's address.
OkxCase(c) ==
    LET d == c.answer.data[1] IN
    /\ c.kind = "quote" => /\ d.toAmount.text = "ok" => d.toAmount.v \in Nat
                           /\ d.impact.text = "ok" => IsPercent(d.impact.v)
    /\ c.kind = "swap" =>
          \A i \in DOMAIN d.receivers : Stated(d.receivers[i]) => d.receivers[i].v # "none"
    /\ c.kind = "sign" =>
          /\ c.days \in Nat /\ c.at \in Nat /\ c.times \subseteq Nat
          /\ c.bps \in Nat /\ c.bps <= 10000
          /\ IsSlippage(c.request.slippage)
          /\ \A q \in c.others : IsSlippage(q.slippage)

ASSUME OkxAssumption == /\ MaxFraction \in Nat /\ MaxFraction >= 2
                        /\ \A c \in OkxCases : OkxCase(c)

OkxInit == okx = {}
OkxNext == okx = {} /\ \E c \in OkxCases : okx' = {c}
OkxSpec == OkxInit /\ [][OkxNext]_okx

\* What the OKX client accepts is about the request it signed: a quote is ours and understates
\* nothing, a swap hides no receiver, spender or minimum from the verifier, and the slippage and
\* the date it signs are the ones meant.
OkxAnswersAreOurs ==
    \A c \in okx :
        /\ c.kind = "quote" => \A reply \in c.replies : QuoteIsOurs(c.request, c.answer, reply)
        /\ c.kind = "swap" => \A reply \in c.replies : SwapIsWhole(c.request, c.answer, reply)
        /\ c.kind = "sign" => /\ DateIsCalendar(c.days) /\ SlippageIsSent(c.bps)
                              /\ \A q \in c.others, s \in c.times :
                                    SignatureNamesRequest(c.request, q, "quote", c.at, s)
=============================================================================
