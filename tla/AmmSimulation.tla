---------------------------- MODULE AmmSimulation -----------------------------
(***************************************************************************)
(* The local pricing kernels: constant-product, concentrated-liquidity and *)
(* bin pools, exact input and exact output, and their depth.               *)
(*                                                                         *)
(* Amounts are integers up to AmountMax; a product is exact where the code *)
(* forms it in 256 or 512 bits.  Fees are parts of BpsOne.  A square-root  *)
(* price is a fixed-point number with one at PriceOne (2^64).  dir is 0    *)
(* when token 0 goes in.                                                   *)
(***************************************************************************)
EXTENDS Kernel

CONSTANTS PriceOne,
          TickFactors,      \* the factor of each set bit of a tick, at PriceOne
          TickFactorsDown,  \* and of each set bit of a negative tick
          MaxTick,          \* MAX_TICK
          MaxCrosses        \* MAX_CLMM_TICK_CROSSES and MAX_BIN_CROSSES

ASSUME SimAssumption == /\ {PriceOne, MaxTick} \subseteq Nat \ {0}
                        /\ MaxCrosses \in Nat
                        /\ 2 ^ Len(TickFactors) > MaxTick
                        /\ Len(TickFactorsDown) = Len(TickFactors)

Other(dir) == 1 - dir

(***************************************************************************)
(* Constant product: [r, fee] with r[0], r[1] the reserves.                *)
(***************************************************************************)
CpmmExactInput(p, dir, in) ==
    LET rin == p.r[dir]
        rout == p.r[Other(dir)]
        fee == (in * p.fee) \div BpsOne
        eff == in - fee
        out == (eff * rout) \div (rin + eff)
    IN  FirstFailure(<<
            Check(in = 0, Failed("ZeroInputAmount")),
            Check(rin = 0 \/ rout = 0, Failed("ZeroReserve")),
            Check(p.fee >= BpsOne, Failed("InvalidFeeBps")),
            Check(in * p.fee > AmountMax, Failed("ArithmeticOverflow")),
            Check(eff = 0, Failed("ZeroEffectiveInput")),
            Check(rin + eff > AmountMax, Failed("ArithmeticOverflow")),
            Check(out = 0, Failed("ZeroOutputAmount")),
            Check(out >= rout, Failed("ImpossibleOutput")),
            Check(rin + in > AmountMax, Failed("ArithmeticOverflow")),
            Check((rin + in) * (rout - out) < rin * rout, Failed("InvariantViolated"))>>,
            Done(out))

CpmmAfter(p, dir, in) ==
    [p EXCEPT !.r[dir] = @ + in, !.r[Other(dir)] = @ - CpmmExactInput(p, dir, in).out]

\* The least effective input that pays the request, grossed up for the fee; then the answer is
\* simulated, and so is one unit less.
GrossUp(p, effective) == CeilDiv(BpsOne * (effective - 1) + 1, BpsOne - p.fee)

CpmmExactOutput(p, dir, want) ==
    LET rin == p.r[dir]
        rout == p.r[Other(dir)]
        effective == CeilDiv(rin * want, rout - want)
        in == GrossUp(p, effective)
        realized == CpmmExactInput(p, dir, in)
        previous == CpmmExactInput(p, dir, in - 1)
    IN  IF want = 0 THEN Failed("ZeroOutputAmount")
        ELSE IF rin = 0 \/ rout = 0 THEN Failed("ZeroReserve")
        ELSE IF p.fee >= BpsOne THEN Failed("InvalidFeeBps")
        ELSE IF want >= rout THEN Failed("ImpossibleOutput")
        ELSE    FirstFailure(<<
                    Check(effective > AmountMax \/ in > AmountMax, Failed("ArithmeticOverflow")),
                    Check(~realized.ok, realized),
                    Check(realized.out < want, Failed("InvariantViolated")),
                    Check(in > 1 /\ previous.ok /\ previous.out >= want,
                          Failed("InvariantViolated")),
                    Check(/\ in > 1 /\ ~previous.ok
                          /\ previous.err \notin {"ZeroOutputAmount", "ZeroEffectiveInput"},
                          previous)>>,
                    Done(in))

(***************************************************************************)
(* Concentrated liquidity: [s, tick, liq, fee, ticks], ticks a sequence of *)
(* [index, net] in increasing order.                                       *)
(***************************************************************************)
Bit(n, b) == (n \div 2 ^ (b - 1)) % 2 = 1

\* One fixed-point multiplication per set bit of the tick.
TickPrice(n, factors) ==
    LET ratio[b \in 0..Len(factors)] ==
            IF b = 0 THEN PriceOne
            ELSE IF Bit(n, b) THEN (ratio[b - 1] * factors[b]) \div PriceOne ELSE ratio[b - 1]
    IN  ratio[Len(factors)]

Ticks == (-MaxTick)..MaxTick

SqrtPrices == [t \in Ticks |-> IF t >= 0 THEN TickPrice(t, TickFactors)
                                         ELSE TickPrice(-t, TickFactorsDown)]

SqrtPriceFromTick(t) == SqrtPrices[t]

\* The logarithm only narrows the tick to two neighbours; the price of the upper one decides.
UpperOrLower(low, s) ==
    LET high == IF low = MaxTick THEN low ELSE low + 1
    IN  IF SqrtPriceFromTick(high) <= s THEN high ELSE low

TickFromSqrtPrice(s) ==
    UpperOrLower(Max({t \in Ticks : t = -MaxTick \/ SqrtPriceFromTick(t) < s}), s)

NetError(liq) == IF liq < 0 \/ liq > AmountMax THEN "ArithmeticOverflow"
                 ELSE IF liq = 0 THEN "InvalidLiquidity" ELSE "none"

\* The state of the crossing loop.
Stop(st, err) == [st EXCEPT !.err = err, !.rem = 0]

Outcome(end) ==
    FirstFailure(<<Check(end.err # "none", Failed(end.err)),
                   Check(end.out = 0, Failed("ZeroOutputAmount"))>>, Done(end.out))

\* The liquidity below a tick crossed downwards; the fault takes the sign of the way up.
CrossedAsUp(liq, tick) == liq + tick.net
CrossedDown(liq, tick) == liq - tick.net

\* The price stands on a tick and is about to fall below it.
LeaveTick(p, st) ==
    LET liq == CrossedDown(st.liq, p.ticks[st.idx]) IN
    IF st.s # SqrtPriceFromTick(p.ticks[st.idx].index) THEN st
    ELSE IF st.idx = 1 \/ st.crosses >= MaxCrosses THEN Stop(st, "TickCrossingExceeded")
    ELSE IF NetError(liq) # "none" THEN Stop(st, NetError(liq))
    ELSE [st EXCEPT !.liq = liq, !.idx = @ - 1, !.crosses = @ + 1]

\* The price falls towards the lower end of its range.
FallTowards(p, st, lower) ==
    LET need == CeilDiv(st.liq * (st.s - lower) * PriceOne, st.s * lower)
        next == CeilDiv(st.liq * st.s * PriceOne, st.liq * PriceOne + st.rem * st.s)
        part == (st.liq * (st.s - next)) \div PriceOne
        whole == (st.liq * (st.s - lower)) \div PriceOne
    IN  IF st.err # "none" THEN st
        ELSE IF st.s <= lower THEN Stop(st, "InvariantViolated")
        ELSE IF st.rem < need
        THEN FirstFailure(<<
                Check(next <= lower \/ next >= st.s, Stop(st, "InvariantViolated")),
                Check(part > AmountMax, Stop(st, "ArithmeticOverflow")),
                Check(part = 0 /\ st.out = 0, Stop(st, "ZeroOutputAmount")),
                Check(st.out + part > AmountMax, Stop(st, "ArithmeticOverflow"))>>,
                [st EXCEPT !.s = next, !.tick = TickFromSqrtPrice(next), !.rem = 0,
                           !.out = @ + part])
        ELSE FirstFailure(<<
                Check(st.rem > need /\ (st.idx = 1 \/ st.crosses >= MaxCrosses),
                      Stop(st, "TickCrossingExceeded")),
                Check(need > AmountMax \/ st.out + whole > AmountMax,
                      Stop(st, "ArithmeticOverflow"))>>,
                [st EXCEPT !.s = lower, !.tick = p.ticks[st.idx].index, !.rem = @ - need,
                           !.out = @ + whole])

Fall(p, st) == FallTowards(p, st, SqrtPriceFromTick(p.ticks[st.idx].index))

\* Token 0 goes in.
StepDown(p, st) == Fall(p, LeaveTick(p, st))

\* The price rises towards the upper end of its range; a crossed tick's liquidity is taken up at
\* once.
RiseTowards(p, st, upper) ==
    LET need == CeilDiv(st.liq * (upper - st.s), PriceOne)
        next == st.s + (st.rem * PriceOne) \div st.liq
        part == (st.liq * (next - st.s) * PriceOne) \div (st.s * next)
        whole == (st.liq * (upper - st.s) * PriceOne) \div (st.s * upper)
        liq == st.liq + p.ticks[st.idx + 1].net
    IN  IF st.s >= upper THEN Stop(st, "InvariantViolated")
        ELSE IF st.rem < need
        THEN FirstFailure(<<
                Check(next > AmountMax, Stop(st, "ArithmeticOverflow")),
                Check(next >= upper \/ next <= st.s, Stop(st, "InvariantViolated")),
                Check(part = 0 /\ st.out = 0, Stop(st, "ZeroOutputAmount")),
                Check(st.out + part > AmountMax, Stop(st, "ArithmeticOverflow")),
                Check(TickFromSqrtPrice(next) >= p.ticks[st.idx + 1].index,
                      Stop(st, "InvariantViolated"))>>,
                [st EXCEPT !.s = next, !.tick = TickFromSqrtPrice(next), !.rem = 0,
                           !.out = @ + part])
        ELSE FirstFailure(<<
                Check(st.idx + 1 >= Len(p.ticks) \/ st.crosses >= MaxCrosses,
                      Stop(st, "TickCrossingExceeded")),
                Check(need > AmountMax \/ st.out + whole > AmountMax, Stop(st, "ArithmeticOverflow")),
                Check(NetError(liq) # "none", Stop(st, NetError(liq)))>>,
                [st EXCEPT !.s = upper, !.tick = p.ticks[st.idx + 1].index, !.liq = liq,
                           !.idx = @ + 1, !.rem = @ - need, !.out = @ + whole, !.crosses = @ + 1])

\* Token 1 goes in.
StepUp(p, st) == RiseTowards(p, st, SqrtPriceFromTick(p.ticks[st.idx + 1].index))

ClmmRun(p, dir, in) ==
    LET fee == (in * p.fee) \div BpsOne
        range == {i \in 1..(Len(p.ticks) - 1) :
                    p.ticks[i].index <= p.tick /\ p.tick < p.ticks[i + 1].index}
        start == [s |-> p.s, tick |-> p.tick, liq |-> p.liq, idx |-> Min(range), rem |-> in - fee,
                  out |-> 0, crosses |-> 0, err |-> "none"]
        \* the loop: each round crosses a tick, stops at one, or ends
        after[k \in 0..2 * Len(p.ticks)] ==
            IF k = 0 THEN start
            ELSE LET st == after[k - 1]
                 IN  IF st.rem = 0 THEN st ELSE IF dir = 0 THEN StepDown(p, st) ELSE StepUp(p, st)
    IN  after[2 * Len(p.ticks)]

ClmmPoolError(p) ==
    FirstFailure(<<
        Check(p.liq = 0, "InvalidLiquidity"),
        Check(p.fee >= BpsOne, "InvalidFee"),
        Check(TickFromSqrtPrice(p.s) # p.tick, "InvalidRange"),
        Check(Len(p.ticks) < 2, "InvalidRange"),
        Check(p.tick < p.ticks[1].index \/ p.tick >= Last(p.ticks).index, "InvalidRange")>>, "none")

ClmmExactInput(p, dir, in) ==
    IF in = 0 THEN Failed("ZeroInputAmount")
    ELSE IF ClmmPoolError(p) # "none" THEN Failed(ClmmPoolError(p))
    ELSE IF in = (in * p.fee) \div BpsOne THEN Failed("ZeroEffectiveInput")
    ELSE Outcome(ClmmRun(p, dir, in))

LeftAt(p, end) == [p EXCEPT !.s = end.s, !.tick = end.tick, !.liq = end.liq]

ClmmAfter(p, dir, in) == LeftAt(p, ClmmRun(p, dir, in))

(***************************************************************************)
(* Bins: [active, step, d0, d1, fee, bins], bins a sequence of             *)
(* [id, r] in increasing order of id, each at one fixed price.             *)
(***************************************************************************)
Gcd(a, b) == Max({d \in 1..(IF a > b THEN a ELSE b) : a % d = 0 /\ b % d = 0})
Reduce(num, den) == <<num \div Gcd(num, den), den \div Gcd(num, den)>>

\* One step of the price to the power of the bin.
RawBinPrice(base, id) ==
    LET e == IF id < 0 THEN -id ELSE id
    IN  IF id >= 0 THEN <<base[1] ^ e, base[2] ^ e>> ELSE <<base[2] ^ e, base[1] ^ e>>

\* Scaled from whole tokens to atomic amounts.
ScaledBinPrice(p, raw) ==
    LET scale == 10 ^ (IF p.d1 >= p.d0 THEN p.d1 - p.d0 ELSE p.d0 - p.d1)
        cancel == IF p.d1 >= p.d0 THEN Gcd(raw[2], scale) ELSE Gcd(raw[1], scale)
    IN  IF p.d1 >= p.d0 THEN <<raw[1] * (scale \div cancel), raw[2] \div cancel>>
                        ELSE <<raw[1] \div cancel, raw[2] * (scale \div cancel)>>

FittingPrice(raw, price) ==
    IF \E k \in 1..2 : raw[k] > AmountMax \/ price[k] > AmountMax
    THEN << >> ELSE Reduce(price[1], price[2])

AtomicOf(p, raw) == FittingPrice(raw, ScaledBinPrice(p, raw))

\* The price of a bin as a reduced fraction of atomic amounts; << >> when it does not fit.
AtomicBinPrice(p, id) == AtomicOf(p, RawBinPrice(Reduce(BpsOne + p.step, BpsOne), id))

NextBin(p, dir, st) ==
    LET idx == IF dir = 0 THEN st.idx - 1 ELSE st.idx + 1
    IN  IF st.crosses >= MaxCrosses \/ idx \notin DOMAIN p.bins
        THEN Stop(st, "BinCrossingExceeded")
        ELSE [st EXCEPT !.idx = idx, !.crosses = @ + 1]

DrainBin(p, dir, st, price) ==
    LET bin == p.bins[st.idx]
        available == bin.r[Other(dir)]
        \* out = in * num / den
        num == IF dir = 0 THEN price[1] ELSE price[2]
        den == IF dir = 0 THEN price[2] ELSE price[1]
        need == CeilDiv(available * den, num)
        part == (st.rem * num) \div den
        emptied == [st EXCEPT !.out = @ + available, !.rem = @ - need, !.active = bin.id]
    IN  IF available = 0 THEN NextBin(p, dir, st)
        ELSE IF price = << >> THEN Stop(st, "ArithmeticOverflow")
        ELSE IF need > AmountMax THEN Stop(st, "ArithmeticOverflow")
        ELSE IF st.rem >= need
        THEN IF st.out + available > AmountMax THEN Stop(st, "ArithmeticOverflow")
             ELSE IF st.rem > need THEN NextBin(p, dir, emptied) ELSE emptied
        ELSE IF part > AmountMax \/ st.out + part > AmountMax THEN Stop(st, "ArithmeticOverflow")
        ELSE [st EXCEPT !.out = @ + part, !.rem = 0,
                        !.active = IF part > 0 THEN bin.id ELSE @]

BinStep(p, dir, st) == DrainBin(p, dir, st, AtomicBinPrice(p, p.bins[st.idx].id))

BinRun(p, dir, in) ==
    LET fee == (in * p.fee) \div BpsOne
        start == [idx |-> Min({i \in DOMAIN p.bins : p.bins[i].id = p.active}), rem |-> in - fee,
                  out |-> 0, crosses |-> 0, err |-> "none", active |-> p.active]
        after[k \in 0..Len(p.bins) + 1] ==
            IF k = 0 THEN start
            ELSE LET st == after[k - 1] IN IF st.rem = 0 THEN st ELSE BinStep(p, dir, st)
    IN  after[Len(p.bins) + 1]

BinExactInput(p, dir, in) ==
    IF in = 0 THEN Failed("ZeroInputAmount")
    ELSE IF p.fee >= BpsOne THEN Failed("InvalidFee")
    ELSE IF in = (in * p.fee) \div BpsOne THEN Failed("ZeroEffectiveInput")
    ELSE Outcome(BinRun(p, dir, in))

(***************************************************************************)
(* The smallest input that pays a target: doubling, then bisection, over a *)
(* kernel f that may refuse small inputs, large inputs, and single inputs  *)
(* in between.                                                             *)
(***************************************************************************)
ProbeClass(err) ==
    CASE err \in {"ZeroOutputAmount", "ZeroEffectiveInput"} -> "Low"
      [] err = "InvariantViolated" -> "Hole"
      [] err \in {"TickCrossingExceeded", "BinCrossingExceeded", "ArithmeticOverflow"} -> "High"
      [] OTHER -> "Unexpected"

End(st, kind) == [st EXCEPT !.phase = "end", !.kind = kind]

\* Doubling stops at an input that pays enough, or passes the kernel's edge.
GrowStep(f, target, st) ==
    LET r == f[st.g]
        class == ProbeClass(r.err)
        enough == r.ok /\ r.out >= target
        grown == [st EXCEPT !.prev = st.g, !.seen = @ \/ r.ok,
                            !.g = IF @ > AmountMax \div 2 THEN AmountMax ELSE 2 * @]
    IN  IF enough THEN [st EXCEPT !.phase = "bisect", !.lo = 1, !.hi = st.g]
        ELSE IF ~r.ok /\ class = "High" THEN [st EXCEPT !.phase = "edge", !.lo = st.prev, !.hi = st.g]
        ELSE IF ~r.ok /\ (class = "Unexpected" \/ (class = "Hole" /\ st.seen)) THEN End(st, r.err)
        ELSE IF st.g = AmountMax THEN End(st, "Unreachable")
        ELSE grown

\* The edge is the smallest input the kernel refuses as too large.
EdgeStep(f, target, st) ==
    LET mid == st.lo + (st.hi - st.lo) \div 2
        r == f[mid]
        class == ProbeClass(r.err)
        top == st.hi - 1
    IN  IF st.hi - st.lo > 1
        THEN IF r.ok THEN [st EXCEPT !.lo = mid, !.seen = TRUE]
             ELSE IF class = "High" THEN [st EXCEPT !.hi = mid]
             ELSE IF class = "Low" \/ (class = "Hole" /\ ~st.seen) THEN [st EXCEPT !.lo = mid]
             ELSE End(st, r.err)
        ELSE IF top = 0 THEN End(st, "Unreachable")
        ELSE IF f[top].ok
        THEN IF f[top].out >= target THEN [st EXCEPT !.phase = "bisect", !.lo = 1, !.hi = top]
                                     ELSE End(st, "Unreachable")
        ELSE CASE ProbeClass(f[top].err) = "Low" -> End(st, "Unreachable")
               [] ProbeClass(f[top].err) = "High" -> End(st, "InvariantViolated")
               [] ProbeClass(f[top].err) = "Hole" /\ ~st.seen -> End(st, "Unreachable")
               [] OTHER -> End(st, f[top].err)

BisectStep(f, target, st) ==
    LET mid == st.lo + (st.hi - st.lo) \div 2
        r == f[mid]
    IN  IF st.lo < st.hi
        THEN IF r.ok /\ r.out >= target THEN [st EXCEPT !.hi = mid]
             ELSE IF r.ok \/ ProbeClass(r.err) = "Low" THEN [st EXCEPT !.lo = mid + 1]
             ELSE End(st, r.err)
        ELSE IF ~(f[st.lo].ok /\ f[st.lo].out >= target) THEN End(st, "InvariantViolated")
        ELSE IF st.lo > 1 /\ f[st.lo - 1].ok /\ f[st.lo - 1].out >= target
        THEN End(st, "InvariantViolated")
        ELSE IF st.lo > 1 /\ ~f[st.lo - 1].ok /\ ProbeClass(f[st.lo - 1].err) # "Low"
        THEN End(st, f[st.lo - 1].err)
        ELSE End(st, "Found")

FindMinGrossInput(f, target) ==
    LET bits == Min({b \in 1..30 : 2 ^ b > AmountMax})
        rounds == 3 * bits + 3
        after[k \in 0..rounds] ==
            IF k = 0
            THEN [phase |-> "grow", g |-> 1, prev |-> 0, lo |-> 0, hi |-> 0, seen |-> FALSE,
                  kind |-> "none"]
            ELSE LET st == after[k - 1]
                 IN  CASE st.phase = "grow" -> GrowStep(f, target, st)
                       [] st.phase = "edge" -> EdgeStep(f, target, st)
                       [] st.phase = "bisect" -> BisectStep(f, target, st)
                       [] OTHER -> st
    IN  after[rounds]

ExactOutput(f, want) ==
    LET search == FindMinGrossInput(f, want)
    IN  IF want = 0 THEN Failed("ZeroOutputAmount")
        ELSE IF search.kind = "Found" THEN Done(search.lo)
        ELSE IF search.kind = "Unreachable" THEN Failed("OutputUnreachable")
        ELSE Failed(search.kind)

(***************************************************************************)
(* Contracts, for one pool and one request.                                *)
(***************************************************************************)
\* A constant-product swap (simulate_cpmm_exact_input) never reaches the code's own invariant
\* error, and swapping the proceeds back never returns more than was paid.
CpmmKeepsValue(p, dir, in) ==
    LET there == CpmmExactInput(p, dir, in)
        back == CpmmExactInput(CpmmAfter(p, dir, in), Other(dir), there.out)
    IN  /\ there.err # "InvariantViolated"
        /\ there.ok /\ back.ok => back.out <= in

\* simulate_cpmm_exact_output names the smallest input that pays the request, whenever one of
\* the inputs a u128 holds does, and never trips over its own re-check.
CpmmOutputIsMinimal(p, dir, want) ==
    LET pays == {in \in 1..AmountMax : LET r == CpmmExactInput(p, dir, in) IN r.ok /\ r.out >= want}
        answer == CpmmExactOutput(p, dir, want)
    IN  /\ answer.err # "InvariantViolated"
        /\ answer.ok => pays # {} /\ answer.out = Min(pays)
        /\ want > 0 /\ pays # {} => answer.ok

\* A concentrated-liquidity swap (simulate_clmm_exact_input) and the swap back of its proceeds,
\* from the price, tick and liquidity it reports, never return more than was paid.
ClmmKeepsValue(p, dir, in) ==
    LET there == ClmmExactInput(p, dir, in)
        back == ClmmExactInput(ClmmAfter(p, dir, in), Other(dir), there.out)
    IN  there.ok => /\ ClmmPoolError(ClmmAfter(p, dir, in)) = "none"
                    /\ back.ok => back.out <= in

\* A bin swap (simulate_bin_exact_input) pays no more than the bins hold, and more input never
\* pays less.
BinIsMonotone(p, dir, in) ==
    LET r == BinExactInput(p, dir, in)
        more == BinExactInput(p, dir, in + 1)
    IN  /\ r.ok => r.out <= Total([i \in DOMAIN p.bins |-> p.bins[i].r[Other(dir)]])
        /\ r.ok /\ more.ok => r.out <= more.out

\* The exact-output search (find_min_gross_input) answers with the smallest input that pays.
SearchIsMinimal(f, want) ==
    LET pays == {in \in 1..AmountMax : f[in].ok /\ f[in].out >= want}
        answer == ExactOutput(f, want)
    IN  /\ FindMinGrossInput(f, want).phase = "end"
        /\ answer.ok => pays # {} /\ answer.out = Min(pays)

-----------------------------------------------------------------------------
(* Depth: how much a concentrated-liquidity or bin pool absorbs before its price *)
(* leaves a band, found by bisection over the kernels above.                     *)

NoAmount == -1   \* Option::None of an amount or of an impact

(***************************************************************************)
(* A price move against a band of bps, compared as exact products.         *)
(***************************************************************************)
ClmmWithin(s, r, bps) ==
    \/ r = s
    \/ r < s /\ (BpsOne - bps) * s * s <= BpsOne * r * r
    \/ r > s /\ BpsOne * r * r <= (BpsOne + bps) * s * s

BinPriceWithin(before, after, rose, bps) ==
    LET num == after[1] * before[2]
        den == after[2] * before[1]
    IN  IF rose THEN num * BpsOne <= den * (BpsOne + bps) ELSE num * BpsOne >= den * (BpsOne - bps)

\* Without the two prices: the reduced base to the power of the distance.
BinExponentWithin(p, id, bps) ==
    LET diff == id - p.active
        e == IF diff < 0 THEN -diff ELSE diff
        base == Reduce(BpsOne + p.step, BpsOne)
    IN  \/ diff = 0
        \/ diff > 0 /\ e * p.step <= bps /\ base[1] ^ e * BpsOne <= base[2] ^ e * (BpsOne + bps)
        \/ diff < 0 /\ \/ bps >= BpsOne
                       \/ /\ e * p.step * (BpsOne - bps) <= BpsOne * bps
                          /\ base[1] ^ e * (BpsOne - bps) <= base[2] ^ e * BpsOne

BinWithin(p, id, bps) ==
    LET before == AtomicBinPrice(p, p.active)
        after == AtomicBinPrice(p, id)
    IN  \/ id = p.active
        \/ IF before # << >> /\ after # << >>
           THEN BinPriceWithin(before, after, id > p.active, bps)
           ELSE BinExponentWithin(p, id, bps)

\* The least band that holds the move; within[b] for b in 0..BpsOne.
ImpactOf(within) ==
    LET bits == Min({b \in 1..30 : 2 ^ b > BpsOne})
        after[k \in 0..bits] ==
            IF k = 0 THEN [lo |-> 0, hi |-> BpsOne]
            ELSE LET st == after[k - 1]
                     mid == st.lo + (st.hi - st.lo) \div 2
                 IN  IF st.lo >= st.hi THEN st
                     ELSE IF within[mid] THEN [st EXCEPT !.hi = mid]
                     ELSE [st EXCEPT !.lo = mid + 1]
    IN  IF within[BpsOne] THEN after[bits].lo ELSE NoAmount

ClmmImpact(s, r) ==
    IF s = 0 \/ r = 0 THEN NoAmount ELSE ImpactOf([b \in 0..BpsOne |-> ClmmWithin(s, r, b)])

BinImpact(p, id) == ImpactOf([b \in 0..BpsOne |-> BinWithin(p, id, b)])

(***************************************************************************)
(* The two searches.  ok[a] says whether the kernel prices a; within[a]    *)
(* whether it prices a and the price stays in the band.                    *)
(***************************************************************************)
Halve(test, lo, hi) ==
    LET bits == Min({b \in 1..30 : 2 ^ b > AmountMax})
        after[k \in 0..bits] ==
            IF k = 0 THEN <<lo, hi>>
            ELSE LET st == after[k - 1]
                     mid == st[1] + (st[2] - st[1]) \div 2
                 IN  IF st[2] - st[1] <= 1 THEN st
                     ELSE IF test[mid] THEN <<mid, st[2]>> ELSE <<st[1], mid>>
    IN  after[bits][1]

MaxTraversable(ok) ==
    LET powers == {2 ^ b : b \in {b \in 0..30 : 2 ^ b <= AmountMax}}
        start == Min({g \in powers : ok[g]})
        refused == {g \in powers : g > start /\ ~ok[g]}
        hi == Min(refused)
    IN  IF \A g \in powers : ~ok[g] THEN NoAmount
        ELSE IF refused = {} THEN Max(powers)
        ELSE Halve(ok, hi \div 2, hi)

MaxWithin(cap, within) ==
    LET lo == Halve(within, 0, cap)
    IN  IF cap = 0 THEN NoAmount
        ELSE IF within[cap] THEN cap
        ELSE IF lo = 0 THEN NoAmount ELSE lo

Unusable == [usable |-> FALSE, impact |-> NoAmount, absorbed |-> << >>]

\* DepthProfile of a pool for one input: an amount per target, in the order of the targets.
\* end[a] is where the kernel leaves the pool after a, 0 when it refuses a.
ClmmDepth(p, in, targets, end) ==
    LET cap == MaxTraversable([a \in 1..AmountMax |-> end[a] # 0])
    IN  IF cap = NoAmount THEN Unusable ELSE
        [usable |-> TRUE,
         impact |-> ClmmImpact(p.s, end[in]),
         absorbed |-> [t \in DOMAIN targets |->
                          MaxWithin(cap, [a \in 1..AmountMax |->
                              end[a] # 0 /\ ClmmWithin(p.s, end[a], targets[t])])]]

ClmmProfile(p, dir, in, targets) ==
    ClmmDepth(p, in, targets,
              [a \in 1..AmountMax |->
                  IF ClmmExactInput(p, dir, a).ok THEN ClmmRun(p, dir, a).s ELSE 0])

BinDepth(p, in, targets, ok, end) ==
    LET cap == MaxTraversable(ok)
    IN  IF cap = NoAmount THEN Unusable ELSE
        [usable |-> TRUE,
         impact |-> IF ok[in] THEN BinImpact(p, end[in]) ELSE NoAmount,
         absorbed |-> [t \in DOMAIN targets |->
                          MaxWithin(cap, [a \in 1..AmountMax |->
                              ok[a] /\ BinWithin(p, end[a], targets[t])])]]

BinProfile(p, dir, in, targets) ==
    BinDepth(p, in, targets, [a \in 1..AmountMax |-> BinExactInput(p, dir, a).ok],
             [a \in 1..AmountMax |-> BinRun(p, dir, a).active])

\* Depth orders two routes by the widest band first (score::depth_ascending).
DeeperThan(a, b) ==
    LET differ == {t \in DOMAIN a.absorbed : a.absorbed[t] # b.absorbed[t]}
    IN  IF differ # {} THEN a.absorbed[Max(differ)] > b.absorbed[Max(differ)]
        ELSE a.impact # NoAmount /\ (b.impact = NoAmount \/ a.impact < b.impact)

(***************************************************************************)
(* Contracts.                                                              *)
(***************************************************************************)
\* The bisection for an impact (clmm_impact_bps) answers with the least band that holds the
\* price move, and no band holds a move it calls unbounded.
ImpactIsLeast(s, r) ==
    LET bands == {b \in 0..BpsOne : ClmmWithin(s, r, b)}
    IN  ClmmImpact(s, r) = IF bands = {} THEN NoAmount ELSE Min(bands)
=============================================================================
