------------------------------- MODULE PoolFeed -------------------------------
(***************************************************************************)
(* PoolReducer: the state of one liquidity pool, kept from snapshots and   *)
(* deltas.  pool[n] is what the provider reports after its n-th update,    *)
(* which may be a state the reducer must refuse; a delta over a..b carries *)
(* the fields in which pool[b] and pool[a - 1] differ.  Amounts are zero   *)
(* or not, ticks and bins a few indices, and liquidity per tick is left    *)
(* out.                                                                    *)
(***************************************************************************)
EXTENDS FeedSequence

CONSTANTS
    TickSpacing,   \* tick_spacing of the pool
    Indices,       \* tick indices and bin ids the provider reports
    MaxEntries,    \* max_ticks and max_bins
    MaxPoolUpdates \* bound: states the provider reports

VARIABLES
    pool,          \* what the provider reports
    reducer        \* the PoolReducer

poolVars == <<pool, reducer>>

Sides == {"none", "r0", "r1"}

CpmmStates == [kind : {"cpmm"}, r0 : 0 .. 1, r1 : 0 .. 1]
ClmmStates == [kind : {"clmm"}, tick : Indices, sqrt : 0 .. 1, ticks : SUBSET Indices]
BinStates  == [kind : {"bin"}, active : Indices, bins : [Indices -> Sides]]

PoolStates == CpmmStates \cup ClmmStates \cup BinStates

HeldBins(bins) == {i \in Indices : bins[i] # "none"}

-----------------------------------------------------------------------------
(* Which states a reducer holds: validate of the state, and what new,       *)
(* apply_snapshot and reset_with_snapshot ask on top of it.                 *)

CpmmValid(s) == s.r0 # 0 /\ s.r1 # 0

ClmmValid(s) ==
    /\ s.sqrt # 0
    /\ \A t \in s.ticks : t % TickSpacing = 0
    /\ Cardinality(s.ticks) <= MaxEntries

\* Below the active bin there is nothing of token 0, above it nothing of token 1.
BinValid(s) ==
    /\ \A i \in HeldBins(s.bins) : (i < s.active => s.bins[i] # "r0") /\ (i > s.active => s.bins[i] # "r1")
    /\ Cardinality(HeldBins(s.bins)) <= MaxEntries

PoolValid(s) ==
    CASE s.kind = "cpmm" -> CpmmValid(s)
      [] s.kind = "clmm" -> ClmmValid(s)
      [] s.kind = "bin"  -> BinValid(s)

-----------------------------------------------------------------------------
(* What a contiguous delta makes of the state held, before it is validated. *)

Changed(old, before, after) == IF before = after THEN old ELSE after

CpmmReduce(s, before, after) ==
    [s EXCEPT !.r0 = Changed(@, before.r0, after.r0), !.r1 = Changed(@, before.r1, after.r1)]

ClmmReduce(s, before, after) ==
    [s EXCEPT !.tick = Changed(@, before.tick, after.tick),
              !.sqrt = Changed(@, before.sqrt, after.sqrt),
              !.ticks = WithUpdates(@, before.ticks, after.ticks)]

BinReduce(s, before, after) ==
    [s EXCEPT !.active = Changed(@, before.active, after.active),
              !.bins = [i \in Indices |-> Changed(s.bins[i], before.bins[i], after.bins[i])]]

PoolReduce(s, before, after) ==
    CASE s.kind = "cpmm" -> CpmmReduce(s, before, after)
      [] s.kind = "clmm" -> ClmmReduce(s, before, after)
      [] s.kind = "bin"  -> BinReduce(s, before, after)

\* The delta's own validation: a zero price, a zero reserve, or a tick off the
\* spacing, removals included.
DeltaValid(before, after) ==
    CASE after.kind = "cpmm" -> \A r \in {"r0", "r1"} : after[r] = 0 => before[r] = 0
      [] after.kind = "clmm" ->
            /\ after.sqrt = 0 => before.sqrt = 0
            /\ \A t \in (before.ticks \ after.ticks) \cup (after.ticks \ before.ticks) :
                  t % TickSpacing = 0
      [] after.kind = "bin"  -> TRUE

-----------------------------------------------------------------------------
(* The reducer.                                                             *)

\* PoolReducer::with_bounds over the first envelope.
PoolInit ==
    /\ pool \in {<<s>> : s \in {t \in PoolStates : PoolValid(t)}}
    /\ reducer = [current |-> 1, resync |-> FALSE, state |-> pool[1]]

\* The provider changes one field.
ProviderUpdate ==
    LET last == pool[Len(pool)]
        One(f, values) == {[last EXCEPT ![f] = v] : v \in values}
    IN /\ Len(pool) < MaxPoolUpdates
       /\ \E next \in
             CASE last.kind = "cpmm" -> One("r0", 0 .. 1) \cup One("r1", 0 .. 1)
               [] last.kind = "clmm" -> One("tick", Indices) \cup One("sqrt", 0 .. 1)
                                        \cup One("ticks", SUBSET Indices)
               [] last.kind = "bin"  -> One("active", Indices) \cup
                                        One("bins", [Indices -> Sides]) :
             pool' = Append(pool, next)
       /\ UNCHANGED reducer

ClassifyPool(first, last) ==
    ClassifyDeltaRange([current |-> reducer.current, resync |-> reducer.resync], first, last)

\* PoolReducer::apply_delta: a refused update leaves the sequence where it is,
\* so that the next one is a gap.
ApplyPoolDelta(first, last) ==
    LET class  == ClassifyPool(first, last)
        staged == PoolReduce(reducer.state, pool[first - 1], pool[last])
    IN /\ reducer' =
             CASE class = "ResyncRequired" -> [reducer EXCEPT !.resync = TRUE]
               [] /\ class = "Contiguous"
                  /\ DeltaValid(pool[first - 1], pool[last])
                  /\ PoolValid(staged) ->
                     [reducer EXCEPT !.current = last, !.state = staged]
               [] OTHER -> reducer
       /\ UNCHANGED pool

\* PoolReducer::apply_snapshot.
ApplyPoolSnapshot(n) ==
    /\ PoolValid(pool[n])
    /\ n > reducer.current
    /\ reducer' = [current |-> n, resync |-> FALSE, state |-> pool[n]]
    /\ UNCHANGED pool

\* PoolReducer::reset_with_envelope takes an older state as well.
ResetPool(n) ==
    /\ PoolValid(pool[n])
    /\ reducer' = [current |-> n, resync |-> FALSE, state |-> pool[n]]
    /\ UNCHANGED pool

PoolNext ==
    \/ ProviderUpdate
    \/ \E r \in (2 .. Len(pool)) \X (2 .. Len(pool)) :
          r[1] <= r[2] /\ ApplyPoolDelta(r[1], r[2])
    \/ \E n \in 1 .. Len(pool) : ApplyPoolSnapshot(n)
    \/ \E n \in 1 .. Len(pool) : ResetPool(n)

PoolSpec == PoolInit /\ [][PoolNext]_poolVars

-----------------------------------------------------------------------------

\* The routes are simulated on this state: it is the provider's state at the
\* reducer's sequence, never a mixture of two, and always one that validates,
\* whatever was lost, repeated or refused on the way (pool.rs:1011-1084,
\* 1343-1443, 1707-1791).
PoolIsFaithful ==
    /\ reducer.state = pool[reducer.current]
    /\ PoolValid(reducer.state)
=============================================================================
