----------------------------- MODULE FeedSequence -----------------------------
(***************************************************************************)
(* The venue behind a market feed and the sequence rules of                *)
(* crates/market-types.  The venue's book after its n-th update is         *)
(* venue[n]; a snapshot at n carries that book, and a delta over a..b the  *)
(* levels in which venue[b] and venue[a - 1] differ.  A side of a book is  *)
(* its set of prices: quantities are left out.  The network may deliver    *)
(* any envelope of the past at any time, in any order, any number of       *)
(* times, or never.                                                        *)
(***************************************************************************)
EXTENDS Integers, Sequences, FiniteSets

CONSTANTS
    Prices,        \* price levels
    MaxSequence,   \* bound: updates of the venue
    MaxLevels,     \* max_levels of the books kept
    MaxWindow,     \* bound: candle windows the clock moves through
    SharedCounter  \* candles are numbered by the same counter as the book

ASSUME FeedAssumption == /\ Prices \subseteq Nat
                         /\ {MaxSequence, MaxLevels, MaxWindow} \subseteq Nat \ {0}
                         /\ SharedCounter \in BOOLEAN

VARIABLE venue     \* venue[n]: kind of the n-th update, book and window after it

NoFeedYet == 0

Crossed(bids, asks) == \E b \in bids, a \in asks : b >= a

\* The side after a delta, a removal of an unknown level being ignored.
WithUpdates(side, before, after) == (side \ (before \ after)) \cup (after \ before)

\* Vec::truncate on a side that is sorted best first.
TopBids(side) == {p \in side : Cardinality({q \in side : q > p}) < MaxLevels}
TopAsks(side) == {p \in side : Cardinality({q \in side : q < p}) < MaxLevels}

\* The venue moves one level of an uncrossed book, or closes a candle.
VenueUpdate ==
    LET last == venue[Len(venue)]
        Toggled(S, p) == IF p \in S THEN S \ {p} ELSE S \cup {p}
    IN /\ Len(venue) < MaxSequence
       /\ \E w \in last.window .. MaxWindow, p \in Prices :
             \E next \in {[last EXCEPT !.kind = "depth", !.window = w,
                                       !.bids = Toggled(last.bids, p)],
                          [last EXCEPT !.kind = "depth", !.window = w,
                                       !.asks = Toggled(last.asks, p)],
                          [last EXCEPT !.kind = "candle", !.window = w]} :
                /\ next.kind = "candle" => SharedCounter
                /\ ~Crossed(next.bids, next.asks)
                /\ venue' = Append(venue, next)

Snapshots == {n \in 1 .. Len(venue) : venue[n].kind = "depth"}

Ranges == {r \in (2 .. Len(venue)) \X (2 .. Len(venue)) :
              r[1] <= r[2] /\ \A n \in r[1] .. r[2] : venue[n].kind = "depth"}

\* The numbers a candle may carry: its place in the shared counter, or whatever
\* the candle stream counts by itself.
CandleNumbers ==
    IF SharedCounter THEN {n \in 1 .. Len(venue) : venue[n].kind = "candle"}
    ELSE 1 .. MaxSequence

VenueInit ==
    venue = << [kind |-> "depth", bids |-> {CHOOSE p \in Prices : \A q \in Prices : p <= q},
                asks |-> {CHOOSE p \in Prices : \A q \in Prices : p >= q}, window |-> 1] >>

-----------------------------------------------------------------------------
(* SequencedStreamTracker.                                                  *)

NewTracker == [current |-> NoFeedYet, resync |-> FALSE]

\* Fault: a delta that overlaps what is known is taken for its new part.
ClassifyLeniently(tracker, first, last) ==
    CASE tracker.resync \/ tracker.current = NoFeedYet -> "ResyncRequired"
      [] last < tracker.current  -> "Stale"
      [] last = tracker.current  -> "Duplicate"
      [] first <= tracker.current + 1 -> "Contiguous"
      [] OTHER                   -> "ResyncRequired"

ClassifyDeltaRange(tracker, first, last) ==
    IF tracker.resync \/ tracker.current = NoFeedYet THEN "ResyncRequired"
    ELSE CASE last < tracker.current      -> "Stale"
           [] last = tracker.current      -> "Duplicate"
           [] first = tracker.current + 1 -> "Contiguous"
           [] OTHER                       -> "ResyncRequired"

ApplyDeltaRange(tracker, first, last) ==
    CASE ClassifyDeltaRange(tracker, first, last) = "Contiguous" ->
            [tracker EXCEPT !.current = last]
      [] ClassifyDeltaRange(tracker, first, last) = "ResyncRequired" ->
            [tracker EXCEPT !.resync = TRUE]
      [] OTHER -> tracker

\* A stale or duplicate snapshot changes nothing, the latch included.
ApplySnapshotSequence(tracker, n) ==
    IF n > tracker.current THEN [current |-> n, resync |-> FALSE] ELSE tracker
=============================================================================
