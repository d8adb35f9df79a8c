------------------------------ MODULE FeedMapper ------------------------------
(***************************************************************************)
(* CanonicalMarketFeedMapper: raw envelopes become canonical ones in the   *)
(* order of one stream tracker, while the mapper keeps its own order book. *)
(* An error publishes nothing.  downstream is what a reader rebuilds from  *)
(* the published envelopes that are not marked for a resync.               *)
(***************************************************************************)
EXTENDS FeedSequence

VARIABLES
    tracker,      \* stream_tracker
    book,         \* order_book; sequence NoFeedYet stands for None
    downstream    \* sequence and book of a reader of the canonical stream

mapperVars == <<tracker, book, downstream>>

NoBook == [sequence |-> NoFeedYet, bids |-> {}, asks |-> {}, resync |-> FALSE]

MapperInit ==
    /\ tracker = NewTracker
    /\ book = NoBook
    /\ downstream = [sequence |-> NoFeedYet, bids |-> {}, asks |-> {}]

\* OrderBookDepth::new, and reset_with_snapshot with the same content.
NewBook(n) ==
    [sequence |-> n, bids |-> TopBids(venue[n].bids), asks |-> TopAsks(venue[n].asks),
     resync |-> FALSE]

\* CanonicalMarketFeedMapper::trigger_resync.
LatchMapper ==
    /\ tracker' = [tracker EXCEPT !.resync = TRUE]
    /\ book' = [book EXCEPT !.resync = book.sequence # NoFeedYet]

\* map_order_book_snapshot.  A timestamp too far in the future publishes the
\* envelope marked for a resync, and latches.
MapOrderBookSnapshot(n, future) ==
    /\ n > tracker.current
    /\ IF future
       THEN LatchMapper /\ UNCHANGED downstream
       ELSE /\ tracker' = ApplySnapshotSequence(tracker, n)
            /\ book' = NewBook(n)
            /\ downstream' = [sequence |-> n, bids |-> venue[n].bids, asks |-> venue[n].asks]

\* OrderBookDepth::apply_delta.
BookApplyDelta(first, last) ==
    LET bids == TopBids(WithUpdates(book.bids, venue[first - 1].bids, venue[last].bids))
        asks == TopAsks(WithUpdates(book.asks, venue[first - 1].asks, venue[last].asks))
        class == ClassifyDeltaRange([current |-> book.sequence, resync |-> book.resync],
                                    first, last)
    IN IF class = "Contiguous" /\ Crossed(bids, asks)
       THEN [class |-> "Err", book |-> book]
       ELSE [class |-> class,
             book  |-> IF class = "Contiguous"
                       THEN [book EXCEPT !.sequence = last, !.bids = bids, !.asks = asks]
                       ELSE book]

\* map_order_book_delta: latched, without a baseline, a gap or an overlap,
\* stale or duplicate, out of step with the book, from the future, or published.
MapOrderBookDelta(first, last, future) ==
    LET class  == ClassifyDeltaRange(tracker, first, last)
        staged == BookApplyDelta(first, last)
    IN IF class \in {"Stale", "Duplicate"} THEN UNCHANGED mapperVars
       ELSE IF class = "ResyncRequired"
       THEN /\ IF tracker.resync THEN UNCHANGED <<tracker, book>> ELSE LatchMapper
            /\ UNCHANGED downstream
       ELSE IF staged.class = "Err" THEN UNCHANGED mapperVars
       ELSE IF staged.class = "ResyncRequired" \/ future
       THEN LatchMapper /\ UNCHANGED downstream
       ELSE /\ tracker' = ApplyDeltaRange(tracker, first, last)
            /\ book' = staged.book
            /\ downstream' = [sequence |-> last,
                  bids |-> WithUpdates(downstream.bids, venue[first - 1].bids, venue[last].bids),
                  asks |-> WithUpdates(downstream.asks, venue[first - 1].asks, venue[last].asks)]

\* map_candle consults neither tracker nor book; only a timestamp from the
\* future changes the mapper.
MapCandle(future) ==
    /\ future
    /\ LatchMapper
    /\ UNCHANGED downstream

\* reset_with_snapshot ignores what the tracker says of the sequence: an old
\* snapshot replaces the book and leaves the tracker ahead of it.  The caller has
\* the snapshot and hands it to the reader.
ResetMapper(n) ==
    /\ tracker' = ApplySnapshotSequence(tracker, n)
    /\ book' = NewBook(n)
    /\ downstream' = [sequence |-> n, bids |-> venue[n].bids, asks |-> venue[n].asks]

MapperNext ==
    \/ VenueUpdate /\ UNCHANGED mapperVars
    \/ /\ UNCHANGED venue
       /\ \/ \E n \in Snapshots, f \in BOOLEAN : MapOrderBookSnapshot(n, f)
          \/ \E r \in Ranges, f \in BOOLEAN : MapOrderBookDelta(r[1], r[2], f)
          \/ MapCandle(TRUE)
          \/ \E n \in Snapshots : ResetMapper(n)

MapperSpec == VenueInit /\ MapperInit /\ [][MapperNext]_<<venue, mapperVars>>

-----------------------------------------------------------------------------

\* Whatever is lost, repeated, reordered or reset, the canonical stream rebuilds
\* the venue's book at its sequence, and the mapper's own book shows no level the
\* venue does not have (mapper.rs:219-462, orderbook.rs:561-659).
MappedStreamIsFaithful ==
    /\ downstream.sequence # NoFeedYet =>
          /\ downstream.bids = venue[downstream.sequence].bids
          /\ downstream.asks = venue[downstream.sequence].asks
    /\ book.sequence # NoFeedYet =>
          /\ book.bids \subseteq venue[book.sequence].bids
          /\ book.asks \subseteq venue[book.sequence].asks
=============================================================================
