----------------------------- MODULE ConsumerBatch -----------------------------
(***************************************************************************)
(* MarketConsumerBatcher: an aggregator (order book and candles of one     *)
(* instrument) and a bounded consumer queue that must move together.  The  *)
(* consumer rebuilds the book from the items it is handed.  Retained       *)
(* candles, volumes and the running totals are left out.                   *)
(***************************************************************************)
EXTENDS FeedMapper, PoolFeed

CONSTANTS
    QueueCapacity,   \* max_queue_capacity
    BatchSize,       \* max_batch_size
    MaxBatches       \* bound: batches handed out

ASSUME BatchAssumption == /\ BatchSize \in Nat \ {0}
                          /\ QueueCapacity \in Nat \ {0}
                          /\ BatchSize <= QueueCapacity

VARIABLES
    depth,      \* DepthAggregator
    ohlcv,      \* OhlcvAggregator; window 0 stands for no active window
    queue,      \* ConsumerBatchQueue
    replica     \* the book the consumer holds

batcherVars == <<depth, ohlcv, queue, replica>>

BatcherInit ==
    /\ depth = [current |-> NoFeedYet, bids |-> {}, asks |-> {}, resync |-> FALSE]
    /\ ohlcv = [current |-> NoFeedYet, window |-> 0, resync |-> FALSE]
    /\ queue = [tracker |-> NewTracker, items |-> <<>>, inFlight |-> <<>>, nextId |-> 1]
    /\ replica = [sequence |-> NoFeedYet, bids |-> {}, asks |-> {}]

-----------------------------------------------------------------------------
(* The aggregators: each operator yields a classification and the state     *)
(* that would be committed.                                                 *)

\* OhlcvAggregator::apply_candle, for a candle or a tick in window w.  A candle
\* that spans windows is refused before anything else is looked at.
ApplyCandle(o, n, w, fits) ==
    LET class == IF o.current = NoFeedYet /\ ~o.resync THEN "Contiguous"
                 ELSE IF o.resync THEN "ResyncRequired"
                 ELSE ClassifyDeltaRange([current |-> o.current, resync |-> FALSE], n, n)
    IN CASE class = "Contiguous" /\ fits /\ w >= o.window ->
              [class |-> "Contiguous",
               state |-> [current |-> n, window |-> w, resync |-> FALSE]]
         [] class = "Contiguous" /\ ~(fits /\ w >= o.window) ->
              [class |-> "Err", state |-> o]
         [] class = "ResyncRequired" ->
              [class |-> class, state |-> [o EXCEPT !.resync = TRUE]]
         [] OTHER -> [class |-> class, state |-> o]

\* OhlcvAggregator::reset_with_baseline.
ResetWithBaseline(o, n, w) ==
    IF n <= o.current THEN [class |-> "Err", state |-> o]
    ELSE [class |-> "Contiguous", state |-> [current |-> n, window |-> w, resync |-> FALSE]]

DepthAt(n) ==
    [current |-> n, bids |-> TopBids(venue[n].bids), asks |-> TopAsks(venue[n].asks),
     resync |-> FALSE]

\* DepthAggregator::apply_snapshot.
DepthApplySnapshot(d, n) ==
    CASE n < d.current -> [class |-> "Stale", state |-> d]
      [] n = d.current -> [class |-> "Duplicate", state |-> d]
      [] OTHER         -> [class |-> "Contiguous", state |-> DepthAt(n)]

\* DepthAggregator::apply_delta.
DepthApplyDelta(d, first, last) ==
    LET class == ClassifyDeltaRange([current |-> d.current, resync |-> d.resync], first, last)
        bids  == TopBids(WithUpdates(d.bids, venue[first - 1].bids, venue[last].bids))
        asks  == TopAsks(WithUpdates(d.asks, venue[first - 1].asks, venue[last].asks))
    IN CASE class = "ResyncRequired" ->
              [class |-> class, state |-> [d EXCEPT !.resync = TRUE]]
         [] class = "Contiguous" /\ Crossed(bids, asks) -> [class |-> "Err", state |-> d]
         [] class = "Contiguous" /\ ~Crossed(bids, asks) ->
              [class |-> class,
               state |-> [current |-> last, bids |-> bids, asks |-> asks, resync |-> FALSE]]
         [] OTHER -> [class |-> class, state |-> d]

HasMid(d) == d.bids # {} /\ d.asks # {}

Latched == depth.resync \/ ohlcv.resync

\* What MarketAggregator::apply_envelope returns and commits.
Outcome(class, d, o) == [class |-> class, depth |-> d, ohlcv |-> o]
Unchanged(class) == Outcome(class, depth, ohlcv)

AggregateSnapshot(n) ==
    LET staged   == DepthApplySnapshot(depth, n)
        recovery == Latched \/ ohlcv.current = NoFeedYet \/ n > ohlcv.current + 1
        candle   == IF recovery THEN ResetWithBaseline(ohlcv, n, venue[n].window)
                    ELSE ApplyCandle(ohlcv, n, venue[n].window, TRUE)
    IN IF staged.class # "Contiguous" THEN Unchanged(staged.class)
       ELSE IF ~HasMid(staged.state) THEN Unchanged("Err")
       ELSE IF candle.class \in {"Err", "ResyncRequired"} THEN Unchanged(candle.class)
       ELSE Outcome("Contiguous", staged.state, candle.state)

AggregateDelta(first, last) ==
    LET staged == DepthApplyDelta(depth, first, last)
        tick   == ApplyCandle(ohlcv, last, venue[last].window, TRUE)
    IN IF Latched THEN Unchanged("ResyncRequired")
       ELSE IF staged.class = "ResyncRequired"
       THEN Outcome("ResyncRequired", staged.state, [ohlcv EXCEPT !.resync = TRUE])
       ELSE IF staged.class # "Contiguous" THEN Unchanged(staged.class)
       ELSE IF ~HasMid(staged.state) THEN Unchanged("Err")
       ELSE IF tick.class \in {"Err", "ResyncRequired"} THEN Unchanged(tick.class)
       ELSE Outcome("Contiguous", staged.state, tick.state)

AggregateCandle(n, w, fits) ==
    LET staged == ApplyCandle(ohlcv, n, w, fits)
    IN IF Latched THEN Unchanged("ResyncRequired")
       ELSE IF staged.class = "ResyncRequired"
       THEN Outcome("ResyncRequired", [depth EXCEPT !.resync = TRUE], [ohlcv EXCEPT !.resync = TRUE])
       ELSE Outcome(staged.class, depth, staged.state)

-----------------------------------------------------------------------------
(* The queue.                                                               *)

Allocated(q) == Len(q.items) + Len(q.inFlight)

\* enqueue_snapshot, for a queue with room.
EnqueueSnapshot(q, item) ==
    IF item.last <= q.tracker.current
    THEN [class |-> "Stale", queue |-> q]
    ELSE [class |-> "Contiguous",
          queue |-> [q EXCEPT !.tracker = ApplySnapshotSequence(@, item.last),
                              !.items = Append(@, item)]]

\* enqueue_item, for a queue with room.
EnqueueItem(q, item) ==
    LET class == ClassifyDeltaRange(q.tracker, item.first, item.last)
    IN [class |-> class,
        queue |-> [q EXCEPT !.tracker = ApplyDeltaRange(@, item.first, item.last),
                            !.items = IF class = "Contiguous" THEN Append(@, item) ELSE @]]

\* MarketConsumerBatcher::trigger_resync.
TriggerResync ==
    /\ depth' = [depth EXCEPT !.resync = TRUE]
    /\ ohlcv' = [ohlcv EXCEPT !.resync = TRUE]
    /\ queue' = [queue EXCEPT !.tracker.resync = TRUE]
    /\ UNCHANGED replica

-----------------------------------------------------------------------------
(* The batcher: MarketConsumerBatcher.                                      *)

Commit(outcome, q) ==
    /\ depth' = outcome.depth
    /\ ohlcv' = outcome.ohlcv
    /\ queue' = q
    /\ UNCHANGED replica

\* apply_envelope: a latched batcher and a full queue refuse at once; then the
\* staged aggregator decides, and the queue is asked only about what it accepts.
\* The aggregator's word is kept also when the queue calls the item a duplicate.
ApplyEnvelope(outcome, item) ==
    /\ ~Latched /\ ~queue.tracker.resync
    /\ Allocated(queue) < QueueCapacity
    /\ LET snapshot == item.kind = "snapshot"
           staged   == IF snapshot THEN EnqueueSnapshot(queue, item) ELSE EnqueueItem(queue, item)
       IN IF outcome.class = "ResyncRequired" THEN TriggerResync
          ELSE IF outcome.class # "Contiguous" THEN UNCHANGED batcherVars
          ELSE IF snapshot /\ staged.class # "Contiguous" THEN UNCHANGED batcherVars
          ELSE IF staged.class = "ResyncRequired" THEN TriggerResync
          ELSE Commit(outcome, staged.queue)

\* ConsumerBatchItem: its kind and the sequences it covers.
Item(kind, first, last) == [kind |-> kind, first |-> first, last |-> last]

\* reset_with_snapshot: the aggregator and the queue reset, or neither.
ResetBatcher(n) ==
    LET candle == ResetWithBaseline(ohlcv, n, venue[n].window)
    IN /\ n > queue.tracker.current
       /\ HasMid(DepthAt(n))
       /\ candle.class # "Err"
       /\ Commit(Outcome("Contiguous", DepthAt(n), candle.state),
                 [queue EXCEPT !.tracker = [current |-> n, resync |-> FALSE],
                               !.items = << Item("snapshot", n, n) >>,
                               !.inFlight = <<>>])

-----------------------------------------------------------------------------
(* The consumer.                                                            *)

\* What a consumer makes of an item.
Absorb(r, item) ==
    CASE item.kind = "snapshot" ->
            [sequence |-> item.last, bids |-> venue[item.last].bids, asks |-> venue[item.last].asks]
      [] item.kind = "delta" ->
            [sequence |-> item.last,
             bids |-> WithUpdates(r.bids, venue[item.first - 1].bids, venue[item.last].bids),
             asks |-> WithUpdates(r.asks, venue[item.first - 1].asks, venue[item.last].asks)]
      [] item.kind = "candle" -> r

AbsorbAll(r, items) ==
    LET after[i \in 0 .. Len(items)] == IF i = 0 THEN r ELSE Absorb(after[i - 1], items[i])
    IN after[Len(items)]

\* The next batch, if the queue is not latched and owes no acknowledgement.
Ready ==
    /\ ~queue.tracker.resync
    /\ queue.inFlight = <<>>
    /\ queue.items # <<>>
    /\ queue.nextId <= MaxBatches

NextBatchSize == IF Len(queue.items) < BatchSize THEN Len(queue.items) ELSE BatchSize

HandOut(inFlight) ==
    /\ queue' = [queue EXCEPT
                    !.items = SubSeq(@, NextBatchSize + 1, Len(@)),
                    !.inFlight = inFlight,
                    !.nextId = @ + 1]
    /\ replica' = AbsorbAll(replica, SubSeq(queue.items, 1, NextBatchSize))
    /\ UNCHANGED <<depth, ohlcv>>

PullBatch == Ready /\ HandOut(SubSeq(queue.items, 1, NextBatchSize))

ConsumeBatch == Ready /\ HandOut(<<>>)

\* acknowledge, also while latched; the batch in flight is the last one handed
\* out, and a late acknowledgement of another is refused.
Acknowledge(id) ==
    /\ queue.inFlight # <<>>
    /\ id = queue.nextId - 1
    /\ queue' = [queue EXCEPT !.inFlight = <<>>]
    /\ UNCHANGED <<depth, ohlcv, replica>>

BatcherNext ==
    \/ VenueUpdate /\ UNCHANGED batcherVars
    \/ /\ UNCHANGED venue
       /\ \/ \E n \in Snapshots : ApplyEnvelope(AggregateSnapshot(n), Item("snapshot", n, n))
          \/ \E r \in Ranges : ApplyEnvelope(AggregateDelta(r[1], r[2]), Item("delta", r[1], r[2]))
          \/ \E n \in CandleNumbers, w \in 1 .. MaxWindow, fits \in BOOLEAN :
                ApplyEnvelope(AggregateCandle(n, w, fits), Item("candle", n, n))
          \/ \E n \in Snapshots : ResetBatcher(n)
          \/ TriggerResync
          \/ PullBatch
          \/ ConsumeBatch
          \/ \E id \in 1 .. MaxBatches : Acknowledge(id)

BatcherSpec == VenueInit /\ BatcherInit /\ [][BatcherNext]_<<venue, batcherVars>>

-----------------------------------------------------------------------------

\* Gaps, repeats, full queues, resets and late acknowledgements notwithstanding,
\* the items the consumer was handed rebuild the venue's book
\* (consumer.rs:432-542, 586-648, 932-1044).
ReplicaIsFaithful ==
    replica.sequence # NoFeedYet =>
        /\ replica.bids = venue[replica.sequence].bids
        /\ replica.asks = venue[replica.sequence].asks

\* The aggregated book shows no level that the venue does not have at the same
\* sequence, truncated or not (aggregation.rs:1136-1260).
NoPhantomLevels ==
    depth.current # NoFeedYet =>
        /\ depth.bids \subseteq venue[depth.current].bids
        /\ depth.asks \subseteq venue[depth.current].asks

\* The sticky resync is synchronized (consumer.rs:878-880): aggregator and queue
\* are latched together, and unlatched they have seen the same candles and books.
LatchIsShared ==
    /\ depth.resync = queue.tracker.resync
    /\ ohlcv.resync = queue.tracker.resync
    /\ ~queue.tracker.resync => ohlcv.current = queue.tracker.current

\* Whoever is not told to resynchronise holds what the venue holds: downstream of
\* the mapper, in the replica behind the batcher and its queue, and in the pool
\* reducer.
MarketDataIsFaithful ==
    /\ MappedStreamIsFaithful
    /\ ReplicaIsFaithful /\ NoPhantomLevels /\ LatchIsShared
    /\ PoolIsFaithful
=============================================================================
