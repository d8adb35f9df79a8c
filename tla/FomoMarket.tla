------------------------------ MODULE FomoMarket ------------------------------
(***************************************************************************)
(* The bridge-backed market data of apps/private-api: commands that read   *)
(* a token, the registry of the realtime target of each session, the       *)
(* push lane, and the stream source that mixes polled charts with pushed   *)
(* prices.  A stream step holds no lock while it sleeps or fetches, so the *)
(* target may be switched, the lane may go stale and another connection of *)
(* the same session may run in between.                                    *)
(*                                                                         *)
(* An address is [id, upper]: what it names and how it is spelled.         *)
(***************************************************************************)
EXTENDS Integers, Sequences, FiniteSets, FiniteSetsExt

CONSTANTS
    FomoKids,           \* sessions
    FomoStreams,        \* stream connections
    StreamOwner,        \* StreamOwner[d]: the session of a connection
    TargetRequests,     \* what set_realtime_target may be asked for
    DefaultTarget,      \* the operator's stream_target
    MaxTargets,         \* RealtimeTargetRegistry::MAX_ENTRIES
    MaxLanePrices,      \* DEFAULT_LANE_MAX_PRICES
    MaxStreamFailures,  \* MAX_STREAM_FAILURES
    MaxCountBack,       \* FOMO_MAX_COUNT_BACK
    Overlap,            \* a session may reconnect before its old connection ended
    LaneLog,            \* what the bridge pushes, in order
    MaxLaneGeneration,  \* bound: changes of the lane's state
    TokenQueries,       \* what a read may be asked for
    BridgeAnswers       \* what the bridge may answer

VARIABLES
    picked,        \* RealtimeTargetRegistry: session -> target
    emitted,       \* FomoSessionStreamSource::sessions: session -> last target sent
    laneHub,       \* LaneState
    laneClient,    \* FomoRealtimeLaneClient
    laneSessions,  \* lane_sessions: session -> LaneSession
    pulls,         \* pulls[d]: the driver's call into the source
    newest,        \* newest[k]: the connection the hub holds for k
    charts,        \* charts[d]: what the client behind d shows
    fomoHealth,    \* the health flags
    answer         \* the last token read that was rendered

fomoVars == <<picked, emitted, laneHub, laneClient, laneSessions, pulls, newest, charts,
              fomoHealth, answer>>

IsSeq(s) == s \in Seq({s[i] : i \in DOMAIN s})

\* A series of bars on the wire, [t, ok, v]: a time, validity and a value.
IsBars(raw) == /\ IsSeq(raw)
               /\ \A i \in DOMAIN raw : raw[i].t \in Int /\ raw[i].ok \in BOOLEAN

ASSUME FomoAssumption ==
    /\ {MaxTargets, MaxLanePrices, MaxStreamFailures, MaxCountBack} \subseteq Nat \ {0}
    /\ Overlap \in BOOLEAN
    /\ \A d \in FomoStreams : StreamOwner[d] \in FomoKids
    /\ \A r \in BridgeAnswers :
          /\ IsSeq(r.rows) /\ IsSeq(r.found)
          /\ IsBars(r.wire.bars) /\ IsBars(r.wire.latest)

(***************************************************************************)
(* Identity.                                                               *)
(***************************************************************************)
NoNetwork == "none"

\* fomo_network_id: aliases name one network, unknown slugs none.
FomoNetworkId(chain) ==
    CASE chain \in {"bsc", "bnb", "bnb_chain"} -> "bnb_chain"
      [] chain \in {"robinhood", "robinhood_chain"} -> "robinhood"
      [] chain \in {"solana", "base", "ethereum"} -> chain
      [] OTHER -> NoNetwork

IdentityIsCaseInsensitive(chain) == chain \in {"base", "ethereum", "bnb_chain", "bsc", "bnb"}

\* row_identity_matches: the case of an address matters except on EVM chains.
AddressEquals(chain, a, b) == IF IdentityIsCaseInsensitive(chain) THEN a.id = b.id ELSE a = b

NoEcho == [network |-> NoNetwork, address |-> [id |-> "", upper |-> FALSE]]

\* identity_matches: an answer must echo both network and address.
IdentityMatches(chain, address, echo) ==
    /\ echo.network = FomoNetworkId(chain)
    /\ echo.address.id # ""
    /\ AddressEquals(chain, echo.address, address)

\* identity_echoes_match: every echo given must match, and one must be given.
IdentityEchoesMatch(chain, address, echoes) ==
    /\ \A e \in echoes : e = NoEcho \/ IdentityMatches(chain, address, e)
    /\ \E e \in echoes : e # NoEcho

ValidAddress(a) == a.id # ""
FomoSymbolKnown(chain, a) == FomoNetworkId(chain) # NoNetwork /\ ValidAddress(a)
FomoResolutions == {"1m", "1h"}
ValidatedTarget(t) == FomoSymbolKnown(t.chain, t.address) /\ t.frame \in FomoResolutions

(***************************************************************************)
(* Series.                                                                 *)
(***************************************************************************)
\* The members of a finite set of positions, in the order of their keys.
InOrder(positions, key) ==
    [n \in 1..Cardinality(positions) |->
        CHOOSE i \in positions : Cardinality({j \in positions : key[j] < key[i]}) = n - 1]

\* normalize_bars: valid bars in order of time, the last of equal times, the newest kept.
NormalizeBars(raw) ==
    LET valid == {i \in DOMAIN raw : raw[i].ok}
        last == {i \in valid : \A j \in valid : raw[j].t = raw[i].t => j <= i}
        kept == {i \in last : Cardinality({j \in last : raw[j].t > raw[i].t}) < MaxCountBack}
        order == InOrder(kept, [i \in kept |-> raw[i].t])
    IN  [n \in DOMAIN order |-> raw[order[n]]]

\* fetch: only an answer the bridge labels polled, and not promoted to the push lane, is read;
\* its latest bar comes after the series.
FetchBars(wire) ==
    IF wire.provenance = "polling" /\ ~wire.promoted
    THEN [ok |-> TRUE, bars |-> NormalizeBars(wire.bars \o wire.latest)]
    ELSE [ok |-> FALSE, bars |-> << >>]

(***************************************************************************)
(* Reads.  bridge_get_bytes: a refusal of the request is not an outage.    *)
(***************************************************************************)
BridgeGetError(code) ==
    CASE code = 200 -> "none" [] code \in {400, 404, 422} -> "InvalidRequest" [] OTHER -> "Unavailable"

\* mark_health: an invalid request says nothing about the bridge.
HealthAfter(healthy, err) ==
    CASE err = "none" -> TRUE [] err = "InvalidRequest" -> healthy [] OTHER -> FALSE

UnchangedButReads == UNCHANGED <<picked, emitted, laneHub, laneClient, laneSessions, pulls, newest,
                                 charts>>

\* One read: refused before the bridge is asked, or answered and judged.
BridgeRead(flag, refused, err, shown) ==
    /\ fomoHealth' = IF refused THEN fomoHealth
                     ELSE [fomoHealth EXCEPT ![flag] = HealthAfter(@, err)]
    /\ answer' = IF refused \/ err # "none" THEN answer ELSE shown
    /\ UnchangedButReads

Shown(op, q, from, rows) == [op |-> op, chain |-> q.chain, address |-> q.address, from |-> from \ {NoEcho},
                         rows |-> rows]

FirstError(a, b) == IF a # "none" THEN a ELSE b
Expect(good) == IF good THEN "none" ELSE "InvalidResponse"

\* bars: a range that runs backwards or before zero is refused.
BarsQueryError(q) ==
    IF FomoSymbolKnown(q.chain, q.address) /\ 0 <= q.from /\ q.from <= q.to THEN "none"
    ELSE "InvalidRequest"

GetChart(q, r) ==
    BridgeRead("history", BarsQueryError(q) # "none",
               FirstError(BridgeGetError(r.code), Expect(FetchBars(r.wire).ok)),
               Shown("chart", q, {}, NormalizeBars(FetchBars(r.wire).bars)))

GetTrending(category, r) ==
    BridgeRead("market", category \notin {"trending", "most-held", "graduated", "crypto-tokens",
                                          "verified"}, BridgeGetError(r.code), answer)

HolderKey(chain, row) == IF IdentityIsCaseInsensitive(chain) THEN row.id ELSE row

\* What the detail lacks comes from a row of the same token, its own or one that a search finds.
TokenStats(q, r) ==
    LET same == {i \in DOMAIN r.found : IdentityMatches(q.chain, q.address, r.found[i])}
    IN  IF r.complete THEN r.echo
        ELSE IF IdentityMatches(q.chain, q.address, r.row) THEN r.row
        ELSE IF same # {} THEN r.found[Min(same)] ELSE NoEcho

\* get_token: the detail must be the token's.
GetToken(q, r) ==
    BridgeRead("market", ~FomoSymbolKnown(q.chain, q.address),
               FirstError(BridgeGetError(r.code), Expect(IdentityMatches(q.chain, q.address, r.echo))),
               Shown("token", q, {TokenStats(q, r)}, << >>))

\* holders_json: holders and friends, every wallet once, up to the limit; a row that names no
\* wallet is no duplicate.
HolderRows(chain, limit, rows) ==
    LET first == {n \in DOMAIN rows :
                    rows[n].id = "" \/ \A m \in 1..(n - 1) :
                                          HolderKey(chain, rows[m]) # HolderKey(chain, rows[n])}
        kept == {n \in first : Cardinality({m \in first : m < n}) < Max({1, limit})}
        order == InOrder(kept, [n \in kept |-> n])
    IN  [n \in DOMAIN order |-> rows[order[n]]]

GetTokenHolders(q, r) ==
    BridgeRead("intelligence", ~FomoSymbolKnown(q.chain, q.address),
               FirstError(BridgeGetError(r.code), Expect(IdentityMatches(q.chain, q.address, r.echo))),
               Shown("holders", q, {r.echo}, HolderRows(q.chain, q.limit, r.rows)))

GetTokenAbout(q, r) ==
    BridgeRead("intelligence", ~FomoSymbolKnown(q.chain, q.address),
               FirstError(BridgeGetError(r.code),
                          Expect(IdentityEchoesMatch(q.chain, q.address, {r.echo, r.row}))),
               Shown("about", q, {r.echo, r.row}, << >>))

GetTokenActivity(q, r) ==
    BridgeRead("intelligence", ~FomoSymbolKnown(q.chain, q.address),
               FirstError(BridgeGetError(r.code), Expect(IdentityMatches(q.chain, q.address, r.echo))),
               Shown("activity", q, {r.echo}, SubSeq(r.rows, 1, Min({q.limit, Len(r.rows)}))))

FomoReadNext ==
    \E q \in TokenQueries, r \in BridgeAnswers :
        \/ GetChart(q, r)
        \/ GetTrending(q.category, r)
        \/ GetToken(q, r)
        \/ GetTokenHolders(q, r)
        \/ GetTokenAbout(q, r)
        \/ GetTokenActivity(q, r)

(***************************************************************************)
(* Targets.                                                                *)
(***************************************************************************)
\* insert with the eviction of an arbitrary other entry at the limit.
Inserted(map, k, value) ==
    LET full == Cardinality(DOMAIN map) >= MaxTargets /\ k \notin DOMAIN map
        with(drop) == [x \in (DOMAIN map \ drop) \cup {k} |-> IF x = k THEN value ELSE map[x]]
    IN  IF full THEN {with({e}) : e \in DOMAIN map} ELSE {with({})}

SetRealtimeTarget(k, t) ==
    /\ IF ValidatedTarget(t) THEN picked' \in Inserted(picked, k, t) ELSE UNCHANGED picked
    /\ UNCHANGED <<emitted, laneHub, laneClient, laneSessions, pulls, newest, charts, fomoHealth,
                   answer>>

ResolveTarget(k) == IF k \in DOMAIN picked THEN picked[k] ELSE DefaultTarget

(***************************************************************************)
(* The push lane.                                                          *)
(***************************************************************************)
NoTrending == [generation |-> 0]

\* publish: a price replaces that of its address; at the limit the oldest goes.
LanePublish ==
    /\ laneClient.buffer # << >> /\ laneHub.generation < MaxLaneGeneration
    /\ LET e == Head(laneClient.buffer)
           g == laneHub.generation + 1
           key == <<e.network, e.address>>
           old == laneHub.prices
           evicted == IF key \notin DOMAIN old /\ Cardinality(DOMAIN old) >= MaxLanePrices
                      THEN {CHOOSE p \in DOMAIN old : \A q \in DOMAIN old : old[p].at <= old[q].at}
                      ELSE {}
           prices == [p \in (DOMAIN old \ evicted) \cup {key} |->
                        IF p = key THEN [generation |-> g, at |-> e.at] ELSE old[p]]
       IN  laneHub' = IF e.kind = "trending"
                      THEN [laneHub EXCEPT !.generation = g, !.live = TRUE,
                                           !.trending = [generation |-> g]]
                      ELSE [laneHub EXCEPT !.generation = g, !.live = TRUE, !.prices = prices]
    /\ laneClient' = [laneClient EXCEPT !.buffer = Tail(@)]
    /\ UNCHANGED <<picked, emitted, laneSessions, pulls, newest, charts, fomoHealth, answer>>

MarkStale == [laneHub EXCEPT !.live = FALSE, !.generation = @ + 1]

\* fetch_batch: only a batch labelled as websocket and promoted is taken; malformed events are
\* dropped and the cursor moves past them.
WsProvenanceVerified(source) == source = "websocket_promoted"

IntoLaneEvent(e) == e.kind = "trending" \/ ValidAddress(e.address)

LaneFetch(source, n) ==
    /\ laneClient.buffer = << >>
    /\ laneClient.cursor + n <= Len(LaneLog)
    /\ LET batch == SubSeq(LaneLog, laneClient.cursor + 1, laneClient.cursor + n)
           taken == SelectSeq(batch, IntoLaneEvent)
       IN  IF WsProvenanceVerified(source)
           THEN /\ laneClient' = [cursor |-> laneClient.cursor + n, buffer |-> taken, live |-> TRUE]
                /\ UNCHANGED laneHub
           ELSE /\ laneHub.generation < MaxLaneGeneration
                /\ laneClient' = [laneClient EXCEPT !.live = FALSE]
                /\ laneHub' = MarkStale
    /\ UNCHANGED <<picked, emitted, laneSessions, pulls, newest, charts, fomoHealth, answer>>

\* next_event fails, or brings nothing for the freshness bound.
LaneSilent(failed) ==
    /\ laneClient.buffer = << >> /\ laneHub.generation < MaxLaneGeneration
    /\ laneHub.live \/ failed # laneClient.live
    /\ laneHub' = MarkStale
    /\ laneClient' = IF failed THEN [laneClient EXCEPT !.live = FALSE] ELSE laneClient
    /\ UNCHANGED <<picked, emitted, laneSessions, pulls, newest, charts, fomoHealth, answer>>

LaneNext ==
    \/ LanePublish
    \/ \E source \in {"websocket_promoted", "websocket", "polling"}, n \in 1..2 : LaneFetch(source, n)
    \/ \E failed \in BOOLEAN : LaneSilent(failed)

(***************************************************************************)
(* The stream source.                                                      *)
(***************************************************************************)
NoChart == [target |-> "none", kind |-> "none", about |-> "none"]
IdlePull == [pc |-> "idle", target |-> DefaultTarget, switched |-> FALSE, failures |-> 0]
NewLaneSession == [provenance |-> "none", trending |-> 0, price |-> 0, pending |-> << >>]

LaneSessionOf(k) == IF k \in DOMAIN laneSessions THEN laneSessions[k] ELSE NewLaneSession

SnapshotFrame(t) == [kind |-> "snapshot", target |-> t]
DeltaFrame(t) == [kind |-> "delta", target |-> t]
PriceFrame(t) == [kind |-> "price", target |-> t]
StatusFrame(label) == [kind |-> label, target |-> DefaultTarget]
TrendingFrame == [kind |-> "trending", target |-> DefaultTarget]

\* What the client makes of a frame: a snapshot replaces the chart.
ShownAfter(chart, frame) ==
    [target |-> IF frame.kind = "snapshot" THEN frame.target ELSE chart.target,
     kind |-> frame.kind,
     about |-> IF frame.kind \in {"snapshot", "delta", "price"} THEN frame.target ELSE "none"]

\* The driver's emit: a superseded connection ends instead.
Deliver(d, frame, then) ==
    LET current == newest[StreamOwner[d]] = d
    IN  /\ charts' = IF current THEN [charts EXCEPT ![d] = ShownAfter(@, frame)] ELSE charts
        /\ pulls' = [pulls EXCEPT ![d] = IF current THEN [IdlePull EXCEPT !.pc = then]
                                                    ELSE [IdlePull EXCEPT !.pc = "done"]]

EndStream(d) == pulls' = [pulls EXCEPT ![d] = [IdlePull EXCEPT !.pc = "done"]] /\ UNCHANGED charts

\* register, and snapshot_for up to its fetch: the lane's bookkeeping starts over.
OpenSnapshot(d) ==
    LET k == StreamOwner[d]
    IN  /\ laneSessions' = [x \in DOMAIN laneSessions \ {k} |-> laneSessions[x]]
        /\ pulls' = [pulls EXCEPT ![d] = [IdlePull EXCEPT !.pc = "snapshot",
                                                          !.target = ResolveTarget(k)]]

Running(d) == pulls[d].pc \notin {"idle", "done"}

StreamConnect(d) ==
    LET k == StreamOwner[d] IN
    /\ ~Running(d)
    /\ Overlap \/ \A e \in FomoStreams : StreamOwner[e] = k => ~Running(e)
    /\ newest' = [newest EXCEPT ![k] = d]
    /\ OpenSnapshot(d)
    /\ charts' = [charts EXCEPT ![d] = NoChart]
    /\ UNCHANGED <<picked, emitted, laneHub, laneClient, fomoHealth, answer>>

\* A resync notification cancels next_delta_for at an await.
StreamResync(d) ==
    /\ pulls[d].pc \in {"poll", "fetch"}
    /\ OpenSnapshot(d)
    /\ UNCHANGED <<picked, emitted, laneHub, laneClient, newest, charts, fomoHealth, answer>>

\* The client goes away; the driver notices at its next await.
StreamDrop(d) ==
    /\ Running(d)
    /\ EndStream(d)
    /\ UNCHANGED <<picked, emitted, laneHub, laneClient, laneSessions, newest, fomoHealth, answer>>

SnapshotFetched(d, got) ==
    LET k == StreamOwner[d] IN
    /\ pulls[d].pc = "snapshot"
    /\ fomoHealth' = [fomoHealth EXCEPT !.stream = got # "failed"]
    /\ IF got = "some"
       THEN /\ emitted' \in Inserted(emitted, k, pulls[d].target)
            /\ Deliver(d, SnapshotFrame(pulls[d].target), "loop")
       ELSE EndStream(d) /\ UNCHANGED emitted
    /\ UNCHANGED <<picked, laneHub, laneClient, laneSessions, newest, answer>>

LanePriceMatches(t, key) ==
    key[1] = FomoNetworkId(t.chain) /\ AddressEquals(t.chain, key[2], t.address)

\* A target that is not the one charted last; the fault looks only at the token.
SwitchedToken(k, t) == k \notin DOMAIN emitted \/ emitted[k].address # t.address
Switched(k, t) == k \notin DOMAIN emitted \/ emitted[k] # t

\* The frames the lane has for a session, and its bookkeeping once they are queued; p is the
\* address whose price is found, or "none".
LaneFrames(k, t, p) ==
    LET s == LaneSessionOf(k)
        fresh == laneHub.live /\ ~Switched(k, t)
        trending == fresh /\ laneHub.trending.generation \notin {0, s.trending}
        price == fresh /\ p # << >> /\ laneHub.prices[p].generation # s.price
        label == IF laneHub.live THEN "ws" ELSE "polling"
    IN  [frames |-> (IF trending THEN <<TrendingFrame>> ELSE << >>)
                    \o (IF price THEN <<PriceFrame(t)>> ELSE << >>)
                    \o (IF s.provenance # label THEN <<StatusFrame(label)>> ELSE << >>),
         session |-> [provenance |-> label,
                      trending |-> IF trending THEN laneHub.trending.generation ELSE s.trending,
                      price |-> IF price THEN laneHub.prices[p].generation
                                ELSE IF laneHub.live /\ Switched(k, t) THEN 0 ELSE s.price,
                      pending |-> << >>],
         touched |-> trending \/ price \/ s.provenance # label
                     \/ (laneHub.live /\ Switched(k, t))]

\* next_delta_for up to its sleep: queued frames first, then what the lane has.
PullLane(d) ==
    LET k == StreamOwner[d]
        t == ResolveTarget(k)
        queued == LaneSessionOf(k).pending
        found == {p \in DOMAIN laneHub.prices : LanePriceMatches(t, p)}
    IN  /\ pulls[d].pc = "loop"
        /\ IF queued # << >>
           THEN /\ laneSessions' = [laneSessions EXCEPT ![k].pending = Tail(@)]
                /\ Deliver(d, Head(queued), "loop")
           ELSE \E p \in IF found = {} THEN {<< >>} ELSE found :
                LET lane == LaneFrames(k, t, p)
                    s == IF lane.frames = << >> THEN lane.session
                         ELSE [lane.session EXCEPT !.pending = Tail(lane.frames)]
                IN  /\ IF lane.touched THEN laneSessions' \in Inserted(laneSessions, k, s)
                                       ELSE UNCHANGED laneSessions
                    /\ IF lane.frames # << >> THEN Deliver(d, Head(lane.frames), "loop")
                       ELSE pulls' = [pulls EXCEPT ![d].pc = "poll"] /\ UNCHANGED charts
        /\ UNCHANGED <<picked, emitted, laneHub, laneClient, newest, fomoHealth, answer>>

\* After the sleep the target is resolved again, and compared before the fetch.
PullResolve(d) ==
    LET k == StreamOwner[d] IN
    /\ pulls[d].pc = "poll"
    /\ pulls' = [pulls EXCEPT ![d].pc = "fetch", ![d].target = ResolveTarget(k),
                              ![d].switched = Switched(k, ResolveTarget(k))]
    /\ UNCHANGED <<picked, emitted, laneHub, laneClient, laneSessions, newest, charts, fomoHealth,
                   answer>>

\* A failed poll: the count of failures is of this call, which ends when there is a status to
\* send.
PullFailed(d) ==
    LET k == StreamOwner[d]
        s == LaneSessionOf(k)
        failures == pulls[d].failures + 1
        queue == Append(s.pending, StatusFrame("unavailable"))
    IN  IF failures >= MaxStreamFailures
        THEN /\ fomoHealth' = [fomoHealth EXCEPT !.stream = FALSE]
             /\ EndStream(d) /\ UNCHANGED laneSessions
        ELSE /\ UNCHANGED fomoHealth
             /\ IF s.provenance # "unavailable"
                THEN /\ laneSessions' \in Inserted(laneSessions, k,
                            [s EXCEPT !.provenance = "unavailable", !.pending = Tail(queue)])
                     /\ Deliver(d, Head(queue), "loop")
                ELSE /\ pulls' = [pulls EXCEPT ![d].pc = "loop", ![d].failures = failures]
                     /\ UNCHANGED <<laneSessions, charts>>

PullFetched(d, got) ==
    LET k == StreamOwner[d]
        s == LaneSessionOf(k)
        t == pulls[d].target
    IN  /\ pulls[d].pc = "fetch"
        /\ IF got = "failed" THEN PullFailed(d) /\ UNCHANGED emitted
           ELSE /\ fomoHealth' = [fomoHealth EXCEPT !.stream = TRUE]
                /\ IF s.provenance = "unavailable"
                   THEN laneSessions' \in Inserted(laneSessions, k,
                            [s EXCEPT !.provenance = "polling",
                                      !.pending = Append(@, StatusFrame("polling"))])
                   ELSE UNCHANGED laneSessions
                /\ IF got = "empty"
                   THEN pulls' = [pulls EXCEPT ![d].pc = "loop", ![d].failures = 0]
                        /\ UNCHANGED <<emitted, charts>>
                   ELSE IF pulls[d].switched
                   THEN emitted' \in Inserted(emitted, k, t) /\ Deliver(d, SnapshotFrame(t), "loop")
                   ELSE UNCHANGED emitted /\ Deliver(d, DeltaFrame(t), "loop")
        /\ UNCHANGED <<picked, laneHub, laneClient, newest, answer>>

NoAnswer == [op |-> "none", chain |-> "none", address |-> [id |-> "", upper |-> FALSE], from |-> {}, rows |-> << >>]

FomoInit ==
    /\ picked = << >> /\ emitted = << >> /\ laneSessions = << >>
    /\ laneHub = [generation |-> 0, live |-> FALSE, trending |-> NoTrending, prices |-> << >>]
    /\ laneClient = [cursor |-> 0, buffer |-> << >>, live |-> FALSE]
    /\ pulls = [d \in FomoStreams |-> IdlePull]
    /\ newest = [k \in FomoKids |-> "none"]
    /\ charts = [d \in FomoStreams |-> NoChart]
    /\ fomoHealth = [history |-> TRUE, market |-> TRUE, intelligence |-> TRUE, stream |-> TRUE]
    /\ answer = NoAnswer

StreamPulls(d) ==
    \/ \E got \in {"some", "empty", "failed"} : SnapshotFetched(d, got) \/ PullFetched(d, got)
    \/ PullLane(d)
    \/ PullResolve(d)

FomoStreamNext ==
    \/ \E k \in FomoKids, t \in TargetRequests : SetRealtimeTarget(k, t)
    \/ LaneNext
    \/ \E d \in FomoStreams : StreamConnect(d) \/ StreamResync(d) \/ StreamDrop(d) \/ StreamPulls(d)

FomoSpec == FomoInit /\ [][FomoReadNext \/ FomoStreamNext]_fomoVars

(***************************************************************************)
(* Properties.                                                             *)
(***************************************************************************)
\* A client that follows one connection at a time (FomoSessionStreamSource): every bar and every
\* pushed price it is sent belongs to the chart it was last given, so token B never extends the
\* series of token A.
FramesFitTheChart ==
    \A d \in FomoStreams :
        charts[d].kind \in {"delta", "price"} => charts[d].about = charts[d].target

\* What is rendered under a token's identity was reported of that token (returned_identity_matches,
\* identity_echoes_match, exact_search_row), with every wallet once (holders_json), and a chart is
\* a valid series in order of time (normalize_bars).  Addresses that differ in case alone are one
\* only on the networks known to be EVM.
AnswersAreTheTokens ==
    LET folded == FomoNetworkId(answer.chain) \in {"base", "ethereum", "bnb_chain"}
        same(x, y) == x = y \/ (folded /\ x.id = y.id)
        rows == answer.rows
    IN  /\ \A e \in answer.from : /\ e.network = FomoNetworkId(answer.chain)
                                  /\ same(e.address, answer.address)
        /\ answer.op = "holders" =>
              \A i, j \in DOMAIN rows : i # j /\ rows[i].id # "" => ~same(rows[i], rows[j])
        /\ answer.op = "chart" =>
              \A i, j \in DOMAIN rows : rows[i].ok /\ (i < j => rows[i].t < rows[j].t)

\* What is shown under a token is about that token: every frame fits the chart the client was last
\* given, and every rendered read was reported of the token asked for.
TokensAreNotMixedUp == FramesFitTheChart /\ AnswersAreTheTokens
=============================================================================
