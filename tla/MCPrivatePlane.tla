---------------------------- MODULE MCPrivatePlane ----------------------------
(***************************************************************************)
(* The private API for TLC: each behaviour exercises one face of it, named *)
(* by scope, so that the faces add up instead of multiplying: commands and *)
(* streams of sessions, access to the workspace, the recovery store, the   *)
(* market data of a target, and the bridge-backed reads and streams.       *)
(***************************************************************************)
EXTENDS PrivateSession, WorkspaceAccess, RecoveryStore, ConsumerBatch, FomoMarket

VARIABLE scope

feedVars == <<venue, mapperVars, batcherVars, poolVars>>

planeVars == <<scope, sessionVars, accessVars, recoveryVars, feedVars, fomoVars>>

TheKid == CHOOSE k \in Kids : TRUE
TheCall == CHOOSE c \in RelayCalls : TRUE

NoPool == [kind |-> "cpmm", r0 |-> 1, r1 |-> 1]

(***************************************************************************)
(* Tokens, what the bridge pushes and what it answers.                     *)
(***************************************************************************)
Spelled(id, upper) == [id |-> id, upper |-> upper]
TargetOf(chain, id, upper, frame) ==
    [chain |-> chain, address |-> Spelled(id, upper), frame |-> frame]

MCTargetRequests == {TargetOf("base", "x", FALSE, "1h"), TargetOf("base", "y", TRUE, "1m"),
                     TargetOf("moon", "x", FALSE, "1m")}
MCDefaultTarget == TargetOf("base", "x", FALSE, "1m")
MCStreamOwner == [d \in FomoStreams |-> "k1"]

Pushed(kind, id, at) ==
    [kind |-> kind, network |-> "base", address |-> Spelled(id, FALSE), at |-> at]

MCLaneLog == <<Pushed("price", "x", 1), Pushed("trending", "", 2), Pushed("price", "", 3),
               Pushed("price", "y", 4)>>

MCTokenQueries ==
    [chain : {"base", "solana", "robinhood_chain", "moon"}, address : {Spelled("x", TRUE), Spelled("x", FALSE)},
     limit : {3}, from : {0, 2}, to : {1}, category : {"trending", "odd"}]

Echoes == {NoEcho} \cup [network : {"base", "solana", "robinhood"},
                         address : {Spelled("x", TRUE), Spelled("x", FALSE), Spelled("y", FALSE)}]

BarAt(t, ok, v) == [t |-> t, ok |-> ok, v |-> v]
PolledWire == [provenance |-> "polling", promoted |-> FALSE,
               bars |-> <<BarAt(2, TRUE, 1), BarAt(1, TRUE, 1), BarAt(3, FALSE, 1), BarAt(2, TRUE, 2)>>,
               latest |-> <<BarAt(3, TRUE, 3)>>]

Wallets == <<Spelled("w", TRUE), Spelled("w", FALSE), Spelled("", FALSE), Spelled("", FALSE), Spelled("v", FALSE)>>

GoodAnswer == [code |-> 200, echo |-> NoEcho, row |-> NoEcho, found |-> << >>, complete |-> TRUE,
               rows |-> Wallets, wire |-> PolledWire]

MCBridgeAnswers ==
    {[GoodAnswer EXCEPT !.echo = e, !.row = r, !.found = <<r>>, !.complete = c] :
        e \in Echoes, r \in Echoes, c \in BOOLEAN}
    \cup {[GoodAnswer EXCEPT !.code = c] : c \in {404, 503}}
    \cup {[GoodAnswer EXCEPT !.wire = w] :
             w \in {[PolledWire EXCEPT !.promoted = TRUE], [PolledWire EXCEPT !.provenance = "websocket"],
                    [PolledWire EXCEPT !.bars = << >>]}}

(***************************************************************************)
(* The faces.                                                              *)
(***************************************************************************)
\* Commands over two key epochs, with duplicated and misrouted envelopes.
CommandNext ==
    \/ RelayNext
    \/ \E k \in Kids, op \in Ops \ {"sync"} : ClientSeals(k, op)

\* One session with reconnecting streams and a sync request.
ResyncNext ==
    \/ \E o \in Owners : Handoff(TheKid, o)
    \/ SessionTick
    \/ \E op \in {"sync", "subscribe"} : ClientSeals(TheKid, op)
    \/ \E e \in wire : RelayOpen(TheCall, e, "Sync")
    \/ RequestResync(TheCall)
    \/ SealResponse(TheCall)
    \/ StreamNext

Init ==
    /\ scope \in {"command", "stream", "access", "recovery", "mapper", "batcher", "pool", "reads",
                  "charts"}
    /\ SessionInit /\ AccessInit /\ RecoveryInit
    /\ identity => scope = "recovery"
    /\ VenueInit /\ MapperInit /\ BatcherInit /\ FomoInit
    /\ scope = "pool" \/ pool = <<NoPool>>
    /\ PoolInit

Runs(s) ==
    /\ scope = s /\ UNCHANGED scope
    /\ IF s \in {"command", "stream"} THEN TRUE ELSE UNCHANGED sessionVars
    /\ IF s = "access" THEN TRUE ELSE UNCHANGED accessVars
    /\ IF s = "recovery" THEN TRUE ELSE UNCHANGED recoveryVars
    /\ IF s \in {"mapper", "batcher"} THEN TRUE ELSE UNCHANGED venue
    /\ IF s = "mapper" THEN TRUE ELSE UNCHANGED mapperVars
    /\ IF s = "batcher" THEN TRUE ELSE UNCHANGED batcherVars
    /\ IF s = "pool" THEN TRUE ELSE UNCHANGED poolVars
    /\ IF s \in {"reads", "charts"} THEN TRUE ELSE UNCHANGED fomoVars

Next ==
    \/ scope = "command" /\ CommandNext /\ Runs("command")
    \/ scope = "stream" /\ ResyncNext /\ Runs("stream")
    \/ scope = "access" /\ AccessNext /\ Runs("access")
    \/ scope = "recovery" /\ RecoveryNext /\ Runs("recovery")
    \/ scope = "mapper" /\ MapperNext /\ Runs("mapper")
    \/ scope = "batcher" /\ BatcherNext /\ Runs("batcher")
    \/ scope = "pool" /\ PoolNext /\ Runs("pool")
    \/ scope = "reads" /\ answer = NoAnswer /\ FomoReadNext /\ Runs("reads")
    \/ scope = "charts" /\ FomoStreamNext /\ Runs("charts")

Spec == Init /\ [][Next]_planeVars
=============================================================================
