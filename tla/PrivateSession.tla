---------------------------- MODULE PrivateSession ----------------------------
(***************************************************************************)
(* The opaque relay and the realtime stream of apps/private-api over one   *)
(* registry of encrypted sessions.  An envelope stays on the wire once     *)
(* sent: the network may deliver it late, twice, never, or to another      *)
(* route.  A relay call releases the registry lock while the dispatcher    *)
(* runs, and a stream connection holds no lock between its steps, so a     *)
(* handoff, an expiry or a reconnect may come in between.                  *)
(***************************************************************************)
EXTENDS SessionTransport

CONSTANTS
    RelayCalls,      \* concurrent relay_envelope futures
    Connections,     \* stream connections, each used once
    PermittedOps,    \* operations the advertised capability set permits
    MaxEnvelopes,    \* bound: envelopes the clients send
    MaxFrames,       \* bound: frames sealed under one key id
    MaxRelayTime,    \* bound: last instant of the clock
    MaxSubscribers   \* bound: connections that ever subscribe

ASSUME SessionAssumption == MaxEnvelopes \in Nat /\ MaxSubscribers \in Nat

VARIABLES
    relayNow,        \* the clock
    registry,        \* registry[k]: the server session of key id k
    issued,          \* key ids handed off so far
    wire,            \* envelopes sent
    writesAllowed,   \* trading_enabled and no kill switch, as advertised
    calls,           \* calls[c]: the state of relay_envelope
    executed,        \* executed[e]: how often envelope e reached the dispatcher
    hub,             \* hub[k]: the StreamHub slot of k
    permits,         \* permits[n]: Notify n holds a permit
    conns            \* conns[d]: the state of run_subscription

relayVars == <<registry, issued, wire, writesAllowed, calls, executed>>
streamVars == <<hub, permits, conns>>
sessionVars == <<relayNow, relayVars, streamVars>>

Sequences0 == 0 .. MaxEnvelopes
Envelopes == [kid : Kids, sequence : Sequences0, op : Ops]

NoResync == -1
NoEnvelope == [kid |-> "none", sequence |-> 0, op |-> "none"]

IdleCall == [pc |-> "idle", env |-> NoEnvelope]

NoSlot == [live |-> FALSE, generation |-> 0, resync |-> NoResync, notify |-> 0]

IdleConn == [pc |-> "idle", kid |-> "none", generation |-> 0, notify |-> 0,
             woken |-> FALSE, then |-> "loop", now |-> 0]

SessionInit ==
    /\ relayNow = 0
    /\ registry = [k \in Kids |-> Absent]
    /\ issued = {}
    /\ wire = {}
    /\ writesAllowed = TRUE
    /\ calls = [c \in RelayCalls |-> IdleCall]
    /\ executed = [e \in Envelopes |-> 0]
    /\ hub = [k \in Kids |-> NoSlot]
    /\ permits = [n \in 1 .. MaxSubscribers |-> FALSE]
    /\ conns = [d \in Connections |-> IdleConn]

-----------------------------------------------------------------------------
(* The environment: clients, the clock and the kill switch.                 *)

\* The registry half of deliver_artifact: every older epoch of the owner is
\* retired under the same lock that installs the fresh key id.
Handoff(k, owner) ==
    /\ k \notin issued
    /\ issued' = issued \cup {k}
    /\ registry' = [RetireOwner(Prune(registry, relayNow), owner)
                       EXCEPT ![k] = NewOwned(owner, relayNow)]
    /\ UNCHANGED <<relayNow, wire, writesAllowed, calls, executed, streamVars>>

NextSequence(k, purpose) ==
    Cardinality({e \in wire : e.kid = k /\ PurposeOf(e.op) = purpose})

ClientSeals(k, op) ==
    /\ k \in issued
    /\ Cardinality(wire) < MaxEnvelopes
    /\ wire' = wire \cup {[kid |-> k, op |-> op,
                           sequence |-> NextSequence(k, PurposeOf(op))]}
    /\ UNCHANGED <<relayNow, registry, issued, writesAllowed, calls, executed, streamVars>>

SessionTick ==
    /\ relayNow < MaxRelayTime
    /\ relayNow' = relayNow + 1
    /\ UNCHANGED <<relayVars, streamVars>>

KillSwitch ==
    /\ writesAllowed' = ~writesAllowed
    /\ UNCHANGED <<relayNow, registry, issued, wire, calls, executed, streamVars>>

-----------------------------------------------------------------------------
(* relay_envelope.                                                          *)

Opens(e, purpose) ==
    LET session == Prune(registry, relayNow)[e.kid]
    IN /\ session.live
       /\ RouteAccepts(purpose, e.op)
       /\ Accepts(session.replay[purpose], e.sequence)

\* The registry once an envelope has been looked at on a route.
AfterOpen(e, purpose) ==
    LET pruned == Prune(registry, relayNow)
    IN IF Opens(e, purpose)
       THEN [pruned EXCEPT ![e.kid] = AcceptSequence(@, e.sequence, purpose)]
       ELSE pruned

\* The network delivers an envelope to a unary route, its own or another.
RelayOpen(c, e, purpose) ==
    /\ calls[c].pc = "idle"
    /\ registry' = AfterOpen(e, purpose)
    /\ calls' = IF Opens(e, purpose)
                THEN [calls EXCEPT ![c] = [pc |-> "opened", env |-> e]]
                ELSE calls
    /\ UNCHANGED <<relayNow, issued, wire, writesAllowed, executed, streamVars>>

\* Connections blocked in select on Notify n.
Waiters(n) == {d \in Connections : /\ conns[d].pc = "select"
                                   /\ conns[d].notify = n
                                   /\ ~conns[d].woken}

\* Fault: notify_waiters, which wakes who waits and stores nothing.
NotifyWaiters(n, cs) ==
    /\ conns' = [d \in Connections |->
                    IF d \in Waiters(n) /\ cs[d].pc = "select"
                    THEN [cs[d] EXCEPT !.woken = TRUE] ELSE cs[d]]
    /\ UNCHANGED permits

\* tokio's notify_one: it wakes one waiter, or stores a permit.
NotifyOne(n, cs) ==
    LET waiting == Waiters(n) \ {d \in Connections : cs[d].pc # "select"}
    IN IF waiting = {}
       THEN permits' = [permits EXCEPT ![n] = TRUE] /\ conns' = cs
       ELSE /\ \E d \in waiting : conns' = [cs EXCEPT ![d].woken = TRUE]
            /\ UNCHANGED permits

\* A sync request asks the active stream connection for a fresh snapshot.
RequestResync(c) ==
    LET k == calls[c].env.kid
    IN /\ calls[c].pc = "opened"
       /\ calls[c].env.op = "sync"
       /\ calls' = [calls EXCEPT ![c].pc = "answered"]
       /\ IF hub[k].live
          THEN /\ hub' = [hub EXCEPT ![k].resync = calls[c].env.sequence]
               /\ NotifyOne(hub[k].notify, conns)
          ELSE UNCHANGED <<hub, permits, conns>>
       /\ UNCHANGED <<relayNow, registry, issued, wire, writesAllowed, executed>>

\* The advertised gates, read when the command is dispatched.
Dispatches(op) ==
    /\ op \in MutatingOps => writesAllowed
    /\ op \in PermittedOps

\* build_response for the bootstrap and command routes: the document, a denial,
\* or the dispatcher's own answer.
BuildResponse(c) ==
    /\ calls[c].pc = "opened"
    /\ calls[c].env.op # "sync"
    /\ calls' = [calls EXCEPT ![c].pc = "answered"]
    /\ executed' = IF calls[c].env.op # "bootstrap" /\ Dispatches(calls[c].env.op)
                   THEN [executed EXCEPT ![calls[c].env] = @ + 1]
                   ELSE executed
    /\ UNCHANGED <<relayNow, registry, issued, wire, writesAllowed, streamVars>>

\* The answer is sealed if the session is still registered, and lost otherwise.
SealResponse(c) ==
    /\ calls[c].pc = "answered"
    /\ calls' = [calls EXCEPT ![c] = IdleCall]
    /\ UNCHANGED <<relayNow, registry, issued, wire, writesAllowed, executed, streamVars>>

-----------------------------------------------------------------------------
(* run_subscription and StreamDriver::run.                                  *)

Subscribed == {d \in Connections : conns[d].pc # "idle"}

\* The first frame of a connection authenticates and takes its sequence.
Subscribe(d, e) ==
    /\ conns[d].pc = "idle"
    /\ Cardinality(Subscribed) < MaxSubscribers
    /\ registry' = AfterOpen(e, "Stream")
    /\ conns' = IF Opens(e, "Stream")
                THEN [conns EXCEPT ![d].pc = "accepted", ![d].kid = e.kid]
                ELSE conns
    /\ UNCHANGED <<relayNow, issued, wire, writesAllowed, calls, executed, hub, permits>>

FreshNotify == 1 + Cardinality({d \in Connections : conns[d].notify # 0})

\* StreamHub::register: a reconnect shares the slot's Notify, and a slot that
\* was released starts again at generation one.
Register(d) ==
    LET k    == conns[d].kid
        slot == [live       |-> TRUE,
                 generation |-> hub[k].generation + 1,
                 resync     |-> NoResync,
                 notify     |-> IF hub[k].live THEN hub[k].notify ELSE FreshNotify]
    IN /\ conns[d].pc = "accepted"
       /\ hub' = [hub EXCEPT ![k] = slot]
       /\ conns' = [conns EXCEPT ![d].pc = "snapshot",
                                 ![d].generation = slot.generation,
                                 ![d].notify = slot.notify]
       /\ UNCHANGED <<relayNow, relayVars, permits>>

\* emit_snapshot: the source answers, or one error frame ends the stream.
Snapshot(d) ==
    /\ conns[d].pc = "snapshot"
    /\ \E next \in {"loop", "stop"} :
          conns' = [conns EXCEPT ![d].pc = "emit", ![d].then = next]
    /\ UNCHANGED <<relayNow, relayVars, hub, permits>>

IsCurrent(d) ==
    LET slot == hub[conns[d].kid]
    IN slot.live /\ slot.generation = conns[d].generation

\* The first half of emit; the hub lock is released, and the clock read, before
\* the frame is sealed.
CheckCurrent(d) ==
    /\ conns[d].pc = "emit"
    /\ conns' = [conns EXCEPT ![d].pc = IF IsCurrent(d) THEN "seal" ELSE "stop",
                              ![d].now = relayNow]
    /\ UNCHANGED <<relayNow, relayVars, hub, permits>>

\* The second half: an expired session is removed, a clock that ran backwards
\* or a sink that is full or gone stops the stream.
SealFrame(d) ==
    LET k     == conns[d].kid
        now   == conns[d].now
        live  == registry[k].live /\ ~IsExpired(registry[k], now)
        seals == live /\ SealsFrame(registry[k], now)
    IN /\ conns[d].pc = "seal"
       /\ registry[k].stream_sequence < MaxFrames
       /\ registry' = [registry EXCEPT
                          ![k] = IF seals THEN AfterSeal(@, now)
                                 ELSE IF live THEN @ ELSE Absent]
       /\ \E sent \in BOOLEAN :
             conns' = [conns EXCEPT ![d].pc = IF seals /\ sent THEN conns[d].then ELSE "stop",
                                    ![d].now = 0]
       /\ UNCHANGED <<relayNow, issued, wire, writesAllowed, calls, executed, hub, permits>>

\* take_resync: only the generation that is current may consume the request.
Takes(d) == IsCurrent(d) /\ hub[conns[d].kid].resync # NoResync

TakeResync(d) ==
    /\ conns[d].pc = "loop"
    /\ IF Takes(d)
       THEN /\ hub' = [hub EXCEPT ![conns[d].kid].resync = NoResync]
            /\ conns' = [conns EXCEPT ![d].pc = "snapshot"]
       ELSE /\ conns' = [conns EXCEPT ![d].pc = "checked"]
            /\ UNCHANGED hub
    /\ UNCHANGED <<relayNow, relayVars, permits>>

\* Only the first poll of select registers the connection as a waiter: a resync
\* requested after the check above finds nobody to wake.
AwaitSelect(d) ==
    /\ conns[d].pc = "checked"
    /\ conns' = [conns EXCEPT ![d].pc = "select"]
    /\ UNCHANGED <<relayNow, relayVars, hub, permits>>

\* select's notified branch: a wake-up or a stored permit.
Notified(d) ==
    /\ conns[d].pc = "select"
    /\ conns[d].woken \/ permits[conns[d].notify]
    /\ conns' = [conns EXCEPT ![d].pc = "loop", ![d].woken = FALSE]
    /\ permits' = [permits EXCEPT ![conns[d].notify] = @ /\ conns[d].woken]
    /\ UNCHANGED <<relayNow, relayVars, hub>>

\* select's delta branch; a wake-up that is not consumed is passed on.  The
\* source has a frame, or it has ended.
NextDelta(d) ==
    /\ conns[d].pc = "select"
    /\ \E pc \in {"emit", "stop"} :
          LET cs == [conns EXCEPT ![d].pc = pc, ![d].then = "loop", ![d].woken = FALSE]
          IN IF conns[d].woken
             THEN NotifyOne(conns[d].notify, cs)
             ELSE conns' = cs /\ UNCHANGED permits
    /\ UNCHANGED <<relayNow, relayVars, hub>>

\* The connection ends: only the current generation frees the slot.
ReleaseSlot(d) ==
    /\ conns[d].pc = "stop"
    /\ hub' = IF IsCurrent(d) THEN [hub EXCEPT ![conns[d].kid] = NoSlot] ELSE hub
    /\ conns' = [conns EXCEPT ![d].pc = "closed"]
    /\ UNCHANGED <<relayNow, relayVars, permits>>

-----------------------------------------------------------------------------

RelayNext ==
    \/ \E k \in Kids, o \in Owners : Handoff(k, o)
    \/ SessionTick
    \/ KillSwitch
    \/ \E c \in RelayCalls, e \in wire, p \in Purposes \ {"Stream"} : RelayOpen(c, e, p)
    \/ \E c \in RelayCalls : RequestResync(c)
    \/ \E c \in RelayCalls : BuildResponse(c)
    \/ \E c \in RelayCalls : SealResponse(c)

StreamNext ==
    \/ \E d \in Connections, e \in wire : Subscribe(d, e)
    \/ \E d \in Connections : Register(d)
    \/ \E d \in Connections : Snapshot(d)
    \/ \E d \in Connections : CheckCurrent(d)
    \/ \E d \in Connections : SealFrame(d)
    \/ \E d \in Connections : TakeResync(d)
    \/ \E d \in Connections : AwaitSelect(d)
    \/ \E d \in Connections : Notified(d)
    \/ \E d \in Connections : NextDelta(d)
    \/ \E d \in Connections : ReleaseSlot(d)

SessionNext ==
    \/ RelayNext
    \/ StreamNext
    \/ \E k \in Kids, op \in Ops : ClientSeals(k, op)

SessionSpec == SessionInit /\ [][SessionNext]_sessionVars

-----------------------------------------------------------------------------

\* Exactly-once effects over an unreliable wire: however often and wherever an
\* envelope is delivered, the dispatcher sees it at most once, also after the
\* window has moved past it (session-transport lib.rs:311-341).
AtMostOnceDispatch == \A e \in wire : executed[e] <= 1

\* A captured envelope replayed on another route never costs the client a
\* sequence it has yet to use: an envelope that is newer than everything the
\* client sent before it on its own purpose is accepted on its own route
\* (opaque.rs:641-652, lib.rs:78-86).
HonestSequenceIsAccepted ==
    \A k \in Kids, p \in Purposes :
        registry[k].live => registry[k].replay[p].highest < NextSequence(k, p)

\* A resync is not lost on an idle source (stream.rs:297-301): while it is
\* pending for a connection that waits alone on the slot's Notify, the wake-up
\* is there to be taken.
ResyncWakesSoleConnection ==
    \A d \in Connections :
        LET slot == hub[conns[d].kid]
        IN (/\ conns[d].pc = "select"
            /\ IsCurrent(d)
            /\ slot.notify = conns[d].notify
            /\ slot.resync # NoResync
            /\ \A o \in Connections \ {d} : conns[o].notify # conns[d].notify)
               => conns[d].woken \/ permits[conns[d].notify]
=============================================================================
