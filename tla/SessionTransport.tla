--------------------------- MODULE SessionTransport ---------------------------
(***************************************************************************)
(* The encrypted session of crates/session-transport as operators: which   *)
(* operation belongs to which route, the sliding replay window, the server *)
(* session and the registry of sessions.  An envelope that does not        *)
(* authenticate never reaches these operators (the cipher is external), so *)
(* an envelope is the authenticated triple of key id, sequence and         *)
(* operation.  Clients number every purpose from 0 on its own.             *)
(***************************************************************************)
EXTENDS Integers, FiniteSets

CONSTANTS
    Kids,          \* key ids, one for each artifact handoff
    Owners,        \* authenticated workspace sessions
    ReplayWidth,   \* REPLAY_WINDOW, 64 in the code
    SessionTtl     \* session_ttl_ms

ASSUME TransportAssumption == /\ ReplayWidth \in Nat \ {0}
                              /\ SessionTtl \in Nat \ {0}

Purposes == {"Bootstrap", "Sync", "Command", "Stream"}

\* The operations that matter to the routes: the three control operations, and
\* one command that reads and one that commits capital.
RouteControlOps == {"bootstrap", "sync", "subscribe"}

MutatingOps == {"execute_market_order"}

Ops == RouteControlOps \cup {"get_portfolio"} \cup MutatingOps

\* The counter the client numbers an operation with, and the route it uses.
PurposeOf(op) ==
    CASE op = "bootstrap" -> "Bootstrap"
      [] op = "sync"      -> "Sync"
      [] op = "subscribe" -> "Stream"
      [] OTHER            -> "Command"

\* Fault: the command route leaves control operations to the dispatcher.
RouteAcceptsAnyCommand(purpose, op) ==
    \/ purpose = "Command"
    \/ PurposeOf(op) = purpose

\* verify_route_op and, on the stream, StreamControlRequest::parse.
RouteAccepts(purpose, op) ==
    CASE purpose = "Bootstrap" -> op = "bootstrap"
      [] purpose = "Sync"      -> op = "sync"
      [] purpose = "Stream"    -> op = "subscribe"
      [] purpose = "Command"   -> op \notin RouteControlOps

-----------------------------------------------------------------------------
(* The replay window: the highest sequence accepted, and how far below it   *)
(* the sequences lie whose bit is set.                                      *)

NoSequence == -1

NewWindow == [highest |-> NoSequence, bitmap |-> {}]

Shifted(bitmap, delta) == {b + delta : b \in {a \in bitmap : a + delta < ReplayWidth}}

\* Neither StaleSequence nor ReplayDetected.
Accepts(window, sequence) ==
    \/ window.highest = NoSequence
    \/ sequence > window.highest
    \/ /\ window.highest - sequence < ReplayWidth
       /\ window.highest - sequence \notin window.bitmap

\* Fault: a higher sequence starts an empty bitmap, whatever the distance.
AfterAcceptForgets(window, sequence) ==
    IF window.highest = NoSequence \/ sequence > window.highest
    THEN [highest |-> sequence, bitmap |-> {0}]
    ELSE [window EXCEPT !.bitmap = @ \cup {window.highest - sequence}]

AfterAccept(window, sequence) ==
    CASE window.highest = NoSequence ->
            [highest |-> sequence, bitmap |-> {0}]
      [] window.highest # NoSequence /\ sequence > window.highest ->
            [highest |-> sequence,
             bitmap  |-> {0} \cup Shifted(window.bitmap, sequence - window.highest)]
      [] OTHER ->
            [window EXCEPT !.bitmap = @ \cup {window.highest - sequence}]

-----------------------------------------------------------------------------
(* A server session and the registry.                                       *)

NoOwner == "unowned"

Absent == [live |-> FALSE, owner |-> NoOwner, expires_at_ms |-> 0,
           replay |-> [p \in Purposes |-> NewWindow],
           stream_sequence |-> 0, max_server_time_ms |-> 0]

\* ServerSession::new_owned.
NewOwned(owner, now) ==
    [Absent EXCEPT !.live = TRUE, !.owner = owner, !.expires_at_ms = now + SessionTtl]

IsExpired(session, now) == now >= session.expires_at_ms

Prune(registry, now) ==
    [k \in Kids |-> IF IsExpired(registry[k], now) THEN Absent ELSE registry[k]]

RetireOwner(registry, owner) ==
    [k \in Kids |-> IF registry[k].owner = owner THEN Absent ELSE registry[k]]

\* ServerSession::accept_sequence.
AcceptSequence(session, sequence, purpose) ==
    [session EXCEPT !.replay[purpose] = AfterAccept(@, sequence)]

\* seal_stream_frame refuses a frame whose clock runs backwards.
SealsFrame(session, now) == now >= session.max_server_time_ms

AfterSeal(session, now) ==
    [session EXCEPT !.stream_sequence = @ + 1, !.max_server_time_ms = now]
=============================================================================
