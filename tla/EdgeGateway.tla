------------------------------ MODULE EdgeGateway ------------------------------
(***************************************************************************)
(* The public edge (apps/edge-gateway): start-up from six settings that    *)
(* fail closed, the authorized opaque routes, the one mTLS channel that    *)
(* unary calls, streams and readiness probes share and re-dial, and the    *)
(* bounded bridge between a browser socket and a backend stream.           *)
(*                                                                         *)
(* A body or frame is its size; a channel is the number of its dial.       *)
(***************************************************************************)
EXTENDS Integers, Sequences, FiniteSets, ServiceStartup

CONSTANTS
  EdgeEnvs,      \* [cert, key, ca, dns, origin, header, bind, jwt]
  EdgeCalls,     \* concurrent requests
  EdgeSizes,     \* body and frame sizes
  MaxBody,       \* DEFAULT_MAX_OPAQUE_BODY_BYTES
  StreamQueue,   \* STREAM_QUEUE
  MaxDials,      \* bound on dials
  MaxStreamed    \* bound on frames each way

ASSUME EdgeAssumption ==
  EdgeSizes \subseteq Nat /\ MaxBody \in Nat /\ StreamQueue \in Nat

VARIABLES
  edge,     \* [phase, env]
  chan,     \* [cached, dials, stores, holder]
  ecalls,   \* [call -> its request]
  bridge    \* the stream: queues, tasks and what each end saw

edgeVars == <<edge, chan, ecalls, bridge>>

-----------------------------------------------------------------------------
(* Start-up.                                                               *)

\* resolve_edge_bind: a public bind is refused, with or without the switch.
BindAllowed(e) == e.bind = "loopback"

Settings(e) == {e.cert, e.key, e.ca, e.dns, e.origin, e.header}

\* resolve_config: nothing set is the closed default, anything less than all
\* six, non-blank, is an error.
ResolveConfig(e) ==
  IF Settings(e) = {"absent"} THEN "none"
  ELSE IF Settings(e) \cap {"absent", "blank", "notunicode"} # {} THEN "invalid"
  ELSE "some"

\* HeaderAssertionAuthorization::new: an assertion header, never a network one.
HeaderAllowed(e) == e.header \notin {"network", "unprefixed"}

\* PrivateRelay::new: https to the host the certificate is checked against.
RelayConfigured(e) == e.origin # "http" /\ e.origin = e.dns /\ e.cert # "unreadable"

\* main and router_from_env
EdgeStarts(e) ==
  IF ~BindAllowed(e) THEN "failed"
  ELSE CASE ResolveConfig(e) = "none" -> "closed"
         [] ResolveConfig(e) = "invalid" -> "failed"
         [] OTHER -> IF HeaderAllowed(e) /\ RelayConfigured(e) THEN "serving" ELSE "failed"

EdgeStart(e) ==
  /\ edge.phase = "off"
  /\ edge' = [phase |-> EdgeStarts(e), env |-> e]
  /\ UNCHANGED <<chan, ecalls, bridge>>

-----------------------------------------------------------------------------
(* Requests.                                                               *)

NoRequest == [step |-> "idle", kind |-> "none"]
Becomes(c, r) == ecalls' = [ecalls EXCEPT ![c] = r]

\* edge_response and the success answer: the call is over.
Answers(c, status) == Becomes(c, [ecalls[c] EXCEPT !.step = "answered", !.status = status])

\* authorize: the closed default has no backend; else a non-empty assertion.
AuthorizationError(assertion) ==
  IF edge.phase = "closed" THEN 503 ELSE IF assertion = "present" THEN 0 ELSE 401

\* protected, up to the relay: authorization, content type, body bound; and
\* the relay's own bounds.
ProtectedError(assertion, octets, size) ==
  IF AuthorizationError(assertion) # 0 THEN AuthorizationError(assertion)
  ELSE IF ~octets THEN 415
  ELSE IF size > MaxBody \/ size = 0 THEN 413
  ELSE 0

Request(c, kind, assertion, octets, size) ==
  LET error == IF kind = "stream" THEN AuthorizationError(assertion)
               ELSE ProtectedError(assertion, octets, size)
  IN  /\ edge.phase \in {"closed", "serving"} /\ ecalls[c].step = "idle"
      /\ kind = "stream" =>   \* one bridge is followed
           bridge.state = "none" /\ \A d \in EdgeCalls : ecalls[d].kind # "stream"
      /\ Becomes(c, [step |-> IF error = 0 THEN "channel" ELSE "answered", kind |-> kind,
                     assertion |-> assertion, size |-> size, since |-> chan.stores,
                     channel |-> 0, status |-> error])
      /\ UNCHANGED <<edge, chan, bridge>>

\* probe_private_api drops the cached channel first.
ProbeResets(cached) == 0

\* readiness, and the start of probe_private_api.
Readiness(c) ==
  /\ edge.phase \in {"closed", "serving"} /\ ecalls[c].step = "idle"
  /\ Becomes(c, [step |-> IF edge.phase = "closed" THEN "answered" ELSE "channel", kind |-> "probe",
                 assertion |-> "none", size |-> 0, since |-> chan.stores,
                 channel |-> 0, status |-> IF edge.phase = "closed" THEN 503 ELSE 0])
  /\ chan' = IF edge.phase = "closed" THEN chan ELSE [chan EXCEPT !.cached = ProbeResets(@)]
  /\ UNCHANGED <<edge, bridge>>

-----------------------------------------------------------------------------
(* The shared channel.                                                     *)

Uses(c, n) == Becomes(c, [ecalls[c] EXCEPT !.step = "using", !.channel = n])

\* channel, the fast path: a cached channel is taken; else wait to dial.
GetChannel(c) ==
  /\ ecalls[c].step = "channel"
  /\ IF chan.cached # 0 THEN Uses(c, chan.cached)
     ELSE Becomes(c, [ecalls[c] EXCEPT !.step = "waiting"])
  /\ UNCHANGED <<edge, chan, bridge>>

\* The dial lock is ours: look again, then dial.
DialLock(c) ==
  /\ ecalls[c].step = "waiting" /\ chan.holder = {}
  /\ IF chan.cached # 0 THEN Uses(c, chan.cached) /\ UNCHANGED chan
     ELSE /\ chan.dials < MaxDials
          /\ chan' = [chan EXCEPT !.holder = {c}, !.dials = @ + 1]
          /\ Becomes(c, [ecalls[c] EXCEPT !.step = "dialing", !.channel = chan.dials + 1])
  /\ UNCHANGED <<edge, bridge>>

\* connect ends, in a handshake or a failure (its timeout included).
Connected(c, ok) ==
  /\ ecalls[c].step = "dialing"
  /\ IF ok THEN Becomes(c, [ecalls[c] EXCEPT !.step = "storing"]) /\ UNCHANGED chan
     ELSE Answers(c, 503) /\ chan' = [chan EXCEPT !.holder = {}]
  /\ UNCHANGED <<edge, bridge>>

\* The new channel is cached under the write lock, and the dial lock released.
StoreChannel(c) ==
  /\ ecalls[c].step = "storing"
  /\ Uses(c, ecalls[c].channel)
  /\ chan' = [chan EXCEPT !.cached = ecalls[c].channel, !.holder = {}, !.stores = @ + 1]
  /\ UNCHANGED <<edge, bridge>>

\* PRIVATE_API_PROBE_TIMEOUT: the probe's future is dropped wherever it waits,
\* and the dial lock with it.
ProbeTimesOut(c) ==
  /\ ecalls[c].step \in {"channel", "waiting", "dialing", "storing"} /\ ecalls[c].kind = "probe"
  /\ Answers(c, 503)
  /\ chan' = [chan EXCEPT !.holder = @ \ {c}]
  /\ UNCHANGED <<edge, bridge>>

\* relay: an answer within bounds; a status keeps the channel, a timeout drops
\* it if the lock is free.
RelayAnswers(c, outcome, size, free) ==
  /\ ecalls[c].step = "using" /\ ecalls[c].kind = "relay"
  /\ Answers(c, CASE outcome = "ok" /\ size = 0 -> 503
                  [] outcome = "ok" /\ size > MaxBody -> 413
                  [] outcome = "ok" -> 200
                  [] OTHER -> 503)
  /\ chan' = IF outcome = "timeout" /\ free THEN [chan EXCEPT !.cached = 0] ELSE chan
  /\ UNCHANGED <<edge, bridge>>

ProbeAnswers(c) ==
  /\ ecalls[c].step = "using" /\ ecalls[c].kind = "probe"
  /\ Answers(c, 200)
  /\ UNCHANGED <<edge, chan, bridge>>

\* PrivateStreamRelay::open: a failed handshake drops the channel; a good one
\* spawns the two forwarding tasks.
StreamOpens(c, ok) ==
  /\ ecalls[c].step = "using" /\ ecalls[c].kind = "stream"
  /\ IF ok
     THEN /\ Answers(c, 101) /\ UNCHANGED chan
          /\ bridge' = [bridge EXCEPT !.state = "open", !.upTask = TRUE, !.downTask = TRUE]
     ELSE Answers(c, 503) /\ chan' = [chan EXCEPT !.cached = 0] /\ UNCHANGED bridge
  /\ UNCHANGED edge

CallEnds(c) ==
  /\ ecalls[c].step = "answered"
  /\ Becomes(c, NoRequest)
  /\ UNCHANGED <<edge, chan, bridge>>

-----------------------------------------------------------------------------
(* The bridge.  Frames are numbered as each end sends them.                *)

Frame(n, size) == [n |-> n, size |-> size]
Bridge(b) == bridge' = b /\ UNCHANGED <<edge, chan, ecalls>>

\* Mutant: a full queue drops the frame and keeps the socket.
SocketFrameDrops(b, f) ==
  IF f.size > MaxBody THEN [b EXCEPT !.state = "closed"]
  ELSE IF ~b.upTask \/ Len(b.toBackend) >= StreamQueue THEN b
  ELSE [b EXCEPT !.toBackend = Append(@, f)]

\* drive_stream, a binary frame from the browser: too large, or no room in the
\* queue, closes the socket.
SocketFrame(b, f) ==
  IF f.size > MaxBody \/ ~b.upTask \/ Len(b.toBackend) >= StreamQueue
  THEN [b EXCEPT !.state = "closed"]
  ELSE [b EXCEPT !.toBackend = Append(@, f)]

SocketSends(size) ==
  /\ bridge.state = "open" /\ bridge.sent < MaxStreamed
  /\ Bridge([SocketFrame(bridge, Frame(bridge.sent + 1, size)) EXCEPT !.sent = bridge.sent + 1])

\* A text frame, a close or an error from the browser.
SocketCloses == bridge.state = "open" /\ Bridge([bridge EXCEPT !.state = "closed"])

\* The upward task: forward when there is room; ends when the backend has gone,
\* or the socket has and the queue is empty.
UpTask ==
  /\ bridge.upTask
  /\ \/ /\ bridge.toBackend # <<>> /\ bridge.backend /\ Len(bridge.grpc) < StreamQueue
        /\ Bridge([bridge EXCEPT !.toBackend = Tail(@), !.grpc = Append(@, Head(bridge.toBackend))])
     \/ /\ bridge.toBackend # <<>> /\ ~bridge.backend
        /\ Bridge([bridge EXCEPT !.upTask = FALSE, !.toBackend = <<>>])
     \/ /\ bridge.toBackend = <<>> /\ bridge.state = "closed"
        /\ Bridge([bridge EXCEPT !.upTask = FALSE])

BackendTakes ==
  /\ bridge.backend /\ bridge.grpc # <<>>
  /\ Bridge([bridge EXCEPT !.grpc = Tail(@), !.got = Append(@, Head(bridge.grpc).n)])

\* The backend sends a frame; the downward task forwards it when there is
\* room, and ends on an empty or oversized one or when the socket has gone.
BackendSends(size) ==
  /\ bridge.backend /\ bridge.downTask /\ bridge.pushed < MaxStreamed
  /\ bridge.state = "closed" \/ size = 0 \/ size > MaxBody \/ Len(bridge.fromBackend) < StreamQueue
  /\ LET ends == bridge.state = "closed" \/ size = 0 \/ size > MaxBody
     IN  Bridge([bridge EXCEPT
           !.pushed = @ + 1, !.downTask = ~ends,
           !.fromBackend = IF ends THEN @ ELSE Append(@, Frame(bridge.pushed + 1, size))])

\* The backend ends the call, or its connection is lost.
BackendEnds ==
  /\ bridge.state # "none" /\ bridge.backend
  /\ Bridge([bridge EXCEPT !.backend = FALSE, !.downTask = FALSE, !.grpc = <<>>])

\* drive_stream, the outbound arm: a frame for the browser, or the close once
\* the queue is drained and its sender gone.
SocketTakes ==
  /\ bridge.state = "open"
  /\ \/ /\ bridge.fromBackend # <<>>
        /\ Bridge([bridge EXCEPT !.fromBackend = Tail(@), !.shown = Append(@, Head(bridge.fromBackend).n)])
     \/ /\ bridge.fromBackend = <<>> /\ ~bridge.downTask
        /\ Bridge([bridge EXCEPT !.state = "closed"])

-----------------------------------------------------------------------------
EdgeInit ==
  /\ edge = [phase |-> "off"]
  /\ chan = [cached |-> 0, dials |-> 0, stores |-> 0, holder |-> {}]
  /\ ecalls = [c \in EdgeCalls |-> NoRequest]
  /\ bridge = [state |-> "none", toBackend |-> <<>>, grpc |-> <<>>, fromBackend |-> <<>>,
               upTask |-> FALSE, downTask |-> FALSE, backend |-> TRUE,
               sent |-> 0, got |-> <<>>, pushed |-> 0, shown |-> <<>>]

EdgeCallNext ==
  \/ \E e \in EdgeEnvs : EdgeStart(e)
  \/ \E c \in EdgeCalls :
       \/ \E k \in {"relay", "stream"}, a \in {"present", "absent"}, o \in BOOLEAN, s \in EdgeSizes :
            Request(c, k, a, o, s)
       \/ Readiness(c) \/ GetChannel(c) \/ DialLock(c) \/ StoreChannel(c)
       \/ ProbeTimesOut(c) \/ ProbeAnswers(c) \/ CallEnds(c)
       \/ \E ok \in BOOLEAN : Connected(c, ok) \/ StreamOpens(c, ok)
       \/ \E o \in {"ok", "status", "timeout"}, s \in EdgeSizes, f \in BOOLEAN : RelayAnswers(c, o, s, f)

BridgeNext ==
  \/ \E s \in EdgeSizes : SocketSends(s) \/ BackendSends(s)
  \/ SocketCloses \/ UpTask \/ BackendTakes \/ BackendEnds \/ SocketTakes

EdgeSpec == EdgeInit /\ [][EdgeCallNext \/ BridgeNext]_edgeVars

-----------------------------------------------------------------------------
(* Properties.                                                             *)

\* Nothing reaches the private side unless all six settings were good, the
\* listener is loopback, and the call carried an assertion and a body within
\* bounds (protected, stream and router_from_env fail closed).
EdgeFailsClosed ==
  \A c \in EdgeCalls :
    ecalls[c].step \notin {"idle", "answered"} \/ (ecalls[c].step = "answered" /\ ecalls[c].status \in {101, 200})
    => /\ edge.phase = "serving" /\ edge.env.bind = "loopback"
       /\ Settings(edge.env) \cap {"absent", "blank", "notunicode"} = {}
       /\ ecalls[c].kind # "probe" => ecalls[c].assertion = "present"
       /\ ecalls[c].kind = "relay" => ecalls[c].size \in 1..MaxBody

\* At most one dial is under way, its lock is never left behind by a call that
\* is over, and a probe is answered ready only by a channel that was stored
\* after it had dropped the old one (channel, probe_private_api).
ChannelIsShared ==
  /\ chan.holder = {c \in EdgeCalls : ecalls[c].step \in {"dialing", "storing"}}
  /\ Cardinality(chan.holder) <= 1
  /\ \A c \in EdgeCalls :
       ecalls[c].step = "answered" /\ ecalls[c].kind = "probe" /\ ecalls[c].status = 200
         => chan.stores > ecalls[c].since

IsRunOf(s) == \A i \in DOMAIN s : s[i] = i

\* Each end of a stream sees a prefix of what the other sent: no frame is
\* lost, repeated or reordered in the middle, however the queues fill, the
\* tasks end or either side closes (drive_stream, PrivateStreamRelay::open).
StreamIsFifo ==
  /\ IsRunOf(bridge.got) /\ IsRunOf(bridge.shown)
  /\ Len(bridge.toBackend) <= StreamQueue /\ Len(bridge.fromBackend) <= StreamQueue

\* The edge's promises together.
EdgeKeepsItsPromises == EdgeFailsClosed /\ ChannelIsShared /\ StreamIsFifo

\* The service starts only as far as its environment carries it and advertises
\* no more than that, and the edge in front of it fails closed, shares one
\* channel and keeps frames in order.
ServicesFailClosed == StartupIsHonest /\ EdgeKeepsItsPromises
=============================================================================
