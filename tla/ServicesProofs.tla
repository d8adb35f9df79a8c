---------------------------- MODULE ServicesProofs ----------------------------
(***************************************************************************)
(* What holds, for every value of their constants, of the services around  *)
(* the trading core: how the private service starts, the edge in front of  *)
(* it, the agent's channels, and the provider broker with the two services *)
(* that use it.                                                            *)
(*                                                                         *)
(* ServiceStartup: a ready answer and an advertised trading capability are *)
(* earned. The invariant (StartInv) says what a seam proven in this start  *)
(* rests on, and that a probe under way holds the manifest it loaded.      *)
(*                                                                         *)
(* EdgeGateway: nothing unauthorized passes, one dial is under way, a      *)
(* ready probe used a channel newer than itself, and each end of a stream  *)
(* sees a prefix of what the other sent. The invariant (EdgeInv) ties the  *)
(* holder of the dial lock to the shared channel and each waiting call to  *)
(* the generation it has seen; for the stream it numbers the frames in     *)
(* both queues without a gap.                                              *)
(*                                                                         *)
(* AgentChannels: the Telegram poller dispatches an update at most once in *)
(* a process lifetime and in order, never below the offset it saved, and   *)
(* passes none it did not look at; the stdio listener takes the lines of   *)
(* its stream, answering each once; no channel runs what its capability    *)
(* excludes. The invariant (AgentInv) relates the poller's offsets to what *)
(* it handled, and the listener's buffer to the bytes read: the lines      *)
(* found chunk by chunk are those of the whole stream, by induction over   *)
(* its length (SetInduction).                                              *)
(*                                                                         *)
(* ProviderBroker, IntelServices: a follower waits for a leader that will  *)
(* answer, a provider is sent no more weight than its budget, and a fresh  *)
(* answer is recent; the benchmark and social services strand no probe and *)
(* report what they took. The invariant (BrokerInv) pairs the callers with *)
(* the map of requests in flight and each budget with the weight spent     *)
(* since the start. It needs that no leader's future is dropped while it   *)
(* fetches (Cancellation = FALSE): a dropped leader leaves its key in the  *)
(* map and nobody to answer its followers.                                 *)
(***************************************************************************)
EXTENDS EdgeGateway, AgentChannels, IntelServices, FiniteSetTheorems, SequenceTheorems,
        NaturalsInduction, WellFoundedInduction, TLAPS

\* Least member of a set of naturals.
LEMMA LeastMember ==
  ASSUME NEW T \in SUBSET Nat, NEW k \in T
  PROVE  \E m \in T : \A n \in T : m <= n
<1> DEFINE R == OpToRel(<, Nat)
<1>1. IsWellFoundedOn(R, Nat)
  BY NatLessThanWellFounded
<1>2. \A m, n \in Nat : m < n => <<m, n>> \in R
  BY DEF OpToRel
<1> HIDE DEF R
<1>3. PICK m \in T : \A n \in T : ~(<<n, m>> \in R)
  BY <1>1, WFMin
<1>4. ASSUME NEW n \in T PROVE m <= n
  <2>1. m \in Nat /\ n \in Nat /\ ~(n < m)
    BY <1>2, <1>3
  <2> QED
    BY <2>1
<1> QED
  BY <1>4

\* Induction over the naturals, for a set.
LEMMA SetInduction ==
  ASSUME NEW T, 0 \in T, \A n \in Nat : n \in T => n + 1 \in T
  PROVE  Nat \subseteq T
<1> SUFFICES ASSUME NEW k \in Nat \ T PROVE FALSE
  OBVIOUS
<1>1. PICK m \in Nat \ T : \A n \in Nat \ T : m <= n
  <2> DEFINE U == Nat \ T
  <2>1. U \in SUBSET Nat /\ k \in U
    OBVIOUS
  <2> HIDE DEF U
  <2>2. \E m \in U : \A n \in U : m <= n
    BY <2>1, LeastMember
  <2> QED
    BY <2>2 DEF U
<1>2. m # 0 /\ m - 1 \in Nat /\ m - 1 \in T
  BY <1>1
<1>3. (m - 1) + 1 \in T
  BY <1>2
<1> QED
  BY <1>1, <1>3
--------------------------------------------------------------------------------
\* What a seam proven in this start rests on.
SeamsOK ==
  /\ seams \in [store : {"none", "healthy", "unhealthy"}, chain : BOOLEAN, signer : BOOLEAN,
                market : BOOLEAN, chart : BOOLEAN, intel : BOOLEAN,
                stream : {"none", "healthy", "unhealthy"}, live : BOOLEAN]
  /\ seams.live => seams.store = "healthy"
  /\ phase \in {"configuring", "store", "live"} => ~seams.live
  /\ seams.store # "none" => LiveOptIn(env) = "on"

\* A probe runs only while the service serves, and an answer holds for what
\* it loaded.
ProbeOK ==
  /\ probe.step # "none" =>
       /\ phase = "serving"
       /\ probe = [step |-> probe.step, ready |-> probe.ready, manifest |-> probe.manifest,
                   seen |-> probe.seen]
       /\ probe.seen = probe.manifest
  /\ probe.step = "answered" /\ probe.ready =>
       /\ ReleaseVerified(probe.manifest)
       /\ LiveOptIn(env) = "on" => seams.live

StartInv == SeamsOK /\ ProbeOK

LEMMA StartInitOK == ASSUME StartupInit PROVE StartInv
<1>1. SeamsOK
  BY DEF StartupInit, SeamsOK, NoSeams
<1>2. ProbeOK
  BY DEF StartupInit, ProbeOK, NoProbe
<1> QED
  BY <1>1, <1>2 DEF StartInv

\* A phase before serving has no probe.
LEMMA StartPhaseOK ==
  ASSUME StartInv, phase # "serving", UNCHANGED <<probe, env>>, SeamsOK'
  PROVE  StartInv'
BY DEF StartInv, ProbeOK

LEMMA StartExitOK ==
  ASSUME StartInv, phase # "serving", Exit, UNCHANGED env
  PROVE  StartInv'
<1>1. UNCHANGED <<probe, seams>> /\ phase' = "exited"
  BY DEF Exit
<1>2. SeamsOK'
  BY <1>1 DEF StartInv, SeamsOK
<1> QED
  BY <1>1, <1>2, StartPhaseOK

LEMMA ConfigureOK == ASSUME StartInv, Configure PROVE StartInv'
<1>1. phase = "configuring" /\ UNCHANGED <<seams, probe, env>>
  BY DEF Configure, Exit
<1>2. SeamsOK'
  BY <1>1 DEF StartInv, SeamsOK
<1> QED
  BY <1>1, <1>2, StartPhaseOK

LEMMA ConnectStoreOK ==
  ASSUME StartInv, NEW o \in {"healthy", "unhealthy", "error"}, ConnectStore(o)
  PROVE  StartInv'
<1>1. phase = "store" /\ UNCHANGED <<probe, env>> /\ ~seams.live
  BY DEF ConnectStore, Exit, StartInv, SeamsOK
<1>2. CASE UNCHANGED seams
  BY <1>1, <1>2, StartPhaseOK DEF StartInv, SeamsOK
<1>3. CASE /\ DurableStoreConfigured(env) /\ o # "error"
           /\ seams' = [seams EXCEPT !.store = o]
  <2>1. SeamsOK'
    <3>1. LiveOptIn(env)' = "on"
      BY <1>1, <1>3 DEF DurableStoreConfigured, LiveOptIn, Switch
    <3> QED
      BY <1>1, <1>3, <3>1 DEF StartInv, SeamsOK
  <2> QED
    BY <1>1, <2>1, StartPhaseOK
<1> QED
  BY <1>2, <1>3 DEF ConnectStore, Exit

LEMMA ProbeLiveOK ==
  ASSUME StartInv, NEW c, NEW s, NEW p, ProbeLive(c, s, p)
  PROVE  StartInv'
<1> DEFINE r == ProbeLiveTransports(c, s, p)
<1>1. phase = "live" /\ UNCHANGED <<probe, env>>
  BY DEF ProbeLive, Exit
<1>2. r.chain \in BOOLEAN /\ r.signer \in BOOLEAN /\ LiveExecution(r) \in BOOLEAN
  BY DEF ProbeLiveTransports, LiveExecution
<1>3. \/ UNCHANGED seams
      \/ /\ seams.store = "healthy" /\ phase' = "bridge"
         /\ seams' = [seams EXCEPT !.chain = r.chain, !.signer = r.signer,
                                   !.live = LiveExecution(r)]
  BY DEF ProbeLive, Exit
<1>4. phase' \in {"bridge", "exited"}
  BY DEF ProbeLive, Exit
<1> HIDE DEF r
<1>5. PICK b : b = LiveExecution(r)
  OBVIOUS
<1>6. SeamsOK'
  <2>1. CASE UNCHANGED seams
    BY <1>1, <1>4, <2>1 DEF StartInv, SeamsOK
  <2>2. CASE /\ seams.store = "healthy"
             /\ seams' = [seams EXCEPT !.chain = r.chain, !.signer = r.signer, !.live = b]
    BY <1>1, <1>2, <1>4, <1>5, <2>2 DEF StartInv, SeamsOK
  <2> QED
    BY <1>3, <1>5, <2>1, <2>2
<1> QED
  BY <1>1, <1>6, StartPhaseOK

LEMMA ProbeBridgeOK ==
  ASSUME StartInv, NEW c \in BOOLEAN, NEW m \in BOOLEAN, NEW i \in BOOLEAN, NEW s \in BOOLEAN,
         ProbeBridge(c, m, i, s)
  PROVE  StartInv'
<1>1. phase = "bridge" /\ UNCHANGED <<probe, env>> /\ phase' \in {"composing", "exited"}
  BY DEF ProbeBridge, Exit
<1>2. \/ UNCHANGED seams
      \/ \E x \in {"none", "healthy", "unhealthy"} :
           seams' = [seams EXCEPT !.chart = c, !.market = m, !.intel = i, !.stream = x]
  BY DEF ProbeBridge, Exit
<1>3. SeamsOK'
  <2>1. CASE UNCHANGED seams
    BY <1>1, <2>1 DEF StartInv, SeamsOK
  <2>2. ASSUME NEW x \in {"none", "healthy", "unhealthy"},
               seams' = [seams EXCEPT !.chart = c, !.market = m, !.intel = i, !.stream = x]
        PROVE  SeamsOK'
    BY <1>1, <2>2 DEF StartInv, SeamsOK
  <2> QED
    BY <1>2, <2>1, <2>2
<1> QED
  BY <1>1, <1>3, StartPhaseOK

LEMMA ComposeOK == ASSUME StartInv, Compose PROVE StartInv'
<1>1. phase = "composing" /\ UNCHANGED <<probe, env, seams>> /\ phase' \in {"serving", "exited"}
  BY DEF Compose, Exit
<1>2. SeamsOK'
  BY <1>1 DEF StartInv, SeamsOK
<1> QED
  BY <1>1, <1>2, StartPhaseOK

LEMMA RestartOK == ASSUME StartInv, Restart PROVE StartInv'
<1>1. seams' = NoSeams /\ probe' = NoProbe
  BY DEF Restart
<1>2. SeamsOK'
  BY <1>1 DEF SeamsOK, NoSeams
<1>3. ProbeOK'
  BY <1>1 DEF ProbeOK, NoProbe
<1> QED
  BY <1>2, <1>3 DEF StartInv

\* Steps that leave what a probe depends on alone.
LEMMA QuietStartOK ==
  ASSUME StartInv, UNCHANGED <<phase, env, seams, verified, probe>>
  PROVE  StartInv'
<1>1. SeamsOK'
  BY DEF StartInv, SeamsOK
<1>2. ProbeOK'
  BY DEF StartInv, ProbeOK, ReleaseVerified
<1> QED
  BY <1>1, <1>2 DEF StartInv

LEMMA ReadyOK ==
  ASSUME StartInv, ReadyBegin \/ ReadyAnswer \/ ReadyDone
  PROVE  StartInv'
<1>1. UNCHANGED <<phase, env, seams, verified>>
  BY DEF ReadyBegin, ReadyAnswer, ReadyDone
<1>2. SeamsOK'
  BY <1>1 DEF StartInv, SeamsOK
<1>3. ProbeOK'
  <2>1. CASE ReadyBegin
    <3>1. probe' = [step |-> "loaded", ready |-> FALSE, manifest |-> LoadManifest,
                    seen |-> LoadManifest] /\ phase = "serving"
      BY <2>1 DEF ReadyBegin
    <3> QED
      BY <1>1, <3>1 DEF ProbeOK
  <2>2. CASE ReadyAnswer
    <3>1. /\ probe.step = "loaded"
          /\ probe' = [probe EXCEPT !.step = "answered", !.ready = Ready(probe.manifest)]
      BY <2>2 DEF ReadyAnswer
    <3>2. /\ phase = "serving"
          /\ probe = [step |-> probe.step, ready |-> probe.ready, manifest |-> probe.manifest,
                      seen |-> probe.seen]
          /\ probe.seen = probe.manifest
      BY <3>1 DEF StartInv, ProbeOK
    <3>3. PICK b : b = Ready(probe.manifest)
      OBVIOUS
    <3>4. probe' = [step |-> "answered", ready |-> b, manifest |-> probe.manifest,
                    seen |-> probe.seen]
      BY <3>1, <3>2, <3>3
    <3>5. b => ReleaseVerified(probe.manifest) /\ (LiveOptIn(env) = "on" => seams.live)
      BY <3>3 DEF Ready
    <3>6. b => ReleaseVerified(probe.manifest)'
      <4>1. probe'.manifest = probe.manifest
        BY <3>4
      <4> QED
        BY <1>1, <3>5, <4>1 DEF ReleaseVerified
    <3> QED
      BY <1>1, <3>2, <3>4, <3>5, <3>6 DEF ProbeOK
  <2>3. CASE ReadyDone
    BY <2>3 DEF ReadyDone, ProbeOK, NoProbe
  <2> QED
    BY <2>1, <2>2, <2>3
<1> QED
  BY <1>2, <1>3 DEF StartInv

LEMMA StartStepOK == ASSUME StartInv, [StartupNext]_startVars PROVE StartInv'
<1>1. CASE Configure
  BY <1>1, ConfigureOK
<1>2. ASSUME NEW o \in {"healthy", "unhealthy", "error"}, ConnectStore(o) PROVE StartInv'
  BY <1>2, ConnectStoreOK
<1>3. ASSUME NEW c \in ChainReplies, NEW s \in {"ok", "timeout"}, NEW p \in {"ok", "timeout"},
             ProbeLive(c, s, p)
      PROVE  StartInv'
  BY <1>3, ProbeLiveOK
<1>4. ASSUME NEW c \in BOOLEAN, NEW m \in BOOLEAN, NEW i \in BOOLEAN, NEW s \in BOOLEAN,
             ProbeBridge(c, m, i, s)
      PROVE  StartInv'
  BY <1>4, ProbeBridgeOK
<1>5. CASE Compose \/ Restart
  BY <1>5, ComposeOK, RestartOK
<1>6. ASSUME NEW f \in MovingFlags, NEW v \in BOOLEAN, FlagChanges(f, v) PROVE StartInv'
  BY <1>6, QuietStartOK DEF FlagChanges
<1>7. ASSUME NEW f, NEW x, Replace(f, x) PROVE StartInv'
  BY <1>7, QuietStartOK DEF Replace
<1>8. CASE ReadyBegin \/ ReadyAnswer \/ ReadyDone
  BY <1>8, ReadyOK
<1>9. CASE UNCHANGED startVars
  BY <1>9, QuietStartOK DEF startVars
<1> QED
  BY <1>1, <1>2, <1>3, <1>4, <1>5, <1>6, <1>7, <1>8, <1>9 DEF StartupNext

\* What build_opaque may advertise: a mutating capability only if the start
\* proved the gate, the store, the chain and the signer.
LEMMA AdvertisedIsProven ==
  ASSUME NEW gate, NEW s, NEW d, NEW st, NEW wired
  PROVE  LET caps == Advertised(gate, s, d, st, wired)
         IN  /\ caps \cap Mutating # {} => ExecutionProven(gate, s)
             /\ "market" \in caps => s.market
<1> DEFINE caps == Advertised(gate, s, d, st, wired)
<1>1. ASSUME NEW c \in caps
      PROVE  /\ c \in {"market", "realtime"} => c \in Proven(gate, s)
             /\ c \in Mutating => "execute" \in Proven(gate, s)
  BY <1>1 DEF Advertised
<1>2. "execute" \in Proven(gate, s) => ExecutionProven(gate, s)
  BY DEF Proven
<1>3. "market" \in Proven(gate, s) => s.market
  BY DEF Proven
<1> QED
  BY <1>1, <1>2, <1>3

LEMMA StartHonest == ASSUME StartInv PROVE StartupIsHonest
<1>1. ReadyIsEarned
  <2>1. SUFFICES ASSUME probe.step = "answered", probe.ready
                 PROVE  /\ probe.seen.state = "ok"
                        /\ verified.state = "ok"
                        /\ ManifestFits(probe.seen, verified)
                        /\ LiveOptIn(env) = "on" => seams.live /\ seams.store = "healthy"
    BY DEF ReadyIsEarned
  <2>2. probe.seen = probe.manifest /\ ReleaseVerified(probe.manifest)
        /\ (LiveOptIn(env) = "on" => seams.live)
    BY <2>1 DEF StartInv, ProbeOK
  <2>3. seams.live => seams.store = "healthy"
    BY DEF StartInv, SeamsOK
  <2> QED
    BY <2>2, <2>3 DEF ReleaseVerified
<1>2. TradingIsProven
  <2>1. SUFFICES ASSUME NEW wired \in SUBSET {"market", "execute", "limits", "withdraw"},
                        NEW d \in BOOLEAN
                 PROVE  LET gate == TradingGate(env)
                            doc == DocumentFor(gate, Advertised(gate, seams, d,
                                                       seams.stream # "none", wired))
                        IN  /\ doc.trading => /\ LiveOptIn(env) = "on" /\ TradingGate(env) = "on"
                                              /\ seams.store = "healthy" /\ seams.chain
                                              /\ seams.signer
                            /\ doc.trading <=> doc.reason = "none"
                            /\ "market" \in doc.capabilities => seams.market
    BY DEF TradingIsProven
  <2> DEFINE gate == TradingGate(env)
             caps == Advertised(gate, seams, d, seams.stream # "none", wired)
             doc == DocumentFor(gate, caps)
  <2>2. /\ caps \cap Mutating # {} => ExecutionProven(gate, seams)
        /\ "market" \in caps => seams.market
    BY AdvertisedIsProven
  <2>3. /\ doc.capabilities = caps /\ (doc.trading <=> gate = "on" /\ caps \cap Mutating # {})
        /\ doc.reason = IF gate = "off" THEN "disabled"
                        ELSE IF caps \cap Mutating = {} THEN "unwired" ELSE "none"
    BY DEF DocumentFor
  <2> HIDE DEF caps, doc
  <2>4. caps \cap Mutating # {} =>
          gate = "on" /\ seams.store = "healthy" /\ seams.chain /\ seams.signer
    BY <2>2 DEF ExecutionProven
  <2>5. seams.store = "healthy" => LiveOptIn(env) = "on"
    BY DEF StartInv, SeamsOK
  <2>6. doc.trading => /\ LiveOptIn(env) = "on" /\ gate = "on"
                       /\ seams.store = "healthy" /\ seams.chain /\ seams.signer
    BY <2>3, <2>4, <2>5
  <2>7. doc.trading <=> doc.reason = "none"
    <3> HIDE DEF gate
    <3> QED
      BY <2>3, <2>4
  <2>8. "market" \in doc.capabilities => seams.market
    BY <2>2, <2>3
  <2> QED
    BY <2>6, <2>7, <2>8 DEF doc, caps
<1> QED
  BY <1>1, <1>2 DEF StartupIsHonest

\* The start of the service (main.rs, lib.rs): for every environment, every
\* answer of the database, the chain, the signer and the bridge, every file
\* swapped under the running process and every restart, a ready answer and an
\* advertised trading capability are earned.
THEOREM StartHonestAlways == StartSpec => []StartupIsHonest
<1>1. StartInv /\ [StartupNext]_startVars => StartInv'
  BY StartStepOK
<1> QED
  BY <1>1, StartInitOK, StartHonest, PTL DEF StartSpec

--------------------------------------------------------------------------------
(* The edge: requests and the shared channel.                              *)

EdgeSteps == {"channel", "waiting", "dialing", "storing", "using", "answered"}
Passing == {"channel", "waiting", "dialing", "storing", "using"}

\* A request that is not idle.
RequestType ==
  [step : EdgeSteps, kind : {"relay", "stream", "probe"}, assertion : {"present", "absent", "none"},
   size : Nat, since : Nat, channel : Nat, status : Nat]

EdgeTyped ==
  /\ edge.phase \in {"off", "closed", "failed", "serving"}
  /\ edge.phase = "serving" =>
       edge.env.bind = "loopback"
       /\ Settings(edge.env) \cap {"absent", "blank", "notunicode"} = {}
  /\ chan \in [cached : Nat, dials : Nat, stores : Nat, holder : SUBSET EdgeCalls]
  /\ DOMAIN ecalls = EdgeCalls
  /\ ecalls = [c \in EdgeCalls |-> ecalls[c]]
  /\ \A c \in EdgeCalls : ecalls[c] = NoRequest \/ ecalls[c] \in RequestType

\* The call got past the checks.
Admitted(r) ==
  /\ r.kind # "probe" => r.assertion = "present"
  /\ r.kind = "relay" => r.size \in 1..MaxBody

CallsOK ==
  \A c \in EdgeCalls :
    /\ ecalls[c] # NoRequest => edge.phase \in {"closed", "serving"}
    /\ ecalls[c].step \in Passing \/ (ecalls[c].step = "answered" /\ ecalls[c].status \in {101, 200})
       => edge.phase = "serving" /\ Admitted(ecalls[c])

HolderOK ==
  /\ chan.holder = {c \in EdgeCalls : ecalls[c].step \in {"dialing", "storing"}}
  /\ \A c, d \in chan.holder : c = d

\* A probe uses only a channel that was stored after it had dropped the old one.
FreshFor(r, ch) ==
  r.kind = "probe" =>
    /\ r.since <= ch.stores
    /\ r.step \in {"channel", "waiting"} => ch.cached = 0 \/ r.since < ch.stores
    /\ r.step = "using" \/ (r.step = "answered" /\ r.status = 200) => r.since < ch.stores

ProbesFresh == \A c \in EdgeCalls : FreshFor(ecalls[c], chan)

\* One stream call is followed, and it precedes the stream.
StreamCallOK ==
  /\ \A c, d \in EdgeCalls : ecalls[c].kind = "stream" /\ ecalls[d].kind = "stream" => c = d
  /\ \A c \in EdgeCalls :
       ecalls[c].kind = "stream" /\ ecalls[c].step \in Passing => bridge.state = "none"

EdgeInv == EdgeTyped /\ CallsOK /\ HolderOK /\ ProbesFresh

LEMMA EdgeInitOK == ASSUME EdgeInit PROVE EdgeInv /\ StreamCallOK
<1>1. \A c \in EdgeCalls : ecalls[c] = NoRequest
  BY DEF EdgeInit
<1>2. EdgeTyped
  BY DEF EdgeInit, EdgeTyped
<1>3. CallsOK
  BY <1>1 DEF CallsOK, NoRequest, Passing
<1>4. HolderOK
  BY <1>1 DEF EdgeInit, HolderOK, NoRequest
<1>5. ProbesFresh
  BY <1>1 DEF ProbesFresh, FreshFor, NoRequest
<1>6. StreamCallOK
  BY <1>1 DEF StreamCallOK, NoRequest
<1> QED
  BY <1>2, <1>3, <1>4, <1>5, <1>6 DEF EdgeInv

\* What an action on one call may do: the facts every case establishes.
CallStep(c, r) ==
  /\ ecalls' = [ecalls EXCEPT ![c] = r] /\ UNCHANGED edge
  /\ r = NoRequest \/ r \in RequestType
  /\ r # NoRequest => edge.phase \in {"closed", "serving"}
  /\ r.step \in Passing \/ (r.step = "answered" /\ r.status \in {101, 200})
     => edge.phase = "serving" /\ Admitted(r)
  /\ chan' \in [cached : Nat, dials : Nat, stores : Nat, holder : SUBSET EdgeCalls]
  /\ chan.stores <= chan'.stores
  /\ chan'.cached = 0 \/ chan'.cached = chan.cached \/ chan.stores < chan'.stores

LEMMA CallStepOK ==
  ASSUME EdgeInv, NEW c \in EdgeCalls, NEW r, CallStep(c, r), HolderOK', FreshFor(r, chan')
  PROVE  EdgeInv'
<1>1. /\ ecalls' = [ecalls EXCEPT ![c] = r] /\ edge' = edge /\ DOMAIN ecalls = EdgeCalls
      /\ ecalls'[c] = r
      /\ \A d \in EdgeCalls : d # c => ecalls'[d] = ecalls[d]
  BY DEF CallStep, EdgeInv, EdgeTyped
<1>2. EdgeTyped'
  <2>1. chan' \in [cached : Nat, dials : Nat, stores : Nat, holder : SUBSET EdgeCalls]
        /\ (r = NoRequest \/ r \in RequestType)
    BY DEF CallStep
  <2>2. DOMAIN ecalls' = EdgeCalls /\ ecalls' = [d \in EdgeCalls |-> ecalls'[d]]
    BY <1>1
  <2>3. \A d \in EdgeCalls : ecalls'[d] = NoRequest \/ ecalls'[d] \in RequestType
    BY <1>1, <2>1 DEF EdgeInv, EdgeTyped
  <2> QED
    BY <1>1, <2>1, <2>2, <2>3 DEF EdgeInv, EdgeTyped
<1>3. CallsOK'
  <2>1. ASSUME NEW d \in EdgeCalls
        PROVE  /\ ecalls'[d] # NoRequest => edge'.phase \in {"closed", "serving"}
               /\ ecalls'[d].step \in Passing
                  \/ (ecalls'[d].step = "answered" /\ ecalls'[d].status \in {101, 200})
                  => edge'.phase = "serving" /\ Admitted(ecalls'[d])
    <3>1. CASE d = c
      BY <1>1, <3>1 DEF CallStep
    <3>2. CASE d # c
      BY <1>1, <3>2 DEF EdgeInv, CallsOK
    <3> QED
      BY <3>1, <3>2
  <2> QED
    BY <2>1 DEF CallsOK, Admitted
<1>4. ProbesFresh'
  <2>1. ASSUME NEW d \in EdgeCalls, d # c PROVE FreshFor(ecalls'[d], chan')
    <3>1. FreshFor(ecalls[d], chan) /\ ecalls'[d] = ecalls[d]
      BY <1>1, <2>1 DEF EdgeInv, ProbesFresh
    <3>2. /\ chan.stores \in Nat /\ chan'.stores \in Nat /\ chan.stores <= chan'.stores
          /\ chan'.cached = 0 \/ chan'.cached = chan.cached \/ chan.stores < chan'.stores
      BY DEF EdgeInv, EdgeTyped, CallStep
    <3>3. ecalls[d].kind = "probe" => ecalls[d].since \in Nat
      BY DEF EdgeInv, EdgeTyped, RequestType, NoRequest
    <3> QED
      BY <3>1, <3>2, <3>3 DEF FreshFor
  <2>2. FreshFor(ecalls'[c], chan')
    BY <1>1
  <2> QED
    BY <2>1, <2>2 DEF ProbesFresh
<1> QED
  BY <1>2, <1>3, <1>4 DEF EdgeInv

\* The dial lock stays, is released by its holder, or is taken.
LEMMA HolderSame ==
  ASSUME EdgeInv, NEW c \in EdgeCalls, NEW r, ecalls' = [ecalls EXCEPT ![c] = r],
         chan'.holder = chan.holder,
         r.step \in {"dialing", "storing"} <=> ecalls[c].step \in {"dialing", "storing"}
  PROVE  HolderOK'
<1>1. \A d \in EdgeCalls : ecalls'[d].step \in {"dialing", "storing"}
                            <=> ecalls[d].step \in {"dialing", "storing"}
  BY DEF EdgeInv, EdgeTyped
<1> QED
  BY <1>1 DEF EdgeInv, HolderOK

LEMMA HolderDrops ==
  ASSUME EdgeInv, NEW c \in EdgeCalls, NEW r, ecalls' = [ecalls EXCEPT ![c] = r],
         chan'.holder = chan.holder \ {c}, r.step \notin {"dialing", "storing"}
  PROVE  HolderOK'
<1>1. /\ ecalls'[c] = r
      /\ \A d \in EdgeCalls : d # c => ecalls'[d] = ecalls[d]
  BY DEF EdgeInv, EdgeTyped
<1> QED
  BY <1>1 DEF EdgeInv, HolderOK

LEMMA HolderTakes ==
  ASSUME EdgeInv, NEW c \in EdgeCalls, NEW r, ecalls' = [ecalls EXCEPT ![c] = r],
         chan.holder = {}, chan'.holder = {c}, r.step \in {"dialing", "storing"}
  PROVE  HolderOK'
<1>1. /\ ecalls'[c] = r
      /\ \A d \in EdgeCalls : d # c => ecalls'[d] = ecalls[d]
  BY DEF EdgeInv, EdgeTyped
<1> QED
  BY <1>1 DEF EdgeInv, HolderOK

LEMMA HoldsAlone ==
  ASSUME EdgeInv, NEW c \in EdgeCalls, ecalls[c].step \in {"dialing", "storing"}
  PROVE  chan.holder = {c}
BY DEF EdgeInv, HolderOK

\* The stream call stays the only one.
LEMMA StreamSame ==
  ASSUME EdgeInv, StreamCallOK, NEW c \in EdgeCalls, NEW r, ecalls' = [ecalls EXCEPT ![c] = r],
         r.kind = "stream" => ecalls[c].kind = "stream",
         r.step \in Passing => ecalls[c].step \in Passing \/ r.kind # "stream",
         UNCHANGED bridge
  PROVE  StreamCallOK'
<1>1. /\ ecalls'[c] = r
      /\ \A d \in EdgeCalls : d # c => ecalls'[d] = ecalls[d]
  BY DEF EdgeInv, EdgeTyped
<1> QED
  BY <1>1 DEF StreamCallOK

\* A call that is not idle.
LEMMA BusyCall ==
  ASSUME EdgeInv, NEW c \in EdgeCalls, ecalls[c].step # "idle"
  PROVE  /\ ecalls[c] \in RequestType /\ ecalls[c] # NoRequest
         /\ edge.phase \in {"closed", "serving"}
         /\ ecalls[c].step \in Passing => edge.phase = "serving" /\ Admitted(ecalls[c])
         /\ FreshFor(ecalls[c], chan)
BY DEF EdgeInv, EdgeTyped, CallsOK, NoRequest, ProbesFresh

LEMMA ChanTyped ==
  ASSUME EdgeInv
  PROVE  /\ chan \in [cached : Nat, dials : Nat, stores : Nat, holder : SUBSET EdgeCalls]
         /\ DOMAIN ecalls = EdgeCalls
BY DEF EdgeInv, EdgeTyped

LEMMA EdgeStartOK ==
  ASSUME EdgeInv, StreamCallOK, NEW e \in EdgeEnvs, EdgeStart(e)
  PROVE  EdgeInv' /\ StreamCallOK'
<1>1. edge.phase = "off" /\ edge' = [phase |-> EdgeStarts(e), env |-> e]
      /\ UNCHANGED <<chan, ecalls, bridge>>
  BY DEF EdgeStart
<1>2. \A c \in EdgeCalls : ecalls[c] = NoRequest
  BY <1>1 DEF EdgeInv, CallsOK
<1>3. /\ EdgeStarts(e) \in {"closed", "failed", "serving"}
      /\ EdgeStarts(e) = "serving" =>
           e.bind = "loopback" /\ Settings(e) \cap {"absent", "blank", "notunicode"} = {}
  <2>1. CASE ~BindAllowed(e)
    BY <2>1 DEF EdgeStarts
  <2>2. CASE BindAllowed(e) /\ ResolveConfig(e) \in {"none", "invalid"}
    BY <2>2 DEF EdgeStarts
  <2>3. CASE BindAllowed(e) /\ ResolveConfig(e) \notin {"none", "invalid"}
    <3>1. Settings(e) \cap {"absent", "blank", "notunicode"} = {}
      BY <2>3 DEF ResolveConfig
    <3>2. EdgeStarts(e) \in {"serving", "failed"}
      BY <2>3 DEF EdgeStarts
    <3> QED
      BY <2>3, <3>1, <3>2 DEF BindAllowed
  <2> QED
    BY <2>1, <2>2, <2>3
<1>4. EdgeTyped'
  <2>1. edge'.phase = EdgeStarts(e) /\ edge'.env = e
    BY <1>1
  <2> QED
    BY <1>1, <1>3, <2>1 DEF EdgeInv, EdgeTyped
<1>5. CallsOK'
  BY <1>1, <1>2 DEF CallsOK, NoRequest, Passing
<1>6. HolderOK' /\ ProbesFresh' /\ StreamCallOK'
  BY <1>1 DEF EdgeInv, HolderOK, ProbesFresh, FreshFor, StreamCallOK
<1> QED
  BY <1>4, <1>5, <1>6 DEF EdgeInv

LEMMA RequestOK ==
  ASSUME EdgeInv, StreamCallOK, NEW c \in EdgeCalls, NEW k \in {"relay", "stream"},
         NEW a \in {"present", "absent"}, NEW o \in BOOLEAN, NEW s \in EdgeSizes,
         Request(c, k, a, o, s)
  PROVE  EdgeInv' /\ StreamCallOK'
<1> DEFINE error == IF k = "stream" THEN AuthorizationError(a) ELSE ProtectedError(a, o, s)
<1>0. PICK r :
        r = [step |-> IF error = 0 THEN "channel" ELSE "answered", kind |-> k,
             assertion |-> a, size |-> s, since |-> chan.stores, channel |-> 0, status |-> error]
  OBVIOUS
<1>1. /\ edge.phase \in {"closed", "serving"} /\ ecalls[c].step = "idle"
      /\ k = "stream" => bridge.state = "none" /\ \A d \in EdgeCalls : ecalls[d].kind # "stream"
      /\ ecalls' = [ecalls EXCEPT ![c] = r] /\ UNCHANGED <<edge, chan, bridge>>
  BY <1>0 DEF Request, Becomes
<1>2. s \in Nat /\ MaxBody \in Nat
  BY EdgeAssumption
<1>3. /\ error \in {0, 503, 401, 415, 413}
      /\ error = 0 => /\ edge.phase = "serving" /\ a = "present"
                      /\ k = "relay" => s \in 1..MaxBody
  BY <1>1, <1>2 DEF AuthorizationError, ProtectedError
<1> HIDE DEF error
<1>4. r \in RequestType /\ r # NoRequest
  BY <1>0, <1>2, <1>3, ChanTyped DEF RequestType, EdgeSteps, NoRequest
<1>5. CallStep(c, r)
  <2>1. r.step \in Passing \/ (r.step = "answered" /\ r.status \in {101, 200})
        => edge.phase = "serving" /\ Admitted(r)
    BY <1>0, <1>3 DEF Passing, Admitted
  <2> QED
    BY <1>1, <1>4, <2>1, ChanTyped DEF CallStep
<1>6. r.kind = k /\ r.step \in {"channel", "answered"} /\ FreshFor(r, chan')
  BY <1>0 DEF FreshFor
<1>7. HolderOK'
  BY <1>1, <1>6, HolderSame
<1>8. EdgeInv'
  BY <1>5, <1>6, <1>7, CallStepOK
<1>9. StreamCallOK'
  <2>1. /\ ecalls'[c] = r
        /\ \A d \in EdgeCalls : d # c => ecalls'[d] = ecalls[d]
    BY <1>1, ChanTyped
  <2> QED
    BY <1>1, <1>6, <2>1 DEF StreamCallOK
<1> QED
  BY <1>8, <1>9

LEMMA ReadinessOK ==
  ASSUME EdgeInv, StreamCallOK, NEW c \in EdgeCalls, Readiness(c)
  PROVE  EdgeInv' /\ StreamCallOK'
<1>0. PICK r :
        r = [step |-> IF edge.phase = "closed" THEN "answered" ELSE "channel",
                 kind |-> "probe", assertion |-> "none", size |-> 0, since |-> chan.stores,
                 channel |-> 0, status |-> IF edge.phase = "closed" THEN 503 ELSE 0]
  OBVIOUS
<1>1. /\ edge.phase \in {"closed", "serving"} /\ ecalls[c].step = "idle"
      /\ ecalls' = [ecalls EXCEPT ![c] = r] /\ UNCHANGED <<edge, bridge>>
      /\ chan' = IF edge.phase = "closed" THEN chan ELSE [chan EXCEPT !.cached = 0]
  BY <1>0 DEF Readiness, Becomes, ProbeResets
<1>2. /\ chan' \in [cached : Nat, dials : Nat, stores : Nat, holder : SUBSET EdgeCalls]
      /\ chan'.stores = chan.stores /\ chan'.holder = chan.holder
      /\ chan'.cached \in {0, chan.cached}
      /\ edge.phase # "closed" => chan'.cached = 0
      /\ chan.stores \in Nat
  BY <1>1, ChanTyped
<1>3. r \in RequestType /\ r # NoRequest
  BY <1>0, <1>2 DEF RequestType, EdgeSteps, NoRequest
<1>4. CallStep(c, r)
  <2>1. r.step \in Passing \/ (r.step = "answered" /\ r.status \in {101, 200})
        => edge.phase = "serving" /\ Admitted(r)
    BY <1>0, <1>1 DEF Passing, Admitted
  <2> QED
    BY <1>1, <1>2, <1>3, <2>1 DEF CallStep
<1>5. FreshFor(r, chan')
  BY <1>0, <1>1, <1>2 DEF FreshFor
<1>6. r.kind = "probe" /\ r.step \in {"channel", "answered"}
  BY <1>0
<1>7. HolderOK'
  BY <1>1, <1>2, <1>6, HolderSame
<1>8. EdgeInv'
  BY <1>4, <1>5, <1>7, CallStepOK
<1>9. StreamCallOK'
  BY <1>1, <1>6, StreamSame
<1> QED
  BY <1>8, <1>9

\* r is what became of the call c: its request is the same.
SameRequest(c, r) ==
  /\ r \in RequestType
  /\ r.kind = ecalls[c].kind /\ r.since = ecalls[c].since
  /\ r.assertion = ecalls[c].assertion /\ r.size = ecalls[c].size

\* What a step of a call does to the dial lock.
LockStep(c, r) ==
  \/ /\ chan'.holder = chan.holder
     /\ r.step \in {"dialing", "storing"} <=> ecalls[c].step \in {"dialing", "storing"}
  \/ chan'.holder = chan.holder \ {c} /\ r.step \notin {"dialing", "storing"}
  \/ chan.holder = {} /\ chan'.holder = {c} /\ r.step \in {"dialing", "storing"}

\* What it does to the cached channel.
CacheStep ==
  /\ chan' \in [cached : Nat, dials : Nat, stores : Nat, holder : SUBSET EdgeCalls]
  /\ chan.stores <= chan'.stores
  /\ chan'.cached = 0 \/ chan'.cached = chan.cached \/ chan.stores < chan'.stores

\* The steps of a call on the shared channel.
LEMMA PassingOK ==
  ASSUME EdgeInv, NEW c \in EdgeCalls, ecalls[c].step \in Passing, NEW r, SameRequest(c, r),
         ecalls' = [ecalls EXCEPT ![c] = r], UNCHANGED edge, CacheStep, LockStep(c, r),
         FreshFor(r, chan')
  PROVE  EdgeInv' /\ (StreamCallOK /\ UNCHANGED bridge => StreamCallOK')
<1>1. /\ ecalls[c] \in RequestType /\ edge.phase = "serving" /\ Admitted(ecalls[c])
  BY BusyCall DEF Passing
<1>2. r \in RequestType /\ r # NoRequest /\ Admitted(r) /\ r.kind = ecalls[c].kind
  BY <1>1 DEF SameRequest, Admitted, RequestType, EdgeSteps, NoRequest
<1>3. CallStep(c, r)
  BY <1>1, <1>2 DEF CallStep, CacheStep
<1>4. HolderOK'
  <2>1. CASE /\ chan'.holder = chan.holder
             /\ r.step \in {"dialing", "storing"} <=> ecalls[c].step \in {"dialing", "storing"}
    BY <2>1, HolderSame
  <2>2. CASE chan'.holder = chan.holder \ {c} /\ r.step \notin {"dialing", "storing"}
    BY <2>2, HolderDrops
  <2>3. CASE chan.holder = {} /\ chan'.holder = {c} /\ r.step \in {"dialing", "storing"}
    BY <2>3, HolderTakes
  <2> QED
    BY <2>1, <2>2, <2>3 DEF LockStep
<1>5. EdgeInv'
  BY <1>3, <1>4, CallStepOK
<1>6. ASSUME StreamCallOK, UNCHANGED bridge PROVE StreamCallOK'
  BY <1>2, <1>6, StreamSame
<1> QED
  BY <1>5, <1>6

\* A call on its way, its channel and what is known of it.
LEMMA OnItsWay ==
  ASSUME EdgeInv, NEW c \in EdgeCalls, ecalls[c].step \in Passing
  PROVE  /\ ecalls[c] \in RequestType /\ FreshFor(ecalls[c], chan)
         /\ chan \in [cached : Nat, dials : Nat, stores : Nat, holder : SUBSET EdgeCalls]
BY BusyCall, ChanTyped DEF Passing

LEMMA GetChannelOK ==
  ASSUME EdgeInv, NEW c \in EdgeCalls, GetChannel(c)
  PROVE  EdgeInv' /\ (StreamCallOK => StreamCallOK')
<1>1. PICK r : r = IF chan.cached # 0
                   THEN [ecalls[c] EXCEPT !.step = "using", !.channel = chan.cached]
                   ELSE [ecalls[c] EXCEPT !.step = "waiting"]
  OBVIOUS
<1>2. /\ ecalls[c].step = "channel" /\ UNCHANGED <<edge, chan, bridge>>
      /\ ecalls' = [ecalls EXCEPT ![c] = r]
  BY <1>1 DEF GetChannel, Uses, Becomes
<1>3. ecalls[c].step \in Passing
  BY <1>2 DEF Passing
<1>4. /\ ecalls[c] \in RequestType /\ FreshFor(ecalls[c], chan)
      /\ chan \in [cached : Nat, dials : Nat, stores : Nat, holder : SUBSET EdgeCalls]
  BY <1>3, OnItsWay
<1>5. SameRequest(c, r) /\ r.step = IF chan.cached # 0 THEN "using" ELSE "waiting"
  BY <1>1, <1>4 DEF SameRequest, RequestType, EdgeSteps
<1>6. CacheStep /\ LockStep(c, r)
  BY <1>2, <1>4, <1>5 DEF CacheStep, LockStep
<1>7. FreshFor(r, chan')
  BY <1>2, <1>4, <1>5 DEF FreshFor, SameRequest
<1> QED
  BY <1>2, <1>3, <1>5, <1>6, <1>7, PassingOK

LEMMA DialLockOK ==
  ASSUME EdgeInv, NEW c \in EdgeCalls, DialLock(c)
  PROVE  EdgeInv' /\ (StreamCallOK => StreamCallOK')
<1>1. PICK r : r = IF chan.cached # 0
                   THEN [ecalls[c] EXCEPT !.step = "using", !.channel = chan.cached]
                   ELSE [ecalls[c] EXCEPT !.step = "dialing", !.channel = chan.dials + 1]
  OBVIOUS
<1>2. /\ ecalls[c].step = "waiting" /\ UNCHANGED <<edge, bridge>> /\ chan.holder = {}
      /\ ecalls' = [ecalls EXCEPT ![c] = r]
      /\ chan' = IF chan.cached # 0 THEN chan
                 ELSE [chan EXCEPT !.holder = {c}, !.dials = @ + 1]
  BY <1>1 DEF DialLock, Uses, Becomes
<1>3. ecalls[c].step \in Passing
  BY <1>2 DEF Passing
<1>4. /\ ecalls[c] \in RequestType /\ FreshFor(ecalls[c], chan)
      /\ chan \in [cached : Nat, dials : Nat, stores : Nat, holder : SUBSET EdgeCalls]
  BY <1>3, OnItsWay
<1>5. SameRequest(c, r) /\ r.step = IF chan.cached # 0 THEN "using" ELSE "dialing"
  <2>1. CASE chan.cached # 0
    <3>1. r = [ecalls[c] EXCEPT !.step = "using", !.channel = chan.cached]
      BY <1>1, <2>1
    <3> QED
      BY <1>4, <2>1, <3>1 DEF SameRequest, RequestType, EdgeSteps
  <2>2. CASE chan.cached = 0
    <3>1. PICK n \in Nat : n = chan.dials + 1
      BY <1>4
    <3>2. r = [ecalls[c] EXCEPT !.step = "dialing", !.channel = n]
      BY <1>1, <2>2, <3>1
    <3> QED
      BY <1>4, <2>2, <3>2 DEF SameRequest, RequestType, EdgeSteps
  <2> QED
    BY <2>1, <2>2
<1>6. /\ CacheStep /\ chan'.stores = chan.stores /\ chan'.cached = chan.cached
      /\ chan'.holder = IF chan.cached # 0 THEN {} ELSE {c}
  <2>1. CASE chan.cached # 0
    BY <1>2, <1>4, <2>1 DEF CacheStep
  <2>2. CASE chan.cached = 0
    <3>1. PICK n, h : n = chan.dials + 1 /\ h = {c}
      OBVIOUS
    <3>2. chan' = [chan EXCEPT !.holder = h, !.dials = n] /\ n \in Nat /\ h \in SUBSET EdgeCalls
      BY <1>2, <1>4, <2>2, <3>1
    <3>3. /\ chan' \in [cached : Nat, dials : Nat, stores : Nat, holder : SUBSET EdgeCalls]
          /\ chan'.stores = chan.stores /\ chan'.cached = chan.cached /\ chan'.holder = h
      BY <1>4, <3>2
    <3> QED
      BY <1>4, <2>2, <3>1, <3>3 DEF CacheStep
  <2> QED
    BY <2>1, <2>2
<1>7. LockStep(c, r)
  BY <1>2, <1>5, <1>6 DEF LockStep
<1>8. FreshFor(r, chan')
  BY <1>2, <1>4, <1>5, <1>6 DEF FreshFor, SameRequest
<1> QED
  BY <1>2, <1>3, <1>5, <1>6, <1>7, <1>8, PassingOK

LEMMA ConnectedOK ==
  ASSUME EdgeInv, NEW c \in EdgeCalls, NEW ok \in BOOLEAN, Connected(c, ok)
  PROVE  EdgeInv' /\ (StreamCallOK => StreamCallOK')
<1>1. PICK r : r = IF ok THEN [ecalls[c] EXCEPT !.step = "storing"]
                   ELSE [ecalls[c] EXCEPT !.step = "answered", !.status = 503]
  OBVIOUS
<1>2. /\ ecalls[c].step = "dialing" /\ UNCHANGED <<edge, bridge>>
      /\ ecalls' = [ecalls EXCEPT ![c] = r]
      /\ chan' = IF ok THEN chan ELSE [chan EXCEPT !.holder = {}]
  BY <1>1 DEF Connected, Answers, Becomes
<1>3. ecalls[c].step \in Passing /\ chan.holder = {c}
  BY <1>2, HoldsAlone DEF Passing
<1>4. /\ ecalls[c] \in RequestType /\ FreshFor(ecalls[c], chan)
      /\ chan \in [cached : Nat, dials : Nat, stores : Nat, holder : SUBSET EdgeCalls]
  BY <1>3, OnItsWay
<1>5. SameRequest(c, r) /\ r.step = (IF ok THEN "storing" ELSE "answered") /\ (~ok => r.status = 503)
  <2>1. CASE ok
    <3>1. r = [ecalls[c] EXCEPT !.step = "storing"]
      BY <1>1, <2>1
    <3> QED
      BY <1>4, <2>1, <3>1 DEF SameRequest, RequestType, EdgeSteps
  <2>2. CASE ~ok
    <3>0. PICK x \in Nat : x = 503
      OBVIOUS
    <3>1. r = [ecalls[c] EXCEPT !.step = "answered", !.status = x]
      BY <1>1, <2>2, <3>0
    <3>2. SameRequest(c, r)
      BY <1>4, <3>1 DEF SameRequest, RequestType, EdgeSteps
    <3>3. r.step = "answered" /\ r.status = x
      BY <1>4, <3>1 DEF RequestType
    <3> QED
      BY <2>2, <3>0, <3>2, <3>3
  <2> QED
    BY <2>1, <2>2
<1>6. /\ CacheStep /\ chan'.stores = chan.stores /\ chan'.cached = chan.cached
      /\ chan'.holder = IF ok THEN chan.holder ELSE chan.holder \ {c}
  BY <1>2, <1>3, <1>4 DEF CacheStep
<1>7. LockStep(c, r)
  BY <1>2, <1>5, <1>6 DEF LockStep
<1>8. FreshFor(r, chan')
  BY <1>2, <1>4, <1>5, <1>6 DEF FreshFor, SameRequest
<1> QED
  BY <1>2, <1>3, <1>5, <1>6, <1>7, <1>8, PassingOK

LEMMA StoreChannelOK ==
  ASSUME EdgeInv, NEW c \in EdgeCalls, StoreChannel(c)
  PROVE  EdgeInv' /\ (StreamCallOK => StreamCallOK')
<1>1. PICK r : r = [ecalls[c] EXCEPT !.step = "using", !.channel = ecalls[c].channel]
  OBVIOUS
<1>2. /\ ecalls[c].step = "storing" /\ UNCHANGED <<edge, bridge>>
      /\ ecalls' = [ecalls EXCEPT ![c] = r]
      /\ chan' = [chan EXCEPT !.cached = ecalls[c].channel, !.holder = {}, !.stores = @ + 1]
  BY <1>1 DEF StoreChannel, Uses, Becomes
<1>3. ecalls[c].step \in Passing /\ chan.holder = {c}
  BY <1>2, HoldsAlone DEF Passing
<1>4. /\ ecalls[c] \in RequestType /\ FreshFor(ecalls[c], chan)
      /\ chan \in [cached : Nat, dials : Nat, stores : Nat, holder : SUBSET EdgeCalls]
  BY <1>3, OnItsWay
<1>5. SameRequest(c, r) /\ r.step = "using" /\ ecalls[c].channel \in Nat /\ ecalls[c].since \in Nat
  BY <1>1, <1>4 DEF SameRequest, RequestType, EdgeSteps
<1>6. /\ CacheStep /\ chan'.stores = chan.stores + 1 /\ chan'.holder = chan.holder \ {c}
      /\ chan.stores \in Nat
  <2>1. PICK n, m : n = ecalls[c].channel /\ m = chan.stores + 1
    OBVIOUS
  <2>2. chan' = [chan EXCEPT !.cached = n, !.holder = {}, !.stores = m] /\ n \in Nat /\ m \in Nat
    BY <1>2, <1>4, <1>5, <2>1
  <2>3. /\ chan' \in [cached : Nat, dials : Nat, stores : Nat, holder : SUBSET EdgeCalls]
        /\ chan'.stores = m /\ chan'.holder = {} /\ chan.stores \in Nat
    BY <1>4, <2>2
  <2>4. chan'.holder = chan.holder \ {c}
    BY <1>3, <2>3
  <2> QED
    BY <2>1, <2>3, <2>4 DEF CacheStep
<1>7. LockStep(c, r)
  BY <1>2, <1>5, <1>6 DEF LockStep
<1>8. FreshFor(r, chan')
  BY <1>2, <1>4, <1>5, <1>6 DEF FreshFor, SameRequest
<1> QED
  BY <1>2, <1>3, <1>5, <1>6, <1>7, <1>8, PassingOK

\* A call that is answered, with what that does to the channel.
LEMMA AnsweredOK ==
  ASSUME EdgeInv, NEW c \in EdgeCalls, ecalls[c].step \in Passing, NEW status \in Nat,
         Answers(c, status), UNCHANGED edge, CacheStep, chan'.stores = chan.stores,
         chan'.holder = chan.holder \ {c},
         ecalls[c].kind = "probe" /\ status = 200 => ecalls[c].step = "using"
  PROVE  EdgeInv' /\ (StreamCallOK /\ UNCHANGED bridge => StreamCallOK')
<1>1. PICK r : r = [ecalls[c] EXCEPT !.step = "answered", !.status = status]
  OBVIOUS
<1>2. ecalls' = [ecalls EXCEPT ![c] = r]
  BY <1>1 DEF Answers, Becomes
<1>3. ecalls[c] \in RequestType /\ FreshFor(ecalls[c], chan)
  BY OnItsWay
<1>4. SameRequest(c, r) /\ r.step = "answered" /\ r.status = status
  BY <1>1, <1>3 DEF SameRequest, RequestType, EdgeSteps
<1>5. LockStep(c, r)
  BY <1>4 DEF LockStep
<1>6. FreshFor(r, chan')
  BY <1>3, <1>4 DEF FreshFor, SameRequest
<1> QED
  BY <1>2, <1>4, <1>5, <1>6, PassingOK

LEMMA ProbeTimesOutOK ==
  ASSUME EdgeInv, NEW c \in EdgeCalls, ProbeTimesOut(c)
  PROVE  EdgeInv' /\ (StreamCallOK => StreamCallOK')
<1>1. /\ ecalls[c].step \in Passing /\ UNCHANGED <<edge, bridge>> /\ Answers(c, 503)
      /\ chan' = [chan EXCEPT !.holder = @ \ {c}]
  BY DEF ProbeTimesOut, Passing
<1>2. chan \in [cached : Nat, dials : Nat, stores : Nat, holder : SUBSET EdgeCalls]
  BY ChanTyped
<1>3. CacheStep /\ chan'.stores = chan.stores /\ chan'.holder = chan.holder \ {c}
  BY <1>1, <1>2 DEF CacheStep
<1> QED
  BY <1>1, <1>3, AnsweredOK

\* A call that is using the channel does not hold the dial lock.
LEMMA UsesWithoutLock ==
  ASSUME EdgeInv, NEW c \in EdgeCalls, ecalls[c].step = "using"
  PROVE  chan.holder = chan.holder \ {c} /\ ecalls[c].step \in Passing
BY DEF EdgeInv, HolderOK, Passing

LEMMA RelayAnswersOK ==
  ASSUME EdgeInv, NEW c \in EdgeCalls, NEW o, NEW s, NEW f, RelayAnswers(c, o, s, f)
  PROVE  EdgeInv' /\ (StreamCallOK => StreamCallOK')
<1>1. /\ ecalls[c].step = "using" /\ ecalls[c].kind = "relay" /\ UNCHANGED <<edge, bridge>>
      /\ chan' = [chan EXCEPT !.cached = 0] \/ chan' = chan
  BY DEF RelayAnswers
<1>2. PICK status \in {200, 413, 503} : Answers(c, status)
  <2>1. Answers(c, CASE o = "ok" /\ s = 0 -> 503
                     [] o = "ok" /\ s > MaxBody -> 413
                     [] o = "ok" -> 200
                     [] OTHER -> 503)
    BY DEF RelayAnswers
  <2>2. PICK x : x = CASE o = "ok" /\ s = 0 -> 503
                       [] o = "ok" /\ s > MaxBody -> 413
                       [] o = "ok" -> 200
                       [] OTHER -> 503
    OBVIOUS
  <2>3. x \in {200, 413, 503}
    BY <2>2
  <2>4. Answers(c, x)
    BY <2>1, <2>2
  <2> QED
    BY <2>3, <2>4
<1>3. chan \in [cached : Nat, dials : Nat, stores : Nat, holder : SUBSET EdgeCalls]
  BY ChanTyped
<1>4. CacheStep /\ chan'.stores = chan.stores /\ chan'.holder = chan.holder \ {c}
  <2>1. chan'.holder = chan.holder
    BY <1>1, <1>3
  <2>2. chan.holder = chan.holder \ {c}
    BY <1>1, UsesWithoutLock
  <2> QED
    BY <1>1, <1>3, <2>1, <2>2 DEF CacheStep
<1> QED
  BY <1>1, <1>2, <1>4, UsesWithoutLock, AnsweredOK

LEMMA ProbeAnswersOK ==
  ASSUME EdgeInv, NEW c \in EdgeCalls, ProbeAnswers(c)
  PROVE  EdgeInv' /\ (StreamCallOK => StreamCallOK')
<1>1. /\ ecalls[c].step = "using" /\ UNCHANGED <<edge, chan, bridge>> /\ Answers(c, 200)
  BY DEF ProbeAnswers
<1>2. CacheStep /\ chan'.stores = chan.stores /\ chan'.holder = chan.holder \ {c}
  BY <1>1, ChanTyped, UsesWithoutLock DEF CacheStep
<1> QED
  BY <1>1, <1>2, UsesWithoutLock, AnsweredOK

LEMMA CallEndsOK ==
  ASSUME EdgeInv, NEW c \in EdgeCalls, CallEnds(c)
  PROVE  EdgeInv' /\ (StreamCallOK => StreamCallOK')
<1>1. /\ ecalls[c].step = "answered" /\ UNCHANGED <<edge, chan, bridge>>
      /\ ecalls' = [ecalls EXCEPT ![c] = NoRequest]
  BY DEF CallEnds, Becomes
<1>2. PICK r : r = NoRequest
  OBVIOUS
<1>3. r.step = "idle" /\ r.kind = "none"
  BY <1>2 DEF NoRequest
<1>4. CallStep(c, r)
  BY <1>1, <1>2, <1>3, ChanTyped DEF CallStep, Passing
<1>5. HolderOK'
  BY <1>1, <1>2, <1>3, HolderSame
<1>6. FreshFor(r, chan')
  BY <1>3 DEF FreshFor
<1>7. EdgeInv'
  BY <1>4, <1>5, <1>6, CallStepOK
<1>8. ASSUME StreamCallOK PROVE StreamCallOK'
  BY <1>1, <1>2, <1>3, <1>8, StreamSame DEF Passing
<1> QED
  BY <1>7, <1>8

-----------------------------------------------------------------------------
(* The bridge: the frames on their way up and down are numbered without a  *)
(* gap, from what the other end has seen to what was sent.                 *)

FrameType == [n : Nat, size : Nat]

BridgeType ==
  [state : {"none", "open", "closed"}, toBackend : Seq(FrameType), grpc : Seq(FrameType),
   fromBackend : Seq(FrameType), upTask : BOOLEAN, downTask : BOOLEAN, backend : BOOLEAN,
   sent : Nat, got : Seq(Nat), pushed : Nat, shown : Seq(Nat)]

Numbered(s, k) == \A i \in 1..Len(s) : s[i].n = k + i

\* Up: while the backend is there nothing between the socket and what it took
\* is missing.
UpOK(b) ==
  b.backend =>
    /\ Numbered(b.grpc, Len(b.got))
    /\ Numbered(b.toBackend, Len(b.got) + Len(b.grpc))
    /\ b.state = "open" => b.sent = Len(b.got) + Len(b.grpc) + Len(b.toBackend)

\* Down: while the task runs everything pushed was shown or is queued.
DownOK(b) ==
  /\ Numbered(b.fromBackend, Len(b.shown))
  /\ b.downTask => b.pushed = Len(b.shown) + Len(b.fromBackend)

\* No stream yet.
UnopenedOK(b) ==
  b.state = "none" =>
    /\ b.toBackend = << >> /\ b.grpc = << >> /\ b.fromBackend = << >> /\ b.got = << >>
    /\ b.shown = << >> /\ b.sent = 0 /\ b.pushed = 0 /\ ~b.upTask /\ ~b.downTask

QueuesOK(b) == Len(b.toBackend) <= StreamQueue /\ Len(b.fromBackend) <= StreamQueue

BridgeOK(b) ==
  /\ b \in BridgeType /\ IsRunOf(b.got) /\ IsRunOf(b.shown)
  /\ UpOK(b) /\ DownOK(b) /\ UnopenedOK(b) /\ QueuesOK(b)

LEMMA FrameTaken ==
  ASSUME NEW s \in Seq(FrameType), s # << >>, NEW k \in Nat, Numbered(s, k)
  PROVE  /\ Tail(s) \in Seq(FrameType) /\ Len(Tail(s)) = Len(s) - 1 /\ Len(s) \in Nat \ {0}
         /\ Head(s) \in FrameType /\ Head(s).n = k + 1 /\ Numbered(Tail(s), k + 1)
<1>1. Tail(s) \in Seq(FrameType) /\ Len(Tail(s)) = Len(s) - 1 /\ Len(s) \in Nat /\ Len(s) > 0
  OBVIOUS
<1>2. Head(s) = s[1] /\ s[1] \in FrameType /\ s[1].n = k + 1
  BY <1>1 DEF Numbered
<1>3. ASSUME NEW i \in 1..Len(Tail(s)) PROVE Tail(s)[i].n = (k + 1) + i
  <2>1. Tail(s)[i] = s[i + 1] /\ i + 1 \in 1..Len(s)
    BY <1>1
  <2>2. s[i + 1].n = k + (i + 1)
    BY <2>1 DEF Numbered
  <2> QED
    BY <2>1, <2>2
<1> QED
  BY <1>1, <1>2, <1>3 DEF Numbered

LEMMA FrameQueued ==
  ASSUME NEW s \in Seq(FrameType), NEW k \in Nat, Numbered(s, k), NEW f \in FrameType,
         f.n = k + Len(s) + 1
  PROVE  /\ Append(s, f) \in Seq(FrameType) /\ Len(Append(s, f)) = Len(s) + 1
         /\ Numbered(Append(s, f), k)
<1>1. Append(s, f) \in Seq(FrameType) /\ Len(Append(s, f)) = Len(s) + 1 /\ Len(s) \in Nat
  OBVIOUS
<1>2. ASSUME NEW i \in 1..Len(Append(s, f)) PROVE Append(s, f)[i].n = k + i
  <2>1. CASE i = Len(s) + 1
    <3>1. Append(s, f)[i] = f
      BY <2>1
    <3> QED
      BY <2>1, <3>1, <1>1
  <2>2. CASE i # Len(s) + 1
    <3>1. i \in 1..Len(s) /\ Append(s, f)[i] = s[i]
      BY <1>1, <2>2
    <3> QED
      BY <3>1 DEF Numbered
  <2> QED
    BY <2>1, <2>2
<1> QED
  BY <1>1, <1>2 DEF Numbered

LEMMA RunGrows ==
  ASSUME NEW s \in Seq(Nat), IsRunOf(s), NEW n \in Nat, n = Len(s) + 1
  PROVE  Append(s, n) \in Seq(Nat) /\ Len(Append(s, n)) = Len(s) + 1 /\ IsRunOf(Append(s, n))
<1>1. Append(s, n) \in Seq(Nat) /\ Len(Append(s, n)) = Len(s) + 1 /\ Len(s) \in Nat
      /\ DOMAIN Append(s, n) = 1..(Len(s) + 1) /\ DOMAIN s = 1..Len(s)
  OBVIOUS
<1>2. ASSUME NEW i \in 1..(Len(s) + 1) PROVE Append(s, n)[i] = i
  <2>1. CASE i = Len(s) + 1
    BY <2>1
  <2>2. CASE i # Len(s) + 1
    <3>1. i \in 1..Len(s) /\ Append(s, n)[i] = s[i]
      BY <1>1, <2>2
    <3> QED
      BY <1>1, <3>1 DEF IsRunOf
  <2> QED
    BY <2>1, <2>2
<1> QED
  BY <1>1, <1>2 DEF IsRunOf

LEMMA NoFrames == << >> \in Seq(FrameType)
OBVIOUS

LEMMA EmptyNumbered == ASSUME NEW k PROVE Numbered(<< >>, k)
BY DEF Numbered

LEMMA BridgeInitOK == ASSUME EdgeInit PROVE BridgeOK(bridge)
<1>1. bridge = [state |-> "none", toBackend |-> <<>>, grpc |-> <<>>, fromBackend |-> <<>>,
                upTask |-> FALSE, downTask |-> FALSE, backend |-> TRUE,
                sent |-> 0, got |-> <<>>, pushed |-> 0, shown |-> <<>>]
  BY DEF EdgeInit
<1>2. bridge \in BridgeType
  BY <1>1 DEF BridgeType
<1>3. IsRunOf(bridge.got) /\ IsRunOf(bridge.shown)
  BY <1>1 DEF IsRunOf
<1>4. UpOK(bridge) /\ DownOK(bridge)
  BY <1>1, EmptyNumbered DEF UpOK, DownOK
<1>5. UnopenedOK(bridge) /\ QueuesOK(bridge)
  BY <1>1, EdgeAssumption DEF UnopenedOK, QueuesOK
<1> QED
  BY <1>2, <1>3, <1>4, <1>5 DEF BridgeOK

\* The fields of a bridge.
LEMMA BridgeFields ==
  ASSUME NEW b, BridgeOK(b)
  PROVE  /\ b \in BridgeType
         /\ b.toBackend \in Seq(FrameType) /\ b.grpc \in Seq(FrameType)
         /\ b.fromBackend \in Seq(FrameType) /\ b.got \in Seq(Nat) /\ b.shown \in Seq(Nat)
         /\ b.sent \in Nat /\ b.pushed \in Nat
         /\ Len(b.got) \in Nat /\ Len(b.grpc) \in Nat /\ Len(b.toBackend) \in Nat
         /\ Len(b.shown) \in Nat /\ Len(b.fromBackend) \in Nat
<1>1. /\ b \in BridgeType
      /\ b.toBackend \in Seq(FrameType) /\ b.grpc \in Seq(FrameType)
      /\ b.fromBackend \in Seq(FrameType) /\ b.got \in Seq(Nat) /\ b.shown \in Seq(Nat)
      /\ b.sent \in Nat /\ b.pushed \in Nat
  BY DEF BridgeOK, BridgeType
<1> QED
  BY <1>1

\* The stream opens.
LEMMA BridgeOpensOK ==
  ASSUME NEW b, BridgeOK(b), b.state = "none", NEW u,
         u = [b EXCEPT !.state = "open", !.upTask = TRUE, !.downTask = TRUE]
  PROVE  BridgeOK(u)
<1>1. b \in BridgeType
  BY DEF BridgeOK
<1>2. /\ u.state = "open" /\ u.toBackend = b.toBackend /\ u.grpc = b.grpc
      /\ u.fromBackend = b.fromBackend /\ u.got = b.got /\ u.shown = b.shown
      /\ u.sent = b.sent /\ u.pushed = b.pushed /\ u \in BridgeType
  BY <1>1 DEF BridgeType
<1>3. /\ b.toBackend = << >> /\ b.grpc = << >> /\ b.fromBackend = << >> /\ b.got = << >>
      /\ b.shown = << >> /\ b.sent = 0 /\ b.pushed = 0
  BY DEF BridgeOK, UnopenedOK
<1>4. UpOK(u) /\ DownOK(u)
  <2>1. Numbered(u.grpc, Len(u.got)) /\ Numbered(u.toBackend, Len(u.got) + Len(u.grpc))
        /\ Numbered(u.fromBackend, Len(u.shown))
    BY <1>2, <1>3, EmptyNumbered
  <2>2. /\ u.sent = Len(u.got) + Len(u.grpc) + Len(u.toBackend)
        /\ u.pushed = Len(u.shown) + Len(u.fromBackend)
    <3>1. /\ Len(u.got) = 0 /\ Len(u.grpc) = 0 /\ Len(u.toBackend) = 0
          /\ Len(u.shown) = 0 /\ Len(u.fromBackend) = 0
      BY <1>2, <1>3
    <3>2. PICK a, d, c, e, g : /\ a = Len(u.got) /\ d = Len(u.grpc) /\ c = Len(u.toBackend)
                               /\ e = Len(u.shown) /\ g = Len(u.fromBackend)
      OBVIOUS
    <3>3. a = 0 /\ d = 0 /\ c = 0 /\ e = 0 /\ g = 0
      BY <3>1, <3>2
    <3>4. u.sent = a + d + c /\ u.pushed = e + g
      BY <1>2, <1>3, <3>3
    <3> QED
      BY <3>2, <3>4
  <2> QED
    BY <2>1, <2>2 DEF UpOK, DownOK
<1>5. UnopenedOK(u) /\ QueuesOK(u) /\ IsRunOf(u.got) /\ IsRunOf(u.shown)
  BY <1>2 DEF BridgeOK, UnopenedOK, QueuesOK
<1> QED
  BY <1>2, <1>4, <1>5 DEF BridgeOK

\* The socket closes, a task ends, a queue is dropped: what is left is still
\* in order.
LEMMA BridgeShrinksOK ==
  ASSUME NEW b, BridgeOK(b), b.state # "none", NEW u \in BridgeType,
         u.state \in {b.state, "closed"}, u.got = b.got, u.shown = b.shown,
         u.fromBackend = b.fromBackend, u.pushed = b.pushed, u.downTask => b.downTask,
         u.backend => /\ b.backend /\ u.grpc = b.grpc /\ u.toBackend = b.toBackend
                      /\ u.sent = b.sent \/ u.state = "closed",
         u.toBackend \in {b.toBackend, << >>}
  PROVE  BridgeOK(u)
<1>1. UpOK(u)
  BY DEF BridgeOK, UpOK
<1>2. DownOK(u) /\ UnopenedOK(u)
  BY DEF BridgeOK, DownOK, UnopenedOK
<1>3. QueuesOK(u)
  <2>1. Len(<< >>) <= StreamQueue
    BY EdgeAssumption
  <2> QED
    BY <2>1 DEF BridgeOK, QueuesOK
<1> QED
  BY <1>1, <1>2, <1>3 DEF BridgeOK

\* A frame from the browser.
LEMMA SocketSendsOK ==
  ASSUME NEW b, BridgeOK(b), b.state = "open", NEW size \in EdgeSizes, NEW u,
         u = [SocketFrame(b, Frame(b.sent + 1, size)) EXCEPT !.sent = b.sent + 1]
  PROVE  BridgeOK(u)
<1> DEFINE f == Frame(b.sent + 1, size)
<1>0. PICK bToBackend, bGrpc, bFromBackend, bGot, bShown :
        /\ bToBackend = b.toBackend
        /\ bGrpc = b.grpc
        /\ bFromBackend = b.fromBackend
        /\ bGot = b.got
        /\ bShown = b.shown
  OBVIOUS
<1>1. /\ b \in BridgeType
      /\ bToBackend \in Seq(FrameType) /\ bGrpc \in Seq(FrameType)
      /\ bFromBackend \in Seq(FrameType) /\ bGot \in Seq(Nat) /\ bShown \in Seq(Nat)
      /\ b.sent \in Nat /\ b.pushed \in Nat
      /\ Len(bGot) \in Nat /\ Len(bGrpc) \in Nat /\ Len(bToBackend) \in Nat
  BY <1>0, BridgeFields
<1>2. f \in FrameType /\ f.n = b.sent + 1
  <2>1. size \in Nat
    BY <1>0, EdgeAssumption
  <2> QED
    BY <1>0, <1>1, <2>1 DEF Frame, FrameType
<1>3. PICK m \in Nat : m = b.sent + 1
  BY <1>0, <1>1
<1>4. \/ u = [[b EXCEPT !.state = "closed"] EXCEPT !.sent = m]
      \/ /\ Len(bToBackend) < StreamQueue
         /\ u = [[b EXCEPT !.toBackend = Append(@, f)] EXCEPT !.sent = m]
  <2>1. PICK w : w = SocketFrame(b, f)
    OBVIOUS
  <2>2. u = [w EXCEPT !.sent = m]
    BY <1>3, <2>1
  <2>3. \/ w = [b EXCEPT !.state = "closed"]
        \/ w = [b EXCEPT !.toBackend = Append(@, f)] /\ ~(Len(b.toBackend) >= StreamQueue)
    BY <2>1 DEF SocketFrame
  <2>4. ~(Len(bToBackend) >= StreamQueue) => Len(bToBackend) < StreamQueue
    BY <1>1, EdgeAssumption
  <2>5. CASE w = [b EXCEPT !.state = "closed"]
    BY <2>2, <2>5
  <2>6. CASE w = [b EXCEPT !.toBackend = Append(@, f)] /\ ~(Len(bToBackend) >= StreamQueue)
    BY <2>2, <2>4, <2>6
  <2> QED
    BY <1>0, <2>3, <2>5, <2>6
<1> HIDE DEF f
<1>5. CASE u = [[b EXCEPT !.state = "closed"] EXCEPT !.sent = m]
  <2>1. /\ u \in BridgeType /\ u.state = "closed" /\ u.got = bGot /\ u.shown = bShown
        /\ u.fromBackend = bFromBackend /\ u.pushed = b.pushed /\ u.downTask = b.downTask
        /\ u.backend = b.backend /\ u.grpc = bGrpc /\ u.toBackend = bToBackend
    BY <1>0, <1>1, <1>5 DEF BridgeType
  <2> QED
    BY <1>0, <2>1, BridgeShrinksOK
<1>6. CASE /\ Len(bToBackend) < StreamQueue
           /\ u = [[b EXCEPT !.toBackend = Append(@, f)] EXCEPT !.sent = m]
  <2>1. PICK q : q = Append(bToBackend, f)
    OBVIOUS
  <2>2. q \in Seq(FrameType) /\ Len(q) = Len(bToBackend) + 1
    BY <1>0, <1>1, <1>2, <2>1
  <2>3. u = [[b EXCEPT !.toBackend = q] EXCEPT !.sent = m]
    BY <1>0, <1>6, <2>1
  <2>4. /\ u \in BridgeType /\ u.state = b.state /\ u.got = bGot /\ u.shown = bShown
        /\ u.fromBackend = bFromBackend /\ u.pushed = b.pushed /\ u.downTask = b.downTask
        /\ u.backend = b.backend /\ u.grpc = bGrpc /\ u.toBackend = q /\ u.sent = m
    BY <1>0, <1>1, <2>2, <2>3 DEF BridgeType
  <2>5. UpOK(u)
    <3>1. SUFFICES ASSUME b.backend
                   PROVE  /\ Numbered(bGrpc, Len(bGot))
                          /\ Numbered(q, Len(bGot) + Len(bGrpc))
                          /\ m = Len(bGot) + Len(bGrpc) + Len(q)
      BY <1>0, <2>4 DEF UpOK
    <3>2. /\ Numbered(bGrpc, Len(bGot)) /\ Numbered(bToBackend, Len(bGot) + Len(bGrpc))
          /\ b.sent = Len(bGot) + Len(bGrpc) + Len(bToBackend)
      BY <1>0, <3>1 DEF BridgeOK, UpOK
    <3>3. PICK k \in Nat : k = Len(bGot) + Len(bGrpc)
      BY <1>1
    <3>4. f.n = k + Len(bToBackend) + 1
      BY <1>0, <1>1, <1>2, <3>2, <3>3
    <3>5. Numbered(q, k)
      BY <1>0, <1>1, <1>2, <2>1, <3>2, <3>3, <3>4, FrameQueued
    <3> QED
      BY <1>1, <1>3, <2>2, <3>2, <3>3, <3>5
  <2>6. QueuesOK(u)
    BY <1>0, <1>1, <1>6, <2>2, <2>4, EdgeAssumption DEF BridgeOK, QueuesOK
  <2>7. DownOK(u) /\ UnopenedOK(u) /\ IsRunOf(u.got) /\ IsRunOf(u.shown)
    BY <1>0, <2>4 DEF BridgeOK, DownOK, UnopenedOK
  <2> QED
    BY <1>0, <2>4, <2>5, <2>6, <2>7 DEF BridgeOK
<1> QED
  BY <1>0, <1>4, <1>5, <1>6

\* The upward task forwards the next frame.
LEMMA UpForwardsOK ==
  ASSUME NEW b, BridgeOK(b), b.toBackend # << >>, b.backend, NEW u,
         u = [b EXCEPT !.toBackend = Tail(@), !.grpc = Append(@, Head(b.toBackend))]
  PROVE  BridgeOK(u)
<1>0. PICK bToBackend, bGrpc, bFromBackend, bGot, bShown :
        /\ bToBackend = b.toBackend
        /\ bGrpc = b.grpc
        /\ bFromBackend = b.fromBackend
        /\ bGot = b.got
        /\ bShown = b.shown
  OBVIOUS
<1>1. /\ b \in BridgeType
      /\ bToBackend \in Seq(FrameType) /\ bGrpc \in Seq(FrameType)
      /\ Len(bGot) \in Nat /\ Len(bGrpc) \in Nat /\ Len(bToBackend) \in Nat
  BY <1>0, BridgeFields
<1>2. PICK t, g, h : t = Tail(bToBackend) /\ h = Head(bToBackend) /\ g = Append(bGrpc, h)
  OBVIOUS
<1>3. /\ Numbered(bGrpc, Len(bGot)) /\ Numbered(bToBackend, Len(bGot) + Len(bGrpc))
      /\ b.state = "open" => b.sent = Len(bGot) + Len(bGrpc) + Len(bToBackend)
  BY <1>0 DEF BridgeOK, UpOK
<1>4. PICK k \in Nat, l \in Nat : k = Len(bGot) + Len(bGrpc) /\ l = Len(bGot)
  <2>1. Len(bGot) + Len(bGrpc) \in Nat
    BY <1>1
  <2> QED
    BY <1>1, <2>1
<1>5. /\ t \in Seq(FrameType) /\ Len(t) = Len(bToBackend) - 1 /\ h \in FrameType
      /\ h.n = k + 1 /\ Numbered(t, k + 1)
  BY <1>0, <1>1, <1>2, <1>3, <1>4, FrameTaken
<1>6. g \in Seq(FrameType) /\ Len(g) = Len(bGrpc) + 1 /\ Numbered(g, l)
  <2>1. h.n = l + Len(bGrpc) + 1
    BY <1>0, <1>1, <1>4, <1>5
  <2> QED
    BY <1>0, <1>1, <1>2, <1>3, <1>4, <1>5, <2>1, FrameQueued
<1>7. u = [b EXCEPT !.toBackend = t, !.grpc = g]
  BY <1>0, <1>2
<1>8. /\ u \in BridgeType /\ u.state = b.state /\ u.got = bGot /\ u.shown = bShown
      /\ u.fromBackend = bFromBackend /\ u.pushed = b.pushed /\ u.downTask = b.downTask
      /\ u.backend = b.backend /\ u.grpc = g /\ u.toBackend = t /\ u.sent = b.sent
  BY <1>0, <1>1, <1>5, <1>6, <1>7 DEF BridgeType
<1>9. UpOK(u)
  <2>1. Len(bGot) + Len(g) = k + 1
    BY <1>1, <1>4, <1>6
  <2>2. Len(bGot) + Len(g) + Len(t) = Len(bGot) + Len(bGrpc) + Len(bToBackend)
    BY <1>1, <1>5, <1>6
  <2> QED
    BY <1>0, <1>3, <1>4, <1>5, <1>6, <1>8, <2>1, <2>2 DEF UpOK
<1>10. QueuesOK(u)
  BY <1>0, <1>1, <1>5, <1>8, EdgeAssumption DEF BridgeOK, QueuesOK
<1>11. b.state # "none"
  BY <1>0 DEF BridgeOK, UnopenedOK
<1>12. DownOK(u) /\ UnopenedOK(u) /\ IsRunOf(u.got) /\ IsRunOf(u.shown)
  BY <1>0, <1>8, <1>11 DEF BridgeOK, DownOK, UnopenedOK
<1> QED
  BY <1>0, <1>8, <1>9, <1>10, <1>12 DEF BridgeOK

\* The backend takes the next frame.
LEMMA BackendTakesOK ==
  ASSUME NEW b, BridgeOK(b), b.grpc # << >>, b.backend, NEW u,
         u = [b EXCEPT !.grpc = Tail(@), !.got = Append(@, Head(b.grpc).n)]
  PROVE  BridgeOK(u)
<1>0. PICK bToBackend, bGrpc, bFromBackend, bGot, bShown :
        /\ bToBackend = b.toBackend
        /\ bGrpc = b.grpc
        /\ bFromBackend = b.fromBackend
        /\ bGot = b.got
        /\ bShown = b.shown
  OBVIOUS
<1>1. /\ b \in BridgeType
      /\ bToBackend \in Seq(FrameType) /\ bGrpc \in Seq(FrameType) /\ bGot \in Seq(Nat)
      /\ Len(bGot) \in Nat /\ Len(bGrpc) \in Nat /\ Len(bToBackend) \in Nat
  BY <1>0, BridgeFields
<1>2. PICK t, g, n : t = Tail(bGrpc) /\ n = Head(bGrpc).n /\ g = Append(bGot, n)
  OBVIOUS
<1>3. /\ Numbered(bGrpc, Len(bGot)) /\ Numbered(bToBackend, Len(bGot) + Len(bGrpc))
      /\ b.state = "open" => b.sent = Len(bGot) + Len(bGrpc) + Len(bToBackend)
  BY <1>0 DEF BridgeOK, UpOK
<1>4. PICK l \in Nat : l = Len(bGot)
  BY <1>0, <1>1
<1>5. /\ t \in Seq(FrameType) /\ Len(t) = Len(bGrpc) - 1 /\ n = l + 1 /\ n \in Nat
      /\ Numbered(t, l + 1)
  <2>1. /\ t \in Seq(FrameType) /\ Len(t) = Len(bGrpc) - 1
        /\ Head(bGrpc).n = l + 1 /\ Numbered(t, l + 1)
    BY <1>0, <1>1, <1>2, <1>3, <1>4, FrameTaken
  <2> QED
    BY <1>0, <1>2, <2>1
<1>6. g \in Seq(Nat) /\ Len(g) = Len(bGot) + 1 /\ IsRunOf(g)
  <2>1. IsRunOf(bGot)
    BY <1>0 DEF BridgeOK
  <2> QED
    BY <1>0, <1>1, <1>2, <1>4, <1>5, <2>1, RunGrows
<1>7. u = [b EXCEPT !.grpc = t, !.got = g]
  BY <1>0, <1>2
<1>8. /\ u \in BridgeType /\ u.state = b.state /\ u.got = g /\ u.shown = bShown
      /\ u.fromBackend = bFromBackend /\ u.pushed = b.pushed /\ u.downTask = b.downTask
      /\ u.backend = b.backend /\ u.grpc = t /\ u.toBackend = bToBackend /\ u.sent = b.sent
  BY <1>0, <1>1, <1>5, <1>6, <1>7 DEF BridgeType
<1>9. UpOK(u)
  <2>1. Len(g) = l + 1 /\ Len(g) + Len(t) = Len(bGot) + Len(bGrpc)
    BY <1>1, <1>4, <1>5, <1>6
  <2> QED
    BY <1>0, <1>3, <1>5, <1>8, <2>1 DEF UpOK
<1>10. QueuesOK(u)
  BY <1>0, <1>8 DEF BridgeOK, QueuesOK
<1>11. b.state # "none"
  BY <1>0 DEF BridgeOK, UnopenedOK
<1>12. DownOK(u) /\ UnopenedOK(u) /\ IsRunOf(u.got) /\ IsRunOf(u.shown)
  BY <1>0, <1>6, <1>8, <1>11 DEF BridgeOK, DownOK, UnopenedOK
<1> QED
  BY <1>0, <1>8, <1>9, <1>10, <1>12 DEF BridgeOK

\* The backend sends: the frame is queued, or the downward task ends.
LEMMA BackendSendsOK ==
  ASSUME NEW b, BridgeOK(b), b.downTask, NEW size \in EdgeSizes, NEW ends \in BOOLEAN,
         ends \/ Len(b.fromBackend) < StreamQueue, NEW u,
         u = [b EXCEPT !.pushed = @ + 1, !.downTask = ~ends,
                       !.fromBackend = IF ends THEN @ ELSE Append(@, Frame(b.pushed + 1, size))]
  PROVE  BridgeOK(u)
<1>0. PICK bToBackend, bGrpc, bFromBackend, bGot, bShown :
        /\ bToBackend = b.toBackend
        /\ bGrpc = b.grpc
        /\ bFromBackend = b.fromBackend
        /\ bGot = b.got
        /\ bShown = b.shown
  OBVIOUS
<1>1. /\ b \in BridgeType /\ bFromBackend \in Seq(FrameType) /\ b.pushed \in Nat
      /\ Len(bShown) \in Nat /\ Len(bFromBackend) \in Nat
  BY <1>0, BridgeFields
<1>2. PICK f, m, d, q : /\ f = Frame(b.pushed + 1, size) /\ m = b.pushed + 1 /\ d = ~ends
                        /\ q = IF ends THEN bFromBackend ELSE Append(bFromBackend, f)
  OBVIOUS
<1>3. f \in FrameType /\ f.n = m /\ m \in Nat /\ d \in BOOLEAN
  <2>1. size \in Nat
    BY <1>0, EdgeAssumption
  <2> QED
    BY <1>0, <1>1, <1>2, <2>1 DEF Frame, FrameType
<1>4. Numbered(bFromBackend, Len(bShown)) /\ b.pushed = Len(bShown) + Len(bFromBackend)
  BY <1>0 DEF BridgeOK, DownOK
<1>5. /\ q \in Seq(FrameType) /\ Numbered(q, Len(bShown)) /\ Len(q) <= StreamQueue
      /\ d => m = Len(bShown) + Len(q)
  <2>1. CASE ends
    BY <1>0, <1>1, <1>2, <1>4, <2>1 DEF BridgeOK, QueuesOK
  <2>2. CASE ~ends
    <3>1. PICK l \in Nat : l = Len(bShown)
      BY <1>0, <1>1
    <3>2. q = Append(bFromBackend, f) /\ f.n = l + Len(bFromBackend) + 1
      BY <1>0, <1>1, <1>2, <1>3, <1>4, <2>2, <3>1
    <3>3. q \in Seq(FrameType) /\ Len(q) = Len(bFromBackend) + 1 /\ Numbered(q, l)
      BY <1>0, <1>1, <1>3, <1>4, <3>1, <3>2, FrameQueued
    <3>4. Len(bFromBackend) < StreamQueue
      BY <1>0, <2>2
    <3>5. Len(q) <= StreamQueue
      BY <1>1, <3>3, <3>4, EdgeAssumption
    <3>6. m = Len(bShown) + Len(q)
      <4>1. PICK p : p = b.pushed
        OBVIOUS
      <4>2. m = p + 1 /\ p = Len(bShown) + Len(bFromBackend)
        BY <1>2, <1>4, <4>1
      <4> QED
        BY <1>1, <3>3, <4>2
    <3> QED
      BY <3>1, <3>3, <3>5, <3>6
  <2> QED
    BY <1>0, <2>1, <2>2
<1>6. u = [b EXCEPT !.pushed = m, !.downTask = d, !.fromBackend = q]
  BY <1>0, <1>2
<1>7. /\ u \in BridgeType /\ u.state = b.state /\ u.got = bGot /\ u.shown = bShown
      /\ u.fromBackend = q /\ u.pushed = m /\ u.downTask = d
      /\ u.backend = b.backend /\ u.grpc = bGrpc /\ u.toBackend = bToBackend /\ u.sent = b.sent
  BY <1>0, <1>1, <1>3, <1>5, <1>6 DEF BridgeType
<1>8. b.state # "none"
  BY <1>0 DEF BridgeOK, UnopenedOK
<1>9. UpOK(u) /\ DownOK(u) /\ UnopenedOK(u)
  BY <1>0, <1>5, <1>7, <1>8 DEF BridgeOK, UpOK, DownOK, UnopenedOK
<1>10. QueuesOK(u) /\ IsRunOf(u.got) /\ IsRunOf(u.shown)
  BY <1>0, <1>5, <1>7 DEF BridgeOK, QueuesOK
<1> QED
  BY <1>0, <1>7, <1>9, <1>10 DEF BridgeOK

\* The browser is shown the next frame.
LEMMA SocketTakesOK ==
  ASSUME NEW b, BridgeOK(b), b.state = "open", b.fromBackend # << >>, NEW u,
         u = [b EXCEPT !.fromBackend = Tail(@), !.shown = Append(@, Head(b.fromBackend).n)]
  PROVE  BridgeOK(u)
<1>0. PICK bToBackend, bGrpc, bFromBackend, bGot, bShown :
        /\ bToBackend = b.toBackend
        /\ bGrpc = b.grpc
        /\ bFromBackend = b.fromBackend
        /\ bGot = b.got
        /\ bShown = b.shown
  OBVIOUS
<1>1. /\ b \in BridgeType /\ bFromBackend \in Seq(FrameType) /\ bShown \in Seq(Nat)
      /\ Len(bShown) \in Nat /\ Len(bFromBackend) \in Nat
  BY <1>0, BridgeFields
<1>2. PICK t, g, n : t = Tail(bFromBackend) /\ n = Head(bFromBackend).n /\ g = Append(bShown, n)
  OBVIOUS
<1>3. Numbered(bFromBackend, Len(bShown))
      /\ (b.downTask => b.pushed = Len(bShown) + Len(bFromBackend))
  BY <1>0 DEF BridgeOK, DownOK
<1>4. PICK l \in Nat : l = Len(bShown)
  BY <1>0, <1>1
<1>5. /\ t \in Seq(FrameType) /\ Len(t) = Len(bFromBackend) - 1 /\ n = l + 1 /\ n \in Nat
      /\ Numbered(t, l + 1)
  <2>1. /\ t \in Seq(FrameType) /\ Len(t) = Len(bFromBackend) - 1
        /\ Head(bFromBackend).n = l + 1 /\ Numbered(t, l + 1)
    BY <1>0, <1>1, <1>2, <1>3, <1>4, FrameTaken
  <2> QED
    BY <1>0, <1>2, <2>1
<1>6. g \in Seq(Nat) /\ Len(g) = Len(bShown) + 1 /\ IsRunOf(g)
  <2>1. IsRunOf(bShown)
    BY <1>0 DEF BridgeOK
  <2> QED
    BY <1>0, <1>1, <1>2, <1>4, <1>5, <2>1, RunGrows
<1>7. u = [b EXCEPT !.fromBackend = t, !.shown = g]
  BY <1>0, <1>2
<1>8. /\ u \in BridgeType /\ u.state = b.state /\ u.got = bGot /\ u.shown = g
      /\ u.fromBackend = t /\ u.pushed = b.pushed /\ u.downTask = b.downTask
      /\ u.backend = b.backend /\ u.grpc = bGrpc /\ u.toBackend = bToBackend /\ u.sent = b.sent
  BY <1>0, <1>1, <1>5, <1>6, <1>7 DEF BridgeType
<1>9. DownOK(u)
  <2>1. Len(g) = l + 1 /\ Len(g) + Len(t) = Len(bShown) + Len(bFromBackend)
    BY <1>1, <1>4, <1>5, <1>6
  <2> QED
    BY <1>0, <1>3, <1>5, <1>8, <2>1 DEF DownOK
<1>10. QueuesOK(u)
  BY <1>0, <1>1, <1>5, <1>8, EdgeAssumption DEF BridgeOK, QueuesOK
<1>11. UpOK(u) /\ UnopenedOK(u) /\ IsRunOf(u.got) /\ IsRunOf(u.shown)
  BY <1>0, <1>6, <1>8 DEF BridgeOK, UpOK, UnopenedOK
<1> QED
  BY <1>0, <1>8, <1>9, <1>10, <1>11 DEF BridgeOK

-----------------------------------------------------------------------------
(* The edge as a whole.                                                    *)

EdgeAll == EdgeInv /\ StreamCallOK /\ BridgeOK(bridge)

LEMMA StreamOpensOK ==
  ASSUME EdgeAll, NEW c \in EdgeCalls, NEW ok \in BOOLEAN, StreamOpens(c, ok)
  PROVE  EdgeAll'
<1>1. ecalls[c].step = "using" /\ ecalls[c].kind = "stream" /\ UNCHANGED edge /\ EdgeInv
  BY DEF StreamOpens, EdgeAll
<1>2. chan \in [cached : Nat, dials : Nat, stores : Nat, holder : SUBSET EdgeCalls]
  BY <1>1, ChanTyped
<1>3. ecalls[c].step \in Passing /\ chan.holder = chan.holder \ {c}
  BY <1>1, UsesWithoutLock
<1>4. CASE ok
  <2>1. /\ Answers(c, 101) /\ UNCHANGED chan
        /\ bridge' = [bridge EXCEPT !.state = "open", !.upTask = TRUE, !.downTask = TRUE]
    BY <1>4 DEF StreamOpens
  <2>2. CacheStep /\ chan'.stores = chan.stores /\ chan'.holder = chan.holder \ {c}
    BY <1>2, <1>3, <2>1 DEF CacheStep
  <2>3. EdgeInv'
    BY <1>1, <1>3, <2>1, <2>2, AnsweredOK
  <2>4. bridge.state = "none"
    BY <1>1, <1>3 DEF EdgeAll, StreamCallOK
  <2>5. BridgeOK(bridge)'
    <3>1. PICK b, u : b = bridge /\ u = bridge'
      OBVIOUS
    <3>2. BridgeOK(b) /\ b.state = "none"
          /\ u = [b EXCEPT !.state = "open", !.upTask = TRUE, !.downTask = TRUE]
      BY <2>1, <2>4, <3>1 DEF EdgeAll
    <3>3. BridgeOK(u)
      BY <3>2, BridgeOpensOK
    <3> QED
      BY <3>1, <3>3
  <2>6. StreamCallOK'
    <3>1. PICK r : r = [ecalls[c] EXCEPT !.step = "answered", !.status = 101]
      OBVIOUS
    <3>2. ecalls[c] \in RequestType
      BY <1>1, <1>3, OnItsWay
    <3>3. r.kind = "stream" /\ r.step = "answered"
      BY <1>1, <3>1, <3>2 DEF RequestType
    <3>4. /\ ecalls'[c] = r
          /\ \A d \in EdgeCalls : d # c => ecalls'[d] = ecalls[d]
      BY <1>1, <2>1, <3>1, ChanTyped DEF Answers, Becomes
    <3>5. \A d \in EdgeCalls : ecalls[d].kind = "stream" => d = c
      BY <1>1 DEF EdgeAll, StreamCallOK
    <3> QED
      BY <3>3, <3>4, <3>5 DEF StreamCallOK, Passing
  <2> QED
    BY <2>3, <2>5, <2>6 DEF EdgeAll
<1>5. CASE ~ok
  <2>1. Answers(c, 503) /\ chan' = [chan EXCEPT !.cached = 0] /\ UNCHANGED bridge
    BY <1>5 DEF StreamOpens
  <2>2. CacheStep /\ chan'.stores = chan.stores /\ chan'.holder = chan.holder \ {c}
    BY <1>2, <1>3, <2>1 DEF CacheStep
  <2>3. EdgeInv' /\ StreamCallOK'
    BY <1>1, <1>3, <2>1, <2>2, AnsweredOK DEF EdgeAll
  <2>4. BridgeOK(bridge)'
    <3>1. PICK b : b = bridge
      OBVIOUS
    <3>2. BridgeOK(b) /\ bridge' = b
      BY <2>1, <3>1 DEF EdgeAll
    <3> QED
      BY <3>2
  <2> QED
    BY <2>3, <2>4 DEF EdgeAll
<1> QED
  BY <1>4, <1>5

\* A call's step that leaves the bridge alone.
LEMMA CallsLeaveBridge ==
  ASSUME EdgeAll, UNCHANGED bridge, EdgeInv', StreamCallOK'
  PROVE  EdgeAll'
<1>1. PICK b : b = bridge
  OBVIOUS
<1>2. BridgeOK(b) /\ bridge' = b
  BY <1>1 DEF EdgeAll
<1>3. BridgeOK(bridge)'
  BY <1>2
<1> QED
  BY <1>3 DEF EdgeAll

LEMMA EdgeCallOK ==
  ASSUME EdgeAll, EdgeCallNext
  PROVE  EdgeAll'
<1>0. EdgeInv /\ StreamCallOK
  BY DEF EdgeAll
<1>1. ASSUME NEW e \in EdgeEnvs, EdgeStart(e) PROVE EdgeAll'
  BY <1>0, <1>1, EdgeStartOK, CallsLeaveBridge DEF EdgeStart
<1>2. ASSUME NEW c \in EdgeCalls, NEW k \in {"relay", "stream"}, NEW a \in {"present", "absent"},
             NEW o \in BOOLEAN, NEW s \in EdgeSizes, Request(c, k, a, o, s)
      PROVE  EdgeAll'
  <2>1. EdgeInv' /\ StreamCallOK'
    BY <1>0, <1>2, RequestOK
  <2>2. UNCHANGED bridge
    BY <1>2 DEF Request
  <2> QED
    BY <2>1, <2>2, CallsLeaveBridge
<1>3. ASSUME NEW c \in EdgeCalls,
             Readiness(c) \/ GetChannel(c) \/ DialLock(c) \/ StoreChannel(c)
             \/ ProbeTimesOut(c) \/ ProbeAnswers(c) \/ CallEnds(c)
      PROVE  EdgeAll'
  <2>1. EdgeInv' /\ StreamCallOK'
    BY <1>0, <1>3, ReadinessOK, GetChannelOK, DialLockOK, StoreChannelOK, ProbeTimesOutOK,
       ProbeAnswersOK, CallEndsOK
  <2>2. UNCHANGED bridge
    BY <1>3 DEF Readiness, GetChannel, DialLock, StoreChannel, ProbeTimesOut, ProbeAnswers, CallEnds
  <2> QED
    BY <2>1, <2>2, CallsLeaveBridge
<1>4. ASSUME NEW c \in EdgeCalls, NEW ok \in BOOLEAN, Connected(c, ok) PROVE EdgeAll'
  BY <1>0, <1>4, ConnectedOK, CallsLeaveBridge DEF Connected
<1>5. ASSUME NEW c \in EdgeCalls, NEW ok \in BOOLEAN, StreamOpens(c, ok) PROVE EdgeAll'
  BY <1>5, StreamOpensOK
<1>6. ASSUME NEW c \in EdgeCalls, NEW o \in {"ok", "status", "timeout"}, NEW s \in EdgeSizes,
             NEW f \in BOOLEAN, RelayAnswers(c, o, s, f)
      PROVE  EdgeAll'
  <2>1. EdgeInv' /\ StreamCallOK'
    BY <1>0, <1>6, RelayAnswersOK
  <2>2. UNCHANGED bridge
    BY <1>6 DEF RelayAnswers
  <2> QED
    BY <2>1, <2>2, CallsLeaveBridge
<1> QED
  BY <1>1, <1>2, <1>3, <1>4, <1>5, <1>6 DEF EdgeCallNext

\* A step of the bridge leaves the calls alone, and a stream stays open or
\* closes.
LEMMA BridgeLeavesCalls ==
  ASSUME EdgeAll, NEW u, Bridge(u), BridgeOK(u), u.state = "none" <=> bridge.state = "none"
  PROVE  EdgeAll'
<1>1. bridge' = u /\ UNCHANGED <<edge, chan, ecalls>>
  BY DEF Bridge
<1>2. BridgeOK(bridge)'
  BY <1>1
<1>3. StreamCallOK'
  BY <1>1 DEF EdgeAll, StreamCallOK
<1>4. EdgeInv'
  BY <1>1 DEF EdgeAll, EdgeInv, EdgeTyped, CallsOK, HolderOK, ProbesFresh
<1> QED
  BY <1>2, <1>3, <1>4 DEF EdgeAll

LEMMA BridgeStepOK ==
  ASSUME EdgeAll, BridgeNext
  PROVE  EdgeAll'
<1>0. PICK b : b = bridge
  OBVIOUS
<1>1. BridgeOK(b) /\ b \in BridgeType
  BY <1>0 DEF EdgeAll, BridgeOK
<1>2. ASSUME NEW size \in EdgeSizes, SocketSends(size) PROVE EdgeAll'
  <2>1. PICK u : u = [SocketFrame(b, Frame(b.sent + 1, size)) EXCEPT !.sent = b.sent + 1]
    OBVIOUS
  <2>2. Bridge(u) /\ b.state = "open"
    BY <1>0, <1>2, <2>1 DEF SocketSends
  <2>3. BridgeOK(u)
    BY <1>1, <2>1, <2>2, SocketSendsOK
  <2>4. u.state # "none"
    <3>1. PICK w, m : w = SocketFrame(b, Frame(b.sent + 1, size)) /\ m = b.sent + 1
      OBVIOUS
    <3>2. u = [w EXCEPT !.sent = m]
      BY <2>1, <3>1
    <3>3. w.state # "none"
      BY <1>1, <2>2, <3>1 DEF SocketFrame, BridgeType
    <3> QED
      BY <3>2, <3>3
  <2> QED
    BY <1>0, <2>2, <2>3, <2>4, BridgeLeavesCalls
<1>3. ASSUME NEW size \in EdgeSizes, BackendSends(size) PROVE EdgeAll'
  <2>1. PICK ends \in BOOLEAN : ends = (b.state = "closed" \/ size = 0 \/ size > MaxBody)
    OBVIOUS
  <2>2. PICK u : u = [b EXCEPT !.pushed = @ + 1, !.downTask = ~ends,
                        !.fromBackend = IF ends THEN @ ELSE Append(@, Frame(b.pushed + 1, size))]
    OBVIOUS
  <2>3. Bridge(u) /\ b.downTask
    BY <1>0, <1>3, <2>1, <2>2 DEF BackendSends
  <2>4. ends \/ Len(b.fromBackend) < StreamQueue
    BY <1>0, <1>3, <2>1 DEF BackendSends
  <2>5. BridgeOK(u)
    BY <1>1, <2>2, <2>3, <2>4, BackendSendsOK
  <2>6. u.state = b.state
    BY <1>1, <2>2 DEF BridgeType
  <2> QED
    BY <1>0, <2>3, <2>5, <2>6, BridgeLeavesCalls
<1>4. CASE SocketCloses
  <2>1. PICK u : u = [b EXCEPT !.state = "closed"]
    OBVIOUS
  <2>2. Bridge(u) /\ b.state = "open"
    BY <1>0, <1>4, <2>1 DEF SocketCloses
  <2>3. /\ u \in BridgeType /\ u.state = "closed" /\ u.got = b.got /\ u.shown = b.shown
        /\ u.fromBackend = b.fromBackend /\ u.pushed = b.pushed /\ u.downTask = b.downTask
        /\ u.backend = b.backend /\ u.grpc = b.grpc /\ u.toBackend = b.toBackend
    BY <1>1, <2>1 DEF BridgeType
  <2>4. BridgeOK(u)
    BY <1>1, <2>2, <2>3, BridgeShrinksOK
  <2> QED
    BY <1>0, <2>2, <2>3, <2>4, BridgeLeavesCalls
<1>5. CASE UpTask
  <2>0. b.upTask /\ b.state # "none"
    BY <1>0, <1>1, <1>5 DEF UpTask, BridgeOK, UnopenedOK
  <2>1. CASE /\ b.toBackend # <<>> /\ b.backend
             /\ Bridge([b EXCEPT !.toBackend = Tail(@), !.grpc = Append(@, Head(b.toBackend))])
    <3>1. PICK u : u = [b EXCEPT !.toBackend = Tail(@), !.grpc = Append(@, Head(b.toBackend))]
      OBVIOUS
    <3>2. BridgeOK(u)
      BY <1>1, <2>1, <3>1, UpForwardsOK
    <3>3. Bridge(u) /\ u.state = b.state
      BY <1>1, <2>1, <3>1 DEF BridgeType
    <3> QED
      BY <1>0, <3>2, <3>3, BridgeLeavesCalls
  <2>2. CASE /\ ~b.backend /\ Bridge([b EXCEPT !.upTask = FALSE, !.toBackend = <<>>])
    <3>1. PICK u : u = [b EXCEPT !.upTask = FALSE, !.toBackend = <<>>]
      OBVIOUS
    <3>2. /\ u \in BridgeType /\ u.state = b.state /\ u.got = b.got /\ u.shown = b.shown
          /\ u.fromBackend = b.fromBackend /\ u.pushed = b.pushed /\ u.downTask = b.downTask
          /\ u.backend = b.backend /\ u.toBackend = << >>
      <4>1. PICK e : e = << >> /\ e \in Seq(FrameType)
        BY NoFrames
      <4>2. u = [b EXCEPT !.upTask = FALSE, !.toBackend = e]
        BY <3>1, <4>1
      <4>3. /\ u \in BridgeType /\ u.state = b.state /\ u.got = b.got /\ u.shown = b.shown
            /\ u.fromBackend = b.fromBackend /\ u.pushed = b.pushed /\ u.downTask = b.downTask
            /\ u.backend = b.backend /\ u.toBackend = e
        <5>1. e \in Seq(FrameType)
          BY <4>1
        <5> QED
          BY <1>1, <4>2, <5>1 DEF BridgeType
      <4> QED
        BY <4>1, <4>3
    <3>3. BridgeOK(u)
      BY <1>1, <2>0, <2>2, <3>2, BridgeShrinksOK
    <3>4. Bridge(u)
      BY <2>2, <3>1
    <3> QED
      BY <1>0, <3>2, <3>3, <3>4, BridgeLeavesCalls
  <2>3. CASE Bridge([b EXCEPT !.upTask = FALSE])
    <3>1. PICK u : u = [b EXCEPT !.upTask = FALSE]
      OBVIOUS
    <3>2. /\ u \in BridgeType /\ u.state = b.state /\ u.got = b.got /\ u.shown = b.shown
          /\ u.fromBackend = b.fromBackend /\ u.pushed = b.pushed /\ u.downTask = b.downTask
          /\ u.backend = b.backend /\ u.grpc = b.grpc /\ u.toBackend = b.toBackend
          /\ u.sent = b.sent
      BY <1>1, <3>1 DEF BridgeType
    <3>3. BridgeOK(u)
      BY <1>1, <2>0, <3>2, BridgeShrinksOK
    <3>4. Bridge(u)
      BY <2>3, <3>1
    <3> QED
      BY <1>0, <3>2, <3>3, <3>4, BridgeLeavesCalls
  <2> QED
    BY <1>0, <1>5, <2>1, <2>2, <2>3 DEF UpTask
<1>6. CASE BackendTakes
  <2>1. PICK u : u = [b EXCEPT !.grpc = Tail(@), !.got = Append(@, Head(b.grpc).n)]
    OBVIOUS
  <2>2. b.grpc # << >> /\ b.backend /\ Bridge(u)
    BY <1>0, <1>6, <2>1 DEF BackendTakes
  <2>3. BridgeOK(u)
    BY <1>1, <2>1, <2>2, BackendTakesOK
  <2>4. u.state = b.state
    BY <1>1, <2>1 DEF BridgeType
  <2> QED
    BY <1>0, <2>2, <2>3, <2>4, BridgeLeavesCalls
<1>7. CASE BackendEnds
  <2>1. PICK u : u = [b EXCEPT !.backend = FALSE, !.downTask = FALSE, !.grpc = <<>>]
    OBVIOUS
  <2>2. b.state # "none" /\ Bridge(u)
    BY <1>0, <1>7, <2>1 DEF BackendEnds
  <2>3. /\ u \in BridgeType /\ u.state = b.state /\ u.got = b.got /\ u.shown = b.shown
        /\ u.fromBackend = b.fromBackend /\ u.pushed = b.pushed /\ u.downTask = FALSE
        /\ u.backend = FALSE /\ u.toBackend = b.toBackend
    <3>1. PICK e : e = << >> /\ e \in Seq(FrameType)
      BY NoFrames
    <3>2. u = [b EXCEPT !.backend = FALSE, !.downTask = FALSE, !.grpc = e]
      BY <2>1, <3>1
    <3>3. e \in Seq(FrameType)
      BY <3>1
    <3> QED
      BY <1>1, <3>2, <3>3 DEF BridgeType
  <2>4. BridgeOK(u)
    BY <1>1, <2>2, <2>3, BridgeShrinksOK
  <2> QED
    BY <1>0, <2>2, <2>3, <2>4, BridgeLeavesCalls
<1>8. CASE SocketTakes
  <2>1. CASE /\ b.state = "open" /\ b.fromBackend # << >>
             /\ Bridge([b EXCEPT !.fromBackend = Tail(@), !.shown = Append(@, Head(b.fromBackend).n)])
    <3>1. PICK u : u = [b EXCEPT !.fromBackend = Tail(@),
                                 !.shown = Append(@, Head(b.fromBackend).n)]
      OBVIOUS
    <3>2. BridgeOK(u)
      BY <1>1, <2>1, <3>1, SocketTakesOK
    <3>3. Bridge(u)
      BY <2>1, <3>1
    <3>4. u.state = b.state
      <4>1. PICK t, g : t = Tail(b.fromBackend) /\ g = Append(b.shown, Head(b.fromBackend).n)
        OBVIOUS
      <4>2. u = [b EXCEPT !.fromBackend = t, !.shown = g]
        BY <3>1, <4>1
      <4> QED
        BY <1>1, <4>2 DEF BridgeType
    <3> QED
      BY <1>0, <3>2, <3>3, <3>4, BridgeLeavesCalls
  <2>2. CASE b.state = "open" /\ Bridge([b EXCEPT !.state = "closed"])
    BY <1>0, <1>4, <2>2 DEF SocketCloses
  <2> QED
    BY <1>0, <1>8, <2>1, <2>2 DEF SocketTakes
<1> QED
  BY <1>2, <1>3, <1>4, <1>5, <1>6, <1>7, <1>8 DEF BridgeNext

LEMMA EdgeKeeps == ASSUME EdgeAll PROVE EdgeKeepsItsPromises
<1>1. EdgeFailsClosed
  <2>1. ASSUME NEW c \in EdgeCalls,
               \/ ecalls[c].step \notin {"idle", "answered"}
               \/ ecalls[c].step = "answered" /\ ecalls[c].status \in {101, 200}
        PROVE  edge.phase = "serving" /\ Admitted(ecalls[c])
    <3>1. ecalls[c] = NoRequest \/ ecalls[c] \in RequestType
      BY DEF EdgeAll, EdgeInv, EdgeTyped
    <3>2. ecalls[c].step \in EdgeSteps \cup {"idle"}
      BY <3>1 DEF NoRequest, RequestType
    <3>3. ecalls[c].step \in Passing \/ (ecalls[c].step = "answered" /\ ecalls[c].status \in {101, 200})
      BY <2>1, <3>2 DEF Passing, EdgeSteps
    <3> QED
      BY <3>3 DEF EdgeAll, EdgeInv, CallsOK
  <2>2. edge.phase = "serving" => edge.env.bind = "loopback"
          /\ Settings(edge.env) \cap {"absent", "blank", "notunicode"} = {}
    BY DEF EdgeAll, EdgeInv, EdgeTyped
  <2> QED
    <3>1. ASSUME NEW c \in EdgeCalls,
                 \/ ecalls[c].step \notin {"idle", "answered"}
                 \/ ecalls[c].step = "answered" /\ ecalls[c].status \in {101, 200}
          PROVE  /\ edge.phase = "serving" /\ edge.env.bind = "loopback"
                 /\ Settings(edge.env) \cap {"absent", "blank", "notunicode"} = {}
                 /\ ecalls[c].kind # "probe" => ecalls[c].assertion = "present"
                 /\ ecalls[c].kind = "relay" => ecalls[c].size \in 1..MaxBody
      BY <2>1, <2>2, <3>1 DEF Admitted
    <3> QED
      BY <3>1, Zenon DEF EdgeFailsClosed
<1>2. ChannelIsShared
  <2>1. Cardinality(chan.holder) <= 1
    <3>1. CASE chan.holder = {}
      BY <3>1, FS_EmptySet
    <3>2. ASSUME NEW c \in chan.holder PROVE Cardinality(chan.holder) <= 1
      <4>1. chan.holder = {c}
        BY <3>2 DEF EdgeAll, EdgeInv, HolderOK
      <4>2. Cardinality({c}) = 1
        BY FS_Singleton
      <4> QED
        BY <4>1, <4>2
    <3> QED
      BY <3>1, <3>2
  <2>2. ASSUME NEW c \in EdgeCalls, ecalls[c].step = "answered", ecalls[c].kind = "probe",
               ecalls[c].status = 200
        PROVE  chan.stores > ecalls[c].since
    <3>1. ecalls[c].since \in Nat /\ chan.stores \in Nat
      BY <2>2, BusyCall, ChanTyped DEF EdgeAll, RequestType
    <3>2. ecalls[c].since < chan.stores
      BY <2>2 DEF EdgeAll, EdgeInv, ProbesFresh, FreshFor
    <3> QED
      BY <3>1, <3>2
  <2> QED
    BY <2>1, <2>2 DEF ChannelIsShared, EdgeAll, EdgeInv, HolderOK
<1>3. StreamIsFifo
  BY DEF StreamIsFifo, EdgeAll, BridgeOK, QueuesOK
<1> QED
  BY <1>1, <1>2, <1>3 DEF EdgeKeepsItsPromises

\* The edge (apps/edge-gateway): for every number of concurrent calls, every
\* interleaving of their waits and of the stream's two tasks, and every
\* failure of a dial, a relay or the backend, nothing unauthorized passes, one
\* dial is under way, a ready probe used a channel newer than itself, and each
\* end of a stream sees a prefix of what the other sent.
THEOREM EdgeKeepsPromises == EdgeSpec => []EdgeKeepsItsPromises
<1>1. EdgeInit => EdgeAll
  BY EdgeInitOK, BridgeInitOK DEF EdgeAll
<1>2. EdgeAll /\ [EdgeCallNext \/ BridgeNext]_edgeVars => EdgeAll'
  <2>1. CASE UNCHANGED edgeVars
    <3>1. ASSUME EdgeAll PROVE EdgeAll'
      <4>1. PICK u : u = bridge
        OBVIOUS
      <4>2. Bridge(u) /\ BridgeOK(u) /\ u.state = bridge.state
        <5>1. bridge' = u /\ UNCHANGED <<edge, chan, ecalls>>
          BY <2>1, <4>1 DEF edgeVars
        <5> QED
          BY <3>1, <4>1, <5>1 DEF Bridge, EdgeAll
      <4>3. u.state = "none" <=> bridge.state = "none"
        BY <4>1
      <4> QED
        BY <3>1, <4>2, <4>3, BridgeLeavesCalls
    <3> QED
      BY <3>1
  <2> QED
    BY <2>1, EdgeCallOK, BridgeStepOK
<1> QED
  BY <1>1, <1>2, EdgeKeeps, PTL DEF EdgeSpec

\* The whole promise: an honest start of the service, and the edge in front of it.
THEOREM ServicesClosed == StartSpec /\ EdgeSpec => []ServicesFailClosed
BY StartHonestAlways, EdgeKeepsPromises, PTL DEF ServicesFailClosed

-----------------------------------------------------------------------------
(* The Telegram poller.                                                    *)

LogIndex == 1..Len(TgLog)

HandledType ==
  [id : Int, class : {"malformed", "duplicate", "denied", "invalid", "skipped", "sent", "unsent"},
   saved : Nat, life : Nat]

PollerType(t) ==
  t \in [offset : Nat, saved : Nat, batch : SUBSET (LogIndex \X {1, 2}), passed : BOOLEAN,
         crashes : Nat, handled : Seq(HandledType)]

\* What was handled: above the mark persisted then, below the offset of this
\* life, in ascending order within a life.
HandledOK(h, offset, crashes) ==
  /\ \A i \in 1..Len(h) : /\ h[i].id >= h[i].saved /\ h[i].life <= crashes
                          /\ h[i].life = crashes => h[i].id < offset
  /\ \A i, j \in 1..Len(h) : i < j /\ h[i].life = h[j].life => h[i].id < h[j].id

\* The offset has passed no update that was not looked at.
LookedAt(h, offset) ==
  \A n \in LogIndex : TgLog[n].id >= 0 /\ TgLog[n].id < offset =>
    \E i \in 1..Len(h) : h[i].id = TgLog[n].id

\* Before an update of the batch come all the ones that are still open.
BatchClosed(batch, offset) ==
  \A p \in batch : \A m \in LogIndex : m < p[1] /\ TgLog[m].id >= offset => <<m, 1>> \in batch

PollerInv(t) ==
  /\ PollerType(t) /\ t.saved <= t.offset
  /\ HandledOK(t.handled, t.offset, t.crashes)
  /\ LookedAt(t.handled, t.offset)
  /\ BatchClosed(t.batch, t.offset)

\* The next update is the first of the batch.
LEMMA NextUpdateFirst ==
  ASSUME NEW batch \in SUBSET (LogIndex \X {1, 2}), batch # {}
  PROVE  /\ NextUpdate(batch) \in batch
         /\ \A q \in batch : NextUpdate(batch)[1] <= q[1]
<1>0. Len(TgLog) \in Nat
  BY AgentAssumption
<1> DEFINE T == {p[1] : p \in batch}
<1>1. \A p \in batch : p[1] \in Nat /\ p[2] \in {1, 2} /\ p = <<p[1], p[2]>>
  BY <1>0 DEF LogIndex
<1>2. PICK q \in batch : TRUE
  OBVIOUS
<1>3. T \in SUBSET Nat /\ q[1] \in T
  BY <1>1
<1>4. PICK m \in T : \A n \in T : m <= n
  BY <1>3, LeastMember
<1>5. m \in Nat
  BY <1>3
<1>6. PICK p \in batch : /\ p[1] = m
                         /\ \A r \in batch : p[1] < r[1] \/ (p[1] = r[1] /\ p[2] <= r[2])
  <2>1. CASE <<m, 1>> \in batch
    <3>1. \A r \in batch : m <= r[1] /\ 1 <= r[2] /\ r[1] \in Nat
      BY <1>1, <1>4
    <3>2. \A r \in batch : m < r[1] \/ (m = r[1] /\ 1 <= r[2])
      BY <3>1, <1>5
    <3> QED
      BY <2>1, <3>2
  <2>2. CASE <<m, 1>> \notin batch
    <3>1. PICK p \in batch : p[1] = m
      BY <1>4
    <3>2. p[2] = 2 /\ \A r \in batch : r[1] = m => r[2] = 2
      BY <1>1, <3>1, <2>2
    <3>3. \A r \in batch : m <= r[1] /\ r[1] \in Nat
      BY <1>1, <1>4
    <3>4. \A r \in batch : m < r[1] \/ (m = r[1] /\ 2 <= r[2])
      BY <3>2, <3>3, <1>5
    <3> QED
      BY <3>1, <3>2, <3>4
  <2> QED
    BY <2>1, <2>2
<1>7. /\ NextUpdate(batch) \in batch
      /\ \A r \in batch : \/ NextUpdate(batch)[1] < r[1]
                          \/ NextUpdate(batch)[1] = r[1] /\ NextUpdate(batch)[2] <= r[2]
  BY <1>6 DEF NextUpdate
<1>8. \A r \in batch : NextUpdate(batch)[1] <= r[1]
  BY <1>1, <1>7
<1> QED
  BY <1>7, <1>8

\* What the source returns comes without a gap.
LEMMA PendingClosed ==
  ASSUME NEW offset, NEW n \in Pending(offset), NEW m \in LogIndex, m < n, TgLog[m].id >= offset
  PROVE  m \in Pending(offset)
<1>0. Len(TgLog) \in Nat /\ PollBatch \in Nat
  BY AgentAssumption
<1> DEFINE open == {k \in 1..Len(TgLog) : TgLog[k].id >= offset}
           A == {k \in open : k < m}
           B == {k \in open : k < n}
<1>1. n \in Nat /\ m \in open
  BY <1>0 DEF Pending, LogIndex
<1>2. A \subseteq B
  <2>1. ASSUME NEW k \in open, k < m PROVE k < n
    <3>1. k \in Nat /\ m \in Nat
      BY <1>0 DEF LogIndex
    <3> QED
      BY <1>1, <2>1, <3>1
  <2> QED
    BY <2>1
<1>3. IsFiniteSet(1..Len(TgLog))
  <2>1. PICK len \in Int : len = Len(TgLog)
    BY <1>0
  <2>2. 1 \in Int /\ IsFiniteSet(1..len)
    BY FS_Interval
  <2> QED
    BY <2>1, <2>2
<1>4. IsFiniteSet(B)
  BY <1>3, FS_Subset
<1>5. Cardinality(A) <= Cardinality(B) /\ IsFiniteSet(A)
  BY <1>2, <1>4, FS_Subset
<1>6. Cardinality(A) \in Nat /\ Cardinality(B) \in Nat
  BY <1>4, <1>5, FS_CardinalityType
<1>7. Cardinality(B) < PollBatch
  BY DEF Pending
<1>8. Cardinality(A) < PollBatch
  BY <1>0, <1>5, <1>6, <1>7
<1> QED
  BY <1>1, <1>8 DEF Pending

LEMMA FetchOK ==
  ASSUME NEW t, PollerInv(t),
         NEW old \in SUBSET {n \in 1..Len(TgLog) : TgLog[n].id < t.offset},
         NEW twice \in SUBSET Pending(t.offset), NEW u,
         u = [t EXCEPT !.batch = (Pending(t.offset) \cup old) \X {1} \cup twice \X {2}]
  PROVE  PollerInv(u)
<1> DEFINE batch == (Pending(t.offset) \cup old) \X {1} \cup twice \X {2}
<1>0. PollerType(t)
  BY DEF PollerInv
<1>1. Pending(t.offset) \subseteq LogIndex /\ old \subseteq LogIndex
  BY DEF Pending, LogIndex
<1>2. batch \in SUBSET (LogIndex \X {1, 2})
  BY <1>1
<1>3. PollerType(u) /\ u.batch = batch /\ u.offset = t.offset /\ u.saved = t.saved
      /\ u.handled = t.handled /\ u.crashes = t.crashes
  BY <1>0, <1>2 DEF PollerType
<1>4. BatchClosed(batch, t.offset)
  <2> SUFFICES ASSUME NEW p \in batch, NEW m \in LogIndex, m < p[1], TgLog[m].id >= t.offset
               PROVE  m \in Pending(t.offset)
    BY DEF BatchClosed
  <2>1. p[1] \in Pending(t.offset) \/ p[1] \in old
    OBVIOUS
  <2>2. CASE p[1] \in Pending(t.offset)
    BY <2>2, PendingClosed
  <2>3. CASE p[1] \in old
    <3>1. p[1] \in LogIndex /\ TgLog[p[1]].id < t.offset
      BY <2>3 DEF LogIndex
    <3>2. TgLog[m].id < TgLog[p[1]].id
      BY <3>1, AgentAssumption DEF LogIndex
    <3>3. TgLog[m].id \in Int /\ TgLog[p[1]].id \in Int /\ t.offset \in Int
      BY <3>1, <1>0, AgentAssumption DEF LogIndex, PollerType
    <3> QED
      BY <3>1, <3>2, <3>3
  <2> QED
    BY <2>1, <2>2, <2>3
<1> QED
  BY <1>3, <1>4 DEF PollerInv

\* One update that the offset has passed already.
LEMMA StepDuplicate ==
  ASSUME NEW t, PollerInv(t), NEW p \in t.batch, NEW flag \in BOOLEAN, NEW u,
         TgLog[p[1]].id < t.offset,
         u = [t EXCEPT !.offset = t.offset, !.batch = @ \ {p}, !.passed = flag, !.handled = @]
  PROVE  PollerInv(u)
<1>0. PollerType(t)
  BY DEF PollerInv
<1>1. PollerType(u) /\ u.batch = t.batch \ {p} /\ u.offset = t.offset /\ u.saved = t.saved
      /\ u.handled = t.handled /\ u.crashes = t.crashes
  BY <1>0 DEF PollerType
<1>2. BatchClosed(t.batch \ {p}, t.offset)
  <2> SUFFICES ASSUME NEW q \in t.batch \ {p}, NEW m \in LogIndex, m < q[1],
                      TgLog[m].id >= t.offset
               PROVE  <<m, 1>> \in t.batch \ {p}
    BY DEF BatchClosed
  <2>1. <<m, 1>> \in t.batch
    BY DEF PollerInv, BatchClosed
  <2>2. TgLog[m].id \in Int /\ t.offset \in Int
    BY <1>0, AgentAssumption DEF LogIndex, PollerType
  <2>3. ~(TgLog[m].id < t.offset)
    BY <2>2
  <2>4. <<m, 1>> # p
    BY <2>3
  <2> QED
    BY <2>1, <2>4
<1> QED
  BY <1>1, <1>2 DEF PollerInv

LEMMA StepNew ==
  ASSUME NEW t, PollerInv(t), NEW p \in t.batch, \A q \in t.batch : p[1] <= q[1],
         NEW flag \in BOOLEAN, NEW u,
         TgLog[p[1]].id >= t.offset,
         NEW class \in {"malformed", "duplicate", "denied", "invalid", "skipped", "sent", "unsent"},
         u = [t EXCEPT !.offset = TgLog[p[1]].id + 1, !.batch = @ \ {p}, !.passed = flag,
                       !.handled = Append(@, [id |-> TgLog[p[1]].id, class |-> class,
                                              saved |-> t.saved, life |-> t.crashes])]
  PROVE  PollerInv(u)
<1>0. PollerType(t)
  BY DEF PollerInv
<1>1. p[1] \in LogIndex /\ p[1] \in Nat /\ Len(TgLog) \in Nat
  BY <1>0, AgentAssumption DEF PollerType, LogIndex
<1>2. PICK x \in Int : x = TgLog[p[1]].id
  BY <1>1, AgentAssumption DEF LogIndex
<1>30. t.offset \in Nat /\ t.saved \in Nat /\ t.crashes \in Nat
  BY <1>0 DEF PollerType
<1>3. PICK o \in Nat, v \in Nat, c \in Nat : o = t.offset /\ v = t.saved /\ c = t.crashes
  BY <1>30
<1>4. x >= o /\ x + 1 \in Nat /\ v <= o
  BY <1>2, <1>3 DEF PollerInv
<1>50. t.handled \in Seq(HandledType)
  BY <1>0 DEF PollerType
<1>5. PICK h \in Seq(HandledType) : h = t.handled
  BY <1>50
<1>6. PICK e \in HandledType : e = [id |-> x, class |-> class, saved |-> v, life |-> c]
  BY <1>2, <1>3 DEF HandledType
<1>7. PICK g : g = Append(h, e)
  OBVIOUS
<1>8. /\ g \in Seq(HandledType) /\ Len(g) = Len(h) + 1 /\ Len(h) \in Nat
      /\ \A i \in 1..Len(h) : g[i] = h[i]
      /\ g[Len(h) + 1] = e
  BY <1>5, <1>7, AppendProperties, LenProperties
<1>9. u = [t EXCEPT !.offset = x + 1, !.batch = @ \ {p}, !.passed = flag, !.handled = g]
  BY <1>2, <1>3, <1>5, <1>6, <1>7
<1>10. PollerType(u) /\ u.batch = t.batch \ {p} /\ u.offset = x + 1 /\ u.saved = v
       /\ u.handled = g /\ u.crashes = c
  <2>1. PICK k \in Nat : k = x + 1
    BY <1>4
  <2>2. PICK b \in SUBSET (LogIndex \X {1, 2}) : b = t.batch \ {p}
    BY <1>0 DEF PollerType
  <2>3. g \in Seq(HandledType)
    BY <1>8
  <2>4. u = [t EXCEPT !.offset = k, !.batch = b, !.passed = flag, !.handled = g]
    BY <1>9, <2>1, <2>2
  <2>5. PollerType(u) /\ u.batch = b /\ u.offset = k /\ u.saved = t.saved
        /\ u.handled = g /\ u.crashes = t.crashes
    BY <1>0, <2>3, <2>4 DEF PollerType
  <2> QED
    BY <2>1, <2>2, <2>5, <1>3
<1>11. e.id = x /\ e.saved = v /\ e.life = c
  BY <1>6
<1>12. \A i \in 1..Len(h) : h[i].id \in Int /\ h[i].saved \in Nat /\ h[i].life \in Nat
  <2> SUFFICES ASSUME NEW i \in 1..Len(h)
               PROVE  h[i].id \in Int /\ h[i].saved \in Nat /\ h[i].life \in Nat
    OBVIOUS
  <2>1. h[i] \in HandledType
    BY <1>5, ElementOfSeq
  <2> QED
    BY <2>1 DEF HandledType
<1>13. HandledOK(h, o, c)
  BY <1>3, <1>5 DEF PollerInv
<1>14. HandledOK(g, x + 1, c)
  <2>1. \A i \in 1..Len(g) : i \in 1..Len(h) \/ i = Len(h) + 1
    BY <1>8
  <2>2. ASSUME NEW i \in 1..Len(g)
        PROVE  /\ g[i].id >= g[i].saved /\ g[i].life <= c
               /\ g[i].life = c => g[i].id < x + 1
    <3>1. CASE i \in 1..Len(h)
      <4>1. g[i] = h[i] /\ h[i].id \in Int
        BY <3>1, <1>8, <1>12
      <4>2. h[i].id >= h[i].saved /\ h[i].life <= c /\ (h[i].life = c => h[i].id < o)
        BY <3>1, <1>13 DEF HandledOK
      <4>3. h[i].life = c => h[i].id < x + 1
        BY <4>1, <4>2, <1>4
      <4> QED
        BY <4>1, <4>2, <4>3
    <3>2. CASE i = Len(h) + 1
      BY <3>2, <1>4, <1>8, <1>11
    <3> QED
      BY <2>1, <3>1, <3>2
  <2>3. ASSUME NEW i \in 1..Len(g), NEW j \in 1..Len(g), i < j, g[i].life = g[j].life
        PROVE  g[i].id < g[j].id
    <3>1. i \in 1..Len(h)
      BY <2>1, <2>3, <1>8
    <3>2. g[i] = h[i]
      BY <3>1, <1>8
    <3>3. CASE j \in 1..Len(h)
      <4>1. g[j] = h[j]
        BY <3>3, <1>8
      <4>2. h[i].life = h[j].life
        BY <2>3, <3>2, <4>1
      <4> QED
        BY <2>3, <3>1, <3>2, <3>3, <4>1, <4>2, <1>13 DEF HandledOK
    <3>4. CASE j = Len(h) + 1
      <4>1. g[j].id = x /\ h[i].life = c
        BY <3>4, <1>8, <1>11, <2>3, <3>2
      <4>2. h[i].id < o /\ h[i].id \in Int
        BY <3>1, <4>1, <1>12, <1>13 DEF HandledOK
      <4> QED
        BY <3>2, <4>1, <4>2, <1>4
    <3> QED
      BY <2>1, <3>3, <3>4
  <2> QED
    BY <2>2, <2>3 DEF HandledOK
<1>15. LookedAt(g, x + 1)
  <2> SUFFICES ASSUME NEW n \in LogIndex, TgLog[n].id >= 0, TgLog[n].id < x + 1
               PROVE  \E i \in 1..Len(g) : g[i].id = TgLog[n].id
    BY DEF LookedAt
  <2>1. PICK y \in Int : y = TgLog[n].id
    BY AgentAssumption DEF LogIndex
  <2>2. CASE y < o
    <3>1. PICK i \in 1..Len(h) : h[i].id = y
      BY <2>1, <2>2, <1>3, <1>5 DEF PollerInv, LookedAt
    <3>2. i \in 1..Len(g) /\ g[i] = h[i]
      BY <3>1, <1>8
    <3> QED
      BY <2>1, <3>1, <3>2
  <2>3. CASE n = p[1]
    <3>1. Len(h) + 1 \in 1..Len(g)
      BY <1>8
    <3>2. g[Len(h) + 1].id = x
      BY <1>8, <1>11
    <3> QED
      BY <2>3, <3>1, <3>2, <1>2
  <2>4. CASE n # p[1] /\ ~(y < o)
    <3>1. y <= x /\ y >= o
      BY <2>1, <2>4, <1>3
    <3>2. n \in Nat
      BY <1>1 DEF LogIndex
    <3>3. n < p[1]
      <4>1. SUFFICES ASSUME p[1] < n PROVE FALSE
        BY <2>4, <3>2, <1>1
      <4>2. TgLog[p[1]].id < TgLog[n].id
        BY <4>1, <1>1, AgentAssumption DEF LogIndex
      <4>3. x < y
        BY <4>2, <1>2, <2>1
      <4> QED
        BY <3>1, <4>3, <1>2, <2>1
    <3>4. TgLog[n].id >= t.offset
      BY <2>1, <3>1, <1>3
    <3>5. <<n, 1>> \in t.batch
      BY <3>3, <3>4 DEF PollerInv, BatchClosed
    <3>6. p[1] <= <<n, 1>>[1]
      BY <3>5
    <3>7. p[1] <= n
      BY <3>6
    <3> QED
      BY <3>2, <3>3, <3>7, <1>1
  <2> QED
    BY <2>2, <2>3, <2>4
<1>16. BatchClosed(t.batch \ {p}, x + 1)
  <2> SUFFICES ASSUME NEW q \in t.batch \ {p}, NEW m \in LogIndex, m < q[1],
                      TgLog[m].id >= x + 1
               PROVE  <<m, 1>> \in t.batch \ {p}
    BY DEF BatchClosed
  <2>1. PICK y \in Int : y = TgLog[m].id
    BY AgentAssumption DEF LogIndex
  <2>2. y >= o /\ y # x
    BY <2>1, <1>4
  <2>3. TgLog[m].id >= t.offset
    BY <2>1, <2>2, <1>3
  <2>4. <<m, 1>> \in t.batch
    BY <2>3 DEF PollerInv, BatchClosed
  <2>5. m # p[1]
    BY <2>1, <2>2, <1>2
  <2>6. <<m, 1>> # p
    BY <2>5
  <2> QED
    BY <2>4, <2>6
<1>17. v <= x + 1
  BY <1>3, <1>4
<1> QED
  BY <1>10, <1>14, <1>15, <1>16, <1>17 DEF PollerInv

-----------------------------------------------------------------------------
(* What a channel lets run.                                                *)

RunOK(r) ==
  Agent!IsMutating(r.wire.tool) =>
    /\ AgentCaps.trading_enabled
    /\ r.value >= 0 /\ r.value <= AgentCaps.max_trade_usd

AllRunsOK(runs) == \A i \in DOMAIN runs : RunOK(runs[i])

\* authorize lets a mutating command through only within the capabilities.
LEMMA AuthorizedWithin ==
  ASSUME NEW wire, NEW value \in Int, Agent!IsMutating(wire.tool),
         Agent!Authorize(wire, AgentCaps, value) = "authorized"
  PROVE  AgentCaps.trading_enabled /\ value >= 0 /\ value <= AgentCaps.max_trade_usd
<1>1. PICK cap \in Int : cap = AgentCaps.max_trade_usd
  BY AgentAssumption
<1>2. wire.tool \notin Agent!ReadTools
  BY DEF Agent!IsMutating, Agent!TradeTools, Agent!ReadTools
<1>3. AgentCaps.trading_enabled
  <2> SUFFICES ASSUME ~AgentCaps.trading_enabled PROVE FALSE
    OBVIOUS
  <2> QED
    BY <1>2 DEF Agent!Authorize
<1>4. ~(value < 0)
  <2> SUFFICES ASSUME value < 0 PROVE FALSE
    OBVIOUS
  <2> QED
    BY <1>2 DEF Agent!Authorize
<1>5. ~(value > cap)
  <2> SUFFICES ASSUME value > cap PROVE FALSE
    OBVIOUS
  <2> QED
    BY <1>1, <1>2 DEF Agent!Authorize
<1>6. value >= 0 /\ value <= cap
  BY <1>1, <1>4, <1>5
<1> QED
  BY <1>1, <1>3, <1>6

LEMMA InvokeAuthorized ==
  ASSUME NEW name, NEW args, NEW value \in Int, NEW outcome
  PROVE  AllRunsOK(InvokeTool(name, args, value, outcome).runs)
<1> DEFINE wire == [tool |-> name, kind |-> args.kind, bad |-> args.bad, fields |-> args.fields]
<1>1. PICK w : w = wire
  OBVIOUS
<1>2. AllRunsOK(<<>>)
  BY DEF AllRunsOK
<1>3. CASE name \notin ToolNames
  BY <1>2, <1>3 DEF InvokeTool, Returned
<1>4. CASE name \in ToolNames /\ Agent!CommandWireError(w) # "none"
  BY <1>1, <1>2, <1>4 DEF InvokeTool, Returned
<1>5. CASE name \in ToolNames /\ Agent!CommandWireError(w) = "none"
           /\ Agent!Authorize(w, AgentCaps, value) # "authorized"
  BY <1>1, <1>2, <1>5 DEF InvokeTool, Returned
<1>6. CASE name \in ToolNames /\ Agent!CommandWireError(w) = "none"
           /\ Agent!Authorize(w, AgentCaps, value) = "authorized"
  <2>1. PICK r : r = [wire |-> w, value |-> value]
    OBVIOUS
  <2>2. InvokeTool(name, args, value, outcome).runs = <<r>>
    BY <1>1, <1>6, <2>1 DEF InvokeTool, Returned
  <2>3. r.wire = w /\ r.value = value
    BY <2>1
  <2>4. RunOK(r)
    BY <1>6, <2>3, AuthorizedWithin DEF RunOK
  <2>5. AllRunsOK(<<r>>)
    BY <2>4 DEF AllRunsOK
  <2> QED
    BY <2>2, <2>5
<1> QED
  BY <1>3, <1>4, <1>5, <1>6

LEMMA DispatchAuthorized ==
  ASSUME NEW req, NEW value \in Int, NEW outcome
  PROVE  AllRunsOK(McpDispatch(req, value, outcome).runs)
<1>1. AllRunsOK(<<>>)
  BY DEF AllRunsOK
<1>2. \A code : Refused(code).runs = <<>>
  BY DEF Refused
<1>3. AllRunsOK(CallTool(req, value, outcome).runs)
  BY <1>1, <1>2, InvokeAuthorized DEF CallTool
<1>4. AllRunsOK(DispatchMethod(req, value, outcome).runs)
  <2>1. PICK call : call = CallTool(req, value, outcome)
    OBVIOUS
  <2>2. \A text : Returned(text, <<>>).runs = <<>>
    BY DEF Returned
  <2>3. CASE req.method \in {"initialize", "tools/list"}
    <3>1. PICK a, b : a = Refused("invalid params") /\ b = Returned(req.method, <<>>)
      OBVIOUS
    <3>2. DispatchMethod(req, value, outcome) = IF req.params = "bad" THEN a ELSE b
      BY <2>3, <3>1 DEF DispatchMethod
    <3> QED
      BY <3>1, <3>2, <1>1, <1>2, <2>2
  <2>4. CASE req.method = "notifications/initialized"
    <3>1. PICK none : none = [kind |-> "none", code |-> "", runs |-> <<>>]
      OBVIOUS
    <3>2. DispatchMethod(req, value, outcome) = none
      BY <2>4, <3>1 DEF DispatchMethod
    <3>3. none.runs = <<>>
      BY <3>1
    <3> QED
      BY <3>2, <3>3, <1>1
  <2>5. CASE req.method = "tools/call"
    <3>1. DispatchMethod(req, value, outcome) = CallTool(req, value, outcome)
      BY <2>5 DEF DispatchMethod
    <3> QED
      BY <3>1, <1>3
  <2>6. CASE req.method \notin {"initialize", "tools/list", "notifications/initialized",
                                "tools/call"}
    <3>1. DispatchMethod(req, value, outcome) = Refused("unknown method")
      BY <2>6 DEF DispatchMethod
    <3> QED
      BY <3>1, <1>1, <1>2
  <2> QED
    BY <2>3, <2>4, <2>5, <2>6
<1>5. PICK d : d = DispatchMethod(req, value, outcome)
  OBVIOUS
<1>6. PICK f : f = Refused("invalid request")
  OBVIOUS
<1>7. \/ McpDispatch(req, value, outcome).runs = <<>>
      \/ McpDispatch(req, value, outcome).runs = f.runs
      \/ McpDispatch(req, value, outcome).runs = d.runs
  BY <1>5, <1>6 DEF McpDispatch
<1> QED
  BY <1>1, <1>2, <1>4, <1>5, <1>6, <1>7

LEMMA FrameAuthorized ==
  ASSUME NEW frame, NEW value \in Int, NEW outcome
  PROVE  AllRunsOK(HandleFrame(frame, value, outcome).runs)
<1>1. AllRunsOK(<<>>)
  BY DEF AllRunsOK
<1>2. PICK d : d = McpDispatch(McpRequest(frame.line), value, outcome)
  OBVIOUS
<1>3. AllRunsOK(d.runs)
  BY <1>2, DispatchAuthorized
<1>4. HandleFrame(frame, value, outcome).runs \in {<<>>, d.runs}
  BY <1>2 DEF HandleFrame
<1> QED
  BY <1>1, <1>3, <1>4

LEMMA TextAuthorized ==
  ASSUME NEW u, NEW value \in Int, NEW outcome, NEW delivered
  PROVE  AllRunsOK(HandleText(u, value, outcome, delivered).runs)
<1>1. AllRunsOK(<<>>)
  BY DEF AllRunsOK
<1>2. PICK d : d = McpDispatch(ToolsCallFrame(u.text), value, outcome)
  OBVIOUS
<1>3. AllRunsOK(d.runs)
  BY <1>2, DispatchAuthorized
<1>4. HandleText(u, value, outcome, delivered).runs \in {<<>>, d.runs}
  BY <1>2 DEF HandleText
<1> QED
  BY <1>1, <1>3, <1>4

LEMMA TextClass ==
  ASSUME NEW u, NEW value, NEW outcome, NEW delivered
  PROVE  HandleText(u, value, outcome, delivered).class \in {"invalid", "skipped", "sent", "unsent"}
BY DEF HandleText

-----------------------------------------------------------------------------
(* The published schemas against the parser.                               *)

\* A well-formed value has no error.
LEMMA WellFormedField ==
  ASSUME NEW tool, NEW keys, NEW f, f \in keys \/ f \in Agent!OptionalFields
  PROVE  Agent!ErrorOf(WellFormed(tool, keys), f) = "none"
<1> DEFINE value == CASE f = "amount" -> [unit |-> "token_atomic", value |-> 1]
                      [] f = "limit_price" -> [numerator_atomic |-> 1, denominator_atomic |-> 1]
                      [] OTHER -> [chain |-> "base"]
<1>1. PICK w : w = WellFormed(tool, keys)
  OBVIOUS
<1>2. w.bad = {} /\ DOMAIN w.fields = keys
  BY <1>1 DEF WellFormed
<1>3. CASE f \notin keys
  <2>1. f \in Agent!OptionalFields
    BY <1>3
  <2>2. f # "amount" /\ f # "limit_price"
    BY <2>1 DEF Agent!OptionalFields
  <2> QED
    BY <1>1, <1>2, <1>3, <2>1, <2>2 DEF Agent!ErrorOf
<1>4. CASE f \in keys /\ f = "amount"
  <2>1. PICK a : a = [unit |-> "token_atomic", value |-> 1]
    OBVIOUS
  <2>2. w.fields[f] = a
    BY <1>1, <1>4, <2>1 DEF WellFormed
  <2>3. Agent!AmountError(a) = "none"
    <3>1. DOMAIN a = {"unit", "value"} /\ a.unit = "token_atomic" /\ a.value = 1
      BY <2>1
    <3>2. a.unit \in {"token_atomic", "stablecoin_atomic", "usd_micros"} /\ a.value # 0
      BY <3>1
    <3> QED
      BY <3>1, <3>2 DEF Agent!AmountError
  <2> QED
    BY <1>1, <1>2, <1>4, <2>2, <2>3 DEF Agent!ErrorOf
<1>5. CASE f \in keys /\ f = "limit_price"
  <2>1. PICK a : a = [numerator_atomic |-> 1, denominator_atomic |-> 1]
    OBVIOUS
  <2>2. w.fields[f] = a
    BY <1>1, <1>5, <2>1 DEF WellFormed
  <2>3. Agent!LimitPriceError(a) = "none"
    <3>1. a.numerator_atomic = 1 /\ a.denominator_atomic = 1
      BY <2>1
    <3> QED
      BY <3>1 DEF Agent!LimitPriceError
  <2> QED
    BY <1>1, <1>2, <1>5, <2>2, <2>3 DEF Agent!ErrorOf
<1>6. CASE f \in keys /\ f # "amount" /\ f # "limit_price"
  BY <1>1, <1>2, <1>6 DEF Agent!ErrorOf
<1> QED
  BY <1>3, <1>4, <1>5, <1>6

LEMMA SchemaFits ==
  ASSUME NEW tool \in ToolNames, NEW known, NEW keys, known = Agent!FieldsOf(tool),
         keys \subseteq {known[i] : i \in 1..Len(known)}, "tool" \notin keys,
         \A i \in 1..Len(known) : known[i] \in keys \/ known[i] \in Agent!OptionalFields
  PROVE  Agent!CommandWireError(WellFormed(tool, keys)) = "none"
<1>1. PICK w : w = WellFormed(tool, keys)
  OBVIOUS
<1>2. w.tool = tool /\ w.kind = "absent" /\ DOMAIN w.fields = keys
  BY <1>1 DEF WellFormed
<1>3. \A i \in 1..Len(known) : Agent!ErrorOf(w, known[i]) = "none"
  BY <1>1, WellFormedField
<1>4. {i \in 1..Len(known) : Agent!ErrorOf(w, known[i]) # "none"} = {}
  BY <1>3
<1>5. Agent!BuildError(w) = "none"
  BY <1>2, <1>4 DEF Agent!BuildError
<1>6. tool # "bad" /\ tool \notin Agent!ForbiddenTools
  BY DEF ToolNames, Agent!ReadTools, Agent!TradeTools, Agent!ForbiddenTools
<1>7. Agent!ParseError(w) = "none"
  <2>1. tool \in Agent!ReadTools \cup Agent!TradeTools
    BY DEF ToolNames
  <2>2. w.kind \in {"absent", "read", "trade"} /\ w.kind # "trade" /\ w.kind # "read"
    BY <1>2
  <2> QED
    BY <1>2, <1>5, <1>6, <2>1, <2>2 DEF Agent!ParseError
<1>8. "tool" \notin DOMAIN w.fields
  BY <1>2
<1> QED
  BY <1>1, <1>7, <1>8 DEF Agent!CommandWireError

\* schema.rs against parse: the fields the parser reads are the properties the
\* schema publishes, and the ones it requires are the required ones.
LEMMA SchemaMatches ==
  ASSUME NEW tool \in ToolNames
  PROVE  /\ {Agent!FieldsOf(tool)[i] : i \in 1..Len(Agent!FieldsOf(tool))} = ToolSchema(tool).properties
         /\ ToolSchema(tool).properties \ ToolSchema(tool).required \subseteq Agent!OptionalFields
         /\ "tool" \notin ToolSchema(tool).properties
         /\ ToolSchema(tool).required \subseteq ToolSchema(tool).properties
<1>1. CASE tool = "search_token"
  <2>1. Agent!FieldsOf(tool) = <<"query">>
    BY <1>1 DEF Agent!FieldsOf, Agent!ReadFields, Agent!ReadTools
  <2>2. ToolSchema(tool) = [properties |-> {"query"}, required |-> {"query"}]
    BY <1>1 DEF ToolSchema
  <2> QED
    BY <2>1, <2>2
<1>2. CASE tool \in {"get_token", "get_intelligence"}
  <2>1. Agent!FieldsOf(tool) = <<"token">>
    BY <1>2 DEF Agent!FieldsOf, Agent!ReadFields, Agent!ReadTools
  <2>2. ToolSchema(tool) = [properties |-> {"token"}, required |-> {"token"}]
    BY <1>2 DEF ToolSchema
  <2> QED
    BY <2>1, <2>2
<1>3. CASE tool = "get_chart"
  <2>1. Agent!FieldsOf(tool) = <<"token", "window">>
    BY <1>3 DEF Agent!FieldsOf, Agent!ReadFields, Agent!ReadTools
  <2>2. ToolSchema(tool) = [properties |-> {"token", "window"}, required |-> {"token", "window"}]
    BY <1>3 DEF ToolSchema
  <2> QED
    BY <2>1, <2>2
<1>4. CASE tool = "get_quote"
  <2>1. Agent!FieldsOf(tool) = <<"token_in", "token_out", "amount", "router_preference">>
    BY <1>4 DEF Agent!FieldsOf, Agent!ReadFields, Agent!ReadTools
  <2>2. ToolSchema(tool) = [properties |-> {"token_in", "token_out", "amount", "router_preference"},
                            required |-> {"token_in", "token_out", "amount"}]
    BY <1>4 DEF ToolSchema
  <2> QED
    BY <2>1, <2>2 DEF Agent!OptionalFields
<1>5. CASE tool = "get_orders"
  <2>1. Agent!FieldsOf(tool) = <<"status">>
    BY <1>5 DEF Agent!FieldsOf, Agent!ReadFields, Agent!ReadTools
  <2>2. ToolSchema(tool) = [properties |-> {"status"}, required |-> {}]
    BY <1>5 DEF ToolSchema
  <2> QED
    BY <2>1, <2>2 DEF Agent!OptionalFields
<1>6. CASE tool = "get_portfolio"
  <2>1. Agent!FieldsOf(tool) = << >>
    BY <1>6 DEF Agent!FieldsOf, Agent!ReadFields, Agent!ReadTools
  <2>2. ToolSchema(tool) = [properties |-> {}, required |-> {}]
    BY <1>6 DEF ToolSchema
  <2> QED
    BY <2>1, <2>2
<1>7. CASE tool \in {"preview_market_order", "execute_market_order"}
  <2>1. Agent!FieldsOf(tool) = <<"token_in", "token_out", "side", "amount", "max_slippage_bps",
                                 "max_price_impact_bps", "router_preference">>
    BY <1>7 DEF Agent!FieldsOf, Agent!TradeFields, Agent!ReadTools
  <2>2. ToolSchema(tool) = [properties |-> {"token_in", "token_out", "side", "amount",
                                            "max_slippage_bps", "max_price_impact_bps",
                                            "router_preference"},
                            required |-> {"token_in", "token_out", "side", "amount"}]
    BY <1>7 DEF ToolSchema
  <2> QED
    BY <2>1, <2>2 DEF Agent!OptionalFields
<1>8. CASE tool = "place_limit_order"
  <2>1. Agent!FieldsOf(tool) = <<"token_in", "token_out", "side", "amount", "limit_price",
                                 "allow_partial_fill", "expires_at_ms">>
    BY <1>8 DEF Agent!FieldsOf, Agent!TradeFields, Agent!ReadTools
  <2>2. ToolSchema(tool) = [properties |-> {"token_in", "token_out", "side", "amount",
                                            "limit_price", "allow_partial_fill", "expires_at_ms"},
                            required |-> {"token_in", "token_out", "side", "amount",
                                          "limit_price", "allow_partial_fill", "expires_at_ms"}]
    BY <1>8 DEF ToolSchema
  <2> QED
    BY <2>1, <2>2
<1>9. CASE tool = "cancel_order"
  <2>1. Agent!FieldsOf(tool) = <<"order_id">>
    BY <1>9 DEF Agent!FieldsOf, Agent!TradeFields, Agent!ReadTools
  <2>2. ToolSchema(tool) = [properties |-> {"order_id"}, required |-> {"order_id"}]
    BY <1>9 DEF ToolSchema
  <2> QED
    BY <2>1, <2>2
<1> QED
  BY <1>1, <1>2, <1>3, <1>4, <1>5, <1>6, <1>7, <1>8, <1>9 DEF ToolNames, Agent!ReadTools, Agent!TradeTools

\* What a published schema admits, the parser accepts (schema.rs, parse).
THEOREM SchemasAccepted == SchemaIsAccepted
<1> SUFFICES ASSUME NEW tool \in ToolNames,
                    NEW opt \in SUBSET (ToolSchema(tool).properties \ ToolSchema(tool).required)
             PROVE  Agent!CommandWireError(WellFormed(tool, ToolSchema(tool).required \cup opt)) = "none"
  BY DEF SchemaIsAccepted
<1>1. PICK known : known = Agent!FieldsOf(tool)
  OBVIOUS
<1>2. PICK P, R : P = ToolSchema(tool).properties /\ R = ToolSchema(tool).required
  OBVIOUS
<1>3. /\ {known[i] : i \in 1..Len(known)} = P /\ P \ R \subseteq Agent!OptionalFields
      /\ "tool" \notin P /\ R \subseteq P
  BY <1>1, <1>2, SchemaMatches
<1>4. R \cup opt \subseteq P
  BY <1>2, <1>3
<1>5. \A i \in 1..Len(known) : known[i] \in R \cup opt \/ known[i] \in Agent!OptionalFields
  BY <1>3
<1>6. Agent!CommandWireError(WellFormed(tool, R \cup opt)) = "none"
  BY <1>1, <1>3, <1>4, <1>5, SchemaFits
<1> QED
  BY <1>2, <1>6

-----------------------------------------------------------------------------
(* The lines of a byte stream.                                             *)

McpFrameType == [kind : {"oversized", "complete"}, line : Seq(Bytes)]

LEMMA LineStartExists ==
  ASSUME NEW bytes, NEW p \in Nat \ {0}
  PROVE  \E b \in 1..p : BeginsAt(bytes, p, b)
<1> DEFINE T == {n \in 0..(p - 1) : n = p - 1 \/ bytes[p - n - 1] = "n"}
<1>1. T \in SUBSET Nat /\ p - 1 \in T
  OBVIOUS
<1>2. PICK m \in T : \A n \in T : m <= n
  BY <1>1, LeastMember
<1>3. m \in 0..(p - 1) /\ (m = p - 1 \/ bytes[p - m - 1] = "n")
  BY <1>2
<1>4. p - m \in 1..p /\ (p - m = 1 \/ bytes[(p - m) - 1] = "n")
  BY <1>3
<1>5. ASSUME NEW i \in (p - m)..(p - 1) PROVE bytes[i] # "n"
  <2>1. p - 1 - i \in 0..(p - 1) /\ p - 1 - i < m /\ p - (p - 1 - i) - 1 = i
    BY <1>3
  <2>2. p - 1 - i \notin T
    BY <2>1, <1>2, <1>3
  <2> QED
    BY <2>1, <2>2
<1> QED
  BY <1>4, <1>5 DEF BeginsAt

LEMMA LineStartIs ==
  ASSUME NEW bytes, NEW p \in Nat \ {0}, NEW b \in 1..p, BeginsAt(bytes, p, b)
  PROVE  LineStart(bytes, p) = b
<1>1. PICK c : c = LineStart(bytes, p)
  OBVIOUS
<1>2. c \in 1..p /\ BeginsAt(bytes, p, c)
  BY <1>1, LineStartExists DEF LineStart
<1>3. ASSUME NEW x \in 1..p, NEW y \in 1..p, BeginsAt(bytes, p, x), BeginsAt(bytes, p, y), x < y
      PROVE  FALSE
  <2>1. bytes[y - 1] = "n"
    BY <1>3 DEF BeginsAt
  <2>2. y - 1 \in x..(p - 1)
    BY <1>3
  <2> QED
    BY <1>3, <2>1, <2>2 DEF BeginsAt
<1> QED
  BY <1>1, <1>2, <1>3

LEMMA LineStartOK ==
  ASSUME NEW bytes, NEW p \in Nat \ {0}
  PROVE  LineStart(bytes, p) \in 1..p /\ BeginsAt(bytes, p, LineStart(bytes, p))
BY LineStartExists DEF LineStart

\* Every segment of a stream is a sequence of bytes.
LEMMA Segment ==
  ASSUME NEW bytes \in Seq(Bytes), NEW i \in Nat \ {0}, NEW j \in Nat, j <= Len(bytes)
  PROVE  /\ SubSeq(bytes, i, j) \in Seq(Bytes)
         /\ Len(SubSeq(bytes, i, j)) = IF i <= j THEN j - i + 1 ELSE 0
         /\ \A k \in 1..(j - i + 1) : SubSeq(bytes, i, j)[k] = bytes[i + k - 1]
<1>1. \A k \in i..j : bytes[k] \in Bytes
  BY ElementOfSeq, LenProperties
<1> QED
  BY <1>1, SubSeqProperties

LEMMA FinishLineType ==
  ASSUME NEW line \in Seq(Bytes)
  PROVE  FinishLine(line) \in McpFrameType
<1>1. Len(line) \in Nat /\ <<>> \in Seq(Bytes)
  BY LenProperties, EmptySeq
<1>2. line # <<>> => Len(line) - 1 \in Nat
  BY EmptySeq
<1>3. line # <<>> => SubSeq(line, 1, Len(line) - 1) \in Seq(Bytes)
  BY <1>1, <1>2, Segment
<1>4. PICK c \in Seq(Bytes) : c = IF line # <<>> /\ line[Len(line)] = "r"
                                  THEN SubSeq(line, 1, Len(line) - 1) ELSE line
  BY <1>3
<1>5. FinishLine(line) = IF Len(c) > MaxFrameBytes THEN [kind |-> "oversized", line |-> <<>>]
                         ELSE [kind |-> "complete", line |-> c]
  BY <1>4 DEF FinishLine
<1>6. PICK e \in Seq(Bytes) : e = <<>>
  BY <1>1
<1>7. FinishLine(line) = IF Len(c) > MaxFrameBytes THEN [kind |-> "oversized", line |-> e]
                         ELSE [kind |-> "complete", line |-> c]
  BY <1>5, <1>6
<1>8. [kind |-> "oversized", line |-> e] \in McpFrameType /\ [kind |-> "complete", line |-> c] \in McpFrameType
  BY DEF McpFrameType
<1> QED
  BY <1>7, <1>8

\* A line past the raw limit is refused, a carriage return more or less.
LEMMA PastTheLimit ==
  ASSUME NEW line \in Seq(Bytes), Len(line) > RawLimit
  PROVE  FinishLine(line) = [kind |-> "oversized", line |-> <<>>]
<1>1. Len(line) \in Nat /\ MaxFrameBytes \in Nat
  BY LenProperties, AgentAssumption
<1>2. Len(line) > MaxFrameBytes + 1
  BY DEF RawLimit
<1>3. Len(line) - 1 \in Nat
  BY <1>1, <1>2
<1>4. Len(SubSeq(line, 1, Len(line) - 1)) = Len(line) - 1
  BY <1>1, <1>2, <1>3, Segment
<1>5. Len(line) - 1 > MaxFrameBytes /\ Len(line) > MaxFrameBytes
  BY <1>1, <1>2
<1> QED
  BY <1>4, <1>5 DEF FinishLine

LEMMA EmptyLineIsBlank ==
  ASSUME NEW frames PROVE WithLine(frames, <<>>) = frames
<1>1. Len(<<>>) = 0 /\ ~(0 > MaxFrameBytes)
  BY AgentAssumption, EmptySeq
<1>2. FinishLine(<<>>) = [kind |-> "complete", line |-> <<>>]
  BY <1>1 DEF FinishLine
<1>3. IsBlank(<<>>)
  BY DEF IsBlank
<1> QED
  BY <1>2, <1>3 DEF WithLine

Begins(f, g) == Len(f) <= Len(g) /\ \A i \in 1..Len(f) : f[i] = g[i]

LEMMA WithLineType ==
  ASSUME NEW frames \in Seq(McpFrameType), NEW line \in Seq(Bytes)
  PROVE  WithLine(frames, line) \in Seq(McpFrameType) /\ Begins(frames, WithLine(frames, line))
<1>1. PICK frame \in McpFrameType : frame = FinishLine(line)
  BY FinishLineType
<1>2. Len(frames) \in Nat
  BY LenProperties
<1>3. Append(frames, frame) \in Seq(McpFrameType) /\ Len(Append(frames, frame)) = Len(frames) + 1
      /\ \A i \in 1..Len(frames) : Append(frames, frame)[i] = frames[i]
  BY AppendProperties
<1>4. Begins(frames, frames) /\ Begins(frames, Append(frames, frame))
  BY <1>2, <1>3 DEF Begins
<1>5. WithLine(frames, line) \in {frames, Append(frames, frame)}
  BY <1>1 DEF WithLine
<1> QED
  BY <1>3, <1>4, <1>5

LEMMA WithByteType ==
  ASSUME NEW bytes \in Seq(Bytes), NEW frames \in Seq(McpFrameType), NEW p \in 1..Len(bytes)
  PROVE  WithByte(bytes, frames, p) \in Seq(McpFrameType) /\ Begins(frames, WithByte(bytes, frames, p))
<1>1. Len(bytes) \in Nat /\ p \in Nat \ {0}
  BY LenProperties
<1>2. LineStart(bytes, p) \in 1..p
  BY <1>1, LineStartOK
<1>3. SubSeq(bytes, LineStart(bytes, p), p - 1) \in Seq(Bytes)
  <2>1. PICK b \in Nat \ {0} : b = LineStart(bytes, p)
    BY <1>1, <1>2
  <2>2. p - 1 \in Nat /\ p - 1 <= Len(bytes)
    BY <1>1
  <2>3. SubSeq(bytes, b, p - 1) \in Seq(Bytes)
    BY <2>2, Segment
  <2> QED
    BY <2>1, <2>3
<1>4. PICK w : w = WithLine(frames, SubSeq(bytes, LineStart(bytes, p), p - 1))
  OBVIOUS
<1>5. w \in Seq(McpFrameType) /\ Begins(frames, w)
  BY <1>3, <1>4, WithLineType
<1>6. Begins(frames, frames)
  BY LenProperties DEF Begins
<1>7. WithByte(bytes, frames, p) \in {frames, w}
  BY <1>4 DEF WithByte
<1> QED
  BY <1>5, <1>6, <1>7

\* f gives the frames by the first n bytes, for each n up to N.
FramesUpTo(f, bytes, N) ==
  /\ f \in [0..N -> Seq(McpFrameType)]
  /\ f[0] = <<>>
  /\ \A n \in 1..N : f[n] = WithByte(bytes, f[n - 1], n)

LEMMA FramesUpToExists ==
  ASSUME NEW bytes \in Seq(Bytes)
  PROVE  \E f : FramesUpTo(f, bytes, Len(bytes))
<1>0. Len(bytes) \in Nat /\ <<>> \in Seq(McpFrameType)
  BY LenProperties, EmptySeq
<1> DEFINE T == {n \in Nat : n <= Len(bytes) => \E f : FramesUpTo(f, bytes, n)}
<1>1. 0 \in T
  <2>1. PICK e \in Seq(McpFrameType) : e = <<>>
    BY <1>0
  <2>2. FramesUpTo([n \in 0..0 |-> e], bytes, 0)
    BY <2>1 DEF FramesUpTo
  <2> QED
    BY <2>2
<1>2. ASSUME NEW n \in Nat, n \in T PROVE n + 1 \in T
  <2>0. SUFFICES ASSUME n + 1 <= Len(bytes) PROVE \E f : FramesUpTo(f, bytes, n + 1)
    OBVIOUS
  <2>1. PICK f : FramesUpTo(f, bytes, n)
    BY <1>2, <2>0, <1>0
  <2>2. f \in [0..n -> Seq(McpFrameType)] /\ f[0] = <<>>
    BY <2>1 DEF FramesUpTo
  <2>3. \A k \in 1..n : f[k] = WithByte(bytes, f[k - 1], k)
    BY <2>1 DEF FramesUpTo
  <2>4. PICK w : w = WithByte(bytes, f[n], n + 1)
    OBVIOUS
  <2>5. w \in Seq(McpFrameType)
    BY <2>0, <2>2, <2>4, <1>0, WithByteType
  <2> DEFINE g == [k \in 0..(n + 1) |-> IF k = n + 1 THEN w ELSE f[k]]
  <2>6. g \in [0..(n + 1) -> Seq(McpFrameType)] /\ g[0] = <<>>
    BY <2>2, <2>5
  <2>7. ASSUME NEW k \in 1..(n + 1) PROVE g[k] = WithByte(bytes, g[k - 1], k)
    <3>1. CASE k = n + 1
      <4>1. g[n + 1] = w /\ g[n] = f[n] /\ k - 1 = n
        BY <3>1
      <4> QED
        BY <4>1, <3>1, <2>4
    <3>2. CASE k # n + 1
      <4>1. k \in 1..n /\ k - 1 \in 0..n /\ k - 1 # n + 1 /\ k \in 0..(n + 1) /\ k - 1 \in 0..(n + 1)
        BY <3>2
      <4>2. g[k] = f[k] /\ g[k - 1] = f[k - 1]
        BY <4>1
      <4> QED
        BY <4>1, <4>2, <2>3
    <3> QED
      BY <3>1, <3>2
  <2> HIDE DEF g
  <2>8. FramesUpTo(g, bytes, n + 1)
    BY <2>6, <2>7 DEF FramesUpTo
  <2> QED
    BY <2>8
<1>3. Nat \subseteq T
  <2> HIDE DEF T
  <2> QED
    BY <1>1, <1>2, SetInduction
<1> QED
  BY <1>0, <1>3

LEMMA FramesByIs ==
  ASSUME NEW bytes \in Seq(Bytes)
  PROVE  FramesUpTo(FramesBy(bytes), bytes, Len(bytes))
<1> DEFINE N == Len(bytes)
           F(f) == [p \in 0..N |-> IF p = 0 THEN <<>> ELSE WithByte(bytes, f[p - 1], p)]
           s == CHOOSE f : f = F(f)
<1>0. N \in Nat
  BY LenProperties
<1>1. PICK f : FramesUpTo(f, bytes, N)
  BY FramesUpToExists
<1>2. f = F(f)
  <2>1. f = [n \in 0..N |-> f[n]]
    BY <1>1 DEF FramesUpTo
  <2>2. \A n \in 0..N : f[n] = IF n = 0 THEN <<>> ELSE WithByte(bytes, f[n - 1], n)
    BY <1>0, <1>1 DEF FramesUpTo
  <2> QED
    BY <2>1, <2>2
<1>3. s = F(s)
  BY <1>2
<1>4. FramesBy(bytes) = s
  BY DEF FramesBy
<1> HIDE DEF s
<1>5. \A n \in 0..N : s[n] = IF n = 0 THEN <<>> ELSE WithByte(bytes, s[n - 1], n)
  BY <1>3
<1>6. s = [n \in 0..N |-> s[n]]
  BY <1>3
<1>7. \A n \in 0..N : s[n] \in Seq(McpFrameType)
  <2> DEFINE T == {n \in Nat : n <= N => s[n] \in Seq(McpFrameType)}
  <2>1. 0 \in T
    <3>1. s[0] = <<>>
      BY <1>0, <1>5
    <3>2. s[0] \in Seq(McpFrameType)
      BY <3>1, EmptySeq
    <3> QED
      BY <3>2
  <2>2. ASSUME NEW n \in Nat, n \in T PROVE n + 1 \in T
    <3>1. SUFFICES ASSUME n + 1 <= N PROVE s[n + 1] \in Seq(McpFrameType)
      OBVIOUS
    <3>2. n + 1 \in 0..N /\ n + 1 # 0 /\ (n + 1) - 1 = n /\ s[n] \in Seq(McpFrameType) /\ n + 1 \in 1..N
      BY <3>1, <2>2, <1>0
    <3>3. s[n + 1] = WithByte(bytes, s[n], n + 1)
      BY <1>5, <3>2
    <3> QED
      BY <3>2, <3>3, WithByteType
  <2>3. Nat \subseteq T
    <3> HIDE DEF T
    <3> QED
      BY <2>1, <2>2, SetInduction
  <2> QED
    BY <2>3, <1>0
<1>8. s \in [0..N -> Seq(McpFrameType)]
  BY <1>6, <1>7
<1>9. s[0] = <<>> /\ \A n \in 1..N : s[n] = WithByte(bytes, s[n - 1], n)
  BY <1>0, <1>5
<1>10. FramesUpTo(s, bytes, N)
  BY <1>8, <1>9 DEF FramesUpTo
<1> QED
  BY <1>4, <1>10

\* Bytes that end no line add no frame.
LEMMA FlatBetween ==
  ASSUME NEW bytes \in Seq(Bytes), NEW p \in Nat, NEW q \in Nat, p <= q, q <= Len(bytes),
         \A i \in (p + 1)..q : bytes[i] # "n"
  PROVE  FramesBy(bytes)[q] = FramesBy(bytes)[p]
<1>0. Len(bytes) \in Nat
  BY LenProperties
<1>1. PICK f : f = FramesBy(bytes) /\ FramesUpTo(f, bytes, Len(bytes))
  BY FramesByIs
<1> DEFINE T == {n \in Nat : p + n <= q => f[p + n] = f[p]}
<1>2. 0 \in T
  OBVIOUS
<1>3. ASSUME NEW n \in Nat, n \in T PROVE n + 1 \in T
  <2>1. SUFFICES ASSUME p + (n + 1) <= q PROVE f[p + (n + 1)] = f[p]
    OBVIOUS
  <2>2. p + n <= q /\ p + (n + 1) \in 1..Len(bytes) /\ (p + (n + 1)) - 1 = p + n
        /\ p + (n + 1) \in (p + 1)..q
    BY <2>1, <1>0
  <2>3. f[p + (n + 1)] = WithByte(bytes, f[p + n], p + (n + 1))
    BY <1>1, <2>2 DEF FramesUpTo
  <2>4. bytes[p + (n + 1)] # "n"
    BY <2>2
  <2>5. f[p + (n + 1)] = f[p + n]
    BY <2>3, <2>4 DEF WithByte
  <2> QED
    BY <1>3, <2>2, <2>5
<1>4. Nat \subseteq T
  <2> HIDE DEF T
  <2> QED
    BY <1>2, <1>3, SetInduction
<1>5. q - p \in Nat /\ p + (q - p) = q
  OBVIOUS
<1>6. q - p \in T
  BY <1>4, <1>5
<1> QED
  BY <1>1, <1>5, <1>6

\* The frames by p begin the frames of the whole stream.
LEMMA BeginsWhole ==
  ASSUME NEW bytes \in Seq(Bytes), NEW p \in 0..Len(bytes)
  PROVE  /\ FramesBy(bytes)[p] \in Seq(McpFrameType) /\ FramesOf(bytes) \in Seq(McpFrameType)
         /\ Begins(FramesBy(bytes)[p], FramesOf(bytes))
<1>0. Len(bytes) \in Nat
  BY LenProperties
<1>1. PICK f : f = FramesBy(bytes) /\ FramesUpTo(f, bytes, Len(bytes))
  BY FramesByIs
<1>2. \A n \in 0..Len(bytes) : f[n] \in Seq(McpFrameType)
  BY <1>1 DEF FramesUpTo
<1>3. ASSUME NEW x \in Seq(McpFrameType), NEW y \in Seq(McpFrameType), NEW z \in Seq(McpFrameType),
             Begins(x, y), Begins(y, z)
      PROVE  Begins(x, z)
  <2>1. Len(x) \in Nat /\ Len(y) \in Nat /\ Len(z) \in Nat
    BY LenProperties
  <2> QED
    BY <1>3, <2>1 DEF Begins
<1> DEFINE T == {n \in Nat : p + n <= Len(bytes) => Begins(f[p], f[p + n])}
<1>4. 0 \in T
  <2>1. f[p] \in Seq(McpFrameType)
    BY <1>2
  <2>2. Len(f[p]) \in Nat
    BY <2>1, LenProperties
  <2> QED
    BY <2>2 DEF Begins
<1>5. ASSUME NEW n \in Nat, n \in T PROVE n + 1 \in T
  <2>1. SUFFICES ASSUME p + (n + 1) <= Len(bytes) PROVE Begins(f[p], f[p + (n + 1)])
    OBVIOUS
  <2>2. p + n <= Len(bytes) /\ p + (n + 1) \in 1..Len(bytes) /\ (p + (n + 1)) - 1 = p + n
        /\ p + n \in 0..Len(bytes) /\ p + (n + 1) \in 0..Len(bytes)
    BY <2>1, <1>0
  <2>3. f[p + (n + 1)] = WithByte(bytes, f[p + n], p + (n + 1))
    BY <1>1, <2>2 DEF FramesUpTo
  <2>4. f[p + n] \in Seq(McpFrameType) /\ f[p] \in Seq(McpFrameType) /\ f[p + (n + 1)] \in Seq(McpFrameType)
    BY <1>2, <2>2
  <2>5. Begins(f[p + n], f[p + (n + 1)])
    BY <2>2, <2>3, <2>4, WithByteType
  <2>6. Begins(f[p], f[p + n])
    BY <1>5, <2>2
  <2> QED
    BY <2>4, <2>5, <2>6, <1>3
<1>6. Nat \subseteq T
  <2> HIDE DEF T
  <2> QED
    BY <1>4, <1>5, SetInduction
<1>7. Len(bytes) - p \in Nat /\ p + (Len(bytes) - p) = Len(bytes)
  BY <1>0
<1>8. Len(bytes) - p \in T
  BY <1>6, <1>7
<1>9. Begins(f[p], f[Len(bytes)])
  BY <1>7, <1>8, <1>0
<1>10. LineStart(bytes, Len(bytes) + 1) \in 1..(Len(bytes) + 1)
  BY <1>0, LineStartOK
<1>11. PICK b \in Nat \ {0} : b = LineStart(bytes, Len(bytes) + 1)
  BY <1>10, <1>0
<1>12. SubSeq(bytes, b, Len(bytes)) \in Seq(Bytes)
  BY <1>0, Segment
<1>13. PICK w : w = FramesOf(bytes)
  OBVIOUS
<1>14. w = WithLine(f[Len(bytes)], SubSeq(bytes, b, Len(bytes)))
  BY <1>1, <1>11, <1>13 DEF FramesOf
<1>15. f[p] \in Seq(McpFrameType) /\ f[Len(bytes)] \in Seq(McpFrameType)
  BY <1>0, <1>2
<1>16. w \in Seq(McpFrameType) /\ Begins(f[Len(bytes)], w)
  BY <1>12, <1>14, <1>15, WithLineType
<1>17. Begins(f[p], w)
  BY <1>3, <1>9, <1>15, <1>16
<1> QED
  BY <1>1, <1>13, <1>15, <1>16, <1>17

-----------------------------------------------------------------------------
(* The stdio listener.                                                     *)

McpType(m) ==
  \E S : m \in [source : Seq(Bytes), input : Seq(Bytes), line : Seq(Bytes), saw : BOOLEAN,
                over : BOOLEAN, state : {"running", "failed", "bounded", "eof"}, processed : Nat,
                frames : Seq(McpFrameType), answers : Seq(S)]

\* p bytes have been read, the frames of the lines that end among them taken,
\* and what is held is the line that is still open, unless it is too long.
ReadUpTo(m, p) ==
  LET start == LineStart(m.source, p + 1)
      open == SubSeq(m.source, start, p)
  IN  /\ m.input = SubSeq(m.source, p + 1, Len(m.source))
      /\ m.frames = FramesBy(m.source)[p]
      /\ m.saw <=> start <= p
      /\ m.over => Len(open) > RawLimit
      /\ ~m.over => m.line = open

\* All bytes have been read and the last line taken.
ReadToTheEnd(m) == m.input = <<>> /\ ~m.saw /\ m.frames = FramesOf(m.source)

McpInv(m) ==
  /\ McpType(m)
  /\ m.state = "running" => ReadToTheEnd(m) \/ \E p \in 0..Len(m.source) : ReadUpTo(m, p)
  /\ Begins(m.frames, FramesOf(m.source))
  /\ m.state = "eof" => m.frames = FramesOf(m.source)
  /\ m.state # "failed" => Len(m.answers) = Len(m.frames)

\* The listener once a frame has been taken.
McpFrameTaken(m, frame, rest, answer, writes) ==
  LET reset == [m EXCEPT !.input = rest, !.line = <<>>, !.saw = FALSE, !.over = FALSE]
      count == m.processed + 1
  IN  IF frame.kind = "complete" /\ IsBlank(frame.line) THEN reset
      ELSE [reset EXCEPT
              !.processed = count,
              !.frames = Append(@, frame),
              !.answers = IF writes \/ answer = <<>> THEN Append(@, answer) ELSE @,
              !.state = IF ~writes /\ answer # <<>> THEN "failed"
                        ELSE IF MaxFrames # 0 /\ count >= MaxFrames THEN "bounded" ELSE @]

LineRead(m, raw, rest, w) ==
  /\ McpType(w) /\ w.source = m.source /\ w.input = rest /\ w.line = <<>>
  /\ w.saw = FALSE /\ w.over = FALSE /\ w.frames = WithLine(m.frames, raw)
  /\ w.state # "eof"
  /\ w.state # "failed" => Len(w.answers) = Len(w.frames)

LEMMA FrameTakenOK ==
  ASSUME NEW m, McpType(m), m.state = "running", Len(m.answers) = Len(m.frames),
         NEW raw \in Seq(Bytes), NEW frame, frame = FinishLine(raw), NEW rest \in Seq(Bytes),
         NEW answer, NEW writes \in BOOLEAN, NEW w, w = McpFrameTaken(m, frame, rest, answer, writes)
  PROVE  LineRead(m, raw, rest, w)
<1>1. PICK S : m \in [source : Seq(Bytes), input : Seq(Bytes), line : Seq(Bytes), saw : BOOLEAN,
                over : BOOLEAN, state : {"running", "failed", "bounded", "eof"}, processed : Nat,
                frames : Seq(McpFrameType), answers : Seq(S)]
  BY DEF McpType
<1>2. PICK U : U = S \cup {answer}
  OBVIOUS
<1>3. m.answers \in Seq(U) /\ answer \in U /\ m.frames \in Seq(McpFrameType) /\ frame \in McpFrameType
      /\ m.processed \in Nat
  <2>1. m.answers \in Seq(S) /\ m.frames \in Seq(McpFrameType) /\ m.processed \in Nat
    BY <1>1
  <2>2. S \subseteq U /\ answer \in U
    BY <1>2
  <2>3. m.answers \in Seq(U)
    BY <2>1, <2>2, SeqMonotonic
  <2> QED
    BY <2>1, <2>2, <2>3, FinishLineType
<1>4. PICK e : e = <<>> /\ e \in Seq(Bytes)
  BY EmptySeq
<1>5. e \in Seq(Bytes)
  BY <1>4
<1>6. PICK reset : reset = [m EXCEPT !.input = rest, !.line = e, !.saw = FALSE, !.over = FALSE]
  OBVIOUS
<1>7. /\ reset \in [source : Seq(Bytes), input : Seq(Bytes), line : Seq(Bytes), saw : BOOLEAN,
                over : BOOLEAN, state : {"running", "failed", "bounded", "eof"}, processed : Nat,
                frames : Seq(McpFrameType), answers : Seq(U)]
      /\ reset.source = m.source /\ reset.input = rest /\ reset.line = e /\ reset.saw = FALSE
      /\ reset.over = FALSE /\ reset.frames = m.frames /\ reset.answers = m.answers
      /\ reset.state = m.state
  BY <1>1, <1>3, <1>5, <1>6
<1>8. CASE frame.kind = "complete" /\ IsBlank(frame.line)
  <2>1. w = reset
    BY <1>4, <1>6, <1>8 DEF McpFrameTaken
  <2>2. WithLine(m.frames, raw) = m.frames
    BY <1>8 DEF WithLine
  <2>3. McpType(w)
    BY <2>1, <1>7 DEF McpType
  <2> QED
    BY <2>1, <2>2, <2>3, <1>4, <1>7 DEF LineRead
<1>9. CASE ~(frame.kind = "complete" /\ IsBlank(frame.line))
  <2>1. WithLine(m.frames, raw) = Append(m.frames, frame)
    BY <1>9 DEF WithLine
  <2>2. PICK fs : fs = Append(m.frames, frame)
    OBVIOUS
  <2>3. fs \in Seq(McpFrameType) /\ Len(fs) = Len(m.frames) + 1
    BY <2>2, <1>3, AppendProperties
  <2>4. PICK as : as = IF writes \/ answer = <<>> THEN Append(m.answers, answer) ELSE m.answers
    OBVIOUS
  <2>5. as \in Seq(U) /\ (writes \/ answer = <<>> => Len(as) = Len(m.answers) + 1)
    BY <2>4, <1>3, AppendProperties
  <2>6. PICK c \in Nat : c = m.processed + 1
    BY <1>3
  <2>7. PICK st : st = IF ~writes /\ answer # <<>> THEN "failed"
                       ELSE IF MaxFrames # 0 /\ c >= MaxFrames THEN "bounded" ELSE m.state
    OBVIOUS
  <2>8. st \in {"running", "failed", "bounded"} /\ (st # "failed" => writes \/ answer = <<>>)
    BY <2>7
  <2>9. w = [reset EXCEPT !.processed = c, !.frames = fs, !.answers = as, !.state = st]
    BY <1>4, <1>6, <1>7, <1>9, <2>2, <2>4, <2>6, <2>7 DEF McpFrameTaken
  <2>10. fs \in Seq(McpFrameType) /\ as \in Seq(U) /\ st \in {"running", "failed", "bounded", "eof"}
    BY <2>3, <2>5, <2>8
  <2>11. /\ w \in [source : Seq(Bytes), input : Seq(Bytes), line : Seq(Bytes), saw : BOOLEAN,
                over : BOOLEAN, state : {"running", "failed", "bounded", "eof"}, processed : Nat,
                frames : Seq(McpFrameType), answers : Seq(U)]
         /\ w.source = reset.source /\ w.input = reset.input /\ w.line = reset.line
         /\ w.saw = reset.saw /\ w.over = reset.over /\ w.frames = fs /\ w.answers = as
         /\ w.state = st
    BY <1>7, <2>9, <2>10
  <2>12. McpType(w)
    BY <2>11 DEF McpType
  <2>13. st # "failed" => Len(as) = Len(fs)
    BY <2>3, <2>5, <2>8
  <2> QED
    BY <1>4, <1>7, <2>1, <2>2, <2>8, <2>11, <2>12, <2>13 DEF LineRead
<1> QED
  BY <1>8, <1>9

\* The listener after a newline: the line that was open has been taken.
LineTaken(bytes, p, c, b) ==
  /\ b \in 1..(p + 1)
  /\ FramesBy(bytes)[p + c] = WithLine(FramesBy(bytes)[p], SubSeq(bytes, b, p + c - 1))
  /\ LineStart(bytes, p + c + 1) = p + c + 1

LEMMA NewlineRead ==
  ASSUME NEW bytes \in Seq(Bytes), NEW p \in Nat, NEW c \in Nat \ {0}, p + c <= Len(bytes),
         bytes[p + c] = "n", \A i \in (p + 1)..(p + c - 1) : bytes[i] # "n",
         NEW b, b = LineStart(bytes, p + 1)
  PROVE  LineTaken(bytes, p, c, b)
<1>0. Len(bytes) \in Nat
  BY LenProperties
<1>1. b \in 1..(p + 1) /\ BeginsAt(bytes, p + 1, b)
  BY LineStartOK
<1>2. BeginsAt(bytes, p + c, b)
  <2>1. b \in 1..(p + c) /\ (b = 1 \/ bytes[b - 1] = "n")
    BY <1>1 DEF BeginsAt
  <2>2. ASSUME NEW i \in b..(p + c - 1) PROVE bytes[i] # "n"
    <3>1. i \in b..((p + 1) - 1) \/ i \in (p + 1)..(p + c - 1)
      BY <1>1
    <3> QED
      BY <1>1, <3>1 DEF BeginsAt
  <2> QED
    BY <2>1, <2>2 DEF BeginsAt
<1>3. LineStart(bytes, p + c) = b
  <2>1. p + c \in Nat \ {0} /\ b \in 1..(p + c)
    BY <1>1
  <2> QED
    BY <1>2, <2>1, LineStartIs
<1>4. BeginsAt(bytes, p + c + 1, p + c + 1)
  BY DEF BeginsAt
<1>5. LineStart(bytes, p + c + 1) = p + c + 1
  <2>1. p + c + 1 \in Nat \ {0} /\ p + c + 1 \in 1..(p + c + 1)
    OBVIOUS
  <2> QED
    BY <1>4, <2>1, LineStartIs
<1>6. FramesBy(bytes)[p + c - 1] = FramesBy(bytes)[p]
  <2>1. PICK q \in Nat : q = p + c - 1
    OBVIOUS
  <2>2. p <= q /\ q <= Len(bytes) /\ \A i \in (p + 1)..q : bytes[i] # "n"
    BY <2>1, <1>0
  <2>3. FramesBy(bytes)[q] = FramesBy(bytes)[p]
    BY <2>2, FlatBetween
  <2> QED
    BY <2>1, <2>3
<1>7. PICK f : f = FramesBy(bytes) /\ FramesUpTo(f, bytes, Len(bytes))
  BY FramesByIs
<1>8. p + c \in 1..Len(bytes) /\ (p + c) - 1 = p + c - 1
  BY <1>0
<1>9. f[p + c] = WithByte(bytes, f[p + c - 1], p + c)
  BY <1>7, <1>8 DEF FramesUpTo
<1>10. f[p + c] = WithLine(f[p], SubSeq(bytes, b, p + c - 1))
  BY <1>3, <1>6, <1>7, <1>8, <1>9 DEF WithByte
<1> QED
  BY <1>1, <1>5, <1>7, <1>10 DEF LineTaken

\* The listener after bytes without one: the same line is open.
LineOpen(bytes, p, n, b) ==
  /\ b \in 1..(p + 1)
  /\ FramesBy(bytes)[p + n] = FramesBy(bytes)[p]
  /\ LineStart(bytes, p + n + 1) = b

LEMMA NoNewlineRead ==
  ASSUME NEW bytes \in Seq(Bytes), NEW p \in Nat, NEW n \in Nat, p + n <= Len(bytes),
         \A i \in (p + 1)..(p + n) : bytes[i] # "n",
         NEW b, b = LineStart(bytes, p + 1)
  PROVE  LineOpen(bytes, p, n, b)
<1>1. b \in 1..(p + 1) /\ BeginsAt(bytes, p + 1, b)
  BY LineStartOK
<1>2. BeginsAt(bytes, p + n + 1, b)
  <2>1. b \in 1..(p + n + 1) /\ (b = 1 \/ bytes[b - 1] = "n")
    BY <1>1 DEF BeginsAt
  <2>2. ASSUME NEW i \in b..((p + n + 1) - 1) PROVE bytes[i] # "n"
    <3>1. i \in b..((p + 1) - 1) \/ i \in (p + 1)..(p + n)
      BY <1>1
    <3> QED
      BY <1>1, <3>1 DEF BeginsAt
  <2> QED
    BY <2>1, <2>2 DEF BeginsAt
<1>3. p + n + 1 \in Nat \ {0} /\ b \in 1..(p + n + 1)
  BY <1>1
<1>4. LineStart(bytes, p + n + 1) = b
  BY <1>2, <1>3, LineStartIs
<1>5. p <= p + n /\ p + n \in Nat
  OBVIOUS
<1>6. FramesBy(bytes)[p + n] = FramesBy(bytes)[p]
  BY <1>5, FlatBetween
<1> QED
  BY <1>1, <1>4, <1>6 DEF LineOpen

\* What is left of the stream after p bytes.
SuffixOf(bytes, p, input) ==
  /\ input \in Seq(Bytes) /\ Len(input) = Len(bytes) - p
  /\ \A i \in 1..Len(input) : input[i] = bytes[p + i]
  /\ \A k \in 0..Len(input) : SubSeq(input, k + 1, Len(input)) = SubSeq(bytes, p + k + 1, Len(bytes))
  /\ \A k \in 0..Len(input) : SubSeq(input, 1, k) = SubSeq(bytes, p + 1, p + k)

LEMMA Suffix ==
  ASSUME NEW bytes \in Seq(Bytes), NEW p \in 0..Len(bytes), NEW input,
         input = SubSeq(bytes, p + 1, Len(bytes))
  PROVE  SuffixOf(bytes, p, input)
<1>0. Len(bytes) \in Nat /\ p \in Nat
  BY LenProperties
<1>1. PICK N \in Nat : N = Len(bytes)
  BY <1>0
<1>2. p + 1 \in Nat \ {0} /\ p <= N
  BY <1>0, <1>1
<1>3. /\ input \in Seq(Bytes) /\ Len(input) = IF p + 1 <= N THEN N - (p + 1) + 1 ELSE 0
      /\ \A k \in 1..(N - (p + 1) + 1) : input[k] = bytes[(p + 1) + k - 1]
  BY <1>1, <1>2, Segment
<1>4. Len(input) = N - p
  BY <1>0, <1>2, <1>3
<1>5. ASSUME NEW i \in 1..Len(input) PROVE input[i] = bytes[p + i]
  <2>1. i \in 1..(N - (p + 1) + 1) /\ (p + 1) + i - 1 = p + i
    BY <1>0, <1>4
  <2> QED
    BY <1>3, <2>1
<1>6. ASSUME NEW k \in 0..Len(input)
      PROVE  SubSeq(input, k + 1, Len(input)) = SubSeq(bytes, p + k + 1, Len(bytes))
  <2>1. PICK M \in Nat : M = Len(input)
    BY <1>0, <1>2, <1>4
  <2>2. M = N - p /\ k \in 0..M
    BY <2>1, <1>4
  <2>3. PICK x, y : x = SubSeq(input, k + 1, M) /\ y = SubSeq(bytes, p + k + 1, N)
    OBVIOUS
  <2>4. /\ x \in Seq(Bytes) /\ Len(x) = IF k + 1 <= M THEN M - (k + 1) + 1 ELSE 0
        /\ \A j \in 1..(M - (k + 1) + 1) : x[j] = input[(k + 1) + j - 1]
    BY <2>1, <2>2, <2>3, <1>3, Segment
  <2>5. p + k + 1 \in Nat \ {0}
    BY <1>0, <2>2
  <2>6. /\ y \in Seq(Bytes) /\ Len(y) = IF p + k + 1 <= N THEN N - (p + k + 1) + 1 ELSE 0
        /\ \A j \in 1..(N - (p + k + 1) + 1) : y[j] = bytes[(p + k + 1) + j - 1]
    <3>1. PICK i \in Nat \ {0} : i = p + k + 1
      BY <2>5
    <3>2. N \in Nat /\ N <= Len(bytes)
      BY <1>1
    <3>3. /\ SubSeq(bytes, i, N) \in Seq(Bytes)
          /\ Len(SubSeq(bytes, i, N)) = IF i <= N THEN N - i + 1 ELSE 0
          /\ \A j \in 1..(N - i + 1) : SubSeq(bytes, i, N)[j] = bytes[i + j - 1]
      BY <3>2, Segment
    <3> QED
      BY <2>3, <3>1, <3>3
  <2>7. Len(x) = M - k /\ Len(y) = M - k
    BY <2>2, <2>4, <2>6, <1>0
  <2>8. ASSUME NEW j \in 1..Len(x) PROVE x[j] = y[j]
    <3>1. j \in 1..(M - k)
      BY <2>7
    <3>2. j \in 1..(M - (k + 1) + 1) /\ j \in 1..(N - (p + k + 1) + 1) /\ k + j \in 1..M
          /\ (k + 1) + j - 1 = k + j /\ (p + k + 1) + j - 1 = p + (k + j)
      BY <3>1, <2>2, <1>0
    <3>3. x[j] = input[k + j] /\ y[j] = bytes[p + (k + j)]
      BY <3>2, <2>4, <2>6
    <3> QED
      BY <3>2, <3>3, <2>1, <1>5
  <2>9. x = y
    BY <2>4, <2>6, <2>7, <2>8, SeqEqual
  <2> QED
    BY <2>1, <2>3, <2>9, <1>1
<1>7. ASSUME NEW k \in 0..Len(input)
      PROVE  SubSeq(input, 1, k) = SubSeq(bytes, p + 1, p + k)
  <2>1. PICK M \in Nat : M = Len(input)
    BY <1>0, <1>2, <1>4
  <2>2. M = N - p /\ k \in 0..M
    BY <2>1, <1>4
  <2>3. PICK x, y : x = SubSeq(input, 1, k) /\ y = SubSeq(bytes, p + 1, p + k)
    OBVIOUS
  <2>4. k \in Nat /\ k <= M /\ 1 \in Nat \ {0}
    BY <2>2
  <2>5. /\ x \in Seq(Bytes) /\ Len(x) = IF 1 <= k THEN k - 1 + 1 ELSE 0
        /\ \A j \in 1..(k - 1 + 1) : x[j] = input[1 + j - 1]
    BY <2>1, <2>3, <2>4, <1>3, Segment
  <2>6. p + k \in Nat /\ p + k <= N
    BY <1>0, <2>2
  <2>7. /\ y \in Seq(Bytes) /\ Len(y) = IF p + 1 <= p + k THEN (p + k) - (p + 1) + 1 ELSE 0
        /\ \A j \in 1..((p + k) - (p + 1) + 1) : y[j] = bytes[(p + 1) + j - 1]
    BY <2>3, <2>6, <1>1, <1>2, Segment
  <2>8. Len(x) = k /\ Len(y) = k
    BY <2>4, <2>5, <2>7, <1>0
  <2>9. ASSUME NEW j \in 1..Len(x) PROVE x[j] = y[j]
    <3>1. j \in 1..k
      BY <2>8
    <3>2. j \in 1..(k - 1 + 1) /\ j \in 1..((p + k) - (p + 1) + 1) /\ j \in 1..M
          /\ 1 + j - 1 = j /\ (p + 1) + j - 1 = p + j
      BY <3>1, <2>2, <1>0
    <3>3. x[j] = input[j] /\ y[j] = bytes[p + j]
      BY <3>2, <2>5, <2>7
    <3> QED
      BY <3>2, <3>3, <2>1, <1>5
  <2>10. x = y
    BY <2>5, <2>7, <2>8, <2>9, SeqEqual
  <2> QED
    BY <2>3, <2>10
<1> QED
  BY <1>1, <1>3, <1>4, <1>5, <1>6, <1>7 DEF SuffixOf

LEMMA NothingLeft ==
  ASSUME NEW bytes \in Seq(Bytes), NEW p \in 0..Len(bytes), <<>> = SubSeq(bytes, p + 1, Len(bytes))
  PROVE  p = Len(bytes)
<1>1. Len(bytes) \in Nat /\ p + 1 \in Nat \ {0}
  BY LenProperties
<1>2. Len(SubSeq(bytes, p + 1, Len(bytes))) = IF p + 1 <= Len(bytes) THEN Len(bytes) - (p + 1) + 1 ELSE 0
  BY <1>1, Segment
<1>3. Len(SubSeq(bytes, p + 1, Len(bytes))) = 0
  BY EmptySeq
<1> QED
  BY <1>1, <1>2, <1>3

LEMMA FirstOfOK ==
  ASSUME NEW at \in SUBSET Nat, at # {}
  PROVE  FirstOf(at) \in at /\ \A i \in at : FirstOf(at) <= i
<1>1. PICK k \in at : TRUE
  OBVIOUS
<1>2. \E m \in at : \A i \in at : m <= i
  BY <1>1, LeastMember
<1> QED
  BY <1>2 DEF FirstOf

\* The open line and what a chunk adds to it.
LineGrows(bytes, p, k, b) ==
  /\ SubSeq(bytes, b, p) \o SubSeq(bytes, p + 1, p + k) = SubSeq(bytes, b, p + k)
  /\ SubSeq(bytes, b, p + k) \in Seq(Bytes)
  /\ Len(SubSeq(bytes, b, p)) = p - b + 1 /\ Len(SubSeq(bytes, b, p + k)) = p + k - b + 1

LEMMA OpenLineGrows ==
  ASSUME NEW bytes \in Seq(Bytes), NEW p \in 0..Len(bytes), NEW b \in 1..(p + 1), NEW k \in Nat,
         p + k <= Len(bytes)
  PROVE  LineGrows(bytes, p, k, b)
<1>0. Len(bytes) \in Nat /\ p \in Nat
  BY LenProperties
<1>1. b \in 1..(Len(bytes) + 1) /\ p \in (b - 1)..Len(bytes) /\ p + k \in p..Len(bytes)
  BY <1>0
<1>2. SubSeq(bytes, b, p) \o SubSeq(bytes, p + 1, p + k) = SubSeq(bytes, b, p + k)
  BY <1>1, ConcatAdjacentSubSeq
<1>3. b \in Nat \ {0} /\ p <= Len(bytes) /\ p + k \in Nat
  BY <1>0
<1>4. SubSeq(bytes, b, p + k) \in Seq(Bytes) /\ Len(SubSeq(bytes, b, p + k)) = IF b <= p + k THEN p + k - b + 1 ELSE 0
  BY <1>3, Segment
<1>5. Len(SubSeq(bytes, b, p)) = IF b <= p THEN p - b + 1 ELSE 0
  BY <1>0, <1>3, Segment
<1>6. (IF b <= p + k THEN p + k - b + 1 ELSE 0) = p + k - b + 1 /\ (IF b <= p THEN p - b + 1 ELSE 0) = p - b + 1
  BY <1>0, <1>3
<1> QED
  BY <1>2, <1>4, <1>5, <1>6 DEF LineGrows

\* A chunk with a newline: the bytes of the line it ends, and what is left.
EndedAt(bytes, p, input, c, k, b, q, raw) ==
  /\ raw = SubSeq(bytes, b, p) \o SubSeq(input, 1, k)
  /\ Len(SubSeq(bytes, b, p)) > RawLimit => Len(raw) > RawLimit
  /\ FramesBy(bytes)[q] = WithLine(FramesBy(bytes)[p], raw)
  /\ LineStart(bytes, q + 1) = q + 1
  /\ ~(q + 1 <= q) /\ SubSeq(bytes, q + 1, q) = <<>>
  /\ SubSeq(input, c + 1, Len(input)) = SubSeq(bytes, q + 1, Len(bytes))
  /\ SubSeq(bytes, q + 1, Len(bytes)) \in Seq(Bytes)

LEMMA LineEnds ==
  ASSUME NEW bytes \in Seq(Bytes), NEW p \in 0..Len(bytes), NEW input,
         input = SubSeq(bytes, p + 1, Len(bytes)),
         NEW c \in 1..Len(input), NEW k, k = c - 1,
         input[c] = "n", \A i \in 1..k : input[i] # "n",
         NEW b, b = LineStart(bytes, p + 1)
  PROVE  \E q \in 0..Len(bytes), raw \in Seq(Bytes) : EndedAt(bytes, p, input, c, k, b, q, raw)
<1>3. SuffixOf(bytes, p, input)
  BY Suffix
<1>4. /\ input \in Seq(Bytes) /\ Len(input) = Len(bytes) - p
      /\ \A i \in 1..Len(input) : input[i] = bytes[p + i]
      /\ \A x \in 0..Len(input) : SubSeq(input, x + 1, Len(input)) = SubSeq(bytes, p + x + 1, Len(bytes))
      /\ \A x \in 0..Len(input) : SubSeq(input, 1, x) = SubSeq(bytes, p + 1, p + x)
  BY <1>3 DEF SuffixOf
<1>5. Len(bytes) \in Nat /\ p \in Nat /\ Len(input) \in Nat
  BY <1>4, LenProperties
<1>9. c \in Nat \ {0} /\ c \in 0..Len(input) /\ p + c <= Len(bytes) /\ k \in Nat
  BY <1>4, <1>5
<1>10. bytes[p + c] = "n" /\ \A i \in (p + 1)..(p + c - 1) : bytes[i] # "n"
  <2>1. bytes[p + c] = "n"
    BY <1>4, <1>9
  <2>2. ASSUME NEW i \in (p + 1)..(p + c - 1) PROVE bytes[i] # "n"
    <3>1. i - p \in 1..k /\ i - p \in 1..Len(input) /\ p + (i - p) = i
      BY <1>5, <1>9
    <3>2. input[i - p] = bytes[i]
      BY <3>1, <1>4
    <3> QED
      BY <3>1, <3>2
  <2> QED
    BY <2>1, <2>2
<1>12. /\ b \in 1..(p + 1)
       /\ FramesBy(bytes)[p + c] = WithLine(FramesBy(bytes)[p], SubSeq(bytes, b, p + c - 1))
       /\ LineStart(bytes, p + c + 1) = p + c + 1
  <2>1. p \in Nat /\ c \in Nat \ {0} /\ p + c <= Len(bytes)
    BY <1>5, <1>9
  <2>2. LineTaken(bytes, p, c, b)
    BY <2>1, <1>10, NewlineRead
  <2> QED
    BY <2>2 DEF LineTaken
<1>14. k \in 0..Len(input) /\ p + k <= Len(bytes) /\ p + c - 1 = p + k
  BY <1>5, <1>9
<1>15. /\ SubSeq(bytes, b, p) \o SubSeq(bytes, p + 1, p + k) = SubSeq(bytes, b, p + k)
       /\ SubSeq(bytes, b, p + k) \in Seq(Bytes)
       /\ Len(SubSeq(bytes, b, p)) = p - b + 1 /\ Len(SubSeq(bytes, b, p + k)) = p + k - b + 1
  <2>1. LineGrows(bytes, p, k, b)
    BY <1>9, <1>12, <1>14, OpenLineGrows
  <2> QED
    BY <2>1 DEF LineGrows
<1>16. PICK raw : raw = SubSeq(bytes, b, p + k)
  OBVIOUS
<1>17. raw \in Seq(Bytes) /\ Len(raw) = p + k - b + 1
  BY <1>15, <1>16
<1>18. Len(SubSeq(bytes, b, p)) > RawLimit => Len(raw) > RawLimit
  <2>1. RawLimit \in Nat
    BY AgentAssumption DEF RawLimit
  <2>2. p - b + 1 > RawLimit => p + k - b + 1 > RawLimit
    BY <2>1, <1>5, <1>12
  <2> QED
    BY <2>2, <1>15, <1>17
<1>19. raw = SubSeq(bytes, b, p) \o SubSeq(input, 1, k)
  BY <1>4, <1>14, <1>15, <1>16
<1>20. PICK q \in 0..Len(bytes) : q = p + c
  BY <1>5, <1>9
<1>21. q \in Nat /\ ~(q + 1 <= q)
  BY <1>5
<1>22. FramesBy(bytes)[q] = WithLine(FramesBy(bytes)[p], raw) /\ LineStart(bytes, q + 1) = q + 1
  BY <1>12, <1>14, <1>16, <1>20
<1>23. SubSeq(bytes, q + 1, q) = <<>>
  BY <1>21, SubSeqEmpty
<1>24. SubSeq(input, c + 1, Len(input)) = SubSeq(bytes, q + 1, Len(bytes))
  <2>1. SubSeq(input, c + 1, Len(input)) = SubSeq(bytes, p + c + 1, Len(bytes))
    BY <1>4, <1>9
  <2> QED
    BY <2>1, <1>20
<1>25. SubSeq(bytes, q + 1, Len(bytes)) \in Seq(Bytes)
  <2>1. PICK i \in Nat \ {0} : i = q + 1
    BY <1>21
  <2>2. SubSeq(bytes, i, Len(bytes)) \in Seq(Bytes)
    BY <1>5, Segment
  <2> QED
    BY <2>1, <2>2
<1> QED
  BY <1>17, <1>18, <1>19, <1>20, <1>21, <1>22, <1>23, <1>24, <1>25 DEF EndedAt

\* A chunk without a newline: the bytes of the line that is still open.
OpenAt(bytes, p, input, n, b, q, raw) ==
  /\ raw = SubSeq(bytes, b, p) \o SubSeq(input, 1, n) /\ raw = SubSeq(bytes, b, q)
  /\ Len(SubSeq(bytes, b, p)) > RawLimit => Len(raw) > RawLimit
  /\ FramesBy(bytes)[q] = FramesBy(bytes)[p]
  /\ LineStart(bytes, q + 1) = b /\ b <= q
  /\ SubSeq(input, n + 1, Len(input)) = SubSeq(bytes, q + 1, Len(bytes))
  /\ SubSeq(bytes, q + 1, Len(bytes)) \in Seq(Bytes)

LEMMA LineStaysOpen ==
  ASSUME NEW bytes \in Seq(Bytes), NEW p \in 0..Len(bytes), NEW input,
         input = SubSeq(bytes, p + 1, Len(bytes)),
         NEW n \in 1..Len(input), \A i \in 1..n : input[i] # "n",
         NEW b, b = LineStart(bytes, p + 1)
  PROVE  \E q \in 0..Len(bytes), raw \in Seq(Bytes) : OpenAt(bytes, p, input, n, b, q, raw)
<1>3. SuffixOf(bytes, p, input)
  BY Suffix
<1>4. /\ input \in Seq(Bytes) /\ Len(input) = Len(bytes) - p
      /\ \A i \in 1..Len(input) : input[i] = bytes[p + i]
      /\ \A k \in 0..Len(input) : SubSeq(input, k + 1, Len(input)) = SubSeq(bytes, p + k + 1, Len(bytes))
      /\ \A k \in 0..Len(input) : SubSeq(input, 1, k) = SubSeq(bytes, p + 1, p + k)
  BY <1>3 DEF SuffixOf
<1>5. Len(bytes) \in Nat /\ p \in Nat /\ Len(input) \in Nat /\ n \in 1..Len(input)
  BY <1>4, LenProperties
<1>6. n \in Nat /\ n \in 0..Len(input) /\ p + n <= Len(bytes) /\ n > 0
  BY <1>4, <1>5
<1>7. ASSUME NEW i \in (p + 1)..(p + n) PROVE bytes[i] # "n"
  <2>1. i - p \in 1..n /\ i - p \in 1..Len(input) /\ p + (i - p) = i
    BY <1>5, <1>6
  <2>2. input[i - p] = bytes[i]
    BY <2>1, <1>4
  <2> QED
    BY <2>1, <2>2
<1>8. /\ b \in 1..(p + 1)
      /\ FramesBy(bytes)[p + n] = FramesBy(bytes)[p]
      /\ LineStart(bytes, p + n + 1) = b
  <2>1. p \in Nat /\ n \in Nat /\ p + n <= Len(bytes)
    BY <1>5, <1>6
  <2>2. \A i \in (p + 1)..(p + n) : bytes[i] # "n"
    BY <1>7
  <2>3. LineOpen(bytes, p, n, b)
    BY <2>1, <2>2, NoNewlineRead
  <2> QED
    BY <2>3 DEF LineOpen
<1>9. /\ SubSeq(bytes, b, p) \o SubSeq(bytes, p + 1, p + n) = SubSeq(bytes, b, p + n)
      /\ SubSeq(bytes, b, p + n) \in Seq(Bytes)
      /\ Len(SubSeq(bytes, b, p)) = p - b + 1 /\ Len(SubSeq(bytes, b, p + n)) = p + n - b + 1
  <2>1. LineGrows(bytes, p, n, b)
    BY <1>6, <1>8, OpenLineGrows
  <2> QED
    BY <2>1 DEF LineGrows
<1>10. PICK q \in 0..Len(bytes) : q = p + n
  BY <1>5, <1>6
<1>11. q \in Nat /\ b <= q
  BY <1>5, <1>6, <1>8, <1>10
<1>12. PICK raw : raw = SubSeq(bytes, b, q)
  OBVIOUS
<1>13. raw \in Seq(Bytes) /\ Len(raw) = p + n - b + 1
  BY <1>9, <1>10, <1>12
<1>14. Len(SubSeq(bytes, b, p)) > RawLimit => Len(raw) > RawLimit
  <2>1. RawLimit \in Nat
    BY AgentAssumption DEF RawLimit
  <2>2. p - b + 1 > RawLimit => p + n - b + 1 > RawLimit
    BY <2>1, <1>5, <1>6, <1>8
  <2> QED
    BY <2>2, <1>9, <1>13
<1>15. raw = SubSeq(bytes, b, p) \o SubSeq(input, 1, n)
  BY <1>4, <1>6, <1>9, <1>10, <1>12
<1>16. SubSeq(input, n + 1, Len(input)) = SubSeq(bytes, q + 1, Len(bytes))
  BY <1>4, <1>6, <1>10
<1>17. SubSeq(bytes, q + 1, Len(bytes)) \in Seq(Bytes)
  <2>1. PICK i \in Nat \ {0} : i = q + 1
    BY <1>11
  <2>2. SubSeq(bytes, i, Len(bytes)) \in Seq(Bytes)
    BY <1>5, Segment
  <2> QED
    BY <2>1, <2>2
<1>18. FramesBy(bytes)[q] = FramesBy(bytes)[p] /\ LineStart(bytes, q + 1) = b
  BY <1>8, <1>10
<1> QED
  BY <1>11, <1>12, <1>13, <1>14, <1>15, <1>16, <1>17, <1>18 DEF OpenAt

\* The frame of a line, from what was held of it: over when past the limit.
LEMMA FrameOfLine ==
  ASSUME NEW held \in BOOLEAN, NEW raw \in Seq(Bytes), NEW line, held \/ line = raw,
         held => Len(raw) > RawLimit, NEW over \in BOOLEAN, over = (held \/ Len(line) > RawLimit),
         NEW frame, frame = IF over THEN [kind |-> "oversized", line |-> <<>>] ELSE FinishLine(line)
  PROVE  frame = FinishLine(raw)
<1>1. CASE Len(raw) > RawLimit
  <2>1. FinishLine(raw) = [kind |-> "oversized", line |-> <<>>]
    BY <1>1, PastTheLimit
  <2> QED
    BY <1>1, <2>1
<1>2. CASE ~(Len(raw) > RawLimit)
  BY <1>2
<1> QED
  BY <1>1, <1>2

\* A newline in the chunk: the open line is a frame, or blank.
LEMMA ChunkEndsLine ==
  ASSUME NEW m, McpType(m), m.state = "running", Len(m.answers) = Len(m.frames),
         NEW p \in 0..Len(m.source), ReadUpTo(m, p),
         NEW c \in 1..Len(m.input), NEW k, k = c - 1,
         m.input[c] = "n", \A i \in 1..k : m.input[i] # "n",
         NEW rest, rest = SubSeq(m.input, c + 1, Len(m.input)),
         NEW line, line = m.line \o SubSeq(m.input, 1, k),
         NEW over \in BOOLEAN, over = (m.over \/ Len(line) > RawLimit),
         NEW frame, frame = IF over THEN [kind |-> "oversized", line |-> <<>>] ELSE FinishLine(line),
         NEW answer, NEW writes \in BOOLEAN, NEW w, w = McpFrameTaken(m, frame, rest, answer, writes)
  PROVE  McpInv(w)
<1>1. m.source \in Seq(Bytes) /\ m.over \in BOOLEAN
  BY DEF McpType
<1>2. PICK bytes \in Seq(Bytes) : bytes = m.source
  BY <1>1
<1>3. PICK input : input = m.input
  OBVIOUS
<1>4. PICK b : b = LineStart(bytes, p + 1)
  OBVIOUS
<1>5. /\ p \in 0..Len(bytes) /\ input = SubSeq(bytes, p + 1, Len(bytes))
      /\ m.frames = FramesBy(bytes)[p]
      /\ m.over => Len(SubSeq(bytes, b, p)) > RawLimit
      /\ ~m.over => m.line = SubSeq(bytes, b, p)
  BY <1>2, <1>3, <1>4 DEF ReadUpTo
<1>60. \E q \in 0..Len(bytes), raw \in Seq(Bytes) : EndedAt(bytes, p, input, c, k, b, q, raw)
  <2>1. c \in 1..Len(input) /\ input[c] = "n" /\ \A i \in 1..k : input[i] # "n"
    BY <1>3
  <2> QED
    BY <1>4, <1>5, <2>1, LineEnds
<1>6. PICK q \in 0..Len(bytes), raw \in Seq(Bytes) :
           /\ raw = SubSeq(bytes, b, p) \o SubSeq(input, 1, k)
           /\ Len(SubSeq(bytes, b, p)) > RawLimit => Len(raw) > RawLimit
           /\ FramesBy(bytes)[q] = WithLine(FramesBy(bytes)[p], raw)
           /\ LineStart(bytes, q + 1) = q + 1
           /\ ~(q + 1 <= q) /\ SubSeq(bytes, q + 1, q) = <<>>
           /\ SubSeq(input, c + 1, Len(input)) = SubSeq(bytes, q + 1, Len(bytes))
           /\ SubSeq(bytes, q + 1, Len(bytes)) \in Seq(Bytes)
  BY <1>60 DEF EndedAt
<1>7. frame = FinishLine(raw)
  <2>1. m.over \/ line = raw
    BY <1>3, <1>5, <1>6
  <2>2. m.over => Len(raw) > RawLimit
    BY <1>5, <1>6
  <2> QED
    BY <1>1, <2>1, <2>2, FrameOfLine
<1>8. rest = SubSeq(bytes, q + 1, Len(bytes)) /\ rest \in Seq(Bytes)
  BY <1>3, <1>6
<1>9. /\ McpType(w) /\ w.source = m.source /\ w.input = rest /\ w.line = <<>>
      /\ w.saw = FALSE /\ w.over = FALSE /\ w.frames = WithLine(m.frames, raw)
      /\ w.state # "eof"
      /\ w.state # "failed" => Len(w.answers) = Len(w.frames)
  <2>1. LineRead(m, raw, rest, w)
    BY <1>7, <1>8, FrameTakenOK
  <2> QED
    BY <2>1 DEF LineRead
<1>10. w.frames = FramesBy(bytes)[q] /\ w.source = bytes
  BY <1>2, <1>5, <1>6, <1>9
<1>11. ReadUpTo(w, q)
  <2>1. w.input = SubSeq(bytes, q + 1, Len(bytes))
    BY <1>8, <1>9
  <2> QED
    BY <1>6, <1>9, <1>10, <2>1 DEF ReadUpTo
<1>12. Begins(w.frames, FramesOf(bytes))
  BY <1>10, BeginsWhole
<1> QED
  BY <1>9, <1>10, <1>11, <1>12 DEF McpInv

\* No newline in the chunk: the line stays open.
LEMMA ChunkStaysOpen ==
  ASSUME NEW m, McpInv(m), m.state = "running",
         NEW p \in 0..Len(m.source), ReadUpTo(m, p),
         NEW n \in 1..Len(m.input), \A i \in 1..n : m.input[i] # "n",
         NEW rest, rest = SubSeq(m.input, n + 1, Len(m.input)),
         NEW line, line = m.line \o SubSeq(m.input, 1, n),
         NEW over \in BOOLEAN, over = (m.over \/ Len(line) > RawLimit),
         NEW w, w = [m EXCEPT !.input = rest, !.saw = TRUE, !.over = over,
                              !.line = IF over THEN @ ELSE line]
  PROVE  McpInv(w)
<1>1. McpType(m)
  BY DEF McpInv
<1>2. PICK S : m \in [source : Seq(Bytes), input : Seq(Bytes), line : Seq(Bytes), saw : BOOLEAN,
                over : BOOLEAN, state : {"running", "failed", "bounded", "eof"}, processed : Nat,
                frames : Seq(McpFrameType), answers : Seq(S)]
  BY <1>1 DEF McpType
<1>3. m.source \in Seq(Bytes) /\ m.over \in BOOLEAN /\ m.line \in Seq(Bytes)
  BY <1>2
<1>4. PICK bytes \in Seq(Bytes) : bytes = m.source
  BY <1>3
<1>5. PICK input : input = m.input
  OBVIOUS
<1>6. PICK b : b = LineStart(bytes, p + 1)
  OBVIOUS
<1>7. /\ p \in 0..Len(bytes) /\ input = SubSeq(bytes, p + 1, Len(bytes))
      /\ m.frames = FramesBy(bytes)[p]
      /\ m.over => Len(SubSeq(bytes, b, p)) > RawLimit
      /\ ~m.over => m.line = SubSeq(bytes, b, p)
  BY <1>4, <1>5, <1>6 DEF ReadUpTo
<1>80. \E q \in 0..Len(bytes), raw \in Seq(Bytes) : OpenAt(bytes, p, input, n, b, q, raw)
  <2>1. n \in 1..Len(input) /\ \A i \in 1..n : input[i] # "n"
    BY <1>5
  <2> QED
    BY <1>6, <1>7, <2>1, LineStaysOpen
<1>8. PICK q \in 0..Len(bytes), raw \in Seq(Bytes) :
           /\ raw = SubSeq(bytes, b, p) \o SubSeq(input, 1, n) /\ raw = SubSeq(bytes, b, q)
           /\ Len(SubSeq(bytes, b, p)) > RawLimit => Len(raw) > RawLimit
           /\ FramesBy(bytes)[q] = FramesBy(bytes)[p]
           /\ LineStart(bytes, q + 1) = b /\ b <= q
           /\ SubSeq(input, n + 1, Len(input)) = SubSeq(bytes, q + 1, Len(bytes))
           /\ SubSeq(bytes, q + 1, Len(bytes)) \in Seq(Bytes)
  BY <1>80 DEF OpenAt
<1>9. rest = SubSeq(bytes, q + 1, Len(bytes)) /\ rest \in Seq(Bytes)
  BY <1>5, <1>8
<1>10. ~m.over => line = raw
  BY <1>5, <1>7, <1>8
<1>11. over => Len(raw) > RawLimit
  BY <1>7, <1>8, <1>10
<1>12. ~over => line = raw
  BY <1>10
<1>13. PICK held : held = IF over THEN m.line ELSE line
  OBVIOUS
<1>14. held \in Seq(Bytes) /\ (~over => held = raw)
  BY <1>3, <1>8, <1>12, <1>13
<1>15. w = [m EXCEPT !.input = rest, !.saw = TRUE, !.over = over, !.line = held]
  BY <1>13
<1>16. held \in Seq(Bytes) /\ rest \in Seq(Bytes)
  BY <1>9, <1>14
<1>17. /\ w \in [source : Seq(Bytes), input : Seq(Bytes), line : Seq(Bytes), saw : BOOLEAN,
                over : BOOLEAN, state : {"running", "failed", "bounded", "eof"}, processed : Nat,
                frames : Seq(McpFrameType), answers : Seq(S)]
       /\ w.source = m.source /\ w.input = rest /\ w.saw = TRUE /\ w.over = over /\ w.line = held
       /\ w.state = m.state /\ w.frames = m.frames /\ w.answers = m.answers
  BY <1>2, <1>15, <1>16
<1>18. McpType(w)
  BY <1>17 DEF McpType
<1>19. ReadUpTo(w, q)
  <2>1. w.source = bytes /\ w.input = SubSeq(bytes, q + 1, Len(bytes)) /\ w.frames = FramesBy(bytes)[q]
    BY <1>4, <1>7, <1>8, <1>9, <1>17
  <2> QED
    BY <1>8, <1>11, <1>14, <1>17, <2>1 DEF ReadUpTo
<1>20. /\ Begins(m.frames, FramesOf(m.source))
       /\ m.state # "failed" => Len(m.answers) = Len(m.frames)
  BY DEF McpInv
<1>21. Begins(w.frames, FramesOf(w.source)) /\ (w.state # "failed" => Len(w.answers) = Len(w.frames))
  BY <1>17, <1>20
<1>22. q \in 0..Len(w.source) /\ w.state # "eof"
  BY <1>4, <1>17
<1> QED
  BY <1>18, <1>19, <1>21, <1>22 DEF McpInv

\* The end of the input with an open line: it is the last frame, or blank.
LEMMA EofEndsLine ==
  ASSUME NEW m, McpType(m), m.state = "running", Len(m.answers) = Len(m.frames),
         NEW p \in 0..Len(m.source), ReadUpTo(m, p), m.input = <<>>,
         NEW frame, frame = IF m.over THEN [kind |-> "oversized", line |-> <<>>] ELSE FinishLine(m.line),
         NEW answer, NEW writes \in BOOLEAN, NEW w, w = McpFrameTaken(m, frame, <<>>, answer, writes)
  PROVE  McpInv(w)
<1>1. m.source \in Seq(Bytes) /\ m.over \in BOOLEAN
  BY DEF McpType
<1>2. PICK bytes \in Seq(Bytes) : bytes = m.source
  BY <1>1
<1>3. PICK b : b = LineStart(bytes, p + 1)
  OBVIOUS
<1>4. /\ p \in 0..Len(bytes) /\ <<>> = SubSeq(bytes, p + 1, Len(bytes))
      /\ m.frames = FramesBy(bytes)[p]
      /\ m.over => Len(SubSeq(bytes, b, p)) > RawLimit
      /\ ~m.over => m.line = SubSeq(bytes, b, p)
  BY <1>2, <1>3 DEF ReadUpTo
<1>5. p = Len(bytes)
  BY <1>4, NothingLeft
<1>6. Len(bytes) \in Nat /\ b \in 1..(Len(bytes) + 1)
  BY <1>3, <1>5, LineStartOK, LenProperties
<1>7. PICK raw : raw = SubSeq(bytes, b, Len(bytes))
  OBVIOUS
<1>8. raw \in Seq(Bytes)
  <2>1. b \in Nat \ {0}
    BY <1>6
  <2> QED
    BY <1>6, <1>7, <2>1, Segment
<1>9. frame = FinishLine(raw)
  <2>1. CASE m.over
    <3>1. Len(raw) > RawLimit
      BY <2>1, <1>4, <1>5, <1>7
    <3>2. FinishLine(raw) = [kind |-> "oversized", line |-> <<>>]
      BY <3>1, <1>8, PastTheLimit
    <3> QED
      BY <2>1, <3>2
  <2>2. CASE ~m.over
    BY <2>2, <1>4, <1>5, <1>7
  <2> QED
    BY <2>1, <2>2
<1>10. <<>> \in Seq(Bytes)
  BY EmptySeq
<1>11. /\ McpType(w) /\ w.source = m.source /\ w.input = <<>> /\ w.line = <<>>
       /\ w.saw = FALSE /\ w.over = FALSE /\ w.frames = WithLine(m.frames, raw)
       /\ w.state # "eof"
       /\ w.state # "failed" => Len(w.answers) = Len(w.frames)
  <2>1. PICK none : none = <<>>
    OBVIOUS
  <2>2. none \in Seq(Bytes) /\ w = McpFrameTaken(m, frame, none, answer, writes)
    BY <1>10, <2>1
  <2>3. LineRead(m, raw, none, w)
    BY <1>8, <1>9, <2>2, FrameTakenOK
  <2> QED
    BY <2>1, <2>3 DEF LineRead
<1>12. w.frames = FramesOf(bytes)
  BY <1>3, <1>4, <1>5, <1>7, <1>11 DEF FramesOf
<1>13. Begins(w.frames, FramesOf(bytes))
  <2>1. Len(bytes) \in 0..Len(bytes)
    BY <1>6
  <2>2. FramesOf(bytes) \in Seq(McpFrameType)
    BY <2>1, BeginsWhole
  <2>3. Begins(FramesOf(bytes), FramesOf(bytes))
    BY <2>2, LenProperties DEF Begins
  <2> QED
    BY <1>12, <2>3
<1>14. ReadToTheEnd(w)
  BY <1>2, <1>11, <1>12 DEF ReadToTheEnd
<1> QED
  BY <1>2, <1>11, <1>13, <1>14 DEF McpInv

\* The end of the input without one: everything was taken.
LEMMA EofAtEnd ==
  ASSUME NEW m, McpInv(m), m.state = "running", m.input = <<>>, ~m.saw,
         NEW w, w = [m EXCEPT !.state = "eof"]
  PROVE  McpInv(w)
<1>1. McpType(m) /\ Begins(m.frames, FramesOf(m.source)) /\ Len(m.answers) = Len(m.frames)
  BY DEF McpInv
<1>2. PICK S : m \in [source : Seq(Bytes), input : Seq(Bytes), line : Seq(Bytes), saw : BOOLEAN,
                over : BOOLEAN, state : {"running", "failed", "bounded", "eof"}, processed : Nat,
                frames : Seq(McpFrameType), answers : Seq(S)]
  BY <1>1 DEF McpType
<1>3. /\ w \in [source : Seq(Bytes), input : Seq(Bytes), line : Seq(Bytes), saw : BOOLEAN,
                over : BOOLEAN, state : {"running", "failed", "bounded", "eof"}, processed : Nat,
                frames : Seq(McpFrameType), answers : Seq(S)]
      /\ w.source = m.source /\ w.state = "eof" /\ w.frames = m.frames /\ w.answers = m.answers
  BY <1>2
<1>4. McpType(w)
  BY <1>3 DEF McpType
<1>5. m.frames = FramesOf(m.source)
  <2>1. CASE ReadToTheEnd(m)
    BY <2>1 DEF ReadToTheEnd
  <2>2. ASSUME NEW p \in 0..Len(m.source), ReadUpTo(m, p) PROVE m.frames = FramesOf(m.source)
    <3>0. m.source \in Seq(Bytes)
      BY <1>2
    <3>1. PICK bytes \in Seq(Bytes) : bytes = m.source
      BY <3>0
    <3>2. PICK b : b = LineStart(bytes, p + 1)
      OBVIOUS
    <3>3. /\ p \in 0..Len(bytes) /\ <<>> = SubSeq(bytes, p + 1, Len(bytes))
          /\ m.frames = FramesBy(bytes)[p] /\ ~(b <= p)
      BY <2>2, <3>1, <3>2 DEF ReadUpTo
    <3>4. p = Len(bytes)
      BY <3>3, NothingLeft
    <3>5. Len(bytes) \in Nat /\ b \in 1..(p + 1)
      BY <3>2, <3>4, LineStartOK, LenProperties
    <3>6. p < b /\ b \in Int /\ p \in Int
      BY <3>3, <3>4, <3>5
    <3>7. SubSeq(bytes, b, p) = <<>>
      BY <3>6, SubSeqEmpty
    <3>8. FramesOf(bytes) = WithLine(FramesBy(bytes)[p], <<>>)
      BY <3>2, <3>4, <3>7 DEF FramesOf
    <3> QED
      BY <3>1, <3>3, <3>8, EmptyLineIsBlank
  <2>3. ReadToTheEnd(m) \/ \E p \in 0..Len(m.source) : ReadUpTo(m, p)
    BY DEF McpInv
  <2> QED
    BY <2>1, <2>2, <2>3
<1> QED
  BY <1>1, <1>3, <1>4, <1>5 DEF McpInv

-----------------------------------------------------------------------------
(* Both channels.                                                          *)

AgentInv == PollerInv(tg) /\ McpInv(mcp) /\ \A r \in ran : RunOK(r)

LEMMA AgentInitOK == ASSUME AgentInit PROVE AgentInv
<1>1. PICK t : t = tg
  OBVIOUS
<1>2. PollerInv(t)
  <2>1. PICK e : e = <<>> /\ e \in Seq(HandledType)
    BY EmptySeq
  <2>2. e \in Seq(HandledType) /\ Len(e) = 0
    BY <2>1, EmptySeq
  <2>3. t = [offset |-> 0, saved |-> 0, batch |-> {}, passed |-> FALSE, crashes |-> 0, handled |-> e]
    BY <1>1, <2>1 DEF AgentInit
  <2>4. t.offset = 0 /\ t.saved = 0 /\ t.batch = {} /\ t.handled = e /\ t.crashes = 0
    BY <2>3
  <2>5. PollerType(t)
    BY <2>2, <2>3 DEF PollerType
  <2>6. HandledOK(e, 0, 0)
    BY <2>2 DEF HandledOK
  <2>7. LookedAt(e, 0)
    BY AgentAssumption DEF LookedAt, LogIndex
  <2>8. BatchClosed({}, 0)
    BY DEF BatchClosed
  <2> QED
    BY <2>4, <2>5, <2>6, <2>7, <2>8 DEF PollerInv
<1>3. PICK m : m = mcp
  OBVIOUS
<1>4. McpInv(m)
  <2>1. PICK bytes \in McpInputs :
          m = [source |-> bytes, input |-> bytes, line |-> <<>>, saw |-> FALSE, over |-> FALSE,
               state |-> "running", processed |-> 0, frames |-> <<>>, answers |-> <<>>]
    BY <1>3 DEF AgentInit
  <2>2. bytes \in Seq(Bytes)
    BY AgentAssumption
  <2>3. PICK e : e = <<>> /\ e \in Seq(Bytes) /\ e \in Seq(McpFrameType) /\ e \in Seq({})
    BY EmptySeq
  <2>4. e \in Seq(Bytes) /\ e \in Seq(McpFrameType) /\ e \in Seq({}) /\ Len(e) = 0
    BY <2>3, EmptySeq
  <2>5. m = [source |-> bytes, input |-> bytes, line |-> e, saw |-> FALSE, over |-> FALSE,
             state |-> "running", processed |-> 0, frames |-> e, answers |-> e]
    BY <2>1, <2>3
  <2>6. m \in [source : Seq(Bytes), input : Seq(Bytes), line : Seq(Bytes), saw : BOOLEAN,
               over : BOOLEAN, state : {"running", "failed", "bounded", "eof"}, processed : Nat,
               frames : Seq(McpFrameType), answers : Seq({})]
    BY <2>2, <2>4, <2>5
  <2>7. McpType(m)
    BY <2>6 DEF McpType
  <2>8. m.source = bytes /\ m.input = bytes /\ m.line = e /\ ~m.saw /\ ~m.over /\ m.frames = e
        /\ m.answers = e /\ m.state = "running"
    BY <2>5
  <2>9. Len(bytes) \in Nat /\ bytes = SubSeq(bytes, 1, Len(bytes))
    BY <2>2, LenProperties, SubSeqFull
  <2>10. LineStart(bytes, 1) = 1
    <3>1. BeginsAt(bytes, 1, 1)
      BY DEF BeginsAt
    <3> QED
      BY <3>1, LineStartIs
  <2>11. SubSeq(bytes, 1, 0) = e
    BY <2>3, SubSeqEmpty
  <2>12. FramesBy(bytes)[0] = e
    BY <2>2, <2>3, FramesByIs DEF FramesUpTo
  <2>13. ReadUpTo(m, 0)
    <3>1. LineStart(m.source, 0 + 1) = 1 /\ SubSeq(m.source, 0 + 1, Len(m.source)) = bytes
      BY <2>8, <2>9, <2>10
    <3>2. ~(1 <= 0)
      OBVIOUS
    <3> QED
      BY <3>1, <3>2, <2>8, <2>11, <2>12 DEF ReadUpTo
  <2>14. 0 \in 0..Len(bytes)
    BY <2>9
  <2>15. Begins(m.frames, FramesOf(m.source))
    BY <2>2, <2>8, <2>12, <2>14, BeginsWhole
  <2> QED
    BY <2>7, <2>8, <2>13, <2>14, <2>15 DEF McpInv
<1>5. ran = {}
  BY DEF AgentInit
<1> QED
  BY <1>1, <1>2, <1>3, <1>4, <1>5 DEF AgentInv

\* What TakeFrame does to the listener and to the commands that ran.
LEMMA TakeFrameIs ==
  ASSUME NEW m, m = mcp, NEW w, w = mcp', NEW frame, NEW rest, NEW value \in Int, NEW outcome,
         NEW writes \in BOOLEAN, TakeFrame(frame, rest, value, outcome, writes),
         \A r \in ran : RunOK(r)
  PROVE  /\ \E answer : w = McpFrameTaken(m, frame, rest, answer, writes)
         /\ \A r \in ran' : RunOK(r)
<1>1. PICK done : done = HandleFrame(frame, value, outcome)
  OBVIOUS
<1>2. AllRunsOK(done.runs)
  BY <1>1, FrameAuthorized
<1>3. PICK answer : answer = done.answer
  OBVIOUS
<1>4. w = McpFrameTaken(m, frame, rest, answer, writes)
  BY <1>1, <1>3 DEF TakeFrame, McpFrameTaken
<1>5. ran' = ran \/ ran' = ran \cup {done.runs[i] : i \in DOMAIN done.runs}
  BY <1>1 DEF TakeFrame
<1>6. \A r \in ran' : RunOK(r)
  BY <1>2, <1>5 DEF AllRunsOK
<1> QED
  BY <1>4, <1>6

LEMMA ReadChunkOK ==
  ASSUME AgentInv, NEW n, NEW value \in AgentValues, NEW outcome, NEW writes \in BOOLEAN,
         ReadChunk(n, value, outcome, writes)
  PROVE  AgentInv'
<1>0. value \in Int
  BY AgentAssumption
<1>1. PICK m : m = mcp
  OBVIOUS
<1>2. PICK w : w = mcp'
  OBVIOUS
<1>3. McpInv(m) /\ m.state = "running" /\ n \in 1..Len(m.input) /\ UNCHANGED tg
      /\ PollerInv(tg) /\ \A r \in ran : RunOK(r)
  BY <1>1 DEF AgentInv, ReadChunk
<1>4. McpType(m) /\ Len(m.answers) = Len(m.frames)
  BY <1>3 DEF McpInv
<1>5. m.input \in Seq(Bytes)
  BY <1>4 DEF McpType
<1>6. Len(m.input) \in Nat
  BY <1>5, LenProperties
<1>7. PICK p \in 0..Len(m.source) : ReadUpTo(m, p)
  <2>1. ~ReadToTheEnd(m)
    <3> SUFFICES ASSUME m.input = <<>> PROVE FALSE
      BY DEF ReadToTheEnd
    <3>1. Len(m.input) = 0
      BY EmptySeq
    <3> QED
      BY <1>3, <3>1
  <2> QED
    BY <1>3, <2>1 DEF McpInv
<1>8. PICK at : at = {i \in 1..n : m.input[i] = "n"}
  OBVIOUS
<1>9. CASE at # {}
  <2>1. PICK content : content = FirstOf(at) - 1
    OBVIOUS
  <2>2. PICK rest : rest = SubSeq(m.input, content + 2, Len(m.input))
    OBVIOUS
  <2>3. PICK line : line = m.line \o SubSeq(m.input, 1, content)
    OBVIOUS
  <2>4. PICK over \in BOOLEAN : over = (m.over \/ Len(line) > RawLimit)
    OBVIOUS
  <2>5. PICK frame : frame = IF over THEN [kind |-> "oversized", line |-> <<>>] ELSE FinishLine(line)
    OBVIOUS
  <2>6. TakeFrame(frame, rest, value, outcome, writes)
    BY <1>1, <1>8, <1>9, <2>1, <2>2, <2>3, <2>4, <2>5 DEF ReadChunk
  <2>7. (\E answer : w = McpFrameTaken(m, frame, rest, answer, writes)) /\ \A r \in ran' : RunOK(r)
    BY <1>0, <1>1, <1>2, <1>3, <2>6, TakeFrameIs
  <2>8. PICK answer : w = McpFrameTaken(m, frame, rest, answer, writes)
    BY <2>7
  <2>9. at \in SUBSET Nat /\ \A i \in at : i \in 1..n
    BY <1>3, <1>6, <1>8
  <2>10. PICK c : c = FirstOf(at) /\ c \in at /\ \A i \in at : c <= i
    BY <1>9, <2>9, FirstOfOK
  <2>11. c \in 1..Len(m.input) /\ m.input[c] = "n" /\ c \in Nat
    BY <1>3, <1>6, <1>8, <2>10
  <2>12. content = c - 1 /\ content + 2 = c + 1
    BY <2>1, <2>10, <2>11
  <2>13. \A i \in 1..content : m.input[i] # "n"
    <3> SUFFICES ASSUME NEW i \in 1..content, m.input[i] = "n" PROVE FALSE
      OBVIOUS
    <3>1. i \in 1..n /\ ~(c <= i)
      BY <1>3, <1>6, <2>9, <2>10, <2>11, <2>12
    <3>2. i \in at
      BY <3>1, <1>8
    <3> QED
      BY <3>1, <3>2, <2>10
  <2>14. rest = SubSeq(m.input, c + 1, Len(m.input))
    BY <2>2, <2>12
  <2>15. McpInv(w)
    BY <1>3, <1>4, <1>7, <2>3, <2>4, <2>5, <2>8, <2>11, <2>12, <2>13, <2>14, ChunkEndsLine
  <2>16. PollerInv(tg')
    BY <1>3
  <2> QED
    BY <1>2, <2>7, <2>15, <2>16 DEF AgentInv
<1>10. CASE at = {}
  <2>1. PICK rest : rest = SubSeq(m.input, n + 1, Len(m.input))
    OBVIOUS
  <2>2. PICK line : line = m.line \o SubSeq(m.input, 1, n)
    OBVIOUS
  <2>3. PICK over \in BOOLEAN : over = (m.over \/ Len(line) > RawLimit)
    OBVIOUS
  <2>4. w = [m EXCEPT !.input = rest, !.saw = TRUE, !.over = over, !.line = IF over THEN @ ELSE line]
        /\ UNCHANGED ran
    BY <1>1, <1>2, <1>8, <1>10, <2>1, <2>2, <2>3 DEF ReadChunk
  <2>5. \A i \in 1..n : m.input[i] # "n"
    BY <1>8, <1>10
  <2>6. McpInv(w)
    BY <1>3, <1>7, <2>1, <2>2, <2>3, <2>4, <2>5, ChunkStaysOpen
  <2>7. PollerInv(tg') /\ \A r \in ran' : RunOK(r)
    BY <1>3, <2>4
  <2> QED
    BY <1>2, <2>6, <2>7 DEF AgentInv
<1> QED
  BY <1>9, <1>10

LEMMA ReadEofOK ==
  ASSUME AgentInv, NEW value \in AgentValues, NEW outcome, NEW writes \in BOOLEAN,
         ReadEof(value, outcome, writes)
  PROVE  AgentInv'
<1>0. value \in Int
  BY AgentAssumption
<1>1. PICK m : m = mcp
  OBVIOUS
<1>2. PICK w : w = mcp'
  OBVIOUS
<1>3. McpInv(m) /\ m.state = "running" /\ m.input = <<>> /\ UNCHANGED tg
      /\ PollerInv(tg) /\ \A r \in ran : RunOK(r)
  BY <1>1 DEF AgentInv, ReadEof
<1>4. McpType(m) /\ Len(m.answers) = Len(m.frames)
  BY <1>3 DEF McpInv
<1>5. PollerInv(tg')
  BY <1>3
<1>6. CASE ~m.saw
  <2>1. w = [m EXCEPT !.state = "eof"] /\ UNCHANGED ran
    BY <1>1, <1>2, <1>6 DEF ReadEof
  <2>2. McpInv(w)
    BY <1>3, <1>6, <2>1, EofAtEnd
  <2>3. \A r \in ran' : RunOK(r)
    BY <1>3, <2>1
  <2> QED
    BY <1>2, <1>5, <2>2, <2>3 DEF AgentInv
<1>7. CASE m.saw
  <2>1. PICK p \in 0..Len(m.source) : ReadUpTo(m, p)
    BY <1>3, <1>7 DEF McpInv, ReadToTheEnd
  <2>2. PICK frame : frame = IF m.over THEN [kind |-> "oversized", line |-> <<>>] ELSE FinishLine(m.line)
    OBVIOUS
  <2>3. TakeFrame(frame, <<>>, value, outcome, writes)
    BY <1>1, <1>7, <2>2 DEF ReadEof
  <2>4. (\E answer : w = McpFrameTaken(m, frame, <<>>, answer, writes)) /\ \A r \in ran' : RunOK(r)
    BY <1>0, <1>1, <1>2, <1>3, <2>3, TakeFrameIs
  <2>5. PICK answer : w = McpFrameTaken(m, frame, <<>>, answer, writes)
    BY <2>4
  <2>6. McpInv(w)
    BY <1>3, <1>4, <2>1, <2>2, <2>5, EofEndsLine
  <2> QED
    BY <1>2, <1>5, <2>4, <2>6 DEF AgentInv
<1> QED
  BY <1>6, <1>7

LEMMA PollStepOK ==
  ASSUME AgentInv, NEW value \in AgentValues, NEW outcome, NEW delivered \in BOOLEAN,
         PollStep(value, outcome, delivered)
  PROVE  AgentInv'
<1>0. value \in Int
  BY AgentAssumption
<1>1. PICK t : t = tg
  OBVIOUS
<1>2. PICK u : u = tg'
  OBVIOUS
<1>3. PollerInv(t) /\ t.batch # {} /\ UNCHANGED mcp /\ McpInv(mcp) /\ \A r \in ran : RunOK(r)
  BY <1>1 DEF AgentInv, PollStep
<1>4. PollerType(t)
  BY <1>3 DEF PollerInv
<1>5. t.batch \in SUBSET (LogIndex \X {1, 2}) /\ t.offset \in Nat
  BY <1>4 DEF PollerType
<1>6. PICK p : p = NextUpdate(t.batch) /\ p \in t.batch /\ \A q \in t.batch : p[1] <= q[1]
  BY <1>3, <1>5, NextUpdateFirst
<1>7. PICK g : g = TgLog[p[1]]
  OBVIOUS
<1>8. g.id \in Int
  BY <1>5, <1>6, <1>7, AgentAssumption DEF LogIndex
<1>9. PICK done : done = HandleText(g, value, outcome, delivered)
  OBVIOUS
<1>10. PICK class : class = ClassOf(g, t.offset, done.class)
  OBVIOUS
<1>11. class \in {"malformed", "duplicate", "denied", "invalid", "skipped", "sent", "unsent"}
  <2>1. done.class \in {"invalid", "skipped", "sent", "unsent"}
    BY <1>9, TextClass
  <2> QED
    BY <1>10, <2>1 DEF ClassOf
<1>12. PICK runs : runs = IF class \in {"duplicate", "malformed", "denied"} THEN <<>> ELSE done.runs
  OBVIOUS
<1>13. AllRunsOK(runs)
  <2>1. AllRunsOK(<<>>)
    BY DEF AllRunsOK
  <2>2. AllRunsOK(done.runs)
    BY <1>0, <1>9, TextAuthorized
  <2> QED
    BY <1>12, <2>1, <2>2
<1>14. PICK flag \in BOOLEAN : flag = (t.batch = {p})
  OBVIOUS
<1>15. /\ u = [t EXCEPT !.offset = NextOffset(g, class, t.offset),
                 !.batch = @ \ {p}, !.passed = flag,
                 !.handled = IF g.id < t.offset THEN @
                             ELSE Append(@, [id |-> g.id, class |-> class, saved |-> t.saved,
                                             life |-> t.crashes])]
       /\ ran' = ran \cup {runs[i] : i \in DOMAIN runs}
  BY <1>1, <1>2, <1>6, <1>7, <1>9, <1>10, <1>12, <1>14 DEF PollStep
<1>16. \A r \in ran' : RunOK(r)
  BY <1>3, <1>13, <1>15 DEF AllRunsOK
<1>17. PollerInv(u)
  <2>1. CASE g.id < t.offset
    <3>1. ~(g.id >= t.offset)
      BY <2>1, <1>5, <1>8
    <3>2. u = [t EXCEPT !.offset = t.offset, !.batch = @ \ {p}, !.passed = flag, !.handled = @]
      BY <2>1, <3>1, <1>15 DEF NextOffset
    <3>3. TgLog[p[1]].id < t.offset
      BY <2>1, <1>7
    <3> QED
      BY <3>2, <3>3, <1>3, <1>6, <1>14, StepDuplicate
  <2>2. CASE ~(g.id < t.offset)
    <3>1. g.id >= t.offset
      BY <2>2, <1>5, <1>8
    <3>2. u = [t EXCEPT !.offset = TgLog[p[1]].id + 1, !.batch = @ \ {p}, !.passed = flag,
                       !.handled = Append(@, [id |-> TgLog[p[1]].id, class |-> class,
                                              saved |-> t.saved, life |-> t.crashes])]
      BY <2>2, <3>1, <1>7, <1>15 DEF NextOffset
    <3>3. TgLog[p[1]].id >= t.offset
      BY <3>1, <1>7
    <3> QED
      BY <3>2, <3>3, <1>3, <1>6, <1>11, <1>14, StepNew
  <2> QED
    BY <2>1, <2>2
<1>18. McpInv(mcp')
  BY <1>3
<1> QED
  BY <1>2, <1>16, <1>17, <1>18 DEF AgentInv

LEMMA PollerRestOK ==
  ASSUME AgentInv, Persist \/ PollerCrash
  PROVE  AgentInv'
<1>1. PICK t : t = tg
  OBVIOUS
<1>2. PICK u : u = tg'
  OBVIOUS
<1>3. PollerInv(t) /\ UNCHANGED <<mcp, ran>> /\ McpInv(mcp) /\ \A r \in ran : RunOK(r)
  BY <1>1 DEF AgentInv, Persist, PollerCrash
<1>4. PollerType(t) /\ t.saved <= t.offset
  BY <1>3 DEF PollerInv
<1>5. /\ t.offset \in Nat /\ t.saved \in Nat /\ t.crashes \in Nat /\ t.handled \in Seq(HandledType)
  BY <1>4 DEF PollerType
<1>6. CASE Persist
  <2>1. u = [t EXCEPT !.passed = FALSE, !.saved = t.offset]
    BY <1>1, <1>2, <1>6 DEF Persist
  <2>2. /\ PollerType(u) /\ u.offset = t.offset /\ u.saved = t.offset /\ u.batch = t.batch
        /\ u.crashes = t.crashes /\ u.handled = t.handled
    BY <1>4, <1>5, <2>1 DEF PollerType
  <2>3. PollerInv(u)
    BY <1>3, <1>5, <2>2 DEF PollerInv
  <2>4. McpInv(mcp') /\ \A r \in ran' : RunOK(r)
    BY <1>3
  <2> QED
    BY <1>2, <2>3, <2>4 DEF AgentInv
<1>7. CASE PollerCrash
  <2>1. u = [t EXCEPT !.crashes = t.crashes + 1, !.offset = t.saved, !.batch = {}, !.passed = FALSE]
    BY <1>1, <1>2, <1>7 DEF PollerCrash
  <2>2. /\ PollerType(u) /\ u.offset = t.saved /\ u.saved = t.saved /\ u.batch = {}
        /\ u.crashes = t.crashes + 1 /\ u.handled = t.handled
    <3>1. PICK k \in Nat, v \in Nat : k = t.crashes + 1 /\ v = t.saved
      BY <1>5
    <3>2. u = [t EXCEPT !.crashes = k, !.offset = v, !.batch = {}, !.passed = FALSE]
      BY <2>1, <3>1
    <3>3. /\ PollerType(u) /\ u.offset = v /\ u.saved = t.saved /\ u.batch = {}
          /\ u.crashes = k /\ u.handled = t.handled
      BY <1>4, <3>2 DEF PollerType
    <3> QED
      BY <3>1, <3>3
  <2>3. PICK h \in Seq(HandledType) : h = t.handled
    BY <1>5
  <2>4. PICK c \in Nat, v \in Nat, o \in Nat : c = t.crashes /\ v = t.saved /\ o = t.offset
    BY <1>5
  <2>5. HandledOK(h, o, c) /\ LookedAt(h, o) /\ v <= o
    BY <1>3, <1>4, <2>3, <2>4 DEF PollerInv
  <2>6. HandledOK(h, v, c + 1)
    <3>1. ASSUME NEW i \in 1..Len(h)
          PROVE  h[i].id >= h[i].saved /\ h[i].life <= c + 1 /\ h[i].life # c + 1
      <4>1. h[i] \in HandledType
        BY ElementOfSeq
      <4>2. h[i].life \in Nat
        BY <4>1 DEF HandledType
      <4>3. h[i].id >= h[i].saved /\ h[i].life <= c
        BY <2>5 DEF HandledOK
      <4> QED
        BY <4>2, <4>3
    <3> QED
      BY <2>5, <3>1 DEF HandledOK
  <2>7. LookedAt(h, v)
    <3> SUFFICES ASSUME NEW n \in LogIndex, TgLog[n].id >= 0, TgLog[n].id < v
                 PROVE  \E i \in 1..Len(h) : h[i].id = TgLog[n].id
      BY DEF LookedAt
    <3>1. TgLog[n].id \in Int
      BY AgentAssumption DEF LogIndex
    <3>2. TgLog[n].id < o
      BY <3>1, <2>4, <2>5
    <3> QED
      BY <3>2, <2>5 DEF LookedAt
  <2>8. BatchClosed({}, v)
    BY DEF BatchClosed
  <2>9. u.saved <= u.offset
    BY <1>5, <2>2
  <2>10. PollerInv(u)
    BY <2>2, <2>3, <2>4, <2>6, <2>7, <2>8, <2>9 DEF PollerInv
  <2>11. McpInv(mcp') /\ \A r \in ran' : RunOK(r)
    BY <1>3
  <2> QED
    BY <1>2, <2>10, <2>11 DEF AgentInv
<1> QED
  BY <1>6, <1>7

LEMMA AgentStepOK ==
  ASSUME AgentInv, [StdioNext \/ PollerNext]_agentVars
  PROVE  AgentInv'
<1>1. ASSUME NEW v \in AgentValues, NEW o \in BackendOutcomes, NEW ok \in BOOLEAN,
             NEW n \in 1..Len(mcp.input), ReadChunk(n, v, o, ok)
      PROVE  AgentInv'
  BY <1>1, ReadChunkOK
<1>2. ASSUME NEW v \in AgentValues, NEW o \in BackendOutcomes, NEW ok \in BOOLEAN, ReadEof(v, o, ok)
      PROVE  AgentInv'
  BY <1>2, ReadEofOK
<1>3. ASSUME NEW old \in SUBSET {n \in 1..Len(TgLog) : TgLog[n].id < tg.offset},
             NEW twice \in SUBSET Pending(tg.offset), PollFetch(old, twice)
      PROVE  AgentInv'
  <2>1. PICK t : t = tg
    OBVIOUS
  <2>2. PICK u : u = tg'
    OBVIOUS
  <2>3. PollerInv(t) /\ old \in SUBSET {n \in 1..Len(TgLog) : TgLog[n].id < t.offset}
        /\ twice \in SUBSET Pending(t.offset)
    BY <2>1 DEF AgentInv
  <2>4. u = [t EXCEPT !.batch = (Pending(t.offset) \cup old) \X {1} \cup twice \X {2}]
    BY <1>3, <2>1, <2>2 DEF PollFetch
  <2>5. PollerInv(u)
    BY <2>3, <2>4, FetchOK
  <2>6. McpInv(mcp') /\ \A r \in ran' : RunOK(r)
    BY <1>3 DEF AgentInv, PollFetch
  <2> QED
    BY <2>2, <2>5, <2>6 DEF AgentInv
<1>4. ASSUME NEW v \in AgentValues, NEW o \in BackendOutcomes, NEW ok \in BOOLEAN, PollStep(v, o, ok)
      PROVE  AgentInv'
  BY <1>4, PollStepOK
<1>5. CASE Persist \/ PollerCrash
  BY <1>5, PollerRestOK
<1>6. CASE UNCHANGED agentVars
  BY <1>6 DEF agentVars, AgentInv
<1> QED
  BY <1>1, <1>2, <1>3, <1>4, <1>5, <1>6 DEF StdioNext, PollerNext

LEMMA AgentInvKeeps == ASSUME AgentInv PROVE ChannelsKeepTheirPromises
<1>1. PollerInv(tg) /\ McpInv(mcp) /\ \A r \in ran : RunOK(r)
  BY DEF AgentInv
<1>2. RunsAreAuthorized
  BY <1>1 DEF RunsAreAuthorized, RunOK
<1>3. UpdatesAreHandledOnce
  <2>1. PICK t : t = tg
    OBVIOUS
  <2>2. PollerInv(t) /\ PollerType(t)
    BY <1>1, <2>1 DEF PollerInv
  <2>3. t.handled \in Seq(HandledType)
    BY <2>2 DEF PollerType
  <2>4. DOMAIN t.handled = 1..Len(t.handled)
    BY <2>3, LenProperties
  <2>5. HandledOK(t.handled, t.offset, t.crashes) /\ LookedAt(t.handled, t.offset)
    BY <2>2 DEF PollerInv
  <2> QED
    BY <2>1, <2>4, <2>5 DEF UpdatesAreHandledOnce, HandledOK, LookedAt, LogIndex
<1>4. FramingIsFaithful
  <2>1. PICK m : m = mcp
    OBVIOUS
  <2>2. McpInv(m) /\ McpType(m)
    BY <1>1, <2>1 DEF McpInv
  <2>3. m.source \in Seq(Bytes) /\ m.frames \in Seq(McpFrameType)
    BY <2>2 DEF McpType
  <2>4. Len(m.source) \in Nat
    BY <2>3, LenProperties
  <2>5. PICK taken \in Seq(McpFrameType) : taken = FramesOf(m.source)
    <3>1. 0 \in 0..Len(m.source)
      BY <2>4
    <3> QED
      BY <2>3, <3>1, BeginsWhole
  <2>6. PICK fs \in Seq(McpFrameType) : fs = m.frames
    BY <2>3
  <2>7. Begins(fs, taken)
    BY <2>2, <2>5, <2>6 DEF McpInv
  <2>8. Len(fs) \in Nat /\ Len(taken) \in Nat /\ Len(fs) <= Len(taken)
    BY <2>7, LenProperties DEF Begins
  <2>9. fs = SubSeq(taken, 1, Len(fs))
    <3>1. \A i \in 1..Len(fs) : taken[i] \in McpFrameType
      BY <2>8, ElementOfSeq
    <3>2. PICK l \in Nat : l = Len(fs)
      BY <2>8
    <3>3. /\ SubSeq(taken, 1, l) \in Seq(McpFrameType)
          /\ Len(SubSeq(taken, 1, l)) = IF 1 <= l THEN l - 1 + 1 ELSE 0
          /\ \A i \in 1..(l - 1 + 1) : SubSeq(taken, 1, l)[i] = taken[1 + i - 1]
      BY <3>1, <3>2, SubSeqProperties
    <3>4. Len(SubSeq(taken, 1, l)) = l
      BY <3>3
    <3>5. ASSUME NEW i \in 1..l PROVE fs[i] = SubSeq(taken, 1, l)[i]
      <4>1. i \in 1..(l - 1 + 1) /\ 1 + i - 1 = i
        OBVIOUS
      <4>2. SubSeq(taken, 1, l)[i] = taken[i]
        BY <3>3, <4>1
      <4>3. fs[i] = taken[i]
        BY <2>7, <3>2 DEF Begins
      <4> QED
        BY <4>2, <4>3
    <3>6. fs = SubSeq(taken, 1, l)
      BY <3>2, <3>3, <3>4, <3>5, SeqEqual
    <3> QED
      BY <3>2, <3>6
  <2>10. /\ m.state = "eof" => fs = taken
         /\ m.state # "failed" => Len(m.answers) = Len(fs)
    BY <2>2, <2>5, <2>6 DEF McpInv
  <2> QED
    BY <2>1, <2>5, <2>6, <2>8, <2>9, <2>10 DEF FramingIsFaithful
<1> QED
  BY <1>2, <1>3, <1>4, SchemasAccepted DEF ChannelsKeepTheirPromises

\* Whatever the chunks, the crashes and the redeliveries, and for every
\* capability and every request, both channels keep what they promise.
THEOREM ChannelsKept == AgentSpec => []ChannelsKeepTheirPromises
<1>1. AgentInit => AgentInv
  BY AgentInitOK
<1>2. AgentInv /\ [StdioNext \/ PollerNext]_agentVars => AgentInv'
  BY AgentStepOK
<1>3. AgentInv => ChannelsKeepTheirPromises
  BY AgentInvKeeps
<1> QED
  BY <1>1, <1>2, <1>3, PTL DEF AgentSpec

(***************************************************************************)
(* The provider broker.                                                    *)
(***************************************************************************)
BrokerOps == {"fomo_capabilities", "fomo_search_tokens", "fomo_get_token",
              "fomo_get_trending_tokens", "fomo_get_recent_events", "gmgn_trending",
              "gmgn_search", "gmgn_token_info", "gmgn_token_security", "gmgn_top_holders",
              "gmgn_kline"}

KeyOK(key) == ServiceOf(key) \in ProviderIds /\ WeightOf(key) \in Nat

LEMMA ProfilesAreKnown ==
  ASSUME NEW op \in BrokerOps
  PROVE  OperationProfile[op].service \in ProviderIds /\ OperationProfile[op].weight \in Nat
BY DEF BrokerOps, OperationProfile, Profile, ProviderIds

LEMMA KeysAreKnown ==
  ASSUME NEW op \in BrokerOps, NEW ctx
  PROVE  KeyOK(LogicalRequestKey(op, ctx))
<1>1. PICK a, b : a = ctx.candidate.id /\ b = ctx.position
  OBVIOUS
<1>2. LogicalRequestKey(op, ctx) = <<op, a, b>>
  BY <1>1 DEF LogicalRequestKey
<1>3. ServiceOf(<<op, a, b>>) = OperationProfile[op].service
  BY DEF ServiceOf
<1>4. WeightOf(<<op, a, b>>) = OperationProfile[op].weight
  BY DEF WeightOf
<1> QED
  BY <1>2, <1>3, <1>4, ProfilesAreKnown DEF KeyOK

\* Arithmetic of the bucket.
LEMMA LaterRefillsMore ==
  ASSUME NEW a \in Nat, NEW b \in Nat, a <= b, NEW r \in Nat
  PROVE  a * r \in Nat /\ b * r \in Nat /\ a * r <= b * r
OBVIOUS

LEMMA RefillAdds ==
  ASSUME NEW a \in Nat, NEW b \in Nat, a <= b, NEW r \in Nat
  PROVE  (b - a) * r \in Nat /\ a * r + (b - a) * r = b * r
OBVIOUS

LEMMA MinOfTwo ==
  ASSUME NEW a \in Nat, NEW b \in Nat
  PROVE  Min({a, b}) \in Nat /\ Min({a, b}) <= a /\ Min({a, b}) <= b
<1>1. \E x \in {a, b} : \A y \in {a, b} : x <= y
  <2>1. CASE a <= b
    BY <2>1
  <2>2. CASE ~(a <= b)
    BY <2>2
  <2> QED
    BY <2>1, <2>2
<1>2. PICK m : m = Min({a, b})
  OBVIOUS
<1>3. m \in {a, b} /\ \A y \in {a, b} : m <= y
  BY <1>1, <1>2 DEF Min
<1> QED
  BY <1>2, <1>3

\* What was sent and what is left never exceed the capacity and its refill.
BudgetOK(b, s, now) ==
  /\ b = [available |-> b.available, last |-> b.last]
  /\ b.available \in Nat /\ b.last \in Nat /\ b.last <= now
  /\ s \in Nat /\ s + b.available <= MaxBudget + b.last * RefillPerTick

LEMMA Accrued ==
  ASSUME NEW s \in Nat, NEW a \in Nat, NEW c \in Nat, NEW l \in Nat, NEW g \in Nat, NEW n \in Nat,
         s + a <= c + l, l + g = n, NEW m \in Nat, m <= a + g
  PROVE  s + m <= c + n
OBVIOUS

LEMMA ReplenishedBudget ==
  ASSUME NEW b, NEW s, NEW now \in Nat, BudgetOK(b, s, now), NEW r, r = Replenish(b, now)
  PROVE  BudgetOK(r, s, now)
<1>1. PICK a, l : a = b.available /\ l = b.last
  OBVIOUS
<1>2. /\ b = [available |-> a, last |-> l] /\ a \in Nat /\ l \in Nat /\ l <= now
      /\ s \in Nat /\ s + a <= MaxBudget + l * RefillPerTick
  BY <1>1 DEF BudgetOK
<1>3. CASE now <= l
  BY <1>1, <1>3 DEF Replenish
<1>4. CASE ~(now <= l)
  <2>1. PICK m : m = Min({MaxBudget, a + (now - l) * RefillPerTick})
    OBVIOUS
  <2>2. r = [available |-> m, last |-> now]
    BY <1>1, <1>4, <2>1 DEF Replenish
  <2>3. MaxBudget \in Nat /\ RefillPerTick \in Nat
    BY BrokerAssumption
  <2>4. PICK g : g = (now - l) * RefillPerTick
    OBVIOUS
  <2>5. PICK n : n = now * RefillPerTick
    OBVIOUS
  <2>6. PICK k : k = l * RefillPerTick
    OBVIOUS
  <2>7. g \in Nat /\ k + g = n
    BY <1>2, <2>3, <2>4, <2>5, <2>6, RefillAdds
  <2>8. k \in Nat /\ n \in Nat
    BY <1>2, <2>3, <2>5, <2>6, LaterRefillsMore
  <2>9. m \in Nat /\ m <= a + g
    <3>1. a + g \in Nat
      BY <1>2, <2>7
    <3> QED
      BY <2>1, <2>3, <2>4, <3>1, MinOfTwo
  <2>10. s + m <= MaxBudget + n
    <3>1. s + a <= MaxBudget + k
      BY <1>2, <2>6
    <3> QED
      BY <1>2, <2>3, <2>7, <2>8, <2>9, <3>1, Accrued
  <2>11. r.available = m /\ r.last = now /\ now <= now
    BY <2>2
  <2> QED
    BY <1>2, <2>2, <2>5, <2>9, <2>10, <2>11 DEF BudgetOK
<1> QED
  BY <1>3, <1>4

LEMMA PaidBudget ==
  ASSUME NEW b, NEW s, NEW now \in Nat, BudgetOK(b, s, now), NEW cost \in Nat,
         NEW t, t = TryConsume(b, now, cost)
  PROVE  BudgetOK(t.budget, IF t.ok THEN s + cost ELSE s, now)
<1>1. PICK r : r = Replenish(b, now)
  OBVIOUS
<1>2. BudgetOK(r, s, now)
  BY <1>1, ReplenishedBudget
<1>3. PICK a, l : a = r.available /\ l = r.last
  OBVIOUS
<1>4. /\ r = [available |-> a, last |-> l] /\ a \in Nat /\ l \in Nat /\ l <= now
      /\ s \in Nat /\ s + a <= MaxBudget + l * RefillPerTick
  BY <1>2, <1>3 DEF BudgetOK
<1>5. CASE a >= cost
  <2>1. t = [ok |-> TRUE, budget |-> [r EXCEPT !.available = a - cost]]
    BY <1>1, <1>3, <1>5 DEF TryConsume
  <2>2. t.ok = TRUE /\ t.budget = [r EXCEPT !.available = a - cost]
    BY <2>1
  <2>3. t.budget = [available |-> a - cost, last |-> l]
    BY <1>4, <2>2
  <2>4. a - cost \in Nat /\ s + cost \in Nat /\ (s + cost) + (a - cost) = s + a
    BY <1>4, <1>5
  <2>5. BudgetOK(t.budget, s + cost, now)
    BY <1>4, <2>3, <2>4 DEF BudgetOK
  <2> QED
    BY <2>2, <2>5
<1>6. CASE ~(a >= cost)
  <2>1. t = [ok |-> FALSE, budget |-> r]
    BY <1>1, <1>3, <1>6 DEF TryConsume
  <2>2. t.ok = FALSE /\ t.budget = r
    BY <2>1
  <2> QED
    BY <1>2, <2>2
<1> QED
  BY <1>5, <1>6

\* What pre_flight_check leaves in the bucket, admitted or refused.
LEMMA CheckedBudget ==
  ASSUME NEW p, NEW now \in Nat, NEW cost \in Nat, NEW priority, NEW s,
         BudgetOK(budget[p], s, now), NEW check, check = PreFlightCheck(p, now, cost, priority)
  PROVE  BudgetOK(check.budget, IF check.refusal = "none" THEN s + cost ELSE s, now)
<1>1. PICK paid : paid = TryConsume(budget[p], now, cost)
  OBVIOUS
<1>2. BudgetOK(paid.budget, IF paid.ok THEN s + cost ELSE s, now)
  BY <1>1, PaidBudget
<1>3. \/ check.refusal # "none" /\ check.budget = budget[p]
      \/ check.refusal # "none" /\ ~paid.ok /\ check.budget = paid.budget
      \/ check.refusal = "none" /\ paid.ok /\ check.budget = paid.budget
  BY <1>1 DEF PreFlightCheck
<1> QED
  BY <1>2, <1>3

\* The singleflight map: it names the leader of each key, and no one waits on a key without one.
LeadSteps == {"preflight", "fetch"}

Flight(a, fl) ==
  /\ \A c \in BrokerCallers : a[c].step \in LeadSteps => a[c].key \in DOMAIN fl /\ fl[a[c].key] = c
  /\ \A key \in DOMAIN fl : /\ fl[key] \in BrokerCallers /\ a[fl[key]].step \in LeadSteps
                            /\ a[fl[key]].key = key
  /\ \A c \in BrokerCallers : a[c].step = "wait" => a[c].key \in DOMAIN fl

Calling(a) ==
  /\ a = [step |-> a.step, key |-> a.key, priority |-> a.priority, at |-> a.at]
  /\ a.step \in {"join", "wait"} \cup LeadSteps /\ KeyOK(a.key) /\ a.at \in Nat

Answered(a) == a.step = "done" /\ (a.label = "FreshHit" => a.when - a.asOf <= FreshTtl)

CallOK(a) == a = Idle \/ Answered(a) \/ Calling(a)

AskedOK(a) == a = [c \in BrokerCallers |-> a[c]] /\ \A c \in BrokerCallers : CallOK(a[c])

\* A call that is not in the singleflight changes, and does not enter it.
LEMMA FlightKept ==
  ASSUME NEW a, NEW fl, AskedOK(a), Flight(a, fl), NEW c \in BrokerCallers, NEW x,
         a[c].step \notin LeadSteps, x.step \notin {"wait"} \cup LeadSteps, CallOK(x),
         NEW b, b = [a EXCEPT ![c] = x]
  PROVE  AskedOK(b) /\ Flight(b, fl)
<1>1. /\ b = [d \in BrokerCallers |-> IF d = c THEN x ELSE a[d]]
      /\ \A d \in BrokerCallers : b[d] = IF d = c THEN x ELSE a[d]
  BY DEF AskedOK
<1>2. AskedOK(b)
  BY <1>1 DEF AskedOK
<1>3. \A d \in BrokerCallers : b[d].step \in {"wait"} \cup LeadSteps => b[d] = a[d]
  BY <1>1
<1>4. \A d \in BrokerCallers : a[d].step \in LeadSteps => b[d] = a[d]
  BY <1>1
<1>5. Flight(b, fl)
  BY <1>3, <1>4 DEF Flight
<1> QED
  BY <1>2, <1>5

\* The leader of key is answered together with all that follow it.
Landed(a, c, key, x, y, F, b) ==
  /\ F = {d \in BrokerCallers : a[d].step = "wait" /\ a[d].key = key}
  /\ b = [d \in BrokerCallers |-> IF d = c THEN x ELSE IF d \in F THEN y ELSE a[d]]

LEMMA FlightLands ==
  ASSUME NEW a, NEW fl, AskedOK(a), Flight(a, fl), NEW c \in BrokerCallers, NEW key,
         a[c].step \in LeadSteps, a[c].key = key, NEW x, NEW y,
         x.step = "done", y.step = "done", CallOK(x), CallOK(y),
         NEW F, NEW b, Landed(a, c, key, x, y, F, b)
  PROVE  AskedOK(b) /\ Flight(b, Dropped(fl, key))
<1>1. /\ \A d \in BrokerCallers : b[d] = IF d = c THEN x ELSE IF d \in F THEN y ELSE a[d]
      /\ b = [d \in BrokerCallers |-> b[d]]
      /\ \A d \in BrokerCallers : d \in F <=> a[d].step = "wait" /\ a[d].key = key
  BY DEF Landed
<1>2. AskedOK(b)
  BY <1>1 DEF AskedOK
<1>3. \A d \in BrokerCallers : b[d].step \in {"wait"} \cup LeadSteps => b[d] = a[d] /\ d # c /\ d \notin F
  BY <1>1 DEF LeadSteps
<1>4. PICK g : g = Dropped(fl, key)
  OBVIOUS
<1>5. DOMAIN g = DOMAIN fl \ {key} /\ \A k \in DOMAIN g : g[k] = fl[k]
  BY <1>4 DEF Dropped, Restrict
<1>6. fl[key] = c /\ key \in DOMAIN fl
  BY DEF Flight
<1>7. ASSUME NEW d \in BrokerCallers, b[d].step \in LeadSteps
      PROVE  b[d].key \in DOMAIN g /\ g[b[d].key] = d
  <2>1. b[d] = a[d] /\ d # c
    BY <1>3, <1>7
  <2>2. a[d].key \in DOMAIN fl /\ fl[a[d].key] = d
    BY <1>7, <2>1 DEF Flight
  <2>3. a[d].key # key
    BY <1>6, <2>1, <2>2
  <2> QED
    BY <1>5, <2>1, <2>2, <2>3
<1>8. ASSUME NEW k \in DOMAIN g
      PROVE  g[k] \in BrokerCallers /\ b[g[k]].step \in LeadSteps /\ b[g[k]].key = k
  <2>1. PICK d : d = fl[k]
    OBVIOUS
  <2>2. k \in DOMAIN fl /\ k # key /\ g[k] = d
    BY <1>5, <1>8, <2>1
  <2>3. d \in BrokerCallers /\ a[d].step \in LeadSteps /\ a[d].key = k
    BY <2>1, <2>2 DEF Flight
  <2>4. d # c /\ d \notin F
    BY <1>1, <2>2, <2>3 DEF LeadSteps
  <2>5. b[d] = a[d]
    BY <1>1, <2>3, <2>4
  <2> QED
    BY <2>2, <2>3, <2>5
<1>9. ASSUME NEW d \in BrokerCallers, b[d].step = "wait" PROVE b[d].key \in DOMAIN g
  <2>1. b[d] = a[d] /\ d \notin F
    BY <1>3, <1>9
  <2>2. a[d].key \in DOMAIN fl /\ a[d].key # key
    BY <1>1, <1>9, <2>1 DEF Flight
  <2> QED
    BY <1>5, <2>1, <2>2
<1>10. Flight(b, g)
  BY <1>7, <1>8, <1>9 DEF Flight
<1> QED
  BY <1>2, <1>4, <1>10

\* A caller joins: it follows the leader of its key, or becomes it.
LEMMA FlightFollowed ==
  ASSUME NEW a, NEW fl, AskedOK(a), Flight(a, fl), NEW c \in BrokerCallers, NEW key,
         a[c].step = "join", a[c].key = key, key \in DOMAIN fl,
         NEW b, b = [a EXCEPT ![c].step = "wait"]
  PROVE  AskedOK(b) /\ Flight(b, fl)
<1>1. Calling(a[c])
  BY DEF AskedOK, CallOK, Idle, Answered
<1>2. PICK x : x = [step |-> "wait", key |-> key, priority |-> a[c].priority, at |-> a[c].at]
  OBVIOUS
<1>3. Calling(x) /\ x.step = "wait" /\ x.key = key
  BY <1>1, <1>2 DEF Calling
<1>4. \A d \in BrokerCallers : b[d] = IF d = c THEN x ELSE a[d]
  BY <1>1, <1>2 DEF AskedOK, Calling
<1>5. b = [d \in BrokerCallers |-> b[d]]
  BY DEF AskedOK
<1>6. AskedOK(b)
  BY <1>3, <1>4, <1>5 DEF AskedOK, CallOK
<1>7. \A d \in BrokerCallers : (b[d].step \in LeadSteps \/ a[d].step \in LeadSteps) => b[d] = a[d]
  BY <1>3, <1>4 DEF LeadSteps
<1>8. \A d \in BrokerCallers : b[d].step = "wait" => b[d] = a[d] \/ b[d].key = key
  BY <1>3, <1>4
<1> QED
  BY <1>6, <1>7, <1>8 DEF Flight

LEMMA FlightLed ==
  ASSUME NEW a, NEW fl, AskedOK(a), Flight(a, fl), NEW c \in BrokerCallers, NEW key,
         a[c].step = "join", a[c].key = key, key \notin DOMAIN fl,
         NEW b, b = [a EXCEPT ![c].step = "preflight"]
  PROVE  AskedOK(b) /\ Flight(b, Entered(fl, key, c))
<1>1. Calling(a[c])
  BY DEF AskedOK, CallOK, Idle, Answered
<1>2. PICK x : x = [step |-> "preflight", key |-> key, priority |-> a[c].priority, at |-> a[c].at]
  OBVIOUS
<1>3. Calling(x) /\ x.step = "preflight" /\ x.key = key
  BY <1>1, <1>2 DEF Calling, LeadSteps
<1>4. \A d \in BrokerCallers : b[d] = IF d = c THEN x ELSE a[d]
  BY <1>1, <1>2 DEF AskedOK, Calling
<1>5. b = [d \in BrokerCallers |-> b[d]]
  BY DEF AskedOK
<1>6. AskedOK(b)
  BY <1>3, <1>4, <1>5 DEF AskedOK, CallOK
<1>7. PICK g : g = Entered(fl, key, c)
  OBVIOUS
<1>8. /\ DOMAIN g = DOMAIN fl \cup {key} /\ g[key] = c
      /\ \A k \in DOMAIN fl : g[k] = fl[k]
  BY <1>7 DEF Entered
<1>9. ASSUME NEW d \in BrokerCallers, b[d].step \in LeadSteps
      PROVE  b[d].key \in DOMAIN g /\ g[b[d].key] = d
  <2>1. CASE d = c
    BY <1>3, <1>4, <1>8, <2>1
  <2>2. CASE d # c
    <3>1. b[d] = a[d]
      BY <1>4, <2>2
    <3>2. a[d].key \in DOMAIN fl /\ fl[a[d].key] = d
      BY <1>9, <3>1 DEF Flight
    <3> QED
      BY <1>8, <3>1, <3>2
  <2> QED
    BY <2>1, <2>2
<1>10. ASSUME NEW k \in DOMAIN g
      PROVE  g[k] \in BrokerCallers /\ b[g[k]].step \in LeadSteps /\ b[g[k]].key = k
  <2>1. CASE k = key
    BY <1>3, <1>4, <1>8, <2>1 DEF LeadSteps
  <2>2. CASE k # key
    <3>1. PICK d : d = fl[k]
      OBVIOUS
    <3>2. k \in DOMAIN fl /\ g[k] = d
      BY <1>8, <1>10, <2>2, <3>1
    <3>3. d \in BrokerCallers /\ a[d].step \in LeadSteps /\ a[d].key = k
      BY <3>1, <3>2 DEF Flight
    <3>4. b[d] = a[d]
      BY <1>4, <3>3 DEF LeadSteps
    <3> QED
      BY <3>2, <3>3, <3>4
  <2> QED
    BY <2>1, <2>2
<1>11. ASSUME NEW d \in BrokerCallers, b[d].step = "wait" PROVE b[d].key \in DOMAIN g
  <2>1. b[d] = a[d]
    BY <1>3, <1>4, <1>11
  <2> QED
    BY <1>8, <1>11, <2>1 DEF Flight
<1>12. Flight(b, g)
  BY <1>9, <1>10, <1>11 DEF Flight
<1> QED
  BY <1>6, <1>7, <1>12

SameSteps(a, b) ==
  /\ \A d \in BrokerCallers : b[d].key = a[d].key
  /\ \A d \in BrokerCallers : b[d].step \in LeadSteps <=> a[d].step \in LeadSteps
  /\ \A d \in BrokerCallers : b[d].step = "wait" => a[d].step = "wait"

LEMMA SameFlight ==
  ASSUME NEW a, NEW b, NEW fl, Flight(a, fl), SameSteps(a, b)
  PROVE  Flight(b, fl)
<1>0. /\ \A d \in BrokerCallers : b[d].key = a[d].key
      /\ \A d \in BrokerCallers : b[d].step \in LeadSteps <=> a[d].step \in LeadSteps
      /\ \A d \in BrokerCallers : b[d].step = "wait" => a[d].step = "wait"
  BY DEF SameSteps
<1>1. \A d \in BrokerCallers : b[d].step \in LeadSteps => b[d].key \in DOMAIN fl /\ fl[b[d].key] = d
  BY <1>0 DEF Flight
<1>2. \A d \in BrokerCallers : b[d].step = "wait" => b[d].key \in DOMAIN fl
  BY <1>0 DEF Flight
<1>3. ASSUME NEW k \in DOMAIN fl
      PROVE  fl[k] \in BrokerCallers /\ b[fl[k]].step \in LeadSteps /\ b[fl[k]].key = k
  <2>1. PICK d : d = fl[k]
    OBVIOUS
  <2>2. d \in BrokerCallers /\ a[d].step \in LeadSteps /\ a[d].key = k
    BY <1>3, <2>1 DEF Flight
  <2>3. b[d].step \in LeadSteps /\ b[d].key = k
    BY <1>0, <2>2
  <2> QED
    BY <2>1, <2>2, <2>3
<1> QED
  BY <1>1, <1>2, <1>3 DEF Flight

\* The leader goes on to its fetch.
LEMMA FlightGoesOn ==
  ASSUME NEW a, NEW fl, AskedOK(a), Flight(a, fl), NEW c \in BrokerCallers,
         a[c].step = "preflight", NEW now \in Nat,
         NEW b, b = [a EXCEPT ![c] = CallAt("fetch", a[c].key, a[c].priority, now)]
  PROVE  AskedOK(b) /\ Flight(b, fl)
<1>1. Calling(a[c])
  BY DEF AskedOK, CallOK, Idle, Answered
<1>2. PICK x : x = CallAt("fetch", a[c].key, a[c].priority, now)
  OBVIOUS
<1>3. Calling(x) /\ x.step = "fetch" /\ x.key = a[c].key
  BY <1>1, <1>2 DEF Calling, LeadSteps, CallAt
<1>4. \A d \in BrokerCallers : b[d] = IF d = c THEN x ELSE a[d]
  BY <1>2 DEF AskedOK
<1>5. b = [d \in BrokerCallers |-> b[d]]
  BY DEF AskedOK
<1>6. AskedOK(b)
  BY <1>3, <1>4, <1>5 DEF AskedOK, CallOK
<1>7. \A d \in BrokerCallers : b[d].key = a[d].key
  BY <1>3, <1>4
<1>8. \A d \in BrokerCallers : b[d].step \in LeadSteps <=> a[d].step \in LeadSteps
  <2>1. a[c].step \in LeadSteps /\ x.step \in LeadSteps
    BY <1>3 DEF LeadSteps
  <2> QED
    BY <1>4, <2>1
<1>9. \A d \in BrokerCallers : b[d].step = "wait" => a[d].step = "wait"
  BY <1>3, <1>4
<1>10. Flight(b, fl)
  <2>1. SameSteps(a, b)
    BY <1>7, <1>8, <1>9 DEF SameSteps
  <2> QED
    BY <2>1, SameFlight
<1> QED
  BY <1>6, <1>10

Metered(b, s, now) ==
  /\ b = [p \in ProviderIds |-> b[p]] /\ s = [p \in ProviderIds |-> s[p]]
  /\ \A p \in ProviderIds : BudgetOK(b[p], s[p], now)

CacheOK(e) == \A key \in DOMAIN e : e[key].asked = e[key].at

RefreshesOK(w) == \A key \in DOMAIN w : KeyOK(key)

\* The singleflight is whole, what was sent is paid for, and an entry is stamped
\* with the instant its data was asked for.
BrokerInv ==
  /\ brokerNow \in Nat
  /\ AskedOK(asked) /\ Flight(asked, inFlight)
  /\ Metered(budget, spent, brokerNow)
  /\ CacheOK(cached)
  /\ RefreshesOK(swr)

LEMMA TimeIsMetered ==
  ASSUME NEW b, NEW s, NEW now \in Nat, Metered(b, s, now)
  PROVE  Metered(b, s, now + 1)
<1>1. ASSUME NEW p \in ProviderIds PROVE BudgetOK(b[p], s[p], now + 1)
  <2>1. BudgetOK(b[p], s[p], now)
    BY DEF Metered
  <2>2. PICK x, l : x = b[p] /\ l = x.last
    OBVIOUS
  <2>3. l \in Nat /\ l <= now
    BY <2>1, <2>2 DEF BudgetOK
  <2>4. l <= now + 1
    BY <2>3
  <2> QED
    BY <2>1, <2>2, <2>4 DEF BudgetOK
<1> QED
  BY <1>1 DEF Metered

\* pre_flight_check of one provider, with what it admits sent.
LEMMA AdmissionIsMetered ==
  ASSUME NEW now \in Nat, NEW s, Metered(budget, s, now), NEW p \in ProviderIds, NEW cost \in Nat,
         NEW priority, NEW check, check = PreFlightCheck(p, now, cost, priority),
         NEW b, b = [budget EXCEPT ![p] = check.budget], NEW t,
         t = IF check.refusal = "none" THEN [s EXCEPT ![p] = @ + cost] ELSE s
  PROVE  Metered(b, t, now)
<1>1. PICK n : n = IF check.refusal = "none" THEN s[p] + cost ELSE s[p]
  OBVIOUS
<1>2. BudgetOK(check.budget, n, now)
  <2>1. BudgetOK(budget[p], s[p], now)
    BY DEF Metered
  <2>2. BudgetOK(check.budget, IF check.refusal = "none" THEN s[p] + cost ELSE s[p], now)
    BY <2>1, CheckedBudget
  <2> QED
    BY <1>1, <2>2
<1>3. t = [q \in ProviderIds |-> t[q]] /\ \A q \in ProviderIds : t[q] = IF q = p THEN n ELSE s[q]
  BY <1>1 DEF Metered
<1>4. /\ b = [q \in ProviderIds |-> b[q]]
      /\ \A q \in ProviderIds : b[q] = IF q = p THEN check.budget ELSE budget[q]
  BY DEF Metered
<1>5. \A q \in ProviderIds : BudgetOK(b[q], t[q], now)
  BY <1>2, <1>3, <1>4 DEF Metered
<1> QED
  BY <1>3, <1>4, <1>5 DEF Metered

LEMMA BrokerStarts == BrokerInit => BrokerInv
<1> SUFFICES ASSUME BrokerInit PROVE BrokerInv
  OBVIOUS
<1>1. brokerNow \in Nat
  BY DEF BrokerInit
<1>2. \A c \in BrokerCallers : asked[c] = Idle /\ asked[c].step = "idle"
  BY DEF BrokerInit, Idle
<1>3. AskedOK(asked)
  BY <1>2 DEF BrokerInit, AskedOK, CallOK
<1>4. PICK e : e = <<>>
  OBVIOUS
<1>5. DOMAIN e = {}
  BY <1>4
<1>6. inFlight = e /\ cached = e /\ swr = e
  BY <1>4 DEF BrokerInit
<1>7. Flight(asked, inFlight)
  BY <1>2, <1>5, <1>6 DEF Flight, LeadSteps
<1>8. Metered(budget, spent, brokerNow)
  <2>1. PICK f : f = [available |-> MaxBudget, last |-> 0]
    OBVIOUS
  <2>2. f.available = MaxBudget /\ f.last = 0 /\ MaxBudget \in Nat /\ RefillPerTick \in Nat
    BY <2>1, BrokerAssumption
  <2>3. 0 + MaxBudget <= MaxBudget + 0 * RefillPerTick
    BY <2>2
  <2>4. BudgetOK(f, 0, 0)
    BY <2>1, <2>2, <2>3 DEF BudgetOK
  <2> QED
    BY <2>1, <2>4 DEF BrokerInit, Metered
<1>9. CacheOK(cached) /\ RefreshesOK(swr)
  BY <1>5, <1>6 DEF CacheOK, RefreshesOK
<1> QED
  BY <1>1, <1>3, <1>7, <1>8, <1>9 DEF BrokerInv

\* An answer labelled fresh is.
LEMMA BrokerCallKeeps ==
  ASSUME BrokerInv, NEW c \in BrokerCallers, NEW op \in BrokerOps, NEW fields, NEW bad, NEW ctx,
         BrokerCall(c, op, fields, bad, ctx)
  PROVE  BrokerInv'
<1>1. PICK key, now : key = LogicalRequestKey(op, ctx) /\ now = brokerNow
  OBVIOUS
<1>2. KeyOK(key) /\ now \in Nat
  BY <1>1, KeysAreKnown DEF BrokerInv
<1>3. PICK found : found = Lookup(cached, negative, key, now)
  OBVIOUS
<1>4. \E x : asked' = [asked EXCEPT ![c] = x] /\ CallOK(x) /\ x.step \in {"done", "join"}
  <2>1. CASE asked' = [asked EXCEPT ![c] = BrokerAnswer("Miss", NoData, "CandidateGatingRejected")]
    <3>1. PICK x : x = BrokerAnswer("Miss", NoData, "CandidateGatingRejected")
      OBVIOUS
    <3>2. x.step = "done" /\ x.label = "Miss"
      BY <3>1 DEF BrokerAnswer
    <3>3. asked' = [asked EXCEPT ![c] = x]
      BY <2>1, <3>1
    <3> QED
      BY <3>2, <3>3 DEF CallOK, Answered
  <2>2. CASE asked' = [asked EXCEPT ![c] =
                   CASE found = "Fresh" -> BrokerAnswer("FreshHit", cached[key].asked, "none")
                     [] found = "Negative" -> BrokerAnswer("NegativeHit", NoData, "NegativeCached")
                     [] found = "Stale" -> BrokerAnswer("StaleServed", cached[key].asked, "none")
                     [] OTHER -> CallAt("join", key, ctx.priority, now)]
    <3>1. CASE found = "Fresh"
      <4>1. key \in DOMAIN cached /\ now - cached[key].at <= FreshTtl
        BY <1>3, <3>1 DEF Lookup
      <4>2. cached[key].asked = cached[key].at
        BY <4>1 DEF BrokerInv, CacheOK
      <4>3. PICK x : x = BrokerAnswer("FreshHit", cached[key].asked, "none")
        OBVIOUS
      <4>4. x.step = "done" /\ x.when = now /\ x.asOf = cached[key].asked
        BY <1>1, <4>3 DEF BrokerAnswer
      <4>5. CallOK(x)
        BY <4>1, <4>2, <4>4 DEF CallOK, Answered
      <4>6. asked' = [asked EXCEPT ![c] = x]
        BY <2>2, <3>1, <4>3
      <4> QED
        BY <4>4, <4>5, <4>6
    <3>2. CASE found = "Negative"
      <4>1. PICK x : x = BrokerAnswer("NegativeHit", NoData, "NegativeCached")
        OBVIOUS
      <4>2. x.step = "done" /\ x.label = "NegativeHit"
        BY <4>1 DEF BrokerAnswer
      <4>3. asked' = [asked EXCEPT ![c] = x]
        BY <2>2, <3>2, <4>1
      <4> QED
        BY <4>2, <4>3 DEF CallOK, Answered
    <3>3. CASE found = "Stale"
      <4>1. PICK x : x = BrokerAnswer("StaleServed", cached[key].asked, "none")
        OBVIOUS
      <4>2. x.step = "done" /\ x.label = "StaleServed"
        BY <4>1 DEF BrokerAnswer
      <4>3. asked' = [asked EXCEPT ![c] = x]
        BY <2>2, <3>3, <4>1
      <4> QED
        BY <4>2, <4>3 DEF CallOK, Answered
    <3>4. CASE found \notin {"Fresh", "Negative", "Stale"}
      <4>1. PICK x : x = CallAt("join", key, ctx.priority, now)
        OBVIOUS
      <4>2. x.step = "join" /\ Calling(x)
        BY <1>2, <4>1 DEF CallAt, Calling
      <4>3. asked' = [asked EXCEPT ![c] = x]
        BY <2>2, <3>4, <4>1
      <4> QED
        BY <4>2, <4>3 DEF CallOK
    <3> QED
      BY <3>1, <3>2, <3>3, <3>4
  <2> QED
    BY <1>1, <1>3, <2>1, <2>2 DEF BrokerCall
<1>5. PICK x : asked' = [asked EXCEPT ![c] = x] /\ CallOK(x) /\ x.step \in {"done", "join"}
  BY <1>4
<1>6. asked[c].step \in {"idle", "done"}
  BY DEF BrokerCall
<1>7. AskedOK(asked') /\ Flight(asked', inFlight)
  <2>1. PICK a, b, fl : a = asked /\ b = asked' /\ fl = inFlight
    OBVIOUS
  <2>2. AskedOK(a) /\ Flight(a, fl)
    BY <2>1 DEF BrokerInv
  <2>3. a[c].step \notin LeadSteps /\ x.step \notin {"wait"} \cup LeadSteps /\ b = [a EXCEPT ![c] = x]
    BY <1>5, <1>6, <2>1 DEF LeadSteps
  <2>4. AskedOK(b) /\ Flight(b, fl)
    BY <1>5, <2>2, <2>3, FlightKept
  <2> QED
    BY <2>1, <2>4
<1>8. RefreshesOK(swr')
  <2>1. swr' = swr \/ swr' = Entered(swr, key, [step |-> "spawned", at |-> now])
    BY <1>1 DEF BrokerCall
  <2> QED
    BY <1>2, <2>1 DEF BrokerInv, RefreshesOK, Entered
<1> QED
  BY <1>7, <1>8 DEF BrokerCall, BrokerInv

LEMMA JoinKeeps ==
  ASSUME BrokerInv, NEW c \in BrokerCallers, JoinFlight(c)
  PROVE  BrokerInv'
<1>1. PICK a, b, fl, key : a = asked /\ b = asked' /\ fl = inFlight /\ key = asked[c].key
  OBVIOUS
<1>2. AskedOK(a) /\ Flight(a, fl) /\ a[c].step = "join" /\ a[c].key = key
  BY <1>1 DEF BrokerInv, JoinFlight
<1>3. AskedOK(asked') /\ Flight(asked', inFlight')
  <2>1. CASE key \in DOMAIN fl
    <3>1. b = [a EXCEPT ![c].step = "wait"] /\ inFlight' = fl
      BY <1>1, <2>1 DEF JoinFlight
    <3>2. AskedOK(b) /\ Flight(b, fl)
      BY <1>2, <2>1, <3>1, FlightFollowed
    <3> QED
      BY <1>1, <3>1, <3>2
  <2>2. CASE key \notin DOMAIN fl
    <3>1. b = [a EXCEPT ![c].step = "preflight"] /\ inFlight' = Entered(fl, key, c)
      BY <1>1, <2>2 DEF JoinFlight
    <3>2. AskedOK(b) /\ Flight(b, Entered(fl, key, c))
      BY <1>2, <2>2, <3>1, FlightLed
    <3> QED
      BY <1>1, <3>1, <3>2
  <2> QED
    BY <2>1, <2>2
<1> QED
  BY <1>3 DEF BrokerInv, JoinFlight

\* A broadcast answers the leader and its followers, and leaves no one behind.
LEMMA BroadcastKeeps ==
  ASSUME BrokerInv, NEW c \in BrokerCallers, asked[c].step \in LeadSteps, NEW key, key = asked[c].key,
         NEW x, NEW y, x.step = "done", y.step = "done", CallOK(x), CallOK(y), Broadcast(c, key, x, y)
  PROVE  AskedOK(asked') /\ Flight(asked', inFlight')
<1>1. PICK a, b, fl, F : a = asked /\ b = asked' /\ fl = inFlight /\ F = Followers(key)
  OBVIOUS
<1>2. AskedOK(a) /\ Flight(a, fl) /\ a[c].step \in LeadSteps /\ a[c].key = key
  BY <1>1 DEF BrokerInv
<1>3. F = {d \in BrokerCallers : a[d].step = "wait" /\ a[d].key = key}
  BY <1>1 DEF Followers
<1>4. /\ b = [d \in BrokerCallers |-> IF d = c THEN x ELSE IF d \in F THEN y ELSE a[d]]
      /\ inFlight' = Dropped(fl, key)
  BY <1>1 DEF Broadcast
<1>5. AskedOK(b) /\ Flight(b, Dropped(fl, key))
  <2>1. Landed(a, c, key, x, y, F, b)
    BY <1>3, <1>4 DEF Landed
  <2> QED
    BY <1>2, <2>1, FlightLands
<1> QED
  BY <1>1, <1>4, <1>5

LEMMA LeaderIsCalling ==
  ASSUME BrokerInv, NEW c \in BrokerCallers, asked[c].step \in LeadSteps
  PROVE  KeyOK(asked[c].key) /\ asked[c].at \in Nat
<1>1. PICK x : x = asked[c]
  OBVIOUS
<1>2. CallOK(x)
  BY <1>1 DEF BrokerInv, AskedOK
<1>3. Calling(x)
  BY <1>1, <1>2 DEF CallOK, Idle, Answered, LeadSteps
<1> QED
  BY <1>1, <1>3 DEF Calling

LEMMA NotFreshIsAnswered ==
  ASSUME NEW label, label # "FreshHit", NEW asOf, NEW reason, NEW x, x = BrokerAnswer(label, asOf, reason)
  PROVE  x.step = "done" /\ CallOK(x)
<1>1. x.step = "done" /\ x.label = label
  BY DEF BrokerAnswer
<1> QED
  BY <1>1 DEF CallOK, Answered

LEMMA PreFlightKeeps ==
  ASSUME BrokerInv, NEW c \in BrokerCallers, LeaderPreFlight(c)
  PROVE  BrokerInv'
<1>1. PICK key, p, cost, now, s : key = asked[c].key /\ p = ServiceOf(key) /\ cost = WeightOf(key)
                                  /\ now = brokerNow /\ s = spent
  OBVIOUS
<1>2. asked[c].step = "preflight" /\ asked[c].step \in LeadSteps
  BY DEF LeaderPreFlight, LeadSteps
<1>3. p \in ProviderIds /\ cost \in Nat /\ now \in Nat
  BY <1>1, <1>2, LeaderIsCalling DEF KeyOK, BrokerInv
<1>4. PICK check : check = PreFlightCheck(p, now, cost, asked[c].priority)
  OBVIOUS
<1>5. budget' = [budget EXCEPT ![p] = check.budget]
  BY <1>1, <1>4 DEF LeaderPreFlight
<1>6. \/ /\ check.refusal = "none"
         /\ asked' = [asked EXCEPT ![c] = CallAt("fetch", key, @.priority, now)]
         /\ spent' = [spent EXCEPT ![p] = @ + cost] /\ inFlight' = inFlight
      \/ /\ check.refusal # "none" /\ spent' = spent
         /\ \/ Broadcast(c, key, BrokerAnswer("StaleServed", cached[key].asked, check.refusal),
                                 BrokerAnswer("Miss", cached[key].asked, "none"))
            \/ Broadcast(c, key, BrokerAnswer("Miss", NoData, check.refusal),
                                 BrokerAnswer("Miss", NoData, check.refusal))
  BY <1>1, <1>4 DEF LeaderPreFlight
<1>7. Metered(budget', spent', now)
  <2>1. spent' = IF check.refusal = "none" THEN [s EXCEPT ![p] = @ + cost] ELSE s
    BY <1>1, <1>6
  <2>2. Metered(budget, s, now)
    BY <1>1 DEF BrokerInv
  <2>3. PICK b, t : b = budget' /\ t = spent'
    OBVIOUS
  <2>4. Metered(b, t, now)
    BY <1>3, <1>4, <1>5, <2>1, <2>2, <2>3, AdmissionIsMetered
  <2> QED
    BY <2>3, <2>4
<1>8. AskedOK(asked') /\ Flight(asked', inFlight')
  <2>1. CASE /\ asked' = [asked EXCEPT ![c] = CallAt("fetch", key, @.priority, now)]
             /\ inFlight' = inFlight
    <3>1. PICK a, b, fl : a = asked /\ b = asked' /\ fl = inFlight
      OBVIOUS
    <3>2. AskedOK(a) /\ Flight(a, fl) /\ a[c].step = "preflight"
      BY <1>2, <3>1 DEF BrokerInv
    <3>3. b = [a EXCEPT ![c] = CallAt("fetch", a[c].key, a[c].priority, now)]
      BY <1>1, <2>1, <3>1
    <3>4. AskedOK(b) /\ Flight(b, fl)
      BY <1>3, <3>2, <3>3, FlightGoesOn
    <3> QED
      BY <2>1, <3>1, <3>4
  <2>2. CASE Broadcast(c, key, BrokerAnswer("StaleServed", cached[key].asked, check.refusal),
                               BrokerAnswer("Miss", cached[key].asked, "none"))
    <3>1. PICK x, y : /\ x = BrokerAnswer("StaleServed", cached[key].asked, check.refusal)
                      /\ y = BrokerAnswer("Miss", cached[key].asked, "none")
      OBVIOUS
    <3>2. x.step = "done" /\ CallOK(x) /\ y.step = "done" /\ CallOK(y)
      BY <3>1, NotFreshIsAnswered
    <3>3. Broadcast(c, key, x, y)
      BY <2>2, <3>1
    <3> QED
      BY <1>1, <1>2, <3>2, <3>3, BroadcastKeeps
  <2>3. CASE Broadcast(c, key, BrokerAnswer("Miss", NoData, check.refusal),
                               BrokerAnswer("Miss", NoData, check.refusal))
    <3>1. PICK x : x = BrokerAnswer("Miss", NoData, check.refusal)
      OBVIOUS
    <3>2. x.step = "done" /\ CallOK(x)
      BY <3>1, NotFreshIsAnswered
    <3>3. Broadcast(c, key, x, x)
      BY <2>3, <3>1
    <3> QED
      BY <1>1, <1>2, <3>2, <3>3, BroadcastKeeps
  <2> QED
    BY <1>6, <2>1, <2>2, <2>3
<1>9. UNCHANGED <<brokerNow, cached, swr>>
  BY DEF LeaderPreFlight
<1> QED
  BY <1>1, <1>7, <1>8, <1>9 DEF BrokerInv

\* What a finished fetch records is stamped with the instant it was sent.
LEMMA RecordKeeps ==
  ASSUME CacheOK(cached), NEW key, NEW got, NEW at, Record(key, got, at)
  PROVE  CacheOK(cached')
<1>1. CASE cached' = cached
  BY <1>1 DEF CacheOK
<1>2. CASE cached' = Entered(cached, key, [at |-> at, asked |-> at])
  <2>1. PICK e, x : e = cached' /\ x = [at |-> at, asked |-> at]
    OBVIOUS
  <2>2. x.at = at /\ x.asked = at
    BY <2>1
  <2>3. DOMAIN e = DOMAIN cached \cup {key} /\ \A k \in DOMAIN e : e[k] = IF k = key THEN x ELSE cached[k]
    BY <1>2, <2>1 DEF Entered
  <2>4. CacheOK(e)
    BY <2>2, <2>3 DEF CacheOK
  <2> QED
    BY <2>1, <2>4
<1>3. cached' = cached \/ cached' = Entered(cached, key, [at |-> at, asked |-> at])
  BY DEF Record, StoreSuccess, StoreNegative, InsertSuccess
<1> QED
  BY <1>1, <1>2, <1>3

LEMMA LeaderFinishKeeps ==
  ASSUME BrokerInv, NEW c \in BrokerCallers, NEW r, LeaderFinish(c, r)
  PROVE  BrokerInv'
<1>1. PICK key, got, at : key = asked[c].key /\ got = AdapterResult(key, r) /\ at = asked[c].at
  OBVIOUS
<1>2. asked[c].step \in LeadSteps
  BY DEF LeaderFinish, LeadSteps
<1>3. PICK x : x = IF got = "Ok" THEN BrokerAnswer("Miss", at, "none")
                   ELSE BrokerAnswer("Miss", NoData, "ProviderUnavailable")
  OBVIOUS
<1>4. x.step = "done" /\ CallOK(x)
  BY <1>3, NotFreshIsAnswered
<1>5. Broadcast(c, key, x, x) /\ Record(key, got, at)
  BY <1>1, <1>3 DEF LeaderFinish
<1>6. AskedOK(asked') /\ Flight(asked', inFlight')
  BY <1>1, <1>2, <1>4, <1>5, BroadcastKeeps
<1>7. CacheOK(cached')
  BY <1>5, RecordKeeps DEF BrokerInv
<1> QED
  BY <1>6, <1>7 DEF BrokerInv, LeaderFinish

LEMMA RefreshesDropped ==
  ASSUME NEW w, RefreshesOK(w), NEW key
  PROVE  RefreshesOK(Dropped(w, key))
BY DEF RefreshesOK, Dropped, Restrict

LEMMA SwrKeeps ==
  ASSUME BrokerInv, NEW key \in DOMAIN swr, SwrStart(key) \/ \E r \in AdapterReplies : SwrFinish(key, r)
  PROVE  BrokerInv'
<1>1. KeyOK(key)
  BY DEF BrokerInv, RefreshesOK
<1>2. CASE SwrStart(key)
  <2>1. PICK p, cost, now, s : p = ServiceOf(key) /\ cost = WeightOf(key) /\ now = brokerNow /\ s = spent
    OBVIOUS
  <2>2. p \in ProviderIds /\ cost \in Nat /\ now \in Nat
    BY <1>1, <2>1 DEF KeyOK, BrokerInv
  <2>3. PICK check : check = PreFlightCheck(p, now, cost, "Normal")
    OBVIOUS
  <2>4. budget' = [budget EXCEPT ![p] = check.budget]
    BY <1>2, <2>1, <2>3 DEF SwrStart
  <2>5. spent' = IF check.refusal = "none" THEN [s EXCEPT ![p] = @ + cost] ELSE s
    BY <1>2, <2>1, <2>3 DEF SwrStart
  <2>6. Metered(budget', spent', now)
    <3>1. Metered(budget, s, now)
      BY <2>1 DEF BrokerInv
    <3>2. PICK b, t : b = budget' /\ t = spent'
      OBVIOUS
    <3>3. Metered(b, t, now)
      BY <2>2, <2>3, <2>4, <2>5, <3>1, <3>2, AdmissionIsMetered
    <3> QED
      BY <3>2, <3>3
  <2>7. RefreshesOK(swr')
    <3>1. \/ swr' = [swr EXCEPT ![key] = [step |-> "fetch", at |-> brokerNow]]
          \/ swr' = Dropped(swr, key)
      BY <1>2 DEF SwrStart
    <3>2. CASE swr' = [swr EXCEPT ![key] = [step |-> "fetch", at |-> brokerNow]]
      BY <3>2 DEF RefreshesOK, BrokerInv
    <3>3. CASE swr' = Dropped(swr, key)
      BY <3>3, RefreshesDropped DEF BrokerInv
    <3> QED
      BY <3>1, <3>2, <3>3
  <2>8. UNCHANGED <<brokerNow, cached, inFlight, asked>>
    BY <1>2 DEF SwrStart
  <2> QED
    BY <2>1, <2>6, <2>7, <2>8 DEF BrokerInv
<1>3. CASE \E r \in AdapterReplies : SwrFinish(key, r)
  <2>1. PICK r \in AdapterReplies : SwrFinish(key, r)
    BY <1>3
  <2>2. CacheOK(cached')
    <3>1. Record(key, AdapterResult(key, r), swr[key].at)
      BY <2>1 DEF SwrFinish
    <3> QED
      BY <3>1, RecordKeeps DEF BrokerInv
  <2>3. RefreshesOK(swr')
    BY <2>1, RefreshesDropped DEF SwrFinish, BrokerInv
  <2>4. UNCHANGED <<brokerNow, budget, inFlight, asked, spent>>
    BY <2>1 DEF SwrFinish
  <2> QED
    BY <2>2, <2>3, <2>4 DEF BrokerInv
<1> QED
  BY <1>2, <1>3

LEMMA DropKeeps ==
  ASSUME Cancellation = FALSE, BrokerInv, NEW c \in BrokerCallers, DropBrokerCall(c)
  PROVE  BrokerInv'
<1>1. PICK a, b, fl : a = asked /\ b = asked' /\ fl = inFlight
  OBVIOUS
<1>2. a[c].step = "wait" /\ b = [a EXCEPT ![c] = Idle]
  BY <1>1 DEF DropBrokerCall
<1>3. AskedOK(a) /\ Flight(a, fl) /\ CallOK(Idle) /\ Idle.step = "idle"
  BY <1>1 DEF BrokerInv, CallOK, Idle
<1>4. PICK x : x = Idle
  OBVIOUS
<1>5. a[c].step \notin LeadSteps /\ x.step \notin {"wait"} \cup LeadSteps
  BY <1>2, <1>3, <1>4 DEF LeadSteps
<1>6. AskedOK(b) /\ Flight(b, fl)
  BY <1>2, <1>3, <1>4, <1>5, FlightKept
<1> QED
  BY <1>1, <1>6 DEF BrokerInv, DropBrokerCall

\* The singleflight, the meter and the freshness of the broker (execute_logical_request), for every
\* number of callers and every policy, when no future of a leader is dropped while it fetches.
THEOREM BrokerKept ==
  ASSUME Cancellation = FALSE
  PROVE  BrokerSpec => []BrokerKeepsItsPromises
<1>1. BrokerInit => BrokerInv
  BY BrokerStarts
<1>2. BrokerInv /\ [BrokerNext]_brokerVars => BrokerInv'
  <2> SUFFICES ASSUME BrokerInv, [BrokerNext]_brokerVars PROVE BrokerInv'
    OBVIOUS
  <2>1. CASE UNCHANGED brokerVars
    BY <2>1 DEF BrokerInv, brokerVars
  <2>2. ASSUME NEW c \in BrokerCallers, NEW bad, NEW ctx,
               \/ fomo_capabilities(c, bad, ctx) \/ fomo_search_tokens(c, bad, ctx)
               \/ fomo_get_token(c, bad, ctx) \/ fomo_get_trending_tokens(c, bad, ctx)
               \/ fomo_get_recent_events(c, bad, ctx) \/ gmgn_trending(c, bad, ctx)
               \/ gmgn_search(c, bad, ctx) \/ gmgn_token_info(c, bad, ctx)
               \/ gmgn_token_security(c, bad, ctx) \/ gmgn_top_holders(c, bad, ctx)
               \/ gmgn_kline(c, bad, ctx)
        PROVE  BrokerInv'
    <3>1. \E op \in BrokerOps : \E fields : BrokerCall(c, op, fields, bad, ctx)
      BY <2>2 DEF BrokerOps, fomo_capabilities, fomo_search_tokens, fomo_get_token,
           fomo_get_trending_tokens, fomo_get_recent_events, gmgn_trending, gmgn_search,
           gmgn_token_info, gmgn_token_security, gmgn_top_holders, gmgn_kline
    <3> QED
      BY <3>1, BrokerCallKeeps
  <2>3. ASSUME NEW c \in BrokerCallers,
               \/ JoinFlight(c) \/ LeaderPreFlight(c) \/ DropBrokerCall(c)
               \/ \E r \in AdapterReplies : LeaderFinish(c, r)
        PROVE  BrokerInv'
    BY <2>3, JoinKeeps, PreFlightKeeps, DropKeeps, LeaderFinishKeeps
  <2>4. CASE \E key \in DOMAIN swr : SwrStart(key) \/ \E r \in AdapterReplies : SwrFinish(key, r)
    BY <2>4, SwrKeeps
  <2>5. CASE BrokerTick
    <3>1. PICK now, b, s : now = brokerNow /\ b = budget /\ s = spent
      OBVIOUS
    <3>2. now \in Nat /\ Metered(b, s, now)
      BY <3>1 DEF BrokerInv
    <3>3. Metered(b, s, now + 1) /\ now + 1 \in Nat
      BY <3>2, TimeIsMetered
    <3>4. brokerNow' = now + 1 /\ budget' = b /\ spent' = s
      BY <2>5, <3>1 DEF BrokerTick
    <3> QED
      BY <2>5, <3>3, <3>4 DEF BrokerInv, BrokerTick
  <2> QED
    BY <2>1, <2>2, <2>3, <2>4, <2>5 DEF BrokerNext
<1>3. BrokerInv => BrokerKeepsItsPromises
  <2> SUFFICES ASSUME BrokerInv PROVE BrokerKeepsItsPromises
    OBVIOUS
  <2>1. FollowersHaveALeader
    BY DEF BrokerInv, Flight, FollowersHaveALeader, Leading, LeadSteps
  <2>2. UpstreamIsMetered
    <3>1. ASSUME NEW p \in ProviderIds PROVE spent[p] <= MaxBudget + brokerNow * RefillPerTick
      <4>1. PICK b, s, now : b = budget[p] /\ s = spent[p] /\ now = brokerNow
        OBVIOUS
      <4>2. BudgetOK(b, s, now) /\ now \in Nat
        BY <4>1 DEF BrokerInv, Metered
      <4>3. PICK x, l : x = b.available /\ l = b.last
        OBVIOUS
      <4>4. x \in Nat /\ l \in Nat /\ l <= now /\ s \in Nat /\ s + x <= MaxBudget + l * RefillPerTick
        BY <4>2, <4>3 DEF BudgetOK
      <4>5. MaxBudget \in Nat /\ RefillPerTick \in Nat
        BY BrokerAssumption
      <4>6. PICK m, n : m = l * RefillPerTick /\ n = now * RefillPerTick
        OBVIOUS
      <4>7. m \in Nat /\ n \in Nat /\ m <= n
        BY <4>2, <4>4, <4>5, <4>6, LaterRefillsMore
      <4>8. s <= MaxBudget + n
        BY <4>4, <4>5, <4>6, <4>7
      <4> QED
        BY <4>1, <4>6, <4>8
    <3> QED
      BY <3>1 DEF UpstreamIsMetered
  <2>3. FreshAnswersAreRecent
    <3>1. ASSUME NEW c \in BrokerCallers, asked[c].step = "done", asked[c].label = "FreshHit"
          PROVE  asked[c].when - asked[c].asOf <= FreshTtl
      <4>1. PICK x : x = asked[c]
        OBVIOUS
      <4>2. CallOK(x)
        BY <4>1 DEF BrokerInv, AskedOK
      <4>3. Answered(x)
        BY <3>1, <4>1, <4>2 DEF CallOK, Idle, Calling, LeadSteps
      <4> QED
        BY <3>1, <4>1, <4>3 DEF Answered
    <3> QED
      BY <3>1 DEF FreshAnswersAreRecent
  <2> QED
    BY <2>1, <2>2, <2>3 DEF BrokerKeepsItsPromises
<1> QED
  BY <1>1, <1>2, <1>3, PTL DEF BrokerSpec

(***************************************************************************)
(* The benchmark and social services.                                      *)
(***************************************************************************)
CircuitOK(c) ==
  /\ c = [state |-> c.state, failures |-> c.failures, until |-> c.until, probe |-> c.probe]
  /\ c.state \in {"Healthy", "Degraded", "CircuitOpen"} /\ c.probe \in BOOLEAN

LEMMA CircuitRests ==
  ASSUME NEW c, CircuitOK(c), NEW at, NEW d, d = CircuitSuccess(c) \/ d = CircuitFailure(c, at)
  PROVE  CircuitOK(d) /\ d.probe = FALSE
<1>1. PICK s, f, u, p : c = [state |-> s, failures |-> f, until |-> u, probe |-> p]
  BY DEF CircuitOK
<1>2. CASE d = CircuitSuccess(c)
  <2>1. d = [state |-> "Healthy", failures |-> 0, until |-> u, probe |-> FALSE]
    BY <1>1, <1>2 DEF CircuitSuccess
  <2> QED
    BY <2>1 DEF CircuitOK
<1>3. CASE d = [state |-> "CircuitOpen", failures |-> BrokerThreshold,
                until |-> at + BrokerCooldown, probe |-> FALSE]
  BY <1>3 DEF CircuitOK
<1>4. CASE d = [c EXCEPT !.failures = @ + 1, !.state = "Degraded", !.probe = FALSE]
  <2>1. d = [state |-> "Degraded", failures |-> f + 1, until |-> u, probe |-> FALSE]
    BY <1>1, <1>4
  <2> QED
    BY <2>1 DEF CircuitOK
<1> QED
  BY <1>2, <1>3, <1>4 DEF CircuitFailure

LEMMA CircuitAdmits ==
  ASSUME NEW c, CircuitOK(c), ~c.probe, NEW now, NEW a, a = CircuitAllowed(c, now)
  PROVE  CircuitOK(a.circuit) /\ (~a.ok => a.circuit.probe = FALSE)
<1>1. PICK s, f, u : c = [state |-> s, failures |-> f, until |-> u, probe |-> FALSE]
  BY DEF CircuitOK
<1>2. c.probe = FALSE /\ c.state = s /\ s \in {"Healthy", "Degraded", "CircuitOpen"} /\ c.until = u
  BY <1>1 DEF CircuitOK
<1>3. CASE a.circuit = c
  BY <1>2, <1>3
<1>4. CASE a.circuit # c
  <2>1. a.ok = TRUE /\ a.circuit = [c EXCEPT !.state = "Degraded", !.probe = TRUE]
    BY <1>2, <1>4 DEF CircuitAllowed
  <2>2. a.circuit = [state |-> "Degraded", failures |-> f, until |-> u, probe |-> TRUE]
    BY <1>1, <2>1
  <2>3. CircuitOK(a.circuit)
    BY <2>2 DEF CircuitOK
  <2> QED
    BY <2>1, <2>3
<1> QED
  BY <1>3, <1>4

\* The probe flag of the benchmark is set only while it fetches.
ServiceOK(b) ==
  /\ b = [budget |-> b.budget, circuit |-> b.circuit, entries |-> b.entries,
          negatives |-> b.negatives, fetch |-> b.fetch]
  /\ CircuitOK(b.circuit) /\ b.fetch.busy \in BOOLEAN
  /\ b.circuit.probe => b.fetch.busy

\* What a pass has reported and what it still holds are requests it took.
PassOK(due, rep) ==
  /\ due \in Seq(BenchRequests)
  /\ rep = [requested |-> rep.requested, compared |-> rep.compared, skipped |-> rep.skipped]
  /\ {rep.requested, rep.compared, rep.skipped} \subseteq Nat
  /\ rep.compared + rep.skipped + Len(due) <= rep.requested

BenchInv ==
  /\ ServiceOK(bench) /\ PassOK(benchPass, benchReport)
  /\ bench.fetch.busy => benchPass # <<>>

LEMMA OneLess ==
  ASSUME NEW x \in Nat, NEW y \in Nat, NEW n \in Nat, n # 0, NEW r \in Nat, x + y + n <= r
  PROVE  (x + 1) + y + (n - 1) <= r /\ x + (y + 1) + (n - 1) <= r
OBVIOUS

LEMMA TallyKeeps ==
  ASSUME NEW outcome, Tally(outcome), PassOK(benchPass, benchReport), benchPass # <<>>
  PROVE  PassOK(benchPass', benchReport')
<1>1. PICK due, rep, n, r, x, y :
         /\ due = benchPass /\ rep = benchReport /\ n = Len(due)
         /\ r = rep.requested /\ x = rep.compared /\ y = rep.skipped
  OBVIOUS
<1>2. /\ due \in Seq(BenchRequests) /\ due # <<>>
      /\ rep = [requested |-> r, compared |-> x, skipped |-> y]
      /\ r \in Nat /\ x \in Nat /\ y \in Nat /\ x + y + n <= r
  BY <1>1 DEF PassOK
<1>3. n \in Nat /\ n # 0
  BY <1>1, <1>2
<1>4. PICK t : t = Tail(due)
  OBVIOUS
<1>5. t \in Seq(BenchRequests) /\ Len(t) = n - 1
  BY <1>1, <1>2, <1>4
<1>6. PICK u : u = benchReport'
  OBVIOUS
<1>7. \/ u = [requested |-> r, compared |-> x + 1, skipped |-> y + 0]
      \/ u = [requested |-> r, compared |-> x + 0, skipped |-> y + 1]
  BY <1>1, <1>2, <1>6 DEF Tally
<1>8. (x + 1) + y + (n - 1) <= r /\ x + (y + 1) + (n - 1) <= r /\ x + 0 = x /\ y + 0 = y
  BY <1>2, <1>3, OneLess
<1>9. PassOK(t, u)
  <2>1. CASE u = [requested |-> r, compared |-> x + 1, skipped |-> y + 0]
    <3>1. PICK x1 : x1 = x + 1
      OBVIOUS
    <3>2. u = [requested |-> r, compared |-> x1, skipped |-> y] /\ x1 \in Nat /\ x1 + y + Len(t) <= r
      BY <1>2, <1>5, <1>8, <2>1, <3>1
    <3>3. u.requested = r /\ u.compared = x1 /\ u.skipped = y
      BY <3>2
    <3> QED
      BY <1>2, <1>5, <3>2, <3>3 DEF PassOK
  <2>2. CASE u = [requested |-> r, compared |-> x + 0, skipped |-> y + 1]
    <3>1. PICK y1 : y1 = y + 1
      OBVIOUS
    <3>2. u = [requested |-> r, compared |-> x, skipped |-> y1] /\ y1 \in Nat /\ x + y1 + Len(t) <= r
      BY <1>2, <1>5, <1>8, <2>2, <3>1
    <3>3. u.requested = r /\ u.compared = x /\ u.skipped = y1
      BY <3>2
    <3> QED
      BY <1>2, <1>5, <3>2, <3>3 DEF PassOK
  <2> QED
    BY <1>7, <2>1, <2>2
<1>10. benchPass' = t
  BY <1>1, <1>4 DEF Tally
<1> QED
  BY <1>6, <1>9, <1>10

\* refresh_or_fallback: a refusal leaves no probe behind.
Refreshed(b, r) ==
  \E u, k : /\ r.bench = [budget |-> u, circuit |-> k, entries |-> b.entries,
                          negatives |-> b.negatives, fetch |-> b.fetch]
            /\ CircuitOK(k) /\ (~r.ok => k.probe = FALSE)

LEMMA RefreshKeeps ==
  ASSUME NEW b, ServiceOK(b), ~b.fetch.busy, NEW priority, NEW now,
         NEW r, r = Refresh(b, priority, now)
  PROVE  Refreshed(b, r)
<1>1. PICK g, k, e, n, f : /\ b = [budget |-> g, circuit |-> k, entries |-> e, negatives |-> n, fetch |-> f]
                           /\ g = b.budget /\ k = b.circuit /\ e = b.entries /\ n = b.negatives /\ f = b.fetch
  BY DEF ServiceOK
<1>2. CircuitOK(k) /\ k.probe = FALSE
  BY <1>1 DEF ServiceOK, CircuitOK
<1>3. PICK paid, allowed : paid = TryConsume(g, now, BenchCost) /\ allowed = CircuitAllowed(k, now)
  OBVIOUS
<1>4. CircuitOK(allowed.circuit) /\ (~allowed.ok => allowed.circuit.probe = FALSE)
  BY <1>2, <1>3, CircuitAdmits
<1>5. CASE r = [ok |-> FALSE, bench |-> b]
  <2>1. r.bench = b
    BY <1>5
  <2> QED
    BY <1>1, <1>2, <2>1 DEF Refreshed
<1>6. CASE r = [ok |-> paid.ok /\ allowed.ok,
                bench |-> [b EXCEPT !.budget = paid.budget,
                                    !.circuit = IF paid.ok THEN allowed.circuit ELSE @]]
  <2>1. PICK u, c : u = paid.budget /\ c = IF paid.ok THEN allowed.circuit ELSE k
    OBVIOUS
  <2>2. r.bench = [b EXCEPT !.budget = u, !.circuit = c] /\ r.ok = (paid.ok /\ allowed.ok)
    BY <1>1, <1>6, <2>1
  <2>3. r.bench = [budget |-> u, circuit |-> c, entries |-> e, negatives |-> n, fetch |-> f]
    BY <1>1, <2>2
  <2>4. CircuitOK(c) /\ (~r.ok => c.probe = FALSE)
    <3>1. CASE paid.ok
      <4>1. c = allowed.circuit
        BY <2>1, <3>1
      <4>2. ~r.ok => ~allowed.ok
        BY <2>2, <3>1
      <4> QED
        BY <1>4, <4>1, <4>2
    <3>2. CASE ~paid.ok
      <4>1. c = k
        BY <2>1, <3>2
      <4> QED
        BY <1>2, <4>1
    <3> QED
      BY <3>1, <3>2
  <2> QED
    BY <1>1, <2>3, <2>4 DEF Refreshed
<1> QED
  BY <1>1, <1>3, <1>5, <1>6 DEF Refresh

LEMMA ServiceMade ==
  ASSUME NEW u, NEW k, NEW e, NEW n, NEW f, CircuitOK(k), f.busy \in BOOLEAN, k.probe => f.busy,
         NEW b, b = [budget |-> u, circuit |-> k, entries |-> e, negatives |-> n, fetch |-> f]
  PROVE  ServiceOK(b) /\ b.fetch = f
BY DEF ServiceOK

LEMMA ServiceParts ==
  ASSUME NEW b, ServiceOK(b)
  PROVE  \E u, k, e, n, f :
           /\ b = [budget |-> u, circuit |-> k, entries |-> e, negatives |-> n, fetch |-> f]
           /\ CircuitOK(k) /\ b.circuit = k /\ b.fetch = f /\ f.busy \in BOOLEAN /\ (k.probe => f.busy)
BY DEF ServiceOK

LEMMA BenchmarkKeeps ==
  ASSUME BenchInv, Benchmark
  PROVE  BenchInv'
<1>1. PICK b, r, key, now : b = bench /\ r = Head(benchPass) /\ key = BenchKey(r.local) /\ now = intelNow
  OBVIOUS
<1>2. ServiceOK(b) /\ PassOK(benchPass, benchReport) /\ benchPass # <<>> /\ ~b.fetch.busy
  BY <1>1 DEF BenchInv, Benchmark
<1>3. PICK u, k, e, n, f :
           /\ b = [budget |-> u, circuit |-> k, entries |-> e, negatives |-> n, fetch |-> f]
           /\ CircuitOK(k) /\ b.circuit = k /\ b.fetch = f /\ f.busy \in BOOLEAN /\ (k.probe => f.busy)
  BY <1>2, ServiceParts
<1>4. PICK m : m = LookedUp(n, key, now)
  OBVIOUS
<1>5. PICK met : met = [b EXCEPT !.negatives = m]
  OBVIOUS
<1>6. met = [budget |-> u, circuit |-> k, entries |-> e, negatives |-> m, fetch |-> f]
  BY <1>3, <1>5
<1>7. ServiceOK(met) /\ met.fetch = f /\ f.busy = FALSE
  BY <1>2, <1>3, <1>6, ServiceMade
<1>8. PICK refresh : refresh = Refresh(met, r.priority, now)
  OBVIOUS
<1>9. PICK u2, k2 : /\ refresh.bench = [budget |-> u2, circuit |-> k2, entries |-> met.entries,
                                        negatives |-> met.negatives, fetch |-> met.fetch]
                    /\ CircuitOK(k2) /\ (~refresh.ok => k2.probe = FALSE)
  <2>1. Refreshed(met, refresh)
    BY <1>7, <1>8, RefreshKeeps
  <2> QED
    BY <2>1 DEF Refreshed
<1>10. b.negatives = n
  BY <1>3
<1>11. \/ \E outcome : Tally(outcome) /\ (bench' = b \/ bench' = met)
       \/ /\ refresh.ok /\ UNCHANGED <<benchPass, benchReport>>
          /\ bench' = [refresh.bench EXCEPT !.fetch = [busy |-> TRUE, request |-> r, at |-> now]]
       \/ \E outcome : Tally(outcome) /\ ~refresh.ok /\ bench' = refresh.bench
  BY <1>1, <1>4, <1>5, <1>8, <1>10 DEF Benchmark
<1>12. CASE \E outcome : Tally(outcome) /\ (bench' = b \/ bench' = met)
  <2>1. PassOK(benchPass', benchReport')
    BY <1>2, <1>12, TallyKeeps
  <2>2. ServiceOK(bench') /\ ~bench'.fetch.busy
    BY <1>2, <1>7, <1>12
  <2> QED
    BY <2>1, <2>2 DEF BenchInv
<1>13. CASE /\ refresh.ok /\ UNCHANGED <<benchPass, benchReport>>
            /\ bench' = [refresh.bench EXCEPT !.fetch = [busy |-> TRUE, request |-> r, at |-> now]]
  <2>1. PICK h, w : h = [busy |-> TRUE, request |-> r, at |-> now] /\ w = bench'
    OBVIOUS
  <2>2. h.busy = TRUE
    BY <2>1
  <2>3. PICK e2, n2, f2, x : e2 = met.entries /\ n2 = met.negatives /\ f2 = met.fetch /\ x = refresh.bench
    OBVIOUS
  <2>4. w = [budget |-> u2, circuit |-> k2, entries |-> e2, negatives |-> n2, fetch |-> h]
    <3>1. x = [budget |-> u2, circuit |-> k2, entries |-> e2, negatives |-> n2, fetch |-> f2]
      BY <1>9, <2>3
    <3>2. w = [x EXCEPT !.fetch = h]
      BY <1>13, <2>1, <2>3
    <3> QED
      BY <3>1, <3>2
  <2>5. ServiceOK(w)
    BY <1>9, <2>2, <2>4, ServiceMade
  <2> QED
    BY <1>2, <1>13, <2>1, <2>5 DEF BenchInv
<1>14. CASE \E outcome : Tally(outcome) /\ ~refresh.ok /\ bench' = refresh.bench
  <2>1. PassOK(benchPass', benchReport')
    BY <1>2, <1>14, TallyKeeps
  <2>2. PICK w, e2, n2 : w = bench' /\ e2 = met.entries /\ n2 = met.negatives
    OBVIOUS
  <2>3. w = [budget |-> u2, circuit |-> k2, entries |-> e2, negatives |-> n2, fetch |-> f]
    BY <1>7, <1>9, <1>14, <2>2
  <2>4. k2.probe = FALSE
    BY <1>9, <1>14
  <2>5. ServiceOK(w) /\ w.fetch = f
    BY <1>3, <1>9, <2>3, <2>4, ServiceMade
  <2> QED
    BY <1>7, <2>1, <2>2, <2>5 DEF BenchInv
<1> QED
  BY <1>11, <1>12, <1>13, <1>14

\* However a fetch ends, its circuit is settled and its request is tallied.
Settled(b, k, w) ==
  \E e, n : w = [budget |-> b.budget, circuit |-> k, entries |-> e, negatives |-> n, fetch |-> NoFetch]

LEMMA SettledService ==
  ASSUME NEW b, NEW k, NEW w, Settled(b, k, w), CircuitOK(k), k.probe = FALSE
  PROVE  ServiceOK(w) /\ ~w.fetch.busy
<1>1. PICK g : g = b.budget
  OBVIOUS
<1>2. PICK f : f = NoFetch
  OBVIOUS
<1>3. PICK e, n : w = [budget |-> g, circuit |-> k, entries |-> e, negatives |-> n, fetch |-> f]
  BY <1>1, <1>2 DEF Settled
<1>4. f.busy = FALSE
  BY <1>2 DEF NoFetch
<1>5. f.busy \in BOOLEAN /\ (k.probe => f.busy)
  BY <1>4
<1>6. ServiceOK(w) /\ w.fetch = f
  BY <1>3, <1>5, ServiceMade
<1> QED
  BY <1>4, <1>6

LEMMA BenchEnds ==
  ASSUME BenchInv, NEW at, NEW k, k = CircuitSuccess(bench.circuit) \/ k = CircuitFailure(bench.circuit, at),
         NEW w, Settled(bench, k, w), bench' = w, PassOK(benchPass', benchReport')
  PROVE  BenchInv'
<1>1. PICK c : c = bench.circuit
  OBVIOUS
<1>2. CircuitOK(c)
  BY <1>1 DEF BenchInv, ServiceOK
<1>3. CircuitOK(k) /\ k.probe = FALSE
  BY <1>1, <1>2, CircuitRests
<1>4. ServiceOK(w) /\ ~w.fetch.busy
  BY <1>3, SettledService
<1> QED
  BY <1>4 DEF BenchInv

LEMMA BenchFinishes ==
  ASSUME BenchInv, BenchFailed \/ BenchDropped \/ \E q \in BenchQuotes : BenchFetched(q)
  PROVE  BenchInv'
<1>1. PICK b, c, at, key : /\ b = bench /\ c = bench.circuit /\ at = bench.fetch.at
                           /\ key = BenchKey(bench.fetch.request.local)
  OBVIOUS
<1>2. PICK u, k, e, n, f :
           /\ b = [budget |-> u, circuit |-> k, entries |-> e, negatives |-> n, fetch |-> f]
           /\ CircuitOK(k) /\ b.circuit = k /\ b.fetch = f /\ f.busy \in BOOLEAN /\ (k.probe => f.busy)
  BY <1>1, ServiceParts DEF BenchInv
<1>3. b.budget = u /\ c = k
  BY <1>1, <1>2
<1>4. bench.fetch.busy
  BY DEF BenchFailed, BenchDropped, BenchFetched
<1>5. PassOK(benchPass, benchReport) /\ benchPass # <<>>
  BY <1>4 DEF BenchInv
<1>6. CASE BenchFailed
  <2>1. PICK m, d, w : /\ m = InsertNegative(n, key, "ServiceUnavailable", at)
                       /\ d = CircuitFailure(c, at) /\ w = bench'
    OBVIOUS
  <2>2. w = [b EXCEPT !.circuit = d, !.fetch = NoFetch, !.negatives = m]
    <3>1. b.negatives = n
      BY <1>2
    <3> QED
      BY <1>1, <1>6, <2>1, <3>1 DEF BenchFailed
  <2>3. w = [budget |-> u, circuit |-> d, entries |-> e, negatives |-> m, fetch |-> NoFetch]
    BY <1>2, <2>2
  <2>4. Settled(b, d, w)
    BY <1>3, <2>3 DEF Settled
  <2>5. PassOK(benchPass', benchReport')
    BY <1>5, <1>6, TallyKeeps DEF BenchFailed
  <2> QED
    BY <1>1, <2>1, <2>4, <2>5, BenchEnds
<1>7. CASE BenchDropped
  <2>1. PICK d, w : d = CircuitFailure(c, at) /\ w = bench'
    OBVIOUS
  <2>2. w = [b EXCEPT !.circuit = d, !.fetch = NoFetch]
    BY <1>1, <1>7, <2>1 DEF BenchDropped
  <2>3. w = [budget |-> u, circuit |-> d, entries |-> e, negatives |-> n, fetch |-> NoFetch]
    BY <1>2, <2>2
  <2>4. Settled(b, d, w)
    BY <1>3, <2>3 DEF Settled
  <2>5. PassOK(benchPass', benchReport')
    <3>1. benchPass' = <<>> /\ benchReport' = benchReport
      BY <1>7 DEF BenchDropped
    <3>2. PICK o, l, rep, x, y, z : /\ o = benchPass' /\ l = Len(benchPass) /\ rep = benchReport
                                    /\ x = rep.compared /\ y = rep.skipped /\ z = rep.requested
      OBVIOUS
    <3>3. o \in Seq(BenchRequests) /\ Len(o) = 0
      BY <3>1, <3>2
    <3>4. x \in Nat /\ y \in Nat /\ z \in Nat /\ x + y + l <= z /\ benchPass \in Seq(BenchRequests)
      BY <1>5, <3>2 DEF PassOK
    <3>5. l \in Nat
      BY <3>2, <3>4
    <3>6. x + y + 0 <= z
      BY <3>4, <3>5
    <3>7. PassOK(o, rep)
      BY <1>5, <3>2, <3>3, <3>4, <3>6 DEF PassOK
    <3> QED
      BY <3>1, <3>2, <3>7
  <2> QED
    BY <1>1, <2>1, <2>4, <2>5, BenchEnds
<1>8. ASSUME NEW q \in BenchQuotes, BenchFetched(q) PROVE BenchInv'
  <2>1. PassOK(benchPass', benchReport')
    BY <1>5, <1>8, TallyKeeps DEF BenchFetched
  <2>2. PICK w, d1, d2, e2, n1, n2 :
          /\ w = bench' /\ d1 = CircuitSuccess(c) /\ d2 = CircuitFailure(c, at)
          /\ e2 = InsertSuccess(e, key, [at |-> at, quote |-> q]) /\ n1 = Dropped(n, key)
          /\ n2 = InsertNegative(n, key, "MalformedResponse", at)
    OBVIOUS
  <2>3. b.entries = e /\ b.negatives = n
    BY <1>2
  <2>4. \/ w = [b EXCEPT !.circuit = d1, !.fetch = NoFetch, !.entries = e2, !.negatives = n1]
        \/ w = [b EXCEPT !.circuit = d2, !.fetch = NoFetch, !.negatives = n2]
    BY <1>1, <1>8, <2>2, <2>3 DEF BenchFetched
  <2>5. CASE w = [b EXCEPT !.circuit = d1, !.fetch = NoFetch, !.entries = e2, !.negatives = n1]
    <3>1. w = [budget |-> u, circuit |-> d1, entries |-> e2, negatives |-> n1, fetch |-> NoFetch]
      BY <1>2, <2>5
    <3>2. Settled(b, d1, w)
      BY <1>3, <3>1 DEF Settled
    <3> QED
      BY <1>1, <2>1, <2>2, <3>2, BenchEnds
  <2>6. CASE w = [b EXCEPT !.circuit = d2, !.fetch = NoFetch, !.negatives = n2]
    <3>1. w = [budget |-> u, circuit |-> d2, entries |-> e, negatives |-> n2, fetch |-> NoFetch]
      BY <1>2, <2>6
    <3>2. Settled(b, d2, w)
      BY <1>3, <3>1 DEF Settled
    <3> QED
      BY <1>1, <2>1, <2>2, <3>2, BenchEnds
  <2> QED
    BY <2>4, <2>5, <2>6
<1> QED
  BY <1>6, <1>7, <1>8

LEMMA PassStarts ==
  ASSUME BenchInv, NEW r1 \in BenchRequests, NEW r2 \in BenchRequests, BenchPassStart(<<r1, r2>>)
  PROVE  BenchInv'
<1>1. PICK s, m : s = <<r1, r2>> /\ m = Min({Len(s), MaxPerBenchPass})
  OBVIOUS
<1>2. s \in Seq(BenchRequests) /\ Len(s) = 2
  BY <1>1
<1>3. m \in Nat /\ m <= 2
  BY <1>1, <1>2, IntelAssumption, MinOfTwo
<1>4. PICK t : t = SubSeq(s, 1, m)
  OBVIOUS
<1>5. t \in Seq(BenchRequests)
  BY <1>2, <1>3, <1>4
<1>6. benchPass' = t
  BY <1>1, <1>4 DEF BenchPassStart
<1>7. PICK n, u : n = Len(t) /\ u = benchReport'
  OBVIOUS
<1>8. u = [requested |-> n, compared |-> 0, skipped |-> 0]
  BY <1>6, <1>7 DEF BenchPassStart
<1>9. n \in Nat
  BY <1>5, <1>7
<1>10. u.requested = n /\ u.compared = 0 /\ u.skipped = 0 /\ 0 + 0 + n <= n
  BY <1>8, <1>9
<1>11. PassOK(t, u)
  BY <1>5, <1>7, <1>8, <1>9, <1>10 DEF PassOK
<1>12. bench' = bench /\ ~bench.fetch.busy
  BY DEF BenchPassStart
<1> QED
  BY <1>6, <1>7, <1>11, <1>12 DEF BenchInv

LEMMA BenchStarts == BenchIdle => BenchInv
<1> SUFFICES ASSUME BenchIdle PROVE BenchInv
  OBVIOUS
<1>1. PICK k, f, u, e, b : k = NewCircuit /\ f = NoFetch /\ u = FullBudget /\ e = <<>> /\ b = bench
  OBVIOUS
<1>2. f.busy = FALSE /\ CircuitOK(k) /\ k.probe = FALSE
  BY <1>1 DEF NoFetch, NewCircuit, CircuitOK
<1>3. b = [budget |-> u, circuit |-> k, entries |-> e, negatives |-> e, fetch |-> f]
  BY <1>1 DEF BenchIdle
<1>4. ServiceOK(b) /\ b.fetch = f
  <2>1. CircuitOK(k) /\ f.busy \in BOOLEAN /\ (k.probe => f.busy)
    BY <1>2
  <2> QED
    BY <1>3, <2>1, ServiceMade
<1>5. PICK s, n, rep : s = benchPass /\ n = Len(s) /\ rep = benchReport
  OBVIOUS
<1>6. s \in Seq(BenchRequests) /\ n = 0
  BY <1>5 DEF BenchIdle
<1>7. rep = [requested |-> 0, compared |-> 0, skipped |-> 0]
  BY <1>5 DEF BenchIdle
<1>8. rep.requested = 0 /\ rep.compared = 0 /\ rep.skipped = 0
  BY <1>7
<1>9. PassOK(s, rep)
  BY <1>5, <1>6, <1>7, <1>8 DEF PassOK
<1> QED
  BY <1>1, <1>2, <1>4, <1>5, <1>9 DEF BenchInv

SnapshotOK(s) ==
  /\ s = [token |-> s.token, signals |-> s.signals, weight |-> s.weight]
  /\ s.signals \in Nat /\ s.weight \in Nat

\* A kept snapshot is of the token its key names.
EntriesOK(e) == \A key \in DOMAIN e : SnapshotOK(e[key].snapshot) /\ e[key].snapshot.token = key[1]

AnswerOK(a) ==
  a # NoAnswer =>
    /\ a.value.token = a.request.token
    /\ a.value.signals <= MaxSignals /\ a.value.weight <= MaxWeight

SocialOK(s) ==
  /\ s = [budget |-> s.budget, entries |-> s.entries, negatives |-> s.negatives, fetch |-> s.fetch,
          answer |-> s.answer]
  /\ EntriesOK(s.entries) /\ AnswerOK(s.answer)

LEMMA SocialMade ==
  ASSUME NEW u, NEW e, NEW n, NEW f, NEW a, EntriesOK(e), AnswerOK(a),
         NEW s, s = [budget |-> u, entries |-> e, negatives |-> n, fetch |-> f, answer |-> a]
  PROVE  SocialOK(s)
BY DEF SocialOK

LEMMA SocialParts ==
  ASSUME NEW s, SocialOK(s)
  PROVE  \E u, e, n, f, a :
           /\ s = [budget |-> u, entries |-> e, negatives |-> n, fetch |-> f, answer |-> a]
           /\ s.budget = u /\ s.entries = e /\ s.negatives = n /\ s.fetch = f /\ s.answer = a
           /\ EntriesOK(e) /\ AnswerOK(a)
BY DEF SocialOK

\* The bounds of the output hold of whatever the provider sent.
LEMMA SanitizedFits ==
  ASSUME NEW s, SnapshotOK(s), NEW z, z = Sanitize(s)
  PROVE  SnapshotOK(z) /\ z.token = s.token /\ z.signals <= MaxSignals /\ z.weight <= MaxWeight
<1>1. PICK t, g, w : s = [token |-> t, signals |-> g, weight |-> w] /\ g \in Nat /\ w \in Nat
  BY DEF SnapshotOK
<1>2. PICK m, n : m = Min({g, MaxSignals}) /\ n = Min({w, MaxWeight})
  OBVIOUS
<1>3. MaxSignals \in Nat /\ MaxWeight \in Nat
  BY IntelAssumption
<1>4. m \in Nat /\ n \in Nat /\ m <= MaxSignals /\ n <= MaxWeight
  BY <1>1, <1>2, <1>3, MinOfTwo
<1>5. s.signals = g /\ s.weight = w /\ s.token = t
  BY <1>1
<1>6. z = [s EXCEPT !.signals = m, !.weight = n]
  BY <1>2, <1>5 DEF Sanitize
<1>7. z = [token |-> t, signals |-> m, weight |-> n]
  BY <1>1, <1>6
<1>8. z.token = t /\ z.signals = m /\ z.weight = n
  BY <1>7
<1> QED
  BY <1>4, <1>5, <1>7, <1>8 DEF SnapshotOK

LEMMA ServedFits ==
  ASSUME NEW r, NEW state, NEW s, SnapshotOK(s), s.token = r.token, NEW a, a = Served(r, state, s)
  PROVE  AnswerOK(a)
<1>1. PICK z : z = Sanitize(s)
  OBVIOUS
<1>2. z.token = s.token /\ z.signals <= MaxSignals /\ z.weight <= MaxWeight
  BY <1>1, SanitizedFits
<1>3. a.value = z /\ a.request = r
  BY <1>1 DEF Served
<1> QED
  BY <1>2, <1>3 DEF AnswerOK

LEMMA DegradedFits ==
  ASSUME NEW r, NEW state, NEW a, a = Degraded(r, state)
  PROVE  AnswerOK(a)
<1>1. PICK v : v = [token |-> r.token, signals |-> 0, weight |-> 0]
  OBVIOUS
<1>2. v.token = r.token /\ v.signals = 0 /\ v.weight = 0
  BY <1>1
<1>3. a.value = v /\ a.request = r
  BY <1>1 DEF Degraded
<1>4. 0 <= MaxSignals /\ 0 <= MaxWeight
  BY IntelAssumption
<1> QED
  BY <1>2, <1>3, <1>4 DEF AnswerOK

LEMMA EntryIsTheTokens ==
  ASSUME NEW e, EntriesOK(e), NEW r, SocialKey(r) \in DOMAIN e
  PROVE  SnapshotOK(e[SocialKey(r)].snapshot) /\ e[SocialKey(r)].snapshot.token = r.token
<1>1. PICK key : key = SocialKey(r)
  OBVIOUS
<1>2. key[1] = r.token
  BY <1>1 DEF SocialKey
<1> QED
  BY <1>1, <1>2 DEF EntriesOK

LEMMA FallbackFits ==
  ASSUME SocialOK(social), NEW r, NEW key, key = SocialKey(r), NEW state,
         NEW a, a = SocialFallback(r, key, state)
  PROVE  AnswerOK(a)
<1>1. PICK e : e = social.entries
  OBVIOUS
<1>2. EntriesOK(e)
  BY <1>1 DEF SocialOK
<1>3. CASE key \in DOMAIN e
  <2>1. PICK s : s = e[key].snapshot
    OBVIOUS
  <2>2. SnapshotOK(s) /\ s.token = r.token
    BY <1>2, <1>3, <2>1, EntryIsTheTokens
  <2>3. a = Served(r, "StaleServed", s)
    BY <1>1, <1>3, <2>1 DEF SocialFallback, HasFallback
  <2> QED
    BY <2>2, <2>3, ServedFits
<1>4. CASE key \notin DOMAIN e
  <2>1. a = Degraded(r, state)
    BY <1>1, <1>4 DEF SocialFallback, HasFallback
  <2> QED
    BY <2>1, DegradedFits
<1> QED
  BY <1>3, <1>4

LEMMA EntriesGrow ==
  ASSUME NEW e, EntriesOK(e), NEW r, NEW s, SnapshotOK(s), s.token = r.token, NEW at,
         NEW d, d = InsertSuccess(e, SocialKey(r), [at |-> at, snapshot |-> s])
  PROVE  EntriesOK(d)
<1>1. PICK key, x : key = SocialKey(r) /\ x = [at |-> at, snapshot |-> s]
  OBVIOUS
<1>2. key[1] = r.token /\ x.snapshot = s
  BY <1>1 DEF SocialKey
<1>3. DOMAIN d = DOMAIN e \cup {key} /\ \A k \in DOMAIN d : d[k] = IF k = key THEN x ELSE e[k]
  BY <1>1 DEF InsertSuccess, Entered
<1>4. ASSUME NEW k \in DOMAIN d PROVE SnapshotOK(d[k].snapshot) /\ d[k].snapshot.token = k[1]
  <2>1. CASE k = key
    BY <1>2, <1>3, <2>1
  <2>2. CASE k # key
    BY <1>3, <1>4, <2>2 DEF EntriesOK
  <2> QED
    BY <2>1, <2>2
<1> QED
  BY <1>4 DEF EntriesOK

\* get_intelligence answers from the cache, degraded, or not yet.
LEMMA GetKeeps ==
  ASSUME SocialOK(social), NEW r, GetIntelligence(r)
  PROVE  SocialOK(social')
<1>1. PICK s, w, key, now : s = social /\ w = social' /\ key = SocialKey(r) /\ now = intelNow
  OBVIOUS
<1>2. PICK u, e, n, f, a :
           /\ s = [budget |-> u, entries |-> e, negatives |-> n, fetch |-> f, answer |-> a]
           /\ s.budget = u /\ s.entries = e /\ s.negatives = n /\ s.fetch = f /\ s.answer = a
           /\ EntriesOK(e) /\ AnswerOK(a)
  BY <1>1, SocialParts
<1>3. PICK found, u2, n2, f2 :
         /\ found = Lookup(e, n, key, now) /\ u2 = TryConsume(u, now, CostUnits[r.priority]).budget
         /\ n2 = LookedUp(n, key, now) /\ f2 = [busy |-> TRUE, request |-> r, at |-> now]
  OBVIOUS
<1>4. PICK a1, a2, a3, a4 :
         /\ a1 = Degraded(r, "Miss") /\ a2 = Served(r, "FreshHit", e[key].snapshot)
         /\ a3 = SocialFallback(r, key, "NegativeHit") /\ a4 = SocialFallback(r, key, "Miss")
  OBVIOUS
<1>5. AnswerOK(a1) /\ AnswerOK(a3) /\ AnswerOK(a4)
  BY <1>1, <1>4, DegradedFits, FallbackFits
<1>6. found = "Fresh" => AnswerOK(a2)
  <2>1. SUFFICES ASSUME found = "Fresh" PROVE AnswerOK(a2)
    OBVIOUS
  <2>2. key \in DOMAIN e
    BY <1>3, <2>1 DEF Lookup
  <2>3. PICK p : p = e[key].snapshot
    OBVIOUS
  <2>4. SnapshotOK(p) /\ p.token = r.token
    BY <1>1, <1>2, <2>2, <2>3, EntryIsTheTokens
  <2> QED
    BY <1>4, <2>3, <2>4, ServedFits
<1>7. \/ w = [s EXCEPT !.answer = a1]
      \/ found = "Fresh" /\ w = [s EXCEPT !.negatives = n2, !.answer = a2]
      \/ w = [s EXCEPT !.answer = a3]
      \/ w = [s EXCEPT !.negatives = n2, !.budget = u2, !.fetch = f2]
      \/ w = [s EXCEPT !.negatives = n2, !.budget = u2, !.answer = a4]
  BY <1>1, <1>2, <1>3, <1>4 DEF GetIntelligence
<1>8. CASE w = [s EXCEPT !.answer = a1]
  <2>1. w = [budget |-> u, entries |-> e, negatives |-> n, fetch |-> f, answer |-> a1]
    BY <1>2, <1>8
  <2> QED
    BY <1>1, <1>2, <1>5, <2>1, SocialMade
<1>9. CASE found = "Fresh" /\ w = [s EXCEPT !.negatives = n2, !.answer = a2]
  <2>1. w = [budget |-> u, entries |-> e, negatives |-> n2, fetch |-> f, answer |-> a2]
    BY <1>2, <1>9
  <2> QED
    BY <1>1, <1>2, <1>6, <1>9, <2>1, SocialMade
<1>10. CASE w = [s EXCEPT !.answer = a3]
  <2>1. w = [budget |-> u, entries |-> e, negatives |-> n, fetch |-> f, answer |-> a3]
    BY <1>2, <1>10
  <2> QED
    BY <1>1, <1>2, <1>5, <2>1, SocialMade
<1>11. CASE w = [s EXCEPT !.negatives = n2, !.budget = u2, !.fetch = f2]
  <2>1. w = [budget |-> u2, entries |-> e, negatives |-> n2, fetch |-> f2, answer |-> a]
    BY <1>2, <1>11
  <2> QED
    BY <1>1, <1>2, <2>1, SocialMade
<1>12. CASE w = [s EXCEPT !.negatives = n2, !.budget = u2, !.answer = a4]
  <2>1. w = [budget |-> u2, entries |-> e, negatives |-> n2, fetch |-> f, answer |-> a4]
    BY <1>2, <1>12
  <2> QED
    BY <1>1, <1>2, <1>5, <2>1, SocialMade
<1> QED
  BY <1>7, <1>8, <1>9, <1>10, <1>11, <1>12

LEMMA FetchedKeeps ==
  ASSUME SocialOK(social), SocialFailed \/ \E p \in SocialSnapshots : SocialFetched(p)
  PROVE  SocialOK(social')
<1>1. PICK s, w, r, key, at : /\ s = social /\ w = social' /\ r = social.fetch.request
                              /\ key = SocialKey(r) /\ at = social.fetch.at
  OBVIOUS
<1>2. PICK u, e, n, f, a :
           /\ s = [budget |-> u, entries |-> e, negatives |-> n, fetch |-> f, answer |-> a]
           /\ s.budget = u /\ s.entries = e /\ s.negatives = n /\ s.fetch = f /\ s.answer = a
           /\ EntriesOK(e) /\ AnswerOK(a)
  BY <1>1, SocialParts
<1>3. PICK n1, n2, f2, a2 :
         /\ n1 = Dropped(n, key) /\ n2 = InsertNegative(n, key, "ServiceUnavailable", at)
         /\ f2 = NoFetch /\ a2 = SocialFallback(r, key, "NegativeHit")
  OBVIOUS
<1>4. AnswerOK(a2)
  BY <1>1, <1>3, FallbackFits
<1>5. CASE w = [s EXCEPT !.fetch = f2, !.negatives = n2, !.answer = a2]
  <2>1. w = [budget |-> u, entries |-> e, negatives |-> n2, fetch |-> f2, answer |-> a2]
    BY <1>2, <1>5
  <2> QED
    BY <1>1, <1>2, <1>4, <2>1, SocialMade
<1>6. CASE SocialFailed
  <2>1. w = [s EXCEPT !.fetch = f2, !.negatives = n2, !.answer = a2]
    BY <1>1, <1>2, <1>3, <1>6 DEF SocialFailed
  <2> QED
    BY <1>5, <2>1
<1>7. ASSUME NEW p \in SocialSnapshots, SocialFetched(p) PROVE SocialOK(social')
  <2>1. SnapshotOK(p)
    BY IntelAssumption DEF SnapshotOK
  <2>2. PICK z, e2, a1 : /\ z = Sanitize(p) /\ a1 = Served(r, "Miss", p)
                         /\ e2 = InsertSuccess(e, key, [at |-> at, snapshot |-> z])
    OBVIOUS
  <2>3. \/ p.token = r.token /\ w = [s EXCEPT !.fetch = f2, !.entries = e2, !.negatives = n1, !.answer = a1]
        \/ w = [s EXCEPT !.fetch = f2, !.negatives = n2, !.answer = a2]
    BY <1>1, <1>2, <1>3, <1>7, <2>2 DEF SocialFetched, AboutTheToken
  <2>4. CASE p.token = r.token /\ w = [s EXCEPT !.fetch = f2, !.entries = e2, !.negatives = n1, !.answer = a1]
    <3>1. SnapshotOK(z) /\ z.token = r.token
      BY <2>1, <2>2, <2>4, SanitizedFits
    <3>2. EntriesOK(e2)
      BY <1>1, <1>2, <2>2, <3>1, EntriesGrow
    <3>3. AnswerOK(a1)
      BY <2>1, <2>2, <2>4, ServedFits
    <3>4. w = [budget |-> u, entries |-> e2, negatives |-> n1, fetch |-> f2, answer |-> a1]
      BY <1>2, <2>4
    <3> QED
      BY <1>1, <3>2, <3>3, <3>4, SocialMade
  <2> QED
    BY <1>5, <2>3, <2>4
<1> QED
  BY <1>6, <1>7

IntelInv == BenchInv /\ SocialOK(social)

\* A denied or dropped fetch strands no probe of the benchmark (ProbeGuard), a pass reports only what
\* it took, and social answers are of the token asked for and within bounds, for every policy.
THEOREM IntelKept == IntelSpec => []IntelKeepsItsPromises
<1>1. IntelInit => IntelInv
  <2> SUFFICES ASSUME IntelInit PROVE IntelInv
    OBVIOUS
  <2>1. BenchInv
    BY BenchStarts DEF IntelInit
  <2>2. PICK u, e, f, a, s : u = FullBudget /\ e = <<>> /\ f = NoFetch /\ a = NoAnswer /\ s = social
    OBVIOUS
  <2>3. DOMAIN e = {}
    BY <2>2
  <2>4. EntriesOK(e) /\ AnswerOK(a)
    BY <2>2, <2>3 DEF EntriesOK, AnswerOK
  <2>5. s = [budget |-> u, entries |-> e, negatives |-> e, fetch |-> f, answer |-> a]
    BY <2>2 DEF IntelInit, SocialIdle
  <2>6. SocialOK(s)
    BY <2>4, <2>5, SocialMade
  <2> QED
    BY <2>1, <2>2, <2>6 DEF IntelInv
<1>2. IntelInv /\ [BenchNext \/ SocialNext]_intelVars => IntelInv'
  <2> SUFFICES ASSUME IntelInv, [BenchNext \/ SocialNext]_intelVars PROVE IntelInv'
    OBVIOUS
  <2>1. CASE UNCHANGED <<bench, benchPass, benchReport, social>>
    BY <2>1 DEF IntelInv, BenchInv
  <2>2. CASE BenchInv' /\ UNCHANGED social
    BY <2>2 DEF IntelInv
  <2>3. CASE SocialOK(social') /\ UNCHANGED <<bench, benchPass, benchReport>>
    BY <2>3 DEF IntelInv, BenchInv
  <2>4. ASSUME NEW r1 \in BenchRequests, NEW r2 \in BenchRequests, BenchPassStart(<<r1, r2>>)
        PROVE  BenchInv' /\ UNCHANGED social
    <3>1. BenchInv'
      BY <2>4, PassStarts DEF IntelInv
    <3> QED
      BY <2>4, <3>1 DEF BenchPassStart
  <2>5. CASE Benchmark
    <3>1. BenchInv'
      BY <2>5, BenchmarkKeeps DEF IntelInv
    <3> QED
      BY <2>2, <2>5, <3>1 DEF Benchmark
  <2>6. CASE BenchFailed \/ BenchDropped \/ \E q \in BenchQuotes : BenchFetched(q)
    <3>1. BenchInv'
      BY <2>6, BenchFinishes DEF IntelInv
    <3>2. UNCHANGED social
      BY <2>6 DEF BenchFailed, BenchDropped, BenchFetched
    <3> QED
      BY <2>2, <3>1, <3>2
  <2>7. CASE \E r \in SocialRequests : GetIntelligence(r)
    <3>1. SocialOK(social')
      BY <2>7, GetKeeps DEF IntelInv
    <3> QED
      BY <2>3, <2>7, <3>1 DEF GetIntelligence
  <2>8. CASE SocialFailed \/ \E p \in SocialSnapshots : SocialFetched(p)
    <3>1. SocialOK(social')
      BY <2>8, FetchedKeeps DEF IntelInv
    <3>2. UNCHANGED <<bench, benchPass, benchReport>>
      BY <2>8 DEF SocialFailed, SocialFetched
    <3> QED
      BY <2>3, <3>1, <3>2
  <2>9. CASE IntelTick
    BY <2>1, <2>9 DEF IntelTick
  <2>10. CASE UNCHANGED intelVars
    BY <2>1, <2>10 DEF intelVars
  <2> QED
    BY <2>2, <2>4, <2>5, <2>6, <2>7, <2>8, <2>9, <2>10 DEF BenchNext, SocialNext
<1>3. IntelInv => IntelKeepsItsPromises
  <2> SUFFICES ASSUME IntelInv PROVE IntelKeepsItsPromises
    OBVIOUS
  <2>1. bench.circuit.probe => bench.fetch.busy
    BY DEF IntelInv, BenchInv, ServiceOK
  <2>2. benchReport.compared + benchReport.skipped <= benchReport.requested
    <3>1. PICK x, y, z, l : /\ x = benchReport.compared /\ y = benchReport.skipped
                            /\ z = benchReport.requested /\ l = Len(benchPass)
      OBVIOUS
    <3>2. /\ x \in Nat /\ y \in Nat /\ z \in Nat /\ x + y + l <= z
          /\ benchPass \in Seq(BenchRequests)
      BY <3>1 DEF IntelInv, BenchInv, PassOK
    <3>3. l \in Nat
      BY <3>1, <3>2
    <3>4. x + y <= z
      BY <3>2, <3>3
    <3> QED
      BY <3>1, <3>4
  <2>3. SocialAnswersBound
    BY DEF IntelInv, SocialOK, AnswerOK, SocialAnswersBound
  <2> QED
    BY <2>1, <2>2, <2>3 DEF IntelKeepsItsPromises, BenchmarkProbeResolves
<1> QED
  BY <1>1, <1>2, <1>3, PTL DEF IntelSpec

\* The provider broker and the two services on it keep their promises for every number of callers,
\* every policy and every answer of a provider, when no future of a leader is dropped while it
\* fetches.
THEOREM ProvidersKept ==
  ASSUME Cancellation = FALSE
  PROVE  BrokerSpec /\ IntelSpec => []ProvidersKeepTheirPromises
<1>1. BrokerSpec => []BrokerKeepsItsPromises
  BY BrokerKept
<1>2. BrokerKeepsItsPromises /\ IntelKeepsItsPromises => ProvidersKeepTheirPromises
  BY DEF ProvidersKeepTheirPromises
<1> QED
  BY <1>1, <1>2, IntelKept, PTL
=============================================================================
