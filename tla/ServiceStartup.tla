---------------------------- MODULE ServiceStartup ----------------------------
(***************************************************************************)
(* How the private API comes up (apps/private-api/src/main.rs with         *)
(* trading.rs, live.rs, production.rs) and what it answers on /ready while *)
(* it serves (lib.rs, release.rs, hardened_file.rs).                       *)
(*                                                                         *)
(* `env` is the process environment, one field per group of variables;     *)
(* `disk` holds the release manifest and the workspace artifact, which an  *)
(* operator may swap under the running process.  Everything main awaits    *)
(* (the database, the chain, the signer, the payload source, the bridge)   *)
(* answers in the actions' parameters.  A file is [state, shape, header,   *)
(* sha]; two artifacts may share a header.                                 *)
(***************************************************************************)
EXTENDS Integers, FiniteSets

CONSTANTS
  StartEnvs,      \* environments the process is started in
  Artifacts,      \* artifact files, [state, shape, header, sha]
  Manifests,      \* manifest files, [state, shape, header, sha]
  MovingFlags     \* bound: the flags that change while it serves

VARIABLES
  phase,    \* how far main got
  env,      \* the environment of this start
  disk,     \* [manifest, artifact]: a file's content or how it cannot be read
  seams,    \* TradingSeams and live_execution: what the start has proven
  document, \* the fixed bootstrap document
  flags,    \* the readiness flags /ready loads
  verified,   \* verified_artifact: what it cached at start
  probe     \* the /ready call in progress and the last answer

startVars == <<phase, env, disk, seams, document, flags, verified, probe>>

-----------------------------------------------------------------------------
(* Strict parsing of switches.                                             *)

\* strict_bool_env, TradingGate::parse and parse_live_opt_in: unset is off,
\* exactly one spelling is on, anything else aborts the start.
Switch(raw, on, off) ==
  CASE raw \in {"unset", off} -> "off" [] raw = on -> "on" [] OTHER -> "abort"

TradingGate(e) == Switch(e.trading, "true", "false")
LiveOptIn(e) == Switch(e.live, "1", "0")

\* release_manifest_policy
ManifestPolicyAborts(e) ==
  \/ e.manifest = "blank"
  \/ Switch(e.allow_no_manifest, "true", "false") = "abort"
  \/ e.manifest = "unset" /\ Switch(e.allow_no_manifest, "true", "false") = "off"

\* An opt-in that lacks an endpoint aborts (LiveWiring::partial).
EndpointsPresent(e) == e.dsn /\ e.rpc /\ e.privy
LivePartial(e) == LiveOptIn(e) = "on" /\ ~EndpointsPresent(e)
DurableStoreConfigured(e) == LiveOptIn(e) = "on" /\ e.dsn

\* The passkey store, its enrolment options and the recovery store.
StoresAbort(e) ==
  \/ e.passkeys = "invalid" \/ e.recovery = "invalid"
  \/ e.passkeys = "unset" /\ e.enrolment

\* resolve_live_transport_config: FALSE leaves the live path unbuilt, a secret
\* file that cannot be trusted aborts.
TransportsConfigured(e) ==
  LiveOptIn(e) = "on" /\ e.rpc /\ e.privy /\ e.token = "present" /\ e.payload
TransportsAbort(e) == LiveOptIn(e) = "on" /\ e.rpc /\ e.privy /\ e.token = "untrusted"

\* optional_fomo_market_config: any bridge variable requires the URL and a
\* trusted key file, and targets and intervals within their ranges.
BridgeAborts(e) == e.fomo = "partial"

\* resolve_relay_config: the five relay variables come together or not at all.
RelayAborts(e) == e.relay \in {"partial", "remote"}

-----------------------------------------------------------------------------
(* The live transports.  A reply is what the HTTP exchange came to.        *)

\* validated_endpoint: plain HTTP to a loopback host, no credentials or query.
ValidatedEndpoint(host) == host = "loopback"

\* build_live_transports: one unusable endpoint leaves all three unbuilt.
TransportsBuilt(e) == ValidatedEndpoint(e.host)

\* JsonHttpTransport::request
HttpResult(reply) ==
  CASE reply = "timeout" -> "Timeout" [] reply = "client error" -> "Rejected"
    [] reply \in {"oversized", "not json"} -> "InvalidResponse"
    [] reply \in {"unreachable", "server error"} -> "Unavailable"
    [] OTHER -> "Ok"

\* EvmRpcChainTransport::rpc and chain_id: an error member or a missing or
\* malformed result is no answer.
RpcResult(reply) ==
  IF HttpResult(reply) # "Ok" THEN HttpResult(reply)
  ELSE IF reply = "rpc error" THEN "Rejected"
  ELSE IF reply = "no result" THEN "InvalidResponse" ELSE "Ok"

\* probe_live_transports: only Base itself proves the chain; any 2xx JSON of
\* /health proves the signer and the payload source.
ProbeLiveTransports(chain, signer, payload) ==
  [chain |-> RpcResult(chain) = "Ok" /\ chain = "base",
   signer |-> HttpResult(signer) = "Ok",
   payload |-> HttpResult(payload) = "Ok"]

-----------------------------------------------------------------------------
(* The manifest and the artifact.                                          *)

Nothing(why) == [state |-> why, shape |-> FALSE, header |-> 0, sha |-> 0]

\* A trust file opens only as a regular file of a trusted owner, unwritable by
\* others, that did not change while it was opened.
OpenHardened(file) == file.state \notin {"absent", "link", "writable", "foreign"}

\* load_release_manifest_from_env
LoadManifest ==
  IF env.manifest = "unset" THEN Nothing("none")
  ELSE IF ~OpenHardened(disk.manifest) \/ disk.manifest.state = "garbage"
       THEN Nothing("invalid")
  ELSE disk.manifest

\* parse_artifact_header
HeaderParses(a) == a.state = "ok" /\ a.header # 0

\* validate_shape: version, identifiers, package format, protocol range, digests.
ManifestShape(m) == m.shape

\* validate_header_against / validate_against
ManifestHeaderFits(m, a) == ManifestShape(m) /\ m.header = a.header
ManifestFits(m, a) == ManifestHeaderFits(m, a) /\ m.sha = a.sha

\* compute_verified_artifact
ComputeVerified ==
  IF \/ LoadManifest.state = "invalid"
     \/ ~HeaderParses(disk.artifact)
     \/ LoadManifest.state = "ok" /\ ~ManifestFits(LoadManifest, disk.artifact)
  THEN Nothing("unavailable") ELSE disk.artifact

-----------------------------------------------------------------------------
(* Capabilities.                                                           *)

Mutating == {"execute", "limits", "wallet_limits", "twap", "rfq", "withdraw"}

NoSeams == [store |-> "none", chain |-> FALSE, signer |-> FALSE, market |-> FALSE,
            chart |-> FALSE, intel |-> FALSE, stream |-> "none", live |-> FALSE]

\* ExecutionCapability::prove and CapabilityReadiness
ExecutionProven(gate, s) == gate = "on" /\ s.store = "healthy" /\ s.chain /\ s.signer
Proven(gate, s) ==
  (IF s.market THEN {"market"} ELSE {})
  \cup (IF s.stream = "healthy" THEN {"realtime"} ELSE {})
  \cup (IF ExecutionProven(gate, s) THEN {"execute"} ELSE {})

\* build_opaque: what of the wired capabilities the start may advertise.  No
\* limit probe is ever taken, so limits are never proven.
Advertised(gate, s, dispatcher, stream, wired) ==
  LET kept == (IF dispatcher THEN wired ELSE wired \cap {"realtime"})
                \ (IF stream THEN {} ELSE {"realtime"})
  IN  {c \in kept :
         /\ c \in {"market", "realtime"} => c \in Proven(gate, s)
         /\ c \in Mutating => "execute" \in Proven(gate, s)
         /\ c # "limits"}

\* document_for
DocumentFor(gate, caps) ==
  [capabilities |-> caps,
   trading |-> gate = "on" /\ caps \cap Mutating # {},
   reason |-> IF gate = "off" THEN "disabled"
              ELSE IF caps \cap Mutating = {} THEN "unwired" ELSE "none"]

\* What main itself wires: only the bridge's reads.
WiredByMain(s) ==
  (IF s.market THEN {"market"} ELSE {}) \cup (IF s.chart THEN {"chart"} ELSE {})
  \cup (IF s.intel THEN {"token_intelligence"} ELSE {})
  \cup (IF s.stream # "none" THEN {"realtime"} ELSE {})

-----------------------------------------------------------------------------
(* The start.                                                              *)

NoDocument == DocumentFor("off", {})
NoFlags == [relay |-> FALSE, stream |-> FALSE, chart |-> FALSE, market |-> FALSE, intel |-> FALSE]
NoProbe == [step |-> "none", ready |-> FALSE]

Exit == phase' = "exited" /\ UNCHANGED <<seams, document, flags, verified, probe>>

StartupInit ==
  /\ phase = "configuring" /\ env \in StartEnvs
  /\ disk \in [manifest : Manifests, artifact : Artifacts]
  /\ seams = NoSeams /\ document = NoDocument /\ flags = NoFlags
  /\ verified = Nothing("none") /\ probe = NoProbe

\* main up to the first await.
Configure ==
  /\ phase = "configuring"
  /\ IF \/ ManifestPolicyAborts(env) \/ StoresAbort(env)
        \/ TradingGate(env) = "abort" \/ LiveOptIn(env) = "abort" \/ LivePartial(env)
     THEN Exit
     ELSE /\ phase' = "store" /\ UNCHANGED <<seams, document, flags, verified, probe>>
  /\ UNCHANGED <<env, disk>>

\* connect_durable_attempt_store under its timeout: a failed connect aborts, a
\* failed health query leaves an unhealthy store.
ConnectStore(outcome) ==
  /\ phase = "store"
  /\ IF ~DurableStoreConfigured(env)
     THEN phase' = "live" /\ UNCHANGED <<seams, document, flags, verified, probe>>
     ELSE IF outcome = "error" THEN Exit
     ELSE /\ phase' = "live" /\ seams' = [seams EXCEPT !.store = outcome]
          /\ UNCHANGED <<document, flags, verified, probe>>
  /\ UNCHANGED <<env, disk>>

\* build_live_execution: the relay over proven transports, under a policy whose
\* limits are constants of the build and whose switch is the gate.
LiveExecution(p) == p.chain /\ p.signer /\ p.payload

\* The live transports are built and probed only over a healthy store; an
\* unusable endpoint leaves them unbuilt.
ProbeLive(chain, signer, payload) ==
  LET p == ProbeLiveTransports(chain, signer, payload) IN
  /\ phase = "live"
  /\ IF TransportsAbort(env) THEN Exit
     ELSE /\ phase' = "bridge"
          /\ seams' = IF TransportsConfigured(env) /\ seams.store = "healthy"
                         /\ TransportsBuilt(env)
                      THEN [seams EXCEPT !.chain = p.chain, !.signer = p.signer,
                                         !.live = LiveExecution(p)]
                      ELSE seams
          /\ UNCHANGED <<document, flags, verified, probe>>
  /\ UNCHANGED <<env, disk>>

\* The bridge's reads are probed one after the other.
ProbeBridge(chart, market, intel, stream) ==
  /\ phase = "bridge"
  /\ IF BridgeAborts(env) THEN Exit
     ELSE /\ phase' = "composing"
          /\ IF env.fomo = "unset" THEN UNCHANGED <<seams, flags>>
             ELSE /\ seams' = [seams EXCEPT !.chart = chart, !.market = market, !.intel = intel,
                                 !.stream = IF ~env.stream_target THEN "none"
                                            ELSE IF stream THEN "healthy" ELSE "unhealthy"]
                  /\ flags' = [flags EXCEPT !.chart = chart, !.market = market, !.intel = intel,
                                            !.stream = env.stream_target /\ stream]
          /\ UNCHANGED <<document, verified, probe>>
  /\ UNCHANGED <<env, disk>>

\* build_opaque, the relay listener, and warm_artifact_readiness before serving.
Compose ==
  /\ phase = "composing"
  /\ IF RelayAborts(env) THEN Exit
     ELSE /\ phase' = "serving"
          /\ document' = DocumentFor(TradingGate(env),
                           Advertised(TradingGate(env), seams, env.fomo # "unset",
                                      seams.stream # "none", WiredByMain(seams)))
          /\ flags' = [flags EXCEPT !.relay = env.relay = "full"]
          /\ verified' = ComputeVerified
          /\ UNCHANGED <<seams, probe>>
  /\ UNCHANGED <<env, disk>>

\* The supervisor starts the process again, in any environment.
Restart ==
  /\ phase \in {"exited", "serving"}
  /\ phase' = "configuring" /\ env' \in StartEnvs
  /\ seams' = NoSeams /\ document' = NoDocument /\ flags' = NoFlags
  /\ verified' = Nothing("none") /\ probe' = NoProbe
  /\ UNCHANGED disk

-----------------------------------------------------------------------------
(* Serving.                                                                *)

\* The relay task ends (ReadinessGuard), a read or the stream fails or works.
FlagChanges(f, value) ==
  /\ phase = "serving" /\ flags[f] # value
  /\ f = "relay" => ~value /\ env.relay = "full"
  /\ f # "relay" => env.fomo # "unset"
  /\ flags' = [flags EXCEPT ![f] = value]
  /\ UNCHANGED <<phase, env, disk, seams, document, verified, probe>>

\* An operator replaces a file.
Replace(file, content) ==
  /\ phase = "serving"
  /\ disk' = [disk EXCEPT ![file] = content]
  /\ UNCHANGED <<phase, env, seams, document, flags, verified, probe>>

\* /ready loads the manifest afresh on every call ...
ReadyBegin ==
  /\ phase = "serving" /\ probe.step = "none"
  /\ probe' = [step |-> "loaded", ready |-> FALSE, manifest |-> LoadManifest,
               seen |-> LoadManifest]
  /\ UNCHANGED <<phase, env, disk, seams, document, flags, verified>>

\* ... and holds it against the artifact verified at start.
ReleaseVerified(manifest) ==
  /\ verified.state = "ok"
  /\ manifest.state = "ok"
  /\ ManifestFits(manifest, verified)

\* readiness: every required part, as its flag stands now.
Ready(manifest) ==
  /\ ReleaseVerified(manifest)
  /\ env.relay = "full" => flags.relay
  /\ seams.stream # "none" => flags.stream
  /\ env.fomo # "unset" => flags.chart /\ flags.market /\ flags.intel
  /\ LiveOptIn(env) = "on" => seams.live
  /\ env.passkeys = "valid"

ReadyAnswer ==
  /\ probe.step = "loaded"
  /\ probe' = [probe EXCEPT !.step = "answered", !.ready = Ready(probe.manifest)]
  /\ UNCHANGED <<phase, env, disk, seams, document, flags, verified>>

ReadyDone ==
  /\ probe.step = "answered"
  /\ probe' = NoProbe
  /\ UNCHANGED <<phase, env, disk, seams, document, flags, verified>>

ChainReplies == {"base", "other chain", "rpc error", "client error", "oversized"}

StartupNext ==
  \/ Configure
  \/ \E o \in {"healthy", "unhealthy", "error"} : ConnectStore(o)
  \/ \E c \in ChainReplies, s, p \in {"ok", "timeout"} : ProbeLive(c, s, p)
  \/ \E c, m, i, s \in BOOLEAN : ProbeBridge(c, m, i, s)
  \/ Compose \/ Restart
  \/ \E f \in MovingFlags, v \in BOOLEAN : FlagChanges(f, v)
  \/ \E m \in Manifests : Replace("manifest", m)
  \/ \E a \in Artifacts : Replace("artifact", a)
  \/ ReadyBegin \/ ReadyAnswer \/ ReadyDone

StartSpec == StartupInit /\ [][StartupNext]_startVars

-----------------------------------------------------------------------------
(* Properties.                                                             *)

\* /ready (lib.rs): an instance that says it is ready was composed from a valid
\* passkey store, built its live path if it was opted in, and the manifest
\* that was on disk when this probe began describes, digest included, the
\* artifact verified at start, however the files were swapped meanwhile.
ReadyIsEarned ==
  probe.step = "answered" /\ probe.ready =>
    /\ probe.seen.state = "ok"
    /\ verified.state = "ok"
    /\ ManifestFits(probe.seen, verified)
    /\ LiveOptIn(env) = "on" => seams.live /\ seams.store = "healthy"

\* build_opaque over whatever a composition wires: trading is never advertised
\* unless the gate is on and the store, chain and signer were proven in this
\* start; a denied start always gives its reason.
TradingIsProven ==
  phase = "serving" =>
    \A wired \in SUBSET {"market", "execute", "limits", "withdraw"}, d \in BOOLEAN :
      LET gate == TradingGate(env)
          doc == DocumentFor(gate, Advertised(gate, seams, d, seams.stream # "none", wired))
      IN  /\ doc.trading => /\ LiveOptIn(env) = "on" /\ TradingGate(env) = "on"
                            /\ seams.store = "healthy" /\ seams.chain /\ seams.signer
          /\ doc.trading <=> doc.reason = "none"
          /\ "market" \in doc.capabilities => seams.market

StartupIsHonest == ReadyIsEarned /\ TradingIsProven
=============================================================================
