---------------------------- MODULE ExecutionRelay ----------------------------
(***************************************************************************)
(* execution-relay's ExecutionRelay over a durable attempt store (the      *)
(* Postgres table execution_attempts) and a chain.  An execute() call      *)
(* claims its idempotency key, signs once, persists the bound submission   *)
(* and submits at most once; reconcile() only reads the chain.             *)
(*                                                                         *)
(* A call advances from one await to the next: pc[c] names the await it is *)
(* suspended at, and everything the code does until the next await belongs *)
(* to the same action.  At any await the future may be cancelled and the   *)
(* process may crash; a store write may fail, before or after it applied.  *)
(***************************************************************************)
EXTENDS Integers, TLC

CONSTANTS
    Keys,               \* attempt identities (owner, workspace, idempotency key)
    Digests,            \* request digests a caller may bind to a key
    Calls,              \* execute() invocations, each used once
    Readers,            \* concurrent reconcile() loops
    ChainThreshold,     \* failure_threshold of the chain-health breaker
    SignThreshold,      \* failure_threshold of the signing-failure breaker
    CooldownMs,         \* cooldown of both breakers
    MaxFailures,        \* bound: saturation of the failure counters
    MaxNow,             \* bound: last instant of the clock
    MaxFaults,          \* bound: store operations that fail
    MaxCrashes          \* bound: process restarts

ASSUME BoundsAssumption ==
    /\ MaxNow \in Nat
    /\ MaxFaults \in Nat
    /\ MaxCrashes \in Nat

ASSUME BreakersAssumption ==
    /\ ChainThreshold \in Nat \ {0}
    /\ SignThreshold \in Nat \ {0}
    /\ CooldownMs \in Nat
    /\ MaxFailures \in Nat
    /\ ChainThreshold <= MaxFailures
    /\ SignThreshold <= MaxFailures

CB == INSTANCE BreakerOps WITH FailureThreshold <- ChainThreshold
SB == INSTANCE BreakerOps WITH FailureThreshold <- SignThreshold

VARIABLES
    rows,           \* durable: the attempt row of every key
    journal,        \* process: keys whose SubmitRequest is cached
    chainBreaker,   \* process: the chain-health breaker entry
    signBreaker,    \* process: the signing-failure breaker entry
    enabled,        \* process: the live kill switch
    pc,             \* the await each call is suspended at
    req,            \* the input of each call: key, digest, now_ms
    probe,          \* whether the guard a call holds consumed a probe
    result,         \* what a call returned, or is about to return
    rpc, rkey,      \* the await and the key of each reconcile loop
    rresult,        \* the result of its last completed reconcile
    signatures,     \* signing requests sent to the signer, per key
    broadcasts,     \* transactions handed to the chain, per key
    chain,          \* external: what became of the transaction of a key
    now, faults, crashes

procVars  == <<journal, chainBreaker, signBreaker, enabled>>
callVars  == <<pc, req, probe, result>>
readVars  == <<rpc, rkey, rresult>>
chainVars == <<signatures, broadcasts, chain>>
envVars   == <<now, crashes>>
vars == <<rows, journal, chainBreaker, signBreaker, enabled, pc, req, probe, result,
          rpc, rkey, rresult, signatures, broadcasts, chain, now, faults, crashes>>

-----------------------------------------------------------------------------
(* The attempt row and the results of the API *)

Terminal == {"CONFIRMED", "REJECTED", "FAILED_BEFORE_SUBMIT"}

AttemptStatus == {"RESERVED", "SIGN_REQUESTED", "SIGNED", "SUBMISSION_UNKNOWN",
                  "SUBMITTED"} \cup Terminal

\* submission: payload, payload digest and signed reference are all stored.
\* evidence: the observed amounts (net_input, net_output) are stored.
NoRow == [status |-> "NONE", digest |-> "none", submission |-> FALSE, evidence |-> FALSE]

Outcomes == {"Reserved", "Signed", "Submitted", "Unknown", "ConfirmedWithFill",
             "ConfirmedNoFill", "Rejected", "FailedBeforeSubmit"}

PreSendErrors == {"TradingDisabled", "ChainHealthUnavailable", "SigningUnavailable",
                  "SigningFailed", "SigningRequestMismatch", "MissingSignedPayload",
                  "SignedPayloadDigestMismatch", "ReservationUnavailable",
                  "StoreUnavailable", "IdempotencyConflict"}

Errors == PreSendErrors \cup {"AdapterUnavailable", "InvalidTransition"}

Results == Outcomes \cup Errors

\* RelayOutcome::attempt_status
StatusOf(outcome) ==
    CASE outcome = "Reserved"           -> "RESERVED"
      [] outcome = "Signed"             -> "SIGNED"
      [] outcome = "Submitted"          -> "SUBMITTED"
      [] outcome = "Unknown"            -> "SUBMISSION_UNKNOWN"
      [] outcome \in {"ConfirmedWithFill", "ConfirmedNoFill"} -> "CONFIRMED"
      [] outcome = "Rejected"           -> "REJECTED"
      [] outcome = "FailedBeforeSubmit" -> "FAILED_BEFORE_SUBMIT"

\* decode_existing_outcome
DecodeOutcome(row) ==
    CASE row.status \in {"RESERVED", "SIGN_REQUESTED"} -> "Reserved"
      [] row.status = "SIGNED"               -> "Signed"
      [] row.status = "SUBMITTED"            -> "Submitted"
      [] row.status = "SUBMISSION_UNKNOWN"   -> "Unknown"
      [] row.status = "CONFIRMED"            -> IF row.evidence THEN "ConfirmedWithFill"
                                                                ELSE "ConfirmedNoFill"
      [] row.status = "REJECTED"             -> "Rejected"
      [] row.status = "FAILED_BEFORE_SUBMIT" -> "FailedBeforeSubmit"

\* Mutant: an outcome of unknown fate is taken for a failure before the submit.
MapOutcomeOptimistically(res) ==
    CASE res = "ConfirmedWithFill" -> "Filled"
      [] res = "Rejected"          -> "Rejected"
      [] OTHER                     -> "FailedBeforeSubmit"

\* The limit engine's reading of a relay result (executor.rs, map_outcome).
MapOutcome(res) ==
    CASE res = "ConfirmedWithFill" -> "Filled"
      [] res = "Rejected"          -> "Rejected"
      [] res \in PreSendErrors \cup {"FailedBeforeSubmit"} -> "FailedBeforeSubmit"
      [] OTHER                     -> "Unknown"

-----------------------------------------------------------------------------
(* Store operations: the row an UPDATE leaves, given that its WHERE matches *)

Matches(k, d, statuses) == rows[k].digest = d /\ rows[k].status \in statuses

RowReserved(d) == [status |-> "RESERVED", digest |-> d,
                   submission |-> FALSE, evidence |-> FALSE]

RowWithStatus(row, status) ==
    [status     |-> status,
     digest     |-> row.digest,
     submission |-> row.submission,
     evidence   |-> row.evidence]

RowWithOutcome(row, outcome) ==
    [status     |-> StatusOf(outcome),
     digest     |-> row.digest,
     submission |-> row.submission,
     evidence   |-> outcome = "ConfirmedWithFill"]

RowWithSubmission(row) ==
    [status     |-> "SUBMISSION_UNKNOWN",
     digest     |-> row.digest,
     submission |-> TRUE,
     evidence   |-> row.evidence]

\* Mutant: the UPDATE without its "status NOT IN (terminal)" predicate.
OutcomeUnguarded(k, d, outcome) ==
    IF rows[k].digest = d
    THEN [rows EXCEPT ![k] = RowWithOutcome(@, outcome)]
    ELSE rows

\* record_outcome: a terminal row is left as it is.
OutcomeRecorded(k, d, outcome) ==
    IF Matches(k, d, AttemptStatus \ Terminal)
    THEN [rows EXCEPT ![k] = RowWithOutcome(@, outcome)]
    ELSE rows

\* A store write that yields newRows is acknowledged; or it fails after it was
\* applied, or before.
Acked(newRows) == rows' = newRows /\ UNCHANGED faults

Faulted(newRows) ==
    /\ faults < MaxFaults
    /\ faults' = faults + 1
    /\ rows' \in {rows, newRows}

-----------------------------------------------------------------------------
Init ==
    /\ rows = [k \in Keys |-> NoRow]
    /\ journal = {}
    /\ chainBreaker = CB!DefaultEntry
    /\ signBreaker = SB!DefaultEntry
    /\ enabled = TRUE
    /\ pc = [c \in Calls |-> "idle"]
    /\ req \in [Calls -> [key : Keys, digest : Digests, now_ms : {0}]]
    /\ probe = [c \in Calls |-> FALSE]
    /\ result = [c \in Calls |-> "none"]
    /\ rpc = [r \in Readers |-> "idle"]
    /\ rkey \in [Readers -> Keys]
    /\ rresult = [r \in Readers |-> "none"]
    /\ signatures = [k \in Keys |-> 0]
    /\ broadcasts = [k \in Keys |-> 0]
    /\ chain = [k \in Keys |-> "absent"]
    /\ now = 0
    /\ faults = 0
    /\ crashes = 0

Goto(c, l) == pc' = [pc EXCEPT ![c] = l]

\* The call returns res.
Return(c, res) ==
    /\ Goto(c, "done")
    /\ result' = [result EXCEPT ![c] = res]
    /\ UNCHANGED <<req, probe>>

\* The call gives up before submitting: record FailedBeforeSubmit, then return res.
Abort(c, res) ==
    /\ Goto(c, "abort")
    /\ result' = [result EXCEPT ![c] = res]
    /\ UNCHANGED <<req, probe>>

Continue(c, l) == Goto(c, l) /\ UNCHANGED <<req, probe, result>>

-----------------------------------------------------------------------------
(* execute *)

\* Steps 1 and 2: kill switch, adapter health, breaker gate.
Start(c) ==
    /\ pc[c] = "idle"
    /\ req' = [req EXCEPT ![c] = [key |-> @.key, digest |-> @.digest, now_ms |-> now]]
    /\ UNCHANGED probe
    /\ \/ /\ ~enabled
          /\ Goto(c, "done")
          /\ result' = [result EXCEPT ![c] = "TradingDisabled"]
          /\ UNCHANGED chainBreaker
       \/ /\ enabled
          /\ \E health \in CB!Health :
                /\ chainBreaker' = CB!Observe(chainBreaker, health, now)
                /\ IF health = "Unavailable" \/ ~CB!CheckAllowed(chainBreaker', now)
                   THEN /\ Goto(c, "done")
                        /\ result' = [result EXCEPT ![c] = "ChainHealthUnavailable"]
                   ELSE /\ Goto(c, "payload")
                        /\ UNCHANGED result
    /\ UNCHANGED <<rows, journal, signBreaker, enabled, readVars, chainVars, envVars, faults>>

\* Steps 3 and 4: payload_to_sign answers, then SigningRequest::bind, which
\* checks the kill switch again and may refuse for other reasons (expiry).
BindSigningRequest(c) ==
    /\ pc[c] = "payload"
    /\ \/ Return(c, "MissingSignedPayload")
       \/ Return(c, "SigningFailed")
       \/ enabled /\ Continue(c, "reserve")
    /\ UNCHANGED <<rows, procVars, readVars, chainVars, envVars, faults>>

\* Mutant: the reservation upserts instead of doing nothing on conflict.
ReserveByUpsert(c) ==
    LET k == req[c].key  d == req[c].digest IN
    /\ pc[c] = "reserve"
    /\ Acked([rows EXCEPT ![k] = RowReserved(d)])
    /\ Continue(c, "sign_requested")
    /\ UNCHANGED <<procVars, readVars, chainVars, envVars>>

\* Step 5: INSERT ... ON CONFLICT DO NOTHING, then read the row that is there.
Reserve(c) ==
    LET k == req[c].key  d == req[c].digest
        claimed == [rows EXCEPT ![k] = RowReserved(d)]
    IN
    /\ pc[c] = "reserve"
    /\ \/ /\ rows[k].status = "NONE"
          /\ Acked(claimed)
          /\ Continue(c, "sign_requested")
       \/ /\ rows[k].status = "NONE"
          /\ Faulted(claimed)
          /\ Return(c, "ReservationUnavailable")
       \/ /\ rows[k].status # "NONE"
          /\ Acked(rows)
          /\ Return(c, IF rows[k].digest = d THEN DecodeOutcome(rows[k])
                                             ELSE "IdempotencyConflict")
       \/ /\ rows[k].status # "NONE"
          /\ Faulted(rows)
          /\ Return(c, "ReservationUnavailable")
    /\ UNCHANGED <<procVars, readVars, chainVars, envVars>>

\* Steps 5b and 6: record SIGN_REQUESTED, then ask the signing breaker.
RecordSignRequested(c) ==
    LET k == req[c].key  d == req[c].digest
        written == [rows EXCEPT ![k] = RowWithStatus(@, "SIGN_REQUESTED")]
    IN
    /\ pc[c] = "sign_requested"
    /\ \/ /\ Matches(k, d, {"RESERVED", "SIGN_REQUESTED"})
          /\ Acked(written)
          /\ IF SB!CheckAllowed(signBreaker, req[c].now_ms)
             THEN /\ signBreaker' = SB!Admitted(signBreaker)
                  /\ probe' = [probe EXCEPT ![c] = SB!ConsumesProbe(signBreaker)]
                  /\ signatures' = [signatures EXCEPT ![k] = @ + 1]
                  /\ Goto(c, "sign")
                  /\ UNCHANGED <<req, result>>
             ELSE Abort(c, "SigningUnavailable") /\ UNCHANGED <<signBreaker, signatures>>
       \/ /\ Matches(k, d, {"RESERVED", "SIGN_REQUESTED"})
          /\ Faulted(written)
          /\ Abort(c, "StoreUnavailable")
          /\ UNCHANGED <<signBreaker, signatures>>
       \/ /\ ~Matches(k, d, {"RESERVED", "SIGN_REQUESTED"})
          /\ Acked(rows)
          /\ Abort(c, "StoreUnavailable")
          /\ UNCHANGED <<signBreaker, signatures>>
    /\ UNCHANGED <<journal, chainBreaker, enabled, readVars, broadcasts, chain, envVars>>

\* Step 6: the signer answers; the guard is resolved before the next await.
SignerAnswers(c) ==
    /\ pc[c] = "sign"
    /\ \/ /\ signBreaker' = SB!RecordSuccess(signBreaker)
          /\ Continue(c, "signed")
       \/ \E err \in {"SigningFailed", "SigningRequestMismatch"} :
             /\ signBreaker' = SB!RecordFailure(signBreaker, req[c].now_ms)
             /\ Abort(c, err)
    /\ UNCHANGED <<rows, journal, chainBreaker, enabled, readVars, chainVars, envVars, faults>>

\* Step 7: record the signed reference.
RecordSigned(c) ==
    LET k == req[c].key  d == req[c].digest
        written == [rows EXCEPT ![k] = RowWithStatus(@, "SIGNED")]
    IN
    /\ pc[c] = "signed"
    /\ \/ /\ Matches(k, d, {"SIGN_REQUESTED", "SIGNED"})
          /\ Acked(written)
          /\ Continue(c, "fetch")
       \/ /\ Matches(k, d, {"SIGN_REQUESTED", "SIGNED"})
          /\ Faulted(written)
          /\ Abort(c, "FailedBeforeSubmit")
       \/ /\ ~Matches(k, d, {"SIGN_REQUESTED", "SIGNED"})
          /\ Acked(rows)
          /\ Abort(c, "FailedBeforeSubmit")
    /\ UNCHANGED <<procVars, readVars, chainVars, envVars>>

\* Steps 8 and 9: fetch the signed payload, bind the SubmitRequest, cache it.
BindSubmission(c) ==
    /\ pc[c] = "fetch"
    /\ \/ /\ journal' = journal \cup {req[c].key}
          /\ Continue(c, "persist")
       \/ \E err \in {"MissingSignedPayload", "SignedPayloadDigestMismatch"} :
             Abort(c, err) /\ UNCHANGED journal
    /\ UNCHANGED <<rows, chainBreaker, signBreaker, enabled, readVars, chainVars, envVars, faults>>

\* Mutant: a failed record_submission is ignored and the call goes on to submit.
PersistSubmissionBestEffort(c) ==
    LET k == req[c].key
        written == [rows EXCEPT ![k] = RowWithSubmission(@)]
    IN
    /\ pc[c] = "persist"
    /\ Acked(written) \/ Faulted(written)
    /\ CB!CheckAllowed(chainBreaker, req[c].now_ms)
    /\ chainBreaker' = CB!Admitted(chainBreaker)
    /\ probe' = [probe EXCEPT ![c] = CB!ConsumesProbe(chainBreaker)]
    /\ Goto(c, "submit")
    /\ UNCHANGED <<req, result, journal, signBreaker, enabled, readVars, chainVars, envVars>>

\* Steps 9b and 10: persist the bound submission, then consume the admission.
RecordSubmission(c) ==
    LET k == req[c].key  d == req[c].digest
        from == {"SIGNED", "SUBMISSION_UNKNOWN", "SUBMITTED"}
        written == [rows EXCEPT ![k] = RowWithSubmission(@)]
    IN
    /\ pc[c] = "persist"
    /\ \/ /\ Matches(k, d, from)
          /\ Acked(written)
          /\ IF CB!CheckAllowed(chainBreaker, req[c].now_ms)
             THEN /\ chainBreaker' = CB!Admitted(chainBreaker)
                  /\ probe' = [probe EXCEPT ![c] = CB!ConsumesProbe(chainBreaker)]
                  /\ Goto(c, "submit")
                  /\ UNCHANGED <<req, result>>
             ELSE Abort(c, "ChainHealthUnavailable") /\ UNCHANGED chainBreaker
       \/ /\ Matches(k, d, from)
          /\ Faulted(written)
          /\ Abort(c, "StoreUnavailable")
          /\ UNCHANGED chainBreaker
       \/ /\ ~Matches(k, d, from)
          /\ Acked(rows)
          /\ Abort(c, "StoreUnavailable")
          /\ UNCHANGED chainBreaker
    /\ UNCHANGED <<journal, signBreaker, enabled, readVars, chainVars, envVars>>

\* Step 11: the transaction reaches the chain.
Broadcast(c) ==
    /\ pc[c] = "submit"
    /\ broadcasts' = [broadcasts EXCEPT ![req[c].key] = @ + 1]
    /\ chain' = [chain EXCEPT ![req[c].key] = "pending"]
    /\ Continue(c, "sent")
    /\ UNCHANGED <<rows, procVars, readVars, signatures, envVars, faults>>

\* Mutant: every error of the adapter is recorded as a rejection.
AdapterErrorIsRejection(c) ==
    /\ pc[c] \in {"submit", "sent"}
    /\ chainBreaker' = CB!RecordSuccess(chainBreaker)
    /\ Goto(c, "record")
    /\ result' = [result EXCEPT ![c] = "Rejected"]
    /\ UNCHANGED <<rows, journal, signBreaker, enabled, req, probe,
                   readVars, chainVars, envVars, faults>>

\* The adapter answers.  A rejection is definitive and only follows a
\* transaction the chain did not take; any other error is ambiguous, whether
\* or not the transaction was taken.
AdapterAnswers(c) ==
    LET Answer(breaker, outcome) ==
            /\ chainBreaker' = breaker
            /\ Goto(c, "record")
            /\ result' = [result EXCEPT ![c] = outcome]
    IN
    /\ \/ /\ pc[c] = "sent"
          /\ \E outcome \in {"Submitted", "Unknown"} :
                Answer(CB!RecordSuccess(chainBreaker), outcome)
       \/ /\ pc[c] = "submit"
          /\ Answer(CB!RecordSuccess(chainBreaker), "Rejected")
       \/ /\ pc[c] \in {"submit", "sent"}
          /\ Answer(CB!RecordFailure(chainBreaker, req[c].now_ms), "Unknown")
    /\ UNCHANGED <<rows, journal, signBreaker, enabled, req, probe,
                   readVars, chainVars, envVars, faults>>

\* record_outcome, whose errors are swallowed, and the return of the call.
RecordOutcome(c, outcome) ==
    LET written == OutcomeRecorded(req[c].key, req[c].digest, outcome)
    IN  /\ Acked(written) \/ Faulted(written)
        /\ Continue(c, "done")
        /\ UNCHANGED <<procVars, readVars, chainVars, envVars>>

RecordAbort(c) == pc[c] = "abort" /\ RecordOutcome(c, "FailedBeforeSubmit")

RecordSubmitOutcome(c) == pc[c] = "record" /\ RecordOutcome(c, result[c])

\* The caller drops the future of a call: the guard it holds, if any, is dropped.
Cancel(c) ==
    LET guard == [consumed_probe |-> probe[c], admitted_at_ms |-> req[c].now_ms]
    IN  /\ pc[c] \notin {"idle", "done", "dead"}
        /\ signBreaker' = IF pc[c] = "sign" THEN SB!DropGuard(signBreaker, guard)
                                            ELSE signBreaker
        /\ chainBreaker' = IF pc[c] \in {"submit", "sent"}
                           THEN CB!DropGuard(chainBreaker, guard)
                           ELSE chainBreaker
        /\ Continue(c, "dead")
        /\ UNCHANGED <<rows, journal, enabled, readVars, chainVars, envVars, faults>>

-----------------------------------------------------------------------------
(* reconcile *)

RGoto(r, l) == rpc' = [rpc EXCEPT ![r] = l]

RReturn(r, res) ==
    /\ RGoto(r, "idle")
    /\ rresult' = [rresult EXCEPT ![r] = res]

StartReconcile(r, k) ==
    /\ rpc[r] = "idle"
    /\ rkey' = [rkey EXCEPT ![r] = k]
    /\ rresult' = [rresult EXCEPT ![r] = "none"]
    /\ RGoto(r, "load_outcome")
    /\ UNCHANGED <<rows, procVars, callVars, chainVars, envVars, faults>>

\* Mutant: any stored outcome is returned, not only a terminal one.
LoadAnyOutcome(r) ==
    /\ rpc[r] = "load_outcome"
    /\ Acked(rows)
    /\ IF rows[rkey[r]].status # "NONE"
       THEN RReturn(r, DecodeOutcome(rows[rkey[r]]))
       ELSE RGoto(r, "load_submission") /\ UNCHANGED rresult
    /\ UNCHANGED <<procVars, callVars, rkey, chainVars, envVars>>

\* A terminal outcome is final; a failed read is ignored.  The cached request,
\* if this process has one, spares the second read.
LoadOutcome(r) ==
    LET k == rkey[r]
        Proceed == /\ RGoto(r, IF k \in journal THEN "query" ELSE "load_submission")
                   /\ UNCHANGED rresult
    IN  /\ rpc[r] = "load_outcome"
        /\ \/ /\ Acked(rows)
              /\ IF rows[k].status \in Terminal THEN RReturn(r, DecodeOutcome(rows[k]))
                                                ELSE Proceed
           \/ Faulted(rows) /\ Proceed
        /\ UNCHANGED <<procVars, callVars, rkey, chainVars, envVars>>

LoadSubmission(r) ==
    /\ rpc[r] = "load_submission"
    /\ \/ /\ Acked(rows)
          /\ IF rows[rkey[r]].submission
             THEN RGoto(r, "query") /\ UNCHANGED rresult
             ELSE RReturn(r, "InvalidTransition")
       \/ Faulted(rows) /\ RReturn(r, "StoreUnavailable")
    /\ UNCHANGED <<procVars, callVars, rkey, chainVars, envVars>>

\* Mutant: a transaction without a receipt is reported as rejected.
ObservationsMissingIsRejected(k) ==
    IF chain[k] = "confirmed" THEN {"ConfirmedWithFill"} ELSE {"Rejected"}

\* What query, or after an inconclusive query the adapter's reconcile, can
\* observe: never more than what happened.
Observations(k) ==
    {"Unknown"} \cup (IF chain[k] = "confirmed" THEN {"ConfirmedWithFill", "ConfirmedNoFill"} ELSE {})
                \cup (IF chain[k] = "reverted" THEN {"Rejected"} ELSE {})

QueryChain(r, observation) ==
    /\ rpc[r] = "query"
    /\ observation \in Observations(rkey[r])
    /\ RGoto(r, "record")
    /\ rresult' = [rresult EXCEPT ![r] = observation]
    /\ UNCHANGED <<rows, procVars, callVars, rkey, chainVars, envVars, faults>>

QueryFails(r) ==
    /\ rpc[r] = "query"
    /\ RReturn(r, "AdapterUnavailable")
    /\ UNCHANGED <<rows, procVars, callVars, rkey, chainVars, envVars, faults>>

\* The digest of the request is the digest of the row it was restored from.
RecordObservation(r) ==
    LET written == OutcomeRecorded(rkey[r], rows[rkey[r]].digest, rresult[r])
    IN  /\ rpc[r] = "record"
        /\ Acked(written) \/ Faulted(written)
        /\ RGoto(r, "idle")
        /\ UNCHANGED <<procVars, callVars, rkey, rresult, chainVars, envVars>>

-----------------------------------------------------------------------------
(* The environment *)

ChainSettles(k) ==
    /\ chain[k] = "pending"
    /\ \E fate \in {"confirmed", "reverted"} : chain' = [chain EXCEPT ![k] = fate]
    /\ UNCHANGED <<rows, procVars, callVars, readVars, signatures, broadcasts, envVars, faults>>

DisableTrading ==
    /\ enabled
    /\ enabled' = FALSE
    /\ UNCHANGED <<rows, journal, chainBreaker, signBreaker, callVars, readVars, chainVars,
                   envVars, faults>>

Tick ==
    /\ now < MaxNow
    /\ now' = now + 1
    /\ UNCHANGED <<rows, procVars, callVars, readVars, chainVars, faults, crashes>>

\* The process restarts: only rows survive; the kill switch is configured anew.
Crash ==
    /\ crashes < MaxCrashes
    /\ crashes' = crashes + 1
    /\ journal' = {}
    /\ chainBreaker' = CB!DefaultEntry
    /\ signBreaker' = SB!DefaultEntry
    /\ enabled' \in BOOLEAN
    /\ pc' = [c \in Calls |-> IF pc[c] \in {"idle", "done"} THEN pc[c] ELSE "dead"]
    /\ rpc' = [r \in Readers |-> "idle"]
    /\ rresult' = [r \in Readers |-> "none"]
    /\ UNCHANGED <<rows, req, probe, result, rkey, chainVars, now, faults>>

ExecuteStep(c) ==
    \/ Start(c)
    \/ BindSigningRequest(c)
    \/ Reserve(c)
    \/ RecordSignRequested(c)
    \/ SignerAnswers(c)
    \/ RecordSigned(c)
    \/ BindSubmission(c)
    \/ RecordSubmission(c)
    \/ Broadcast(c)
    \/ AdapterAnswers(c)
    \/ RecordAbort(c)
    \/ RecordSubmitOutcome(c)

ReconcileStep(r) ==
    \/ LoadOutcome(r)
    \/ LoadSubmission(r)
    \/ \E observation \in Outcomes : QueryChain(r, observation)
    \/ QueryFails(r)
    \/ RecordObservation(r)

Next ==
    \/ \E c \in Calls : ExecuteStep(c)
    \/ \E c \in Calls : Cancel(c)
    \/ \E r \in Readers, k \in Keys : StartReconcile(r, k)
    \/ \E r \in Readers : ReconcileStep(r)
    \/ \E k \in Keys : ChainSettles(k)
    \/ DisableTrading
    \/ Tick
    \/ Crash

Spec == Init /\ [][Next]_vars

\* A reconcile loop visits every key, each of its awaits ends, and the chain's
\* answer about a settled transaction is not withheld for ever.
Fairness ==
    /\ \A r \in Readers : WF_vars(ReconcileStep(r))
    /\ \A r \in Readers, k \in Keys : SF_vars(StartReconcile(r, k))
    /\ \A r \in Readers : SF_vars(\E o \in {"ConfirmedWithFill", "Rejected"} : QueryChain(r, o))

FairSpec == Spec /\ Fairness

-----------------------------------------------------------------------------
(* Properties *)

Awaits == {"payload", "reserve", "sign_requested", "sign", "signed", "fetch", "persist",
           "submit", "sent", "record", "abort"}

Row == [status : AttemptStatus \cup {"NONE"}, digest : Digests \cup {"none"},
        submission : BOOLEAN, evidence : BOOLEAN]

Returned == Results \cup {"none"}

Locations == Awaits \cup {"idle", "done", "dead"}

\* The rows, calls, breakers and reconcile passes of the relay are well formed;
\* the failure counters of both breakers stay within their width.
TypeOK ==
    /\ rows \in [Keys -> Row]
    /\ journal \subseteq Keys
    /\ chainBreaker \in CB!Entry
    /\ signBreaker \in SB!Entry
    /\ enabled \in BOOLEAN
    /\ pc \in [Calls -> Locations]
    /\ req \in [Calls -> [key : Keys, digest : Digests, now_ms : Nat]]
    /\ probe \in [Calls -> BOOLEAN]
    /\ result \in [Calls -> Returned]
    /\ rpc \in [Readers -> {"idle", "load_outcome", "load_submission", "query", "record"}]
    /\ rkey \in [Readers -> Keys]
    /\ rresult \in [Readers -> Returned]
    /\ signatures \in [Keys -> Nat]
    /\ broadcasts \in [Keys -> Nat]
    /\ chain \in [Keys -> {"absent", "pending", "confirmed", "reverted"}]
    /\ now \in Nat
    /\ faults \in Nat
    /\ crashes \in Nat

\* A key is signed for at most once and broadcast at most once, over duplicate
\* and concurrent calls, cancellations, restarts and store failures
\* (relay.rs:113-114, 436-445; INVARIANTS.md 9).
AtMostOneBroadcast ==
    \A k \in Keys : broadcasts[k] <= 1 /\ signatures[k] <= 1

\* A transaction the chain may hold can be reconciled after any crash: its bound
\* submission is durable, and its row is never closed as unsent
\* (relay.rs:259-262, postgres.rs:572-574).
BroadcastIsRecoverable ==
    \A k \in Keys : broadcasts[k] > 0 =>
        /\ rows[k].submission
        /\ rows[k].status \in {"SUBMISSION_UNKNOWN", "SUBMITTED", "CONFIRMED", "REJECTED"}

\* A terminal row says what happened: CONFIRMED rows are confirmed on chain and
\* the transaction of a REJECTED row will never be.
TerminalRowIsTruthful ==
    \A k \in Keys :
        /\ rows[k].status = "CONFIRMED" => chain[k] = "confirmed"
        /\ rows[k].status = "REJECTED" => chain[k] \in {"absent", "reverted"}
        /\ rows[k].evidence => rows[k].status = "CONFIRMED"

SoleCall(c) == \A d \in Calls \ {c} : pc[d] # "idle" => req[d].key # req[c].key

\* What the limit engine relies on (executor.rs:36-44): when the only execute()
\* call for a key returns a result that is mapped to FailedBeforeSubmit, then
\* nothing was sent and, the call being over, nothing ever will be.
PreSendErrorMeansUnsent ==
    \A c \in Calls :
        pc[c] = "done" /\ SoleCall(c) /\ MapOutcome(result[c]) = "FailedBeforeSubmit"
            => broadcasts[req[c].key] = 0

\* An outcome that reconcile returns is true when it is returned and stays true.
ReconcileIsTruthful ==
    \A r \in Readers : rpc[r] = "idle" =>
        /\ rresult[r] \in {"ConfirmedWithFill", "ConfirmedNoFill"} => chain[rkey[r]] = "confirmed"
        /\ rresult[r] = "Rejected" => chain[rkey[r]] # "confirmed"
        /\ rresult[r] = "FailedBeforeSubmit" => broadcasts[rkey[r]] = 0

\* Once the chain has decided, reconciliation makes the decision durable, however
\* the call ended that sent the transaction.
SettledIsLearned ==
    \A k \in Keys : chain[k] \in {"confirmed", "reverted"} ~> rows[k].status \in Terminal

VerdictOf(row) ==
    CASE row.status = "NONE"                 -> "unclaimed"
      [] row.status = "CONFIRMED"            -> "confirmed"
      [] row.status = "REJECTED"             -> "rejected"
      [] row.status = "FAILED_BEFORE_SUBMIT" -> "unsent"
      [] OTHER                               -> "open"

Ledger == INSTANCE AttemptLedger WITH
              verdict <- [k \in Keys |-> VerdictOf(rows[k])],
              sends   <- broadcasts

\* The relay implements the attempt ledger: the row is the verdict.
ImplementsLedger == Ledger!Spec

\* What executor.rs:19-22 says of a confirmation without amounts: it is Unknown,
\* "so the orchestrator reconciles for evidence it lacks".  The chain does answer
\* with the amounts, so the evidence arrives.
EvidenceArrives ==
    \A k \in Keys : chain[k] = "confirmed" ~> rows[k].evidence

\* Keys, digests and calls are interchangeable: for TLC, in runs that check safety only.
Symmetry == Permutations(Keys) \cup Permutations(Digests) \cup Permutations(Calls)
=============================================================================
