------------------------- MODULE ExecutionRelayProofs -------------------------
(***************************************************************************)
(* Proofs about the execution relay, for any number of keys, calls,        *)
(* reconcile loops, crashes and store faults.                              *)
(***************************************************************************)
EXTENDS ExecutionRelay, TLAPS

-----------------------------------------------------------------------------
(* The inductive invariant *)

\* The awaits of a call that has claimed its key.
Owning == {"sign_requested", "sign", "signed", "fetch", "persist", "submit", "sent",
           "record", "abort"}

\* The awaits of an owner that has not sent anything, and will not if it aborts.
Unsent == {"sign_requested", "sign", "signed", "fetch", "persist", "submit", "abort"}

\* The reservation has at most one live owner, and it is never released.
OneOwner ==
    /\ \A c, d \in Calls :
          pc[c] \in Owning /\ pc[d] \in Owning /\ req[c].key = req[d].key => c = d
    /\ \A c \in Calls : pc[c] \in Owning => rows[req[c].key].status # "NONE"

\* What the owner of a key knows of it at each await.
OwnerStage ==
    \A c \in Calls : LET k == req[c].key IN
        /\ pc[c] = "sign_requested" => signatures[k] = 0
        /\ pc[c] \in Unsent => broadcasts[k] = 0
        /\ pc[c] = "submit" => rows[k].submission /\ rows[k].status = "SUBMISSION_UNKNOWN"
        /\ pc[c] = "sent" => broadcasts[k] = 1
        /\ pc[c] = "record" => /\ result[c] \in {"Submitted", "Unknown", "Rejected"}
                               /\ result[c] = "Rejected" => broadcasts[k] = 0

\* What holds of a key, whoever works on it.
KeyStage ==
    \A k \in Keys :
        /\ rows[k].status = "NONE" => signatures[k] = 0 /\ broadcasts[k] = 0
        /\ signatures[k] \in {0, 1}
        /\ broadcasts[k] \in {0, 1}
        /\ broadcasts[k] = 0 <=> chain[k] = "absent"

\* A transaction has a sender that is still at work, was lost, or returned a
\* result that calls for reconciliation.
Sender(c) ==
    \/ pc[c] \in {"sent", "dead"}
    \/ pc[c] \in {"record", "done"} /\ result[c] \in {"Submitted", "Unknown"}

SenderKnown ==
    \A k \in Keys : broadcasts[k] = 1 => \E c \in Calls : req[c].key = k /\ Sender(c)

\* What a reconcile loop holds is true, and its truth is stable.
Observed ==
    \A r \in Readers : LET k == rkey[r] IN
        /\ rpc[r] = "record" => rresult[r] \in {"Unknown", "Rejected", "ConfirmedWithFill",
                                                "ConfirmedNoFill"}
        /\ rpc[r] = "record" /\ rresult[r] = "Rejected" => chain[k] = "reverted"
        /\ rresult[r] \in {"ConfirmedWithFill", "ConfirmedNoFill"} => chain[k] = "confirmed"
        /\ rresult[r] = "Rejected" => chain[k] = "reverted" \/ rows[k].status = "REJECTED"
        /\ rresult[r] = "FailedBeforeSubmit" => rows[k].status = "FAILED_BEFORE_SUBMIT"

IInv ==
    /\ TypeOK
    /\ OneOwner
    /\ OwnerStage
    /\ KeyStage
    /\ BroadcastIsRecoverable
    /\ TerminalRowIsTruthful
    /\ SenderKnown
    /\ Observed

-----------------------------------------------------------------------------
(* Types *)

\* The breaker operators stay within the entry type (chain-health breaker).
LEMMA ChainBreakerTypes ==
    ASSUME NEW e \in CB!Entry, NEW t \in Nat
    PROVE  /\ CB!DefaultEntry \in CB!Entry
           /\ CB!RecordFailure(e, t) \in CB!Entry
           /\ CB!RecordSuccess(e) \in CB!Entry
           /\ CB!Admitted(e) \in CB!Entry
           /\ \A h \in CB!Health : CB!Observe(e, h, t) \in CB!Entry
           /\ \A g : g.admitted_at_ms \in Nat => CB!DropGuard(e, g) \in CB!Entry
  <1> USE BreakersAssumption
  <1>1. CB!DefaultEntry \in CB!Entry
    BY DEF CB!DefaultEntry, CB!Entry, CB!Health
  <1>2. ASSUME NEW u \in Nat PROVE CB!RecordFailure(e, u) \in CB!Entry
    <2>1. CB!SaturatingIncrement(e.consecutive_failures) \in 0 .. MaxFailures
      BY DEF CB!SaturatingIncrement, CB!Entry
    <2> QED
      BY <2>1 DEF CB!RecordFailure, CB!Entry, CB!Health
  <1>3. CB!RecordSuccess(e) \in CB!Entry
    BY DEF CB!RecordSuccess, CB!Entry, CB!Health
  <1>4. CB!Admitted(e) \in CB!Entry
    BY DEF CB!Admitted, CB!ConsumesProbe, CB!Entry, CB!Health
  <1>5. \A h \in CB!Health : CB!Observe(e, h, t) \in CB!Entry
    BY <1>2 DEF CB!Observe
  <1>6. \A g : g.admitted_at_ms \in Nat => CB!DropGuard(e, g) \in CB!Entry
    BY <1>2 DEF CB!DropGuard
  <1> QED
    BY <1>1, <1>2, <1>3, <1>4, <1>5, <1>6

\* The breaker operators stay within the entry type (signing-failure breaker).
LEMMA SignBreakerTypes ==
    ASSUME NEW e \in SB!Entry, NEW t \in Nat
    PROVE  /\ SB!DefaultEntry \in SB!Entry
           /\ SB!RecordFailure(e, t) \in SB!Entry
           /\ SB!RecordSuccess(e) \in SB!Entry
           /\ SB!Admitted(e) \in SB!Entry
           /\ \A g : g.admitted_at_ms \in Nat => SB!DropGuard(e, g) \in SB!Entry
  <1> USE BreakersAssumption
  <1>1. SB!DefaultEntry \in SB!Entry
    BY DEF SB!DefaultEntry, SB!Entry, SB!Health
  <1>2. ASSUME NEW u \in Nat PROVE SB!RecordFailure(e, u) \in SB!Entry
    <2>1. SB!SaturatingIncrement(e.consecutive_failures) \in 0 .. MaxFailures
      BY DEF SB!SaturatingIncrement, SB!Entry
    <2> QED
      BY <2>1 DEF SB!RecordFailure, SB!Entry, SB!Health
  <1>3. SB!RecordSuccess(e) \in SB!Entry
    BY DEF SB!RecordSuccess, SB!Entry, SB!Health
  <1>4. SB!Admitted(e) \in SB!Entry
    BY DEF SB!Admitted, SB!ConsumesProbe, SB!Entry, SB!Health
  <1>5. \A g : g.admitted_at_ms \in Nat => SB!DropGuard(e, g) \in SB!Entry
    BY <1>2 DEF SB!DropGuard
  <1> QED
    BY <1>1, <1>2, <1>3, <1>4, <1>5

\* The places a call can be at.
LEMMA LocationValues ==
    /\ "payload" \in Locations /\ "reserve" \in Locations /\ "sign_requested" \in Locations
    /\ "sign" \in Locations /\ "signed" \in Locations /\ "fetch" \in Locations
    /\ "persist" \in Locations /\ "submit" \in Locations /\ "sent" \in Locations
    /\ "record" \in Locations /\ "abort" \in Locations /\ "done" \in Locations
    /\ "dead" \in Locations /\ "idle" \in Locations
  BY DEF Locations, Awaits

\* The results a call or a reconcile loop can hold.
LEMMA ReturnedValues ==
    /\ \A o \in Outcomes : o \in Returned
    /\ \A e \in PreSendErrors : e \in Returned
    /\ "AdapterUnavailable" \in Returned /\ "InvalidTransition" \in Returned
    /\ "none" \in Returned
    /\ "Submitted" \in Outcomes /\ "Unknown" \in Outcomes /\ "Rejected" \in Outcomes
    /\ "FailedBeforeSubmit" \in Outcomes
    /\ "TradingDisabled" \in PreSendErrors /\ "ChainHealthUnavailable" \in PreSendErrors
    /\ "SigningUnavailable" \in PreSendErrors /\ "SigningFailed" \in PreSendErrors
    /\ "SigningRequestMismatch" \in PreSendErrors
    /\ "MissingSignedPayload" \in PreSendErrors
    /\ "SignedPayloadDigestMismatch" \in PreSendErrors
    /\ "ReservationUnavailable" \in PreSendErrors /\ "StoreUnavailable" \in PreSendErrors
    /\ "IdempotencyConflict" \in PreSendErrors
  BY DEF Returned, Results, Errors, PreSendErrors, Outcomes

\* Every store write leaves well-formed rows.
LEMMA RowTypes ==
    ASSUME TypeOK, NEW k \in Keys
    PROVE  /\ \A d \in Digests : [rows EXCEPT ![k] = RowReserved(d)] \in [Keys -> Row]
           /\ [rows EXCEPT ![k] = RowWithStatus(@, "SIGN_REQUESTED")] \in [Keys -> Row]
           /\ [rows EXCEPT ![k] = RowWithStatus(@, "SIGNED")] \in [Keys -> Row]
           /\ [rows EXCEPT ![k] = RowWithSubmission(@)] \in [Keys -> Row]
           /\ \A d : \A o \in Outcomes : OutcomeRecorded(k, d, o) \in [Keys -> Row]
           /\ rows[k].status # "NONE" => DecodeOutcome(rows[k]) \in Outcomes
  <1> USE DEF TypeOK
  <1>1. \A d \in Digests : RowReserved(d) \in Row
    BY DEF RowReserved, Row, AttemptStatus
  <1>2. \A s \in AttemptStatus : RowWithStatus(rows[k], s) \in Row
    BY DEF RowWithStatus, Row
  <1>3. RowWithSubmission(rows[k]) \in Row
    BY DEF RowWithSubmission, Row, AttemptStatus
  <1>4. ASSUME NEW o \in Outcomes PROVE RowWithOutcome(rows[k], o) \in Row
    <2>1. StatusOf(o) \in AttemptStatus
      BY DEF StatusOf, Outcomes, AttemptStatus, Terminal
    <2>2. (o = "ConfirmedWithFill") \in BOOLEAN
      OBVIOUS
    <2> QED
      BY <2>1, <2>2 DEF RowWithOutcome, Row
  <1>5. \A d : \A o \in Outcomes : OutcomeRecorded(k, d, o) \in [Keys -> Row]
    BY <1>4 DEF OutcomeRecorded
  <1>6. rows[k].status # "NONE" => DecodeOutcome(rows[k]) \in Outcomes
    BY DEF DecodeOutcome, Row, AttemptStatus, Terminal, Outcomes
  <1> QED
    BY <1>1, <1>2, <1>3, <1>5, <1>6 DEF AttemptStatus

\* Recording an outcome keeps the types.
LEMMA OutcomeStepTypes ==
    ASSUME TypeOK, NEW c \in Calls, NEW o \in Outcomes, RecordOutcome(c, o)
    PROVE  TypeOK'
  <1> USE LocationValues DEF TypeOK
  <1>1. req[c].key \in Keys /\ MaxFaults \in Nat
    BY BoundsAssumption
  <1>2. OutcomeRecorded(req[c].key, req[c].digest, o) \in [Keys -> Row]
    BY <1>1, RowTypes
  <1> QED
    BY <1>1, <1>2
       DEF RecordOutcome, Acked, Faulted, Continue, Goto, procVars, readVars, chainVars,
           envVars

\* One step of execute keeps the types.
LEMMA ExecuteStepTypes ==
    ASSUME TypeOK, OwnerStage, NEW c \in Calls, ExecuteStep(c)
    PROVE  TypeOK'
  <1> DEFINE k == req[c].key
             PCType == pc' \in [Calls -> Locations]
             ResultType == result' \in [Calls -> Returned]
  <1>0. /\ k \in Keys /\ req[c].digest \in Digests /\ req[c].now_ms \in Nat
        /\ MaxFaults \in Nat
    BY BoundsAssumption DEF TypeOK
  <1>1. CASE Start(c)
    <2>1. chainBreaker' \in CB!Entry
      <3>1. \A h \in CB!Health : CB!Observe(chainBreaker, h, now) \in CB!Entry
        BY ChainBreakerTypes DEF TypeOK
      <3> QED
        BY <1>1, <3>1 DEF Start, TypeOK
    <2>2. req' \in [Calls -> [key : Keys, digest : Digests, now_ms : Nat]]
      BY <1>1 DEF Start, TypeOK
    <2>3. PCType
      BY <1>1, LocationValues DEF Start, Goto, TypeOK
    <2>4. ResultType
      BY <1>1, ReturnedValues DEF Start, TypeOK
    <2> QED
      BY <1>1, <2>1, <2>2, <2>3, <2>4 DEF Start, TypeOK, readVars, chainVars, envVars
  <1>2. CASE BindSigningRequest(c)
    <2>1. PCType
      BY <1>2, LocationValues DEF BindSigningRequest, Return, Continue, Goto, TypeOK
    <2>2. ResultType /\ UNCHANGED <<req, probe>>
      BY <1>2, ReturnedValues DEF BindSigningRequest, Return, Continue, TypeOK
    <2> QED
      BY <1>2, <2>1, <2>2
         DEF BindSigningRequest, TypeOK, procVars, readVars, chainVars, envVars
  <1>3. CASE Reserve(c)
    <2>1. rows' \in [Keys -> Row] /\ faults' \in Nat
      BY <1>0, <1>3, RowTypes DEF Reserve, Acked, Faulted, TypeOK
    <2>2. PCType
      BY <1>3, LocationValues DEF Reserve, Return, Continue, Goto, TypeOK
    <2>3. ResultType
      <3>1. rows[k].status # "NONE" => DecodeOutcome(rows[k]) \in Returned
        BY <1>0, RowTypes, ReturnedValues
      <3> QED
        BY <1>3, <3>1, ReturnedValues DEF Reserve, Return, Continue, TypeOK
    <2>4. UNCHANGED <<req, probe>>
      BY <1>3 DEF Reserve, Return, Continue
    <2> QED
      BY <1>3, <2>1, <2>2, <2>3, <2>4
         DEF Reserve, TypeOK, procVars, readVars, chainVars, envVars
  <1>4. CASE RecordSignRequested(c)
    <2>1. rows' \in [Keys -> Row] /\ faults' \in Nat
      BY <1>0, <1>4, RowTypes DEF RecordSignRequested, Acked, Faulted, TypeOK
    <2>2. signBreaker' \in SB!Entry
      <3>1. SB!Admitted(signBreaker) \in SB!Entry
        BY SignBreakerTypes DEF TypeOK
      <3> QED
        BY <1>4, <3>1 DEF RecordSignRequested, TypeOK
    <2>3. probe' \in [Calls -> BOOLEAN] /\ req' = req
      BY <1>4 DEF RecordSignRequested, SB!ConsumesProbe, Abort, TypeOK
    <2>4. PCType
      BY <1>4, LocationValues DEF RecordSignRequested, Abort, Goto, TypeOK
    <2>5. ResultType
      BY <1>4, ReturnedValues DEF RecordSignRequested, Abort, TypeOK
    <2>6. signatures' \in [Keys -> Nat]
      BY <1>0, <1>4 DEF RecordSignRequested, TypeOK
    <2> QED
      BY <1>4, <2>1, <2>2, <2>3, <2>4, <2>5, <2>6
         DEF RecordSignRequested, TypeOK, readVars, envVars
  <1>5. CASE SignerAnswers(c)
    <2>1. signBreaker' \in SB!Entry
      <3>1. /\ SB!RecordSuccess(signBreaker) \in SB!Entry
            /\ SB!RecordFailure(signBreaker, req[c].now_ms) \in SB!Entry
        BY <1>0, SignBreakerTypes DEF TypeOK
      <3> QED
        BY <1>5, <3>1 DEF SignerAnswers
    <2>2. PCType
      BY <1>5, LocationValues DEF SignerAnswers, Continue, Abort, Goto, TypeOK
    <2>3. ResultType /\ UNCHANGED <<req, probe>>
      BY <1>5, ReturnedValues DEF SignerAnswers, Continue, Abort, TypeOK
    <2> QED
      BY <1>5, <2>1, <2>2, <2>3 DEF SignerAnswers, TypeOK, readVars, chainVars, envVars
  <1>6. CASE RecordSigned(c)
    <2>1. rows' \in [Keys -> Row] /\ faults' \in Nat
      BY <1>0, <1>6, RowTypes DEF RecordSigned, Acked, Faulted, TypeOK
    <2>2. PCType
      BY <1>6, LocationValues DEF RecordSigned, Continue, Abort, Goto, TypeOK
    <2>3. ResultType /\ UNCHANGED <<req, probe>>
      BY <1>6, ReturnedValues DEF RecordSigned, Continue, Abort, TypeOK
    <2> QED
      BY <1>6, <2>1, <2>2, <2>3
         DEF RecordSigned, TypeOK, procVars, readVars, chainVars, envVars
  <1>7. CASE BindSubmission(c)
    <2>1. PCType
      BY <1>7, LocationValues DEF BindSubmission, Continue, Abort, Goto, TypeOK
    <2>2. ResultType /\ UNCHANGED <<req, probe>>
      BY <1>7, ReturnedValues DEF BindSubmission, Continue, Abort, TypeOK
    <2>3. journal' \subseteq Keys
      BY <1>0, <1>7 DEF BindSubmission, TypeOK
    <2> QED
      BY <1>7, <2>1, <2>2, <2>3 DEF BindSubmission, TypeOK, readVars, chainVars, envVars
  <1>8. CASE RecordSubmission(c)
    <2>1. rows' \in [Keys -> Row] /\ faults' \in Nat
      BY <1>0, <1>8, RowTypes DEF RecordSubmission, Acked, Faulted, TypeOK
    <2>2. chainBreaker' \in CB!Entry
      <3>1. CB!Admitted(chainBreaker) \in CB!Entry
        BY <1>0, ChainBreakerTypes DEF TypeOK
      <3> QED
        BY <1>8, <3>1 DEF RecordSubmission, TypeOK
    <2>3. probe' \in [Calls -> BOOLEAN] /\ req' = req
      BY <1>8 DEF RecordSubmission, CB!ConsumesProbe, Abort, TypeOK
    <2>4. PCType
      BY <1>8, LocationValues DEF RecordSubmission, Abort, Goto, TypeOK
    <2>5. ResultType
      BY <1>8, ReturnedValues DEF RecordSubmission, Abort, TypeOK
    <2> QED
      BY <1>8, <2>1, <2>2, <2>3, <2>4, <2>5
         DEF RecordSubmission, TypeOK, readVars, chainVars, envVars
  <1>9. CASE Broadcast(c)
    <2>1. PCType
      BY <1>9, LocationValues DEF Broadcast, Continue, Goto, TypeOK
    <2> QED
      BY <1>0, <1>9, <2>1 DEF Broadcast, Continue, TypeOK, procVars, readVars, envVars
  <1>10. CASE AdapterAnswers(c)
    <2>1. chainBreaker' \in CB!Entry
      <3>1. /\ CB!RecordSuccess(chainBreaker) \in CB!Entry
            /\ CB!RecordFailure(chainBreaker, req[c].now_ms) \in CB!Entry
        BY <1>0, ChainBreakerTypes DEF TypeOK
      <3> QED
        BY <1>10, <3>1 DEF AdapterAnswers
    <2>2. PCType
      BY <1>10, LocationValues DEF AdapterAnswers, Goto, TypeOK
    <2>3. ResultType
      BY <1>10, ReturnedValues DEF AdapterAnswers, TypeOK
    <2> QED
      BY <1>10, <2>1, <2>2, <2>3 DEF AdapterAnswers, TypeOK, readVars, chainVars, envVars
  <1>11. CASE RecordAbort(c)
    BY <1>11, OutcomeStepTypes, ReturnedValues DEF RecordAbort
  <1>12. CASE RecordSubmitOutcome(c)
    <2>1. result[c] \in Outcomes
      BY <1>12, ReturnedValues DEF RecordSubmitOutcome, OwnerStage
    <2> QED
      BY <1>12, <2>1, OutcomeStepTypes DEF RecordSubmitOutcome
  <1> QED
    BY <1>1, <1>2, <1>3, <1>4, <1>5, <1>6, <1>7, <1>8, <1>9, <1>10, <1>11, <1>12
       DEF ExecuteStep

\* One step of reconcile keeps the types.
LEMMA ReconcileStepTypes ==
    ASSUME TypeOK, Observed, NEW r \in Readers, ReconcileStep(r)
    PROVE  TypeOK'
  <1> USE ReturnedValues DEF TypeOK
  <1> DEFINE k == rkey[r]
  <1>0. k \in Keys /\ MaxFaults \in Nat
    BY BoundsAssumption
  <1>1. CASE LoadOutcome(r)
    <2>1. rows' \in [Keys -> Row] /\ faults' \in Nat
      BY <1>0, <1>1 DEF LoadOutcome, Acked, Faulted
    <2>2. rresult' \in [Readers -> Returned]
      <3>1. rows[k].status \in Terminal => DecodeOutcome(rows[k]) \in Returned
        BY <1>0, RowTypes DEF Terminal
      <3> QED
        BY <1>1, <3>1 DEF LoadOutcome, RReturn
    <2>3. rpc' \in [Readers -> {"idle", "load_outcome", "load_submission", "query", "record"}]
      BY <1>1 DEF LoadOutcome, RReturn, RGoto
    <2> QED
      BY <1>1, <2>1, <2>2, <2>3 DEF LoadOutcome, procVars, callVars, chainVars, envVars
  <1>2. CASE LoadSubmission(r)
    BY <1>0, <1>2 DEF LoadSubmission, Acked, Faulted, RReturn, RGoto, procVars, callVars,
                      chainVars, envVars, PreSendErrors
  <1>3. ASSUME NEW o \in Outcomes, QueryChain(r, o) PROVE TypeOK'
    BY <1>3 DEF QueryChain, RGoto, procVars, callVars, chainVars, envVars
  <1>4. CASE QueryFails(r)
    BY <1>4 DEF QueryFails, RReturn, RGoto, procVars, callVars, chainVars, envVars
  <1>5. CASE RecordObservation(r)
    <2>1. rpc[r] = "record" => rresult[r] \in Outcomes
      BY DEF Observed, Outcomes
    <2>2. OutcomeRecorded(k, rows[k].digest, rresult[r]) \in [Keys -> Row]
      BY <1>0, <1>5, <2>1, RowTypes DEF RecordObservation
    <2> QED
      BY <1>0, <1>5, <2>2 DEF RecordObservation, Acked, Faulted, RGoto, procVars, callVars,
                              chainVars, envVars
  <1> QED
    BY <1>1, <1>2, <1>3, <1>4, <1>5 DEF ReconcileStep

\* Every step keeps the types.
LEMMA NextTypes ==
    ASSUME TypeOK, OwnerStage, Observed, [Next]_vars
    PROVE  TypeOK'
  <1>1. ASSUME NEW c \in Calls, ExecuteStep(c) PROVE TypeOK'
    BY <1>1, ExecuteStepTypes
  <1>2. ASSUME NEW c \in Calls, Cancel(c) PROVE TypeOK'
    <2> DEFINE g == [consumed_probe |-> probe[c], admitted_at_ms |-> req[c].now_ms]
    <2>1. g.admitted_at_ms \in Nat
      BY DEF TypeOK
    <2>2. chainBreaker' \in CB!Entry
      BY <1>2, <2>1, ChainBreakerTypes DEF Cancel, TypeOK
    <2>3. signBreaker' \in SB!Entry
      BY <1>2, <2>1, SignBreakerTypes DEF Cancel, TypeOK
    <2> QED
      BY <1>2, <2>2, <2>3, LocationValues
         DEF Cancel, TypeOK, Continue, Goto, readVars, chainVars, envVars
  <1>3. ASSUME NEW r \in Readers, NEW k \in Keys, StartReconcile(r, k) PROVE TypeOK'
    BY <1>3, ReturnedValues
       DEF StartReconcile, TypeOK, RGoto, procVars, callVars, chainVars, envVars
  <1>4. ASSUME NEW r \in Readers, ReconcileStep(r) PROVE TypeOK'
    BY <1>4, ReconcileStepTypes
  <1>5. ASSUME NEW k \in Keys, ChainSettles(k) PROVE TypeOK'
    BY <1>5 DEF ChainSettles, TypeOK, procVars, callVars, readVars, envVars
  <1>6. CASE DisableTrading
    BY <1>6 DEF DisableTrading, TypeOK, callVars, readVars, chainVars, envVars
  <1>7. CASE Tick
    BY <1>7 DEF Tick, TypeOK, procVars, callVars, readVars, chainVars
  <1>8. CASE Crash
    <2>1. chainBreaker' \in CB!Entry /\ signBreaker' \in SB!Entry
      BY <1>8, ChainBreakerTypes, SignBreakerTypes DEF Crash, TypeOK
    <2>2. pc' \in [Calls -> Locations]
      BY <1>8, LocationValues DEF Crash, TypeOK
    <2> QED
      BY <1>8, <2>1, <2>2, ReturnedValues DEF Crash, TypeOK, chainVars
  <1>9. CASE UNCHANGED vars
    BY <1>9 DEF vars, TypeOK
  <1> QED
    BY <1>1, <1>2, <1>3, <1>4, <1>5, <1>6, <1>7, <1>8, <1>9 DEF Next

-----------------------------------------------------------------------------
(* Preservation of the inductive invariant: steps of a call are local *)

\* A step of call c touches no other call, no other key and no reconcile loop.
CallFrame(c) ==
    /\ \A d \in Calls : d # c => pc'[d] = pc[d] /\ result'[d] = result[d]
    /\ \A d \in Calls : req'[d].key = req[d].key
    /\ \A k \in Keys : k # req[c].key =>
          /\ rows'[k] = rows[k] /\ signatures'[k] = signatures[k]
          /\ broadcasts'[k] = broadcasts[k] /\ chain'[k] = chain[k]
    /\ UNCHANGED <<rpc, rkey, rresult>>

\* The conjuncts of IInv about one call and about one key.
CallInv(c) == LET k == req[c].key IN
    /\ pc[c] \in Owning => rows[k].status # "NONE"
    /\ pc[c] = "sign_requested" => signatures[k] = 0
    /\ pc[c] \in Unsent => broadcasts[k] = 0
    /\ pc[c] = "submit" => rows[k].submission /\ rows[k].status = "SUBMISSION_UNKNOWN"
    /\ pc[c] = "sent" => broadcasts[k] = 1
    /\ pc[c] = "record" => /\ result[c] \in {"Submitted", "Unknown", "Rejected"}
                           /\ result[c] = "Rejected" => broadcasts[k] = 0

KeyInv(k) ==
    /\ rows[k].status = "NONE" => signatures[k] = 0 /\ broadcasts[k] = 0
    /\ signatures[k] \in {0, 1}
    /\ broadcasts[k] \in {0, 1}
    /\ broadcasts[k] = 0 <=> chain[k] = "absent"
    /\ broadcasts[k] > 0 => /\ rows[k].submission
                            /\ rows[k].status \in {"SUBMISSION_UNKNOWN", "SUBMITTED",
                                                   "CONFIRMED", "REJECTED"}
    /\ rows[k].status = "CONFIRMED" => chain[k] = "confirmed"
    /\ rows[k].status = "REJECTED" => chain[k] \in {"absent", "reverted"}
    /\ rows[k].evidence => rows[k].status = "CONFIRMED"

\* IInv, by call and by key.
LEMMA IInvByParts ==
    IInv <=> /\ TypeOK
             /\ \A c, d \in Calls :
                   pc[c] \in Owning /\ pc[d] \in Owning /\ req[c].key = req[d].key => c = d
             /\ \A c \in Calls : CallInv(c)
             /\ \A k \in Keys : KeyInv(k)
             /\ SenderKnown
             /\ Observed
  BY DEF IInv, OneOwner, OwnerStage, KeyStage, BroadcastIsRecoverable, TerminalRowIsTruthful,
         CallInv, KeyInv

\* A step of call c is entitled to touch key k: c owns k or claims it, or it
\* leaves k alone.
Entitled(c, k) ==
    \/ pc[c] \in Owning
    \/ rows[k].status = "NONE"
    \/ /\ pc'[c] \notin Owning
       /\ rows'[k] = rows[k] /\ signatures'[k] = signatures[k]
       /\ broadcasts'[k] = broadcasts[k] /\ chain'[k] = chain[k]

\* What is settled about key k stays settled, and c remains known as the sender.
Stable(c, k) ==
    /\ Sender(c) => Sender(c)'
    /\ broadcasts'[k] = 1 => broadcasts[k] = 1 \/ Sender(c)'
    /\ chain[k] \in {"confirmed", "reverted"} => chain'[k] = chain[k]
    /\ rows[k].status \in Terminal => rows'[k].status = rows[k].status
    /\ IF rows[k].status = "NONE" THEN rows'[k].status \in {"NONE", "RESERVED"}
                                  ELSE rows'[k].status # "NONE"
    /\ \/ broadcasts'[k] = broadcasts[k]
       \/ /\ rows'[k] = rows[k] /\ rows[k].status = "SUBMISSION_UNKNOWN"
          /\ broadcasts[k] = 0 /\ broadcasts'[k] = 1

\* A step of a call preserves IInv as soon as it does so for that call and its key.
LEMMA LocalStep ==
    ASSUME IInv, TypeOK', NEW c \in Calls, NEW k \in Keys, k = req[c].key,
           CallFrame(c), Entitled(c, k), CallInv(c)', KeyInv(k)', Stable(c, k)
    PROVE  IInv'
  <1> USE DEF Entitled, Stable
  <1>0. /\ \A a, d \in Calls :
              pc[a] \in Owning /\ pc[d] \in Owning /\ req[a].key = req[d].key => a = d
        /\ \A d \in Calls : CallInv(d)
        /\ \A j \in Keys : KeyInv(j)
        /\ SenderKnown /\ Observed
    BY IInvByParts
  <1>1. \A a, d \in Calls :
           pc'[a] \in Owning /\ pc'[d] \in Owning /\ req'[a].key = req'[d].key => a = d
    <2>1. ASSUME NEW d \in Calls, d # c, pc'[c] \in Owning, pc'[d] \in Owning,
                 req[d].key = k
          PROVE  FALSE
      BY <1>0, <2>1 DEF CallFrame, CallInv
    <2> QED
      BY <1>0, <2>1 DEF CallFrame
  <1>2. \A d \in Calls : CallInv(d)'
    <2>1. ASSUME NEW d \in Calls, d # c PROVE CallInv(d)'
      <3>1. req[d].key \in Keys
        BY DEF IInv, TypeOK
      <3>2. CASE req[d].key # k
        BY <1>0, <2>1, <3>1, <3>2 DEF CallFrame, CallInv
      <3>3. CASE req[d].key = k /\ pc[d] \in Owning
        BY <1>0, <2>1, <3>1, <3>3 DEF CallFrame, CallInv
      <3>4. CASE pc[d] \notin Owning
        BY <2>1, <3>4 DEF CallFrame, CallInv, Owning, Unsent
      <3> QED
        BY <3>2, <3>3, <3>4
    <2> QED
      BY <2>1
  <1>3. \A j \in Keys : KeyInv(j)'
    BY <1>0 DEF CallFrame, KeyInv
  <1>4. SenderKnown'
    <2> SUFFICES ASSUME NEW j \in Keys, broadcasts'[j] = 1
                 PROVE  \E d \in Calls : req'[d].key = j /\ Sender(d)'
      BY DEF SenderKnown
    <2>1. CASE broadcasts[j] = 1
      <3>1. PICK d \in Calls : req[d].key = j /\ Sender(d)
        BY <1>0, <2>1 DEF SenderKnown
      <3>2. req'[d].key = j /\ Sender(d)'
        BY <3>1 DEF CallFrame, Sender
      <3> QED
        BY <3>2
    <2>2. CASE broadcasts[j] # 1
      BY <2>2 DEF CallFrame
    <2> QED
      BY <2>1, <2>2
  <1>5. Observed'
    <2> SUFFICES ASSUME NEW r \in Readers
                 PROVE  LET j == rkey[r] IN
                        /\ chain[j] \in {"confirmed", "reverted"} => chain'[j] = chain[j]
                        /\ rows[j].status \in Terminal => rows'[j].status = rows[j].status
      BY <1>0 DEF Observed, CallFrame, Terminal
    <2>1. rkey[r] \in Keys
      BY DEF IInv, TypeOK
    <2> QED
      BY <2>1 DEF CallFrame
  <1> QED
    BY <1>1, <1>2, <1>3, <1>4, <1>5
       DEF IInv, OneOwner, OwnerStage, KeyStage, BroadcastIsRecoverable,
           TerminalRowIsTruthful, CallInv, KeyInv

\* What recording an outcome does to its row.
LEMMA OutcomeEffect ==
    ASSUME TypeOK, NEW k \in Keys, NEW d, NEW o \in Outcomes,
           rows' \in {rows, OutcomeRecorded(k, d, o)}
    PROVE  /\ \A j \in Keys : j # k => rows'[j] = rows[j]
           /\ \/ rows'[k] = rows[k]
              \/ /\ rows[k].status \notin Terminal \cup {"NONE"}
                 /\ rows'[k].status = StatusOf(o)
                 /\ rows'[k].submission = rows[k].submission
                 /\ rows'[k].evidence = (o = "ConfirmedWithFill")
  <1>1. CASE rows' = rows
    BY <1>1
  <1>2. CASE rows' = OutcomeRecorded(k, d, o) /\ Matches(k, d, AttemptStatus \ Terminal)
    <2>1. rows' = [rows EXCEPT ![k] = RowWithOutcome(rows[k], o)]
      BY <1>2 DEF OutcomeRecorded
    <2>2. rows[k].status \notin Terminal \cup {"NONE"}
      BY <1>2 DEF Matches, AttemptStatus, Terminal
    <2>3. rows'[k] = RowWithOutcome(rows[k], o)
      BY <2>1 DEF TypeOK
    <2>4. /\ rows'[k].status = StatusOf(o)
          /\ rows'[k].submission = rows[k].submission
          /\ rows'[k].evidence = (o = "ConfirmedWithFill")
      BY <2>3 DEF RowWithOutcome
    <2> QED
      BY <2>1, <2>2, <2>4 DEF TypeOK
  <1>3. CASE rows' = OutcomeRecorded(k, d, o) /\ ~Matches(k, d, AttemptStatus \ Terminal)
    BY <1>3 DEF OutcomeRecorded
  <1> QED
    BY <1>1, <1>2, <1>3

\* What a step of execute does to its own call and key.
LEMMA ExecuteStepLocal ==
    ASSUME IInv, NEW c \in Calls, NEW k \in Keys, k = req[c].key, ExecuteStep(c)
    PROVE  CallFrame(c) /\ Entitled(c, k) /\ CallInv(c)' /\ KeyInv(k)' /\ Stable(c, k)
  <1>0. k = req[c].key
    OBVIOUS
  <1>1. TypeOK /\ CallInv(c) /\ KeyInv(k)
    BY IInvByParts
  <1>3. CASE Start(c)
    <2>1. CallFrame(c) /\ UNCHANGED <<rows, signatures, broadcasts, chain>>
      BY <1>1, <1>3 DEF Start, CallFrame, Goto, TypeOK, readVars, chainVars
    <2>2. pc[c] = "idle" /\ pc'[c] \in {"done", "payload"}
      BY <1>1, <1>3 DEF Start, Goto, TypeOK
    <2> QED
      BY <1>0, <1>1, <2>1, <2>2 DEF Entitled, Stable, Sender, CallInv, KeyInv, Owning, Unsent
  <1>4. CASE BindSigningRequest(c)
    <2>1. CallFrame(c) /\ UNCHANGED <<rows, signatures, broadcasts, chain>>
      BY <1>1, <1>4 DEF BindSigningRequest, Return, Continue, Goto, CallFrame, TypeOK,
                        readVars, chainVars
    <2>2. pc[c] = "payload" /\ pc'[c] \in {"done", "reserve"}
      BY <1>1, <1>4 DEF BindSigningRequest, Return, Continue, Goto, TypeOK
    <2> QED
      BY <1>0, <1>1, <2>1, <2>2 DEF Entitled, Stable, Sender, CallInv, KeyInv, Owning, Unsent
  <1>5. CASE Reserve(c)
    <2>1. /\ CallFrame(c) /\ pc[c] = "reserve"
          /\ UNCHANGED <<signatures, broadcasts, chain>>
      BY <1>0, <1>1, <1>5 DEF Reserve, Acked, Faulted, Return, Continue, Goto, CallFrame,
                              TypeOK, readVars, chainVars
    <2>2. CASE rows' = rows /\ pc'[c] = "done"
      BY <1>0, <1>1, <2>1, <2>2 DEF Entitled, Stable, Sender, CallInv, KeyInv, Owning, Unsent
    <2>3. CASE /\ rows[k].status = "NONE" /\ rows'[k] = RowReserved(req[c].digest)
               /\ pc'[c] \in {"done", "sign_requested"}
      <3>1. rows'[k].status = "RESERVED" /\ ~rows'[k].evidence
        BY <2>3 DEF RowReserved
      <3>2. req'[c].key = k
        BY <1>0, <2>1 DEF CallFrame
      <3> QED
        BY <1>0, <1>1, <2>1, <2>3, <3>1, <3>2
           DEF Entitled, Stable, Sender, CallInv, KeyInv, Owning, Unsent, Terminal
    <2> QED
      BY <1>0, <1>1, <1>5, <2>2, <2>3 DEF Reserve, Acked, Faulted, Return, Continue, Goto, TypeOK
  <1>6. CASE RecordSignRequested(c)
    <2>1. /\ CallFrame(c) /\ pc[c] = "sign_requested"
          /\ UNCHANGED <<broadcasts, chain>>
      BY <1>0, <1>1, <1>6 DEF RecordSignRequested, Acked, Faulted, Abort, Goto, CallFrame,
                              TypeOK, readVars
    <2>2. \/ pc'[c] = "abort" /\ signatures'[k] = 0
          \/ pc'[c] = "sign" /\ signatures'[k] = 1
      BY <1>0, <1>1, <1>6 DEF RecordSignRequested, Abort, Goto, TypeOK, CallInv
    <2>3. \/ rows' = rows
          \/ /\ rows[k].status \in {"RESERVED", "SIGN_REQUESTED"}
             /\ rows'[k] = RowWithStatus(rows[k], "SIGN_REQUESTED")
      BY <1>0, <1>1, <1>6 DEF RecordSignRequested, Matches, Acked, Faulted, TypeOK
    <2>4. \/ rows'[k] = rows[k]
          \/ /\ rows[k].status \in {"RESERVED", "SIGN_REQUESTED"}
             /\ rows'[k].status = "SIGN_REQUESTED"
             /\ rows'[k].evidence = rows[k].evidence
      BY <2>3 DEF RowWithStatus
    <2>5. req'[c].key = k
      BY <1>0, <2>1 DEF CallFrame
    <2> QED
      BY <1>0, <1>1, <2>1, <2>2, <2>4, <2>5
         DEF Entitled, Stable, Sender, CallInv, KeyInv, Owning, Unsent, Terminal
  <1>7. CASE SignerAnswers(c)
    <2>1. CallFrame(c) /\ UNCHANGED <<rows, signatures, broadcasts, chain>>
      BY <1>1, <1>7 DEF SignerAnswers, Abort, Continue, Goto, CallFrame, TypeOK, readVars,
                        chainVars
    <2>2. pc[c] = "sign" /\ pc'[c] \in {"signed", "abort"}
      BY <1>1, <1>7 DEF SignerAnswers, Abort, Continue, Goto, TypeOK
    <2>3. req'[c].key = k
      BY <1>0, <2>1 DEF CallFrame
    <2> QED
      BY <1>0, <1>1, <2>1, <2>2, <2>3
         DEF Entitled, Stable, Sender, CallInv, KeyInv, Owning, Unsent
  <1>8. CASE RecordSigned(c)
    <2>1. /\ CallFrame(c) /\ pc[c] = "signed"
          /\ UNCHANGED <<signatures, broadcasts, chain>>
      BY <1>0, <1>1, <1>8 DEF RecordSigned, Acked, Faulted, Abort, Continue, Goto, CallFrame,
                              TypeOK, readVars, chainVars
    <2>2. pc'[c] \in {"abort", "fetch"}
      BY <1>1, <1>8 DEF RecordSigned, Abort, Continue, Goto, TypeOK
    <2>3. \/ rows' = rows
          \/ /\ rows[k].status \in {"SIGN_REQUESTED", "SIGNED"}
             /\ rows'[k] = RowWithStatus(rows[k], "SIGNED")
      BY <1>0, <1>1, <1>8 DEF RecordSigned, Matches, Acked, Faulted, TypeOK
    <2>4. \/ rows'[k] = rows[k]
          \/ /\ rows[k].status \in {"SIGN_REQUESTED", "SIGNED"}
             /\ rows'[k].status = "SIGNED"
             /\ rows'[k].evidence = rows[k].evidence
      BY <2>3 DEF RowWithStatus
    <2>5. req'[c].key = k
      BY <1>0, <2>1 DEF CallFrame
    <2> QED
      BY <1>0, <1>1, <2>1, <2>2, <2>4, <2>5
         DEF Entitled, Stable, Sender, CallInv, KeyInv, Owning, Unsent, Terminal
  <1>9. CASE BindSubmission(c)
    <2>1. CallFrame(c) /\ UNCHANGED <<rows, signatures, broadcasts, chain>>
      BY <1>1, <1>9 DEF BindSubmission, Abort, Continue, Goto, CallFrame, TypeOK, readVars,
                        chainVars
    <2>2. pc[c] = "fetch" /\ pc'[c] \in {"persist", "abort"}
      BY <1>1, <1>9 DEF BindSubmission, Abort, Continue, Goto, TypeOK
    <2>3. req'[c].key = k
      BY <1>0, <2>1 DEF CallFrame
    <2> QED
      BY <1>0, <1>1, <2>1, <2>2, <2>3
         DEF Entitled, Stable, Sender, CallInv, KeyInv, Owning, Unsent
  <1>10. CASE RecordSubmission(c)
    <2>1. /\ CallFrame(c) /\ pc[c] = "persist"
          /\ UNCHANGED <<signatures, broadcasts, chain>>
      BY <1>0, <1>1, <1>10 DEF RecordSubmission, Acked, Faulted, Abort, Goto, CallFrame,
                               TypeOK, readVars, chainVars
    <2>2. \/ rows' = rows /\ pc'[c] = "abort"
          \/ /\ rows[k].status \in {"SIGNED", "SUBMISSION_UNKNOWN", "SUBMITTED"}
             /\ rows'[k] = RowWithSubmission(rows[k])
             /\ pc'[c] \in {"abort", "submit"}
      BY <1>0, <1>1, <1>10 DEF RecordSubmission, Matches, Acked, Faulted, Abort, Goto, TypeOK
    <2>3. \/ rows'[k] = rows[k] /\ pc'[c] = "abort"
          \/ /\ rows[k].status \in {"SIGNED", "SUBMISSION_UNKNOWN", "SUBMITTED"}
             /\ rows'[k].status = "SUBMISSION_UNKNOWN"
             /\ rows'[k].submission
             /\ rows'[k].evidence = rows[k].evidence
             /\ pc'[c] \in {"abort", "submit"}
      BY <2>2 DEF RowWithSubmission
    <2>4. req'[c].key = k
      BY <1>0, <2>1 DEF CallFrame
    <2> QED
      BY <1>0, <1>1, <2>1, <2>3, <2>4
         DEF Entitled, Stable, Sender, CallInv, KeyInv, Owning, Unsent, Terminal
  <1>11. CASE Broadcast(c)
    <2>1. /\ CallFrame(c) /\ pc[c] = "submit" /\ pc'[c] = "sent"
          /\ UNCHANGED <<rows, signatures>>
      BY <1>0, <1>1, <1>11 DEF Broadcast, Continue, Goto, CallFrame, TypeOK, readVars
    <2>2. broadcasts'[k] = 1 /\ chain'[k] = "pending"
      BY <1>0, <1>1, <1>11 DEF Broadcast, CallInv, Unsent, TypeOK
    <2>3. req'[c].key = k
      BY <1>0, <2>1 DEF CallFrame
    <2> QED
      BY <1>0, <1>1, <2>1, <2>2, <2>3
         DEF Entitled, Stable, Sender, CallInv, KeyInv, Owning, Unsent, Terminal
  <1>12. CASE AdapterAnswers(c)
    <2>1. CallFrame(c) /\ UNCHANGED <<rows, signatures, broadcasts, chain>>
      BY <1>1, <1>12 DEF AdapterAnswers, Goto, CallFrame, TypeOK, readVars, chainVars
    <2>2. /\ pc[c] \in {"submit", "sent"} /\ pc'[c] = "record"
          /\ result'[c] \in {"Submitted", "Unknown", "Rejected"}
          /\ result'[c] = "Rejected" => pc[c] = "submit"
      BY <1>1, <1>12 DEF AdapterAnswers, Goto, TypeOK
    <2>3. req'[c].key = k
      BY <1>0, <2>1 DEF CallFrame
    <2> QED
      BY <1>0, <1>1, <2>1, <2>2, <2>3
         DEF Entitled, Stable, Sender, CallInv, KeyInv, Owning, Unsent
  <1>13. ASSUME NEW o \in Outcomes, RecordOutcome(c, o)
         PROVE  /\ CallFrame(c) /\ UNCHANGED <<signatures, broadcasts, chain>>
                /\ pc'[c] = "done" /\ req'[c].key = k /\ result'[c] = result[c]
                /\ \/ rows'[k] = rows[k]
                   \/ /\ rows[k].status \notin Terminal \cup {"NONE"}
                      /\ rows'[k].status = StatusOf(o)
                      /\ rows'[k].submission = rows[k].submission
                      /\ rows'[k].evidence = (o = "ConfirmedWithFill")
    <2>1. rows' \in {rows, OutcomeRecorded(k, req[c].digest, o)}
      BY <1>0, <1>13 DEF RecordOutcome, Acked, Faulted
    <2>2. /\ \A j \in Keys : j # k => rows'[j] = rows[j]
          /\ \/ rows'[k] = rows[k]
             \/ /\ rows[k].status \notin Terminal \cup {"NONE"}
                /\ rows'[k].status = StatusOf(o)
                /\ rows'[k].submission = rows[k].submission
                /\ rows'[k].evidence = (o = "ConfirmedWithFill")
      BY <1>1, <2>1, OutcomeEffect
    <2> QED
      BY <1>0, <1>1, <1>13, <2>2 DEF RecordOutcome, Continue, Goto, CallFrame, TypeOK, readVars,
                                     chainVars
  <1>14. CASE RecordAbort(c)
    <2>1. pc[c] = "abort" /\ RecordOutcome(c, "FailedBeforeSubmit")
      BY <1>14 DEF RecordAbort
    <2>2. StatusOf("FailedBeforeSubmit") = "FAILED_BEFORE_SUBMIT"
      BY DEF StatusOf
    <2>3. /\ CallFrame(c) /\ UNCHANGED <<signatures, broadcasts, chain>>
          /\ pc'[c] = "done" /\ req'[c].key = k
          /\ \/ rows'[k] = rows[k]
             \/ /\ rows[k].status \notin Terminal \cup {"NONE"}
                /\ rows'[k].status = "FAILED_BEFORE_SUBMIT" /\ ~rows'[k].evidence
      BY <1>13, <2>1, <2>2, ReturnedValues
    <2> QED
      BY <1>0, <1>1, <2>1, <2>3
         DEF Entitled, Stable, Sender, CallInv, KeyInv, Owning, Unsent, Terminal
  <1>15. CASE RecordSubmitOutcome(c)
    <2>1. /\ pc[c] = "record" /\ RecordOutcome(c, result[c])
          /\ result[c] \in {"Submitted", "Unknown", "Rejected"}
      BY <1>1, <1>15 DEF RecordSubmitOutcome, CallInv
    <2>2. /\ StatusOf("Submitted") = "SUBMITTED" /\ StatusOf("Rejected") = "REJECTED"
          /\ StatusOf("Unknown") = "SUBMISSION_UNKNOWN"
      BY DEF StatusOf
    <2> QED
      BY <1>0, <1>1, <1>13, <2>1, <2>2, ReturnedValues
         DEF Entitled, Stable, Sender, CallInv, KeyInv, Owning, Unsent, Terminal
  <1> QED
    BY <1>3, <1>4, <1>5, <1>6, <1>7, <1>8, <1>9, <1>10, <1>11, <1>12, <1>14, <1>15
       DEF ExecuteStep

\* Every step of execute preserves IInv.
LEMMA ExecuteStepInv ==
    ASSUME IInv, NEW c \in Calls, ExecuteStep(c)
    PROVE  IInv'
  <1>0. PICK k \in Keys : k = req[c].key
    BY DEF IInv, TypeOK
  <1>1. TypeOK'
    BY ExecuteStepTypes DEF IInv
  <1> QED
    BY <1>0, <1>1, ExecuteStepLocal, LocalStep

\* Dropping the future of a call preserves IInv.
LEMMA CancelInv ==
    ASSUME IInv, NEW c \in Calls, Cancel(c), TypeOK'
    PROVE  IInv'
  <1>0. PICK k \in Keys : k = req[c].key
    BY DEF IInv, TypeOK
  <1>1. TypeOK /\ CallInv(c) /\ KeyInv(k)
    BY IInvByParts
  <1>2. /\ CallFrame(c) /\ UNCHANGED <<rows, signatures, broadcasts, chain>>
        /\ pc'[c] = "dead" /\ req'[c].key = k
    BY <1>0, <1>1 DEF Cancel, Continue, Goto, CallFrame, TypeOK, readVars, chainVars
  <1>3. Entitled(c, k) /\ CallInv(c)' /\ KeyInv(k)' /\ Stable(c, k)
    BY <1>0, <1>1, <1>2 DEF Entitled, Stable, Sender, CallInv, KeyInv, Owning, Unsent
  <1> QED
    BY <1>0, <1>2, <1>3, LocalStep

-----------------------------------------------------------------------------
(* Steps of a reconcile loop and of the environment *)

\* Calls and keys keep their part of IInv when the call, row and chain variables
\* keep their values.
LEMMA UnchangedInv ==
    ASSUME IInv, TypeOK', Observed',
           UNCHANGED <<pc, req, result, rows, signatures, broadcasts, chain>>
    PROVE  IInv'
  BY DEF IInv, OneOwner, OwnerStage, KeyStage, BroadcastIsRecoverable, TerminalRowIsTruthful,
         SenderKnown, Sender

\* Every step of reconcile preserves IInv.
LEMMA ReconcileStepInv ==
    ASSUME IInv, TypeOK', NEW r \in Readers, ReconcileStep(r)
    PROVE  IInv'
  <1>0. PICK k \in Keys : k = rkey[r]
    BY DEF IInv, TypeOK
  <1>1. /\ TypeOK /\ KeyInv(k) /\ Observed
        /\ \A c \in Calls : CallInv(c)
        /\ \A j \in Keys : KeyInv(j)
    BY IInvByParts
  <1>2. CASE LoadOutcome(r)
    <2>1. /\ UNCHANGED <<pc, req, result, rows, signatures, broadcasts, chain, rkey>>
          /\ \A q \in Readers : q # r => rpc'[q] = rpc[q] /\ rresult'[q] = rresult[q]
          /\ rpc'[r] # "record"
      BY <1>1, <1>2 DEF LoadOutcome, Acked, Faulted, RReturn, RGoto, callVars, chainVars, TypeOK
    <2>2. \/ rresult'[r] = rresult[r]
          \/ rows[k].status \in Terminal /\ rresult'[r] = DecodeOutcome(rows[k])
      BY <1>0, <1>1, <1>2 DEF LoadOutcome, RReturn, TypeOK
    <2>3. rows[k].status \in Terminal =>
             LET o == DecodeOutcome(rows[k]) IN
             /\ o \in {"ConfirmedWithFill", "ConfirmedNoFill"} => rows[k].status = "CONFIRMED"
             /\ o = "Rejected" => rows[k].status = "REJECTED"
             /\ o = "FailedBeforeSubmit" => rows[k].status = "FAILED_BEFORE_SUBMIT"
      BY DEF DecodeOutcome, Terminal
    <2>4. Observed'
      BY <1>0, <1>1, <2>1, <2>2, <2>3 DEF Observed, KeyInv
    <2> QED
      BY <2>1, <2>4, UnchangedInv
  <1>3. CASE LoadSubmission(r)
    <2>1. /\ UNCHANGED <<pc, req, result, rows, signatures, broadcasts, chain, rkey>>
          /\ \A q \in Readers : q # r => rpc'[q] = rpc[q] /\ rresult'[q] = rresult[q]
          /\ rpc'[r] # "record"
          /\ rresult'[r] \in {rresult[r], "InvalidTransition", "StoreUnavailable"}
      BY <1>1, <1>3 DEF LoadSubmission, Acked, Faulted, RReturn, RGoto, callVars, chainVars,
                        TypeOK
    <2>2. Observed'
      BY <1>1, <2>1 DEF Observed
    <2> QED
      BY <2>1, <2>2, UnchangedInv
  <1>4. ASSUME NEW o \in Outcomes, QueryChain(r, o) PROVE IInv'
    <2>1. /\ UNCHANGED <<pc, req, result, rows, signatures, broadcasts, chain, rkey>>
          /\ \A q \in Readers : q # r => rpc'[q] = rpc[q] /\ rresult'[q] = rresult[q]
          /\ rresult'[r] = o /\ o \in Observations(k)
      BY <1>0, <1>1, <1>4 DEF QueryChain, RGoto, callVars, chainVars, TypeOK
    <2>2. /\ o \in {"Unknown", "Rejected", "ConfirmedWithFill", "ConfirmedNoFill"}
          /\ o = "Rejected" => chain[k] = "reverted"
          /\ o \in {"ConfirmedWithFill", "ConfirmedNoFill"} => chain[k] = "confirmed"
      BY <2>1 DEF Observations
    <2>3. Observed'
      BY <1>0, <1>1, <2>1, <2>2 DEF Observed
    <2> QED
      BY <2>1, <2>3, UnchangedInv
  <1>5. CASE QueryFails(r)
    <2>1. /\ UNCHANGED <<pc, req, result, rows, signatures, broadcasts, chain, rkey>>
          /\ \A q \in Readers : q # r => rpc'[q] = rpc[q] /\ rresult'[q] = rresult[q]
          /\ rpc'[r] # "record" /\ rresult'[r] = "AdapterUnavailable"
      BY <1>1, <1>5 DEF QueryFails, RReturn, RGoto, callVars, chainVars, TypeOK
    <2>2. Observed'
      BY <1>1, <2>1 DEF Observed
    <2> QED
      BY <2>1, <2>2, UnchangedInv
  <1>6. CASE RecordObservation(r)
    <2> DEFINE o == rresult[r]
    <2>1. /\ UNCHANGED <<pc, req, result, signatures, broadcasts, chain, rkey, rresult>>
          /\ \A q \in Readers : rpc'[q] = "record" => rpc[q] = "record"
          /\ rpc[r] = "record"
          /\ rows' \in {rows, OutcomeRecorded(k, rows[k].digest, o)}
      BY <1>0, <1>1, <1>6 DEF RecordObservation, Acked, Faulted, RGoto, callVars, chainVars,
                              TypeOK
    <2>2. /\ o \in {"Unknown", "Rejected", "ConfirmedWithFill", "ConfirmedNoFill"}
          /\ o = "Rejected" => chain[k] = "reverted"
          /\ o \in {"ConfirmedWithFill", "ConfirmedNoFill"} => chain[k] = "confirmed"
      BY <1>0, <1>1, <2>1 DEF Observed
    <2> HIDE DEF o
    <2>3. o \in Outcomes
      BY <2>2 DEF Outcomes
    <2>4. /\ \A j \in Keys : j # k => rows'[j] = rows[j]
          /\ \/ rows'[k] = rows[k]
             \/ /\ rows[k].status \notin Terminal \cup {"NONE"}
                /\ rows'[k].status = StatusOf(o)
                /\ rows'[k].submission = rows[k].submission
                /\ rows'[k].evidence = (o = "ConfirmedWithFill")
      BY <1>1, <2>1, <2>3, OutcomeEffect
    <2>5. /\ o = "Unknown" => StatusOf(o) = "SUBMISSION_UNKNOWN"
          /\ o = "Rejected" => StatusOf(o) = "REJECTED"
          /\ o \in {"ConfirmedWithFill", "ConfirmedNoFill"} => StatusOf(o) = "CONFIRMED"
      BY DEF StatusOf
    <2>6. KeyInv(k)'
      BY <1>1, <2>1, <2>2, <2>4, <2>5 DEF KeyInv, Terminal
    <2>7. \A j \in Keys : KeyInv(j)'
      BY <1>1, <2>1, <2>4, <2>6 DEF KeyInv
    <2>8. ASSUME NEW c \in Calls PROVE CallInv(c)'
      <3>1. req[c].key \in Keys
        BY <1>1 DEF TypeOK
      <3>2. CASE req[c].key # k
        BY <1>1, <2>1, <2>4, <3>1, <3>2 DEF CallInv
      <3>3. CASE req[c].key = k
        BY <1>1, <2>1, <2>2, <2>4, <2>5, <3>3 DEF CallInv, KeyInv, Unsent
      <3> QED
        BY <3>2, <3>3
    <2>9. Observed'
      <3>1. \A j \in Keys : rows[j].status \in Terminal => rows'[j].status = rows[j].status
        BY <2>4
      <3>2. \A q \in Readers : rkey[q] \in Keys
        BY <1>1 DEF TypeOK
      <3> QED
        BY <1>1, <2>1, <3>1, <3>2 DEF Observed, Terminal
    <2>10. SenderKnown'
      BY <2>1 DEF IInv, SenderKnown, Sender
    <2> QED
      BY <2>1, <2>7, <2>8, <2>9, <2>10
         DEF IInv, OneOwner, OwnerStage, KeyStage, BroadcastIsRecoverable,
             TerminalRowIsTruthful, CallInv, KeyInv
  <1> QED
    BY <1>2, <1>3, <1>4, <1>5, <1>6 DEF ReconcileStep

\* Every step preserves IInv.
LEMMA NextInv ==
    ASSUME IInv, [Next]_vars
    PROVE  IInv'
  <1>0. TypeOK' /\ TypeOK
    BY NextTypes DEF IInv
  <1>1. ASSUME NEW c \in Calls, ExecuteStep(c) PROVE IInv'
    BY <1>1, ExecuteStepInv
  <1>2. ASSUME NEW c \in Calls, Cancel(c) PROVE IInv'
    BY <1>0, <1>2, CancelInv
  <1>3. ASSUME NEW r \in Readers, NEW k \in Keys, StartReconcile(r, k) PROVE IInv'
    <2>1. /\ UNCHANGED <<pc, req, result, rows, signatures, broadcasts, chain>>
          /\ \A q \in Readers : q # r => /\ rpc'[q] = rpc[q] /\ rresult'[q] = rresult[q]
                                         /\ rkey'[q] = rkey[q]
          /\ rpc'[r] # "record" /\ rresult'[r] = "none"
      BY <1>0, <1>3 DEF StartReconcile, RGoto, callVars, chainVars, TypeOK
    <2>2. Observed'
      BY <2>1 DEF IInv, Observed
    <2> QED
      BY <1>0, <2>1, <2>2, UnchangedInv
  <1>4. ASSUME NEW r \in Readers, ReconcileStep(r) PROVE IInv'
    BY <1>0, <1>4, ReconcileStepInv
  <1>5. ASSUME NEW k \in Keys, ChainSettles(k) PROVE IInv'
    <2>1. /\ UNCHANGED <<pc, req, result, rows, signatures, broadcasts, rpc, rkey, rresult>>
          /\ \A j \in Keys : j # k => chain'[j] = chain[j]
          /\ chain[k] = "pending" /\ chain'[k] \in {"confirmed", "reverted"}
      BY <1>0, <1>5 DEF ChainSettles, callVars, readVars, TypeOK
    <2>2. \A j \in Keys : chain[j] \in {"confirmed", "reverted"} => chain'[j] = chain[j]
      BY <2>1
    <2>3. Observed'
      <3>1. \A q \in Readers : rkey[q] \in Keys
        BY <1>0 DEF TypeOK
      <3> QED
        BY <2>1, <2>2, <3>1 DEF IInv, Observed
    <2>4. KeyStage' /\ TerminalRowIsTruthful'
      BY <2>1 DEF IInv, KeyStage, TerminalRowIsTruthful
    <2> QED
      BY <1>0, <2>1, <2>3, <2>4
         DEF IInv, OneOwner, OwnerStage, BroadcastIsRecoverable, SenderKnown, Sender
  <1>6. CASE DisableTrading \/ Tick \/ UNCHANGED vars
    <2>1. UNCHANGED <<pc, req, result, rows, signatures, broadcasts, chain, rpc, rkey, rresult>>
      BY <1>6 DEF DisableTrading, Tick, vars, callVars, readVars, chainVars
    <2>2. Observed'
      BY <2>1 DEF IInv, Observed
    <2> QED
      BY <1>0, <2>1, <2>2, UnchangedInv
  <1>7. CASE Crash
    <2>1. /\ UNCHANGED <<req, result, rows, signatures, broadcasts, chain, rkey>>
          /\ \A c \in Calls : pc'[c] \in {pc[c], "dead"} /\ pc'[c] \in {"idle", "done", "dead"}
          /\ \A c \in Calls : pc[c] \in {"idle", "done"} => pc'[c] = pc[c]
          /\ \A r \in Readers : rpc'[r] = "idle" /\ rresult'[r] = "none"
      BY <1>0, <1>7 DEF Crash, chainVars, TypeOK
    <2>2. OneOwner' /\ OwnerStage'
      BY <2>1 DEF OneOwner, OwnerStage, Owning, Unsent
    <2>3. Observed'
      BY <2>1 DEF Observed
    <2>4. SenderKnown'
      <3>1. \A c \in Calls : Sender(c) => Sender(c)'
        BY <2>1 DEF Sender
      <3> QED
        BY <2>1, <3>1 DEF IInv, SenderKnown
    <2> QED
      BY <1>0, <2>1, <2>2, <2>3, <2>4
         DEF IInv, KeyStage, BroadcastIsRecoverable, TerminalRowIsTruthful
  <1> QED
    BY <1>1, <1>2, <1>3, <1>4, <1>5, <1>6, <1>7 DEF Next

-----------------------------------------------------------------------------
(* The theorems *)

\* The inductive invariant holds of the initial states.
LEMMA InitInv == Init => IInv
  <1> SUFFICES ASSUME Init PROVE IInv
    OBVIOUS
  <1>1. TypeOK
    <2>1. CB!DefaultEntry \in CB!Entry /\ SB!DefaultEntry \in SB!Entry
      BY BreakersAssumption
         DEF CB!DefaultEntry, CB!Entry, CB!Health, SB!DefaultEntry, SB!Entry, SB!Health
    <2>2. NoRow \in Row
      BY DEF NoRow, Row
    <2> QED
      BY <2>1, <2>2, LocationValues, ReturnedValues DEF Init, TypeOK
  <1>2. \A k \in Keys : KeyInv(k)
    <2> SUFFICES ASSUME NEW k \in Keys PROVE KeyInv(k)
      OBVIOUS
    <2>1. rows[k].status = "NONE" /\ rows[k].evidence = FALSE
      BY DEF Init, NoRow
    <2>2. signatures[k] = 0 /\ broadcasts[k] = 0 /\ chain[k] = "absent"
      BY DEF Init
    <2>3. ~(broadcasts[k] > 0)
      BY <2>2
    <2> QED
      BY <2>1, <2>2, <2>3 DEF KeyInv
  <1>3. \A c \in Calls : CallInv(c) /\ pc[c] \notin Owning
    BY DEF Init, CallInv, Owning, Unsent
  <1>4. SenderKnown /\ Observed
    BY DEF Init, SenderKnown, Observed
  <1> QED
    BY <1>1, <1>2, <1>3, <1>4, IInvByParts

\* The inductive invariant: a claimed key has at most one live owner, and the row,
\* the chain and what callers and reconcile loops hold agree with what it has done.
THEOREM Inductive == Spec => []IInv
  <1>1. IInv /\ [Next]_vars => IInv'
    BY NextInv
  <1> QED
    BY InitInv, <1>1, PTL DEF Spec

\* Type correctness of the relay, its rows and its two breakers.
THEOREM TypeCorrect == Spec => []TypeOK
  BY Inductive, PTL DEF IInv

\* At most one signature and one broadcast per idempotency key, whatever calls
\* race, are cancelled or crash, and whatever store writes fail.
THEOREM NoDoubleSend == Spec => []AtMostOneBroadcast
  <1>1. IInv => AtMostOneBroadcast
    <2> SUFFICES ASSUME IInv, NEW k \in Keys
                 PROVE  broadcasts[k] <= 1 /\ signatures[k] <= 1
      BY DEF AtMostOneBroadcast
    <2>1. broadcasts[k] \in {0, 1} /\ signatures[k] \in {0, 1}
      BY DEF IInv, KeyStage
    <2> QED
      BY <2>1
  <1> QED
    BY <1>1, Inductive, PTL

\* Whatever was broadcast can be reconciled from the durable row.
THEOREM Recoverable == Spec => []BroadcastIsRecoverable
  BY Inductive, PTL DEF IInv

\* Terminal rows tell what the chain did.
THEOREM Truthful == Spec => []TerminalRowIsTruthful
  BY Inductive, PTL DEF IInv

\* A lone execute() call whose result the limit engine reads as a failure before
\* the submit has sent nothing.
THEOREM PreSendErrorSafe == Spec => []PreSendErrorMeansUnsent
  <1>1. IInv => PreSendErrorMeansUnsent
    <2> SUFFICES ASSUME IInv, NEW c \in Calls, pc[c] = "done", SoleCall(c),
                        MapOutcome(result[c]) = "FailedBeforeSubmit"
                 PROVE  broadcasts[req[c].key] = 0
      BY DEF PreSendErrorMeansUnsent
    <2>1. req[c].key \in Keys /\ broadcasts[req[c].key] \in {0, 1}
      BY DEF IInv, TypeOK, KeyStage
    <2>2. result[c] \notin {"Submitted", "Unknown"}
      BY DEF MapOutcome, PreSendErrors
    <2>3. \A d \in Calls : req[d].key = req[c].key => ~Sender(d)
      BY <2>2 DEF SoleCall, Sender
    <2> QED
      BY <2>1, <2>3 DEF IInv, SenderKnown
  <1> QED
    BY <1>1, Inductive, PTL

\* What reconcile returned is true, and remains true.
THEOREM ReconcileTruthful == Spec => []ReconcileIsTruthful
  <1>1. IInv => ReconcileIsTruthful
    <2> SUFFICES ASSUME IInv, NEW r \in Readers
                 PROVE  /\ rresult[r] \in {"ConfirmedWithFill", "ConfirmedNoFill"}
                               => chain[rkey[r]] = "confirmed"
                        /\ rresult[r] = "Rejected" => chain[rkey[r]] # "confirmed"
                        /\ rresult[r] = "FailedBeforeSubmit" => broadcasts[rkey[r]] = 0
      BY DEF ReconcileIsTruthful
    <2>1. rkey[r] \in Keys
      BY DEF IInv, TypeOK
    <2>2. KeyInv(rkey[r]) /\ Observed
      BY <2>1, IInvByParts
    <2> QED
      BY <2>2 DEF Observed, KeyInv
  <1> QED
    BY <1>1, Inductive, PTL

-----------------------------------------------------------------------------
(* The relay implements the attempt ledger: reading the status of a row as the *)
(* verdict on its key, every step of the relay is a step of AttemptLedger or   *)
(* leaves it alone.                                                            *)

\* What VerdictOf says of each status.
LEMMA VerdictValues ==
    ASSUME NEW row
    PROVE  /\ row.status = "NONE" <=> VerdictOf(row) = "unclaimed"
           /\ row.status = "CONFIRMED" <=> VerdictOf(row) = "confirmed"
           /\ row.status = "REJECTED" <=> VerdictOf(row) = "rejected"
           /\ row.status = "FAILED_BEFORE_SUBMIT" <=> VerdictOf(row) = "unsent"
           /\ VerdictOf(row) \in {"unclaimed", "confirmed", "rejected", "unsent", "open"}
  BY DEF VerdictOf

\* The change of one key that the ledger allows.
Allowed(k) ==
    /\ rows[k].status \in Terminal => rows'[k].status = rows[k].status
    /\ IF rows[k].status = "NONE" THEN rows'[k].status \in {"NONE", "RESERVED"}
                                  ELSE rows'[k].status # "NONE"
    /\ \/ broadcasts'[k] = broadcasts[k]
       \/ /\ rows'[k] = rows[k] /\ rows[k].status = "SUBMISSION_UNKNOWN"
          /\ broadcasts[k] = 0 /\ broadcasts'[k] = 1

\* A step that touches one key, in an allowed way, is a step of the ledger.
LEMMA LedgerStep ==
    ASSUME TypeOK, TypeOK', NEW k \in Keys, Allowed(k), KeyInv(k)',
           \A j \in Keys : j # k => rows'[j] = rows[j] /\ broadcasts'[j] = broadcasts[j]
    PROVE  [Ledger!Next]_(Ledger!vars)
  <1> DEFINE v == [j \in Keys |-> VerdictOf(rows[j])]
             w == [j \in Keys |-> VerdictOf(rows'[j])]
  <1>0. /\ broadcasts \in [Keys -> Nat] /\ broadcasts' \in [Keys -> Nat]
        /\ v[k] = VerdictOf(rows[k]) /\ w[k] = VerdictOf(rows'[k])
    BY DEF TypeOK
  <1>1. w = [v EXCEPT ![k] = w[k]]
    OBVIOUS
  <1>2. broadcasts' = [broadcasts EXCEPT ![k] = broadcasts'[k]]
    BY <1>0
  <1>3. CASE w[k] = v[k] /\ broadcasts'[k] = broadcasts[k]
    <2>1. w = v /\ broadcasts' = broadcasts
      BY <1>0, <1>1, <1>2, <1>3
    <2> QED
      BY <2>1 DEF Ledger!vars
  <1>4. CASE broadcasts'[k] # broadcasts[k]
    <2>1. /\ rows'[k] = rows[k] /\ v[k] = "open"
          /\ broadcasts[k] = 0 /\ broadcasts'[k] = 1
      BY <1>0, <1>4 DEF Allowed, VerdictOf
    <2>2. w = v /\ broadcasts' = [broadcasts EXCEPT ![k] = 1]
      BY <1>0, <1>1, <1>2, <2>1
    <2>3. Ledger!Send(k)
      BY <2>1, <2>2 DEF Ledger!Send
    <2> QED
      BY <2>3 DEF Ledger!Next
  <1>5. CASE w[k] # v[k] /\ broadcasts'[k] = broadcasts[k]
    <2>1. broadcasts' = broadcasts
      BY <1>2, <1>5, <1>0
    <2>2. CASE rows[k].status = "NONE"
      <3>1. v[k] = "unclaimed" /\ w[k] = "open"
        BY <1>0, <1>5, <2>2 DEF Allowed, VerdictOf
      <3>2. Ledger!Claim(k)
        BY <1>1, <2>1, <3>1 DEF Ledger!Claim
      <3> QED
        BY <3>2 DEF Ledger!Next
    <2>3. CASE rows[k].status # "NONE"
      <3>1. v[k] = "open" /\ w[k] \in {"confirmed", "rejected", "unsent"}
        BY <1>0, <1>5, <2>3 DEF Allowed, VerdictOf, Terminal
      <3>2. /\ w[k] = "confirmed" => broadcasts[k] = 1
            /\ w[k] = "unsent" => broadcasts[k] = 0
        <4>1. /\ w[k] = "confirmed" => rows'[k].status = "CONFIRMED"
              /\ w[k] = "unsent" => rows'[k].status = "FAILED_BEFORE_SUBMIT"
          BY <1>0, VerdictValues
        <4>2. broadcasts'[k] \in {0, 1}
          BY DEF KeyInv
        <4> QED
          BY <1>5, <4>1, <4>2 DEF KeyInv
      <3>3. Ledger!Decide(k, w[k])
        BY <1>1, <2>1, <3>1, <3>2 DEF Ledger!Decide
      <3> QED
        BY <3>1, <3>3 DEF Ledger!Next
    <2> QED
      BY <2>2, <2>3
  <1> QED
    BY <1>3, <1>4, <1>5

\* A step that changes no row and sends nothing leaves the ledger alone.
LEMMA LedgerStutter ==
    ASSUME UNCHANGED <<rows, broadcasts>>
    PROVE  [Ledger!Next]_(Ledger!vars)
  BY DEF Ledger!vars

\* The relay implements the attempt ledger: a key is claimed once, sent at most
\* once and only while its row is open, and a terminal row is final and true.
THEOREM RelayImplementsLedger == Spec => ImplementsLedger
  <1>1. Init => Ledger!Init
    BY DEF Init, Ledger!Init, NoRow, VerdictOf
  <1>2. IInv /\ IInv' /\ [Next]_vars => [Ledger!Next]_(Ledger!vars)
    <2> SUFFICES ASSUME IInv, IInv', [Next]_vars PROVE [Ledger!Next]_(Ledger!vars)
      OBVIOUS
    <2>0. TypeOK /\ TypeOK' /\ \A k \in Keys : KeyInv(k) /\ KeyInv(k)'
      BY DEF IInv, KeyStage, BroadcastIsRecoverable, TerminalRowIsTruthful, KeyInv
    <2>1. ASSUME NEW c \in Calls, ExecuteStep(c) PROVE [Ledger!Next]_(Ledger!vars)
      <3>1. PICK k \in Keys : k = req[c].key
        BY <2>0 DEF TypeOK
      <3>2. CallFrame(c) /\ Stable(c, k)
        BY <2>1, <3>1, ExecuteStepLocal
      <3>3. Allowed(k)
        BY <3>2 DEF Stable, Allowed
      <3>4. \A j \in Keys : j # k => rows'[j] = rows[j] /\ broadcasts'[j] = broadcasts[j]
        BY <3>1, <3>2 DEF CallFrame
      <3> QED
        BY <2>0, <3>3, <3>4, LedgerStep
    <2>2. ASSUME NEW r \in Readers, ReconcileStep(r) PROVE [Ledger!Next]_(Ledger!vars)
      <3>1. PICK k \in Keys : k = rkey[r]
        BY <2>0 DEF TypeOK
      <3>2. CASE RecordObservation(r)
        <4>1. rresult[r] \in Outcomes
          BY <3>2 DEF IInv, Observed, RecordObservation, Outcomes
        <4>2. /\ broadcasts' = broadcasts
              /\ rows' \in {rows, OutcomeRecorded(k, rows[k].digest, rresult[r])}
          BY <3>1, <3>2 DEF RecordObservation, Acked, Faulted, chainVars
        <4>3. /\ \A j \in Keys : j # k => rows'[j] = rows[j]
              /\ \/ rows'[k] = rows[k]
                 \/ /\ rows[k].status \notin Terminal \cup {"NONE"}
                    /\ rows'[k].status = StatusOf(rresult[r])
          BY <2>0, <4>1, <4>2, OutcomeEffect
        <4>4. StatusOf(rresult[r]) # "NONE"
          BY <4>1 DEF StatusOf, Outcomes
        <4>5. Allowed(k)
          BY <4>2, <4>3, <4>4 DEF Allowed
        <4> QED
          BY <2>0, <4>2, <4>3, <4>5, LedgerStep
      <3>3. CASE ~RecordObservation(r)
        <4>1. UNCHANGED <<rows, broadcasts>>
          BY <2>2, <3>3 DEF ReconcileStep, LoadOutcome, LoadSubmission, QueryChain, QueryFails,
                            Acked, Faulted, chainVars
        <4> QED
          BY <4>1, LedgerStutter
      <3> QED
        BY <3>2, <3>3
    <2>3. ASSUME \/ \E c \in Calls : Cancel(c)
                 \/ \E r \in Readers, k \in Keys : StartReconcile(r, k)
                 \/ \E k \in Keys : ChainSettles(k)
                 \/ DisableTrading \/ Tick \/ Crash
                 \/ UNCHANGED vars
          PROVE  [Ledger!Next]_(Ledger!vars)
      <3>1. UNCHANGED <<rows, broadcasts>>
        BY <2>3 DEF Cancel, StartReconcile, ChainSettles, DisableTrading, Tick, Crash, vars,
                    chainVars
      <3> QED
        BY <3>1, LedgerStutter
    <2> QED
      BY <2>1, <2>2, <2>3 DEF Next
  <1> QED
    BY <1>1, <1>2, Inductive, PTL DEF Spec, ImplementsLedger, Ledger!Spec
=============================================================================
