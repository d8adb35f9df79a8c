----------------------------- MODULE Orchestrator -----------------------------
(***************************************************************************)
(* limit-engine's Orchestrator over its durable store, for one order:      *)
(* concurrent tick() calls, the owner's cancel, the recovery pass, the     *)
(* outbox publisher, and the attempt executor below them.                  *)
(*                                                                         *)
(* The store keeps a transition stream, which is authoritative, an object  *)
(* materialised from it, which may lag one transition behind, and the      *)
(* attempt journal.  Every write holds the process-wide seal lock, so a    *)
(* write is one action; a fault may leave it half done.                    *)
(*                                                                         *)
(* The executor is what AttemptLedger promises of the relay: an attempt is *)
(* sent at most once, and a verdict about it is true.                      *)
(***************************************************************************)
EXTENDS OrderFsm, Sequences, FiniteSetsExt, TLC

CONSTANTS
    Tickers,            \* concurrent tick() calls, each repeated for ever
    Recoverer,          \* the recovery pass
    Cancellers,         \* the owner's cancel_order calls
    MaxInput, MinFill, AllowPartial, ExpiresAt,     \* the terms of the order
    MaxAttemptsPerOrder,    \* AttemptLimits
    HasBus,                 \* whether an event bus is attached
    RelayStoreFails,        \* whether the relay's store may fail during reconcile
    MaxStream,          \* bound: no call begins once the stream is this long
    MaxNow,             \* bound: last instant of the clock
    MaxFaults,          \* bound: store operations that fail
    MaxCrashes          \* bound: process restarts and dropped calls

ASSUME OrchestratorAssumption ==
    /\ Recoverer \notin Tickers \cup Cancellers
    /\ Tickers \cap Cancellers = {}
    /\ MaxInput \in Nat /\ MinFill \in 1..MaxInput
    /\ AllowPartial \in BOOLEAN
    /\ ~AllowPartial => MinFill = MaxInput
    /\ ExpiresAt \in Nat
    /\ MaxAttemptsPerOrder \in Nat
    /\ HasBus \in BOOLEAN
    /\ RelayStoreFails \in BOOLEAN
    /\ MaxStream \in Nat /\ MaxNow \in Nat /\ MaxFaults \in Nat /\ MaxCrashes \in Nat

terms == [max_input |-> MaxInput, min_fill |-> MinFill, allow_partial |-> AllowPartial,
          expires_at |-> ExpiresAt]

Procs == Tickers \cup Cancellers \cup {Recoverer}

\* An attempt takes five transitions, so the bound on the stream bounds them: the
\* ticks under way when it is reached may each begin one more.
Attempts == 1..(MaxStream \div 5 + Cardinality(Tickers))

VARIABLES
    stream,     \* durable: the sealed transition events
    object,     \* durable: the materialised order record
    journal,    \* durable: the attempt events
    enabled,    \* process: the live kill switch
    pc,         \* the await each call is suspended at
    snap,       \* the order record each call works on
    work,       \* its other locals
    verdict, sends,     \* external: the attempt ledger of the executor
    fate,       \* external: what became of the transaction of an attempt
    delivered,  \* external: transition sequences the event bus accepted
    now, faults, crashes

durableVars == <<stream, object, journal>>
callVars    == <<pc, snap, work>>
relayVars   == <<verdict, sends, fate>>
envVars     == <<enabled, delivered, now, crashes>>
vars == <<stream, object, journal, enabled, pc, snap, work, verdict, sends, fate, delivered,
          now, faults, crashes>>

Relay == INSTANCE AttemptLedger WITH Keys <- Attempts

-----------------------------------------------------------------------------
(* Records *)

\* StoredLimitOrder: the order, its compare-and-swap version, the sequence of
\* the last transition it holds, and the outbox watermark.
NewObject ==
    [status |-> "Created", remaining |-> MaxInput, filled |-> 0,
     version |-> 1, seq |-> 0, published |-> 0]

\* The record apply_transition returns for an accepted transition.
NextObject(o, to, fill, at) ==
    [status    |-> EffectiveStatus(terms, o, to, fill, at),
     remaining |-> RemainingAfter(o, fill),
     filled    |-> FilledAfter(o, fill),
     version   |-> o.version + 1,
     seq       |-> o.seq + 1,
     published |-> o.published]

\* OrderTransitionEvent: the transition and the order it leads to.
Event(o, to, fill, at) ==
    [from |-> o.status, to |-> to, fill |-> fill, at |-> at,
     status    |-> EffectiveStatus(terms, o, to, fill, at),
     remaining |-> RemainingAfter(o, fill),
     filled    |-> FilledAfter(o, fill)]

\* reconcile_lagging: the object, brought up to the head of the stream.
Repaired ==
    IF object.seq = Len(stream) THEN object
    ELSE [status    |-> stream[Len(stream)].status,
          remaining |-> stream[Len(stream)].remaining,
          filled    |-> stream[Len(stream)].filled,
          version   |-> object.version + (Len(stream) - object.seq),
          seq       |-> Len(stream),
          published |-> object.published]

InFlightPhases == {"Bound", "Signed", "Submitted", "Unknown"}
TerminalPhases == {"Confirmed", "Rejected", "FailedBeforeSubmit"}

\* OrderAttemptEvent: input is the bound chunk of a Bound event and the realised
\* input of a Confirmed one; compliant is whether the realised fill meets the
\* chunk and the net floor.
AttemptEvent(n, phase, input, compliant, at) ==
    [attempt |-> n, phase |-> phase, input |-> input, compliant |-> compliant, at |-> at]

LatestAttempt == IF journal = <<>> THEN 0 ELSE journal[Len(journal)].attempt

BoundChunk(n) ==
    LET bound == {i \in 1..Len(journal) :
                      journal[i].attempt = n /\ journal[i].phase = "Bound"}
    IN  IF bound = {} THEN 0 ELSE journal[CHOOSE i \in bound : TRUE].input

\* confirmed_input_total
ConfirmedTotal ==
    LET confirmed == {i \in 1..Len(journal) : journal[i].phase = "Confirmed"}
    IN  MapThenSumSet(LAMBDA i : journal[i].input, confirmed)

IdleWork == [at |-> 0, chunk |-> 0, attempt |-> 0, prior |-> "none", res |-> "none",
             todo |-> <<>>, fill |-> NoFill, next |-> "idle", mark |-> 0]

-----------------------------------------------------------------------------
Init ==
    /\ stream = <<>>
    /\ object = NewObject
    /\ journal = <<>>
    /\ enabled = TRUE
    /\ pc = [p \in Procs |-> "idle"]
    /\ snap = [p \in Procs |-> NewObject]
    /\ work = [p \in Procs |-> IdleWork]
    /\ Relay!Init
    /\ fate = [n \in Attempts |-> "none"]
    /\ delivered = {}
    /\ now = 0
    /\ faults = 0
    /\ crashes = 0

\* The call ends.
Finish(p) ==
    /\ pc' = [pc EXCEPT ![p] = "idle"]
    /\ snap' = [snap EXCEPT ![p] = NewObject]
    /\ work' = [work EXCEPT ![p] = IdleWork]

\* A pass ends with the outbox, if there is one; a tick() whether it succeeded or
\* not.
Publish(p) ==
    /\ pc' = [pc EXCEPT ![p] = IF HasBus THEN "publish" ELSE "idle"]
    /\ snap' = [snap EXCEPT ![p] = NewObject]
    /\ work' = [work EXCEPT ![p] = IdleWork]

\* An error ends the call: a tick() still publishes, the others return it.
Fail(p) == IF p \in Tickers THEN Publish(p) ELSE Finish(p)

\* The call goes on to await l, with its locals w.
Goto(p, l, w) ==
    /\ pc' = [pc EXCEPT ![p] = l]
    /\ work' = [work EXCEPT ![p] = w]

\* The call persists the transitions todo one by one, then goes on to await l.
Advance(p, w, todo, l) ==
    Goto(p, "append", [w EXCEPT !.todo = todo, !.next = l])

\* A store operation fails.
Fault == faults < MaxFaults /\ faults' = faults + 1

-----------------------------------------------------------------------------
(* append_transition *)

\* The transition p persists next, and whether the stream already holds it.
To(p) == Head(work[p].todo)

Pending(p) == Event(snap[p], To(p), work[p].fill, work[p].at)

Acceptable(p) == Accepts(terms, snap[p], To(p), work[p].fill, work[p].at)

\* The call continues from the record the store returned.
Persisted(p, record) ==
    LET rest == Tail(work[p].todo)
        w == [work[p] EXCEPT !.todo = rest, !.fill = NoFill]
    IN  IF rest # <<>>
        THEN Goto(p, "append", w) /\ snap' = [snap EXCEPT ![p] = record]
        ELSE IF work[p].next = "publish"
        THEN Publish(p)
        ELSE IF work[p].next = "idle"
        THEN Finish(p)
        ELSE Goto(p, work[p].next, w) /\ snap' = [snap EXCEPT ![p] = record]

\* apply_transition refuses; or the sequence is taken: by the same transition,
\* and the head of the stream is returned, or by another one.
ReplayTransition(p) ==
    /\ pc[p] = "append"
    /\ ~Acceptable(p) \/ snap[p].seq < Len(stream)
    /\ IF Acceptable(p) /\ stream[snap[p].seq + 1] = Pending(p)
       THEN object' = Repaired /\ Persisted(p, Repaired)
       ELSE Fail(p) /\ UNCHANGED object
    /\ UNCHANGED <<stream, journal, relayVars, envVars, faults>>

\* Mutant: the event is appended whatever the stream holds by now.
AppendBlindly(p) ==
    LET record == NextObject(snap[p], To(p), work[p].fill, work[p].at) IN
    /\ pc[p] = "append"
    /\ Acceptable(p)
    /\ stream' = Append(stream, Pending(p))
    /\ \/ object' = record /\ Persisted(p, record) /\ UNCHANGED faults
       \/ Fault /\ Fail(p) /\ UNCHANGED object
    /\ UNCHANGED <<journal, relayVars, envVars>>

\* The sequence is free: the object must be in step with the stream and be the
\* one the caller saw.  The event is appended, then the object is written.
AppendTransition(p) ==
    LET record == NextObject(snap[p], To(p), work[p].fill, work[p].at)
        current == object.seq = Len(stream) /\ object.version = snap[p].version
    IN
    /\ pc[p] = "append"
    /\ Acceptable(p)
    /\ snap[p].seq = Len(stream)
    /\ \/ /\ current
          /\ stream' = Append(stream, Pending(p))
          /\ object' = record
          /\ Persisted(p, record)
          /\ UNCHANGED faults
       \/ /\ current
          /\ Fault
          /\ stream' \in {stream, Append(stream, Pending(p))}
          /\ Fail(p)
          /\ UNCHANGED object
       \/ /\ ~current
          /\ Fail(p)
          /\ UNCHANGED <<stream, object, faults>>
    /\ UNCHANGED <<journal, relayVars, envVars>>

-----------------------------------------------------------------------------
(* append_attempt *)

Present(ev) == {i \in 1..Len(journal) :
                    journal[i].attempt = ev.attempt /\ journal[i].phase = ev.phase}

\* validate_attempt_order
AttemptOrderAllows(ev) ==
    LET last == journal[Len(journal)] IN
    IF journal = <<>>
    THEN ev.attempt = 1 /\ ev.phase = "Bound"
    ELSE IF ev.attempt = last.attempt
    THEN last.phase \notin TerminalPhases /\ ev.phase # "Bound"
    ELSE ev.attempt = last.attempt + 1 /\ last.phase \in TerminalPhases /\ ev.phase = "Bound"

\* The store accepts a new event.
AttemptAccepts(ev) ==
    /\ object.seq = Len(stream)
    /\ ev.phase = "Bound" => object.status \notin Closed
    /\ AttemptOrderAllows(ev)

\* append_attempt of ev by p: Ok is what p does when it is Applied, Again what
\* it does when it was already there.
AppendAttempt(p, ev, Ok, Again) ==
    /\ \/ /\ Present(ev) # {}
          /\ IF \A i \in Present(ev) : journal[i] = ev THEN Again ELSE Fail(p)
          /\ UNCHANGED <<journal, faults>>
       \/ /\ Present(ev) = {}
          /\ AttemptAccepts(ev)
          /\ journal' = Append(journal, ev)
          /\ Ok
          /\ UNCHANGED faults
       \/ /\ Present(ev) = {}
          /\ AttemptAccepts(ev)
          /\ Fault
          /\ journal' \in {journal, Append(journal, ev)}
          /\ Fail(p)
       \/ /\ Present(ev) = {}
          /\ ~AttemptAccepts(ev)
          /\ Fail(p)
          /\ UNCHANGED <<journal, faults>>
    /\ UNCHANGED <<stream, object, relayVars, envVars>>

-----------------------------------------------------------------------------
(* tick *)

\* Steps 1 to 4: load the object, stop on a closed or executing order or a
\* disabled gate, and normalise a state a crash left behind.
Load(t) ==
    LET w == [IdleWork EXCEPT !.at = now] IN
    /\ pc[t] = "idle"
    /\ Len(stream) < MaxStream
    /\ pc[Recoverer] = "idle"
    /\ IF object.status \in Closed \cup {"Executing"} \/ ~enabled
       THEN Publish(t)
       ELSE /\ snap' = [snap EXCEPT ![t] = object]
            /\ IF object.status \notin {"Created", "Quoting", "Simulating"}
               THEN Goto(t, "evaluate", w)
               ELSE IF now >= ExpiresAt
               THEN Advance(t, w, <<"Expired">>, "publish")
               ELSE Advance(t, w, <<"Active">>, "evaluate")
    /\ UNCHANGED <<durableVars, relayVars, envVars, faults>>

\* Mutant: the remainder a chunk leaves is not looked at.
SafeChunksAnyRemainder(o) == MinFill..o.remaining

\* max_safe_fill answers a chunk that leaves nothing or a fillable remainder.
SafeChunks(o) ==
    {c \in MinFill..o.remaining :
        \/ c = o.remaining
        \/ AllowPartial /\ o.remaining - c >= MinFill}

\* Step 5: the trigger, and the transitions its outcome stands for.
EvaluateTrigger(t) ==
    LET o == snap[t]
        w == work[t]
        candidate == IF o.status = "TriggerCandidate" THEN <<>> ELSE <<"TriggerCandidate">>
    IN
    /\ pc[t] = "evaluate"
    /\ \/ /\ w.at >= ExpiresAt
          /\ Advance(t, w, <<"Expired">>, "publish") /\ UNCHANGED snap
       \/ /\ w.at < ExpiresAt
          /\ Publish(t)                         \* no signal, or an integrity error
       \/ /\ w.at < ExpiresAt                   \* nothing safe to fill
          /\ Advance(t, w, candidate \o <<"Active">>, "publish") /\ UNCHANGED snap
       \/ /\ w.at < ExpiresAt
          /\ \E chunk \in SafeChunks(o) :
                LET found == [w EXCEPT !.chunk = chunk] IN
                /\ IF candidate = <<>> THEN Goto(t, "identity", found)
                                       ELSE Advance(t, found, candidate, "identity")
                /\ UNCHANGED snap
    /\ UNCHANGED <<durableVars, relayVars, envVars, faults>>

\* Step 7: the identity of the attempt is the journal's latest plus one.
NextAttemptIdentity(t) ==
    /\ pc[t] = "identity"
    /\ \/ /\ snap[t].status # "Expired"
          /\ Goto(t, "prepare", [work[t] EXCEPT !.attempt = LatestAttempt + 1])
          /\ UNCHANGED <<snap, faults>>
       \/ /\ snap[t].status # "Expired"
          /\ Fault
          /\ Fail(t)
       \/ /\ snap[t].status = "Expired"
          /\ Publish(t)
          /\ UNCHANGED faults
    /\ UNCHANGED <<durableVars, relayVars, envVars>>

\* Steps 6 and 8 to 10: quote, policy, revalidation and digest.  Any refusal
\* returns the order to Active; otherwise the execution chain is persisted.
PrepareAttempt(t) ==
    LET w == work[t] IN
    /\ pc[t] = "prepare"
    /\ UNCHANGED snap
    /\ \/ Advance(t, w, <<"Active">>, "publish")
       \/ /\ enabled
          /\ MinFill <= w.chunk /\ w.chunk <= snap[t].remaining
          /\ Advance(t, w, <<"Quoting", "Simulating", "Executing">>, "bind")
    /\ UNCHANGED <<durableVars, relayVars, envVars, faults>>

\* Mutant: an attempt that was already bound is executed again.
BindOrJoin(t) ==
    LET w == work[t]
        ev == AttemptEvent(w.attempt, "Bound", w.chunk, TRUE, w.at)
        Execute == Goto(t, "execute", [w EXCEPT !.prior = "Bound"]) /\ UNCHANGED snap
    IN  /\ pc[t] = "bind"
        /\ AppendAttempt(t, ev, Execute, Execute)

\* Steps 11 and 12: reserve before sign.
BindAttempt(t) ==
    LET w == work[t]
        ev == AttemptEvent(w.attempt, "Bound", w.chunk, TRUE, w.at)
    IN  /\ pc[t] = "bind"
        /\ AppendAttempt(t, ev,
               Goto(t, "execute", [w EXCEPT !.prior = "Bound"]) /\ UNCHANGED snap,
               Fail(t))

-----------------------------------------------------------------------------
(* The executor: execute and reconcile over the attempt ledger *)

Resolve(p, res) ==
    /\ Goto(p, "resolve", [work[p] EXCEPT !.res = res])
    /\ UNCHANGED snap

\* execute() claims its key; or it is refused before that.
ClaimAttempt(t) ==
    LET n == work[t].attempt IN
    /\ pc[t] = "execute"
    /\ \/ Relay!Claim(n) /\ Goto(t, "claimed", work[t]) /\ UNCHANGED snap
       \/ Resolve(t, "FailedBeforeSubmit") /\ UNCHANGED <<verdict, sends>>
    /\ UNCHANGED <<durableVars, fate, envVars, faults>>

\* It gives up before sending, or the adapter refuses the transaction.
RefuseAttempt(t) ==
    LET n == work[t].attempt IN
    /\ pc[t] = "claimed"
    /\ \/ Relay!Decide(n, "unsent") /\ Resolve(t, "FailedBeforeSubmit")
       \/ Relay!Decide(n, "rejected") /\ Resolve(t, "Rejected")
       \/ Resolve(t, "Unknown") /\ UNCHANGED <<verdict, sends>>
    /\ UNCHANGED <<durableVars, fate, envVars, faults>>

SendAttempt(t) ==
    LET n == work[t].attempt IN
    /\ pc[t] = "claimed"
    /\ Relay!Send(n)
    /\ fate' = [fate EXCEPT ![n] = "pending"]
    /\ Goto(t, "sent", work[t])
    /\ UNCHANGED <<snap, durableVars, envVars, faults>>

\* What the chain shows of a sent transaction.
Seen(n) ==
    CASE fate[n] = "confirmed" -> {"Filled"}
      [] fate[n] = "short"     -> {"NonCompliantFill"}
      [] fate[n] = "reverted"  -> {"Rejected"}
      [] OTHER                 -> {}

Verdict(res) == IF res = "Rejected" THEN "rejected" ELSE "confirmed"

\* The executor reports what it saw, having recorded it, ...
ReportSeen(p, n) ==
    \E res \in Seen(n) :
        /\ Resolve(p, res)
        /\ \/ verdict[n] = "open" /\ Relay!Decide(n, Verdict(res))
           \/ verdict[n] = Verdict(res) /\ UNCHANGED <<verdict, sends>>

\* ... or Unknown.
Report(p, n) ==
    \/ Resolve(p, "Unknown") /\ UNCHANGED <<verdict, sends>>
    \/ ReportSeen(p, n)

ExecuteReturns(t) ==
    /\ pc[t] = "sent"
    /\ Report(t, work[t].attempt)
    /\ UNCHANGED <<durableVars, fate, envVars, faults>>

\* reconcile() never sends.  When its store fails it answers as if the attempt
\* had never been sent (executor.rs, map_outcome of StoreUnavailable).
Reconcile ==
    LET r == Recoverer
        n == work[r].attempt
    IN
    /\ pc[r] = "reconcile"
    /\ \/ Report(r, n)
       \/ /\ verdict[n] = "rejected" /\ sends[n] = 0
          /\ Resolve(r, "Rejected") /\ UNCHANGED <<verdict, sends>>
       \/ /\ verdict[n] = "unsent" \/ RelayStoreFails
          /\ Resolve(r, "FailedBeforeSubmit") /\ UNCHANGED <<verdict, sends>>
    /\ UNCHANGED <<durableVars, fate, envVars, faults>>

-----------------------------------------------------------------------------
(* apply_resolution, shared by tick and recover *)

\* pre_send_target
PreSendTarget(n, at) ==
    IF n >= MaxAttemptsPerOrder THEN "FailedFinal"
    ELSE IF at < ExpiresAt THEN "FailedRetryable"
    ELSE "Expired"

\* Mutant: an unknown outcome is journaled as one that never reached the chain.
PhaseForgetsUnknown(res) ==
    IF res \in {"Filled", "NonCompliantFill"} THEN "Confirmed"
    ELSE IF res = "Unknown" THEN "FailedBeforeSubmit" ELSE res

Phase(res) ==
    IF res \in {"Filled", "NonCompliantFill"} THEN "Confirmed" ELSE res

\* Mutant: a rejected attempt leaves the order where it is.
SettleFillsOnly(p, w) ==
    LET left == snap[p].remaining - w.chunk IN
    IF w.res # "Filled" \/ left < 0 THEN Publish(p)
    ELSE /\ Advance(p, [w EXCEPT !.fill = [input |-> w.chunk, remaining_after |-> left]],
                    IF left = 0 THEN <<"Filled">> ELSE <<"PartiallyFilled">>, "publish")
         /\ UNCHANGED snap

\* resolve_fill and the other order effects of a resolution.
Settle(p, w) ==
    LET left == snap[p].remaining - w.chunk IN
    CASE w.res = "Unknown" -> Publish(p)
      [] w.res = "FailedBeforeSubmit" ->
            Advance(p, w, <<PreSendTarget(w.attempt, w.at)>>, "publish") /\ UNCHANGED snap
      [] w.res \in {"Rejected", "NonCompliantFill"} ->
            Advance(p, w, <<"FailedFinal">>, "publish") /\ UNCHANGED snap
      [] w.res = "Filled" ->
            IF left < 0 THEN Fail(p)
            ELSE /\ Advance(p, [w EXCEPT !.fill = [input |-> w.chunk, remaining_after |-> left]],
                            IF left = 0 THEN <<"Filled">> ELSE <<"PartiallyFilled">>, "publish")
                 /\ UNCHANGED snap

\* Record the phase, unless the journal already has it, then apply the effect.
ApplyResolution(p) ==
    LET w == work[p]
        ev == AttemptEvent(w.attempt, Phase(w.res),
                           IF Phase(w.res) = "Confirmed" THEN w.chunk ELSE 0,
                           w.res # "NonCompliantFill", w.at)
    IN  /\ pc[p] = "resolve"
        /\ IF w.prior = Phase(w.res)
           THEN Settle(p, w) /\ UNCHANGED <<durableVars, relayVars, envVars, faults>>
           ELSE AppendAttempt(p, ev, Settle(p, w), Settle(p, w))

-----------------------------------------------------------------------------
(* recover *)

\* Mutant: a pass that finds no executing order ends without the outbox.
RecoverScanUnpublished ==
    LET r == Recoverer IN
    /\ pc[r] = "idle"
    /\ \A t \in Tickers : pc[t] = "idle"
    /\ object' = Repaired
    /\ IF ~enabled \/ Repaired.status # "Executing" THEN UNCHANGED callVars
       ELSE /\ Goto(r, "attempts", [IdleWork EXCEPT !.at = now])
            /\ snap' = [snap EXCEPT ![r] = Repaired]
    /\ UNCHANGED <<stream, journal, relayVars, envVars, faults>>

\* A startup pass: no tick() is running.  Repair the object, stop when trading is
\* disabled, take up an executing order.
RecoverScan ==
    LET r == Recoverer IN
    /\ pc[r] = "idle"
    /\ \A t \in Tickers : pc[t] = "idle"
    /\ object' = Repaired
    /\ IF ~enabled THEN UNCHANGED callVars
       ELSE IF Repaired.status = "Executing"
       THEN /\ Goto(r, "attempts", [IdleWork EXCEPT !.at = now])
            /\ snap' = [snap EXCEPT ![r] = Repaired]
       ELSE Publish(r)
    /\ UNCHANGED <<stream, journal, relayVars, envVars, faults>>

\* Mutant: the fill of a confirmed head is replayed without asking the ledger.
ReplaysConfirmed(last, filled) == TRUE

\* The confirmed head is the one fill the order has not applied yet.
Outstanding(last, filled) ==
    filled < ConfirmedTotal /\ ConfirmedTotal - filled = last.input

\* recover_executing, from the attempt events read after the scan.
RecoverExecuting ==
    LET r == Recoverer
        last == journal[Len(journal)]
        at == work[r].at
        w == [work[r] EXCEPT !.attempt = last.attempt, !.chunk = BoundChunk(last.attempt),
                             !.prior = last.phase]
        Close(n) == Advance(r, work[r], <<PreSendTarget(n, at)>>, "publish") /\ UNCHANGED snap
    IN
    /\ pc[r] = "attempts"
    /\ CASE journal = <<>> -> Close(0)
         [] journal # <<>> /\ last.phase \in InFlightPhases ->
               Goto(r, "reconcile", w) /\ UNCHANGED snap
         [] journal # <<>> /\ last.phase = "Confirmed" ->
               IF Outstanding(last, snap[r].filled)
               THEN Settle(r, [w EXCEPT !.res = IF last.compliant THEN "Filled"
                                                                  ELSE "NonCompliantFill"])
               ELSE IF snap[r].filled >= ConfirmedTotal
               THEN Close(last.attempt)
               ELSE Advance(r, work[r], <<"FailedFinal">>, "publish") /\ UNCHANGED snap
         [] journal # <<>> /\ last.phase \in {"FailedBeforeSubmit", "Rejected"} ->
               Settle(r, [w EXCEPT !.res = last.phase])
    /\ UNCHANGED <<durableVars, relayVars, envVars, faults>>

-----------------------------------------------------------------------------
(* cancel_order *)

Cancel(c) ==
    /\ pc[c] = "idle"
    /\ Len(stream) < MaxStream
    /\ object.status \notin Closed
    /\ snap' = [snap EXCEPT ![c] = object]
    /\ Advance(c, [IdleWork EXCEPT !.at = now], <<"Cancelled">>, "idle")
    /\ UNCHANGED <<durableVars, relayVars, envVars, faults>>

-----------------------------------------------------------------------------
(* publish_pending *)

\* How far the bus may accept the batch of pending events.
Batch == object.published..object.seq

PublishPending(p, highest) ==
    /\ pc[p] = "publish"
    /\ highest \in Batch
    /\ delivered' = delivered \cup (object.published + 1)..highest
    /\ IF highest = object.published
       THEN Finish(p)
       ELSE /\ Goto(p, "mark", [IdleWork EXCEPT !.mark = highest])
            /\ snap' = [snap EXCEPT ![p] = object]
    /\ UNCHANGED <<durableVars, relayVars, enabled, now, crashes, faults>>

\* Mutant: the watermark is written whatever the object holds by now.
MarkFromSnapshot(p) ==
    /\ pc[p] = "mark"
    /\ object' = [snap[p] EXCEPT !.published = work[p].mark, !.version = object.version + 1]
    /\ Finish(p)
    /\ UNCHANGED <<stream, journal, relayVars, envVars, faults>>

\* Mutant: the watermark is set to the head, not to what the bus accepted.
MarkToHead(p) ==
    /\ pc[p] = "mark"
    /\ object' = [object EXCEPT !.published = object.seq, !.version = @ + 1]
    /\ Finish(p)
    /\ UNCHANGED <<stream, journal, relayVars, envVars, faults>>

\* mark_published: errors are swallowed.
MarkPublished(p) ==
    LET fresh == object.published < work[p].mark /\ object.version = snap[p].version IN
    /\ pc[p] = "mark"
    /\ \/ /\ fresh
          /\ object' = [object EXCEPT !.published = work[p].mark, !.version = @ + 1]
          /\ UNCHANGED faults
       \/ ~fresh /\ UNCHANGED <<object, faults>>
       \/ fresh /\ Fault /\ UNCHANGED object
    /\ Finish(p)
    /\ UNCHANGED <<stream, journal, relayVars, envVars>>

-----------------------------------------------------------------------------
(* The environment *)

ChainSettles(n) ==
    /\ fate[n] = "pending"
    /\ \E f \in {"confirmed", "short", "reverted"} : fate' = [fate EXCEPT ![n] = f]
    /\ UNCHANGED <<durableVars, callVars, verdict, sends, envVars, faults>>

DisableTrading ==
    /\ enabled
    /\ enabled' = FALSE
    /\ UNCHANGED <<durableVars, callVars, relayVars, delivered, now, crashes, faults>>

Tick ==
    /\ now < MaxNow
    /\ now' = now + 1
    /\ UNCHANGED <<durableVars, callVars, relayVars, enabled, delivered, crashes, faults>>

\* The process restarts, configured to trade.
Crash ==
    /\ crashes < MaxCrashes
    /\ crashes' = crashes + 1
    /\ enabled' = TRUE
    /\ pc' = [p \in Procs |-> "idle"]
    /\ snap' = [p \in Procs |-> NewObject]
    /\ work' = [p \in Procs |-> IdleWork]
    /\ UNCHANGED <<durableVars, relayVars, delivered, now, faults>>

\* The future of one call is dropped.
Drop(p) ==
    /\ crashes < MaxCrashes
    /\ crashes' = crashes + 1
    /\ pc[p] # "idle"
    /\ Finish(p)
    /\ UNCHANGED <<durableVars, relayVars, enabled, delivered, now, faults>>

StoreStep(p) ==
    \/ ReplayTransition(p)
    \/ AppendTransition(p)
    \/ \E highest \in 0..Len(stream) : PublishPending(p, highest)
    \/ MarkPublished(p)

TickStep(t) ==
    \/ EvaluateTrigger(t)
    \/ NextAttemptIdentity(t)
    \/ PrepareAttempt(t)
    \/ BindAttempt(t)
    \/ ClaimAttempt(t)
    \/ RefuseAttempt(t)
    \/ SendAttempt(t)
    \/ ExecuteReturns(t)

Next ==
    \/ \E p \in Procs : StoreStep(p)
    \/ \E t \in Tickers : Load(t)
    \/ \E t \in Tickers : TickStep(t)
    \/ \E p \in Procs : ApplyResolution(p)
    \/ RecoverScan
    \/ RecoverExecuting
    \/ Reconcile
    \/ \E c \in Cancellers : Cancel(c)
    \/ \E n \in Attempts : ChainSettles(n)
    \/ DisableTrading
    \/ Tick
    \/ Crash
    \/ \E p \in Procs : Drop(p)

Spec == Init /\ [][Next]_vars

\* Every await of a call ends, recovery is run again and again, its executor does
\* not withhold for ever what the chain shows, and neither does the bus refuse
\* every event for ever.
Fairness ==
    /\ \A p \in Procs : WF_vars(StoreStep(p)) /\ WF_vars(ApplyResolution(p))
    /\ \A t \in Tickers : WF_vars(TickStep(t))
    /\ WF_vars(RecoverExecuting)
    /\ WF_vars(Reconcile)
    /\ SF_vars(RecoverScan)
    /\ SF_vars(Reconcile /\ work'[Recoverer].res # "Unknown")
    /\ SF_vars(\E highest \in 0..Len(stream) :
                  highest > object.published /\ PublishPending(Recoverer, highest))

FairSpec == Spec /\ Fairness

-----------------------------------------------------------------------------
(* Properties *)

\* The order the stream says it is.
HeadOrder ==
    IF stream = <<>> THEN NewOrder(terms)
    ELSE [status    |-> stream[Len(stream)].status,
          remaining |-> stream[Len(stream)].remaining,
          filled    |-> stream[Len(stream)].filled]

Chunks(fates) ==
    MapThenSumSet(BoundChunk, {n \in Attempts : fate[n] \in fates})

\* The order never commits more than its input to the chain, whatever attempts
\* were retried, crashed or raced (docs/PRD.md:34, INVARIANTS.md 9).
NeverOverspends == Chunks({"pending", "confirmed", "short"}) <= MaxInput

\* Once the order has left Executing, no transaction of it is undecided and its
\* ledger is exactly what the compliant confirmed transactions consumed; while
\* it is Executing the ledger lags, and by the latest attempt only.
LedgerIsTheChain ==
    IF HeadOrder.status = "Executing"
    THEN /\ HeadOrder.filled <= Chunks({"confirmed"})
         /\ \A n \in Attempts : fate[n] = "pending" => n = LatestAttempt
    ELSE /\ HeadOrder.filled = Chunks({"confirmed"})
         /\ \A n \in Attempts : fate[n] # "pending"

\* A transaction is sent only for the latest attempt, after its Bound event is
\* durable, while the durable order is Executing, and with no other undecided.
SendsAreReserved ==
    [][\A n \in Attempts : sends'[n] # sends[n] =>
          /\ HeadOrder.status = "Executing"
          /\ n = LatestAttempt
          /\ journal[Len(journal)].phase = "Bound"
          /\ \A m \in Attempts : fate[m] # "pending"]_vars

\* A compliant confirmed fill that the order has not applied can be applied, at
\* whatever instant recovery runs.
ConfirmedFillApplies ==
    LET last == journal[Len(journal)]
        left == HeadOrder.remaining - last.input
    IN  journal # <<>> /\ HeadOrder.status = "Executing" /\ last.phase = "Confirmed"
            /\ last.compliant /\ Outstanding(last, HeadOrder.filled)
        => \A at \in 0..MaxNow :
              Accepts(terms, HeadOrder, IF left = 0 THEN "Filled" ELSE "PartiallyFilled",
                      [input |-> last.input, remaining_after |-> left], at)

\* The outbox delivers a gapless prefix of the durable stream, its watermark never
\* claims an event the bus did not accept, and the object it reads lags the stream
\* by one transition at most, whatever write failed half way.
OutboxIsGapless ==
    /\ delivered = 1..Cardinality(delivered)
    /\ object.published <= Cardinality(delivered)
    /\ Cardinality(delivered) <= Len(stream)
    /\ object.published <= object.seq
    /\ object.seq \in {Len(stream), Len(stream) - 1}

\* Neither the version nor the watermark nor the sequence of the stored object
\* ever goes back.
ObjectOnlyAdvances ==
    [][/\ object'.version >= object.version
       /\ object'.published >= object.published
       /\ object'.seq >= object.seq]_vars

\* When the chain has decided the transaction of an attempt, the order leaves
\* Executing, unless trading stays disabled.
DecidedAttemptSettles ==
    []<>enabled =>
        \A n \in Attempts :
            fate[n] \in {"confirmed", "short", "reverted"} ~> HeadOrder.status # "Executing"

\* Every durable transition is published, the last one of a closed order
\* included, unless trading stays disabled.
EveryTransitionPublished ==
    []<>enabled =>
        \A i \in 1..(MaxStream + 6 * Cardinality(Tickers)) : Len(stream) >= i ~> i \in delivered

Ledger == INSTANCE OrderLedger WITH
              MaxInputs <- {MaxInput, MinFill}, Expiries <- {ExpiresAt}, Instants <- 0..MaxNow,
              order <- HeadOrder

\* The durable stream implements the order ledger: every event is one transition
\* apply_transition accepts from the event before it.  This is Ledger!LedgerSpec, with
\* the stuttering steps, which are most steps, told apart first.
ImplementsOrderLedger == Ledger!LedgerInit /\ [][UNCHANGED HeadOrder \/ Ledger!LedgerNext]_vars

\* Ticks are interchangeable: for TLC, in runs that check safety only.
Symmetry == Permutations(Tickers)
=============================================================================
