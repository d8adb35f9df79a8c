---------------------------- MODULE MarketAttempts ----------------------------
(***************************************************************************)
(* Market orders below the dispatcher: the backend that records every      *)
(* execution it delegates, the execution port, and the loop that asks the  *)
(* relay what became of the recorded attempts.                             *)
(*                                                                         *)
(* An attempt is [channel, order]: the registry tells channels apart, the  *)
(* identity under which the relay claims the attempt does not.  The relay  *)
(* is the attempt ledger that the relay modules refine.                    *)
(***************************************************************************)
EXTENDS Integers, Sequences, FiniteSets

CONSTANTS
    MarketOrders,       \* orders, one per derived idempotency key
    Channels,
    MarketCalls,        \* concurrent execute calls
    MaxPending,         \* MAX_PENDING_MARKET_ATTEMPTS
    MaxPerPass,         \* ReconcileSchedule::max_per_pass
    ReconcileFaults,    \* whether the attempt store may fail under a reconcile
    MaxEpoch,           \* bound on the entries
    MaxRefs             \* bound on the references to one entry

ASSUME AttemptsAssumption ==
    /\ MaxPending \in Nat \ {0} /\ MaxPerPass \in Nat /\ MaxEpoch \in Nat /\ MaxRefs \in Nat
    /\ ReconcileFaults \in BOOLEAN /\ IsFiniteSet(MarketCalls)

VARIABLES
    verdict, sends,     \* the attempt ledger
    pending,            \* MarketAttemptRegistry::pending, in order of insertion
    nextEpoch,
    calls,              \* call -> [pc, attempt, epoch, result, sent]
    cursor,
    pass                \* the attempts the running pass has still to examine

attemptVars == <<verdict, sends, pending, nextEpoch, calls, cursor, pass>>

Ledger == INSTANCE AttemptLedger WITH Keys <- MarketOrders

Attempts == [channel : Channels, order : MarketOrders]

-----------------------------------------------------------------------------
(* The registry. *)

IndexOf(attempt) == {i \in DOMAIN pending : pending[i].attempt = attempt}

PendingWithout(i) == [j \in 1..Len(pending) - 1 |-> pending[IF j < i THEN j ELSE j + 1]]

\* A fault: the entry goes with the first reference that is given back.
ReleaseHoldWhole(attempt, epoch) ==
    LET at == {i \in IndexOf(attempt) : pending[i].epoch = epoch} IN
    IF at = {} THEN pending ELSE PendingWithout(CHOOSE i \in at : TRUE)

\* A ticket of an earlier entry changes nothing.
ReleaseHold(attempt, epoch) ==
    LET at == {i \in IndexOf(attempt) : pending[i].epoch = epoch} IN
    IF at = {} THEN pending
    ELSE LET i == CHOOSE n \in at : TRUE IN
         IF pending[i].refs =< 1 THEN PendingWithout(i)
         ELSE [pending EXCEPT ![i].refs = @ - 1]

Unlist(attempt) ==
    LET at == IndexOf(attempt) IN
    IF at = {} THEN pending ELSE PendingWithout(CHOOSE i \in at : TRUE)

-----------------------------------------------------------------------------
(* Outcomes. *)

\* map_outcome of the execution port.
PortOutcome(res) ==
    CASE res = "ConfirmedWithFill" -> "Filled"
      [] res \in {"ConfirmedNoFill", "Unknown", "AdapterUnavailable", "AdapterTimeout",
                  "AdapterRejected", "UnknownSubmissionState", "InvalidTransition"} -> "Unknown"
      [] res \in {"Submitted", "Reserved", "Signed"} -> "Submitted"
      [] res = "TradingDisabled" -> "Denied"
      [] res \in {"ChainHealthUnavailable", "SigningUnavailable"} -> "Unavailable"
      [] res \in {"Rejected", "FailedBeforeSubmit", "SigningFailed", "StoreUnavailable",
                  "IdempotencyConflict"} -> "Failed"

\* execution_outcome: everything that may be in flight is an answer.
ExecutionOutcome(outcome) ==
    IF outcome \in {"Submitted", "Filled", "Unknown"} THEN "Value" ELSE outcome

PreSend == {"TradingDisabled", "ChainHealthUnavailable", "SigningUnavailable", "SigningFailed",
            "StoreUnavailable"}

\* What the relay reports of a key that is already claimed.
Existing(k) ==
    CASE verdict[k] = "open" -> {"Reserved", "Signed", "Submitted", "Unknown"}
      [] verdict[k] = "confirmed" -> {"ConfirmedWithFill", "ConfirmedNoFill"}
      [] verdict[k] = "rejected" -> {"Rejected"}
      [] verdict[k] = "unsent" -> {"FailedBeforeSubmit"}

-----------------------------------------------------------------------------
(* An execute call. *)

NoCall == [pc |-> "idle", attempt |-> [channel |-> "none", order |-> "none"], epoch |-> 0,
         result |-> "none"]

Advance(c, pc, result) == calls' = [calls EXCEPT ![c].pc = pc, ![c].result = result]

\* The slot is taken before anything is delegated; a full registry refuses the order.
ReserveSlot(c, attempt) ==
    LET at == IndexOf(attempt) IN
    /\ calls[c].pc = "idle"
    /\ nextEpoch < MaxEpoch
    /\ \/ /\ at # {}
          /\ LET i == CHOOSE n \in at : TRUE IN
             /\ pending[i].refs < MaxRefs
             /\ pending' = [pending EXCEPT ![i].refs = @ + 1]
             /\ calls' = [calls EXCEPT ![c] = [pc |-> "quote", attempt |-> attempt,
                                               epoch |-> pending[i].epoch, result |-> "none"]]
          /\ UNCHANGED nextEpoch
       \/ /\ at = {}
          /\ Len(pending) < MaxPending
          /\ pending' = Append(pending, [attempt |-> attempt, refs |-> 1, epoch |-> nextEpoch])
          /\ nextEpoch' = nextEpoch + 1
          /\ calls' = [calls EXCEPT ![c] = [pc |-> "quote", attempt |-> attempt,
                                            epoch |-> nextEpoch, result |-> "none"]]
       \/ /\ at = {}
          /\ Len(pending) >= MaxPending
          /\ calls' = [calls EXCEPT ![c] = [NoCall EXCEPT !.pc = "done", !.attempt = attempt,
                                                        !.result = "Denied"]]
          /\ UNCHANGED <<pending, nextEpoch>>
    /\ UNCHANGED <<verdict, sends, cursor, pass>>

\* execute_market_order quotes afresh, and the port checks trust, policy and the pre-sign gate:
\* all of it before the relay, and any of it may refuse.
QuoteAfresh(c) ==
    /\ calls[c].pc = "quote"
    /\ \/ Advance(c, "relay", "none")
       \/ \E refusal \in {"Denied", "Unavailable"} : Advance(c, "return", refusal)
    /\ UNCHANGED <<verdict, sends, pending, nextEpoch, cursor, pass>>

RelayClaim(c) ==
    LET k == calls[c].attempt.order IN
    /\ calls[c].pc = "relay"
    /\ \/ Ledger!Claim(k) /\ Advance(c, "claimed", "none")
       \/ /\ verdict[k] # "unclaimed"
          /\ \E res \in Existing(k) : Advance(c, "return", ExecutionOutcome(PortOutcome(res)))
          /\ UNCHANGED <<verdict, sends>>
       \/ /\ \E res \in PreSend : Advance(c, "return", ExecutionOutcome(PortOutcome(res)))
          /\ UNCHANGED <<verdict, sends>>
    /\ UNCHANGED <<pending, nextEpoch, cursor, pass>>

RelaySend(c) ==
    LET k == calls[c].attempt.order IN
    /\ calls[c].pc = "claimed"
    /\ \/ Ledger!Send(k) /\ Advance(c, "sent", "none")
       \/ /\ \E res \in PreSend : Advance(c, "return", ExecutionOutcome(PortOutcome(res)))
          /\ Ledger!Decide(k, "unsent") \/ UNCHANGED <<verdict, sends>>
    /\ UNCHANGED <<pending, nextEpoch, cursor, pass>>

RelayReturn(c) ==
    LET k == calls[c].attempt.order IN
    /\ calls[c].pc = "sent"
    /\ \E res \in {"Submitted", "Unknown", "AdapterUnavailable", "AdapterTimeout"} \cup Existing(k) :
        Advance(c, "return", ExecutionOutcome(PortOutcome(res)))
    /\ UNCHANGED <<verdict, sends, pending, nextEpoch, cursor, pass>>

\* RecordingAgentBackend::execute: only an answer keeps the reservation.
Answer(c) ==
    /\ calls[c].pc = "return"
    /\ calls' = [calls EXCEPT ![c].pc = "done"]
    /\ pending' = IF calls[c].result # "Value"
                  THEN ReleaseHold(calls[c].attempt, calls[c].epoch) ELSE pending
    /\ UNCHANGED <<verdict, sends, nextEpoch, cursor, pass>>

\* A dropped future leaves its reservation; the caller may come back with a new call.
DropCall(c) ==
    /\ calls[c].pc # "idle"
    /\ calls' = [calls EXCEPT ![c] = NoCall]
    /\ UNCHANGED <<verdict, sends, pending, nextEpoch, cursor, pass>>

-----------------------------------------------------------------------------
(* The reconcile loop. *)

\* The pass takes its part of a snapshot, from where the last pass ended, and moves the cursor
\* before it examines anything.
StartPass ==
    LET n == Len(pending)
        limit == IF MaxPerPass = 0 \/ MaxPerPass > n THEN n ELSE MaxPerPass
        start == cursor % n IN
    /\ pass = << >>
    /\ n > 0
    /\ pass' = [i \in 1..limit |-> pending[((start + i - 1) % n) + 1].attempt]
    /\ cursor' = (start + limit) % n
    /\ UNCHANGED <<verdict, sends, pending, nextEpoch, calls>>

\* One attempt of the pass; what the relay learns is written to the ledger.
Examine ==
    LET attempt == Head(pass)
        k == attempt.order
        Apply(res) == pending' = IF PortOutcome(res) \in {"Filled", "Failed", "Denied"}
                                 THEN Unlist(attempt) ELSE pending IN
    /\ pass # << >>
    /\ pass' = Tail(pass)
    /\ \/ /\ sends[k] = 1
          /\ \/ Ledger!Decide(k, "confirmed") /\ \E res \in {"ConfirmedWithFill",
                                                            "ConfirmedNoFill"} : Apply(res)
             \/ Ledger!Decide(k, "rejected") /\ Apply("Rejected")
       \/ /\ verdict[k] \in {"unclaimed", "open"}
          /\ \E res \in {"Unknown", "AdapterUnavailable", "InvalidTransition"} : Apply(res)
          /\ UNCHANGED <<verdict, sends>>
       \/ /\ verdict[k] \notin {"unclaimed", "open"}
          /\ \E res \in Existing(k) : Apply(res)
          /\ UNCHANGED <<verdict, sends>>
       \/ /\ ReconcileFaults
          /\ Apply("StoreUnavailable")
          /\ UNCHANGED <<verdict, sends>>
    /\ UNCHANGED <<nextEpoch, calls, cursor>>

AttemptsInit ==
    /\ Ledger!Init
    /\ pending = << >>
    /\ nextEpoch = 0
    /\ calls = [c \in MarketCalls |-> NoCall]
    /\ cursor = 0
    /\ pass = << >>

AttemptsNext ==
    \/ \E c \in MarketCalls :
        \/ \E attempt \in Attempts : ReserveSlot(c, attempt)
        \/ QuoteAfresh(c)
        \/ RelayClaim(c)
        \/ RelaySend(c)
        \/ RelayReturn(c)
        \/ Answer(c)
        \/ DropCall(c)
    \/ StartPass
    \/ Examine

AttemptsSpec == AttemptsInit /\ [][AttemptsNext]_attemptVars

-----------------------------------------------------------------------------
(* Properties. *)

\* An order that was sent and whose fate is not known is in the registry, so that the reconcile
\* loop will ask for it: over refused siblings, cancelled calls and a pass that works on an old
\* snapshot.
TrackedUntilDecided ==
    \A k \in MarketOrders :
        (sends[k] = 1 /\ verdict[k] = "open") => \E i \in DOMAIN pending : pending[i].attempt.order = k
=============================================================================
