------------------------------- MODULE OrderFsm -------------------------------
(***************************************************************************)
(* The pure limit-order state machine: the status table of                 *)
(* domain::OrderStatus, domain::LimitOrder::validate, and limit-engine's   *)
(* apply_fill and apply_transition.                                        *)
(*                                                                         *)
(* An order is what a transition changes: its status, the input left and   *)
(* the input consumed.  Its terms never change: the input it may spend,    *)
(* the least fill, whether it may be filled in parts, and when it expires. *)
(***************************************************************************)
EXTENDS Integers

Closed == {"Filled", "Cancelled", "Expired", "FailedFinal"}

\* States that can still execute or retry.
Open == {"Created", "Active", "TriggerCandidate", "Quoting", "Simulating", "Executing",
         "PartiallyFilled", "FailedRetryable"}

OrderStatus == Open \cup Closed

Terms(MaxInputs, Expiries) ==
    {t \in [max_input : MaxInputs, min_fill : MaxInputs, allow_partial : BOOLEAN,
            expires_at : Expiries] :
        /\ 0 < t.min_fill
        /\ t.min_fill <= t.max_input
        /\ ~t.allow_partial => t.min_fill = t.max_input}

Successors(status) ==
    CASE status = "Created"          -> {"Active", "Cancelled", "Expired"}
      [] status = "Active"           -> {"TriggerCandidate", "Cancelled", "Expired"}
      [] status = "TriggerCandidate" -> {"Active", "Quoting", "Cancelled", "Expired"}
      [] status = "Quoting"          -> {"Simulating", "Active", "FailedRetryable",
                                         "Cancelled", "Expired"}
      [] status = "Simulating"       -> {"Executing", "Active", "FailedRetryable",
                                         "Cancelled", "Expired"}
      [] status = "Executing"        -> {"PartiallyFilled", "Filled", "FailedRetryable",
                                         "FailedFinal", "Expired"}
      [] status = "PartiallyFilled"  -> {"Active", "TriggerCandidate", "Executing", "Filled",
                                         "Cancelled", "Expired"}
      [] status = "FailedRetryable"  -> {"Active", "TriggerCandidate", "FailedFinal",
                                         "Cancelled", "Expired"}
      [] OTHER                       -> {}

CanTransitionTo(from, to) == to \in Successors(from)

-----------------------------------------------------------------------------
(* Fills *)

\* A fill delta: the input consumed and the remainder its sender computed.
NoFill == [input |-> -1, remaining_after |-> -1]

HasFill(fill) == fill # NoFill

\* apply_fill accepts the delta, and what it leaves.
FillApplies(t, o, fill) ==
    /\ fill.input <= o.remaining
    /\ fill.remaining_after = o.remaining - fill.input
    /\ o.filled + fill.input + fill.remaining_after = t.max_input

RemainingAfter(o, fill) == IF HasFill(fill) THEN o.remaining - fill.input ELSE o.remaining
FilledAfter(o, fill)    == IF HasFill(fill) THEN o.filled + fill.input ELSE o.filled

ConservationHolds(t, o) == o.filled + o.remaining = t.max_input

-----------------------------------------------------------------------------
(* LimitOrder::validate, the part that depends on status, input and time *)

Validates(t, status, remaining, at) ==
    /\ remaining <= t.max_input
    /\ status = "Filled" => remaining = 0
    /\ status \in Open =>
          /\ remaining > 0
          /\ 0 < t.min_fill /\ t.min_fill <= remaining
          /\ ~t.allow_partial => t.min_fill = remaining
    /\ status \in Open \ {"Executing"} => at < t.expires_at
    /\ status = "Expired" => t.expires_at <= at

-----------------------------------------------------------------------------
(* apply_transition *)

InFlightOrPartial == {"Executing", "PartiallyFilled"}

\* Rule 1: a late partial fill closes the order instead of reopening it.
RequestedStatus(t, o, to, fill, at) ==
    IF /\ to = "PartiallyFilled"
       /\ HasFill(fill)
       /\ at >= t.expires_at
       /\ o.status \in InFlightOrPartial
    THEN "Expired"
    ELSE to

\* Mutant: a fill that completes a late order leaves it Expired.
ExpiredStatusKept(t, o, to, fill, at) == RequestedStatus(t, o, to, fill, at)

\* Rule 6, last part: a fill that completes a late order makes it Filled.
EffectiveStatus(t, o, to, fill, at) ==
    IF /\ RequestedStatus(t, o, to, fill, at) = "Expired"
       /\ HasFill(fill)
       /\ o.status \in InFlightOrPartial
       /\ RemainingAfter(o, fill) = 0
    THEN "Filled"
    ELSE RequestedStatus(t, o, to, fill, at)

FillRequired(from, to) ==
    \/ from = "Executing" /\ to \in {"PartiallyFilled", "Filled"}
    \/ from = "PartiallyFilled" /\ to = "Filled"

FillAllowed(from, to) ==
    \/ FillRequired(from, to)
    \/ from \in InFlightOrPartial /\ to \in {"Expired", "PartiallyFilled"}

\* Rule 4: an order expires at its deadline and stays open only before it.
DeadlineAllows(t, status, at) ==
    /\ status = "Expired" => at >= t.expires_at
    /\ status \notin Closed => at < t.expires_at

\* Rule 7: the order's fill policy.
FillPolicyAllows(t, status, fill) ==
    /\ status = "PartiallyFilled" => t.allow_partial
    /\ fill.input > 0 /\ fill.input >= t.min_fill

\* apply_transition returns Ok.
Accepts(t, o, to, fill, at) ==
    LET requested == RequestedStatus(t, o, to, fill, at)
        effective == EffectiveStatus(t, o, to, fill, at)
        remaining == RemainingAfter(o, fill)
    IN
    /\ CanTransitionTo(o.status, requested)
    /\ ConservationHolds(t, o)
    /\ DeadlineAllows(t, requested, at)
    /\ HasFill(fill) => FillAllowed(o.status, to) /\ FillApplies(t, o, fill)
    /\ FillRequired(o.status, to) => HasFill(fill)
    /\ to = "PartiallyFilled" => remaining # 0
    /\ to = "Filled" => remaining = 0
    /\ HasFill(fill) => FillPolicyAllows(t, effective, fill)
    /\ Validates(t, effective, remaining, at)

\* The order apply_transition returns.
Applied(t, o, to, fill, at) ==
    [status    |-> EffectiveStatus(t, o, to, fill, at),
     remaining |-> RemainingAfter(o, fill),
     filled    |-> FilledAfter(o, fill)]

\* The order agent-backend's create_order stores.
NewOrder(t) == [status |-> "Created", remaining |-> t.max_input, filled |-> 0]
=============================================================================
