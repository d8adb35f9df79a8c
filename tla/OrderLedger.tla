------------------------------ MODULE OrderLedger ------------------------------
(***************************************************************************)
(* What limit-engine promises of one order, whoever drives it: from its    *)
(* creation every change is one transition apply_transition accepts, at    *)
(* whatever instant and with whatever fill the caller supplies.            *)
(***************************************************************************)
EXTENDS OrderFsm

CONSTANTS
    MaxInputs,      \* the sets the terms of an order are drawn from
    Expiries,
    Instants        \* instants a caller may supply

ASSUME LedgerAssumption ==
    /\ MaxInputs \subseteq Nat
    /\ Expiries \subseteq Nat
    /\ Instants \subseteq Nat

VARIABLES terms, order

ledgerVars == <<terms, order>>

\* Fill deltas a caller can supply, wrong ones included.
Fills ==
    {NoFill} \cup [input : 0..terms.max_input, remaining_after : 0..terms.max_input]

LedgerInit ==
    /\ terms \in Terms(MaxInputs, Expiries)
    /\ order = NewOrder(terms)

Transition(to, fill, at) ==
    /\ Accepts(terms, order, to, fill, at)
    /\ order' = Applied(terms, order, to, fill, at)
    /\ UNCHANGED terms

LedgerNext == \E to \in OrderStatus, fill \in Fills, at \in Instants : Transition(to, fill, at)

LedgerSpec == LedgerInit /\ [][LedgerNext]_ledgerVars

-----------------------------------------------------------------------------
\* What apply_transition stores is an order record: subtracting a fill never takes
\* the remaining input below zero.
LedgerTypeOK ==
    /\ terms \in Terms(MaxInputs, Expiries)
    /\ order \in [status : OrderStatus, remaining : Nat, filled : Nat]

\* The amounts agree with the status: nothing is lost or made up, an order is
\* Filled exactly when all its input was consumed (a late fill that completes the
\* order included), and an open order can still be filled under its own terms.
LedgerAgrees ==
    /\ order.filled + order.remaining = terms.max_input
    /\ order.status = "Filled" <=> order.remaining = 0
    /\ order.status \in Open =>
          /\ terms.min_fill <= order.remaining
          /\ ~terms.allow_partial => order.filled = 0

\* No order wedges: whatever was applied before, an order that is still open can
\* be closed once its deadline has passed.
AlwaysClosable ==
    order.status \in Open => Accepts(terms, order, "Expired", NoFill, terms.expires_at)

\* Whatever sequence of transitions is requested, the amounts agree with the status
\* and the order is not wedged.
OrderIsSound == LedgerAgrees /\ AlwaysClosable

\* A closed order never changes again, and no step takes back consumed input.
ClosedForGood ==
    [][/\ order.status \notin Closed
       /\ order'.filled >= order.filled]_ledgerVars

\* Every step that consumes input consumes at least the minimum fill, and only
\* an order whose attempt was in flight or already partly filled consumes any.
FillsRespectTerms ==
    [][order'.filled # order.filled =>
          /\ order'.filled - order.filled >= terms.min_fill
          /\ order.status \in InFlightOrPartial]_ledgerVars
=============================================================================
