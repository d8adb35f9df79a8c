----------------------------- MODULE AttemptLedger -----------------------------
(***************************************************************************)
(* What the execution relay promises about an attempt identity, and all    *)
(* that the engines above it may rely on.  A key is claimed once, its      *)
(* transaction is sent at most once and only while the verdict is open,    *)
(* and a verdict is final and true: "unsent" closes the key for ever.      *)
(***************************************************************************)
EXTENDS Integers

CONSTANT Keys

VARIABLES
    verdict,    \* what is durably known of the attempt
    sends       \* transactions handed to the chain

vars == <<verdict, sends>>

Init ==
    /\ verdict = [k \in Keys |-> "unclaimed"]
    /\ sends = [k \in Keys |-> 0]

Claim(k) ==
    /\ verdict[k] = "unclaimed"
    /\ verdict' = [verdict EXCEPT ![k] = "open"]
    /\ UNCHANGED sends

Send(k) ==
    /\ verdict[k] = "open"
    /\ sends[k] = 0
    /\ sends' = [sends EXCEPT ![k] = 1]
    /\ UNCHANGED verdict

Decide(k, v) ==
    /\ verdict[k] = "open"
    /\ v = "confirmed" => sends[k] = 1
    /\ v = "unsent" => sends[k] = 0
    /\ verdict' = [verdict EXCEPT ![k] = v]
    /\ UNCHANGED sends

Next ==
    \E k \in Keys :
        \/ Claim(k)
        \/ Send(k)
        \/ \E v \in {"confirmed", "rejected", "unsent"} : Decide(k, v)

Spec == Init /\ [][Next]_vars
=============================================================================
