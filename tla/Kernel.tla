------------------------------- MODULE Kernel ---------------------------------
(***************************************************************************)
(* What the models of pure code share: a list of checks of which the first *)
(* that fails decides, exact integer division and its rounding, the unit   *)
(* of a rate, and the outcome of a computation that may fail.              *)
(***************************************************************************)
EXTENDS Integers, Sequences, SequencesExt, FiniteSetsExt

CONSTANTS BpsOne,    \* 10_000 basis points: the whole
          AmountMax  \* u128::MAX, the largest amount

ASSUME KernelAssumption == {BpsOne, AmountMax} \subseteq Nat \ {0}

Check(bad, verdict) == [bad |-> bad, verdict |-> verdict]

FirstFailure(checks, otherwise) ==
    LET failing == {i \in DOMAIN checks : checks[i].bad}
    IN  IF failing = {} THEN otherwise ELSE checks[Min(failing)].verdict

Total(s) ==
    LET upTo[k \in 0..Len(s)] == IF k = 0 THEN 0 ELSE upTo[k - 1] + s[k]
    IN  upTo[Len(s)]

CeilDiv(a, b) == (a + b - 1) \div b

\* The result of a fallible call.
Done(out) == [ok |-> TRUE, out |-> out, err |-> "none"]
Failed(err) == [ok |-> FALSE, out |-> 0, err |-> err]
=============================================================================
