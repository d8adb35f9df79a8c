----------------------------- MODULE WalletPolicy -----------------------------
(***************************************************************************)
(* A wallet's trading limits: what a change may do without a fresh         *)
(* re-authentication of the owner, how concurrent and repeated changes are *)
(* serialised, and which trades and withdrawals the limits let through.    *)
(*                                                                         *)
(* One cap stands for the seven numeric ones, which classify_limits_change *)
(* compares one by one in the same way; the turnover caps are its multiples.*)
(***************************************************************************)
EXTENDS Integers, FiniteSets

CONSTANTS
    Caps,                \* values of the per-trade cap
    PolicyChains,
    PolicyVenues,
    PolicyKeys,          \* idempotency keys of policy writes
    MaxAppliedKeys,      \* MAX_APPLIED_POLICY_KEYS
    MaxConfirmationAge,  \* MAX_CONFIRMATION_AGE_MS
    EmptyVenues,         \* whether a change may list no venue at all
    MaxVersion           \* bound on the writes

ASSUME PolicyAssumption ==
    /\ Caps \subseteq Nat
    /\ MaxAppliedKeys \in Nat /\ MaxConfirmationAge \in Nat /\ MaxVersion \in Nat
    /\ EmptyVenues \in BOOLEAN

VARIABLES
    record,     \* the stored limits of the wallet, NoLimits before the first write
    version,
    applied,    \* idempotency key -> [limits, version] of the write it stands for
    gateOpen,   \* the live TRADING_ENABLED gate
    policyAnswer \* what the last write was told, and whether it was confirmed

policyVars == <<record, version, applied, gateOpen, policyAnswer>>

Limits == [max_trade : Caps, turnover : Caps, chains : SUBSET PolicyChains,
           venues : SUBSET PolicyVenues]

\* No limits are stored; these would not validate.
NoLimits == [max_trade |-> 0, turnover |-> 0, chains |-> {}, venues |-> {}]

\* WalletLimits::validate and PolicyLimits::validate.
ValidLimits(l) ==
    /\ l.max_trade > 0
    /\ l.turnover >= l.max_trade
    /\ l.chains # {}

\* A missing record has nothing to tighten.
LooserThan(next, current) ==
    \/ next.max_trade > current.max_trade
    \/ next.turnover > current.turnover
    \/ ~(next.chains \subseteq current.chains)
    \/ ~(next.venues \subseteq current.venues)

\* A fault: the lists of chains and venues are not compared.
LooserCaps(next, current) ==
    \/ next.max_trade > current.max_trade
    \/ next.turnover > current.turnover

ClassifyByCapsOnly(current, next) ==
    IF current = NoLimits THEN "Relaxation"
    ELSE LET looser == LooserCaps(next, current)
             tighter == LooserThan(current, next) IN
         CASE ~looser /\ ~tighter -> "Unchanged"
           [] ~looser /\ tighter -> "Tightening"
           [] looser /\ ~tighter -> "Relaxation"
           [] OTHER -> "Mixed"

ClassifyLimitsChange(current, next) ==
    IF current = NoLimits THEN "Relaxation"
    ELSE LET looser == LooserThan(next, current)
             tighter == LooserThan(current, next) IN
         CASE ~looser /\ ~tighter -> "Unchanged"
           [] ~looser /\ tighter -> "Tightening"
           [] looser /\ ~tighter -> "Relaxation"
           [] OTHER -> "Mixed"

RequiresStrongConfirmation(change) == change \in {"Relaxation", "Mixed"}

\* A repeated write is answered before the version is looked at.
ApplyError(key, next, expected, strong) ==
    CASE ~gateOpen -> "TradingDisabled"
      [] ~ValidLimits(next) -> "InvalidLimits"
      [] key \in DOMAIN applied ->
            IF applied[key].limits = next THEN "replayed" ELSE "VersionConflict"
      [] version # expected -> "VersionConflict"
      [] RequiresStrongConfirmation(ClassifyLimitsChange(record, next)) /\ ~strong ->
            "StrongConfirmationRequired"
      [] OTHER -> "none"

\* The record is written before the ledger of keys is found to be full.
ApplyLimits(key, next, expected, strong) ==
    LET error == ApplyError(key, next, expected, strong)
        full == Cardinality(DOMAIN applied) >= MaxAppliedKeys IN
    /\ version < MaxVersion
    /\ policyAnswer' = [strong |-> strong,
                        error |-> IF error = "none" /\ full THEN "Unavailable" ELSE error]
    /\ IF error = "none"
       THEN /\ record' = next
            /\ version' = version + 1
            /\ applied' = IF full THEN applied
                          ELSE [k \in DOMAIN applied \cup {key} |->
                                   IF k = key THEN [limits |-> next, version |-> version + 1]
                                   ELSE applied[k]]
       ELSE UNCHANGED <<record, version, applied>>
    /\ UNCHANGED gateOpen

\* The gate only ever closes.
CloseGate ==
    /\ gateOpen
    /\ gateOpen' = FALSE
    /\ UNCHANGED <<record, version, applied, policyAnswer>>

-----------------------------------------------------------------------------
(* What the limits let through. *)

\* authorize_trade: a policy without venues takes every venue.
TradeAllowed(l, trade) ==
    /\ trade.usd > 0
    /\ trade.chain \in l.chains
    /\ trade.usd =< l.max_trade
    /\ trade.used + trade.usd =< l.turnover
    /\ l.venues # {} => trade.venue \in l.venues

\* authorize_withdrawal: always a confirmation, and one that is fresh.
WithdrawalAllowed(l, strong, verifiedAt, at, usd, chain) ==
    /\ gateOpen
    /\ strong
    /\ at - verifiedAt \in 0..MaxConfirmationAge
    /\ chain \in l.chains
    /\ usd > 0 /\ usd =< l.max_trade

\* A withdrawal is only ever approved or refused here; nothing is signed.
Withdraw(l, strong, verifiedAt, at, usd, chain) ==
    /\ policyAnswer' = [strong |-> strong,
                        error |-> IF WithdrawalAllowed(l, strong, verifiedAt, at, usd, chain)
                                  THEN "none" ELSE "refused"]
    /\ UNCHANGED <<record, version, applied, gateOpen>>

PolicyInit ==
    /\ record = NoLimits
    /\ version = 0
    /\ applied = [k \in {} |-> 0]
    /\ gateOpen \in BOOLEAN
    /\ policyAnswer = [strong |-> FALSE, error |-> "none"]

PolicyNext ==
    \/ \E key \in PolicyKeys, next \in Limits, expected \in {version, version - 1},
          strong \in BOOLEAN :
        /\ EmptyVenues \/ next.venues # {}
        /\ ApplyLimits(key, next, expected, strong)
    \/ /\ record # NoLimits
       /\ \E strong \in BOOLEAN, age \in 0..MaxConfirmationAge + 1, usd \in Caps,
             chain \in PolicyChains : Withdraw(record, strong, 0, age, usd, chain)
    \/ CloseGate

PolicySpec == PolicyInit /\ [][PolicyNext]_policyVars

-----------------------------------------------------------------------------
(* Properties. *)

Trades == [usd : Caps, used : Caps, chain : PolicyChains, venue : PolicyVenues]

\* A change that the owner did not confirm afresh never admits a trade that the limits before it
\* refused: what apply() lets through without Confirmation::WebStrong really is a tightening.
UnconfirmedChangeOnlyTightens ==
    [][(record' # record /\ ~policyAnswer'.strong) =>
        /\ record # NoLimits
        /\ \A t \in Trades : TradeAllowed(record', t) => TradeAllowed(record, t)]_policyVars
=============================================================================
