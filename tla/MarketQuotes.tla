----------------------------- MODULE MarketQuotes -----------------------------
(***************************************************************************)
(* Market orders as the web client sees them: a preview translates the     *)
(* reviewed intent into a canonical command and parks it under a quote id  *)
(* of the session; an execution names that id and forwards what was parked.*)
(***************************************************************************)
EXTENDS Naturals, FiniteSets

CONSTANTS
    QuoteKids,      \* sessions
    QuoteCalls,     \* concurrent preview requests
    Intents,        \* canonical commands
    QuoteTtl,
    MaxQuotes,      \* MAX_QUOTE_ENTRIES
    MaxPerKid,      \* MAX_QUOTES_PER_SESSION
    QuoteHorizon,   \* bound on the clock
    MaxQuoteIds     \* bound on the previews

ASSUME QuotesAssumption ==
    /\ QuoteTtl \in Nat \ {0}
    /\ MaxQuotes \in Nat \ {0} /\ MaxPerKid \in Nat \ {0}
    /\ QuoteHorizon \in Nat /\ MaxQuoteIds \in Nat

VARIABLES
    quotes,     \* the parked commands
    nextQuote,  \* the insertion sequence; ids are random and never repeat
    quoteNow,
    previews,   \* call -> a preview that is waiting for the backend
    reviewed,   \* history: what was shown to whom, and when
    forwarded   \* history: the executions that left the dispatcher

quoteVars == <<quotes, nextQuote, quoteNow, previews, reviewed, forwarded>>

Routers == {"local", "okx"}

-----------------------------------------------------------------------------
(* The store. *)

Unexpired(now) == {q \in quotes : q.expires > now}

OldestOf(entries) == {q \in entries : \A p \in entries : q.sequence =< p.sequence}

EvictFor(entries, kid) ==
    LET own == {q \in entries : q.kid = kid} IN
    IF Cardinality(own) >= MaxPerKid THEN entries \ OldestOf(own) ELSE entries

EvictAny(entries) ==
    IF Cardinality(entries) >= MaxQuotes THEN entries \ OldestOf(entries) ELSE entries

\* Room is made in the session first and then in the store; now is the caller's, which may be old.
Insert(kid, intent, router, now) ==
    /\ quotes' = EvictAny(EvictFor(Unexpired(now), kid)) \cup
                 {[kid |-> kid, sequence |-> nextQuote, intent |-> intent, router |-> router,
                   expires |-> now + QuoteTtl]}
    /\ nextQuote' = nextQuote + 1

Get(kid, id, now) == {q \in Unexpired(now) : q.kid = kid /\ q.sequence = id}

-----------------------------------------------------------------------------
(* The dispatcher. *)

NoPreview == [kid |-> "none", intent |-> "none", router |-> "none", now |-> 0]

\* The clock is read before the backend is asked; the lifetime of the quote starts here.
StartPreview(c, kid, intent, router) ==
    /\ previews[c] = NoPreview
    /\ nextQuote < MaxQuoteIds
    /\ previews' = [previews EXCEPT ![c] = [kid |-> kid, intent |-> intent, router |-> router,
                                            now |-> quoteNow]]
    /\ UNCHANGED <<quotes, nextQuote, quoteNow, reviewed, forwarded>>

FinishPreview(c) ==
    LET p == previews[c] IN
    /\ p # NoPreview
    /\ nextQuote < MaxQuoteIds
    /\ Insert(p.kid, p.intent, p.router, p.now)
    /\ reviewed' = reviewed \cup {[kid |-> p.kid, intent |-> p.intent, router |-> p.router,
                                   at |-> p.now]}
    /\ previews' = [previews EXCEPT ![c] = NoPreview]
    /\ UNCHANGED <<quoteNow, forwarded>>

\* The backend refused: nothing is parked.
DropPreview(c) ==
    /\ previews[c] # NoPreview
    /\ previews' = [previews EXCEPT ![c] = NoPreview]
    /\ UNCHANGED <<quotes, nextQuote, quoteNow, reviewed, forwarded>>

\* A quote is not used up: it can be executed again while it lives.
ExecuteQuote(kid, id, router) ==
    LET found == Get(kid, id, quoteNow) IN
    /\ quotes' = Unexpired(quoteNow)
    /\ forwarded' = forwarded \cup
                    {[kid |-> kid, intent |-> q.intent, router |-> router, at |-> quoteNow] :
                        q \in {f \in found : f.router = router}}
    /\ UNCHANGED <<nextQuote, quoteNow, previews, reviewed>>

QuoteTick ==
    /\ quoteNow < QuoteHorizon
    /\ quoteNow' = quoteNow + 1
    /\ UNCHANGED <<quotes, nextQuote, previews, reviewed, forwarded>>

QuotesInit ==
    /\ quotes = {}
    /\ nextQuote = 0
    /\ quoteNow = 0
    /\ previews = [c \in QuoteCalls |-> NoPreview]
    /\ reviewed = {}
    /\ forwarded = {}

QuotesNext ==
    \/ QuoteTick
    \/ \E c \in QuoteCalls :
        \/ \E k \in QuoteKids, i \in Intents, r \in Routers : StartPreview(c, k, i, r)
        \/ FinishPreview(c)
        \/ DropPreview(c)
    \/ \E k \in QuoteKids, id \in 0..MaxQuoteIds - 1, r \in Routers : ExecuteQuote(k, id, r)

QuotesSpec == QuotesInit /\ [][QuotesNext]_quoteVars

-----------------------------------------------------------------------------
(* Properties. *)

\* Whatever a session executes was previewed by that session, for that source and not longer ago
\* than the time to live it was shown: another session's quote id, an evicted or expired quote and
\* a switched source forward nothing.
ExecutedAsReviewed ==
    \A f \in forwarded : \E r \in reviewed :
        /\ r.kid = f.kid /\ r.intent = f.intent /\ r.router = f.router
        /\ r.at =< f.at /\ f.at < r.at + QuoteTtl
=============================================================================
