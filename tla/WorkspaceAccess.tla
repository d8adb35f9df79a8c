--------------------------- MODULE WorkspaceAccess ---------------------------
(***************************************************************************)
(* The login and handoff endpoints of apps/private-api: passkey ceremony,  *)
(* operator enrollment of a passkey, workspace-key enrollment, artifact    *)
(* grant and artifact delivery.  Everything but the passkey store lives in *)
(* memory and dies with the process.  A handler takes what it needs under  *)
(* one lock, works without it and comes back, so two handlers carrying the *)
(* same cookie interleave.  Signatures and HPKE are external: a ceremony   *)
(* verifies or it does not.                                                *)
(***************************************************************************)
EXTENDS Integers, FiniteSets

CONSTANTS
    Handlers,        \* concurrent request handlers
    WorkspaceKeys,   \* workspace public keys a browser may enroll
    ReleaseKey,      \* the key the published artifact is sealed to
    MaxPending,      \* MAX_PENDING_CHALLENGES, MAX_PENDING_REGISTRATIONS
    MaxLiveSessions, \* AuthState::max_live_sessions
    MaxLiveGrants,   \* AuthState::max_live_grants
    ChallengeTtl, LoginTtl, GrantTtl,
    MaxAccessTime,   \* bound: last instant of the clock
    MaxTokens        \* bound: random tokens drawn

ASSUME AccessAssumption ==
    /\ ReleaseKey \in WorkspaceKeys
    /\ {MaxPending, MaxLiveSessions, MaxLiveGrants} \subseteq Nat \ {0}
    /\ {ChallengeTtl, LoginTtl, GrantTtl} \subseteq Nat \ {0}
    /\ MaxTokens \in Nat

VARIABLES
    accessNow,
    drawn,         \* random tokens drawn so far
    challenges,    \* TransportState::pending
    registrations, \* TransportState::registrations
    logins,        \* AuthState::sessions, with the cookie that names each
    enrollments,   \* AuthState::enrollments: sets of [login, key]
    grants,        \* TransportState::grants
    epochs,        \* the session registry: sets of [kid, owner, expires_at_ms]
    credentials,   \* passkeys in the durable store
    handlers,      \* handlers[h]: a handler between two of its locks
    minted,        \* minted[t]: logins created from challenge t
    opened         \* opened[t]: epochs opened from grant t

accessVars == <<accessNow, drawn, challenges, registrations, logins, enrollments,
                grants, epochs, credentials, handlers, minted, opened>>

Tokens == 1 .. MaxTokens
NoLogin == 0
IdleHandler == [pc |-> "idle", token |-> 0, now |-> 0, login |-> NoLogin]

AccessInit ==
    /\ accessNow = 0
    /\ drawn = 0
    /\ challenges = {} /\ registrations = {} /\ logins = {} /\ enrollments = {}
    /\ grants = {} /\ epochs = {} /\ credentials = {}
    /\ handlers = [h \in Handlers |-> IdleHandler]
    /\ minted = [t \in Tokens |-> 0]
    /\ opened = [t \in Tokens |-> 0]

\* TransportState::prune and the ledgers of AuthState drop what has expired.
Live(records, now) == {r \in records : r.expires_at_ms > now}

Fresh == drawn + 1

Draw == drawn < MaxTokens /\ drawn' = Fresh

Named(records, token) == {r \in records : r.token = token}

-----------------------------------------------------------------------------
(* Operator enrollment of a passkey.                                        *)

\* One-time bootstrap policy: open while the store holds no credential.
EnrollmentOpen == credentials = {}

\* issue_registration_challenge.
IssueRegistration ==
    /\ EnrollmentOpen
    /\ Draw
    /\ LET live == Live(registrations, accessNow)
       IN /\ Cardinality(live) < MaxPending
          /\ registrations' = live \cup
                {[token |-> Fresh, expires_at_ms |-> accessNow + ChallengeTtl]}
    /\ UNCHANGED <<accessNow, challenges, logins, enrollments, grants, epochs,
                   credentials, handlers, minted, opened>>

\* Whether a registration may still be finished when it is verified.
MayRegister == EnrollmentOpen

\* verify_registration: the policy check, the removal of the challenge and the
\* durable registration share the enrollment lock.
VerifyRegistration(token) ==
    /\ MayRegister
    /\ LET live == Live(registrations, accessNow)
       IN /\ Named(live, token) # {}
          /\ registrations' = live \ Named(live, token)
    /\ \E stored \in BOOLEAN :
          credentials' = IF stored THEN credentials \cup {token} ELSE credentials
    /\ UNCHANGED <<accessNow, drawn, challenges, logins, enrollments, grants, epochs,
                   handlers, minted, opened>>

-----------------------------------------------------------------------------
(* Login.                                                                   *)

IssueChallenge ==
    /\ credentials # {}
    /\ Draw
    /\ LET live == Live(challenges, accessNow)
       IN /\ Cardinality(live) < MaxPending
          /\ challenges' = live \cup
                {[token |-> Fresh, expires_at_ms |-> accessNow + ChallengeTtl]}
    /\ UNCHANGED <<accessNow, registrations, logins, enrollments, grants, epochs,
                   credentials, handlers, minted, opened>>

\* Fault: a token is consumed when its handler ends, not when it is taken.
AfterTakeLater(live, token) == live

\* What is left pending once a challenge has been taken.
AfterTake(live, token) == live \ Named(live, token)

\* verify_challenge up to the removal of the pending attempt; the clock is read
\* after the body, and the browser may hold the cookie of an older login.
TakeChallenge(h, token, login) ==
    /\ handlers[h].pc = "idle"
    /\ LET live == Live(challenges, accessNow)
       IN /\ Named(live, token) # {}
          /\ challenges' = AfterTake(live, token)
    /\ handlers' = [handlers EXCEPT ![h] = [pc |-> "verifying", token |-> token,
                                            now |-> accessNow, login |-> login]]
    /\ UNCHANGED <<accessNow, drawn, registrations, logins, enrollments, grants, epochs,
                   credentials, minted, opened>>

\* The ceremony fails, or it steps an existing login up, or it mints a login.
FinishAuthentication(h, verified) ==
    LET live    == Live(logins, handlers[h].now)
        stepUp  == Named(live, handlers[h].login) # {}
        mints   == verified /\ ~stepUp /\ Cardinality(live) < MaxLiveSessions
    IN /\ handlers[h].pc = "verifying"
       /\ handlers' = [handlers EXCEPT ![h] = IdleHandler]
       /\ IF mints
          THEN /\ Draw
               /\ logins' = live \cup {[token |-> Fresh,
                                        expires_at_ms |-> handlers[h].now + LoginTtl]}
               /\ minted' = [minted EXCEPT ![handlers[h].token] = @ + 1]
          ELSE UNCHANGED <<drawn, logins, minted>>
       /\ UNCHANGED <<accessNow, challenges, registrations, enrollments, grants, epochs,
                      credentials, opened>>

\* AuthState::validate_session.
ValidLogin(login, now) == Named(Live(logins, now), login) # {}

\* enroll_workspace_key: one key for a login; the same key again is a success.
EnrollKey(login, key) ==
    /\ ValidLogin(login, accessNow)
    /\ \A e \in enrollments : e.login = login => e.key = key
    /\ enrollments' = enrollments \cup {[login |-> login, key |-> key]}
    /\ UNCHANGED <<accessNow, drawn, challenges, registrations, logins, grants, epochs,
                   credentials, handlers, minted, opened>>

-----------------------------------------------------------------------------
(* Grant and delivery.                                                      *)

IssueGrant(login) ==
    /\ ValidLogin(login, accessNow)
    /\ Draw
    /\ LET live == Live(grants, accessNow)
       IN /\ Cardinality(live) < MaxLiveGrants
          /\ grants' = live \cup {[token |-> Fresh, login |-> login,
                                   expires_at_ms |-> accessNow + GrantTtl]}
    /\ UNCHANGED <<accessNow, challenges, registrations, logins, enrollments, epochs,
                   credentials, handlers, minted, opened>>

\* deliver_artifact reads its clock before it awaits the body.
BeginDelivery(h, token, login) ==
    /\ handlers[h].pc = "idle"
    /\ Named(grants, token) # {}
    /\ handlers' = [handlers EXCEPT ![h] = [pc |-> "body", token |-> token,
                                            now |-> accessNow, login |-> login]]
    /\ UNCHANGED <<accessNow, drawn, challenges, registrations, logins, enrollments,
                   grants, epochs, credentials, minted, opened>>

\* The grant is removed whether or not it is bound to the caller's login.
TakeGrant(h) ==
    LET hd   == handlers[h]
        live == Live(grants, hd.now)
        mine == {g \in Named(live, hd.token) : g.login = hd.login /\ ValidLogin(g.login, hd.now)}
    IN /\ hd.pc = "body"
       /\ grants' = AfterTake(live, hd.token)
       /\ handlers' = [handlers EXCEPT
             ![h] = IF mine # {} THEN [hd EXCEPT !.pc = "loading"] ELSE IdleHandler]
       /\ UNCHANGED <<accessNow, drawn, challenges, registrations, logins, enrollments,
                      epochs, credentials, minted, opened>>

\* release::preflight against the key the login enrolled.
Preflight(login) == [login |-> login, key |-> ReleaseKey] \in enrollments

\* The sealed artifact goes out only with a fresh epoch; every older epoch of
\* the owner is retired under the registry lock.
OpenEpoch(owner, kid, now) ==
    {e \in Live(epochs, now) : e.owner # owner} \cup
        {[kid |-> kid, owner |-> owner, expires_at_ms |-> now + LoginTtl]}

DeliverArtifact(h) ==
    LET hd == handlers[h]
    IN /\ hd.pc = "loading"
       /\ handlers' = [handlers EXCEPT ![h] = IdleHandler]
       /\ \E loaded \in BOOLEAN :
             IF loaded /\ ValidLogin(hd.login, hd.now) /\ Preflight(hd.login)
             THEN /\ epochs' = OpenEpoch(hd.login, hd.token, hd.now)
                  /\ opened' = [opened EXCEPT ![hd.token] = @ + 1]
             ELSE UNCHANGED <<epochs, opened>>
       /\ UNCHANGED <<accessNow, drawn, challenges, registrations, logins, enrollments,
                      grants, credentials, minted>>

AccessTick ==
    /\ accessNow < MaxAccessTime
    /\ accessNow' = accessNow + 1
    /\ UNCHANGED <<drawn, challenges, registrations, logins, enrollments, grants, epochs,
                   credentials, handlers, minted, opened>>

\* The process restarts: only the passkey store survives.
AccessRestart ==
    /\ challenges' = {} /\ registrations' = {} /\ logins' = {} /\ enrollments' = {}
    /\ grants' = {} /\ epochs' = {}
    /\ handlers' = [h \in Handlers |-> IdleHandler]
    /\ UNCHANGED <<accessNow, drawn, credentials, minted, opened>>

AccessNext ==
    \/ IssueRegistration
    \/ \E t \in Tokens : VerifyRegistration(t)
    \/ IssueChallenge
    \/ \E h \in Handlers, t \in Tokens, l \in {NoLogin} \cup Tokens : TakeChallenge(h, t, l)
    \/ \E h \in Handlers, ok \in BOOLEAN : FinishAuthentication(h, ok)
    \/ \E l \in Tokens, k \in WorkspaceKeys : EnrollKey(l, k)
    \/ \E l \in Tokens : IssueGrant(l)
    \/ \E h \in Handlers, t, l \in Tokens : BeginDelivery(h, t, l)
    \/ \E h \in Handlers : TakeGrant(h)
    \/ \E h \in Handlers : DeliverArtifact(h)
    \/ AccessTick
    \/ AccessRestart

AccessSpec == AccessInit /\ [][AccessNext]_accessVars

-----------------------------------------------------------------------------

\* The bootstrap policy is one-time: however many registration challenges were
\* minted while the store was empty, at most one credential is ever enrolled
\* through it (lib.rs:1290-1293).
OneTimeEnrollment == Cardinality(credentials) <= 1

\* A challenge mints at most one login and a grant opens at most one epoch, also
\* when two requests carry it at once; and a workspace session never has two
\* live epochs (lib.rs:2394-2399).
HandoffIsSingleUse ==
    /\ \A t \in Tokens : minted[t] <= 1 /\ opened[t] <= 1
    /\ \A d, e \in epochs : d.owner = e.owner => d = e

\* The passkey enrolment succeeds once and a handoff is redeemed once, however the handlers of the
\* requests interleave and over a restart (verify_registration, verify_challenge, deliver_artifact).
AccessIsSingleUse == OneTimeEnrollment /\ HandoffIsSingleUse
=============================================================================
