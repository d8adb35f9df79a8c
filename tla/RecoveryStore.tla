---------------------------- MODULE RecoveryStore ----------------------------
(***************************************************************************)
(* FileRecoveryWrapperStore: recovery wrappers and the workspace identity, *)
(* kept in memory under two locks and in one document on disk.  A write is *)
(* persisted (temporary file and rename, so all or nothing) before it is   *)
(* published in memory.  persist copies the identity under its lock and    *)
(* writes the document after it has let go of it.                          *)
(***************************************************************************)
EXTENDS Integers, FiniteSets, Functions

CONSTANTS
    Writers,        \* concurrent requests, each of a login of its own
    CredentialIds,  \* credentials with a wrapper
    MaxWrappers,    \* MAX_RECOVERY_WRAPPERS
    MaxProofs,      \* MAX_PENDING_RECOVERY_CHALLENGES
    MaxProofsEach,  \* MAX_PENDING_RECOVERY_CHALLENGES_PER_SESSION
    MaxStoreOps     \* bound: challenges issued and bootstraps tried

Free == "free"     \* nobody holds the wrappers lock

ASSUME RecoveryAssumption == /\ Free \notin Writers
                             /\ MaxWrappers \in Nat \ {0}
                             /\ {MaxProofs, MaxProofsEach} \subseteq Nat

VARIABLES
    wrappers,       \* in memory: wrappers[c] is "none", "live" or "revoked"
    identity,       \* in memory: a workspace identity is configured
    disk,           \* the document: wrappers and identity
    configured,     \* history: the identity was configured when the store opened
    proofs,         \* proofs[w]: pending challenges of the login of w
    writers,        \* writers[w]: a request in progress
    wrappersLock,   \* the writer that holds the wrappers lock
    storeOps        \* challenges issued and bootstraps tried

recoveryVars ==
    <<wrappers, identity, disk, configured, proofs, writers, wrappersLock, storeOps>>

NoWrappers == [c \in CredentialIds |-> "none"]
IdleWriter == [pc |-> "idle", credential |-> "none", updated |-> NoWrappers, identity |-> FALSE]

Document(ws, id) == [wrappers |-> ws, identity |-> id]

RecoveryInit ==
    /\ wrappers = NoWrappers
    /\ identity \in BOOLEAN
    /\ disk = Document(wrappers, identity)
    /\ configured = identity
    /\ proofs = [w \in Writers |-> 0]
    /\ writers = [w \in Writers |-> IdleWriter]
    /\ wrappersLock = Free
    /\ storeOps = 0

Held(ws) == {c \in CredentialIds : ws[c] # "none"}

\* What upsert, revoke and touch make of a wrapper; no update is an early return.
Upserted(ws, c) ==
    IF ws[c] = "none" /\ Cardinality(Held(ws)) >= MaxWrappers
    THEN {} ELSE {[ws EXCEPT ![c] = "live"]}

Revoked(ws, c) == IF ws[c] = "live" THEN {[ws EXCEPT ![c] = "revoked"]} ELSE {}

Touched(ws, c) == IF ws[c] = "live" THEN {ws} ELSE {}

Pending == SumFunction(proofs)

\* The durable identity is the key a challenge is sealed to.
MayChallenge == identity

IssueProof(w) ==
    /\ storeOps < MaxStoreOps
    /\ MayChallenge
    /\ Pending < MaxProofs
    /\ proofs[w] < MaxProofsEach
    /\ proofs' = [proofs EXCEPT ![w] = @ + 1]
    /\ storeOps' = storeOps + 1
    /\ UNCHANGED <<wrappers, identity, disk, configured, writers, wrappersLock>>

ExpireProof(w) ==
    /\ proofs[w] > 0
    /\ proofs' = [proofs EXCEPT ![w] = @ - 1]
    /\ UNCHANGED <<wrappers, identity, disk, configured, writers, wrappersLock, storeOps>>

\* consume_recovery_proof: a pending challenge of the login is used up, whether
\* the proof then matches or not.
ConsumeProof(w, request, c) ==
    /\ writers[w].pc = "idle"
    /\ proofs[w] > 0
    /\ proofs' = [proofs EXCEPT ![w] = @ - 1]
    /\ \E matches \in BOOLEAN :
          writers' = IF matches
                     THEN [writers EXCEPT ![w].pc = request, ![w].credential = c]
                     ELSE writers
    /\ UNCHANGED <<wrappers, identity, disk, configured, wrappersLock, storeOps>>

\* The store call takes the wrappers lock and works on a copy, if there is
\* anything to change.
LockAndCopy(w, request, updates) ==
    /\ writers[w].pc = request
    /\ wrappersLock = Free
    /\ IF updates = {}
       THEN /\ writers' = [writers EXCEPT ![w] = IdleWriter]
            /\ UNCHANGED wrappersLock
       ELSE /\ \E updated \in updates :
                  writers' = [writers EXCEPT ![w].pc = "copy", ![w].updated = updated]
            /\ wrappersLock' = w
    /\ UNCHANGED <<wrappers, identity, disk, configured, proofs, storeOps>>

AddWrapper(w) == LockAndCopy(w, "add", Upserted(wrappers, writers[w].credential))

RevokeWrapper(w) == LockAndCopy(w, "revoke", Revoked(wrappers, writers[w].credential))

TouchWrapper(w) == LockAndCopy(w, "touch", Touched(wrappers, writers[w].credential))

\* persist clones the identity; a bootstrap that holds the identity lock does so
\* within one step of this model.
CopyIdentity(w) ==
    /\ writers[w].pc = "copy"
    /\ writers' = [writers EXCEPT ![w].pc = "persist", ![w].identity = identity]
    /\ UNCHANGED <<wrappers, identity, disk, configured, proofs, wrappersLock, storeOps>>

\* Fault: a failed write is published all the same.
PersistBestEffort(w) ==
    /\ writers[w].pc = "persist"
    /\ writers' = [writers EXCEPT ![w].pc = "publish"]
    /\ disk' \in {disk, Document(writers[w].updated, writers[w].identity)}
    /\ UNCHANGED <<wrappers, identity, configured, proofs, wrappersLock, storeOps>>

\* persist_document: the rename happens, or the call fails and nothing changed.
PersistDocument(w) ==
    /\ writers[w].pc = "persist"
    /\ \/ /\ disk' = Document(writers[w].updated, writers[w].identity)
          /\ writers' = [writers EXCEPT ![w].pc = "publish"]
          /\ UNCHANGED wrappersLock
       \/ /\ writers' = [writers EXCEPT ![w] = IdleWriter]
          /\ wrappersLock' = Free
          /\ UNCHANGED disk
    /\ UNCHANGED <<wrappers, identity, configured, proofs, storeOps>>

PublishWrappers(w) ==
    /\ writers[w].pc = "publish"
    /\ wrappers' = writers[w].updated
    /\ writers' = [writers EXCEPT ![w] = IdleWriter]
    /\ wrappersLock' = Free
    /\ UNCHANGED <<identity, disk, configured, proofs, storeOps>>

\* bootstrap_identity under the identity lock: refused when an identity exists.
BootstrapIdentity(w, c) ==
    /\ storeOps < MaxStoreOps
    /\ writers[w].pc = "idle"
    /\ ~identity
    /\ LET initial == [NoWrappers EXCEPT ![c] = "live"]
       IN \/ /\ disk' = Document(initial, TRUE)
             /\ identity' = TRUE
             /\ writers' = [writers EXCEPT ![w].pc = "replace", ![w].updated = initial]
          \/ UNCHANGED <<disk, identity, writers>>
    /\ storeOps' = storeOps + 1
    /\ UNCHANGED <<wrappers, configured, proofs, wrappersLock>>

\* The identity lock is gone; the wrappers lock is taken only now.
ReplaceWrappers(w) ==
    /\ writers[w].pc = "replace"
    /\ wrappersLock = Free
    /\ wrappers' = writers[w].updated
    /\ writers' = [writers EXCEPT ![w] = IdleWriter]
    /\ UNCHANGED <<identity, disk, configured, proofs, wrappersLock, storeOps>>

\* A crash, and load_store on the way up.
Reopen ==
    /\ wrappers' = disk.wrappers
    /\ identity' = disk.identity
    /\ configured' = disk.identity
    /\ proofs' = [w \in Writers |-> 0]
    /\ writers' = [w \in Writers |-> IdleWriter]
    /\ wrappersLock' = Free
    /\ UNCHANGED <<disk, storeOps>>

RecoveryNext ==
    \/ \E w \in Writers : IssueProof(w)
    \/ \E w \in Writers : ExpireProof(w)
    \/ \E w \in Writers, r \in {"add", "revoke", "touch"}, c \in CredentialIds :
          ConsumeProof(w, r, c)
    \/ \E w \in Writers : AddWrapper(w)
    \/ \E w \in Writers : RevokeWrapper(w)
    \/ \E w \in Writers : TouchWrapper(w)
    \/ \E w \in Writers : CopyIdentity(w)
    \/ \E w \in Writers : PersistDocument(w)
    \/ \E w \in Writers : PublishWrappers(w)
    \/ \E w \in Writers, c \in CredentialIds : BootstrapIdentity(w, c)
    \/ \E w \in Writers : ReplaceWrappers(w)
    \/ Reopen

RecoverySpec == RecoveryInit /\ [][RecoveryNext]_recoveryVars

-----------------------------------------------------------------------------

Publishing == {w \in Writers : writers[w].pc = "publish"}

\* A store opened with its identity answers from memory what a restart would
\* answer from disk: an acknowledged wrapper or revocation survives a crash at
\* any point, and a failed write leaves no trace (recovery.rs:445-471).
ConfiguredStoreIsDurable ==
    configured /\ Publishing = {} => disk = Document(wrappers, identity)

\* The identity is immutable (recovery.rs:268-270, lib.rs:2002-2004): once it has
\* been configured no request writes a document without it, although a write
\* copies the identity before it writes; a restart could be bootstrapped anew.
IdentityIsImmutable == identity => disk.identity

\* What the recovery store acknowledged is on disk and in memory, and the identity it was created
\* with never changes, whichever write fails.
RecoveryIsSound == ConfiguredStoreIsDurable /\ IdentityIsImmutable
=============================================================================
