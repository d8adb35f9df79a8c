-------------------------- MODULE PrivatePlaneProofs --------------------------
(***************************************************************************)
(* What holds of the private API for every number of handlers, writers,    *)
(* relay calls, connections and key ids: the login and handoff endpoints,  *)
(* the recovery store, the sessions with their streams, the market data    *)
(* behind them (mapper, pool reducer and consumer batcher), and the token  *)
(* reads and streams of the bridge.                                        *)
(***************************************************************************)
EXTENDS PrivateSession, WorkspaceAccess, RecoveryStore, ConsumerBatch, FomoMarket,
        FiniteSetTheorems, SequenceTheorems, NaturalsInduction, WellFoundedInduction, TLAPS

(***************************************************************************)
(* The recovery store.                                                     *)
(***************************************************************************)
LocksWrappers == {"copy", "persist", "publish"}
ProvenCalls == {"add", "revoke", "touch"} \cup LocksWrappers

WrapperMaps == [CredentialIds -> {"none", "live", "revoked"}]

WriterRecords == [pc : {"idle", "replace"} \cup ProvenCalls,
                  credential : CredentialIds \cup {"none"},
                  updated : WrapperMaps, identity : BOOLEAN]

RecoveryTypeOK ==
    /\ wrappers \in WrapperMaps
    /\ identity \in BOOLEAN /\ configured \in BOOLEAN
    /\ disk \in [wrappers : WrapperMaps, identity : BOOLEAN]
    /\ proofs \in [Writers -> Nat]
    /\ writers \in [Writers -> WriterRecords]

\* A call past its proof needs the identity the proof was sealed to, and what it
\* then copies is that identity.
ProvenCallsSeeIdentity ==
    \A w \in Writers :
        /\ proofs[w] > 0 \/ writers[w].pc \in ProvenCalls => identity
        /\ writers[w].pc \in {"persist", "publish"} => writers[w].identity = TRUE

LockIsHeld == \A w \in Writers : writers[w].pc \in LocksWrappers => wrappersLock = w

\* What a configured store has published, or is about to, is what the disk holds.
DiskIsAhead ==
    configured =>
        /\ identity
        /\ \A w \in Writers : writers[w].pc # "replace"
        /\ Publishing = {} => disk = Document(wrappers, TRUE)
        /\ \A w \in Publishing : disk = Document(writers[w].updated, TRUE)

RecoveryInv ==
    /\ RecoveryTypeOK /\ ProvenCallsSeeIdentity /\ LockIsHeld /\ DiskIsAhead
    /\ IdentityIsImmutable

LEMMA IdleWriterType == IdleWriter \in WriterRecords
BY DEF WriterRecords, IdleWriter, NoWrappers, WrapperMaps

LEMMA RecoveryInitially == RecoveryInit => RecoveryInv
<1> SUFFICES ASSUME RecoveryInit
             PROVE  RecoveryInv
  OBVIOUS
<1> USE DEF RecoveryInit
<1>1. NoWrappers \in WrapperMaps
  BY DEF NoWrappers, WrapperMaps
<1>2. RecoveryTypeOK
  BY <1>1, IdleWriterType DEF RecoveryTypeOK, Document
<1>3. \A w \in Writers : writers[w].pc = "idle" /\ proofs[w] = 0
  BY DEF IdleWriter
<1>4. ProvenCallsSeeIdentity /\ LockIsHeld
  BY <1>3 DEF ProvenCallsSeeIdentity, LockIsHeld, ProvenCalls, LocksWrappers
<1>5. configured => identity = TRUE /\ disk = Document(wrappers, TRUE)
  OBVIOUS
<1>6. DiskIsAhead
  BY <1>3, <1>5 DEF DiskIsAhead, Publishing
<1> QED
  BY <1>2, <1>4, <1>6 DEF RecoveryInv, IdentityIsImmutable, Document

LEMMA UpdatesAreWrapperMaps ==
    ASSUME NEW ws \in WrapperMaps, NEW c
    PROVE  /\ Upserted(ws, c) \subseteq WrapperMaps
           /\ Revoked(ws, c) \subseteq WrapperMaps
           /\ Touched(ws, c) \subseteq WrapperMaps
BY DEF Upserted, Revoked, Touched, WrapperMaps

\* Every step keeps the types.
LEMMA RecoveryTyped == RecoveryTypeOK /\ [RecoveryNext]_recoveryVars => RecoveryTypeOK'
<1> SUFFICES ASSUME RecoveryTypeOK, [RecoveryNext]_recoveryVars
             PROVE  RecoveryTypeOK'
  OBVIOUS
<1>w. writers \in [Writers -> WriterRecords]
  BY DEF RecoveryTypeOK
<1>a. {"add", "revoke", "touch", "copy", "persist", "publish"} \subseteq ProvenCalls
  BY DEF ProvenCalls, LocksWrappers
<1>b. NoWrappers \in WrapperMaps
  BY DEF NoWrappers, WrapperMaps
<1>1. ASSUME NEW w \in Writers, IssueProof(w) \/ ExpireProof(w)
      PROVE  RecoveryTypeOK'
  BY <1>1 DEF IssueProof, ExpireProof, RecoveryTypeOK
<1>2. ASSUME NEW w \in Writers, NEW r \in {"add", "revoke", "touch"}, NEW c \in CredentialIds,
             ConsumeProof(w, r, c)
      PROVE  RecoveryTypeOK'
  <2>1. writers' = writers \/ writers' = [writers EXCEPT ![w].pc = r, ![w].credential = c]
    BY <1>2 DEF ConsumeProof
  <2>2. writers' \in [Writers -> WriterRecords]
    BY <1>w, <1>a, <2>1 DEF WriterRecords
  <2> QED
    BY <1>2, <2>2 DEF ConsumeProof, RecoveryTypeOK
<1>3. ASSUME NEW w \in Writers, NEW r, NEW updates \in SUBSET WrapperMaps,
             LockAndCopy(w, r, updates)
      PROVE  RecoveryTypeOK'
  <2>1. \/ writers' = [writers EXCEPT ![w] = IdleWriter]
        \/ \E u \in updates : writers' = [writers EXCEPT ![w].pc = "copy", ![w].updated = u]
    BY <1>3 DEF LockAndCopy
  <2>2. writers' \in [Writers -> WriterRecords]
    BY <1>w, <1>a, <2>1, IdleWriterType DEF WriterRecords
  <2> QED
    BY <1>3, <2>2 DEF LockAndCopy, RecoveryTypeOK
<1>4. ASSUME NEW w \in Writers, AddWrapper(w) \/ RevokeWrapper(w) \/ TouchWrapper(w)
      PROVE  RecoveryTypeOK'
  BY <1>3, <1>4, UpdatesAreWrapperMaps DEF AddWrapper, RevokeWrapper, TouchWrapper, RecoveryTypeOK
<1>5. ASSUME NEW w \in Writers, CopyIdentity(w)
      PROVE  RecoveryTypeOK'
  <2>1. writers' = [writers EXCEPT ![w].pc = "persist", ![w].identity = identity]
        /\ identity \in BOOLEAN
    BY <1>5 DEF CopyIdentity, RecoveryTypeOK
  <2>2. writers' \in [Writers -> WriterRecords]
    BY <1>w, <1>a, <2>1 DEF WriterRecords
  <2> QED
    BY <1>5, <2>2 DEF CopyIdentity, RecoveryTypeOK
<1>6. ASSUME NEW w \in Writers, PersistDocument(w) \/ PublishWrappers(w) \/ ReplaceWrappers(w)
      PROVE  RecoveryTypeOK'
  BY <1>6, IdleWriterType DEF PersistDocument, PublishWrappers, ReplaceWrappers, WriterRecords,
                              ProvenCalls, LocksWrappers, Document, RecoveryTypeOK
<1>7. ASSUME NEW w \in Writers, NEW c \in CredentialIds, BootstrapIdentity(w, c)
      PROVE  RecoveryTypeOK'
  <2> DEFINE initial == [NoWrappers EXCEPT ![c] = "live"]
  <2>1. initial \in WrapperMaps
    BY <1>b DEF WrapperMaps
  <2>2. \/ UNCHANGED <<disk, identity, writers>>
        \/ /\ writers' = [writers EXCEPT ![w].pc = "replace", ![w].updated = initial]
           /\ disk' = Document(initial, TRUE) /\ identity' = TRUE
    BY <1>7 DEF BootstrapIdentity
  <2> HIDE DEF initial
  <2>3. writers' \in [Writers -> WriterRecords]
    <3>1. ASSUME NEW u \in WrapperMaps,
                 writers' = [writers EXCEPT ![w].pc = "replace", ![w].updated = u]
          PROVE  writers' \in [Writers -> WriterRecords]
      BY <1>w, <3>1 DEF WriterRecords
    <3> QED
      BY <1>w, <2>1, <2>2, <3>1
  <2>4. disk' \in [wrappers : WrapperMaps, identity : BOOLEAN] /\ identity' \in BOOLEAN
    <3>1. Document(initial, TRUE) \in [wrappers : WrapperMaps, identity : BOOLEAN]
      BY <2>1 DEF Document
    <3>2. /\ disk' = disk \/ disk' = Document(initial, TRUE)
          /\ identity' = identity \/ identity' = TRUE
      BY <2>2
    <3> QED
      BY <3>1, <3>2 DEF RecoveryTypeOK
  <2> QED
    BY <1>7, <2>3, <2>4 DEF BootstrapIdentity, RecoveryTypeOK
<1>8. CASE Reopen \/ UNCHANGED recoveryVars
  BY <1>8, IdleWriterType DEF Reopen, recoveryVars, RecoveryTypeOK
<1> QED
  BY <1>1, <1>2, <1>4, <1>5, <1>6, <1>7, <1>8 DEF RecoveryNext

\* Taking the wrappers lock, or giving up, disturbs nothing.
LEMMA LockAndCopyKeepsRecovery ==
    ASSUME RecoveryInv, NEW w \in Writers, NEW r \in {"add", "revoke", "touch"},
           NEW updates \in SUBSET WrapperMaps, LockAndCopy(w, r, updates), RecoveryTypeOK'
    PROVE  RecoveryInv'
<1> USE DEF RecoveryInv, LockAndCopy, ProvenCalls, LocksWrappers, WriterRecords, IdleWriter
<1> NoWrappers \in WrapperMaps
  BY DEF NoWrappers, WrapperMaps
<1>2. \A v \in Writers : v # w => writers'[v] = writers[v]
  BY DEF RecoveryTypeOK
<1>3. writers'[w].pc \in {"idle", "copy"}
  BY DEF RecoveryTypeOK
<1>4. ProvenCallsSeeIdentity'
  BY <1>2, <1>3 DEF ProvenCallsSeeIdentity, RecoveryTypeOK
<1>5. LockIsHeld'
  BY <1>2, <1>3, RecoveryAssumption DEF LockIsHeld, RecoveryTypeOK
<1>6. Publishing' = Publishing
  BY <1>2, <1>3 DEF Publishing
<1>7. DiskIsAhead'
  BY <1>2, <1>3, <1>6 DEF DiskIsAhead, Publishing
<1> QED
  BY <1>4, <1>5, <1>7 DEF IdentityIsImmutable

LEMMA RecoveryInductive == RecoveryInv /\ [RecoveryNext]_recoveryVars => RecoveryInv'
<1> SUFFICES ASSUME RecoveryInv, [RecoveryNext]_recoveryVars
             PROVE  RecoveryInv'
  OBVIOUS
<1> USE DEF RecoveryInv, ProvenCalls, LocksWrappers, WriterRecords
<1>t. RecoveryTypeOK'
  BY RecoveryTyped
<1>a. NoWrappers \in WrapperMaps /\ IdleWriter.pc = "idle"
  BY DEF NoWrappers, WrapperMaps, IdleWriter
<1>b. IdleWriter \in WriterRecords
  BY IdleWriterType
<1>1. ASSUME NEW w \in Writers, IssueProof(w) \/ ExpireProof(w)
      PROVE  RecoveryInv'
  <2> USE <1>1 DEF IssueProof, ExpireProof, MayChallenge
  <2>1. RecoveryTypeOK' /\ \A v \in Writers : proofs'[v] > 0 => proofs[v] > 0 \/ identity
    BY DEF RecoveryTypeOK
  <2>2. UNCHANGED <<wrappers, identity, disk, configured, writers, wrappersLock>>
    OBVIOUS
  <2>3. ProvenCallsSeeIdentity'
    BY <2>1, <2>2 DEF ProvenCallsSeeIdentity
  <2> QED
    BY <2>1, <2>2, <2>3 DEF LockIsHeld, DiskIsAhead, Publishing, IdentityIsImmutable
<1>2. ASSUME NEW w \in Writers, NEW r \in {"add", "revoke", "touch"}, NEW c \in CredentialIds,
             ConsumeProof(w, r, c)
      PROVE  RecoveryInv'
  <2> USE <1>2 DEF ConsumeProof
  <2>1. RecoveryTypeOK'
    BY <1>t
  <2>2. \A v \in Writers : writers'[v].pc = writers[v].pc \/ (v = w /\ writers'[v].pc = r)
    BY DEF RecoveryTypeOK
  <2>3. \A v \in Writers : /\ writers'[v].updated = writers[v].updated
                          /\ writers'[v].identity = writers[v].identity
    BY DEF RecoveryTypeOK
  <2>4. ProvenCallsSeeIdentity'
    BY <2>2, <2>3 DEF ProvenCallsSeeIdentity, RecoveryTypeOK
  <2>5. LockIsHeld'
    BY <2>2 DEF LockIsHeld
  <2>6. Publishing' = Publishing
    BY <2>2 DEF Publishing
  <2>7. DiskIsAhead'
    BY <2>2, <2>3, <2>6 DEF DiskIsAhead, Publishing
  <2> QED
    BY <2>1, <2>4, <2>5, <2>7 DEF IdentityIsImmutable
<1>3. ASSUME NEW w \in Writers, AddWrapper(w) \/ RevokeWrapper(w) \/ TouchWrapper(w)
      PROVE  RecoveryInv'
  BY <1>3, <1>t, UpdatesAreWrapperMaps, LockAndCopyKeepsRecovery
     DEF AddWrapper, RevokeWrapper, TouchWrapper, RecoveryTypeOK
<1>4. ASSUME NEW w \in Writers, CopyIdentity(w)
      PROVE  RecoveryInv'
  <2> USE <1>4 DEF CopyIdentity
  <2>1. RecoveryTypeOK'
    BY <1>t
  <2>2. /\ \A v \in Writers : v # w => writers'[v] = writers[v]
        /\ writers'[w].pc = "persist" /\ writers'[w].identity = identity
    BY DEF RecoveryTypeOK
  <2>3. ProvenCallsSeeIdentity' /\ LockIsHeld'
    BY <2>2 DEF ProvenCallsSeeIdentity, RecoveryTypeOK, LockIsHeld
  <2>4. Publishing' = Publishing
    BY <2>2 DEF Publishing
  <2>5. DiskIsAhead'
    BY <2>2, <2>4 DEF DiskIsAhead, Publishing
  <2> QED
    BY <2>1, <2>3, <2>5 DEF IdentityIsImmutable
<1>5. ASSUME NEW w \in Writers, PersistDocument(w)
      PROVE  RecoveryInv'
  <2> USE <1>5 DEF PersistDocument
  <2>1. RecoveryTypeOK'
    BY <1>t
  <2>2. /\ \A v \in Writers : v # w => writers'[v] = writers[v]
        /\ \/ /\ writers'[w].pc = "publish" /\ writers'[w].updated = writers[w].updated
              /\ writers'[w].identity = writers[w].identity
              /\ disk' = Document(writers[w].updated, TRUE) /\ wrappersLock' = wrappersLock
           \/ /\ writers'[w].pc = "idle" /\ disk' = disk /\ wrappersLock' = Free
    BY <1>a DEF RecoveryTypeOK, ProvenCallsSeeIdentity
  <2>3. ProvenCallsSeeIdentity'
    BY <2>2 DEF ProvenCallsSeeIdentity, RecoveryTypeOK
  <2>4. \A v \in Writers : v # w => writers[v].pc \notin LocksWrappers
    BY DEF LockIsHeld
  <2>5. LockIsHeld'
    BY <2>2, <2>4 DEF LockIsHeld
  <2>6. DiskIsAhead'
    BY <2>2, <2>4 DEF DiskIsAhead, Publishing
  <2>7. IdentityIsImmutable'
    BY <2>2 DEF IdentityIsImmutable, Document
  <2> QED
    BY <2>1, <2>3, <2>5, <2>6, <2>7
<1>6. ASSUME NEW w \in Writers, PublishWrappers(w)
      PROVE  RecoveryInv'
  <2> USE <1>6 DEF PublishWrappers
  <2>1. RecoveryTypeOK'
    BY <1>t
  <2>2. /\ \A v \in Writers : v # w => writers'[v] = writers[v]
        /\ writers'[w].pc = "idle"
    BY <1>a DEF RecoveryTypeOK
  <2>3. ProvenCallsSeeIdentity'
    BY <2>2 DEF ProvenCallsSeeIdentity, RecoveryTypeOK
  <2>4. \A v \in Writers : v # w => writers[v].pc \notin LocksWrappers
    BY DEF LockIsHeld
  <2>5. LockIsHeld'
    BY <2>2, <2>4 DEF LockIsHeld
  <2>6. DiskIsAhead'
    BY <2>2, <2>4 DEF DiskIsAhead, Publishing
  <2> QED
    BY <2>1, <2>3, <2>5, <2>6 DEF IdentityIsImmutable
<1>7. ASSUME NEW w \in Writers, NEW c \in CredentialIds, BootstrapIdentity(w, c)
      PROVE  RecoveryInv'
  <2> USE <1>7 DEF BootstrapIdentity
  <2>1. [NoWrappers EXCEPT ![c] = "live"] \in WrapperMaps
    BY <1>a DEF WrapperMaps
  <2>2. RecoveryTypeOK'
    BY <1>t
  <2>3. \A v \in Writers : writers'[v].pc = writers[v].pc \/ writers'[v].pc = "replace"
    BY DEF RecoveryTypeOK
  <2>4. ~configured' /\ (identity' => disk'.identity)
    BY DEF DiskIsAhead, Document
  <2>5. \A v \in Writers : ~(proofs[v] > 0) /\ writers[v].pc \notin ProvenCalls
    BY DEF ProvenCallsSeeIdentity
  <2>6. ProvenCallsSeeIdentity' /\ LockIsHeld'
    BY <2>3, <2>5 DEF ProvenCallsSeeIdentity, LockIsHeld
  <2> QED
    BY <2>2, <2>4, <2>6 DEF DiskIsAhead, IdentityIsImmutable
<1>8. ASSUME NEW w \in Writers, ReplaceWrappers(w)
      PROVE  RecoveryInv'
  <2> USE <1>8 DEF ReplaceWrappers
  <2>1. RecoveryTypeOK'
    BY <1>t
  <2>2. /\ \A v \in Writers : v # w => writers'[v] = writers[v]
        /\ writers'[w].pc = "idle"
    BY <1>a DEF RecoveryTypeOK
  <2>3. ProvenCallsSeeIdentity' /\ LockIsHeld'
    BY <2>2 DEF ProvenCallsSeeIdentity, RecoveryTypeOK, LockIsHeld
  <2> QED
    BY <2>1, <2>3 DEF DiskIsAhead, IdentityIsImmutable
<1>9. CASE Reopen
  <2>1. RecoveryTypeOK'
    BY <1>t
  <2>2. \A w \in Writers : writers'[w] = IdleWriter /\ proofs'[w] = 0
    BY <1>9 DEF Reopen
  <2>3. ProvenCallsSeeIdentity' /\ LockIsHeld'
    BY <1>a, <2>2 DEF ProvenCallsSeeIdentity, LockIsHeld
  <2>4. configured' => disk' = Document(wrappers', TRUE)
    BY <1>9 DEF Reopen, RecoveryTypeOK, Document
  <2>5. DiskIsAhead' /\ IdentityIsImmutable'
    BY <1>9, <1>a, <2>2, <2>4 DEF Reopen, DiskIsAhead, Publishing, IdentityIsImmutable
  <2> QED
    BY <2>1, <2>3, <2>5
<1>10. CASE UNCHANGED recoveryVars
  BY <1>10 DEF recoveryVars, RecoveryTypeOK, ProvenCallsSeeIdentity, LockIsHeld, DiskIsAhead,
               Publishing, IdentityIsImmutable
<1> QED
  BY <1>1, <1>2, <1>3, <1>4, <1>5, <1>6, <1>7, <1>8, <1>9, <1>10 DEF RecoveryNext

\* What the recovery store acknowledged survives a crash at any point, and a
\* configured identity is never written away, for any number of writers and
\* credentials and whichever write fails (persist_document, bootstrap_identity).
THEOREM RecoverySound == RecoverySpec => []RecoveryIsSound
<1>1. RecoveryInv => RecoveryIsSound
  BY DEF RecoveryInv, DiskIsAhead, RecoveryIsSound, ConfiguredStoreIsDurable, RecoveryTypeOK
<1> QED
  BY <1>1, RecoveryInitially, RecoveryInductive, PTL DEF RecoverySpec

(***************************************************************************)
(* Login, grant and delivery.                                              *)
(***************************************************************************)
HandlerRecords == [pc : {"idle", "verifying", "body", "loading"}, token : Nat,
                   now : Nat, login : Nat]

AccessTypeOK ==
    /\ accessNow \in Nat /\ drawn \in 0 .. MaxTokens
    /\ handlers \in [Handlers -> HandlerRecords]
    /\ minted \in [Tokens -> Nat] /\ opened \in [Tokens -> Nat]

\* A token is in one place: pending, in the hands of one handler that has reached
\* pc, or spent; and no token is anywhere before it is drawn.
SpentOnce(pending, pc, spent, hs, n) ==
    /\ \A r \in pending :
          /\ r.token \in 1 .. n /\ spent[r.token] = 0
          /\ \A h \in Handlers : ~(hs[h].pc = pc /\ hs[h].token = r.token)
    /\ \A h \in Handlers : hs[h].pc = pc =>
          /\ hs[h].token \in 1 .. n /\ spent[hs[h].token] = 0
          /\ \A g \in Handlers : hs[g].pc = pc /\ hs[g].token = hs[h].token => g = h
    /\ \A t \in Tokens : spent[t] <= 1 /\ (t > n => spent[t] = 0)

OneEpochEach == \A d, e \in epochs : d.owner = e.owner => d = e

AccessInv ==
    /\ AccessTypeOK
    /\ SpentOnce(challenges, "verifying", minted, handlers, drawn)
    /\ SpentOnce(grants, "loading", opened, handlers, drawn)
    /\ OneEpochEach
    /\ credentials = {} \/ \E t : credentials = {t}

\* Tokens expire or are dropped, handlers come and go elsewhere.
LEMMA SpentOnceIdle ==
    ASSUME NEW P, NEW pc, NEW spent, NEW hs, NEW n \in Nat, SpentOnce(P, pc, spent, hs, n),
           NEW Q \in SUBSET P, NEW gs, NEW m \in Nat, m >= n,
           \A h \in Handlers : gs[h] = hs[h] \/ gs[h].pc # pc
    PROVE  SpentOnce(Q, pc, spent, gs, m)
BY DEF SpentOnce, Tokens

\* A fresh token is pending.
LEMMA SpentOnceIssue ==
    ASSUME NEW P, NEW pc, NEW spent, NEW hs, NEW n \in Nat, SpentOnce(P, pc, spent, hs, n),
           NEW r, r.token = n + 1, n + 1 \in Tokens, NEW Q \in SUBSET P
    PROVE  SpentOnce(Q \cup {r}, pc, spent, hs, n + 1)
BY DEF SpentOnce, Tokens

\* A handler takes a pending token.
LEMMA SpentOnceTake ==
    ASSUME NEW P, NEW pc, NEW spent, NEW hs, NEW n \in Nat, SpentOnce(P, pc, spent, hs, n),
           NEW h \in Handlers, NEW gs, gs[h].pc = pc, NEW r \in P, r.token = gs[h].token,
           \A g \in Handlers : g # h => gs[g] = hs[g],
           NEW Q \in SUBSET P, \A q \in Q : q.token # gs[h].token
    PROVE  SpentOnce(Q, pc, spent, gs, n)
BY DEF SpentOnce

\* The handler spends the token it holds.
LEMMA SpentOnceSpend ==
    ASSUME NEW P, NEW pc, NEW spent \in [Tokens -> Nat], NEW hs, NEW n \in Nat,
           SpentOnce(P, pc, spent, hs, n), n <= MaxTokens,
           NEW h \in Handlers, hs[h].pc = pc, NEW gs, gs[h].pc # pc,
           \A g \in Handlers : g # h => gs[g] = hs[g], NEW m \in Nat, m >= n
    PROVE  SpentOnce(P, pc, [spent EXCEPT ![hs[h].token] = @ + 1], gs, m)
<1> DEFINE t == hs[h].token
           now == [spent EXCEPT ![t] = @ + 1]
<1>1. t \in Tokens /\ t <= n /\ spent[t] = 0
  BY AccessAssumption DEF SpentOnce, Tokens
<1>2. now[t] = 1 /\ \A u \in Tokens : u # t => now[u] = spent[u]
  BY <1>1
<1> HIDE DEF now
<1>3. \A r \in P : r.token # t /\ r.token \in Tokens
  BY AccessAssumption DEF SpentOnce, Tokens
<1>4. \A g \in Handlers : g # h /\ hs[g].pc = pc => hs[g].token # t /\ hs[g].token \in Tokens
  BY AccessAssumption DEF SpentOnce, Tokens
<1>5. \A r \in P : /\ r.token \in 1 .. m /\ now[r.token] = 0
                  /\ \A g \in Handlers : ~(gs[g].pc = pc /\ gs[g].token = r.token)
  BY <1>2, <1>3 DEF SpentOnce
<1>6. \A g \in Handlers : gs[g].pc = pc =>
         /\ gs[g].token \in 1 .. m /\ now[gs[g].token] = 0
         /\ \A f \in Handlers : gs[f].pc = pc /\ gs[f].token = gs[g].token => f = g
  BY <1>2, <1>4 DEF SpentOnce
<1>7. \A u \in Tokens : now[u] <= 1 /\ (u > m => now[u] = 0)
  BY <1>1, <1>2 DEF SpentOnce, Tokens
<1>8. SpentOnce(P, pc, now, gs, m)
  BY <1>5, <1>6, <1>7 DEF SpentOnce
<1> QED
  BY <1>8 DEF now

LEMMA IdleHandlerType == IdleHandler \in HandlerRecords /\ IdleHandler.pc = "idle"
BY DEF IdleHandler, HandlerRecords, NoLogin

LEMMA AccessInitially == AccessInit => AccessInv
BY IdleHandlerType, AccessAssumption
   DEF AccessInit, AccessInv, AccessTypeOK, SpentOnce, OneEpochEach, Tokens

\* A step that draws no token, takes none and spends none.
LEMMA AccessQuiet ==
    ASSUME AccessInv, AccessTypeOK', drawn' >= drawn,
           challenges' \subseteq challenges, grants' \subseteq grants,
           UNCHANGED <<minted, opened>>,
           \A h \in Handlers : handlers'[h] = handlers[h] \/ handlers'[h].pc \in {"idle", "body"},
           OneEpochEach', credentials' = {} \/ \E t : credentials' = {t}
    PROVE  AccessInv'
<1>1. drawn \in Nat /\ drawn' \in Nat
  BY AccessAssumption DEF AccessInv, AccessTypeOK
<1>2. SpentOnce(challenges, "verifying", minted, handlers, drawn)'
  BY <1>1, SpentOnceIdle, Zenon DEF AccessInv
<1>3. SpentOnce(grants, "loading", opened, handlers, drawn)'
  BY <1>1, SpentOnceIdle, Zenon DEF AccessInv
<1> QED
  BY <1>2, <1>3 DEF AccessInv

LEMMA AccessInductive == AccessInv /\ [AccessNext]_accessVars => AccessInv'
<1> SUFFICES ASSUME AccessInv, [AccessNext]_accessVars
             PROVE  AccessInv'
  OBVIOUS
<1>c. /\ AccessTypeOK /\ OneEpochEach
      /\ SpentOnce(challenges, "verifying", minted, handlers, drawn)
      /\ SpentOnce(grants, "loading", opened, handlers, drawn)
      /\ credentials = {} \/ \E t : credentials = {t}
  BY DEF AccessInv
<1>u. UNCHANGED epochs => OneEpochEach'
  BY <1>c DEF OneEpochEach
<1>v. UNCHANGED credentials => (credentials' = {} \/ \E t : credentials' = {t})
  BY <1>c
<1>n. drawn \in Nat /\ MaxTokens \in Nat /\ drawn <= MaxTokens /\ Fresh = drawn + 1
  BY <1>c, AccessAssumption DEF AccessTypeOK, Fresh
<1>d. Draw => drawn' = drawn + 1 /\ drawn' \in Nat /\ drawn' <= MaxTokens /\ drawn + 1 \in Tokens
  BY <1>n DEF Draw, Tokens
<1>m. drawn' = drawn => drawn' >= drawn
  BY <1>n
<1>l. \A S, now : Live(S, now) \subseteq S
  BY DEF Live
<1>1. CASE IssueRegistration
  <2>1. AccessTypeOK'
    BY <1>c, <1>1, <1>n, <1>d DEF IssueRegistration, AccessTypeOK
  <2> QED
    BY <1>1, <2>1, <1>n, <1>d, <1>c, <1>d, <1>m, <1>u, <1>v, AccessQuiet DEF IssueRegistration
<1>2. ASSUME NEW t \in Tokens, VerifyRegistration(t)
      PROVE  AccessInv'
  <2>1. AccessTypeOK'
    BY <1>c, <1>2 DEF VerifyRegistration, AccessTypeOK
  <2>2. credentials' = {} \/ \E c : credentials' = {c}
    BY <1>2 DEF VerifyRegistration, MayRegister, EnrollmentOpen
  <2> QED
    BY <1>2, <1>n, <2>1, <2>2, <1>c, <1>d, <1>m, <1>u, <1>v, AccessQuiet DEF VerifyRegistration
<1>3. CASE IssueChallenge
  <2>1. AccessTypeOK'
    BY <1>c, <1>3, <1>n, <1>d DEF IssueChallenge, AccessTypeOK
  <2>2. PICK r : /\ r.token = drawn + 1
                 /\ challenges' = Live(challenges, accessNow) \cup {r}
    BY <1>3, <1>n DEF IssueChallenge
  <2>a. Live(challenges, accessNow) \in SUBSET challenges /\ drawn + 1 \in Tokens
    BY <1>3, <1>d, <1>l DEF IssueChallenge
  <2>3. SpentOnce(challenges', "verifying", minted, handlers, drawn + 1)
    BY <1>c, <1>n, <2>2, <2>a, SpentOnceIssue
  <2>4. SpentOnce(grants, "loading", opened, handlers, drawn + 1)
    BY <1>c, <1>n, SpentOnceIdle
  <2> QED
    BY <1>c, <1>3, <1>d, <2>1, <2>3, <2>4 DEF IssueChallenge, OneEpochEach, AccessInv
<1>4. ASSUME NEW h \in Handlers, NEW t \in Tokens, NEW l \in {NoLogin} \cup Tokens,
             TakeChallenge(h, t, l)
      PROVE  AccessInv'
  <2>1. /\ handlers'[h].pc = "verifying" /\ handlers'[h].token = t
        /\ \A g \in Handlers : g # h => handlers'[g] = handlers[g]
    BY <1>c, <1>4 DEF TakeChallenge, AccessTypeOK
  <2>2. PICK r \in challenges : r.token = t
    BY <1>4, <1>l DEF TakeChallenge, Named
  <2>3. /\ challenges' \subseteq challenges
        /\ \A q \in challenges' : q.token # t
    BY <1>4, <1>l DEF TakeChallenge, AfterTake, Named
  <2>4. SpentOnce(challenges', "verifying", minted, handlers', drawn)
    BY <1>c, <1>n, <2>1, <2>2, <2>3, SpentOnceTake
  <2>5. SpentOnce(grants, "loading", opened, handlers', drawn)
    BY <1>c, <1>n, <2>1, SpentOnceIdle
  <2>6. AccessTypeOK'
    BY <1>c, <1>4 DEF TakeChallenge, AccessTypeOK, HandlerRecords, Tokens, NoLogin
  <2> QED
    BY <1>c, <1>4, <2>4, <2>5, <2>6 DEF TakeChallenge, OneEpochEach, AccessInv
<1>5. ASSUME NEW h \in Handlers, NEW ok \in BOOLEAN, FinishAuthentication(h, ok)
      PROVE  AccessInv'
  <2>1. /\ handlers'[h].pc = "idle"
        /\ \A g \in Handlers : g # h => handlers'[g] = handlers[g]
        /\ handlers' \in [Handlers -> HandlerRecords]
    BY <1>c, <1>5, IdleHandlerType DEF FinishAuthentication, AccessTypeOK
  <2>2. CASE UNCHANGED <<drawn, logins, minted>>
    <3>1. AccessTypeOK'
      BY <1>c, <1>5, <2>1, <2>2 DEF FinishAuthentication, AccessTypeOK
    <3> QED
      BY <1>5, <1>n, <2>1, <2>2, <3>1, <1>c, <1>d, <1>m, <1>u, <1>v, AccessQuiet DEF FinishAuthentication
  <2>3. CASE Draw /\ minted' = [minted EXCEPT ![handlers[h].token] = @ + 1]
    <3>1. handlers[h].token \in Tokens
      BY <1>c, <1>5, <1>n DEF FinishAuthentication, SpentOnce, Tokens
    <3>2. AccessTypeOK'
      BY <1>c, <1>5, <1>n, <1>d, <2>1, <2>3, <3>1 DEF FinishAuthentication, AccessTypeOK
    <3>a. /\ minted \in [Tokens -> Nat] /\ handlers[h].pc = "verifying"
          /\ drawn' \in Nat /\ drawn' >= drawn /\ handlers'[h].pc # "verifying"
      BY <1>5, <1>c, <1>n, <1>d, <2>1, <2>3 DEF FinishAuthentication, AccessTypeOK
    <3>b. SpentOnce(challenges, "verifying", [minted EXCEPT ![handlers[h].token] = @ + 1],
                    handlers', drawn')
      BY <1>c, <1>n, <2>1, <3>a, SpentOnceSpend
    <3>3. SpentOnce(challenges, "verifying", minted', handlers', drawn')
      BY <2>3, <3>b
    <3>4. SpentOnce(grants, "loading", opened, handlers', drawn')
      BY <1>c, <1>n, <1>d, <2>1, <2>3, SpentOnceIdle
    <3> QED
      BY <1>c, <1>5, <3>2, <3>3, <3>4 DEF FinishAuthentication, OneEpochEach, AccessInv
  <2> QED
    BY <1>5, <2>2, <2>3 DEF FinishAuthentication
<1>6. ASSUME NEW l \in Tokens, NEW k \in WorkspaceKeys, EnrollKey(l, k)
      PROVE  AccessInv'
  BY <1>c, <1>6, <1>n DEF EnrollKey, AccessTypeOK, OneEpochEach, AccessInv
<1>7. ASSUME NEW l \in Tokens, IssueGrant(l)
      PROVE  AccessInv'
  <2>1. AccessTypeOK'
    BY <1>c, <1>7, <1>n, <1>d DEF IssueGrant, AccessTypeOK
  <2>2. PICK r : /\ r.token = drawn + 1
                 /\ grants' = Live(grants, accessNow) \cup {r}
    BY <1>7, <1>n DEF IssueGrant
  <2>3. SpentOnce(grants', "loading", opened, handlers, drawn + 1)
    BY <1>c, <1>7, <1>n, <1>d, <1>l, <2>2, SpentOnceIssue DEF IssueGrant
  <2>4. SpentOnce(challenges, "verifying", minted, handlers, drawn + 1)
    BY <1>c, <1>n, SpentOnceIdle
  <2> QED
    BY <1>c, <1>7, <1>d, <2>1, <2>3, <2>4 DEF IssueGrant, OneEpochEach, AccessInv
<1>8. ASSUME NEW h \in Handlers, NEW t \in Tokens, NEW l \in Tokens, BeginDelivery(h, t, l)
      PROVE  AccessInv'
  <2>1. AccessTypeOK'
    BY <1>c, <1>8 DEF BeginDelivery, AccessTypeOK, HandlerRecords, Tokens
  <2>2. \A g \in Handlers : handlers'[g] = handlers[g] \/ handlers'[g].pc \in {"idle", "body"}
    BY <1>c, <1>8 DEF BeginDelivery, AccessTypeOK
  <2> QED
    BY <1>8, <1>n, <2>1, <2>2, <1>c, <1>d, <1>m, <1>u, <1>v, AccessQuiet DEF BeginDelivery
<1>9. ASSUME NEW h \in Handlers, TakeGrant(h)
      PROVE  AccessInv'
  <2> DEFINE hd == handlers[h]
  <2>0. hd \in HandlerRecords
    BY <1>c DEF AccessTypeOK
  <2>1. /\ grants' \subseteq grants /\ \A q \in grants' : q.token # hd.token
        /\ hd.pc = "body"
        /\ UNCHANGED <<accessNow, drawn, challenges, epochs, credentials, minted, opened>>
    BY <1>9, <1>l DEF TakeGrant, AfterTake, Named
  <2>2. CASE handlers' = [handlers EXCEPT ![h] = IdleHandler]
    <3>1. AccessTypeOK'
      BY <1>c, <2>1, <2>2, IdleHandlerType DEF AccessTypeOK
    <3>2. \A g \in Handlers : handlers'[g] = handlers[g] \/ handlers'[g].pc \in {"idle", "body"}
      BY <1>c, <2>2, IdleHandlerType DEF AccessTypeOK
    <3> QED
      BY <1>n, <2>1, <3>1, <3>2, <1>c, <1>d, <1>m, <1>u, <1>v, AccessQuiet
  <2>3. CASE /\ handlers' = [handlers EXCEPT ![h] = [hd EXCEPT !.pc = "loading"]]
             /\ \E g \in grants : g.token = hd.token
    <3>1. /\ handlers'[h] = [hd EXCEPT !.pc = "loading"]
          /\ \A g \in Handlers : g # h => handlers'[g] = handlers[g]
      BY <1>c, <2>3 DEF AccessTypeOK
    <3>2. /\ handlers'[h] \in HandlerRecords /\ handlers'[h].pc = "loading"
          /\ handlers'[h].token = hd.token
      BY <2>0, <3>1 DEF HandlerRecords
    <3>3. AccessTypeOK'
      BY <1>c, <2>1, <2>3, <3>1, <3>2 DEF AccessTypeOK
    <3>4. PICK g \in grants : g.token = hd.token
      BY <2>3
    <3>a. /\ \A f \in Handlers : f # h => handlers'[f] = handlers[f]
          /\ \A f \in Handlers : handlers'[f] = handlers[f] \/ handlers'[f].pc # "verifying"
          /\ \A q \in grants' : q.token # handlers'[h].token
          /\ g.token = handlers'[h].token /\ drawn >= drawn
      <4>1. \A f \in Handlers : f # h => handlers'[f] = handlers[f]
        BY <3>1
      <4>2. /\ \A q \in grants' : q.token # handlers'[h].token
            /\ g.token = handlers'[h].token
        BY <2>1, <3>2, <3>4
      <4> QED
        BY <1>n, <3>2, <4>1, <4>2
    <3>5. SpentOnce(grants', "loading", opened, handlers', drawn)
      <4>1. /\ handlers'[h].pc = "loading" /\ grants' \in SUBSET grants
            /\ SpentOnce(grants, "loading", opened, handlers, drawn)
        BY <1>c, <2>1, <3>2
      <4> QED
        BY <1>n, <3>a, <4>1, SpentOnceTake
    <3>6. SpentOnce(challenges, "verifying", minted, handlers', drawn)
      BY <1>c, <1>n, <3>a, SpentOnceIdle
    <3> QED
      BY <1>c, <2>1, <3>3, <3>5, <3>6 DEF OneEpochEach, AccessInv
  <2> QED
    BY <1>9, <1>l, <2>2, <2>3 DEF TakeGrant, Named
<1>10. ASSUME NEW h \in Handlers, DeliverArtifact(h)
       PROVE  AccessInv'
  <2> DEFINE hd == handlers[h]
  <2>1. /\ handlers'[h].pc = "idle" /\ hd.pc = "loading"
        /\ \A g \in Handlers : g # h => handlers'[g] = handlers[g]
        /\ handlers' \in [Handlers -> HandlerRecords]
        /\ UNCHANGED <<accessNow, drawn, challenges, grants, credentials, minted>>
    BY <1>c, <1>10, IdleHandlerType DEF DeliverArtifact, AccessTypeOK
  <2>2. CASE UNCHANGED <<epochs, opened>>
    <3>1. AccessTypeOK'
      BY <1>c, <2>1, <2>2 DEF AccessTypeOK
    <3> QED
      BY <1>n, <2>1, <2>2, <3>1, <1>c, <1>d, <1>m, <1>u, <1>v, AccessQuiet
  <2>3. CASE /\ epochs' = OpenEpoch(hd.login, hd.token, hd.now)
             /\ opened' = [opened EXCEPT ![hd.token] = @ + 1]
    <3>1. hd.token \in Tokens
      BY <1>c, <1>n, <2>1 DEF SpentOnce, Tokens
    <3>2. AccessTypeOK'
      BY <1>c, <2>1, <2>3, <3>1 DEF AccessTypeOK
    <3>3. SpentOnce(grants, "loading", opened', handlers', drawn)
      <4>1. opened \in [Tokens -> Nat] /\ drawn >= drawn /\ handlers'[h].pc # "loading"
        BY <1>c, <1>n, <2>1 DEF AccessTypeOK
      <4>2. SpentOnce(grants, "loading", [opened EXCEPT ![handlers[h].token] = @ + 1],
                      handlers', drawn)
        BY <1>c, <1>n, <2>1, <4>1, SpentOnceSpend
      <4> QED
        BY <2>3, <4>2
    <3>4. SpentOnce(challenges, "verifying", minted, handlers', drawn)
      BY <1>c, <1>n, <2>1, SpentOnceIdle
    <3>5. OneEpochEach'
      BY <1>c, <2>3, <1>l DEF OpenEpoch, OneEpochEach
    <3> QED
      BY <1>c, <2>1, <3>2, <3>3, <3>4, <3>5 DEF AccessInv
  <2> QED
    BY <1>10, <2>2, <2>3 DEF DeliverArtifact
<1>11. CASE AccessTick
  <2>1. AccessTypeOK'
    BY <1>11, <1>c DEF AccessTick, AccessTypeOK
  <2> QED
    BY <1>11, <1>m, <1>u, <1>v, <2>1, AccessQuiet DEF AccessTick
<1>12. CASE AccessRestart
  <2>1. AccessTypeOK'
    BY <1>c, <1>12, IdleHandlerType DEF AccessRestart, AccessTypeOK
  <2>2. \A g \in Handlers : handlers'[g].pc \in {"idle", "body"}
    BY <1>12, IdleHandlerType DEF AccessRestart
  <2>3. OneEpochEach'
    BY <1>12 DEF AccessRestart, OneEpochEach
  <2> QED
    BY <1>12, <1>m, <1>v, <2>1, <2>2, <2>3, AccessQuiet DEF AccessRestart
<1>13. CASE UNCHANGED accessVars
  BY <1>c, <1>13 DEF accessVars, AccessTypeOK, OneEpochEach, AccessInv
<1> QED
  BY <1>1, <1>2, <1>3, <1>4, <1>5, <1>6, <1>7, <1>8, <1>9, <1>10, <1>11, <1>12, <1>13
     DEF AccessNext

\* A challenge mints at most one login, a grant opens at most one epoch, a
\* workspace session has one live epoch and the bootstrap policy enrols one
\* passkey, for any number of handlers that interleave and over restarts
\* (verify_registration, verify_challenge, deliver_artifact).
THEOREM AccessSingleUse == AccessSpec => []AccessIsSingleUse
<1>1. AccessInv => AccessIsSingleUse
  <2> SUFFICES ASSUME AccessInv
               PROVE  AccessIsSingleUse
    OBVIOUS
  <2>1. Cardinality(credentials) <= 1
    <3>1. CASE credentials = {}
      BY <3>1, FS_EmptySet
    <3>2. ASSUME NEW t, credentials = {t}
          PROVE  Cardinality(credentials) = 1
      BY <3>2, FS_Singleton
    <3> QED
      BY <3>1, <3>2 DEF AccessInv
  <2> QED
    BY <2>1 DEF AccessInv, SpentOnce, OneEpochEach, AccessIsSingleUse, OneTimeEnrollment,
                HandoffIsSingleUse
<1> QED
  BY <1>1, AccessInitially, AccessInductive, PTL DEF AccessSpec

(***************************************************************************)
(* Sessions: the replay windows and the dispatcher.                        *)
(***************************************************************************)
Windows == [highest : Nat \cup {NoSequence}, bitmap : SUBSET Nat]

SessionRecords == [live : BOOLEAN, owner : Owners \cup {NoOwner}, expires_at_ms : Nat,
                   replay : [Purposes -> Windows],
                   stream_sequence : Nat, max_server_time_ms : Nat]

RelayTypeOK ==
    /\ relayNow \in Nat
    /\ registry \in [Kids -> SessionRecords]
    /\ issued \subseteq Kids
    /\ wire \subseteq Envelopes /\ IsFiniteSet(wire)
    /\ calls \in [RelayCalls -> [pc : {"idle", "opened", "answered"},
                                 env : Envelopes \cup {NoEnvelope}]]
    /\ executed \in [Envelopes -> Nat]

\* An envelope is spent once a call has opened it.
Holding(c, e) == calls[c].pc = "opened" /\ calls[c].env = e
Spent(e) == executed[e] > 0 \/ \E c \in RelayCalls : Holding(c, e)

\* The window a spent envelope was numbered for refuses it for good, whatever
\* became of the session, and an opened envelope is in the hands of one call.
SpentIsRefused ==
    /\ \A k \in Kids : registry[k].live => k \in issued
    /\ \A e \in Envelopes : Spent(e) =>
          /\ e.kid \in issued /\ e \in wire
          /\ registry[e.kid].live =>
                ~Accepts(registry[e.kid].replay[PurposeOf(e.op)], e.sequence)
    /\ \A c \in RelayCalls : calls[c].pc = "opened" =>
          /\ calls[c].env \in Envelopes /\ executed[calls[c].env] = 0
          /\ \A b \in RelayCalls : Holding(b, calls[c].env) => b = c
    /\ \A e \in Envelopes : executed[e] <= 1

\* Clients number an envelope below the sequence they use next.
NumberedBelowNext == \A e \in wire : e.sequence < NextSequence(e.kid, PurposeOf(e.op))

RelayInv == RelayTypeOK /\ SpentIsRefused /\ NumberedBelowNext /\ HonestSequenceIsAccepted

LEMMA RouteIsPurpose ==
    ASSUME NEW p \in Purposes, NEW op \in Ops, RouteAccepts(p, op)
    PROVE  p = PurposeOf(op)
BY DEF Purposes, RouteAccepts, PurposeOf, Ops, RouteControlOps, MutatingOps

LEMMA PurposeType == \A op : PurposeOf(op) \in Purposes
BY DEF PurposeOf, Purposes

\* Accepting a sequence yields a window that refuses it, and everything that was
\* refused before (ReplayWindow::accept): the bitmap may forget what it counts,
\* never what it has seen.
LEMMA WindowForgetsNothing ==
    ASSUME NEW w \in Windows, NEW s \in Nat, NEW t \in Nat
    PROVE  /\ AfterAccept(w, s) \in Windows
           /\ ~Accepts(AfterAccept(w, s), s)
           /\ ~Accepts(w, t) => ~Accepts(AfterAccept(w, s), t)
           /\ AfterAccept(w, s).highest \in {s, w.highest}
<1> USE TransportAssumption DEF Windows, NoSequence, Accepts
<1>1. CASE w.highest = NoSequence
  <2>1. AfterAccept(w, s) = [highest |-> s, bitmap |-> {0}]
    BY <1>1 DEF AfterAccept
  <2> QED
    BY <1>1, <2>1
<1>2. CASE w.highest # NoSequence /\ s > w.highest
  <2> DEFINE delta == s - w.highest
  <2>1. AfterAccept(w, s) = [highest |-> s, bitmap |-> {0} \cup Shifted(w.bitmap, delta)]
    BY <1>2 DEF AfterAccept
  <2>2. delta \in Nat /\ Shifted(w.bitmap, delta) \subseteq Nat
    BY <1>2 DEF Shifted
  <2>3. AfterAccept(w, s) \in Windows
    BY <2>1, <2>2
  <2>4. ASSUME ~Accepts(w, t), s - t < ReplayWidth
        PROVE  s - t \in Shifted(w.bitmap, delta)
    <3>1. t <= w.highest /\ w.highest - t \in w.bitmap /\ s - t = (w.highest - t) + delta
      BY <1>2, <2>4
    <3> QED
      BY <2>4, <3>1 DEF Shifted
  <2>5. ~Accepts(w, t) => ~Accepts(AfterAccept(w, s), t)
    BY <1>2, <2>1, <2>4
  <2> QED
    BY <1>2, <2>1, <2>3, <2>5
<1>3. CASE w.highest # NoSequence /\ ~(s > w.highest)
  <2>1. AfterAccept(w, s) = [w EXCEPT !.bitmap = @ \cup {w.highest - s}]
    BY <1>3 DEF AfterAccept
  <2>2. w.highest - s \in Nat
    BY <1>3
  <2> QED
    BY <1>3, <2>1, <2>2
<1> QED
  BY <1>1, <1>2, <1>3

LEMMA AbsentType == Absent \in SessionRecords /\ ~Absent.live
<1>1. NewWindow \in Windows
  BY DEF NewWindow, Windows, NoSequence
<1> QED
  BY <1>1 DEF Absent, SessionRecords

\* A registry keeps another: what lives on has forgotten no sequence.
Keeps(older, newer) ==
    \A k \in Kids : newer[k].live =>
        /\ older[k].live
        /\ \A q \in Purposes, t \in Nat :
              ~Accepts(older[k].replay[q], t) => ~Accepts(newer[k].replay[q], t)

\* What looking at an envelope on a route does to the registry.
LEMMA OpenKeeps ==
    ASSUME RelayTypeOK, NEW e \in wire, NEW p \in Purposes
    PROVE  /\ AfterOpen(e, p) \in [Kids -> SessionRecords]
           /\ Keeps(registry, AfterOpen(e, p))
           /\ \A k \in Kids, q \in Purposes : AfterOpen(e, p)[k].live =>
                 \/ AfterOpen(e, p)[k].replay[q].highest = registry[k].replay[q].highest
                 \/ /\ k = e.kid /\ q = PurposeOf(e.op)
                    /\ AfterOpen(e, p)[k].replay[q].highest = e.sequence
           /\ Opens(e, p) =>
                 /\ p = PurposeOf(e.op) /\ registry[e.kid].live
                 /\ Accepts(registry[e.kid].replay[p], e.sequence)
                 /\ AfterOpen(e, p)[e.kid].live
                 /\ ~Accepts(AfterOpen(e, p)[e.kid].replay[p], e.sequence)
<1> DEFINE pruned == Prune(registry, relayNow)
           old    == pruned[e.kid]
           window == AfterAccept(old.replay[p], e.sequence)
<1>1. /\ pruned \in [Kids -> SessionRecords]
      /\ \A k \in Kids : pruned[k] = registry[k] \/ (pruned[k] = Absent /\ ~pruned[k].live)
  BY AbsentType DEF Prune, RelayTypeOK
<1>2. e.kid \in Kids /\ e.sequence \in Nat /\ e.op \in Ops
  BY SessionAssumption DEF RelayTypeOK, Envelopes, Sequences0
<1> HIDE DEF pruned
<1>3. Keeps(registry, pruned)
  BY <1>1 DEF Keeps
<1>4. CASE ~Opens(e, p)
  <2>1. AfterOpen(e, p) = pruned
    BY <1>4 DEF AfterOpen, pruned
  <2> QED
    BY <1>1, <1>3, <1>4, <2>1
<1>5. CASE Opens(e, p)
  <2>1. old.live /\ p = PurposeOf(e.op) /\ Accepts(old.replay[p], e.sequence)
    BY <1>2, <1>5, RouteIsPurpose DEF Opens, pruned
  <2>2. old = registry[e.kid] /\ old \in SessionRecords /\ old.replay[p] \in Windows
    BY <1>1, <1>2, <2>1 DEF SessionRecords
  <2>3. /\ window \in Windows /\ ~Accepts(window, e.sequence)
        /\ window.highest \in {e.sequence, old.replay[p].highest}
        /\ \A t \in Nat : ~Accepts(old.replay[p], t) => ~Accepts(window, t)
    BY <1>2, <2>2, WindowForgetsNothing
  <2>4. AfterOpen(e, p) = [pruned EXCEPT ![e.kid] = [old EXCEPT !.replay[p] = window]]
    BY <1>1, <1>2, <1>5 DEF AfterOpen, AcceptSequence, pruned
  <2> HIDE DEF window, old
  <2> DEFINE new == [old EXCEPT !.replay[p] = window]
  <2>5. /\ new \in SessionRecords /\ new.live
        /\ new.replay = [old.replay EXCEPT ![p] = window]
    BY <2>1, <2>2, <2>3 DEF SessionRecords
  <2>6. /\ new.replay[p] = window
        /\ \A q \in Purposes : q # p => new.replay[q] = old.replay[q]
    BY <2>2, <2>5 DEF SessionRecords
  <2> HIDE DEF new
  <2>7. /\ AfterOpen(e, p) \in [Kids -> SessionRecords]
        /\ AfterOpen(e, p)[e.kid] = new
        /\ \A k \in Kids : k # e.kid => AfterOpen(e, p)[k] = pruned[k]
    BY <1>1, <1>2, <2>4, <2>5 DEF new
  <2>8. Keeps(registry, AfterOpen(e, p))
    BY <1>3, <2>1, <2>2, <2>3, <2>6, <2>7 DEF Keeps
  <2>9. ASSUME NEW k \in Kids, NEW q \in Purposes, AfterOpen(e, p)[k].live
        PROVE  \/ AfterOpen(e, p)[k].replay[q].highest = registry[k].replay[q].highest
               \/ /\ k = e.kid /\ q = PurposeOf(e.op)
                  /\ AfterOpen(e, p)[k].replay[q].highest = e.sequence
    BY <1>1, <2>1, <2>2, <2>3, <2>6, <2>7, <2>9
  <2> QED
    BY <2>1, <2>2, <2>3, <2>5, <2>6, <2>7, <2>8, <2>9
<1> QED
  BY <1>4, <1>5

\* A registry step that opens nothing leaves the spent envelopes refused.
LEMMA RefusalIsKept ==
    ASSUME RelayTypeOK, SpentIsRefused, Keeps(registry, registry'), issued \subseteq issued',
           wire \subseteq wire', UNCHANGED <<calls, executed>>
    PROVE  SpentIsRefused'
<1>1. \A e \in Envelopes : /\ Spent(e)' = Spent(e) /\ e.kid \in Kids /\ e.sequence \in Nat
                          /\ PurposeOf(e.op) \in Purposes
  BY SessionAssumption, PurposeType DEF Spent, Holding, Envelopes, Sequences0
<1> QED
  BY <1>1 DEF SpentIsRefused, Keeps, Holding

(***************************************************************************)
(* Streams: the wake-up of a pending resync.                               *)
(***************************************************************************)
ConnRecords == [pc : {"idle", "accepted", "snapshot", "emit", "seal", "loop", "checked", "select",
                      "stop", "closed"},
                kid : Kids \cup {"none"}, generation : Nat, notify : 0 .. MaxSubscribers,
                woken : BOOLEAN, then : {"loop", "stop"}, now : Nat]

Slots == [live : BOOLEAN, generation : Nat, resync : Nat \cup {NoResync},
          notify : 0 .. MaxSubscribers]

StreamTypeOK ==
    /\ relayNow \in Nat
    /\ conns \in [Connections -> ConnRecords]
    /\ hub \in [Kids -> Slots]
    /\ permits \in [1 .. MaxSubscribers -> BOOLEAN]

ConnsAreNumbered ==
    /\ IsFiniteSet(Subscribed) /\ Cardinality(Subscribed) <= MaxSubscribers
    /\ \A d \in Connections :
          /\ conns[d].pc # "idle" => conns[d].kid \in Kids
          /\ conns[d].pc \in {"idle", "accepted"} <=> conns[d].notify = 0
          /\ conns[d].woken => conns[d].pc = "select"
    /\ \A k \in Kids : hub[k].live => hub[k].notify # 0

Alone(d) == \A o \in Connections \ {d} : conns[o].notify # conns[d].notify

\* A resync is pending on the slot that connection d holds by itself.
PendingFor(d) ==
    LET slot == hub[conns[d].kid]
    IN /\ conns[d].notify # 0 /\ IsCurrent(d) /\ slot.notify = conns[d].notify
       /\ slot.resync # NoResync /\ Alone(d)

\* Then its wake-up is stored, delivered, or just consumed by the loop that is
\* about to look.
WakeIsKept ==
    \A d \in Connections : PendingFor(d) =>
        conns[d].woken \/ permits[conns[d].notify] \/ conns[d].pc = "loop"

StreamInv == StreamTypeOK /\ ConnsAreNumbered /\ WakeIsKept

LEMMA RelayUnchanged ==
    ASSUME RelayInv, relayNow' \in Nat, UNCHANGED <<registry, issued, wire, calls, executed>>
    PROVE  RelayInv'
<1>1. RelayTypeOK'
  BY DEF RelayInv, RelayTypeOK
<1>2. SpentIsRefused'
  BY DEF RelayInv, SpentIsRefused, Spent, Holding
<1>3. NumberedBelowNext' /\ HonestSequenceIsAccepted'
  BY DEF RelayInv, NumberedBelowNext, HonestSequenceIsAccepted, NextSequence
<1> QED
  BY <1>1, <1>2, <1>3 DEF RelayInv

\* A window only ever moves to a sequence its client has used.
LEMMA HonestIsKept ==
    ASSUME RelayInv, UNCHANGED wire,
           \A k \in Kids, q \in Purposes : registry'[k].live =>
              /\ registry[k].live
              /\ \/ registry'[k].replay[q].highest = registry[k].replay[q].highest
                 \/ \E e \in wire : /\ k = e.kid /\ q = PurposeOf(e.op)
                                    /\ registry'[k].replay[q].highest = e.sequence
    PROVE  HonestSequenceIsAccepted' /\ NumberedBelowNext'
<1>1. \A k, q : NextSequence(k, q)' = NextSequence(k, q)
  BY DEF NextSequence
<1>2. NumberedBelowNext'
  BY <1>1 DEF RelayInv, NumberedBelowNext
<1>3. HonestSequenceIsAccepted'
  BY <1>1 DEF RelayInv, NumberedBelowNext, HonestSequenceIsAccepted
<1> QED
  BY <1>2, <1>3

LEMMA HandoffKeepsRelay ==
    ASSUME RelayInv, NEW k \in Kids, NEW owner \in Owners, Handoff(k, owner)
    PROVE  RelayInv'
<1> DEFINE kept == RetireOwner(Prune(registry, relayNow), owner)
           new  == NewOwned(owner, relayNow)
<1>1. /\ kept \in [Kids -> SessionRecords]
      /\ \A j \in Kids : kept[j] = registry[j] \/ kept[j] = Absent
  <2>1. \A j \in Kids : kept[j] = registry[j] \/ kept[j] = Absent
    BY DEF Prune, RetireOwner
  <2>2. \A j \in Kids : kept[j] \in SessionRecords
    BY <2>1, AbsentType DEF RelayInv, RelayTypeOK
  <2>3. kept = [j \in Kids |-> kept[j]]
    BY DEF RetireOwner
  <2> HIDE DEF kept
  <2> QED
    BY <2>1, <2>2, <2>3
<1>2. /\ new \in SessionRecords
      /\ \A q \in Purposes : new.replay[q].highest = -1
  <2>1. NewWindow \in Windows /\ NewWindow.highest = -1
    BY DEF NewWindow, Windows, NoSequence
  <2>2. relayNow + SessionTtl \in Nat
    BY TransportAssumption DEF RelayInv, RelayTypeOK
  <2> QED
    BY <2>1, <2>2 DEF NewOwned, Absent, SessionRecords
<1>3. registry' = [kept EXCEPT ![k] = new] /\ k \notin issued /\ issued' = issued \cup {k}
  BY DEF Handoff
<1> HIDE DEF kept, new
<1>4. /\ registry' \in [Kids -> SessionRecords] /\ registry'[k] = new
      /\ \A j \in Kids : j # k => registry'[j] = kept[j]
  BY <1>1, <1>2, <1>3
<1>5. UNCHANGED <<relayNow, wire, calls, executed>>
  BY DEF Handoff
<1>6. RelayTypeOK'
  BY <1>3, <1>4, <1>5 DEF RelayInv, RelayTypeOK
<1>7. SpentIsRefused'
  <2>1. \A e \in Envelopes : Spent(e)' = Spent(e) /\ e.kid \in Kids
    BY <1>5 DEF Spent, Holding, Envelopes
  <2>2. \A e \in Envelopes : Spent(e) => e.kid # k
    BY <1>3 DEF RelayInv, SpentIsRefused
  <2>3. \A j \in Kids : registry'[j].live => j \in issued'
    BY <1>1, <1>3, <1>4, AbsentType DEF RelayInv, SpentIsRefused
  <2>4. ASSUME NEW e \in Envelopes, Spent(e)'
        PROVE  /\ e.kid \in issued' /\ e \in wire'
               /\ registry'[e.kid].live =>
                     ~Accepts(registry'[e.kid].replay[PurposeOf(e.op)], e.sequence)
    BY <1>1, <1>3, <1>4, <1>5, <2>1, <2>2, <2>4, AbsentType DEF RelayInv, SpentIsRefused
  <2> QED
    BY <1>5, <2>3, <2>4 DEF RelayInv, SpentIsRefused, Holding
<1>8. \A j \in Kids, q \in Purposes : NextSequence(j, q)' = NextSequence(j, q)
                                     /\ NextSequence(j, q) \in Nat
  <2> TAKE j \in Kids, q \in Purposes
  <2>1. IsFiniteSet({e \in wire : e.kid = j /\ PurposeOf(e.op) = q})
    BY FS_Subset DEF RelayInv, RelayTypeOK
  <2> QED
    BY <1>5, <2>1, FS_CardinalityType DEF NextSequence
<1>9. HonestSequenceIsAccepted'
  <2> SUFFICES ASSUME NEW j \in Kids, NEW q \in Purposes, registry'[j].live
               PROVE  registry'[j].replay[q].highest < NextSequence(j, q)'
    BY DEF HonestSequenceIsAccepted
  <2>1. CASE j = k
    BY <1>2, <1>4, <1>8, <2>1
  <2>2. CASE j # k
    BY <1>1, <1>4, <1>8, <2>2, AbsentType DEF RelayInv, HonestSequenceIsAccepted
  <2> QED
    BY <2>1, <2>2
<1>10. NumberedBelowNext'
  BY <1>5 DEF RelayInv, NumberedBelowNext, NextSequence
<1> QED
  BY <1>6, <1>7, <1>9, <1>10 DEF RelayInv

LEMMA ClientKeepsRelay ==
    ASSUME RelayInv, NEW k \in Kids, NEW op \in Ops, ClientSeals(k, op)
    PROVE  RelayInv'
<1> DEFINE p    == PurposeOf(op)
           sent(j, q) == {e \in wire : e.kid = j /\ PurposeOf(e.op) = q}
           x    == [kid |-> k, op |-> op, sequence |-> NextSequence(k, p)]
<1>1. /\ wire' = wire \cup {x} /\ Cardinality(wire) < MaxEnvelopes
      /\ UNCHANGED <<relayNow, registry, issued, calls, executed>>
  BY DEF ClientSeals
<1>2. /\ IsFiniteSet(wire) /\ Cardinality(wire) \in Nat
      /\ wire \subseteq Envelopes
  BY FS_CardinalityType DEF RelayInv, RelayTypeOK
<1>3. \A j, q : /\ IsFiniteSet(sent(j, q)) /\ Cardinality(sent(j, q)) \in Nat
                /\ Cardinality(sent(j, q)) <= Cardinality(wire)
  <2> TAKE j, q
  <2>1. IsFiniteSet(sent(j, q)) /\ Cardinality(sent(j, q)) <= Cardinality(wire)
    BY <1>2, FS_Subset
  <2> QED
    BY <2>1, FS_CardinalityType
<1>4. \A j, q : NextSequence(j, q) = Cardinality(sent(j, q))
  BY DEF NextSequence
<1> HIDE DEF sent
<1>5. x \in Envelopes /\ x \notin wire
  <2>1. NextSequence(k, p) \in 0 .. MaxEnvelopes
    BY <1>1, <1>2, <1>3, <1>4, SessionAssumption
  <2>2. x \in Envelopes
    BY <2>1 DEF Envelopes, Sequences0
  <2>3. \A e \in wire : e.kid = k /\ PurposeOf(e.op) = p => e.sequence < NextSequence(k, p)
    BY DEF RelayInv, NumberedBelowNext
  <2>4. ~(NextSequence(k, p) < NextSequence(k, p))
    BY <2>1, SessionAssumption
  <2> QED
    <3>1. x.kid = k /\ x.op = op /\ x.sequence = NextSequence(k, p)
      OBVIOUS
    <3>2. x \notin wire
      BY <2>3, <2>4, <3>1
    <3> QED
      BY <2>2, <3>2
<1> DEFINE after(j, q) == {e \in wire' : e.kid = j /\ PurposeOf(e.op) = q}
<1>6. \A j, q : NextSequence(j, q)' = Cardinality(after(j, q))
  BY DEF NextSequence
<1> HIDE DEF after
<1>7. \A j, q : \/ j = k /\ q = p /\ NextSequence(j, q)' = NextSequence(j, q) + 1
                \/ ~(j = k /\ q = p) /\ NextSequence(j, q)' = NextSequence(j, q)
  <2> TAKE j, q
  <2>1. CASE j = k /\ q = p
    <3>a. x.kid = k /\ x.op = op
      OBVIOUS
    <3> HIDE DEF x
    <3>1. after(j, q) = sent(j, q) \cup {x} /\ x \notin sent(j, q)
      BY <1>1, <1>5, <2>1, <3>a DEF sent, after
    <3>2. Cardinality(after(j, q)) = Cardinality(sent(j, q)) + 1
      BY <1>3, <3>1, FS_AddElement
    <3> QED
      BY <1>4, <1>6, <2>1, <3>2
  <2>2. CASE ~(j = k /\ q = p)
    <3>1. after(j, q) = sent(j, q)
      BY <1>1, <2>2 DEF sent, after
    <3> QED
      BY <1>4, <1>6, <2>2, <3>1
  <2> QED
    BY <2>1, <2>2
<1>8. \A j, q : NextSequence(j, q) \in Nat
  BY <1>3, <1>4
<1>9. RelayTypeOK'
  BY <1>1, <1>2, <1>5, FS_AddElement DEF RelayInv, RelayTypeOK
<1>10. SpentIsRefused'
  <2>1. Keeps(registry, registry')
    BY <1>1 DEF Keeps
  <2> QED
    BY <1>1, <2>1, RefusalIsKept DEF RelayInv
<1>11. NumberedBelowNext'
  <2> SUFFICES ASSUME NEW e \in wire'
               PROVE  e.sequence < NextSequence(e.kid, PurposeOf(e.op))'
    BY DEF NumberedBelowNext
  <2>1. CASE e = x
    BY <1>7, <1>8, <2>1
  <2>2. CASE e \in wire
    <3>1. e.sequence \in Nat /\ e.sequence < NextSequence(e.kid, PurposeOf(e.op))
      BY <1>2, <2>2, SessionAssumption DEF RelayInv, NumberedBelowNext, Envelopes, Sequences0
    <3> QED
      BY <1>7, <1>8, <3>1
  <2> QED
    BY <1>1, <2>1, <2>2
<1>12. HonestSequenceIsAccepted'
  <2> SUFFICES ASSUME NEW j \in Kids, NEW q \in Purposes, registry'[j].live
               PROVE  registry'[j].replay[q].highest < NextSequence(j, q)'
    BY DEF HonestSequenceIsAccepted
  <2>1. registry[j].replay[q].highest < NextSequence(j, q)
    BY <1>1 DEF RelayInv, HonestSequenceIsAccepted
  <2>2. registry[j].replay[q].highest \in Int
    BY DEF RelayInv, RelayTypeOK, SessionRecords, Windows, NoSequence
  <2> QED
    BY <1>1, <1>7, <1>8, <2>1, <2>2
<1> QED
  BY <1>9, <1>10, <1>11, <1>12 DEF RelayInv

LEMMA RelayOpenKeepsRelay ==
    ASSUME RelayInv, NEW c \in RelayCalls, NEW e \in wire, NEW p \in Purposes, RelayOpen(c, e, p)
    PROVE  RelayInv'
<1> USE DEF RelayInv
<1>1. /\ registry' = AfterOpen(e, p)
      /\ UNCHANGED <<relayNow, issued, wire, executed>>
      /\ e \in Envelopes /\ e.kid \in Kids /\ e.sequence \in Nat
  BY SessionAssumption DEF RelayOpen, RelayTypeOK, Envelopes, Sequences0
<1>2. Keeps(registry, registry') /\ registry' \in [Kids -> SessionRecords]
  BY <1>1, OpenKeeps
<1>3. HonestSequenceIsAccepted' /\ NumberedBelowNext'
  <2>1. \A k \in Kids, q \in Purposes : registry'[k].live =>
           /\ registry[k].live
           /\ \/ registry'[k].replay[q].highest = registry[k].replay[q].highest
              \/ \E f \in wire : /\ k = f.kid /\ q = PurposeOf(f.op)
                                 /\ registry'[k].replay[q].highest = f.sequence
    BY <1>1, <1>2, OpenKeeps DEF Keeps
  <2> QED
    BY <1>1, <2>1, HonestIsKept
<1>4. CASE ~Opens(e, p)
  <2>1. UNCHANGED calls
    BY <1>4 DEF RelayOpen
  <2>2. SpentIsRefused'
    BY <1>1, <1>2, <2>1, RefusalIsKept
  <2> QED
    BY <1>1, <1>2, <1>3, <2>1, <2>2 DEF RelayTypeOK
<1>5. CASE Opens(e, p)
  <2>1. calls' = [calls EXCEPT ![c] = [pc |-> "opened", env |-> e]] /\ calls[c].pc = "idle"
    BY <1>5 DEF RelayOpen
  <2>2. /\ calls'[c].pc = "opened" /\ calls'[c].env = e
        /\ \A b \in RelayCalls : b # c => calls'[b] = calls[b]
    BY <2>1 DEF RelayTypeOK
  <2>3. /\ p = PurposeOf(e.op) /\ registry[e.kid].live
        /\ Accepts(registry[e.kid].replay[p], e.sequence)
        /\ ~Accepts(registry'[e.kid].replay[p], e.sequence)
    BY <1>1, <1>5, OpenKeeps
  <2>4. ~Spent(e) /\ e.kid \in issued
    BY <1>1, <2>3 DEF SpentIsRefused
  <2>5. RelayTypeOK'
    BY <1>1, <1>2, <2>1 DEF RelayTypeOK
  <2>6. \A f \in Envelopes : /\ Spent(f)' => f = e \/ Spent(f)
                            /\ f.kid \in Kids /\ f.sequence \in Nat /\ PurposeOf(f.op) \in Purposes
    BY <1>1, <2>2, SessionAssumption, PurposeType DEF Spent, Holding, Envelopes, Sequences0
  <2>7. \A k \in Kids : registry'[k].live => k \in issued'
    BY <1>1, <1>2 DEF SpentIsRefused, Keeps
  <2>8. ASSUME NEW f \in Envelopes, Spent(f)'
        PROVE  /\ f.kid \in issued' /\ f \in wire'
               /\ registry'[f.kid].live =>
                     ~Accepts(registry'[f.kid].replay[PurposeOf(f.op)], f.sequence)
    <3>1. CASE f = e
      BY <1>1, <2>3, <2>4, <3>1
    <3>2. CASE Spent(f)
      BY <1>1, <1>2, <2>6, <3>2 DEF SpentIsRefused, Keeps
    <3> QED
      BY <2>6, <2>8, <3>1, <3>2
  <2>9. ASSUME NEW a \in RelayCalls, calls'[a].pc = "opened"
        PROVE  /\ calls'[a].env \in Envelopes /\ executed'[calls'[a].env] = 0
               /\ \A b \in RelayCalls :
                     calls'[b].pc = "opened" /\ calls'[b].env = calls'[a].env => b = a
    <3>1. executed[e] = 0 /\ \A b \in RelayCalls : ~Holding(b, e)
      BY <1>1, <2>4 DEF Spent, RelayTypeOK
    <3>2. CASE a = c
      BY <1>1, <2>2, <3>1, <3>2 DEF Holding
    <3>3. CASE a # c
      <4>1. /\ calls[a].pc = "opened" /\ calls'[a] = calls[a] /\ calls[a].env # e
            /\ calls[a].env \in Envelopes /\ executed[calls[a].env] = 0
            /\ \A b \in RelayCalls : Holding(b, calls[a].env) => b = a
        BY <2>2, <2>9, <3>1, <3>3 DEF Holding, SpentIsRefused
      <4> QED
        BY <1>1, <2>2, <4>1 DEF Holding
    <3> QED
      BY <3>2, <3>3
  <2>10. SpentIsRefused'
    <3>1. \A f \in Envelopes : executed'[f] <= 1
      BY <1>1 DEF SpentIsRefused
    <3> QED
      BY <2>7, <2>8, <2>9, <3>1 DEF SpentIsRefused, Holding
  <2> QED
    BY <1>3, <2>5, <2>10
<1> QED
  BY <1>4, <1>5

\* A call that answers gives up what it holds; the dispatcher may have seen it.
LEMMA AnswerKeepsRelay ==
    ASSUME RelayInv, NEW c \in RelayCalls, relayNow' \in Nat,
           UNCHANGED <<registry, issued, wire>>,
           calls' \in [RelayCalls -> [pc : {"idle", "opened", "answered"},
                                     env : Envelopes \cup {NoEnvelope}]],
           calls'[c].pc # "opened", \A b \in RelayCalls : b # c => calls'[b] = calls[b],
           \/ UNCHANGED executed
           \/ /\ calls[c].pc = "opened"
              /\ executed' = [executed EXCEPT ![calls[c].env] = @ + 1]
    PROVE  RelayInv'
<1> USE DEF RelayInv
<1>1. HonestSequenceIsAccepted' /\ NumberedBelowNext'
  BY DEF NumberedBelowNext, HonestSequenceIsAccepted, NextSequence
<1>2. \A e, b : b \in RelayCalls /\ Holding(b, e)' => Holding(b, e) /\ b # c
  BY DEF Holding
<1>3. CASE UNCHANGED executed
  <2>1. \A e \in Envelopes : Spent(e)' => Spent(e)
    BY <1>2, <1>3 DEF Spent
  <2>2. SpentIsRefused'
    BY <1>2, <1>3, <2>1 DEF SpentIsRefused, Holding
  <2> QED
    BY <1>1, <1>3, <2>2 DEF RelayTypeOK
<1>4. CASE calls[c].pc = "opened" /\ executed' = [executed EXCEPT ![calls[c].env] = @ + 1]
  <2> DEFINE x == calls[c].env
  <2>1. x \in Envelopes /\ executed[x] = 0 /\ Holding(c, x) /\ Spent(x)
    BY <1>4 DEF SpentIsRefused, Holding, Spent
  <2> HIDE DEF x
  <2>2. /\ executed' \in [Envelopes -> Nat] /\ executed'[x] = 1
        /\ \A e \in Envelopes : e # x => executed'[e] = executed[e]
    BY <1>4, <2>1 DEF RelayTypeOK, x
  <2>3. \A e \in Envelopes : Spent(e)' => Spent(e)
    BY <1>2, <2>1, <2>2 DEF Spent
  <2>4. \A e \in Envelopes : executed'[e] <= 1
    BY <2>1, <2>2 DEF SpentIsRefused
  <2>5. ASSUME NEW a \in RelayCalls, calls'[a].pc = "opened"
        PROVE  /\ calls'[a].env \in Envelopes /\ executed'[calls'[a].env] = 0
               /\ \A b \in RelayCalls :
                     calls'[b].pc = "opened" /\ calls'[b].env = calls'[a].env => b = a
    <3>1. a # c /\ calls'[a] = calls[a] /\ calls[a].env \in Envelopes
          /\ executed[calls[a].env] = 0
          /\ \A b \in RelayCalls : Holding(b, calls[a].env) => b = a
      BY <2>5 DEF SpentIsRefused
    <3>2. calls[a].env # x
      BY <2>1, <3>1
    <3> QED
      BY <2>2, <3>1, <3>2 DEF Holding
  <2>6. SpentIsRefused'
    <3>1. \A k \in Kids : registry'[k].live => k \in issued'
      BY DEF SpentIsRefused
    <3>2. \A e \in Envelopes : Spent(e)' =>
             /\ e.kid \in issued' /\ e \in wire'
             /\ registry'[e.kid].live =>
                   ~Accepts(registry'[e.kid].replay[PurposeOf(e.op)], e.sequence)
      BY <2>3 DEF SpentIsRefused
    <3> QED
      BY <2>4, <2>5, <3>1, <3>2 DEF SpentIsRefused, Holding
  <2> QED
    BY <1>1, <2>2, <2>6 DEF RelayTypeOK
<1> QED
  BY <1>3, <1>4

LEMMA AfterSealType ==
    ASSUME NEW session \in SessionRecords, NEW now \in Nat
    PROVE  /\ AfterSeal(session, now) \in SessionRecords
           /\ AfterSeal(session, now).live = session.live
           /\ AfterSeal(session, now).replay = session.replay
<1>1. ASSUME NEW n \in Nat, n = session.stream_sequence + 1
      PROVE  /\ AfterSeal(session, now) \in SessionRecords
             /\ AfterSeal(session, now).live = session.live
             /\ AfterSeal(session, now).replay = session.replay
  <2>1. AfterSeal(session, now)
           = [session EXCEPT !.stream_sequence = n, !.max_server_time_ms = now]
    BY <1>1 DEF AfterSeal, SessionRecords
  <2> QED
    BY <2>1 DEF SessionRecords
<1>2. session.stream_sequence + 1 \in Nat
  BY DEF SessionRecords
<1> QED
  BY <1>1, <1>2

\* Sealing a frame touches no window.
LEMMA SealFrameKeepsRelay ==
    ASSUME RelayInv, StreamTypeOK, NEW d \in Connections, conns[d].kid \in Kids, SealFrame(d)
    PROVE  RelayInv'
<1> DEFINE k   == conns[d].kid
           now == conns[d].now
<1>1. /\ UNCHANGED <<relayNow, issued, wire, calls, executed>>
      /\ registry \in [Kids -> SessionRecords] /\ now \in Nat
  BY DEF SealFrame, RelayInv, RelayTypeOK, StreamTypeOK, ConnRecords
<1>2. \E r : /\ r \in {registry[k], Absent, AfterSeal(registry[k], now)}
             /\ registry' = [registry EXCEPT ![k] = r]
  BY <1>1 DEF SealFrame
<1>3. /\ AfterSeal(registry[k], now) \in SessionRecords
      /\ AfterSeal(registry[k], now).live = registry[k].live
      /\ AfterSeal(registry[k], now).replay = registry[k].replay
  BY <1>1, AfterSealType
<1>4. /\ registry' \in [Kids -> SessionRecords]
      /\ \A j \in Kids : registry'[j].live =>
            registry[j].live /\ registry'[j].replay = registry[j].replay
  BY <1>1, <1>2, <1>3, AbsentType
<1>5. Keeps(registry, registry')
  BY <1>4 DEF Keeps
<1>6. SpentIsRefused'
  BY <1>1, <1>5, RefusalIsKept DEF RelayInv
<1>7. HonestSequenceIsAccepted' /\ NumberedBelowNext'
  BY <1>1, <1>4, HonestIsKept
<1> QED
  BY <1>1, <1>4, <1>6, <1>7 DEF RelayInv, RelayTypeOK

\* A connection that has registered goes from one of its states to another and
\* keeps its place; the slot may lose its pending resync.
LEMMA MoveKeepsStream ==
    ASSUME StreamInv, relayNow' \in Nat, NEW d \in Connections, conns[d].notify # 0,
           NEW r \in ConnRecords, conns' = [conns EXCEPT ![d] = r],
           r.kid = conns[d].kid, r.generation = conns[d].generation, r.notify = conns[d].notify,
           r.pc \notin {"idle", "accepted"}, r.woken => r.pc = "select",
           permits' \in [1 .. MaxSubscribers -> BOOLEAN],
           \A n \in 1 .. MaxSubscribers : n # conns[d].notify => permits'[n] = permits[n],
           hub' \in [Kids -> Slots],
           \A k \in Kids : hub'[k] = hub[k] \/ hub'[k].resync = NoResync,
           \A k \in Kids : hub'[k].live => hub'[k].notify # 0,
           PendingFor(d)' => r.woken \/ permits'[r.notify] \/ r.pc = "loop"
    PROVE  StreamInv'
<1> USE DEF StreamInv
<1>1. StreamTypeOK'
  BY DEF StreamTypeOK
<1>2. /\ conns'[d] = r /\ \A x \in Connections : x # d => conns'[x] = conns[x]
      /\ \A x \in Connections : /\ conns'[x].notify = conns[x].notify
                               /\ conns'[x].kid = conns[x].kid
                               /\ conns'[x].generation = conns[x].generation
  BY DEF StreamTypeOK
<1>3. Subscribed' = Subscribed
  BY <1>2 DEF Subscribed, ConnsAreNumbered
<1>4. ConnsAreNumbered'
  BY <1>2, <1>3 DEF ConnsAreNumbered
<1>5. ASSUME NEW x \in Connections, x # d, PendingFor(x)'
      PROVE  /\ PendingFor(x) /\ conns[x].notify # conns[d].notify
             /\ conns[x].notify \in 1 .. MaxSubscribers
  <2>1. conns[x].notify # 0 /\ conns[x].notify \in 1 .. MaxSubscribers /\ conns[x].kid \in Kids
    BY <1>2, <1>5, SessionAssumption DEF PendingFor, StreamTypeOK, ConnsAreNumbered, ConnRecords
  <2>2. hub'[conns[x].kid] = hub[conns[x].kid]
    BY <1>2, <1>5, <2>1 DEF PendingFor
  <2>3. Alone(x) /\ conns[x].notify # conns[d].notify
    BY <1>2, <1>5 DEF PendingFor, Alone
  <2> QED
    BY <1>2, <1>5, <2>1, <2>2, <2>3 DEF PendingFor, IsCurrent
<1>6. WakeIsKept'
  <2> SUFFICES ASSUME NEW x \in Connections, PendingFor(x)'
               PROVE  conns'[x].woken \/ permits'[conns'[x].notify] \/ conns'[x].pc = "loop"
    BY DEF WakeIsKept
  <2>1. CASE x = d
    BY <1>2, <2>1
  <2>2. CASE x # d
    BY <1>2, <1>5, <2>2 DEF WakeIsKept
  <2> QED
    BY <2>1, <2>2
<1> QED
  BY <1>1, <1>4, <1>6

LEMMA StreamUnchanged ==
    ASSUME StreamInv, relayNow' \in Nat, UNCHANGED streamVars
    PROVE  StreamInv'
BY DEF StreamInv, StreamTypeOK, ConnsAreNumbered, WakeIsKept, PendingFor, IsCurrent, Alone,
       Subscribed, streamVars

\* What notify_one does: a permit, or one waiter of that Notify awake.
LEMMA NotifyOneEffect ==
    ASSUME NEW n, NEW cs, NotifyOne(n, cs)
    PROVE  \/ /\ permits' = [permits EXCEPT ![n] = TRUE] /\ conns' = cs
              /\ \A w \in Waiters(n) : cs[w].pc # "select"
           \/ /\ UNCHANGED permits
              /\ \E w \in Waiters(n) : /\ cs[w].pc = "select"
                                       /\ conns' = [cs EXCEPT ![w].woken = TRUE]
BY DEF NotifyOne, Waiters

\* A connection that is woken is what it was, but awake.
LEMMA WokenType ==
    ASSUME NEW q \in ConnRecords, NEW r, r = [q EXCEPT !.woken = TRUE]
    PROVE  /\ r \in ConnRecords /\ r.pc = q.pc /\ r.kid = q.kid /\ r.notify = q.notify
           /\ r.generation = q.generation /\ r.woken
BY DEF ConnRecords

LEMMA RequestKeepsStream ==
    ASSUME StreamInv, RelayInv, NEW c \in RelayCalls, RequestResync(c)
    PROVE  StreamInv'
<1> DEFINE e == calls[c].env
           k == e.kid
           n == hub[k].notify
<1>1. e \in Envelopes /\ k \in Kids /\ e.sequence \in Nat /\ relayNow' = relayNow
  BY SessionAssumption DEF RequestResync, RelayInv, SpentIsRefused, Envelopes, Sequences0
<1>2. CASE ~hub[k].live
  BY <1>1, <1>2, StreamUnchanged DEF RequestResync, StreamInv, StreamTypeOK, streamVars
<1>3. CASE hub[k].live
  <2> USE DEF StreamInv
  <2>1. /\ hub' = [hub EXCEPT ![k].resync = e.sequence] /\ NotifyOne(n, conns)
        /\ n \in 1 .. MaxSubscribers
    BY <1>1, <1>3, SessionAssumption
       DEF RequestResync, StreamTypeOK, Slots, ConnsAreNumbered
  <2>2. /\ hub' \in [Kids -> Slots]
        /\ \A j \in Kids : /\ hub'[j].live = hub[j].live /\ hub'[j].notify = hub[j].notify
                           /\ hub'[j].generation = hub[j].generation
                           /\ j # k => hub'[j] = hub[j]
    BY <1>1, <2>1 DEF StreamTypeOK, Slots
  <2>3. \/ /\ permits' = [permits EXCEPT ![n] = TRUE] /\ conns' = conns
           /\ \A w \in Waiters(n) : conns[w].pc # "select"
        \/ /\ UNCHANGED permits
           /\ \E w \in Waiters(n) : /\ conns[w].pc = "select"
                                    /\ conns' = [conns EXCEPT ![w].woken = TRUE]
    BY <2>1, NotifyOneEffect
  <2>4. /\ conns' \in [Connections -> ConnRecords]
        /\ \A x \in Connections :
              /\ conns'[x].pc = conns[x].pc /\ conns'[x].kid = conns[x].kid
              /\ conns'[x].notify = conns[x].notify
              /\ conns'[x].generation = conns[x].generation
              /\ conns[x].woken => conns'[x].woken
              /\ conns'[x].woken => conns[x].woken \/ conns[x].pc = "select"
    <3>1. CASE conns' = conns
      BY <3>1 DEF StreamTypeOK
    <3>2. ASSUME NEW w \in Waiters(n), conns' = [conns EXCEPT ![w].woken = TRUE]
          PROVE  /\ conns' \in [Connections -> ConnRecords]
                 /\ \A x \in Connections :
                       /\ conns'[x].pc = conns[x].pc /\ conns'[x].kid = conns[x].kid
                       /\ conns'[x].notify = conns[x].notify
                       /\ conns'[x].generation = conns[x].generation
                       /\ conns[x].woken => conns'[x].woken
                       /\ conns'[x].woken => conns[x].woken \/ conns[x].pc = "select"
      <4>1. w \in Connections /\ conns[w].pc = "select" /\ conns \in [Connections -> ConnRecords]
        BY DEF Waiters, StreamTypeOK
      <4>2. /\ conns' \in [Connections -> ConnRecords]
            /\ \A x \in Connections : x # w => conns'[x] = conns[x]
            /\ conns'[w].pc = conns[w].pc /\ conns'[w].kid = conns[w].kid
            /\ conns'[w].notify = conns[w].notify
            /\ conns'[w].generation = conns[w].generation /\ conns'[w].woken
        <5> DEFINE r == [conns[w] EXCEPT !.woken = TRUE]
        <5>1. conns' = [conns EXCEPT ![w] = r] /\ conns[w] \in ConnRecords
          BY <3>2, <4>1
        <5>2. /\ r \in ConnRecords /\ r.pc = conns[w].pc /\ r.kid = conns[w].kid
              /\ r.notify = conns[w].notify /\ r.generation = conns[w].generation /\ r.woken
          BY <5>1, WokenType
        <5> HIDE DEF r
        <5> QED
          BY <4>1, <5>1, <5>2
      <4> QED
        BY <4>1, <4>2
    <3> QED
      BY <2>3, <3>1, <3>2
  <2>5. /\ permits' \in [1 .. MaxSubscribers -> BOOLEAN]
        /\ \A m \in 1 .. MaxSubscribers : permits[m] => permits'[m]
    BY <2>1, <2>3 DEF StreamTypeOK
  <2>6. StreamTypeOK'
    BY <1>1, <2>2, <2>4, <2>5 DEF StreamTypeOK
  <2>7. ConnsAreNumbered'
    <3>1. Subscribed' = Subscribed
      BY <2>4 DEF Subscribed
    <3> QED
      BY <2>2, <2>4, <3>1 DEF ConnsAreNumbered
  <2>8. WakeIsKept'
    <3> SUFFICES ASSUME NEW x \in Connections, PendingFor(x)'
                 PROVE  conns'[x].woken \/ permits'[conns'[x].notify] \/ conns'[x].pc = "loop"
      BY DEF WakeIsKept
    <3>1. conns[x].notify \in 1 .. MaxSubscribers /\ conns[x].kid \in Kids
      BY <2>4, SessionAssumption DEF PendingFor, StreamTypeOK, ConnsAreNumbered, ConnRecords
    <3>2. Alone(x)
      BY <2>4 DEF PendingFor, Alone
    <3>3. CASE conns[x].kid # k
      <4>1. PendingFor(x)
        BY <2>2, <2>4, <3>1, <3>2, <3>3 DEF PendingFor, IsCurrent
      <4> QED
        BY <2>4, <2>5, <3>1, <4>1 DEF WakeIsKept
    <3>4. CASE conns[x].kid = k
      <4>1. conns[x].notify = n
        BY <1>1, <2>2, <2>4, <3>4 DEF PendingFor
      <4>2. \A w \in Waiters(n) : w = x
        BY <3>2, <4>1 DEF Waiters, Alone
      <4>3. CASE permits' = [permits EXCEPT ![n] = TRUE]
        BY <2>1, <2>4, <4>1, <4>3 DEF StreamTypeOK
      <4>4. CASE \E w \in Waiters(n) : conns' = [conns EXCEPT ![w].woken = TRUE]
        BY <4>2, <4>4, WokenType DEF StreamTypeOK, Waiters
      <4> QED
        BY <2>3, <4>3, <4>4
    <3> QED
      BY <3>3, <3>4
  <2> QED
    BY <2>6, <2>7, <2>8
<1> QED
  BY <1>2, <1>3

LEMMA SubscribeKeepsStream ==
    ASSUME StreamInv, NEW d \in Connections, NEW e, e.kid \in Kids, Subscribe(d, e)
    PROVE  StreamInv'
<1> USE DEF StreamInv
<1>1. CASE ~Opens(e, "Stream")
  BY <1>1, StreamUnchanged DEF Subscribe, StreamTypeOK, streamVars
<1>2. CASE Opens(e, "Stream")
  <2> DEFINE r == [conns[d] EXCEPT !.pc = "accepted", !.kid = e.kid]
  <2>1. /\ conns' = [conns EXCEPT ![d] = r] /\ conns[d] \in ConnRecords
        /\ conns[d].pc = "idle" /\ UNCHANGED <<relayNow, hub, permits>>
        /\ Cardinality(Subscribed) < MaxSubscribers
    BY <1>2 DEF Subscribe, StreamTypeOK
  <2>2. /\ r \in ConnRecords /\ r.pc = "accepted" /\ r.kid = e.kid
        /\ r.notify = conns[d].notify /\ (r.woken => conns[d].woken)
    BY <2>1 DEF ConnRecords
  <2> HIDE DEF r
  <2>3. conns'[d] = r /\ \A x \in Connections : x # d => conns'[x] = conns[x]
    BY <2>1 DEF StreamTypeOK
  <2>4. StreamTypeOK'
    BY <2>1, <2>2 DEF StreamTypeOK
  <2>5. /\ IsFiniteSet(Subscribed') /\ Cardinality(Subscribed') <= MaxSubscribers
    <3>1. Subscribed' = Subscribed \cup {d} /\ d \notin Subscribed
      BY <2>1, <2>2, <2>3 DEF Subscribed
    <3>2. Cardinality(Subscribed') = Cardinality(Subscribed) + 1 /\ IsFiniteSet(Subscribed')
      BY <3>1, FS_AddElement DEF ConnsAreNumbered
    <3>3. Cardinality(Subscribed) \in Nat
      BY FS_CardinalityType DEF ConnsAreNumbered
    <3> QED
      BY <2>1, <3>2, <3>3, SessionAssumption
  <2>6. conns[d].notify = 0 /\ ~conns[d].woken
    BY <2>1 DEF ConnsAreNumbered
  <2>7. ConnsAreNumbered'
    BY <2>1, <2>2, <2>3, <2>5, <2>6 DEF ConnsAreNumbered
  <2>8. WakeIsKept'
    <3> SUFFICES ASSUME NEW x \in Connections, PendingFor(x)'
                 PROVE  conns'[x].woken \/ permits'[conns'[x].notify] \/ conns'[x].pc = "loop"
      BY DEF WakeIsKept
    <3>1. x # d /\ conns'[x] = conns[x]
      BY <2>2, <2>3, <2>6 DEF PendingFor
    <3>2. \A o \in Connections : conns'[o].notify = conns[o].notify
      BY <2>2, <2>3
    <3>3. PendingFor(x)
      BY <2>1, <3>1, <3>2 DEF PendingFor, IsCurrent, Alone
    <3> QED
      BY <2>1, <3>1, <3>3 DEF WakeIsKept
  <2> QED
    BY <2>4, <2>7, <2>8
<1> QED
  BY <1>1, <1>2

LEMMA RegisterKeepsStream ==
    ASSUME StreamInv, NEW d \in Connections, Register(d)
    PROVE  StreamInv'
<1> USE DEF StreamInv
<1> DEFINE k == conns[d].kid
           n == IF hub[k].live THEN hub[k].notify ELSE FreshNotify
           g == hub[k].generation + 1
           slot == [live |-> TRUE, generation |-> g, resync |-> NoResync, notify |-> n]
           r == [conns[d] EXCEPT !.pc = "snapshot", !.generation = g, !.notify = n]
<1>1. /\ conns[d].pc = "accepted" /\ k \in Kids /\ conns[d] \in ConnRecords
      /\ conns[d].notify = 0 /\ ~conns[d].woken
      /\ UNCHANGED <<relayNow, permits>>
  BY DEF Register, ConnsAreNumbered, StreamTypeOK
<1>2. hub' = [hub EXCEPT ![k] = slot] /\ conns' = [conns EXCEPT ![d] = r]
  BY <1>1 DEF Register, StreamTypeOK
<1>3. g \in Nat
  BY <1>1 DEF StreamTypeOK, Slots
<1>4. n \in 1 .. MaxSubscribers
  <2> DEFINE used == {x \in Connections : conns[x].notify # 0}
  <2>1. used \subseteq Subscribed /\ d \notin used /\ d \in Subscribed
    BY <1>1 DEF ConnsAreNumbered, Subscribed
  <2>2. IsFiniteSet(used) /\ used \cup {d} \subseteq Subscribed
    BY <2>1, FS_Subset DEF ConnsAreNumbered
  <2>3. Cardinality(used \cup {d}) = Cardinality(used) + 1 /\ Cardinality(used) \in Nat
    BY <2>1, <2>2, FS_AddElement, FS_CardinalityType
  <2>4. Cardinality(used \cup {d}) <= Cardinality(Subscribed)
    BY <2>2, FS_Subset DEF ConnsAreNumbered
  <2>5. Cardinality(Subscribed) \in Nat
    BY FS_CardinalityType DEF ConnsAreNumbered
  <2>6. FreshNotify = 1 + Cardinality(used)
    BY DEF FreshNotify
  <2>7. FreshNotify \in 1 .. MaxSubscribers
    BY <2>3, <2>4, <2>5, <2>6, SessionAssumption DEF ConnsAreNumbered
  <2>8. hub[k].live => hub[k].notify \in 1 .. MaxSubscribers
    BY <1>1, SessionAssumption DEF StreamTypeOK, Slots, ConnsAreNumbered
  <2> QED
    BY <2>7, <2>8
<1> HIDE DEF n, g
<1>5. n \in 0 .. MaxSubscribers /\ n # 0
  BY <1>4, SessionAssumption
<1>6. slot \in Slots /\ slot.resync = NoResync /\ slot.notify = n
  BY <1>3, <1>5 DEF Slots
<1>7. /\ r \in ConnRecords /\ r.pc = "snapshot" /\ r.notify = n /\ r.kid = k
      /\ (r.woken => conns[d].woken)
  BY <1>1, <1>3, <1>5 DEF ConnRecords
<1> HIDE DEF slot, r
<1>8. /\ conns'[d] = r /\ \A x \in Connections : x # d => conns'[x] = conns[x]
      /\ hub'[k] = slot /\ \A j \in Kids : j # k => hub'[j] = hub[j]
  BY <1>1, <1>2 DEF StreamTypeOK
<1>9. StreamTypeOK'
  BY <1>1, <1>2, <1>6, <1>7 DEF StreamTypeOK
<1>10. ConnsAreNumbered'
  <2>1. Subscribed' = Subscribed
    BY <1>1, <1>7, <1>8 DEF Subscribed
  <2> QED
    BY <1>1, <1>5, <1>6, <1>7, <1>8, <2>1 DEF ConnsAreNumbered
<1>11. WakeIsKept'
  <2> SUFFICES ASSUME NEW x \in Connections, PendingFor(x)'
               PROVE  conns'[x].woken \/ permits'[conns'[x].notify] \/ conns'[x].pc = "loop"
    BY DEF WakeIsKept
  <2>1. x # d /\ conns[x].kid # k
    BY <1>6, <1>7, <1>8 DEF PendingFor
  <2>2. conns'[x] = conns[x] /\ conns[x].kid \in Kids /\ conns[x].notify # 0
    BY <1>8, <2>1 DEF PendingFor, ConnsAreNumbered
  <2>3. Alone(x)
    BY <1>1, <1>8, <2>2 DEF PendingFor, Alone
  <2>4. PendingFor(x)
    BY <1>8, <2>1, <2>2, <2>3 DEF PendingFor, IsCurrent
  <2> QED
    BY <1>1, <2>2, <2>4 DEF WakeIsKept
<1> QED
  BY <1>9, <1>10, <1>11

\* A registered connection: which it is, and that its record may take any state.
LEMMA RegisteredConn ==
    ASSUME StreamInv, NEW d \in Connections, conns[d].pc \notin {"idle", "accepted"}
    PROVE  /\ conns[d].notify # 0 /\ conns[d].notify \in 1 .. MaxSubscribers
           /\ conns[d].kid \in Kids /\ conns[d] \in ConnRecords
           /\ conns[d].pc # "select" => ~conns[d].woken
           /\ \A k \in Kids : hub[k].live => hub[k].notify # 0
           /\ relayNow \in Nat /\ hub \in [Kids -> Slots]
           /\ permits \in [1 .. MaxSubscribers -> BOOLEAN]
BY SessionAssumption DEF StreamInv, StreamTypeOK, ConnsAreNumbered, ConnRecords

\* The steps that touch neither the slots nor the permits.
LEMMA WalkKeepsStream ==
    ASSUME StreamInv, NEW d \in Connections, UNCHANGED <<relayNow, hub, permits>>,
           conns[d].pc \in {"snapshot", "emit", "seal", "checked"},
           NEW pc \in {"emit", "seal", "stop", "loop", "select"}, NEW then \in {"loop", "stop"},
           NEW now \in Nat,
           conns' = [conns EXCEPT ![d] = [conns[d] EXCEPT !.pc = pc, !.then = then, !.now = now]]
    PROVE  StreamInv'
<1> DEFINE q == conns[d]
           r == [conns[d] EXCEPT !.pc = pc, !.then = then, !.now = now]
<1>1. /\ q.notify # 0 /\ q \in ConnRecords /\ q.kid \in Kids /\ ~q.woken
      /\ \A k \in Kids : hub[k].live => hub[k].notify # 0
      /\ relayNow \in Nat /\ hub \in [Kids -> Slots]
      /\ permits \in [1 .. MaxSubscribers -> BOOLEAN]
  BY RegisteredConn
<1>2. /\ r \in ConnRecords /\ r.kid = q.kid /\ r.generation = q.generation
      /\ r.notify = q.notify /\ r.pc = pc /\ (r.woken => q.woken)
  BY <1>1 DEF ConnRecords
<1> HIDE DEF r
<1>3. PendingFor(d)' => r.woken \/ permits'[r.notify] \/ r.pc = "loop"
  <2> SUFFICES ASSUME PendingFor(d)'
               PROVE  permits[q.notify]
    BY <1>2
  <2>1. conns'[d] = r /\ \A x \in Connections : x # d => conns'[x] = conns[x]
    BY DEF StreamInv, StreamTypeOK, r
  <2>2. PendingFor(d)
    BY <1>2, <2>1 DEF PendingFor, IsCurrent, Alone
  <2> QED
    BY <1>1, <2>2 DEF StreamInv, WakeIsKept
<1>4. conns' = [conns EXCEPT ![d] = r]
  BY DEF r
<1> QED
  BY <1>1, <1>2, <1>3, <1>4, MoveKeepsStream

LEMMA TakeResyncKeepsStream ==
    ASSUME StreamInv, NEW d \in Connections, TakeResync(d)
    PROVE  StreamInv'
<1> DEFINE q == conns[d]
           k == q.kid
           next == IF Takes(d) THEN "snapshot" ELSE "checked"
           r == [conns[d] EXCEPT !.pc = next]
<1>1. /\ q.notify # 0 /\ q \in ConnRecords /\ k \in Kids /\ ~q.woken
      /\ \A j \in Kids : hub[j].live => hub[j].notify # 0
      /\ relayNow \in Nat /\ hub \in [Kids -> Slots]
      /\ permits \in [1 .. MaxSubscribers -> BOOLEAN]
  BY RegisteredConn DEF TakeResync
<1>2. /\ r \in ConnRecords /\ r.kid = q.kid /\ r.generation = q.generation
      /\ r.notify = q.notify /\ r.pc \in {"snapshot", "checked"} /\ (r.woken => q.woken)
  BY <1>1 DEF ConnRecords
<1>3. conns' = [conns EXCEPT ![d] = r] /\ UNCHANGED <<relayNow, permits>>
  BY <1>1 DEF TakeResync
<1> HIDE DEF r
<1>4. /\ hub' \in [Kids -> Slots]
      /\ \A j \in Kids : hub'[j] = hub[j] \/ hub'[j].resync = NoResync
      /\ \A j \in Kids : hub'[j].live = hub[j].live /\ hub'[j].notify = hub[j].notify
      /\ Takes(d) => hub'[k].resync = NoResync
      /\ ~Takes(d) => hub' = hub
  <2>1. CASE ~Takes(d)
    BY <1>1, <2>1 DEF TakeResync
  <2>2. CASE Takes(d)
    <3> DEFINE slot == [hub[k] EXCEPT !.resync = NoResync]
    <3>1. /\ slot \in Slots /\ slot.live = hub[k].live /\ slot.notify = hub[k].notify
          /\ slot.resync = NoResync
      BY <1>1 DEF Slots
    <3>2. hub' = [hub EXCEPT ![k] = slot]
      BY <1>1, <2>2 DEF TakeResync
    <3> HIDE DEF slot
    <3> QED
      BY <1>1, <2>2, <3>1, <3>2
  <2> QED
    BY <2>1, <2>2
<1>5. ~PendingFor(d)'
  <2>1. conns'[d] = r
    BY <1>3 DEF StreamInv, StreamTypeOK
  <2> QED
    BY <1>2, <1>4, <2>1 DEF PendingFor, Takes, IsCurrent
<1> QED
  BY <1>1, <1>2, <1>3, <1>4, <1>5, MoveKeepsStream

LEMMA NotifiedKeepsStream ==
    ASSUME StreamInv, NEW d \in Connections, Notified(d)
    PROVE  StreamInv'
<1> DEFINE q == conns[d]
           r == [conns[d] EXCEPT !.pc = "loop", !.woken = FALSE]
<1>1. /\ q.notify # 0 /\ q \in ConnRecords /\ q.kid \in Kids
      /\ q.notify \in 1 .. MaxSubscribers
      /\ \A j \in Kids : hub[j].live => hub[j].notify # 0
      /\ relayNow \in Nat /\ hub \in [Kids -> Slots]
      /\ permits \in [1 .. MaxSubscribers -> BOOLEAN]
  BY RegisteredConn DEF Notified
<1>2. /\ r \in ConnRecords /\ r.kid = q.kid /\ r.generation = q.generation
      /\ r.notify = q.notify /\ r.pc = "loop" /\ ~r.woken
  BY <1>1 DEF ConnRecords
<1>3. conns' = [conns EXCEPT ![d] = r] /\ UNCHANGED <<relayNow, hub>>
  BY <1>1 DEF Notified
<1>4. \E b \in BOOLEAN : permits' = [permits EXCEPT ![q.notify] = b]
  BY <1>1 DEF Notified, ConnRecords
<1> HIDE DEF r
<1> QED
  BY <1>1, <1>2, <1>3, <1>4, MoveKeepsStream

LEMMA ReleaseKeepsStream ==
    ASSUME StreamInv, NEW d \in Connections, ReleaseSlot(d)
    PROVE  StreamInv'
<1> DEFINE q == conns[d]
           r == [conns[d] EXCEPT !.pc = "closed"]
<1>1. /\ q.notify # 0 /\ q \in ConnRecords /\ q.kid \in Kids /\ ~q.woken
      /\ \A j \in Kids : hub[j].live => hub[j].notify # 0
      /\ relayNow \in Nat /\ hub \in [Kids -> Slots]
      /\ permits \in [1 .. MaxSubscribers -> BOOLEAN]
  BY RegisteredConn DEF ReleaseSlot
<1>2. /\ r \in ConnRecords /\ r.kid = q.kid /\ r.generation = q.generation
      /\ r.notify = q.notify /\ r.pc = "closed" /\ (r.woken => q.woken)
  BY <1>1 DEF ConnRecords
<1>3. conns' = [conns EXCEPT ![d] = r] /\ UNCHANGED <<relayNow, permits>>
  BY <1>1 DEF ReleaseSlot
<1> HIDE DEF r
<1>a. NoSlot \in Slots /\ NoSlot.resync = NoResync /\ ~NoSlot.live
  BY SessionAssumption DEF NoSlot, Slots
<1>4. /\ hub' \in [Kids -> Slots]
      /\ \A j \in Kids : hub'[j] = hub[j] \/ hub'[j] = NoSlot
      /\ IsCurrent(d) => hub'[q.kid] = NoSlot
      /\ ~IsCurrent(d) => hub' = hub
  BY <1>1, <1>a DEF ReleaseSlot
<1>5. ~PendingFor(d)'
  <2>1. conns'[d] = r
    BY <1>3 DEF StreamInv, StreamTypeOK
  <2> QED
    BY <1>1, <1>2, <1>4, <1>a, <2>1 DEF PendingFor, IsCurrent
<1> QED
  BY <1>1, <1>2, <1>3, <1>4, <1>5, <1>a, MoveKeepsStream

\* A delta wins the select: a wake-up in hand goes to the next waiter, or back
\* into the permit.
LEMMA NextDeltaKeepsStream ==
    ASSUME StreamInv, NEW d \in Connections, NextDelta(d)
    PROVE  StreamInv'
<1>0. PICK pc \in {"emit", "stop"} :
         LET cs == [conns EXCEPT ![d].pc = pc, ![d].then = "loop", ![d].woken = FALSE]
         IN IF conns[d].woken
            THEN NotifyOne(conns[d].notify, cs)
            ELSE conns' = cs /\ UNCHANGED permits
  BY DEF NextDelta
<1> DEFINE q == conns[d]
           n == q.notify
           r == [conns[d] EXCEPT !.pc = pc, !.then = "loop", !.woken = FALSE]
           cs == [conns EXCEPT ![d] = r]
<1>1. /\ n # 0 /\ q \in ConnRecords /\ q.kid \in Kids /\ n \in 1 .. MaxSubscribers
      /\ q.pc = "select"
      /\ \A j \in Kids : hub[j].live => hub[j].notify # 0
      /\ relayNow \in Nat /\ hub \in [Kids -> Slots]
      /\ permits \in [1 .. MaxSubscribers -> BOOLEAN]
      /\ UNCHANGED <<relayNow, hub>>
  BY RegisteredConn DEF NextDelta
<1>2. /\ r \in ConnRecords /\ r.kid = q.kid /\ r.generation = q.generation
      /\ r.notify = n /\ r.pc = pc /\ ~r.woken
  BY <1>1 DEF ConnRecords
<1>3. IF q.woken THEN NotifyOne(n, cs) ELSE conns' = cs /\ UNCHANGED permits
  BY <1>0, <1>1
<1> HIDE DEF r
<1>4. /\ cs[d] = r /\ \A x \in Connections : x # d => cs[x] = conns[x]
      /\ cs \in [Connections -> ConnRecords]
  BY <1>2 DEF StreamInv, StreamTypeOK
<1>5. CASE ~q.woken
  <2>1. PendingFor(d)' => permits'[r.notify]
    <3> SUFFICES ASSUME PendingFor(d)'
                 PROVE  permits[n]
      BY <1>2, <1>3, <1>5
    <3>1. PendingFor(d)
      BY <1>1, <1>2, <1>3, <1>4, <1>5 DEF PendingFor, IsCurrent, Alone
    <3> QED
      BY <1>1, <1>5, <3>1 DEF StreamInv, WakeIsKept
  <2> QED
    BY <1>1, <1>2, <1>3, <1>5, <2>1, MoveKeepsStream
<1>6. CASE permits' = [permits EXCEPT ![n] = TRUE] /\ conns' = cs
  BY <1>1, <1>2, <1>6, MoveKeepsStream
<1>7. ASSUME NEW w \in Waiters(n), cs[w].pc = "select", conns' = [cs EXCEPT ![w].woken = TRUE],
             UNCHANGED permits
      PROVE  StreamInv'
  <2> DEFINE v == [cs[w] EXCEPT !.woken = TRUE]
  <2>1. w \in Connections /\ w # d /\ conns[w].notify = n /\ conns[w].pc = "select"
    BY <1>2, <1>4, <1>7 DEF Waiters
  <2>2. conns' = [cs EXCEPT ![w] = v] /\ cs[w] = conns[w] /\ cs[w] \in ConnRecords
    BY <1>4, <1>7, <2>1
  <2>3. /\ v \in ConnRecords /\ v.pc = cs[w].pc /\ v.kid = cs[w].kid
        /\ v.notify = cs[w].notify /\ v.generation = cs[w].generation /\ v.woken
    BY <2>2, WokenType
  <2> HIDE DEF v, cs
  <2>4. /\ conns' \in [Connections -> ConnRecords]
        /\ conns'[d] = r /\ conns'[w] = v
        /\ \A x \in Connections \ {d, w} : conns'[x] = conns[x]
        /\ \A x \in Connections : conns'[x].notify = conns[x].notify
    BY <1>2, <1>4, <2>1, <2>2, <2>3
  <2>5. StreamTypeOK'
    BY <1>1, <1>7, <2>4 DEF StreamTypeOK
  <2>6. Subscribed' = Subscribed
    BY <1>1, <1>2, <2>1, <2>2, <2>3, <2>4 DEF Subscribed
  <2>7. ConnsAreNumbered'
    BY <1>1, <1>2, <2>1, <2>2, <2>3, <2>4, <2>6 DEF StreamInv, ConnsAreNumbered
  <2>8. WakeIsKept'
    <3> SUFFICES ASSUME NEW x \in Connections, PendingFor(x)'
                 PROVE  conns'[x].woken \/ permits'[conns'[x].notify] \/ conns'[x].pc = "loop"
      BY DEF WakeIsKept
    <3>1. Alone(x)
      BY <2>4 DEF PendingFor, Alone
    <3>2. x \notin {d, w}
      BY <2>1, <3>1 DEF Alone
    <3>3. PendingFor(x)
      BY <1>1, <2>4, <3>1, <3>2 DEF PendingFor, IsCurrent
    <3> QED
      BY <1>7, <2>4, <3>2, <3>3 DEF StreamInv, WakeIsKept
  <2> QED
    BY <2>5, <2>7, <2>8 DEF StreamInv
<1>8. CASE q.woken
  <2>1. NotifyOne(n, cs)
    BY <1>3, <1>8
  <2> HIDE DEF cs, n
  <2> QED
    BY <1>6, <1>7, <2>1, NotifyOneEffect
<1> QED
  BY <1>5, <1>8

(***************************************************************************)
(* Both together.                                                          *)
(***************************************************************************)
SessionInv == RelayInv /\ StreamInv

LEMMA SessionInitially == SessionInit => SessionInv
<1> SUFFICES ASSUME SessionInit
             PROVE  SessionInv
  OBVIOUS
<1> USE DEF SessionInit
<1>1. RelayTypeOK
  BY AbsentType, FS_EmptySet DEF RelayTypeOK, IdleCall
<1>2. SpentIsRefused
  BY AbsentType DEF SpentIsRefused, Spent, Holding, IdleCall
<1>3. NumberedBelowNext /\ HonestSequenceIsAccepted
  BY AbsentType DEF NumberedBelowNext, HonestSequenceIsAccepted
<1>4. IdleConn \in ConnRecords /\ NoSlot \in Slots /\ ~NoSlot.live
  BY SessionAssumption DEF IdleConn, ConnRecords, NoSlot, Slots
<1>5. StreamTypeOK
  BY <1>4 DEF StreamTypeOK
<1>6. Subscribed = {}
  BY DEF Subscribed, IdleConn
<1>7. ConnsAreNumbered
  BY <1>4, <1>6, FS_EmptySet, SessionAssumption DEF ConnsAreNumbered, IdleConn
<1>8. WakeIsKept
  BY DEF WakeIsKept, PendingFor, IdleConn
<1> QED
  BY <1>1, <1>2, <1>3, <1>5, <1>7, <1>8 DEF SessionInv, RelayInv, StreamInv

LEMMA SessionInductive == SessionInv /\ [SessionNext]_sessionVars => SessionInv'
<1> SUFFICES ASSUME SessionInv, [SessionNext]_sessionVars
             PROVE  SessionInv'
  OBVIOUS
<1> USE DEF SessionInv
<1>0. /\ relayNow \in Nat /\ relayNow + 1 \in Nat
      /\ wire \subseteq Envelopes /\ \A e \in Envelopes : e.kid \in Kids
  BY DEF RelayInv, RelayTypeOK, Envelopes
<1>1. ASSUME NEW k \in Kids, NEW o \in Owners, Handoff(k, o)
      PROVE  SessionInv'
  BY <1>0, <1>1, HandoffKeepsRelay, StreamUnchanged DEF Handoff
<1>2. CASE SessionTick \/ KillSwitch \/ UNCHANGED sessionVars
  BY <1>0, <1>2, RelayUnchanged, StreamUnchanged
     DEF SessionTick, KillSwitch, sessionVars, relayVars
<1>3. ASSUME NEW k \in Kids, NEW op \in Ops, ClientSeals(k, op)
      PROVE  SessionInv'
  BY <1>0, <1>3, ClientKeepsRelay, StreamUnchanged DEF ClientSeals
<1>4. ASSUME NEW c \in RelayCalls, NEW e \in wire, NEW p \in Purposes, RelayOpen(c, e, p)
      PROVE  SessionInv'
  BY <1>0, <1>4, RelayOpenKeepsRelay, StreamUnchanged DEF RelayOpen
<1>5. ASSUME NEW c \in RelayCalls, NEW r, calls' = [calls EXCEPT ![c] = r],
             r \in [pc : {"idle", "answered"}, env : Envelopes \cup {NoEnvelope}],
             UNCHANGED <<relayNow, registry, issued, wire>>,
             \/ UNCHANGED executed
             \/ /\ calls[c].pc = "opened"
                /\ executed' = [executed EXCEPT ![calls[c].env] = @ + 1]
      PROVE  RelayInv'
  <2>1. /\ calls'[c] = r /\ \A b \in RelayCalls : b # c => calls'[b] = calls[b]
        /\ calls' \in [RelayCalls -> [pc : {"idle", "opened", "answered"},
                                      env : Envelopes \cup {NoEnvelope}]]
    BY <1>5 DEF RelayInv, RelayTypeOK
  <2>2. calls'[c].pc # "opened" /\ relayNow' \in Nat
    BY <1>0, <1>5, <2>1
  <2> QED
    BY <1>5, <2>1, <2>2, AnswerKeepsRelay
<1>6. ASSUME NEW c \in RelayCalls, RequestResync(c) \/ BuildResponse(c)
      PROVE  RelayInv'
  <2> DEFINE r == [calls[c] EXCEPT !.pc = "answered"]
  <2>1. /\ r \in [pc : {"idle", "answered"}, env : Envelopes \cup {NoEnvelope}]
        /\ calls' = [calls EXCEPT ![c] = r]
    BY <1>6 DEF RequestResync, BuildResponse, RelayInv, RelayTypeOK
  <2> QED
    BY <1>5, <1>6, <2>1 DEF RequestResync, BuildResponse
<1>7. ASSUME NEW c \in RelayCalls, RequestResync(c)
      PROVE  SessionInv'
  BY <1>6, <1>7, RequestKeepsStream
<1>8. ASSUME NEW c \in RelayCalls, BuildResponse(c)
      PROVE  SessionInv'
  BY <1>0, <1>6, <1>8, StreamUnchanged DEF BuildResponse
<1>9. ASSUME NEW c \in RelayCalls, SealResponse(c)
      PROVE  SessionInv'
  <2>1. IdleCall \in [pc : {"idle", "answered"}, env : Envelopes \cup {NoEnvelope}]
    BY DEF IdleCall
  <2>2. RelayInv'
    BY <1>5, <1>9, <2>1 DEF SealResponse
  <2> QED
    BY <1>0, <1>9, <2>2, StreamUnchanged DEF SealResponse
<1>10. ASSUME NEW d \in Connections, NEW e \in wire, Subscribe(d, e)
       PROVE  SessionInv'
  <2>1. StreamInv'
    BY <1>0, <1>10, SubscribeKeepsStream
  <2>2. /\ registry' = AfterOpen(e, "Stream")
        /\ UNCHANGED <<relayNow, issued, wire, calls, executed>> /\ "Stream" \in Purposes
    BY <1>10 DEF Subscribe, Purposes
  <2>3. Keeps(registry, registry') /\ registry' \in [Kids -> SessionRecords]
    BY <2>2, OpenKeeps DEF RelayInv
  <2>4. \A k \in Kids, q \in Purposes : registry'[k].live =>
           /\ registry[k].live
           /\ \/ registry'[k].replay[q].highest = registry[k].replay[q].highest
              \/ \E f \in wire : /\ k = f.kid /\ q = PurposeOf(f.op)
                                 /\ registry'[k].replay[q].highest = f.sequence
    BY <2>2, <2>3, OpenKeeps DEF Keeps, RelayInv
  <2>5. HonestSequenceIsAccepted' /\ NumberedBelowNext'
    BY <2>2, <2>4, HonestIsKept
  <2>6. SpentIsRefused'
    BY <2>2, <2>3, RefusalIsKept DEF RelayInv
  <2> QED
    BY <2>1, <2>2, <2>3, <2>5, <2>6 DEF RelayInv, RelayTypeOK
<1>11. ASSUME NEW d \in Connections, Register(d) \/ TakeResync(d) \/ Notified(d) \/ NextDelta(d)
                                        \/ ReleaseSlot(d)
       PROVE  SessionInv'
  <2>1. StreamInv'
    BY <1>11, RegisterKeepsStream, TakeResyncKeepsStream, NotifiedKeepsStream,
       NextDeltaKeepsStream, ReleaseKeepsStream
  <2>2. UNCHANGED <<relayNow, registry, issued, wire, calls, executed>>
    BY <1>11 DEF Register, TakeResync, Notified, NextDelta, ReleaseSlot, relayVars
  <2> QED
    BY <1>0, <2>1, <2>2, RelayUnchanged
<1>12. ASSUME NEW d \in Connections, Snapshot(d) \/ CheckCurrent(d) \/ AwaitSelect(d)
       PROVE  SessionInv'
  <2> DEFINE q == conns[d]
  <2>1. /\ q.pc \in {"snapshot", "emit", "checked"}
        /\ UNCHANGED <<relayNow, hub, permits, registry, issued, wire, calls, executed>>
    BY <1>12 DEF Snapshot, CheckCurrent, AwaitSelect, relayVars
  <2>2. q \in ConnRecords /\ conns \in [Connections -> ConnRecords]
    BY DEF StreamInv, StreamTypeOK
  <2>3. PICK pc \in {"emit", "seal", "stop", "loop", "select"}, then \in {"loop", "stop"}, now \in Nat :
           conns' = [conns EXCEPT ![d] = [q EXCEPT !.pc = pc, !.then = then, !.now = now]]
    <3>1. CASE Snapshot(d)
      <4>1. PICK next \in {"loop", "stop"} :
               conns' = [conns EXCEPT ![d].pc = "emit", ![d].then = next]
        BY <3>1 DEF Snapshot
      <4>2. conns' = [conns EXCEPT ![d] = [q EXCEPT !.pc = "emit", !.then = next, !.now = q.now]]
        BY <2>2, <4>1 DEF ConnRecords
      <4>3. q.now \in Nat
        BY <2>2 DEF ConnRecords
      <4> QED
        BY <4>2, <4>3
    <3>2. CASE CheckCurrent(d)
      <4> DEFINE pc == IF IsCurrent(d) THEN "seal" ELSE "stop"
      <4>1. conns' = [conns EXCEPT ![d].pc = pc, ![d].now = relayNow]
        BY <3>2 DEF CheckCurrent
      <4>2. conns' = [conns EXCEPT ![d] = [q EXCEPT !.pc = pc, !.then = q.then, !.now = relayNow]]
        BY <2>2, <4>1 DEF ConnRecords
      <4>3. q.then \in {"loop", "stop"}
        BY <2>2 DEF ConnRecords
      <4> QED
        BY <1>0, <4>2, <4>3
    <3>3. CASE AwaitSelect(d)
      <4>1. conns' = [conns EXCEPT ![d] = [q EXCEPT !.pc = "select", !.then = q.then,
                                                    !.now = q.now]]
        BY <2>2, <3>3 DEF AwaitSelect, ConnRecords
      <4>2. q.then \in {"loop", "stop"} /\ q.now \in Nat
        BY <2>2 DEF ConnRecords
      <4> QED
        BY <4>1, <4>2
    <3> QED
      BY <1>12, <3>1, <3>2, <3>3
  <2>4. StreamInv'
    BY <2>1, <2>3, WalkKeepsStream
  <2> QED
    BY <1>0, <2>1, <2>4, RelayUnchanged
<1>13. ASSUME NEW d \in Connections, SealFrame(d)
       PROVE  SessionInv'
  <2> DEFINE q == conns[d]
  <2>1. q \in ConnRecords /\ conns \in [Connections -> ConnRecords] /\ q.kid \in Kids
        /\ q.pc = "seal" /\ UNCHANGED <<relayNow, hub, permits>>
    BY <1>13 DEF SealFrame, StreamInv, StreamTypeOK, ConnsAreNumbered
  <2>2. PICK pc \in {q.then, "stop"} : conns' = [conns EXCEPT ![d].pc = pc, ![d].now = 0]
    BY <1>13 DEF SealFrame
  <2>3. conns' = [conns EXCEPT ![d] = [q EXCEPT !.pc = pc, !.then = q.then, !.now = 0]]
    BY <2>1, <2>2 DEF ConnRecords
  <2>4. q.then \in {"loop", "stop"} /\ pc \in {"emit", "seal", "stop", "loop", "select"}
    BY <2>1, <2>2 DEF ConnRecords
  <2>5. StreamInv'
    BY <2>1, <2>3, <2>4, WalkKeepsStream
  <2>6. RelayInv'
    BY <1>13, <2>1, SealFrameKeepsRelay DEF StreamInv
  <2> QED
    BY <2>5, <2>6
<1>14. CASE RelayNext
  BY <1>1, <1>2, <1>4, <1>7, <1>8, <1>9, <1>14 DEF RelayNext
<1>15. CASE StreamNext
  BY <1>10, <1>11, <1>12, <1>13, <1>15 DEF StreamNext
<1> QED
  BY <1>2, <1>3, <1>14, <1>15 DEF SessionNext

LEMMA SessionAlways == SessionSpec => []SessionInv
BY SessionInitially, SessionInductive, PTL DEF SessionSpec

\* However often, however late and on whichever route an envelope is delivered,
\* the dispatcher sees it at most once, over expiry, handoff and any number of
\* concurrent relay calls (relay_envelope, ReplayWindow::accept).
THEOREM DispatchedAtMostOnce == SessionSpec => []AtMostOnceDispatch
<1>1. SessionInv => AtMostOnceDispatch
  BY DEF SessionInv, RelayInv, RelayTypeOK, SpentIsRefused, AtMostOnceDispatch
<1> QED
  BY <1>1, SessionAlways, PTL

\* Nothing the network replays on another route takes a sequence from the client
\* that it has yet to use (verify_route_op before accept_sequence).
THEOREM HonestClientIsServed == SessionSpec => []HonestSequenceIsAccepted
<1>1. SessionInv => HonestSequenceIsAccepted
  BY DEF SessionInv, RelayInv
<1> QED
  BY <1>1, SessionAlways, PTL

\* A resync requested of a connection that waits alone is never lost between its
\* check, its select and the frames in between, for any number of connections
\* and key ids (StreamHub::request_resync, StreamDriver::run).
THEOREM ResyncIsNotLost == SessionSpec => []ResyncWakesSoleConnection
<1>1. SessionInv => ResyncWakesSoleConnection
  <2>1. ASSUME SessionInv, NEW d \in Connections, conns[d].pc = "select", IsCurrent(d),
               hub[conns[d].kid].notify = conns[d].notify,
               hub[conns[d].kid].resync # NoResync,
               \A o \in Connections \ {d} : conns[o].notify # conns[d].notify
        PROVE  conns[d].woken \/ permits[conns[d].notify]
    <3>1. PendingFor(d)
      BY <2>1 DEF SessionInv, StreamInv, ConnsAreNumbered, PendingFor, Alone
    <3> QED
      BY <2>1, <3>1 DEF SessionInv, StreamInv, WakeIsKept
  <2> QED
    BY <2>1 DEF ResyncWakesSoleConnection
<1> QED
  BY <1>1, SessionAlways, PTL

(***************************************************************************)
(* The venue.                                                              *)
(***************************************************************************)
Lowest == CHOOSE p \in Prices : \A q \in Prices : p <= q
Highest == CHOOSE p \in Prices : \A q \in Prices : p >= q
Levels == Prices \cup {Lowest, Highest}

VenueStates == [kind : {"depth", "candle"}, bids : SUBSET Levels, asks : SUBSET Levels,
                window : Int]

\* A candle leaves the book as it was.
VenueOK(v) ==
  /\ v \in Seq(VenueStates) /\ Len(v) # 0
  /\ \A n \in 1 .. Len(v) : v[n].kind = "candle" =>
       n # 1 /\ v[n].bids = v[n - 1].bids /\ v[n].asks = v[n - 1].asks

LEMMA VenueStarts == VenueInit => VenueOK(venue)
<1> SUFFICES ASSUME VenueInit PROVE VenueOK(venue)
  OBVIOUS
<1>1. venue = << [kind |-> "depth", bids |-> {Lowest}, asks |-> {Highest}, window |-> 1] >>
  BY DEF VenueInit, Lowest, Highest
<1>2. Lowest \in Levels /\ Highest \in Levels
  BY DEF Levels
<1> QED
  BY <1>1, <1>2 DEF VenueOK, VenueStates

\* What a venue update appends.
LEMMA VenueGrows ==
  ASSUME VenueOK(venue), VenueUpdate
  PROVE  \E next \in VenueStates :
           /\ venue' = Append(venue, next)
           /\ next.kind = "candle" =>
                next.bids = venue[Len(venue)].bids /\ next.asks = venue[Len(venue)].asks
<1>1. PICK last : last = venue[Len(venue)]
  OBVIOUS
<1>2. last \in VenueStates
  BY <1>1 DEF VenueOK
<1> DEFINE Toggled(S, p) == IF p \in S THEN S \ {p} ELSE S \cup {p}
<1>3. PICK w \in last.window .. MaxWindow, p \in Prices :
         \E next \in {[last EXCEPT !.kind = "depth", !.window = w, !.bids = Toggled(last.bids, p)],
                      [last EXCEPT !.kind = "depth", !.window = w, !.asks = Toggled(last.asks, p)],
                      [last EXCEPT !.kind = "candle", !.window = w]} :
            venue' = Append(venue, next)
  BY <1>1 DEF VenueUpdate
<1>4. PICK next \in {[last EXCEPT !.kind = "depth", !.window = w, !.bids = Toggled(last.bids, p)],
                     [last EXCEPT !.kind = "depth", !.window = w, !.asks = Toggled(last.asks, p)],
                     [last EXCEPT !.kind = "candle", !.window = w]} :
            venue' = Append(venue, next)
  BY <1>3
<1>5. w \in Int /\ p \in Levels
  BY DEF Levels
<1>6. Toggled(last.bids, p) \in SUBSET Levels /\ Toggled(last.asks, p) \in SUBSET Levels
  BY <1>2, <1>5 DEF VenueStates
<1> HIDE DEF Toggled
<1>7. next \in VenueStates
  BY <1>2, <1>4, <1>5, <1>6 DEF VenueStates
<1>8. next.kind = "candle" => next.bids = last.bids /\ next.asks = last.asks
  BY <1>2, <1>4 DEF VenueStates
<1> QED
  BY <1>1, <1>4, <1>7, <1>8

\* The past of the venue does not change.
PastKept(v, u) == Len(u) = Len(v) + 1 /\ \A n \in 1 .. Len(v) : u[n] = v[n]

LEMMA VenueGrowsOK ==
  ASSUME NEW v, NEW u, NEW next \in VenueStates, VenueOK(v), u = Append(v, next),
         next.kind = "candle" => next.bids = v[Len(v)].bids /\ next.asks = v[Len(v)].asks
  PROVE  VenueOK(u) /\ PastKept(v, u)
<1>1. v \in Seq(VenueStates) /\ Len(v) # 0 /\ Len(v) \in Nat
  BY DEF VenueOK
<1>2. u \in Seq(VenueStates) /\ Len(u) = Len(v) + 1 /\ u[Len(v) + 1] = next
      /\ \A n \in 1 .. Len(v) : u[n] = v[n]
  BY <1>1
<1>3. PICK k : k = Len(v)
  OBVIOUS
<1>4. ASSUME NEW n \in 1 .. Len(u), u[n].kind = "candle"
      PROVE  n # 1 /\ u[n].bids = u[n - 1].bids /\ u[n].asks = u[n - 1].asks
  <2>1. CASE n \in 1 .. k
    <3>1. u[n] = v[n] /\ v[n].kind = "candle"
      BY <1>2, <1>3, <1>4, <2>1
    <3>2. n # 1 /\ v[n].bids = v[n - 1].bids /\ v[n].asks = v[n - 1].asks
      BY <1>3, <2>1, <3>1 DEF VenueOK
    <3>3. n - 1 \in 1 .. k
      BY <1>1, <1>3, <2>1, <3>2
    <3>4. u[n - 1] = v[n - 1]
      BY <1>2, <1>3, <3>3
    <3> QED
      BY <3>1, <3>2, <3>4
  <2>2. CASE n = k + 1
    <3>1. u[n] = next
      BY <1>2, <1>3, <2>2
    <3>2. k \in 1 .. k /\ n - 1 = k
      BY <1>1, <1>3, <2>2
    <3>3. u[n - 1] = v[k]
      BY <1>2, <1>3, <3>2
    <3>4. n # 1
      BY <1>1, <1>3, <2>2
    <3> QED
      BY <1>3, <1>4, <3>1, <3>3, <3>4
  <2> QED
    BY <1>1, <1>2, <1>3, <2>1, <2>2
<1> QED
  BY <1>1, <1>2, <1>4 DEF VenueOK, PastKept

LEMMA VenueStep ==
  ASSUME VenueOK(venue), VenueUpdate
  PROVE  VenueOK(venue)' /\ PastKept(venue, venue')
<1>1. PICK next \in VenueStates :
           /\ venue' = Append(venue, next)
           /\ next.kind = "candle" =>
                next.bids = venue[Len(venue)].bids /\ next.asks = venue[Len(venue)].asks
  BY VenueGrows
<1>2. PICK u : u = venue'
  OBVIOUS
<1>3. PICK v : v = venue
  OBVIOUS
<1>4. VenueOK(u) /\ PastKept(v, u)
  <2>1. VenueOK(v)
    BY <1>3
  <2>2. u = Append(v, next)
    BY <1>1, <1>2, <1>3
  <2>3. next.kind = "candle" => next.bids = v[Len(v)].bids /\ next.asks = v[Len(v)].asks
    BY <1>1, <1>3
  <2> QED
    BY <2>1, <2>2, <2>3, VenueGrowsOK
<1>5. VenueOK(venue')
  BY <1>2, <1>4
<1> QED
  BY <1>2, <1>3, <1>4, <1>5 DEF VenueOK

\* A side rebuilt from its predecessor, and a side truncated.
LEMMA UpdatesRebuild ==
  ASSUME NEW before, NEW after
  PROVE  WithUpdates(before, before, after) = after
BY DEF WithUpdates

LEMMA UpdatesBound ==
  ASSUME NEW side, NEW before, NEW after, side \subseteq before
  PROVE  WithUpdates(side, before, after) \subseteq after
BY DEF WithUpdates

LEMMA TopIsPart ==
  ASSUME NEW side
  PROVE  TopBids(side) \subseteq side /\ TopAsks(side) \subseteq side
BY DEF TopBids, TopAsks

(***************************************************************************)
(* The mapper.                                                             *)
(***************************************************************************)
TrackerOK(t, v) == t \in [current : 0 .. Len(v), resync : BOOLEAN]

MapperTypeOK ==
  /\ TrackerOK(tracker, venue)
  /\ book \in [sequence : 0 .. Len(venue), bids : SUBSET Levels, asks : SUBSET Levels,
               resync : BOOLEAN]
  /\ downstream \in [sequence : 0 .. Len(venue), bids : SUBSET Levels, asks : SUBSET Levels]

\* The reader is where the mapper's own book is, and the tracker is not behind.
MapperInv ==
  /\ VenueOK(venue)
  /\ MapperTypeOK
  /\ downstream.sequence = book.sequence
  /\ book.sequence <= tracker.current
  /\ MappedStreamIsFaithful

LEMMA MapperStarts == VenueInit /\ MapperInit => MapperInv
<1> SUFFICES ASSUME VenueInit, MapperInit PROVE MapperInv
  OBVIOUS
<1>1. VenueOK(venue)
  BY VenueStarts
<1>2. Len(venue) \in Nat
  BY <1>1 DEF VenueOK
<1> QED
  BY <1>1, <1>2 DEF MapperInit, MapperInv, MapperTypeOK, TrackerOK, NewTracker, NoBook, NoFeedYet,
     MappedStreamIsFaithful

LEMMA MapperVenueStep ==
  ASSUME MapperInv, VenueUpdate, UNCHANGED mapperVars
  PROVE  MapperInv'
<1>1. VenueOK(venue)' /\ PastKept(venue, venue')
  BY VenueStep DEF MapperInv
<1>2. PICK u : u = venue'
  OBVIOUS
<1>3. Len(venue) \in Nat /\ Len(u) = Len(venue) + 1 /\ \A n \in 1 .. Len(venue) : u[n] = venue[n]
  BY <1>1, <1>2 DEF MapperInv, VenueOK, PastKept
<1>4. tracker' = tracker /\ book' = book /\ downstream' = downstream
  BY DEF mapperVars
<1>5. MapperTypeOK'
  BY <1>2, <1>3, <1>4 DEF MapperInv, MapperTypeOK, TrackerOK
<1>6. MappedStreamIsFaithful'
  <2>1. downstream.sequence # 0 => u[downstream.sequence] = venue[downstream.sequence]
    BY <1>3 DEF MapperInv, MapperTypeOK
  <2>2. book.sequence # 0 => u[book.sequence] = venue[book.sequence]
    BY <1>3 DEF MapperInv, MapperTypeOK
  <2> QED
    BY <1>2, <1>4, <2>1, <2>2 DEF MapperInv, MappedStreamIsFaithful, NoFeedYet
<1> QED
  BY <1>1, <1>4, <1>5, <1>6 DEF MapperInv

LEMMA SnapshotState ==
  ASSUME VenueOK(venue), NEW n \in Snapshots
  PROVE  n \in 1 .. Len(venue) /\ n \in Nat /\ venue[n] \in VenueStates
BY DEF VenueOK, Snapshots

LEMMA MapperLatches ==
  ASSUME MapperInv, LatchMapper, UNCHANGED <<venue, downstream>>
  PROVE  MapperInv'
<1>1. MapperTypeOK' /\ book'.sequence = book.sequence /\ book'.bids = book.bids
      /\ book'.asks = book.asks /\ tracker'.current = tracker.current
  BY DEF MapperInv, MapperTypeOK, TrackerOK, LatchMapper
<1> QED
  BY <1>1 DEF MapperInv, MappedStreamIsFaithful

LEMMA MapperIsReset ==
  ASSUME MapperInv, NEW n \in Snapshots, UNCHANGED venue, ResetMapper(n)
  PROVE  MapperInv'
<1>1. n \in 1 .. Len(venue) /\ n \in Nat /\ venue[n] \in VenueStates
  BY SnapshotState DEF MapperInv
<1>2. PICK s : s = venue[n]
  OBVIOUS
<1>3. s.bids \subseteq Levels /\ s.asks \subseteq Levels
  BY <1>1, <1>2 DEF VenueStates
<1>4. PICK tb, ta : tb = TopBids(s.bids) /\ ta = TopAsks(s.asks)
  OBVIOUS
<1>5. tb \subseteq s.bids /\ ta \subseteq s.asks
  BY <1>4, TopIsPart
<1>6. book' = [sequence |-> n, bids |-> tb, asks |-> ta, resync |-> FALSE]
  BY <1>2, <1>4 DEF ResetMapper, NewBook
<1>7. downstream' = [sequence |-> n, bids |-> s.bids, asks |-> s.asks]
  BY <1>2 DEF ResetMapper
<1>8. tracker' \in [current : 0 .. Len(venue), resync : BOOLEAN] /\ n <= tracker'.current
  BY <1>1 DEF ResetMapper, ApplySnapshotSequence, MapperInv, MapperTypeOK, TrackerOK
<1>9. MapperTypeOK'
  BY <1>1, <1>3, <1>5, <1>6, <1>7, <1>8 DEF MapperTypeOK, TrackerOK
<1>10. MappedStreamIsFaithful'
  BY <1>2, <1>5, <1>6, <1>7 DEF MappedStreamIsFaithful
<1> QED
  BY <1>6, <1>7, <1>8, <1>9, <1>10 DEF MapperInv

LEMMA MapperSnapshot ==
  ASSUME MapperInv, NEW n \in Snapshots, NEW f \in BOOLEAN, UNCHANGED venue,
         MapOrderBookSnapshot(n, f)
  PROVE  MapperInv'
<1>1. CASE f
  BY <1>1, MapperLatches DEF MapOrderBookSnapshot
<1>2. CASE ~f
  <2>1. ResetMapper(n)
    BY <1>2 DEF MapOrderBookSnapshot, ResetMapper
  <2> QED
    BY <2>1, MapperIsReset
<1> QED
  BY <1>1, <1>2

LEMMA BookMoves ==
  ASSUME NEW S, NEW L, NEW b \in [sequence : S, bids : SUBSET L, asks : SUBSET L, resync : BOOLEAN],
         NEW n \in S, NEW x, NEW y, x \subseteq L, y \subseteq L
  PROVE  [b EXCEPT !.sequence = n, !.bids = x, !.asks = y]
           \in [sequence : S, bids : SUBSET L, asks : SUBSET L, resync : BOOLEAN]
OBVIOUS

LEMMA TrackerMoves ==
  ASSUME NEW S, NEW t \in [current : S, resync : BOOLEAN], NEW n \in S
  PROVE  [t EXCEPT !.current = n] \in [current : S, resync : BOOLEAN]
OBVIOUS

\* A delta that is published continues the mapper's book, hence the reader's.
LEMMA MapperPublishes ==
  ASSUME MapperInv, NEW first \in 2 .. Len(venue), NEW last \in 2 .. Len(venue), first <= last,
         UNCHANGED venue,
         ClassifyDeltaRange(tracker, first, last) = "Contiguous",
         BookApplyDelta(first, last).class \notin {"Err", "ResyncRequired"},
         tracker' = ApplyDeltaRange(tracker, first, last),
         book' = BookApplyDelta(first, last).book,
         downstream' = [sequence |-> last,
                  bids |-> WithUpdates(downstream.bids, venue[first - 1].bids, venue[last].bids),
                  asks |-> WithUpdates(downstream.asks, venue[first - 1].asks, venue[last].asks)]
  PROVE  MapperInv'
<1>1. Len(venue) \in Nat /\ first \in Nat /\ last \in Nat /\ first - 1 \in 1 .. Len(venue)
      /\ last \in 1 .. Len(venue)
  BY DEF MapperInv, VenueOK
<1>2. tracker \in [current : 0 .. Len(venue), resync : BOOLEAN]
      /\ book.sequence \in 0 .. Len(venue) /\ book.sequence <= tracker.current
      /\ downstream.sequence = book.sequence /\ book.resync \in BOOLEAN
  BY DEF MapperInv, MapperTypeOK, TrackerOK
<1>3. first = tracker.current + 1 /\ ~tracker.resync
  BY <1>1, <1>2 DEF ClassifyDeltaRange, NoFeedYet
<1>4. tracker' = [tracker EXCEPT !.current = last]
  BY DEF ApplyDeltaRange
<1>5. PICK class : class = ClassifyDeltaRange([current |-> book.sequence, resync |-> book.resync], first, last)
  OBVIOUS
<1>6. class \in {"ResyncRequired", "Stale", "Duplicate", "Contiguous"}
  BY <1>5 DEF ClassifyDeltaRange
<1>7. class \notin {"Stale", "Duplicate"}
  BY <1>1, <1>2, <1>3, <1>5 DEF ClassifyDeltaRange
<1>8. PICK before, after : before = venue[first - 1] /\ after = venue[last]
  OBVIOUS
<1>9. before \in VenueStates /\ after \in VenueStates
  BY <1>1, <1>8 DEF MapperInv, VenueOK
<1>10. PICK bids, asks :
          /\ bids = TopBids(WithUpdates(book.bids, before.bids, after.bids))
          /\ asks = TopAsks(WithUpdates(book.asks, before.asks, after.asks))
  OBVIOUS
<1>11. BookApplyDelta(first, last) =
         IF class = "Contiguous" /\ Crossed(bids, asks) THEN [class |-> "Err", book |-> book]
         ELSE [class |-> class,
               book |-> IF class = "Contiguous"
                        THEN [book EXCEPT !.sequence = last, !.bids = bids, !.asks = asks]
                        ELSE book]
  BY <1>5, <1>8, <1>10 DEF BookApplyDelta
<1>12. class = "Contiguous" /\ book' = [book EXCEPT !.sequence = last, !.bids = bids, !.asks = asks]
  BY <1>6, <1>7, <1>11
<1>13. book.sequence = first - 1 /\ book.sequence # 0
  BY <1>1, <1>2, <1>5, <1>12 DEF ClassifyDeltaRange, NoFeedYet
<1>14. book.bids \subseteq before.bids /\ book.asks \subseteq before.asks
       /\ downstream.bids = before.bids /\ downstream.asks = before.asks
  BY <1>2, <1>8, <1>13 DEF MapperInv, MappedStreamIsFaithful, NoFeedYet
<1>15. bids \subseteq after.bids /\ asks \subseteq after.asks
  <2>1. WithUpdates(book.bids, before.bids, after.bids) \subseteq after.bids
    BY <1>14, UpdatesBound
  <2>2. WithUpdates(book.asks, before.asks, after.asks) \subseteq after.asks
    BY <1>14, UpdatesBound
  <2>3. bids \subseteq WithUpdates(book.bids, before.bids, after.bids)
        /\ asks \subseteq WithUpdates(book.asks, before.asks, after.asks)
    BY <1>10, TopIsPart
  <2> QED
    BY <2>1, <2>2, <2>3
<1>16. downstream' = [sequence |-> last, bids |-> after.bids, asks |-> after.asks]
  <2>1. WithUpdates(downstream.bids, before.bids, after.bids) = after.bids
    BY <1>14, UpdatesRebuild
  <2>2. WithUpdates(downstream.asks, before.asks, after.asks) = after.asks
    BY <1>14, UpdatesRebuild
  <2> QED
    BY <1>8, <2>1, <2>2
<1>17. MapperTypeOK'
  <2>1. after.bids \subseteq Levels /\ after.asks \subseteq Levels
    BY <1>9 DEF VenueStates
  <2>2. bids \subseteq Levels /\ asks \subseteq Levels
    BY <1>15, <2>1
  <2>3. book' \in [sequence : 0 .. Len(venue), bids : SUBSET Levels, asks : SUBSET Levels,
                   resync : BOOLEAN]
    <3>1. PICK S : S = 0 .. Len(venue)
      OBVIOUS
    <3>2. PICK b : b = book
      OBVIOUS
    <3>3. b \in [sequence : S, bids : SUBSET Levels, asks : SUBSET Levels, resync : BOOLEAN]
      BY <3>1, <3>2 DEF MapperInv, MapperTypeOK
    <3>4. last \in S
      BY <1>1, <3>1
    <3>5. [b EXCEPT !.sequence = last, !.bids = bids, !.asks = asks]
            \in [sequence : S, bids : SUBSET Levels, asks : SUBSET Levels, resync : BOOLEAN]
      BY <2>2, <3>3, <3>4, BookMoves
    <3> QED
      BY <1>12, <3>1, <3>2, <3>5
  <2>4. tracker' \in [current : 0 .. Len(venue), resync : BOOLEAN]
    <3>1. last \in 0 .. Len(venue)
      BY <1>1
    <3> QED
      BY <1>2, <1>4, <3>1, TrackerMoves
  <2>5. downstream' \in [sequence : 0 .. Len(venue), bids : SUBSET Levels, asks : SUBSET Levels]
    BY <1>1, <1>16, <2>1
  <2> QED
    BY <2>3, <2>4, <2>5 DEF MapperTypeOK, TrackerOK
<1>18. book'.sequence = last /\ book'.bids = bids /\ book'.asks = asks /\ tracker'.current = last
  BY <1>2, <1>4, <1>12 DEF MapperInv, MapperTypeOK
<1>19. MappedStreamIsFaithful'
  BY <1>8, <1>15, <1>16, <1>18 DEF MappedStreamIsFaithful
<1> QED
  BY <1>1, <1>16, <1>17, <1>18, <1>19 DEF MapperInv

LEMMA MapperDelta ==
  ASSUME MapperInv, NEW r \in Ranges, NEW f \in BOOLEAN, UNCHANGED venue,
         MapOrderBookDelta(r[1], r[2], f)
  PROVE  MapperInv'
<1>1. PICK first, last : first = r[1] /\ last = r[2]
  OBVIOUS
<1>2. first \in 2 .. Len(venue) /\ last \in 2 .. Len(venue) /\ first <= last
  BY <1>1 DEF Ranges
<1>3. MapOrderBookDelta(first, last, f)
  BY <1>1
<1>4. PICK class : class = ClassifyDeltaRange(tracker, first, last)
  OBVIOUS
<1>5. class \in {"ResyncRequired", "Stale", "Duplicate", "Contiguous"}
  BY <1>4 DEF ClassifyDeltaRange
<1>6. CASE UNCHANGED mapperVars
  BY <1>6 DEF MapperInv, MapperTypeOK, MappedStreamIsFaithful, mapperVars
<1>7. CASE LatchMapper /\ UNCHANGED downstream
  BY <1>7, MapperLatches
<1>8. CASE /\ ~UNCHANGED mapperVars
           /\ ~(LatchMapper /\ UNCHANGED downstream)
  <2>1. class = "Contiguous"
    BY <1>3, <1>4, <1>5, <1>8 DEF MapOrderBookDelta, mapperVars
  <2>2. BookApplyDelta(first, last).class \notin {"Err", "ResyncRequired"}
    BY <1>3, <1>4, <1>8, <2>1 DEF MapOrderBookDelta
  <2>3. /\ tracker' = ApplyDeltaRange(tracker, first, last)
        /\ book' = BookApplyDelta(first, last).book
        /\ downstream' = [sequence |-> last,
                  bids |-> WithUpdates(downstream.bids, venue[first - 1].bids, venue[last].bids),
                  asks |-> WithUpdates(downstream.asks, venue[first - 1].asks, venue[last].asks)]
    BY <1>3, <1>4, <1>8, <2>1, <2>2 DEF MapOrderBookDelta
  <2> QED
    BY <1>2, <1>4, <2>1, <2>2, <2>3, MapperPublishes
<1> QED
  BY <1>6, <1>7, <1>8

\* Whatever is lost, repeated, reordered or reset, what the mapper publishes rebuilds the venue's
\* book, and its own book shows no level the venue does not have.
THEOREM MapperFaithful == MapperSpec => []MappedStreamIsFaithful
<1>1. VenueInit /\ MapperInit => MapperInv
  BY MapperStarts
<1>2. MapperInv /\ [MapperNext]_<<venue, mapperVars>> => MapperInv'
  <2> SUFFICES ASSUME MapperInv, [MapperNext]_<<venue, mapperVars>> PROVE MapperInv'
    OBVIOUS
  <2>1. CASE UNCHANGED <<venue, mapperVars>>
    BY <2>1 DEF MapperInv, MapperTypeOK, MappedStreamIsFaithful, mapperVars
  <2>2. CASE VenueUpdate /\ UNCHANGED mapperVars
    BY <2>2, MapperVenueStep
  <2>3. CASE UNCHANGED venue /\ \E n \in Snapshots, f \in BOOLEAN : MapOrderBookSnapshot(n, f)
    BY <2>3, MapperSnapshot
  <2>4. CASE UNCHANGED venue /\ \E r \in Ranges, f \in BOOLEAN : MapOrderBookDelta(r[1], r[2], f)
    BY <2>4, MapperDelta
  <2>5. CASE UNCHANGED venue /\ MapCandle(TRUE)
    BY <2>5, MapperLatches DEF MapCandle
  <2>6. CASE UNCHANGED venue /\ \E n \in Snapshots : ResetMapper(n)
    BY <2>6, MapperIsReset
  <2> QED
    BY <2>1, <2>2, <2>3, <2>4, <2>5, <2>6 DEF MapperNext
<1>3. MapperInv => MappedStreamIsFaithful
  BY DEF MapperInv
<1> QED
  BY <1>1, <1>2, <1>3, PTL DEF MapperSpec

(***************************************************************************)
(* The pool reducer.                                                       *)
(***************************************************************************)
\* A provider reports states of one kind.
PoolKept(p) ==
  /\ Len(p) # 0
  /\ p \in Seq(CpmmStates) \cup Seq(ClmmStates) \cup Seq(BinStates)

ReducerType(r, p) == r \in [current : 1 .. Len(p), resync : BOOLEAN, state : PoolStates]

PoolInv == PoolKept(pool) /\ ReducerType(reducer, pool) /\ PoolIsFaithful

LEMMA KindsDiffer ==
  /\ \A s \in CpmmStates : s.kind = "cpmm"
  /\ \A s \in ClmmStates : s.kind = "clmm"
  /\ \A s \in BinStates : s.kind = "bin"
BY DEF CpmmStates, ClmmStates, BinStates

LEMMA PoolStarts == PoolInit => PoolInv
<1> SUFFICES ASSUME PoolInit PROVE PoolInv
  OBVIOUS
<1>1. PICK s \in PoolStates : PoolValid(s) /\ pool = <<s>>
  BY DEF PoolInit
<1>2. reducer = [current |-> 1, resync |-> FALSE, state |-> s]
  BY <1>1 DEF PoolInit
<1>3. Len(pool) = 1 /\ pool[1] = s
  BY <1>1
<1>4. pool \in Seq(CpmmStates) \cup Seq(ClmmStates) \cup Seq(BinStates)
  BY <1>1 DEF PoolStates
<1> QED
  BY <1>1, <1>2, <1>3, <1>4 DEF PoolInv, PoolKept, ReducerType, PoolIsFaithful

\* What the provider reports next is of the same kind.
LEMMA NextPoolState ==
  ASSUME PoolKept(pool), ProviderUpdate
  PROVE  \E next : /\ pool' = Append(pool, next)
                   /\ pool \in Seq(CpmmStates) => next \in CpmmStates
                   /\ pool \in Seq(ClmmStates) => next \in ClmmStates
                   /\ pool \in Seq(BinStates) => next \in BinStates
<1>1. PICK last : last = pool[Len(pool)]
  OBVIOUS
<1>2. /\ pool \in Seq(CpmmStates) => last \in CpmmStates
      /\ pool \in Seq(ClmmStates) => last \in ClmmStates
      /\ pool \in Seq(BinStates) => last \in BinStates
  BY <1>1 DEF PoolKept
<1> DEFINE One(f, values) == {[last EXCEPT ![f] = v] : v \in values}
<1>3. PICK next \in
             CASE last.kind = "cpmm" -> One("r0", 0 .. 1) \cup One("r1", 0 .. 1)
               [] last.kind = "clmm" -> One("tick", Indices) \cup One("sqrt", 0 .. 1)
                                        \cup One("ticks", SUBSET Indices)
               [] last.kind = "bin"  -> One("active", Indices) \cup
                                        One("bins", [Indices -> Sides]) :
             pool' = Append(pool, next)
  BY <1>1 DEF ProviderUpdate
<1>4. last \in CpmmStates => next \in CpmmStates
  <2> SUFFICES ASSUME last \in CpmmStates PROVE next \in CpmmStates
    OBVIOUS
  <2>1. last.kind = "cpmm"
    BY KindsDiffer
  <2>2. next \in One("r0", 0 .. 1) \cup One("r1", 0 .. 1)
    BY <1>3, <2>1
  <2> QED
    BY <2>2 DEF CpmmStates
<1>5. last \in ClmmStates => next \in ClmmStates
  <2> SUFFICES ASSUME last \in ClmmStates PROVE next \in ClmmStates
    OBVIOUS
  <2>1. last.kind = "clmm"
    BY KindsDiffer
  <2>2. next \in One("tick", Indices) \cup One("sqrt", 0 .. 1) \cup One("ticks", SUBSET Indices)
    BY <1>3, <2>1
  <2> QED
    BY <2>2 DEF ClmmStates
<1>6. last \in BinStates => next \in BinStates
  <2> SUFFICES ASSUME last \in BinStates PROVE next \in BinStates
    OBVIOUS
  <2>1. last.kind = "bin"
    BY KindsDiffer
  <2>2. next \in One("active", Indices) \cup One("bins", [Indices -> Sides])
    BY <1>3, <2>1
  <2> QED
    BY <2>2 DEF BinStates
<1> QED
  BY <1>2, <1>3, <1>4, <1>5, <1>6

LEMMA PoolGrowsOK ==
  ASSUME NEW p, NEW q, NEW next, PoolKept(p), q = Append(p, next),
         p \in Seq(CpmmStates) => next \in CpmmStates,
         p \in Seq(ClmmStates) => next \in ClmmStates,
         p \in Seq(BinStates) => next \in BinStates
  PROVE  PoolKept(q) /\ PastKept(p, q) /\ Len(p) \in Nat
<1>1. ASSUME NEW T, p \in Seq(T), next \in T
      PROVE  q \in Seq(T) /\ PastKept(p, q) /\ Len(p) \in Nat /\ Len(q) # 0
  BY <1>1 DEF PastKept
<1>2. CASE p \in Seq(CpmmStates)
  BY <1>1, <1>2 DEF PoolKept
<1>3. CASE p \in Seq(ClmmStates)
  BY <1>1, <1>3 DEF PoolKept
<1>4. CASE p \in Seq(BinStates)
  BY <1>1, <1>4 DEF PoolKept
<1> QED
  BY <1>2, <1>3, <1>4 DEF PoolKept

LEMMA PoolProviderStep ==
  ASSUME PoolInv, ProviderUpdate
  PROVE  PoolInv'
<1>1. PICK next : /\ pool' = Append(pool, next)
                  /\ pool \in Seq(CpmmStates) => next \in CpmmStates
                  /\ pool \in Seq(ClmmStates) => next \in ClmmStates
                  /\ pool \in Seq(BinStates) => next \in BinStates
  BY NextPoolState DEF PoolInv
<1>2. PICK p, q : p = pool /\ q = pool'
  OBVIOUS
<1>3. PoolKept(q) /\ PastKept(p, q) /\ Len(p) \in Nat
  <2>1. PoolKept(p)
    BY <1>2 DEF PoolInv
  <2>2. q = Append(p, next)
    BY <1>1, <1>2
  <2>3. /\ p \in Seq(CpmmStates) => next \in CpmmStates
        /\ p \in Seq(ClmmStates) => next \in ClmmStates
        /\ p \in Seq(BinStates) => next \in BinStates
    BY <1>1, <1>2
  <2> QED
    BY <2>1, <2>2, <2>3, PoolGrowsOK
<1>4. reducer' = reducer
  BY DEF ProviderUpdate
<1>5. reducer.current \in 1 .. Len(p) /\ Len(q) = Len(p) + 1 /\ q[reducer.current] = p[reducer.current]
  BY <1>2, <1>3 DEF PoolInv, ReducerType, PastKept
<1>6. ReducerType(reducer, pool)'
  <2>1. ReducerType(reducer, q)
    BY <1>2, <1>3, <1>5 DEF PoolInv, ReducerType
  <2> QED
    BY <1>2, <1>4, <2>1 DEF ReducerType
<1>7. PoolIsFaithful'
  BY <1>2, <1>4, <1>5 DEF PoolInv, PoolIsFaithful, PoolValid, CpmmValid, ClmmValid, BinValid, HeldBins
<1>8. PoolKept(pool)'
  BY <1>2, <1>3 DEF PoolKept
<1> QED
  BY <1>6, <1>7, <1>8 DEF PoolInv

LEMMA PoolStateAt ==
  ASSUME NEW p, PoolKept(p), NEW n \in 1 .. Len(p), NEW m \in 1 .. Len(p)
  PROVE  \/ p[n] \in CpmmStates /\ p[m] \in CpmmStates
         \/ p[n] \in ClmmStates /\ p[m] \in ClmmStates
         \/ p[n] \in BinStates /\ p[m] \in BinStates
<1>1. ASSUME NEW T, p \in Seq(T) PROVE p[n] \in T /\ p[m] \in T
  BY <1>1
<1> QED
  BY <1>1 DEF PoolKept

LEMMA CpmmRebuilds ==
  ASSUME NEW K, NEW S, NEW k, K = {k},
         NEW s \in [kind : K, r0 : S, r1 : S], NEW t \in [kind : K, r0 : S, r1 : S]
  PROVE  [s EXCEPT !.r0 = t.r0, !.r1 = t.r1] = t
OBVIOUS

LEMMA CpmmRebuilt ==
  ASSUME NEW s \in CpmmStates, NEW t \in CpmmStates
  PROVE  [s EXCEPT !.r0 = t.r0, !.r1 = t.r1] = t
<1>1. PICK S : S = 0 .. 1
  OBVIOUS
<1>2. s \in [kind : {"cpmm"}, r0 : S, r1 : S] /\ t \in [kind : {"cpmm"}, r0 : S, r1 : S]
  BY <1>1 DEF CpmmStates
<1> QED
  BY <1>2, CpmmRebuilds

LEMMA ClmmRebuilds ==
  ASSUME NEW K, NEW S, NEW T, NEW I, NEW k, K = {k},
         NEW s \in [kind : K, tick : I, sqrt : S, ticks : T],
         NEW t \in [kind : K, tick : I, sqrt : S, ticks : T]
  PROVE  [s EXCEPT !.tick = t.tick, !.sqrt = t.sqrt, !.ticks = t.ticks] = t
OBVIOUS

LEMMA ClmmRebuilt ==
  ASSUME NEW s \in ClmmStates, NEW t \in ClmmStates
  PROVE  [s EXCEPT !.tick = t.tick, !.sqrt = t.sqrt, !.ticks = t.ticks] = t
<1>1. PICK S, T : S = 0 .. 1 /\ T = SUBSET Indices
  OBVIOUS
<1>2. s \in [kind : {"clmm"}, tick : Indices, sqrt : S, ticks : T]
      /\ t \in [kind : {"clmm"}, tick : Indices, sqrt : S, ticks : T]
  BY <1>1 DEF ClmmStates
<1> QED
  BY <1>2, ClmmRebuilds

\* A contiguous delta rebuilds the provider's state.
LEMMA ReduceRebuilds ==
  ASSUME NEW before, NEW after,
         \/ before \in CpmmStates /\ after \in CpmmStates
         \/ before \in ClmmStates /\ after \in ClmmStates
         \/ before \in BinStates /\ after \in BinStates
  PROVE  PoolReduce(before, before, after) = after
<1>1. CASE before \in CpmmStates /\ after \in CpmmStates
  <2>1. before.kind = "cpmm"
    BY <1>1, KindsDiffer
  <2>2. PoolReduce(before, before, after) = [before EXCEPT !.r0 = after.r0, !.r1 = after.r1]
    BY <2>1, <1>1 DEF PoolReduce, CpmmReduce, Changed, CpmmStates
  <2> QED
    BY <1>1, <2>2, CpmmRebuilt
<1>2. CASE before \in ClmmStates /\ after \in ClmmStates
  <2>1. before.kind = "clmm"
    BY <1>2, KindsDiffer
  <2>2. WithUpdates(before.ticks, before.ticks, after.ticks) = after.ticks
    BY UpdatesRebuild
  <2>3. PoolReduce(before, before, after) =
          [before EXCEPT !.tick = after.tick, !.sqrt = after.sqrt, !.ticks = after.ticks]
    BY <1>2, <2>1, <2>2 DEF PoolReduce, ClmmReduce, Changed, ClmmStates
  <2> QED
    BY <1>2, <2>3, ClmmRebuilt
<1>3. CASE before \in BinStates /\ after \in BinStates
  <2>1. before.kind = "bin"
    BY <1>3, KindsDiffer
  <2>2. [i \in Indices |-> Changed(before.bins[i], before.bins[i], after.bins[i])] = after.bins
    BY <1>3 DEF Changed, BinStates
  <2>3. PoolReduce(before, before, after) = [before EXCEPT !.active = after.active, !.bins = after.bins]
    BY <1>3, <2>1, <2>2 DEF PoolReduce, BinReduce, Changed, BinStates
  <2> QED
    BY <1>3, <2>3 DEF BinStates
<1> QED
  BY <1>1, <1>2, <1>3

\* The reducer takes a state the provider reported.
LEMMA PoolTakes ==
  ASSUME PoolInv, NEW n \in 1 .. Len(pool), PoolValid(pool[n]), UNCHANGED pool,
         NEW b \in BOOLEAN, reducer' = [current |-> n, resync |-> b, state |-> pool[n]]
  PROVE  PoolInv'
<1>1. pool[n] \in PoolStates
  BY PoolStateAt DEF PoolInv, PoolStates
<1>2. ReducerType(reducer, pool)'
  BY <1>1 DEF ReducerType
<1>3. reducer'.state = pool'[reducer'.current]
  OBVIOUS
<1>4. PoolValid(reducer'.state)
  OBVIOUS
<1>5. PoolIsFaithful'
  BY <1>3, <1>4 DEF PoolIsFaithful, PoolValid, CpmmValid, ClmmValid, BinValid, HeldBins
<1> QED
  BY <1>2, <1>5 DEF PoolInv, PoolKept

LEMMA PoolDelta ==
  ASSUME PoolInv, NEW first \in 2 .. Len(pool), NEW last \in 2 .. Len(pool), first <= last,
         ApplyPoolDelta(first, last)
  PROVE  PoolInv'
<1>1. PICK class : class = ClassifyPool(first, last)
  OBVIOUS
<1>2. PICK staged : staged = PoolReduce(reducer.state, pool[first - 1], pool[last])
  OBVIOUS
<1>3. reducer' =
             CASE class = "ResyncRequired" -> [reducer EXCEPT !.resync = TRUE]
               [] /\ class = "Contiguous"
                  /\ DeltaValid(pool[first - 1], pool[last])
                  /\ PoolValid(staged) ->
                     [reducer EXCEPT !.current = last, !.state = staged]
               [] OTHER -> reducer
  BY <1>1, <1>2 DEF ApplyPoolDelta
<1>4. pool' = pool
  BY DEF ApplyPoolDelta
<1>5. reducer \in [current : 1 .. Len(pool), resync : BOOLEAN, state : PoolStates]
  BY DEF PoolInv, ReducerType
<1>6. CASE class = "ResyncRequired"
  <2>1. reducer' = [reducer EXCEPT !.resync = TRUE]
    BY <1>3, <1>6
  <2> QED
    BY <1>4, <1>5, <2>1 DEF PoolInv, ReducerType, PoolIsFaithful, PoolKept, PoolValid, CpmmValid,
       ClmmValid, BinValid, HeldBins
<1>7. CASE /\ class = "Contiguous"
           /\ DeltaValid(pool[first - 1], pool[last])
           /\ PoolValid(staged)
  <2>1. first = reducer.current + 1
    <3>1. PICK cur : cur = reducer.current
      OBVIOUS
    <3>2. PICK t : t = [current |-> reducer.current, resync |-> reducer.resync]
      OBVIOUS
    <3>3. t.current = cur /\ class = ClassifyDeltaRange(t, first, last)
      BY <1>1, <3>1, <3>2 DEF ClassifyPool
    <3>4. first = t.current + 1
      BY <1>7, <3>3 DEF ClassifyDeltaRange
    <3> QED
      BY <3>1, <3>3, <3>4
  <2>2. Len(pool) \in Nat
    BY DEF PoolInv, PoolKept
  <2>3. first - 1 = reducer.current /\ first - 1 \in 1 .. Len(pool) /\ last \in 1 .. Len(pool)
    BY <1>5, <2>1, <2>2
  <2>4. reducer.state = pool[first - 1]
    BY <2>3 DEF PoolInv, PoolIsFaithful
  <2>5. PICK before, after : before = pool[first - 1] /\ after = pool[last]
    OBVIOUS
  <2>6. \/ before \in CpmmStates /\ after \in CpmmStates
        \/ before \in ClmmStates /\ after \in ClmmStates
        \/ before \in BinStates /\ after \in BinStates
    BY <2>3, <2>5, PoolStateAt DEF PoolInv
  <2>7. staged = pool[last]
    <3>1. PoolReduce(before, before, after) = after
      BY <2>6, ReduceRebuilds
    <3> QED
      BY <1>2, <2>4, <2>5, <3>1
  <2>8. reducer' = [reducer EXCEPT !.current = last, !.state = staged]
    BY <1>3, <1>7
  <2>9. reducer' = [current |-> last, resync |-> reducer.resync, state |-> staged]
    BY <1>5, <2>8
  <2>10. reducer.resync \in BOOLEAN
    BY <1>5
  <2> QED
    BY <1>4, <1>7, <2>3, <2>7, <2>9, <2>10, PoolTakes
<1>8. CASE reducer' = reducer
  BY <1>4, <1>8 DEF PoolInv, ReducerType, PoolIsFaithful, PoolKept, PoolValid, CpmmValid,
     ClmmValid, BinValid, HeldBins
<1> QED
  BY <1>3, <1>6, <1>7, <1>8

\* The state a route is simulated on is the provider's at the reducer's sequence, and it validates.
THEOREM PoolFaithful == PoolSpec => []PoolIsFaithful
<1>1. PoolInit => PoolInv
  BY PoolStarts
<1>2. PoolInv /\ [PoolNext]_poolVars => PoolInv'
  <2> SUFFICES ASSUME PoolInv, [PoolNext]_poolVars PROVE PoolInv'
    OBVIOUS
  <2>1. CASE UNCHANGED poolVars
    BY <2>1 DEF PoolInv, ReducerType, PoolIsFaithful, PoolKept, PoolValid, CpmmValid,
       ClmmValid, BinValid, HeldBins, poolVars
  <2>2. CASE ProviderUpdate
    BY <2>2, PoolProviderStep
  <2>3. CASE \E r \in (2 .. Len(pool)) \X (2 .. Len(pool)) :
               r[1] <= r[2] /\ ApplyPoolDelta(r[1], r[2])
    <3>1. PICK r \in (2 .. Len(pool)) \X (2 .. Len(pool)) :
               r[1] <= r[2] /\ ApplyPoolDelta(r[1], r[2])
      BY <2>3
    <3>2. PICK a, b : a = r[1] /\ b = r[2]
      OBVIOUS
    <3>3. a \in 2 .. Len(pool) /\ b \in 2 .. Len(pool) /\ a <= b /\ ApplyPoolDelta(a, b)
      BY <3>1, <3>2
    <3> QED
      BY <3>3, PoolDelta
  <2>4. CASE \E n \in 1 .. Len(pool) : ApplyPoolSnapshot(n)
    BY <2>4, PoolTakes DEF ApplyPoolSnapshot
  <2>5. CASE \E n \in 1 .. Len(pool) : ResetPool(n)
    BY <2>5, PoolTakes DEF ResetPool
  <2> QED
    BY <2>1, <2>2, <2>3, <2>4, <2>5 DEF PoolNext
<1>3. PoolInv => PoolIsFaithful
  BY DEF PoolInv
<1> QED
  BY <1>1, <1>2, <1>3, PTL DEF PoolSpec

(***************************************************************************)
(* The batcher.                                                            *)
(***************************************************************************)
LEMMA LeastMember ==
  ASSUME NEW T \in SUBSET Nat, NEW k \in T
  PROVE  \E m \in T : \A n \in T : m <= n
<1> DEFINE R == OpToRel(<, Nat)
<1>1. IsWellFoundedOn(R, Nat)
  BY NatLessThanWellFounded
<1>2. \A m, n \in Nat : m < n => <<m, n>> \in R
  BY DEF OpToRel
<1> HIDE DEF R
<1>3. PICK m \in T : \A n \in T : ~(<<n, m>> \in R)
  BY <1>1, WFMin
<1>4. ASSUME NEW n \in T PROVE m <= n
  <2>1. m \in Nat /\ n \in Nat /\ ~(n < m)
    BY <1>2, <1>3
  <2> QED
    BY <2>1
<1> QED
  BY <1>4

\* Induction over the naturals, for a set.
LEMMA SetInduction ==
  ASSUME NEW T, 0 \in T, \A n \in Nat : n \in T => n + 1 \in T
  PROVE  Nat \subseteq T
<1> SUFFICES ASSUME NEW k \in Nat \ T PROVE FALSE
  OBVIOUS
<1>1. PICK m \in Nat \ T : \A n \in Nat \ T : m <= n
  <2> DEFINE U == Nat \ T
  <2>1. U \in SUBSET Nat /\ k \in U
    OBVIOUS
  <2> HIDE DEF U
  <2>2. \E m \in U : \A n \in U : m <= n
    BY <2>1, LeastMember
  <2> QED
    BY <2>2 DEF U
<1>2. m # 0 /\ m - 1 \in Nat /\ m - 1 \in T
  BY <1>1
<1>3. (m - 1) + 1 \in T
  BY <1>2
<1> QED
  BY <1>1, <1>3


ReplicaType == [sequence : Nat, bids : SUBSET Levels, asks : SUBSET Levels]
ItemRecords == [kind : {"snapshot", "delta", "candle"}, first : Nat, last : Nat]

\* The reader holds the book the venue had at m.
HoldsBook(v, r, m) ==
  /\ r \in ReplicaType
  /\ r.sequence \in 1 .. Len(v)
  /\ r.bids = v[m].bids /\ r.asks = v[m].asks
  /\ v[r.sequence].bids = v[m].bids /\ v[r.sequence].asks = v[m].asks

ItemOK(v, it) ==
  /\ it \in ItemRecords
  /\ it.first \in 1 .. Len(v) /\ it.last \in 1 .. Len(v)
  /\ it.kind = "candle" => it.first = it.last /\ v[it.last].kind = "candle"
  /\ it.kind = "delta" => it.first # 1

\* An item continues its predecessor, unless it starts afresh.
Linked(items) ==
  \A i \in 2 .. Len(items) : items[i].kind # "snapshot" => items[i].first = items[i - 1].last + 1

ItemsOK(v, items) ==
  /\ items \in Seq(ItemRecords)
  /\ \A i \in 1 .. Len(items) : ItemOK(v, items[i])
  /\ Linked(items)

\* The first item continues what the consumer holds, the last one is what the
\* tracker counted; a consumer with nothing to wait for is where the tracker is.
QueueFits(v, r, items, current) ==
  /\ items # <<>> =>
       /\ items[1].kind # "snapshot" => HoldsBook(v, r, items[1].first - 1)
       /\ items[Len(items)].last = current
  /\ items = <<>> /\ current # 0 => HoldsBook(v, r, current)

Absorbing(v, r, it) ==
  CASE it.kind = "snapshot" ->
            [sequence |-> it.last, bids |-> v[it.last].bids, asks |-> v[it.last].asks]
    [] it.kind = "delta" ->
            [sequence |-> it.last,
             bids |-> WithUpdates(r.bids, v[it.first - 1].bids, v[it.last].bids),
             asks |-> WithUpdates(r.asks, v[it.first - 1].asks, v[it.last].asks)]
    [] it.kind = "candle" -> r

LEMMA AbsorbIs ==
  ASSUME NEW r, NEW it
  PROVE  Absorb(r, it) = Absorbing(venue, r, it)
BY DEF Absorb, Absorbing

LEMMA AbsorbOne ==
  ASSUME NEW v, VenueOK(v), NEW r, NEW it, ItemOK(v, it),
         it.kind # "snapshot" => HoldsBook(v, r, it.first - 1)
  PROVE  HoldsBook(v, Absorbing(v, r, it), it.last)
<1>1. PICK n, m : n = it.last /\ m = it.first
  OBVIOUS
<1>2. n \in 1 .. Len(v) /\ n \in Nat /\ Len(v) \in Nat /\ m \in 1 .. Len(v)
  BY <1>1 DEF ItemOK, VenueOK
<1>3. v[n] \in VenueStates
  BY <1>2 DEF VenueOK
<1>4. v[n].bids \in SUBSET Levels /\ v[n].asks \in SUBSET Levels
  BY <1>3 DEF VenueStates
<1>5. PICK bids, asks : bids = v[n].bids /\ asks = v[n].asks
  OBVIOUS
<1>6. it.kind \in {"snapshot", "delta", "candle"}
  BY DEF ItemOK, ItemRecords
<1>7. ASSUME Absorbing(v, r, it) = [sequence |-> n, bids |-> bids, asks |-> asks]
      PROVE  HoldsBook(v, Absorbing(v, r, it), it.last)
  BY <1>1, <1>2, <1>4, <1>5, <1>7 DEF HoldsBook, ReplicaType
<1>8. CASE it.kind = "snapshot"
  BY <1>1, <1>5, <1>7, <1>8 DEF Absorbing
<1>9. CASE it.kind = "delta"
  <2>1. HoldsBook(v, r, m - 1)
    BY <1>1, <1>9
  <2>2. r.bids = v[m - 1].bids /\ r.asks = v[m - 1].asks
    BY <2>1 DEF HoldsBook
  <2>3. WithUpdates(r.bids, v[m - 1].bids, bids) = bids
    BY <2>2, UpdatesRebuild
  <2>4. WithUpdates(r.asks, v[m - 1].asks, asks) = asks
    BY <2>2, UpdatesRebuild
  <2>5. Absorbing(v, r, it) =
          [sequence |-> n, bids |-> WithUpdates(r.bids, v[m - 1].bids, bids),
           asks |-> WithUpdates(r.asks, v[m - 1].asks, asks)]
    BY <1>1, <1>5, <1>9 DEF Absorbing
  <2> QED
    BY <1>7, <2>3, <2>4, <2>5
<1>10. CASE it.kind = "candle"
  <2>1. HoldsBook(v, r, m - 1) /\ m = n /\ v[n].kind = "candle"
    BY <1>1, <1>10 DEF ItemOK
  <2>2. v[n].bids = v[n - 1].bids /\ v[n].asks = v[n - 1].asks
    BY <1>2, <2>1 DEF VenueOK
  <2>3. HoldsBook(v, r, n)
    BY <2>1, <2>2 DEF HoldsBook
  <2>4. Absorbing(v, r, it) = r
    BY <1>10 DEF Absorbing
  <2> QED
    BY <1>1, <2>3, <2>4
<1> QED
  BY <1>6, <1>8, <1>9, <1>10

\* f[n] is what the reader holds after n items.
AbsorbUpTo(v, f, r, items, N) ==
  /\ f = [n \in 0 .. N |-> f[n]]
  /\ f[0] = r
  /\ \A n \in 1 .. N : f[n] = Absorbing(v, f[n - 1], items[n])

LEMMA AbsorbExists ==
  ASSUME NEW v, NEW r, NEW items
  PROVE  \A N \in Nat : \E f : AbsorbUpTo(v, f, r, items, N)
<1> DEFINE T == {n \in Nat : \E f : AbsorbUpTo(v, f, r, items, n)}
<1>1. 0 \in T
  <2>1. AbsorbUpTo(v, [n \in 0 .. 0 |-> r], r, items, 0)
    BY DEF AbsorbUpTo
  <2> QED
    BY <2>1
<1>2. ASSUME NEW n \in Nat, n \in T PROVE n + 1 \in T
  <2>1. PICK f : AbsorbUpTo(v, f, r, items, n)
    BY <1>2
  <2>2. f[0] = r /\ \A k \in 1 .. n : f[k] = Absorbing(v, f[k - 1], items[k])
    BY <2>1 DEF AbsorbUpTo
  <2>3. PICK w : w = Absorbing(v, f[n], items[n + 1])
    OBVIOUS
  <2> DEFINE g == [k \in 0 .. (n + 1) |-> IF k = n + 1 THEN w ELSE f[k]]
  <2>4. g[0] = r
    BY <2>2
  <2>5. ASSUME NEW k \in 1 .. (n + 1) PROVE g[k] = Absorbing(v, g[k - 1], items[k])
    <3>1. CASE k = n + 1
      <4>1. g[n + 1] = w /\ g[n] = f[n] /\ k - 1 = n
        BY <3>1
      <4> QED
        BY <4>1, <3>1, <2>3
    <3>2. CASE k # n + 1
      <4>1. k \in 1 .. n /\ k - 1 # n + 1 /\ k \in 0 .. (n + 1) /\ k - 1 \in 0 .. (n + 1)
        BY <3>2
      <4>2. g[k] = f[k] /\ g[k - 1] = f[k - 1]
        BY <4>1
      <4> QED
        BY <4>1, <4>2, <2>2
    <3> QED
      BY <3>1, <3>2
  <2>6. g = [k \in 0 .. (n + 1) |-> g[k]]
    OBVIOUS
  <2> HIDE DEF g
  <2>7. AbsorbUpTo(v, g, r, items, n + 1)
    BY <2>4, <2>5, <2>6 DEF AbsorbUpTo
  <2> QED
    BY <2>7
<1>3. Nat \subseteq T
  <2> HIDE DEF T
  <2> QED
    BY <1>1, <1>2, SetInduction
<1> QED
  BY <1>3

LEMMA AbsorbAllIs ==
  ASSUME NEW r, NEW items, Len(items) \in Nat
  PROVE  \E f : AbsorbUpTo(venue, f, r, items, Len(items)) /\ AbsorbAll(r, items) = f[Len(items)]
<1> DEFINE N == Len(items)
           F(f) == [i \in 0 .. N |-> IF i = 0 THEN r ELSE Absorb(f[i - 1], items[i])]
           s == CHOOSE f : f = F(f)
<1>1. PICK f : AbsorbUpTo(venue, f, r, items, N)
  BY AbsorbExists
<1>2. f = F(f)
  <2>1. f = [n \in 0 .. N |-> f[n]] /\ f[0] = r
        /\ \A n \in 1 .. N : f[n] = Absorbing(venue, f[n - 1], items[n])
    BY <1>1 DEF AbsorbUpTo
  <2>2. ASSUME NEW n \in 0 .. N
        PROVE  f[n] = IF n = 0 THEN r ELSE Absorb(f[n - 1], items[n])
    <3>1. CASE n = 0
      BY <2>1, <3>1
    <3>2. CASE n # 0
      <4>1. n \in 1 .. N
        BY <3>2
      <4>2. f[n] = Absorbing(venue, f[n - 1], items[n])
        BY <2>1, <4>1
      <4>3. Absorb(f[n - 1], items[n]) = Absorbing(venue, f[n - 1], items[n])
        BY AbsorbIs
      <4> QED
        BY <3>2, <4>2, <4>3
    <3> QED
      BY <3>1, <3>2
  <2> QED
    BY <2>1, <2>2
<1>3. s = F(s)
  BY <1>2
<1>4. AbsorbAll(r, items) = s[N]
  BY DEF AbsorbAll
<1> HIDE DEF s
<1>5. \A n \in 0 .. N : s[n] = IF n = 0 THEN r ELSE Absorb(s[n - 1], items[n])
  BY <1>3
<1>6. s = [n \in 0 .. N |-> s[n]]
  BY <1>3
<1>7. s[0] = r /\ \A n \in 1 .. N : s[n] = Absorbing(venue, s[n - 1], items[n])
  BY <1>5, AbsorbIs
<1>8. AbsorbUpTo(venue, s, r, items, N)
  BY <1>6, <1>7 DEF AbsorbUpTo
<1> QED
  BY <1>4, <1>8

StartsFrom(v, r, items) == items[1].kind # "snapshot" => HoldsBook(v, r, items[1].first - 1)

\* A reader handed linked items holds the book of the last one.
LEMMA AbsorbHolds ==
  ASSUME NEW v, VenueOK(v), NEW r, NEW items, NEW f, NEW N \in Nat, NEW M \in Nat, N = Len(items),
         M <= N, M # 0, ItemsOK(v, items), AbsorbUpTo(v, f, r, items, M), StartsFrom(v, r, items)
  PROVE  HoldsBook(v, f[M], items[M].last)
<1>1. f[0] = r /\ \A n \in 1 .. M : f[n] = Absorbing(v, f[n - 1], items[n])
  BY DEF AbsorbUpTo
<1> DEFINE T == {n \in Nat : n + 1 <= M => HoldsBook(v, f[n + 1], items[n + 1].last)}
<1>2. 0 \in T
  <2>1. f[1] = Absorbing(v, r, items[1])
    BY <1>1
  <2>2. ItemOK(v, items[1])
    BY DEF ItemsOK
  <2>3. HoldsBook(v, f[1], items[1].last)
    BY <2>1, <2>2, AbsorbOne DEF StartsFrom
  <2> QED
    BY <2>3
<1>3. ASSUME NEW n \in Nat, n \in T PROVE n + 1 \in T
  <2>1. SUFFICES ASSUME n + 2 <= M PROVE HoldsBook(v, f[n + 2], items[n + 2].last)
    OBVIOUS
  <2>2. PICK i : i = n + 2
    OBVIOUS
  <2>3. i \in 1 .. M /\ i \in 2 .. N /\ i \in 1 .. N /\ i - 1 = n + 1 /\ i \in Nat
    BY <2>1, <2>2
  <2>4. HoldsBook(v, f[i - 1], items[i - 1].last)
    BY <1>3, <2>1, <2>3
  <2>5. f[i] = Absorbing(v, f[i - 1], items[i])
    BY <1>1, <2>3
  <2>6. ItemOK(v, items[i]) /\ ItemOK(v, items[i - 1])
    BY <2>3 DEF ItemsOK
  <2>7. items[i].kind # "snapshot" => HoldsBook(v, f[i - 1], items[i].first - 1)
    <3>1. SUFFICES ASSUME items[i].kind # "snapshot"
                   PROVE  HoldsBook(v, f[i - 1], items[i].first - 1)
      OBVIOUS
    <3>2. items[i].first = items[i - 1].last + 1
      BY <2>3, <3>1 DEF ItemsOK, Linked
    <3>3. items[i - 1].last \in Nat
      BY <2>6 DEF ItemOK, ItemRecords
    <3>4. items[i].first - 1 = items[i - 1].last
      BY <3>2, <3>3
    <3> QED
      BY <2>4, <3>4
  <2>8. HoldsBook(v, f[i], items[i].last)
    BY <2>5, <2>6, <2>7, AbsorbOne
  <2> QED
    BY <2>2, <2>8
<1>4. Nat \subseteq T
  <2> HIDE DEF T
  <2> QED
    BY <1>2, <1>3, SetInduction
<1>5. M - 1 \in Nat /\ (M - 1) + 1 = M
  OBVIOUS
<1> QED
  BY <1>4, <1>5

DepthType == [current : Nat, bids : SUBSET Levels, asks : SUBSET Levels, resync : BOOLEAN]
CandleType == [current : Nat, window : Int, resync : BOOLEAN]
TrackerType == [current : Nat, resync : BOOLEAN]
QueueType == [tracker : TrackerType, items : Seq(ItemRecords), inFlight : Seq(ItemRecords),
              nextId : Nat]

\* The aggregated book is part of the venue's.
DepthOK(v, d) ==
  /\ d \in DepthType
  /\ d.current \in 0 .. Len(v)
  /\ d.current # 0 => d.bids \subseteq v[d.current].bids /\ d.asks \subseteq v[d.current].asks

QueueOK(v, q, r) ==
  /\ q \in QueueType
  /\ q.tracker.current \in 0 .. Len(v)
  /\ ItemsOK(v, q.items)
  /\ QueueFits(v, r, q.items, q.tracker.current)

ReaderOK(v, r) == r \in ReplicaType /\ (r.sequence # 0 => HoldsBook(v, r, r.sequence))

InStep(d, o, q) ==
  /\ d.resync = q.tracker.resync
  /\ o.resync = q.tracker.resync
  /\ ~q.tracker.resync => o.current = q.tracker.current

BatchInv ==
  /\ VenueOK(venue)
  /\ DepthOK(venue, depth)
  /\ ohlcv \in CandleType
  /\ QueueOK(venue, queue, replica)
  /\ ReaderOK(venue, replica)
  /\ InStep(depth, ohlcv, queue)

LEMMA BatchStarts == VenueInit /\ BatcherInit => BatchInv
<1> SUFFICES ASSUME VenueInit, BatcherInit PROVE BatchInv
  OBVIOUS
<1>1. VenueOK(venue)
  BY VenueStarts
<1>2. Len(venue) \in Nat
  BY <1>1 DEF VenueOK
<1>3. DepthOK(venue, depth) /\ ohlcv \in CandleType
  BY <1>2 DEF BatcherInit, DepthOK, DepthType, CandleType, NoFeedYet
<1>4. PICK e \in Seq(ItemRecords) : e = <<>>
  BY EmptySeq
<1>5. Len(e) = 0
  BY <1>4
<1>6. queue = [tracker |-> [current |-> 0, resync |-> FALSE], items |-> e, inFlight |-> e, nextId |-> 1]
  BY <1>4 DEF BatcherInit, NewTracker, NoFeedYet
<1>7. ItemsOK(venue, e)
  BY <1>5 DEF ItemsOK, Linked
<1>8. queue \in QueueType /\ queue.items = e /\ queue.tracker.current = 0
  BY <1>6 DEF QueueType, TrackerType
<1>9. QueueOK(venue, queue, replica)
  BY <1>2, <1>4, <1>7, <1>8 DEF QueueOK, QueueFits
<1>10. ReaderOK(venue, replica)
  BY DEF BatcherInit, ReaderOK, ReplicaType, NoFeedYet
<1>11. InStep(depth, ohlcv, queue)
  <2>1. queue.tracker.resync = FALSE
    BY <1>6
  <2>2. depth.resync = FALSE /\ ohlcv.resync = FALSE /\ ohlcv.current = 0
    BY DEF BatcherInit, NoFeedYet
  <2> QED
    BY <1>8, <2>1, <2>2 DEF InStep
<1> QED
  BY <1>1, <1>3, <1>9, <1>10, <1>11 DEF BatchInv

\* What was said of the venue stays true when it moves on.
LEMMA HoldsStill ==
  ASSUME NEW v, NEW u, VenueOK(v), PastKept(v, u), NEW r, NEW m \in 1 .. Len(v), HoldsBook(v, r, m)
  PROVE  HoldsBook(u, r, m)
<1>1. Len(v) \in Nat /\ Len(u) = Len(v) + 1 /\ u[m] = v[m]
  BY DEF VenueOK, PastKept
<1>2. PICK s : s = r.sequence
  OBVIOUS
<1>3. s \in 1 .. Len(v) /\ u[s] = v[s]
  BY <1>2 DEF HoldsBook, PastKept
<1>4. s \in 1 .. Len(u)
  BY <1>1, <1>3
<1> QED
  BY <1>1, <1>2, <1>3, <1>4 DEF HoldsBook

LEMMA DepthStill ==
  ASSUME NEW v, NEW u, VenueOK(v), PastKept(v, u), NEW d, DepthOK(v, d)
  PROVE  DepthOK(u, d)
<1>1. Len(v) \in Nat /\ Len(u) = Len(v) + 1
  BY DEF VenueOK, PastKept
<1>2. PICK n : n = d.current
  OBVIOUS
<1>3. n \in 0 .. Len(v) /\ n \in 0 .. Len(u) /\ (n # 0 => u[n] = v[n])
  BY <1>1, <1>2 DEF DepthOK, PastKept
<1> QED
  BY <1>2, <1>3 DEF DepthOK

LEMMA ItemsStill ==
  ASSUME NEW v, NEW u, VenueOK(v), PastKept(v, u), NEW items, ItemsOK(v, items)
  PROVE  ItemsOK(u, items)
<1>1. Len(v) \in Nat /\ Len(u) = Len(v) + 1
  BY DEF VenueOK, PastKept
<1>2. ASSUME NEW it, ItemOK(v, it) PROVE ItemOK(u, it)
  <2>1. PICK a, b : a = it.first /\ b = it.last
    OBVIOUS
  <2>2. a \in 1 .. Len(v) /\ b \in 1 .. Len(v) /\ u[b] = v[b]
    BY <1>2, <2>1 DEF ItemOK, PastKept
  <2>3. a \in 1 .. Len(u) /\ b \in 1 .. Len(u)
    BY <1>1, <2>2
  <2> QED
    BY <1>2, <2>1, <2>2, <2>3 DEF ItemOK
<1> QED
  BY <1>2 DEF ItemsOK

LEMMA QueueStill ==
  ASSUME NEW v, NEW u, VenueOK(v), PastKept(v, u), NEW q, NEW r, QueueOK(v, q, r)
  PROVE  QueueOK(u, q, r)
<1>1. Len(v) \in Nat /\ Len(u) = Len(v) + 1
  BY DEF VenueOK, PastKept
<1>2. PICK items, c : items = q.items /\ c = q.tracker.current
  OBVIOUS
<1>3. q \in QueueType /\ ItemsOK(v, items) /\ QueueFits(v, r, items, c) /\ c \in 0 .. Len(v)
  BY <1>2 DEF QueueOK
<1>4. ItemsOK(u, items)
  BY <1>3, ItemsStill
<1>5. c \in 0 .. Len(u)
  BY <1>1, <1>3
<1>6. QueueFits(u, r, items, c)
  <2>1. ASSUME items = <<>>, c # 0 PROVE HoldsBook(u, r, c)
    <3>1. c \in 1 .. Len(v)
      BY <1>1, <1>3, <2>1
    <3>2. HoldsBook(v, r, c)
      BY <1>3, <2>1 DEF QueueFits
    <3> QED
      BY <3>1, <3>2, HoldsStill
  <2>2. ASSUME items # <<>>, items[1].kind # "snapshot" PROVE HoldsBook(u, r, items[1].first - 1)
    <3>1. items \in Seq(ItemRecords) /\ Len(items) # 0 /\ Len(items) \in Nat
      BY <1>3, <2>2 DEF ItemsOK
    <3>2. ItemOK(v, items[1])
      BY <1>3, <3>1 DEF ItemsOK
    <3>3. PICK it : it = items[1]
      OBVIOUS
    <3>4. PICK a : a = it.first
      OBVIOUS
    <3>5. a \in 1 .. Len(v) /\ it.kind \in {"delta", "candle"}
      BY <2>2, <3>2, <3>3, <3>4 DEF ItemOK, ItemRecords
    <3>6. a # 1
      BY <3>2, <3>3, <3>4, <3>5 DEF ItemOK, VenueOK
    <3>7. a - 1 \in 1 .. Len(v)
      BY <1>1, <3>5, <3>6
    <3>8. HoldsBook(v, r, a - 1)
      BY <1>3, <2>2, <3>3, <3>4 DEF QueueFits
    <3>9. HoldsBook(u, r, a - 1)
      BY <3>7, <3>8, HoldsStill
    <3> QED
      BY <3>3, <3>4, <3>9
  <2>3. items # <<>> => items[Len(items)].last = c
    BY <1>3 DEF QueueFits
  <2> QED
    BY <2>1, <2>2, <2>3 DEF QueueFits
<1> QED
  BY <1>2, <1>3, <1>4, <1>5, <1>6 DEF QueueOK

LEMMA ReaderStill ==
  ASSUME NEW v, NEW u, VenueOK(v), PastKept(v, u), NEW r, ReaderOK(v, r)
  PROVE  ReaderOK(u, r)
<1>1. ASSUME r.sequence # 0 PROVE HoldsBook(u, r, r.sequence)
  <2>1. HoldsBook(v, r, r.sequence)
    BY <1>1 DEF ReaderOK
  <2>2. r.sequence \in 1 .. Len(v)
    BY <2>1 DEF HoldsBook
  <2> QED
    BY <2>1, <2>2, HoldsStill
<1> QED
  BY <1>1 DEF ReaderOK

\* The invariant of the next state, from the values the step assigns.
LEMMA BatchNextOK ==
  ASSUME NEW v, NEW d, NEW o, NEW q, NEW r,
         venue' = v, depth' = d, ohlcv' = o, queue' = q, replica' = r,
         VenueOK(v), DepthOK(v, d), o \in CandleType, QueueOK(v, q, r), ReaderOK(v, r),
         InStep(d, o, q)
  PROVE  BatchInv'
<1>1. VenueOK(venue')
  OBVIOUS
<1>2. DepthOK(venue', depth')
  OBVIOUS
<1>3. QueueOK(venue', queue', replica')
  OBVIOUS
<1>4. ReaderOK(venue', replica')
  OBVIOUS
<1>5. InStep(depth', ohlcv', queue')
  OBVIOUS
<1>6. VenueOK(venue)'
  BY <1>1 DEF VenueOK
<1>7. DepthOK(venue, depth)'
  BY <1>2 DEF DepthOK
<1>8. QueueOK(venue, queue, replica)'
  BY <1>3 DEF QueueOK, ItemsOK, ItemOK, Linked, QueueFits, HoldsBook
<1>9. ReaderOK(venue, replica)'
  BY <1>4 DEF ReaderOK, HoldsBook
<1>10. InStep(depth, ohlcv, queue)'
  BY <1>5 DEF InStep
<1> QED
  BY <1>6, <1>7, <1>8, <1>9, <1>10 DEF BatchInv

LEMMA BatchVenueStep ==
  ASSUME BatchInv, VenueUpdate, UNCHANGED batcherVars
  PROVE  BatchInv'
<1>1. VenueOK(venue)' /\ PastKept(venue, venue')
  BY VenueStep DEF BatchInv
<1>2. PICK v, u : v = venue /\ u = venue'
  OBVIOUS
<1>3. VenueOK(v) /\ PastKept(v, u) /\ VenueOK(u)
  BY <1>1, <1>2 DEF BatchInv, VenueOK
<1>4. PICK d, o, q, r : d = depth /\ o = ohlcv /\ q = queue /\ r = replica
  OBVIOUS
<1>5. DepthOK(v, d) /\ o \in CandleType /\ QueueOK(v, q, r) /\ ReaderOK(v, r) /\ InStep(d, o, q)
  BY <1>2, <1>4 DEF BatchInv
<1>6. DepthOK(u, d)
  BY <1>3, <1>5, DepthStill
<1>7. QueueOK(u, q, r)
  BY <1>3, <1>5, QueueStill
<1>8. ReaderOK(u, r)
  BY <1>3, <1>5, ReaderStill
<1>9. depth' = d /\ ohlcv' = o /\ queue' = q /\ replica' = r
  BY <1>4 DEF batcherVars
<1> QED
  BY <1>2, <1>3, <1>5, <1>6, <1>7, <1>8, <1>9, BatchNextOK

(* The aggregators.                                                        *)

LEMMA DepthAtOK ==
  ASSUME VenueOK(venue), NEW n \in 1 .. Len(venue)
  PROVE  DepthOK(venue, DepthAt(n)) /\ DepthAt(n).resync = FALSE
<1>1. n \in Nat /\ n # 0 /\ n \in 0 .. Len(venue) /\ venue[n] \in VenueStates
  BY DEF VenueOK
<1>2. PICK s : s = venue[n]
  OBVIOUS
<1>3. s.bids \subseteq Levels /\ s.asks \subseteq Levels
  BY <1>1, <1>2 DEF VenueStates
<1>4. PICK bids, asks : bids = TopBids(s.bids) /\ asks = TopAsks(s.asks)
  OBVIOUS
<1>5. bids \subseteq s.bids /\ asks \subseteq s.asks
  BY <1>4, TopIsPart
<1>6. DepthAt(n) = [current |-> n, bids |-> bids, asks |-> asks, resync |-> FALSE]
  BY <1>2, <1>4 DEF DepthAt
<1>7. DepthAt(n) \in DepthType
  <2>1. bids \in SUBSET Levels /\ asks \in SUBSET Levels
    BY <1>3, <1>5
  <2> QED
    BY <1>1, <1>6, <2>1 DEF DepthType
<1> QED
  BY <1>1, <1>2, <1>5, <1>6, <1>7 DEF DepthOK

LEMMA DepthDeltaOK ==
  ASSUME VenueOK(venue), NEW d, DepthOK(venue, d), NEW first \in 2 .. Len(venue),
         NEW last \in 2 .. Len(venue), first <= last,
         DepthApplyDelta(d, first, last).class = "Contiguous"
  PROVE  /\ DepthOK(venue, DepthApplyDelta(d, first, last).state)
         /\ DepthApplyDelta(d, first, last).state.resync = FALSE
<1>1. Len(venue) \in Nat /\ first - 1 \in 1 .. Len(venue) /\ last \in 1 .. Len(venue)
      /\ last \in Nat /\ last # 0
  BY DEF VenueOK
<1>2. PICK class : class = ClassifyDeltaRange([current |-> d.current, resync |-> d.resync], first, last)
  OBVIOUS
<1>3. PICK before, after : before = venue[first - 1] /\ after = venue[last]
  OBVIOUS
<1>4. after \in VenueStates
  BY <1>1, <1>3 DEF VenueOK
<1>5. PICK bids, asks :
          /\ bids = TopBids(WithUpdates(d.bids, before.bids, after.bids))
          /\ asks = TopAsks(WithUpdates(d.asks, before.asks, after.asks))
  OBVIOUS
<1>6. DepthApplyDelta(d, first, last) =
         CASE class = "ResyncRequired" ->
              [class |-> class, state |-> [d EXCEPT !.resync = TRUE]]
         [] class = "Contiguous" /\ Crossed(bids, asks) -> [class |-> "Err", state |-> d]
         [] class = "Contiguous" /\ ~Crossed(bids, asks) ->
              [class |-> class,
               state |-> [current |-> last, bids |-> bids, asks |-> asks, resync |-> FALSE]]
         [] OTHER -> [class |-> class, state |-> d]
  BY <1>2, <1>3, <1>5 DEF DepthApplyDelta
<1>7. class = "Contiguous" /\ ~Crossed(bids, asks)
  BY <1>6
<1>8. DepthApplyDelta(d, first, last).state = [current |-> last, bids |-> bids, asks |-> asks, resync |-> FALSE]
  <2>1. PICK e : e = [current |-> last, bids |-> bids, asks |-> asks, resync |-> FALSE]
    OBVIOUS
  <2>2. DepthApplyDelta(d, first, last) = [class |-> class, state |-> e]
    BY <1>6, <1>7, <2>1
  <2> QED
    BY <2>1, <2>2
<1>9. d.current = first - 1 /\ d.current # 0
  <2>1. PICK c : c = d.current
    OBVIOUS
  <2>2. c \in Nat
    BY <2>1 DEF DepthOK, DepthType
  <2>3. first = c + 1 /\ c # 0
    BY <1>2, <1>7, <2>1 DEF ClassifyDeltaRange, NoFeedYet
  <2> QED
    BY <2>1, <2>2, <2>3
<1>10. d.bids \subseteq before.bids /\ d.asks \subseteq before.asks
  BY <1>3, <1>9 DEF DepthOK
<1>11. bids \subseteq after.bids /\ asks \subseteq after.asks
  <2>1. WithUpdates(d.bids, before.bids, after.bids) \subseteq after.bids
    BY <1>10, UpdatesBound
  <2>2. WithUpdates(d.asks, before.asks, after.asks) \subseteq after.asks
    BY <1>10, UpdatesBound
  <2>3. bids \subseteq WithUpdates(d.bids, before.bids, after.bids)
        /\ asks \subseteq WithUpdates(d.asks, before.asks, after.asks)
    BY <1>5, TopIsPart
  <2> QED
    BY <2>1, <2>2, <2>3
<1>12. bids \in SUBSET Levels /\ asks \in SUBSET Levels
  <2>1. after.bids \subseteq Levels /\ after.asks \subseteq Levels
    BY <1>4 DEF VenueStates
  <2> QED
    BY <1>11, <2>1
<1>13. PICK s : s = DepthApplyDelta(d, first, last).state
  OBVIOUS
<1>14. s = [current |-> last, bids |-> bids, asks |-> asks, resync |-> FALSE]
  BY <1>8, <1>13
<1>15. s \in DepthType
  BY <1>1, <1>12, <1>14 DEF DepthType
<1>16. s.current \in 0 .. Len(venue)
  BY <1>1, <1>14
<1>17. DepthOK(venue, s) /\ s.resync = FALSE
  BY <1>3, <1>11, <1>14, <1>15, <1>16 DEF DepthOK
<1> QED
  BY <1>13, <1>17

CandleTaken(o, n, w, R) ==
  /\ R.class \in {"Contiguous", "Err", "ResyncRequired", "Stale", "Duplicate"}
  /\ R.class = "Contiguous" => /\ R.state = [current |-> n, window |-> w, resync |-> FALSE]
                               /\ o.current = 0 \/ n = o.current + 1
  /\ R.class \in {"Stale", "Duplicate"} => R.state = o /\ n <= o.current

LEMMA ApplyCandleIs ==
  ASSUME NEW o \in CandleType, ~o.resync, NEW n \in Nat, NEW w \in Int, NEW fits \in BOOLEAN,
         NEW R, R = ApplyCandle(o, n, w, fits)
  PROVE  CandleTaken(o, n, w, R)
<1>1. PICK c : c = o.current
  OBVIOUS
<1>2. c \in Nat
  BY <1>1 DEF CandleType
<1>3. PICK class : class = IF c = 0 /\ ~o.resync THEN "Contiguous"
                           ELSE IF o.resync THEN "ResyncRequired"
                           ELSE ClassifyDeltaRange([current |-> c, resync |-> FALSE], n, n)
  OBVIOUS
<1>4. R = CASE class = "Contiguous" /\ fits /\ w >= o.window ->
              [class |-> "Contiguous",
               state |-> [current |-> n, window |-> w, resync |-> FALSE]]
         [] class = "Contiguous" /\ ~(fits /\ w >= o.window) ->
              [class |-> "Err", state |-> o]
         [] class = "ResyncRequired" ->
              [class |-> class, state |-> [o EXCEPT !.resync = TRUE]]
         [] OTHER -> [class |-> class, state |-> o]
  BY <1>1, <1>3 DEF ApplyCandle, NoFeedYet
<1>5. class = "Contiguous" => c = 0 \/ n = c + 1
  BY <1>2, <1>3 DEF ClassifyDeltaRange, NoFeedYet
<1>6. class \in {"Stale", "Duplicate"} => n <= c
  BY <1>2, <1>3 DEF ClassifyDeltaRange, NoFeedYet
<1>7. class \in {"Contiguous", "ResyncRequired", "Stale", "Duplicate"}
  BY <1>3 DEF ClassifyDeltaRange
<1>8. CASE class = "Contiguous"
  BY <1>1, <1>4, <1>5, <1>8 DEF CandleTaken
<1>9. CASE class = "ResyncRequired"
  BY <1>4, <1>9 DEF CandleTaken
<1>10. CASE class \in {"Stale", "Duplicate"}
  BY <1>1, <1>4, <1>6, <1>10 DEF CandleTaken
<1> QED
  BY <1>7, <1>8, <1>9, <1>10

(* The queue.                                                              *)

LEMMA LastOrEarlier ==
  ASSUME NEW N \in Nat, NEW k \in Nat, NEW i \in k .. (N + 1)
  PROVE  i = N + 1 \/ i \in k .. N
OBVIOUS

AppendedOK(v, items, it, more) ==
  /\ ItemsOK(v, more) /\ more # <<>> /\ more[Len(more)] = it
  /\ items = <<>> => more[1] = it
  /\ items # <<>> => more[1] = items[1]

LEMMA ItemsAppended ==
  ASSUME NEW v, NEW items, ItemsOK(v, items), NEW it, ItemOK(v, it),
         it.kind # "snapshot" => items = <<>> \/ it.first = items[Len(items)].last + 1,
         NEW more, more = Append(items, it)
  PROVE  AppendedOK(v, items, it, more)
<1>1. items \in Seq(ItemRecords) /\ it \in ItemRecords /\ Len(items) \in Nat
  BY DEF ItemsOK, ItemOK
<1>2. PICK N : N = Len(items)
  OBVIOUS
<1>3. more \in Seq(ItemRecords) /\ Len(more) = N + 1 /\ more[N + 1] = it
      /\ \A i \in 1 .. N : more[i] = items[i]
  BY <1>1, <1>2
<1>4. N \in Nat
  BY <1>1, <1>2
<1>5. ASSUME NEW i \in 1 .. (N + 1) PROVE ItemOK(v, more[i])
  <2>1. CASE i = N + 1
    BY <1>3, <2>1
  <2>2. CASE i \in 1 .. N
    BY <1>2, <1>3, <2>2 DEF ItemsOK
  <2>3. i = N + 1 \/ i \in 1 .. N
    BY <1>4, LastOrEarlier
  <2> QED
    BY <2>1, <2>2, <2>3
<1>6. ASSUME NEW i \in 2 .. (N + 1), more[i].kind # "snapshot"
      PROVE  more[i].first = more[i - 1].last + 1
  <2>1. CASE i = N + 1
    <3>1. N \in 1 .. N /\ i - 1 = N /\ items # <<>>
      BY <1>1, <1>2, <1>4, <2>1
    <3>2. more[i] = it /\ more[i - 1] = items[N]
      BY <1>3, <2>1, <3>1
    <3>3. it.first = items[N].last + 1
      BY <1>2, <1>6, <3>1, <3>2
    <3> QED
      BY <3>2, <3>3
  <2>2. CASE i \in 2 .. N
    <3>1. i \in 1 .. N /\ i - 1 \in 1 .. N
      BY <1>4, <2>2
    <3>2. more[i] = items[i] /\ more[i - 1] = items[i - 1]
      BY <1>3, <3>1
    <3>3. items[i].first = items[i - 1].last + 1
      BY <1>2, <1>6, <2>2, <3>2 DEF ItemsOK, Linked
    <3> QED
      BY <3>2, <3>3
  <2>3. i = N + 1 \/ i \in 2 .. N
    BY <1>4, LastOrEarlier
  <2> QED
    BY <2>1, <2>2, <2>3
<1>7. ItemsOK(v, more)
  BY <1>3, <1>5, <1>6 DEF ItemsOK, Linked
<1>8. more # <<>> /\ more[Len(more)] = it
  BY <1>3, <1>4
<1>9. items = <<>> => more[1] = it
  <2>1. items = <<>> => N = 0
    BY <1>2
  <2> QED
    BY <1>3, <2>1
<1>10. items # <<>> => more[1] = items[1]
  <2>1. items # <<>> => 1 \in 1 .. N
    BY <1>1, <1>2
  <2> QED
    BY <1>3, <2>1
<1> QED
  BY <1>7, <1>8, <1>9, <1>10 DEF AppendedOK

\* The item is the next one, or starts afresh.
Continues(q, it) ==
  it.kind # "snapshot" => q.tracker.current # 0 /\ it.first = q.tracker.current + 1

Enqueued(q, it, u) ==
  u = [q EXCEPT !.tracker = [current |-> it.last, resync |-> FALSE], !.items = Append(@, it)]

LEMMA QueueAppended ==
  ASSUME NEW v, NEW q, NEW r, QueueOK(v, q, r), NEW it, ItemOK(v, it), Continues(q, it),
         NEW u, Enqueued(q, it, u)
  PROVE  QueueOK(v, u, r) /\ u.tracker = [current |-> it.last, resync |-> FALSE]
<1>1. PICK items, c : items = q.items /\ c = q.tracker.current
  OBVIOUS
<1>2. q \in QueueType /\ ItemsOK(v, items) /\ QueueFits(v, r, items, c) /\ c \in Nat
  BY <1>1 DEF QueueOK
<1>3. PICK more : more = Append(items, it)
  OBVIOUS
<1>6. PICK t : t = [current |-> it.last, resync |-> FALSE]
  OBVIOUS
<1>4. it.kind # "snapshot" => items = <<>> \/ it.first = items[Len(items)].last + 1
  BY <1>1, <1>2 DEF QueueFits, Continues
<1>5. /\ ItemsOK(v, more) /\ more # <<>> /\ more[Len(more)] = it
      /\ items = <<>> => more[1] = it
      /\ items # <<>> => more[1] = items[1]
  <2>1. AppendedOK(v, items, it, more)
    BY <1>2, <1>3, <1>4, ItemsAppended
  <2> QED
    BY <2>1 DEF AppendedOK
<1>7. t \in TrackerType /\ t.current = it.last /\ it.last \in 1 .. Len(v) /\ it.first \in Nat
  BY <1>6 DEF TrackerType, ItemOK, ItemRecords
<1>8. u = [q EXCEPT !.tracker = t, !.items = more]
  BY <1>1, <1>3, <1>6 DEF Enqueued
<1>9. more \in Seq(ItemRecords)
  BY <1>5 DEF ItemsOK
<1>10. u \in QueueType /\ u.tracker = t /\ u.items = more
  BY <1>2, <1>7, <1>8, <1>9 DEF QueueType
<1>11. more[1].kind # "snapshot" => HoldsBook(v, r, more[1].first - 1)
  <2>1. SUFFICES ASSUME more[1].kind # "snapshot" PROVE HoldsBook(v, r, more[1].first - 1)
    OBVIOUS
  <2>2. CASE items = <<>>
    <3>1. more[1] = it
      BY <1>5, <2>2
    <3>2. c # 0 /\ it.first = c + 1
      BY <1>1, <2>1, <3>1 DEF Continues
    <3>3. it.first - 1 = c
      BY <1>2, <3>2
    <3>4. HoldsBook(v, r, c)
      BY <1>2, <2>2, <3>2 DEF QueueFits
    <3> QED
      BY <3>1, <3>3, <3>4
  <2>3. CASE items # <<>>
    <3>1. more[1] = items[1]
      BY <1>5, <2>3
    <3> QED
      BY <1>2, <2>1, <2>3, <3>1 DEF QueueFits
  <2> QED
    BY <2>2, <2>3
<1>12. QueueFits(v, r, more, it.last)
  BY <1>5, <1>11 DEF QueueFits
<1>13. u.tracker.current \in 0 .. Len(v)
  BY <1>7, <1>10
<1>14. QueueOK(v, u, r)
  BY <1>5, <1>7, <1>10, <1>12, <1>13 DEF QueueOK
<1> QED
  BY <1>6, <1>10, <1>14

\* What the queue makes of an item that is no snapshot.
EnqueuedAt(v, r, q, it, u) ==
  /\ q.tracker.current # 0
  /\ u.tracker.resync = FALSE
  /\ QueueOK(v, u, r)
  /\ \/ it.first = q.tracker.current + 1 /\ u.tracker.current = it.last
     \/ it.last <= q.tracker.current /\ u.tracker.current = q.tracker.current

LEMMA EnqueueItemIs ==
  ASSUME NEW v, NEW q, NEW r, QueueOK(v, q, r), q.tracker.resync = FALSE, NEW it, ItemOK(v, it),
         it.kind # "snapshot", NEW R, R = EnqueueItem(q, it), R.class # "ResyncRequired"
  PROVE  EnqueuedAt(v, r, q, it, R.queue)
<1>1. PICK t : t = q.tracker
  OBVIOUS
<1>2. t \in TrackerType /\ ~t.resync
  BY <1>1 DEF QueueOK, QueueType
<1>3. PICK c, a, b : c = t.current /\ a = it.first /\ b = it.last
  OBVIOUS
<1>4. c \in Nat /\ a \in Nat /\ b \in Nat
  BY <1>2, <1>3 DEF TrackerType, ItemOK, ItemRecords
<1>5. PICK class : class = ClassifyDeltaRange(t, a, b)
  OBVIOUS
<1>6. R = [class |-> class,
           queue |-> [q EXCEPT !.tracker = ApplyDeltaRange(t, a, b),
                               !.items = IF class = "Contiguous" THEN Append(q.items, it) ELSE q.items]]
  BY <1>1, <1>3, <1>5 DEF EnqueueItem
<1>7. class # "ResyncRequired"
  BY <1>6
<1>8. c # 0 /\ (class = "Contiguous" => a = c + 1) /\ (class \in {"Stale", "Duplicate"} => b <= c)
      /\ class \in {"Contiguous", "Stale", "Duplicate"}
  BY <1>2, <1>3, <1>4, <1>5, <1>7 DEF ClassifyDeltaRange, NoFeedYet
<1>9. CASE class = "Contiguous"
  <2>1. ApplyDeltaRange(t, a, b) = [t EXCEPT !.current = b]
    BY <1>5, <1>9 DEF ApplyDeltaRange
  <2>2. ApplyDeltaRange(t, a, b) = [current |-> b, resync |-> FALSE]
    BY <1>2, <2>1 DEF TrackerType
  <2>3. R.queue = [q EXCEPT !.tracker = [current |-> it.last, resync |-> FALSE],
                            !.items = Append(q.items, it)]
    BY <1>3, <1>6, <1>9, <2>2
  <2>4. q.tracker.current # 0 /\ it.first = q.tracker.current + 1
    BY <1>1, <1>3, <1>8, <1>9
  <2>5. QueueOK(v, R.queue, r) /\ R.queue.tracker = [current |-> it.last, resync |-> FALSE]
    <3>1. PICK u : u = R.queue
      OBVIOUS
    <3>2. Enqueued(q, it, u) /\ Continues(q, it)
      BY <2>3, <2>4, <3>1 DEF Enqueued, Continues
    <3>3. QueueOK(v, u, r) /\ u.tracker = [current |-> it.last, resync |-> FALSE]
      BY <3>2, QueueAppended
    <3> QED
      BY <3>1, <3>3
  <2>6. R.queue.tracker.current = it.last /\ R.queue.tracker.resync = FALSE
    BY <2>5
  <2> QED
    BY <2>4, <2>5, <2>6 DEF EnqueuedAt
<1>10. CASE class \in {"Stale", "Duplicate"}
  <2>1. ApplyDeltaRange(t, a, b) = t
    BY <1>5, <1>10 DEF ApplyDeltaRange
  <2>2. R.queue = [q EXCEPT !.tracker = q.tracker, !.items = q.items]
    <3>1. PICK more : more = IF class = "Contiguous" THEN Append(q.items, it) ELSE q.items
      OBVIOUS
    <3>2. more = q.items
      BY <1>10, <3>1
    <3>3. R = [class |-> class, queue |-> [q EXCEPT !.tracker = t, !.items = more]]
      BY <1>6, <2>1, <3>1
    <3> QED
      BY <1>1, <3>2, <3>3
  <2>3. R.queue = q
    <3>1. q \in QueueType
      BY DEF QueueOK
    <3>2. [q EXCEPT !.tracker = q.tracker, !.items = q.items] = q
      BY <3>1 DEF QueueType
    <3> QED
      BY <2>2, <3>2
  <2>4. it.last <= q.tracker.current /\ q.tracker.current # 0
    BY <1>1, <1>3, <1>8, <1>10
  <2>5. q.tracker.resync = FALSE
    BY <1>1, <1>2 DEF TrackerType
  <2> QED
    BY <2>3, <2>4, <2>5 DEF EnqueuedAt
<1> QED
  BY <1>8, <1>9, <1>10

(* The batcher's steps.                                                    *)

LEMMA Latches ==
  ASSUME NEW v, NEW d, NEW o, NEW q, NEW r, DepthOK(v, d), o \in CandleType, QueueOK(v, q, r),
         NEW e, NEW p, NEW k, e = [d EXCEPT !.resync = TRUE], p = [o EXCEPT !.resync = TRUE],
         k = [q EXCEPT !.tracker.resync = TRUE]
  PROVE  DepthOK(v, e) /\ p \in CandleType /\ QueueOK(v, k, r) /\ InStep(e, p, k)
<1>1. DepthOK(v, e) /\ e.resync = TRUE
  BY DEF DepthOK, DepthType
<1>2. p \in CandleType /\ p.resync = TRUE
  BY DEF CandleType
<1>3. q \in QueueType
  BY DEF QueueOK
<1>4. PICK t : t = q.tracker
  OBVIOUS
<1>5. t \in TrackerType
  BY <1>3, <1>4 DEF QueueType
<1>6. PICK u : u = [t EXCEPT !.resync = TRUE]
  OBVIOUS
<1>7. u \in TrackerType /\ u.current = t.current /\ u.resync = TRUE
  BY <1>5, <1>6 DEF TrackerType
<1>8. k = [q EXCEPT !.tracker = u]
  BY <1>4, <1>6
<1>9. k \in QueueType /\ k.items = q.items /\ k.tracker = u
  BY <1>3, <1>7, <1>8 DEF QueueType
<1>10. QueueOK(v, k, r)
  BY <1>4, <1>7, <1>9 DEF QueueOK
<1>11. k.tracker.resync = TRUE
  BY <1>7, <1>9
<1>12. InStep(e, p, k)
  BY <1>1, <1>2, <1>11 DEF InStep
<1> QED
  BY <1>1, <1>2, <1>10, <1>12

LEMMA BatchLatches ==
  ASSUME BatchInv, TriggerResync, UNCHANGED venue
  PROVE  BatchInv'
<1>1. PICK v, d, o, q, r : v = venue /\ d = depth /\ o = ohlcv /\ q = queue /\ r = replica
  OBVIOUS
<1>2. VenueOK(v) /\ DepthOK(v, d) /\ o \in CandleType /\ QueueOK(v, q, r) /\ ReaderOK(v, r)
  BY <1>1 DEF BatchInv
<1>3. PICK e, p, k : e = [d EXCEPT !.resync = TRUE] /\ p = [o EXCEPT !.resync = TRUE]
                     /\ k = [q EXCEPT !.tracker.resync = TRUE]
  OBVIOUS
<1>4. DepthOK(v, e) /\ p \in CandleType /\ QueueOK(v, k, r) /\ InStep(e, p, k)
  BY <1>2, <1>3, Latches
<1>5. venue' = v /\ depth' = e /\ ohlcv' = p /\ queue' = k /\ replica' = r
  BY <1>1, <1>3 DEF TriggerResync
<1> QED
  BY <1>2, <1>4, <1>5, BatchNextOK

\* What the aggregators and the queue agree on is committed.
LEMMA BatchCommits ==
  ASSUME BatchInv, UNCHANGED venue, NEW outcome, NEW q, Commit(outcome, q),
         DepthOK(venue, outcome.depth), outcome.ohlcv \in CandleType, QueueOK(venue, q, replica),
         outcome.depth.resync = FALSE, outcome.ohlcv.resync = FALSE, q.tracker.resync = FALSE,
         outcome.ohlcv.current = q.tracker.current
  PROVE  BatchInv'
<1>1. PICK v, d, o, r : v = venue /\ d = outcome.depth /\ o = outcome.ohlcv /\ r = replica
  OBVIOUS
<1>2. VenueOK(v) /\ DepthOK(v, d) /\ o \in CandleType /\ QueueOK(v, q, r) /\ ReaderOK(v, r)
  BY <1>1 DEF BatchInv
<1>3. InStep(d, o, q)
  BY <1>1 DEF InStep
<1>4. venue' = v /\ depth' = d /\ ohlcv' = o /\ queue' = q /\ replica' = r
  BY <1>1 DEF Commit
<1> QED
  BY <1>2, <1>3, <1>4, BatchNextOK

LEMMA BatchRests ==
  ASSUME BatchInv, UNCHANGED venue, UNCHANGED batcherVars
  PROVE  BatchInv'
<1>1. PICK v, d, o, q, r : v = venue /\ d = depth /\ o = ohlcv /\ q = queue /\ r = replica
  OBVIOUS
<1>2. VenueOK(v) /\ DepthOK(v, d) /\ o \in CandleType /\ QueueOK(v, q, r) /\ ReaderOK(v, r)
      /\ InStep(d, o, q)
  BY <1>1 DEF BatchInv
<1>3. venue' = v /\ depth' = d /\ ohlcv' = o /\ queue' = q /\ replica' = r
  BY <1>1 DEF batcherVars
<1> QED
  BY <1>2, <1>3, BatchNextOK

\* Unlatched, the two latches of the aggregators and the queue's are all down.
LEMMA Unlatched ==
  ASSUME BatchInv, ~Latched, ~queue.tracker.resync
  PROVE  /\ ohlcv.current = queue.tracker.current /\ ohlcv.current \in Nat
         /\ depth.resync = FALSE /\ ohlcv.resync = FALSE /\ queue.tracker.resync = FALSE
<1>1. depth \in DepthType /\ ohlcv \in CandleType /\ queue \in QueueType
  BY DEF BatchInv, DepthOK, QueueOK
<1>2. ~depth.resync /\ ~ohlcv.resync
  BY DEF Latched
<1>3. depth.resync \in BOOLEAN /\ ohlcv.resync \in BOOLEAN /\ queue.tracker.resync \in BOOLEAN
      /\ ohlcv.current \in Nat
  BY <1>1 DEF DepthType, CandleType, QueueType, TrackerType
<1>4. ohlcv.current = queue.tracker.current
  BY DEF BatchInv, InStep
<1> QED
  BY <1>2, <1>3, <1>4

LEMMA EnqueueSnapshotIs ==
  ASSUME NEW q, NEW it, NEW c \in Nat, NEW n \in Nat, q.tracker.current = c, it.last = n,
         NEW R, R = EnqueueSnapshot(q, it), R.class = "Contiguous", NEW u, u = R.queue
  PROVE  n > c /\ Enqueued(q, it, u)
<1>1. ~(n <= c)
  BY DEF EnqueueSnapshot
<1>2. ApplySnapshotSequence(q.tracker, n) = [current |-> n, resync |-> FALSE]
  BY <1>1 DEF ApplySnapshotSequence
<1>3. u = [q EXCEPT !.tracker = ApplySnapshotSequence(q.tracker, n), !.items = Append(q.items, it)]
  BY <1>1 DEF EnqueueSnapshot
<1> QED
  BY <1>1, <1>2, <1>3 DEF Enqueued

LEMMA BatchSnapshot ==
  ASSUME BatchInv, UNCHANGED venue, NEW n \in Snapshots,
         ApplyEnvelope(AggregateSnapshot(n), Item("snapshot", n, n))
  PROVE  BatchInv'
<1>1. VenueOK(venue)
  BY DEF BatchInv
<1>2. n \in 1 .. Len(venue) /\ n \in Nat /\ n # 0 /\ venue[n] \in VenueStates
  BY <1>1, SnapshotState
<1>3. PICK outcome, it, staged : outcome = AggregateSnapshot(n) /\ it = Item("snapshot", n, n)
                                 /\ staged = EnqueueSnapshot(queue, it)
  OBVIOUS
<1>4. it.kind = "snapshot" /\ it.first = n /\ it.last = n /\ it \in ItemRecords
  BY <1>2, <1>3 DEF Item, ItemRecords
<1>5. ~Latched /\ ~queue.tracker.resync
  BY DEF ApplyEnvelope
<1>6. \/ TriggerResync
      \/ UNCHANGED batcherVars
      \/ outcome.class = "Contiguous" /\ staged.class = "Contiguous" /\ Commit(outcome, staged.queue)
  BY <1>3, <1>4 DEF ApplyEnvelope
<1>7. CASE TriggerResync
  BY <1>7, BatchLatches
<1>8. CASE UNCHANGED batcherVars
  BY <1>8, BatchRests
<1>9. CASE outcome.class = "Contiguous" /\ staged.class = "Contiguous" /\ Commit(outcome, staged.queue)
  <2>1. PICK c : c = queue.tracker.current
    OBVIOUS
  <2>2. /\ ohlcv.current = c /\ c \in Nat
        /\ depth.resync = FALSE /\ ohlcv.resync = FALSE /\ queue.tracker.resync = FALSE
    BY <1>5, <2>1, Unlatched
  <2>5. PICK u, q, r, v : u = staged.queue /\ q = queue /\ r = replica /\ v = venue
    OBVIOUS
  <2>3. n > c /\ Enqueued(q, it, u)
    <3>1. q.tracker.current = c /\ staged = EnqueueSnapshot(q, it)
      BY <1>3, <2>1, <2>5
    <3> QED
      BY <1>2, <1>4, <1>9, <2>2, <2>5, <3>1, EnqueueSnapshotIs
  <2>7. Continues(q, it) /\ ItemOK(v, it) /\ QueueOK(v, q, r)
    BY <1>2, <1>4, <2>5 DEF Continues, ItemOK, BatchInv
  <2>8. QueueOK(v, u, r) /\ u.tracker = [current |-> it.last, resync |-> FALSE]
    BY <2>3, <2>7, QueueAppended
  <2>9. u.tracker.current = n /\ u.tracker.resync = FALSE
    BY <1>4, <2>8
  <2>10. outcome.depth = DepthAt(n) /\ outcome.ohlcv \in CandleType /\ outcome.ohlcv.current = n
         /\ outcome.ohlcv.resync = FALSE
    <3>1. PICK w, sd, candle :
             /\ w = venue[n].window
             /\ sd = DepthApplySnapshot(depth, n)
             /\ candle = IF Latched \/ ohlcv.current = NoFeedYet \/ n > ohlcv.current + 1
                         THEN ResetWithBaseline(ohlcv, n, w)
                         ELSE ApplyCandle(ohlcv, n, w, TRUE)
      OBVIOUS
    <3>2. w \in Int
      BY <1>2, <3>1 DEF VenueStates
    <3>3. outcome = IF sd.class # "Contiguous" THEN Unchanged(sd.class)
                    ELSE IF ~HasMid(sd.state) THEN Unchanged("Err")
                    ELSE IF candle.class \in {"Err", "ResyncRequired"} THEN Unchanged(candle.class)
                    ELSE Outcome("Contiguous", sd.state, candle.state)
      BY <1>3, <3>1 DEF AggregateSnapshot
    <3>4. \A x : Unchanged(x).class = x
      BY DEF Unchanged, Outcome
    <3>5. /\ sd.class = "Contiguous" /\ candle.class \notin {"Err", "ResyncRequired"}
          /\ outcome = Outcome("Contiguous", sd.state, candle.state)
      <4>1. sd.class = "Contiguous"
        BY <1>9, <3>3, <3>4
      <4>2. HasMid(sd.state)
        BY <1>9, <3>3, <3>4, <4>1
      <4>3. candle.class \notin {"Err", "ResyncRequired"}
        BY <1>9, <3>3, <3>4, <4>1, <4>2
      <4> QED
        BY <3>3, <4>1, <4>2, <4>3
    <3>6. outcome.depth = sd.state /\ outcome.ohlcv = candle.state
      BY <3>5 DEF Outcome
    <3>7. sd.state = DepthAt(n)
      BY <3>1, <3>5 DEF DepthApplySnapshot
    <3>8. candle.state = [current |-> n, window |-> w, resync |-> FALSE]
      <4>1. PICK o : o = ohlcv
        OBVIOUS
      <4>2. o \in CandleType /\ ~o.resync /\ o.current = c
        BY <2>2, <4>1 DEF BatchInv
      <4>3. CASE c = 0 \/ n > c + 1
        <5>1. candle = ResetWithBaseline(o, n, w)
          BY <2>2, <3>1, <4>1, <4>3 DEF NoFeedYet
        <5>2. ~(n <= o.current)
          BY <1>2, <2>2, <2>3, <4>2
        <5> QED
          BY <5>1, <5>2 DEF ResetWithBaseline
      <4>4. CASE ~(c = 0 \/ n > c + 1)
        <5>1. candle = ApplyCandle(o, n, w, TRUE)
          BY <1>5, <2>2, <3>1, <4>1, <4>4 DEF NoFeedYet
        <5>2. candle.class \in {"Contiguous", "Err", "ResyncRequired", "Stale", "Duplicate"}
              /\ (candle.class = "Contiguous" =>
                    candle.state = [current |-> n, window |-> w, resync |-> FALSE])
              /\ (candle.class \in {"Stale", "Duplicate"} => n <= o.current)
          <6>1. CandleTaken(o, n, w, candle)
            BY <1>2, <3>2, <4>2, <5>1, ApplyCandleIs
          <6> QED
            BY <6>1 DEF CandleTaken
        <5>3. ~(n <= o.current)
          BY <1>2, <2>2, <2>3, <4>2
        <5> QED
          BY <3>5, <5>2, <5>3
      <4> QED
        BY <4>3, <4>4
    <3> QED
      BY <1>2, <3>2, <3>6, <3>7, <3>8 DEF CandleType
  <2>11. DepthOK(venue, DepthAt(n)) /\ DepthAt(n).resync = FALSE
    BY <1>1, <1>2, DepthAtOK
  <2>12. Commit(outcome, u) /\ QueueOK(venue, u, replica)
    BY <1>9, <2>5, <2>8
  <2> QED
    BY <2>9, <2>10, <2>11, <2>12, BatchCommits
<1> QED
  BY <1>6, <1>7, <1>8, <1>9

\* The queue's answer, and the candle's, to the update that the book accepted.
Counted(c, first, last, m) ==
  \/ first = c + 1 /\ m = last
  \/ last <= c /\ m = c

CandleAt(o, m) == o \in CandleType /\ o.current = m /\ o.resync = FALSE

LEMMA TickFits ==
  ASSUME NEW c \in Nat, NEW first \in Nat, NEW last \in Nat, NEW m \in Nat, NEW w \in Int,
         NEW o, CandleAt(o, c), c # 0, first <= last, Counted(c, first, last, m),
         NEW tick, CandleTaken(o, last, w, tick), tick.class \notin {"Err", "ResyncRequired"}
  PROVE  CandleAt(tick.state, m)
<1>1. tick.class \in {"Contiguous", "Stale", "Duplicate"}
  BY DEF CandleTaken
<1>2. CASE tick.class = "Contiguous"
  <2>1. tick.state = [current |-> last, window |-> w, resync |-> FALSE] /\ last = c + 1
    BY <1>2 DEF CandleTaken, CandleAt
  <2>2. m = last
    BY <2>1 DEF Counted
  <2> QED
    BY <2>1, <2>2 DEF CandleType, CandleAt
<1>3. CASE tick.class \in {"Stale", "Duplicate"}
  <2>1. tick.state = o /\ last <= c
    BY <1>3 DEF CandleTaken, CandleAt
  <2>2. m = c
    BY <2>1 DEF Counted
  <2> QED
    BY <2>1, <2>2
<1> QED
  BY <1>1, <1>2, <1>3

\* What an unlatched batcher with room does with an item that is no snapshot.
LEMMA NoSnapshotCases ==
  ASSUME NEW outcome, NEW it, it.kind # "snapshot", ApplyEnvelope(outcome, it)
  PROVE  \/ TriggerResync
         \/ UNCHANGED batcherVars
         \/ /\ outcome.class = "Contiguous"
            /\ EnqueueItem(queue, it).class # "ResyncRequired"
            /\ Commit(outcome, EnqueueItem(queue, it).queue)
BY DEF ApplyEnvelope

LEMMA BatchDelta ==
  ASSUME BatchInv, UNCHANGED venue, NEW first \in 2 .. Len(venue), NEW last \in 2 .. Len(venue),
         first <= last, ApplyEnvelope(AggregateDelta(first, last), Item("delta", first, last))
  PROVE  BatchInv'
<1>1. VenueOK(venue)
  BY DEF BatchInv
<1>2. Len(venue) \in Nat /\ first \in 1 .. Len(venue) /\ last \in 1 .. Len(venue) /\ first # 1
      /\ first \in Nat /\ last \in Nat /\ venue[last] \in VenueStates
  BY <1>1 DEF VenueOK
<1>3. PICK outcome, it, staged : outcome = AggregateDelta(first, last) /\ it = Item("delta", first, last)
                                 /\ staged = EnqueueItem(queue, it)
  OBVIOUS
<1>4. it.kind = "delta" /\ it.first = first /\ it.last = last /\ it \in ItemRecords
  BY <1>2, <1>3 DEF Item, ItemRecords
<1>5. ~Latched /\ ~queue.tracker.resync
  BY DEF ApplyEnvelope
<1>6. \/ TriggerResync
      \/ UNCHANGED batcherVars
      \/ /\ outcome.class = "Contiguous" /\ staged.class # "ResyncRequired"
         /\ Commit(outcome, staged.queue)
  BY <1>3, <1>4, NoSnapshotCases
<1>7. CASE TriggerResync
  BY <1>7, BatchLatches
<1>8. CASE UNCHANGED batcherVars
  BY <1>8, BatchRests
<1>9. CASE outcome.class = "Contiguous" /\ staged.class # "ResyncRequired" /\ Commit(outcome, staged.queue)
  <2>1. PICK c, u, q, r, v : c = queue.tracker.current /\ u = staged.queue /\ q = queue
                             /\ r = replica /\ v = venue
    OBVIOUS
  <2>2. /\ ohlcv.current = c /\ c \in Nat
        /\ depth.resync = FALSE /\ ohlcv.resync = FALSE /\ queue.tracker.resync = FALSE
    BY <1>5, <2>1, Unlatched
  <2>3. ItemOK(v, it) /\ QueueOK(v, q, r)
    BY <1>2, <1>4, <2>1 DEF ItemOK, BatchInv
  <2>4. EnqueuedAt(v, r, q, it, u)
    <3>1. staged = EnqueueItem(q, it) /\ q.tracker.resync = FALSE /\ it.kind # "snapshot"
      BY <1>3, <1>4, <2>1, <2>2
    <3>2. EnqueuedAt(v, r, q, it, staged.queue)
      BY <1>9, <2>3, <3>1, EnqueueItemIs
    <3> QED
      BY <2>1, <3>2
  <2>5. PICK m : m = u.tracker.current
    OBVIOUS
  <2>6. /\ c # 0 /\ u.tracker.resync = FALSE /\ QueueOK(v, u, r)
        /\ \/ first = c + 1 /\ m = last
           \/ last <= c /\ m = c
    BY <1>4, <2>1, <2>4, <2>5 DEF EnqueuedAt
  <2>7. PICK w, sd, tick : /\ w = venue[last].window
                           /\ sd = DepthApplyDelta(depth, first, last)
                           /\ tick = ApplyCandle(ohlcv, last, w, TRUE)
    OBVIOUS
  <2>8. w \in Int
    BY <1>2, <2>7 DEF VenueStates
  <2>9. outcome = IF sd.class = "ResyncRequired"
                  THEN Outcome("ResyncRequired", sd.state, [ohlcv EXCEPT !.resync = TRUE])
                  ELSE IF sd.class # "Contiguous" THEN Unchanged(sd.class)
                  ELSE IF ~HasMid(sd.state) THEN Unchanged("Err")
                  ELSE IF tick.class \in {"Err", "ResyncRequired"} THEN Unchanged(tick.class)
                  ELSE Outcome("Contiguous", sd.state, tick.state)
    BY <1>3, <1>5, <2>7 DEF AggregateDelta
  <2>10. /\ \A x : Unchanged(x).class = x
         /\ \A x, y, z : Outcome(x, y, z).class = x
    BY DEF Unchanged, Outcome
  <2>11. /\ sd.class = "Contiguous" /\ tick.class \notin {"Err", "ResyncRequired"}
         /\ outcome = Outcome("Contiguous", sd.state, tick.state)
    <3>1. sd.class # "ResyncRequired"
      BY <1>9, <2>9, <2>10
    <3>2. sd.class = "Contiguous"
      BY <1>9, <2>9, <2>10, <3>1
    <3>3. HasMid(sd.state)
      BY <1>9, <2>9, <2>10, <3>2
    <3>4. tick.class \notin {"Err", "ResyncRequired"}
      BY <1>9, <2>9, <2>10, <3>2, <3>3
    <3> QED
      BY <2>9, <3>2, <3>3, <3>4
  <2>12. outcome.depth = sd.state /\ outcome.ohlcv = tick.state
    BY <2>11 DEF Outcome
  <2>13. DepthOK(venue, sd.state) /\ sd.state.resync = FALSE
    <3>1. DepthOK(venue, depth)
      BY DEF BatchInv
    <3>2. DepthApplyDelta(depth, first, last).class = "Contiguous"
      BY <2>7, <2>11
    <3>3. /\ DepthOK(venue, DepthApplyDelta(depth, first, last).state)
          /\ DepthApplyDelta(depth, first, last).state.resync = FALSE
      BY <1>1, <3>1, <3>2, DepthDeltaOK
    <3> QED
      BY <2>7, <3>3
  <2>14. tick.state \in CandleType /\ tick.state.current = m /\ tick.state.resync = FALSE
    <3>1. PICK o : o = ohlcv
      OBVIOUS
    <3>2. o \in CandleType /\ o.current = c /\ o.resync = FALSE /\ ~o.resync
          /\ tick = ApplyCandle(o, last, w, TRUE)
      BY <2>2, <2>7, <3>1 DEF BatchInv
    <3>3. CandleTaken(o, last, w, tick)
      BY <1>2, <2>8, <3>2, ApplyCandleIs
    <3>4. m \in Nat /\ Counted(c, first, last, m) /\ CandleAt(o, c) /\ c # 0
      BY <1>2, <2>2, <2>6, <3>2 DEF Counted, CandleAt
    <3>5. CandleAt(tick.state, m)
      BY <1>2, <2>2, <2>8, <2>11, <3>3, <3>4, TickFits
    <3> QED
      BY <3>5 DEF CandleAt
  <2>15. Commit(outcome, u) /\ QueueOK(venue, u, replica)
    BY <1>9, <2>1, <2>6
  <2> QED
    BY <2>5, <2>6, <2>12, <2>13, <2>14, <2>15, BatchCommits
<1> QED
  BY <1>6, <1>7, <1>8, <1>9

LEMMA BatchCandle ==
  ASSUME BatchInv, UNCHANGED venue, NEW n \in 1 .. Len(venue), venue[n].kind = "candle",
         NEW w \in Int, NEW fits \in BOOLEAN,
         ApplyEnvelope(AggregateCandle(n, w, fits), Item("candle", n, n))
  PROVE  BatchInv'
<1>1. VenueOK(venue)
  BY DEF BatchInv
<1>2. Len(venue) \in Nat /\ n \in Nat
  BY <1>1 DEF VenueOK
<1>3. PICK outcome, it, staged : outcome = AggregateCandle(n, w, fits) /\ it = Item("candle", n, n)
                                 /\ staged = EnqueueItem(queue, it)
  OBVIOUS
<1>4. it.kind = "candle" /\ it.first = n /\ it.last = n /\ it \in ItemRecords
  BY <1>2, <1>3 DEF Item, ItemRecords
<1>5. ~Latched /\ ~queue.tracker.resync
  BY DEF ApplyEnvelope
<1>6. \/ TriggerResync
      \/ UNCHANGED batcherVars
      \/ /\ outcome.class = "Contiguous" /\ staged.class # "ResyncRequired"
         /\ Commit(outcome, staged.queue)
  BY <1>3, <1>4, NoSnapshotCases
<1>7. CASE TriggerResync
  BY <1>7, BatchLatches
<1>8. CASE UNCHANGED batcherVars
  BY <1>8, BatchRests
<1>9. CASE outcome.class = "Contiguous" /\ staged.class # "ResyncRequired" /\ Commit(outcome, staged.queue)
  <2>1. PICK c, u, q, r, v : c = queue.tracker.current /\ u = staged.queue /\ q = queue
                             /\ r = replica /\ v = venue
    OBVIOUS
  <2>2. /\ ohlcv.current = c /\ c \in Nat
        /\ depth.resync = FALSE /\ ohlcv.resync = FALSE /\ queue.tracker.resync = FALSE
    BY <1>5, <2>1, Unlatched
  <2>3. ItemOK(v, it) /\ QueueOK(v, q, r)
    BY <1>2, <1>4, <2>1 DEF ItemOK, BatchInv
  <2>4. EnqueuedAt(v, r, q, it, u)
    <3>1. staged = EnqueueItem(q, it) /\ q.tracker.resync = FALSE /\ it.kind # "snapshot"
      BY <1>3, <1>4, <2>1, <2>2
    <3>2. EnqueuedAt(v, r, q, it, staged.queue)
      BY <1>9, <2>3, <3>1, EnqueueItemIs
    <3> QED
      BY <2>1, <3>2
  <2>5. PICK m : m = u.tracker.current
    OBVIOUS
  <2>6. /\ c # 0 /\ u.tracker.resync = FALSE /\ QueueOK(v, u, r)
        /\ \/ n = c + 1 /\ m = n
           \/ n <= c /\ m = c
    BY <1>4, <2>1, <2>4, <2>5 DEF EnqueuedAt
  <2>7. PICK tick : tick = ApplyCandle(ohlcv, n, w, fits)
    OBVIOUS
  <2>8. outcome = IF tick.class = "ResyncRequired"
                  THEN Outcome("ResyncRequired", [depth EXCEPT !.resync = TRUE],
                               [ohlcv EXCEPT !.resync = TRUE])
                  ELSE Outcome(tick.class, depth, tick.state)
    BY <1>3, <1>5, <2>7 DEF AggregateCandle
  <2>9. \A x, y, z : Outcome(x, y, z).class = x
    BY DEF Outcome
  <2>10. tick.class = "Contiguous" /\ outcome = Outcome("Contiguous", depth, tick.state)
    <3>1. tick.class # "ResyncRequired"
      BY <1>9, <2>8, <2>9
    <3>2. tick.class = "Contiguous"
      BY <1>9, <2>8, <2>9, <3>1
    <3> QED
      BY <2>8, <3>1, <3>2
  <2>11. outcome.depth = depth /\ outcome.ohlcv = tick.state
    BY <2>10 DEF Outcome
  <2>12. tick.state \in CandleType /\ tick.state.current = m /\ tick.state.resync = FALSE
    <3>1. PICK o : o = ohlcv
      OBVIOUS
    <3>2. o \in CandleType /\ o.current = c /\ o.resync = FALSE /\ ~o.resync
          /\ tick = ApplyCandle(o, n, w, fits)
      BY <2>2, <2>7, <3>1 DEF BatchInv
    <3>3. CandleTaken(o, n, w, tick)
      BY <1>2, <3>2, ApplyCandleIs
    <3>4. m \in Nat /\ n <= n /\ Counted(c, n, n, m) /\ CandleAt(o, c) /\ c # 0
      BY <1>2, <2>2, <2>6, <3>2 DEF Counted, CandleAt
    <3>5. tick.class \notin {"Err", "ResyncRequired"}
      BY <2>10
    <3>6. CandleAt(tick.state, m)
      BY <1>2, <2>2, <3>3, <3>4, <3>5, TickFits
    <3> QED
      BY <3>6 DEF CandleAt
  <2>13. Commit(outcome, u) /\ QueueOK(venue, u, replica) /\ DepthOK(venue, depth)
    BY <1>9, <2>1, <2>6 DEF BatchInv
  <2> QED
    BY <2>2, <2>5, <2>6, <2>11, <2>12, <2>13, BatchCommits
<1> QED
  BY <1>6, <1>7, <1>8, <1>9

LEMMA OneItem ==
  ASSUME NEW v, NEW it, ItemOK(v, it), NEW s, s = <<it>>
  PROVE  ItemsOK(v, s) /\ s # <<>> /\ Len(s) = 1 /\ s[1] = it
<1>1. it \in ItemRecords
  BY DEF ItemOK
<1>2. s \in Seq(ItemRecords) /\ Len(s) = 1 /\ s[1] = it /\ s # <<>>
  BY <1>1
<1>3. \A i \in 1 .. 1 : i = 1
  OBVIOUS
<1>4. \A i \in 2 .. 1 : FALSE
  OBVIOUS
<1>5. \A i \in 1 .. Len(s) : ItemOK(v, s[i])
  BY <1>2, <1>3
<1>6. Linked(s)
  BY <1>2, <1>4 DEF Linked
<1> QED
  BY <1>2, <1>5, <1>6 DEF ItemsOK

LEMMA BatchIsReset ==
  ASSUME BatchInv, UNCHANGED venue, NEW n \in Snapshots, ResetBatcher(n)
  PROVE  BatchInv'
<1>1. VenueOK(venue)
  BY DEF BatchInv
<1>2. n \in 1 .. Len(venue) /\ n \in Nat /\ n # 0 /\ venue[n] \in VenueStates /\ Len(venue) \in Nat
  BY <1>1, SnapshotState DEF VenueOK
<1>3. PICK w, candle, it, u :
        /\ w = venue[n].window
        /\ candle = ResetWithBaseline(ohlcv, n, w)
        /\ it = Item("snapshot", n, n)
        /\ u = [queue EXCEPT !.tracker = [current |-> n, resync |-> FALSE],
                             !.items = << it >>, !.inFlight = <<>>]
  OBVIOUS
<1>4. candle.class # "Err" /\ Commit(Outcome("Contiguous", DepthAt(n), candle.state), u)
  BY <1>3 DEF ResetBatcher
<1>5. PICK outcome : outcome = Outcome("Contiguous", DepthAt(n), candle.state)
  OBVIOUS
<1>6. candle.state = [current |-> n, window |-> w, resync |-> FALSE]
  BY <1>3, <1>4 DEF ResetWithBaseline
<1>7. w \in Int
  BY <1>2, <1>3 DEF VenueStates
<1>8. outcome.depth = DepthAt(n) /\ outcome.ohlcv = candle.state
  BY <1>5 DEF Outcome
<1>9. candle.state \in CandleType /\ candle.state.current = n /\ candle.state.resync = FALSE
  BY <1>2, <1>6, <1>7 DEF CandleType
<1>10. DepthOK(venue, DepthAt(n)) /\ DepthAt(n).resync = FALSE
  BY <1>1, <1>2, DepthAtOK
<1>11. it.kind = "snapshot" /\ it.last = n /\ ItemOK(venue, it)
  BY <1>2, <1>3 DEF Item, ItemRecords, ItemOK
<1>12. PICK v, s, e, t, q : v = venue /\ s = <<it>> /\ e = <<>> /\ t = [current |-> n, resync |-> FALSE]
                            /\ q = queue
  OBVIOUS
<1>13. ItemsOK(v, s) /\ s # <<>> /\ Len(s) = 1 /\ s[1] = it
  BY <1>11, <1>12, OneItem
<1>14. e \in Seq(ItemRecords) /\ s \in Seq(ItemRecords)
  BY <1>12, <1>13, EmptySeq DEF ItemsOK
<1>15. t \in TrackerType /\ t.current = n /\ t.resync = FALSE
  BY <1>2, <1>12 DEF TrackerType
<1>16. u = [q EXCEPT !.tracker = t, !.items = s, !.inFlight = e] /\ q \in QueueType
  BY <1>3, <1>12 DEF BatchInv, QueueOK
<1>17. u \in QueueType /\ u.tracker = t /\ u.items = s
  <2> HIDE <1>12
  <2> QED
    BY <1>14, <1>15, <1>16 DEF QueueType
<1>18. QueueFits(v, replica, s, n)
  BY <1>11, <1>13 DEF QueueFits
<1>19. QueueOK(v, u, replica)
  BY <1>2, <1>12, <1>13, <1>15, <1>17, <1>18 DEF QueueOK
<1>20. u.tracker.resync = FALSE /\ u.tracker.current = n
  BY <1>15, <1>17
<1> QED
  BY <1>4, <1>5, <1>8, <1>9, <1>10, <1>12, <1>19, <1>20, BatchCommits

LEMMA BatchAcknowledges ==
  ASSUME BatchInv, UNCHANGED venue, NEW id, Acknowledge(id)
  PROVE  BatchInv'
<1>1. PICK v, d, o, q, r : v = venue /\ d = depth /\ o = ohlcv /\ q = queue /\ r = replica
  OBVIOUS
<1>2. VenueOK(v) /\ DepthOK(v, d) /\ o \in CandleType /\ QueueOK(v, q, r) /\ ReaderOK(v, r)
      /\ InStep(d, o, q)
  BY <1>1 DEF BatchInv
<1>3. PICK u, e : u = [q EXCEPT !.inFlight = e] /\ e = <<>>
  OBVIOUS
<1>4. e \in Seq(ItemRecords)
  BY <1>3, EmptySeq
<1>5. u \in QueueType /\ u.items = q.items /\ u.tracker = q.tracker
  BY <1>2, <1>3, <1>4 DEF QueueOK, QueueType
<1>6. QueueOK(v, u, r) /\ InStep(d, o, u)
  BY <1>2, <1>5 DEF QueueOK, InStep
<1>7. venue' = v /\ depth' = d /\ ohlcv' = o /\ queue' = u /\ replica' = r
  BY <1>1, <1>3 DEF Acknowledge
<1> QED
  BY <1>2, <1>6, <1>7, BatchNextOK

\* The first k items are handed out: the rest still fits what the reader then holds.
SplitAt(v, items, N, k, head, rest) ==
  /\ ItemsOK(v, head) /\ Len(head) = k /\ head[1] = items[1] /\ head[k] = items[k]
  /\ ItemsOK(v, rest) /\ Len(rest) = N - k
  /\ \A i \in 1 .. (N - k) : rest[i] = items[k + i]

LEMMA ItemsSplit ==
  ASSUME NEW v, NEW items, ItemsOK(v, items), NEW N, N = Len(items), NEW k \in 1 .. N,
         NEW head, head = SubSeq(items, 1, k), NEW rest, rest = SubSeq(items, k + 1, N)
  PROVE  SplitAt(v, items, N, k, head, rest)
<1>1. items \in Seq(ItemRecords) /\ N \in Nat /\ k \in Nat /\ k <= N /\ 1 <= k
  BY DEF ItemsOK
<1>2. head \in Seq(ItemRecords) /\ Len(head) = k /\ \A i \in 1 .. k : head[i] = items[i]
  BY <1>1
<1>3. rest \in Seq(ItemRecords) /\ Len(rest) = N - k /\ \A i \in 1 .. (N - k) : rest[i] = items[k + i]
  BY <1>1
<1>4. ItemsOK(v, head)
  <2>1. ASSUME NEW i \in 1 .. k PROVE ItemOK(v, head[i])
    <3>1. i \in 1 .. N /\ head[i] = items[i]
      BY <1>1, <1>2
    <3> QED
      BY <3>1 DEF ItemsOK
  <2>2. ASSUME NEW i \in 2 .. k, head[i].kind # "snapshot" PROVE head[i].first = head[i - 1].last + 1
    <3>1. i \in 2 .. N /\ i \in 1 .. k /\ i - 1 \in 1 .. k
      BY <1>1
    <3>2. head[i] = items[i] /\ head[i - 1] = items[i - 1]
      BY <1>2, <3>1
    <3>3. items[i].first = items[i - 1].last + 1
      BY <2>2, <3>1, <3>2 DEF ItemsOK, Linked
    <3> QED
      BY <3>2, <3>3
  <2> QED
    BY <1>2, <2>1, <2>2 DEF ItemsOK, Linked
<1>5. ItemsOK(v, rest)
  <2>0. PICK M : M = N - k
    OBVIOUS
  <2>1. ASSUME NEW i \in 1 .. M PROVE ItemOK(v, rest[i])
    <3>1. PICK j : j = k + i
      OBVIOUS
    <3>2. j \in 1 .. N /\ rest[i] = items[j]
      BY <1>1, <1>3, <2>0, <3>1
    <3> QED
      BY <3>2 DEF ItemsOK
  <2>2. ASSUME NEW i \in 2 .. M, rest[i].kind # "snapshot" PROVE rest[i].first = rest[i - 1].last + 1
    <3>1. PICK j : j = k + i
      OBVIOUS
    <3>2. j \in 2 .. N /\ i \in 1 .. M /\ i - 1 \in 1 .. M /\ j - 1 = k + (i - 1)
      BY <1>1, <2>0, <3>1
    <3>3. rest[i] = items[j] /\ rest[i - 1] = items[j - 1]
      BY <1>3, <2>0, <3>1, <3>2
    <3>4. items[j].first = items[j - 1].last + 1
      BY <2>2, <3>2, <3>3 DEF ItemsOK, Linked
    <3> QED
      BY <3>3, <3>4
  <2>3. Len(rest) = M
    BY <1>3, <2>0
  <2> QED
    BY <1>3, <2>1, <2>2, <2>3 DEF ItemsOK, Linked
<1>6. head[1] = items[1] /\ head[k] = items[k]
  BY <1>1, <1>2
<1> QED
  BY <1>2, <1>3, <1>4, <1>5, <1>6 DEF SplitAt

LeavesSome(N, k, M) ==
  /\ M \in Nat /\ M # 0 /\ 1 \in 1 .. M /\ M \in 1 .. M /\ k + M = N
  /\ k + 1 \in 2 .. N /\ (k + 1) - 1 = k

LEMMA Remainder ==
  ASSUME NEW N \in Nat, NEW k \in Nat, k <= N, k # N, k # 0, NEW M, M = N - k
  PROVE  LeavesSome(N, k, M)
BY DEF LeavesSome

\* What is left of a queue after k of its N items begins with the next one and ends where the queue
\* ended.
LEMMA RestEnds ==
  ASSUME NEW items, NEW rest, NEW N \in Nat, NEW k \in Nat, NEW M \in Nat, k + M = N,
         1 \in 1 .. M, M \in 1 .. M, \A i \in 1 .. M : rest[i] = items[k + i]
  PROVE  rest[1] = items[k + 1] /\ rest[M] = items[N]
OBVIOUS

LEMMA StartsAlike ==
  ASSUME NEW v, NEW r, NEW items, NEW head, head[1] = items[1],
         items[1].kind # "snapshot" => HoldsBook(v, r, items[1].first - 1)
  PROVE  StartsFrom(v, r, head)
BY DEF StartsFrom

LEMMA SameAtMost ==
  ASSUME NEW k \in Nat
  PROVE  k <= k
OBVIOUS

HandedTo(q, rest, fl, id, u) == u = [q EXCEPT !.items = rest, !.inFlight = fl, !.nextId = id]

\* What the reader holds, and what is left, after the first k items.
HandingOut(v, q, r, N, k, head, rest, f) ==
  /\ VenueOK(v) /\ QueueOK(v, q, r)
  /\ N = Len(q.items) /\ k \in 1 .. N
  /\ head = SubSeq(q.items, 1, k) /\ rest = SubSeq(q.items, k + 1, N)
  /\ AbsorbUpTo(v, f, r, head, k)

LEMMA HandedOut ==
  ASSUME NEW v, NEW q, NEW r, NEW N, NEW k, NEW head, NEW rest, NEW f,
         HandingOut(v, q, r, N, k, head, rest, f),
         NEW fl \in Seq(ItemRecords), NEW id \in Nat,
         NEW u, HandedTo(q, rest, fl, id, u)
  PROVE  QueueOK(v, u, f[k]) /\ ReaderOK(v, f[k]) /\ u.tracker = q.tracker
<1>0. VenueOK(v) /\ AbsorbUpTo(v, f, r, head, k)
  BY DEF HandingOut
<1>1. PICK items, c : items = q.items /\ c = q.tracker.current
  OBVIOUS
<1>2. q \in QueueType /\ ItemsOK(v, items) /\ QueueFits(v, r, items, c) /\ c \in 0 .. Len(v)
  BY <1>1 DEF QueueOK, HandingOut
<1>3. /\ N = Len(items) /\ head = SubSeq(items, 1, k) /\ rest = SubSeq(items, k + 1, N)
      /\ k \in 1 .. N
  BY <1>1 DEF HandingOut
<1>4. /\ ItemsOK(v, head) /\ Len(head) = k /\ head[1] = items[1] /\ head[k] = items[k]
      /\ ItemsOK(v, rest) /\ Len(rest) = N - k
      /\ \A i \in 1 .. (N - k) : rest[i] = items[k + i]
  <2>1. SplitAt(v, items, N, k, head, rest)
    BY <1>2, <1>3, ItemsSplit
  <2> QED
    BY <2>1 DEF SplitAt
<1>5. N \in Nat /\ k \in Nat /\ k # 0 /\ k <= N /\ items # <<>>
  BY <1>2, <1>3 DEF ItemsOK
<1>6. items[1].kind # "snapshot" => HoldsBook(v, r, items[1].first - 1)
  BY <1>2, <1>5 DEF QueueFits
<1>7. HoldsBook(v, f[k], items[k].last)
  <2>1. StartsFrom(v, r, head)
    BY <1>4, <1>6, StartsAlike
  <2>2. k \in Nat /\ k # 0 /\ k <= k /\ k = Len(head) /\ ItemsOK(v, head)
    BY <1>4, <1>5, SameAtMost
  <2>3. HoldsBook(v, f[k], head[k].last)
    BY <1>0, <2>1, <2>2, AbsorbHolds
  <2> QED
    BY <1>4, <2>3
<1>8. ReaderOK(v, f[k])
  BY <1>7 DEF HoldsBook, ReaderOK
<1>9. ItemOK(v, items[k]) /\ items[k].last \in Nat
  <2>1. ItemOK(v, items[k])
    BY <1>2, <1>3, <1>5 DEF ItemsOK
  <2> QED
    BY <2>1 DEF ItemOK, ItemRecords
<1>10. items[N].last = c
  BY <1>2, <1>3, <1>5 DEF QueueFits
<1>11. QueueFits(v, f[k], rest, c)
  <2>1. CASE k = N
    <3>1. rest = <<>>
      <4>1. Len(rest) = 0 /\ rest \in Seq(ItemRecords)
        BY <1>4, <1>5, <2>1 DEF ItemsOK
      <4> QED
        BY <4>1
    <3>2. HoldsBook(v, f[k], c)
      BY <1>7, <1>10, <2>1
    <3> QED
      BY <3>1, <3>2 DEF QueueFits
  <2>2. CASE k # N
    <3>1. PICK M : M = N - k
      OBVIOUS
    <3>2. M \in Nat /\ M # 0 /\ 1 \in 1 .. M /\ M \in 1 .. M /\ k + 1 \in 2 .. N /\ k + M = N
          /\ (k + 1) - 1 = k
      <4>1. LeavesSome(N, k, M)
        BY <1>5, <2>2, <3>1, Remainder
      <4> QED
        BY <4>1 DEF LeavesSome
    <3>3. Len(rest) = M /\ rest[1] = items[k + 1] /\ rest[M] = items[N]
      <4>1. \A i \in 1 .. M : rest[i] = items[k + i]
        BY <1>4, <3>1
      <4>2. rest[1] = items[k + 1] /\ rest[M] = items[N]
        BY <1>5, <3>2, <4>1, RestEnds
      <4> QED
        BY <1>4, <3>1, <4>2
    <3>4. rest # <<>>
      BY <3>2, <3>3
    <3>5. rest[Len(rest)].last = c
      BY <1>10, <3>3
    <3>6. ASSUME rest[1].kind # "snapshot" PROVE HoldsBook(v, f[k], rest[1].first - 1)
      <4>1. PICK j : j = k + 1
        OBVIOUS
      <4>2. j \in 2 .. Len(items) /\ j - 1 = k /\ items[j].kind # "snapshot"
        BY <1>3, <3>2, <3>3, <3>6, <4>1
      <4>3. items[j].first = items[j - 1].last + 1
        BY <1>2, <4>2 DEF ItemsOK, Linked
      <4>4. items[j].first - 1 = items[k].last
        BY <1>9, <4>2, <4>3
      <4>5. rest[1] = items[j]
        BY <3>3, <4>1
      <4> QED
        BY <1>7, <4>4, <4>5
    <3> QED
      BY <3>4, <3>5, <3>6 DEF QueueFits
  <2> QED
    BY <2>1, <2>2
<1>12. rest \in Seq(ItemRecords)
  BY <1>4 DEF ItemsOK
<1>13. u \in QueueType /\ u.items = rest /\ u.tracker = q.tracker
  BY <1>2, <1>12 DEF QueueType, HandedTo
<1>14. QueueOK(v, u, f[k])
  BY <1>1, <1>2, <1>4, <1>11, <1>13 DEF QueueOK
<1> QED
  BY <1>8, <1>13, <1>14

LEMMA BatchHandsOut ==
  ASSUME BatchInv, UNCHANGED venue, Ready, NEW fl \in Seq(ItemRecords), HandOut(fl)
  PROVE  BatchInv'
<1>1. PICK v, d, o, q, r : v = venue /\ d = depth /\ o = ohlcv /\ q = queue /\ r = replica
  OBVIOUS
<1>2. VenueOK(v) /\ DepthOK(v, d) /\ o \in CandleType /\ QueueOK(v, q, r) /\ InStep(d, o, q)
  BY <1>1 DEF BatchInv
<1>3. PICK N, k : N = Len(q.items) /\ k = NextBatchSize
  OBVIOUS
<1>4. q \in QueueType /\ q.items \in Seq(ItemRecords) /\ q.items # <<>> /\ q.nextId \in Nat
  BY <1>1, <1>2 DEF QueueOK, QueueType, Ready
<1>5. N \in Nat /\ N # 0
  BY <1>3, <1>4
<1>6. k \in 1 .. N
  BY <1>1, <1>3, <1>5, BatchAssumption DEF NextBatchSize
<1>7. PICK head, rest : head = SubSeq(q.items, 1, k) /\ rest = SubSeq(q.items, k + 1, N)
  OBVIOUS
<1>8. Len(head) = k /\ k \in Nat
  BY <1>3, <1>4, <1>5, <1>6, <1>7
<1>9. PICK f : AbsorbUpTo(v, f, r, head, k) /\ AbsorbAll(r, head) = f[k]
  <2>1. \E f : AbsorbUpTo(venue, f, r, head, Len(head)) /\ AbsorbAll(r, head) = f[Len(head)]
    BY <1>8, AbsorbAllIs
  <2> QED
    BY <1>1, <1>8, <2>1
<1>10. PICK id : id = q.nextId + 1
  OBVIOUS
<1>11. id \in Nat
  BY <1>4, <1>10
<1>12. PICK u : HandedTo(q, rest, fl, id, u)
  BY DEF HandedTo
<1>13. QueueOK(v, u, f[k]) /\ ReaderOK(v, f[k]) /\ u.tracker = q.tracker
  <2>1. HandingOut(v, q, r, N, k, head, rest, f)
    BY <1>2, <1>3, <1>6, <1>7, <1>9 DEF HandingOut
  <2> QED
    BY <2>1, <1>11, <1>12, HandedOut
<1>14. queue' = u
  <2>1. queue' = [queue EXCEPT !.items = SubSeq(queue.items, NextBatchSize + 1, Len(queue.items)),
                               !.inFlight = fl, !.nextId = queue.nextId + 1]
    BY DEF HandOut
  <2> QED
    BY <1>1, <1>3, <1>7, <1>10, <1>12, <2>1 DEF HandedTo
<1>15. replica' = f[k]
  BY <1>1, <1>3, <1>7, <1>9 DEF HandOut
<1>16. venue' = v /\ depth' = d /\ ohlcv' = o
  BY <1>1 DEF HandOut
<1>17. InStep(d, o, u)
  BY <1>2, <1>13 DEF InStep
<1> QED
  BY <1>2, <1>13, <1>14, <1>15, <1>16, <1>17, BatchNextOK

LEMMA BatchPulls ==
  ASSUME BatchInv, UNCHANGED venue, PullBatch \/ ConsumeBatch
  PROVE  BatchInv'
<1>1. CASE PullBatch
  <2>1. PICK q, N, k : q = queue /\ N = Len(q.items) /\ k = NextBatchSize
    OBVIOUS
  <2>2. q.items \in Seq(ItemRecords) /\ q.items # <<>>
    BY <1>1, <2>1 DEF PullBatch, Ready, BatchInv, QueueOK, QueueType
  <2>3. N \in Nat /\ N # 0
    BY <2>1, <2>2
  <2>4. k \in 1 .. N
    BY <2>1, <2>3, BatchAssumption DEF NextBatchSize
  <2>5. SubSeq(q.items, 1, k) \in Seq(ItemRecords)
    BY <2>1, <2>2, <2>3, <2>4
  <2>6. Ready /\ HandOut(SubSeq(q.items, 1, k))
    BY <1>1, <2>1 DEF PullBatch
  <2> QED
    BY <2>5, <2>6, BatchHandsOut
<1>2. CASE ConsumeBatch
  <2>1. PICK e \in Seq(ItemRecords) : e = <<>>
    BY EmptySeq
  <2>2. Ready /\ HandOut(e)
    BY <1>2, <2>1 DEF ConsumeBatch
  <2> QED
    BY <2>2, BatchHandsOut
<1> QED
  BY <1>1, <1>2

\* With candles numbered by the counter of the book, the consumer's replica, the aggregated book and
\* the latches keep to the venue.
THEOREM BatcherFaithful ==
  ASSUME SharedCounter = TRUE
  PROVE  BatcherSpec => [](ReplicaIsFaithful /\ NoPhantomLevels /\ LatchIsShared)
<1>1. VenueInit /\ BatcherInit => BatchInv
  BY BatchStarts
<1>2. BatchInv /\ [BatcherNext]_<<venue, batcherVars>> => BatchInv'
  <2> SUFFICES ASSUME BatchInv, [BatcherNext]_<<venue, batcherVars>> PROVE BatchInv'
    OBVIOUS
  <2>1. CASE UNCHANGED <<venue, batcherVars>>
    BY <2>1, BatchRests
  <2>2. CASE VenueUpdate /\ UNCHANGED batcherVars
    BY <2>2, BatchVenueStep
  <2>3. CASE UNCHANGED venue /\ \E n \in Snapshots :
               ApplyEnvelope(AggregateSnapshot(n), Item("snapshot", n, n))
    BY <2>3, BatchSnapshot
  <2>4. CASE UNCHANGED venue /\ \E r \in Ranges :
               ApplyEnvelope(AggregateDelta(r[1], r[2]), Item("delta", r[1], r[2]))
    <3>1. PICK r \in Ranges : ApplyEnvelope(AggregateDelta(r[1], r[2]), Item("delta", r[1], r[2]))
      BY <2>4
    <3>2. PICK a, b : a = r[1] /\ b = r[2]
      OBVIOUS
    <3>3. a \in 2 .. Len(venue) /\ b \in 2 .. Len(venue) /\ a <= b
      BY <3>1, <3>2 DEF Ranges
    <3>4. ApplyEnvelope(AggregateDelta(a, b), Item("delta", a, b))
      BY <3>1, <3>2
    <3> QED
      BY <2>4, <3>3, <3>4, BatchDelta
  <2>5. CASE UNCHANGED venue /\ \E n \in CandleNumbers, w \in 1 .. MaxWindow, fits \in BOOLEAN :
               ApplyEnvelope(AggregateCandle(n, w, fits), Item("candle", n, n))
    <3>1. PICK n \in CandleNumbers, w \in 1 .. MaxWindow, fits \in BOOLEAN :
               ApplyEnvelope(AggregateCandle(n, w, fits), Item("candle", n, n))
      BY <2>5
    <3>2. n \in 1 .. Len(venue) /\ venue[n].kind = "candle" /\ w \in Int
      BY DEF CandleNumbers
    <3> QED
      BY <2>5, <3>1, <3>2, BatchCandle
  <2>6. CASE UNCHANGED venue /\ \E n \in Snapshots : ResetBatcher(n)
    BY <2>6, BatchIsReset
  <2>7. CASE UNCHANGED venue /\ TriggerResync
    BY <2>7, BatchLatches
  <2>8. CASE UNCHANGED venue /\ (PullBatch \/ ConsumeBatch)
    BY <2>8, BatchPulls
  <2>9. CASE UNCHANGED venue /\ \E id \in 1 .. MaxBatches : Acknowledge(id)
    BY <2>9, BatchAcknowledges
  <2> QED
    BY <2>1, <2>2, <2>3, <2>4, <2>5, <2>6, <2>7, <2>8, <2>9 DEF BatcherNext
<1>3. BatchInv => ReplicaIsFaithful /\ NoPhantomLevels /\ LatchIsShared
  <2> SUFFICES ASSUME BatchInv PROVE ReplicaIsFaithful /\ NoPhantomLevels /\ LatchIsShared
    OBVIOUS
  <2>1. ReplicaIsFaithful
    BY DEF BatchInv, ReaderOK, HoldsBook, ReplicaIsFaithful, NoFeedYet
  <2>2. NoPhantomLevels
    BY DEF BatchInv, DepthOK, NoPhantomLevels, NoFeedYet
  <2>3. LatchIsShared
    BY DEF BatchInv, InStep, LatchIsShared
  <2> QED
    BY <2>1, <2>2, <2>3
<1> QED
  BY <1>1, <1>2, <1>3, PTL DEF BatcherSpec

\* Whoever is not told to resynchronise holds what the venue holds: what the mapper hands on
\* (mapper.rs), the replica, the aggregated book and the latches of the batcher (consumer.rs,
\* aggregation.rs), and the pool that the reducer keeps, for every set of prices and every bound on
\* levels, queues and batches.
THEOREM MarketDataFaithful ==
  ASSUME SharedCounter = TRUE
  PROVE  MapperSpec /\ BatcherSpec /\ PoolSpec => []MarketDataIsFaithful
<1>1. BatcherSpec => [](ReplicaIsFaithful /\ NoPhantomLevels /\ LatchIsShared)
  BY BatcherFaithful
<1>2. MappedStreamIsFaithful /\ (ReplicaIsFaithful /\ NoPhantomLevels /\ LatchIsShared) /\ PoolIsFaithful
      => MarketDataIsFaithful
  BY DEF MarketDataIsFaithful
<1> QED
  BY <1>1, <1>2, MapperFaithful, PoolFaithful, PTL

(***************************************************************************)
(* Tokens: positions in the order of their keys.                           *)
(***************************************************************************)
\* A finite set of positions with a key of its own for each.
Keyed(s, key) ==
  /\ IsFiniteSet(s)
  /\ \A i \in s : key[i] \in Int
  /\ \A i, j \in s : key[i] = key[j] => i = j

Before(s, key, i) == {j \in s : key[j] < key[i]}

LEMMA BeforeIsFinite ==
  ASSUME NEW s, NEW key, Keyed(s, key), NEW i \in s
  PROVE  IsFiniteSet(Before(s, key, i)) /\ Cardinality(Before(s, key, i)) \in Nat
<1>1. Before(s, key, i) \in SUBSET s /\ IsFiniteSet(s)
  BY DEF Before, Keyed
<1>2. IsFiniteSet(Before(s, key, i))
  BY <1>1, FS_Subset
<1> QED
  BY <1>2, FS_CardinalityType

\* A smaller key has fewer before it.
LEMMA RankGrows ==
  ASSUME NEW s, NEW key, Keyed(s, key), NEW i \in s, NEW j \in s, key[i] < key[j]
  PROVE  Cardinality(Before(s, key, i)) < Cardinality(Before(s, key, j))
<1> DEFINE A == Before(s, key, i)
           B == Before(s, key, j)
<1>1. \A k \in s : key[k] \in Int
  BY DEF Keyed
<1>2. A \in SUBSET B
  BY <1>1 DEF Before
<1>3. i \in B /\ i \notin A
  BY <1>1 DEF Before
<1>4. IsFiniteSet(B) /\ Cardinality(B) \in Nat /\ Cardinality(A) \in Nat
  BY BeforeIsFinite
<1> HIDE DEF A, B
<1>5. Cardinality(A) <= Cardinality(B) /\ (Cardinality(A) = Cardinality(B) => A = B)
  BY <1>2, <1>4, FS_Subset
<1>6. Cardinality(A) < Cardinality(B)
  BY <1>3, <1>4, <1>5
<1> QED
  BY <1>6 DEF A, B

LEMMA LeastKey ==
  ASSUME NEW s, NEW key, Keyed(s, key), NEW part \in SUBSET s, NEW k \in part
  PROVE  \E m \in part : \A j \in part : key[m] <= key[j]
<1> DEFINE rank(i) == Cardinality(Before(s, key, i))
           ranks == {rank(i) : i \in part}
<1>1. \A i \in part : rank(i) \in Nat
  BY BeforeIsFinite
<1>2. ranks \in SUBSET Nat /\ rank(k) \in ranks
  BY <1>1
<1> HIDE DEF ranks
<1>3. PICK r \in ranks : \A q \in ranks : r <= q
  BY <1>2, LeastMember
<1>4. PICK m \in part : r = rank(m)
  BY <1>3 DEF ranks
<1>5. ASSUME NEW j \in part PROVE key[m] <= key[j]
  <2>1. rank(j) \in ranks
    BY DEF ranks
  <2>2. rank(m) <= rank(j) /\ rank(m) \in Nat /\ rank(j) \in Nat
    BY <1>1, <1>3, <1>4, <2>1
  <2>3. ~(rank(j) < rank(m))
    BY <2>2
  <2>4. ~(key[j] < key[m])
    BY <2>3, RankGrows
  <2>5. key[j] \in Int /\ key[m] \in Int
    BY DEF Keyed
  <2> QED
    BY <2>4, <2>5
<1> QED
  BY <1>5

LEMMA RankExists ==
  ASSUME NEW s, NEW key, Keyed(s, key), NEW n \in Nat, n < Cardinality(s)
  PROVE  \E i \in s : Cardinality(Before(s, key, i)) = n
<1> DEFINE rank(i) == Cardinality(Before(s, key, i))
           T == {m \in Nat : m < Cardinality(s) => \E i \in s : rank(i) = m}
<1>0. IsFiniteSet(s) /\ Cardinality(s) \in Nat /\ \A i \in s : key[i] \in Int
  BY FS_CardinalityType DEF Keyed
<1>1. 0 \in T
  <2> SUFFICES ASSUME 0 < Cardinality(s) PROVE \E i \in s : rank(i) = 0
    OBVIOUS
  <2>1. PICK k : k \in s
    BY <1>0, FS_EmptySet
  <2>2. PICK m \in s : \A j \in s : key[m] <= key[j]
    BY <2>1, LeastKey
  <2>3. Before(s, key, m) = {}
    BY <1>0, <2>2 DEF Before
  <2> QED
    BY <2>3, FS_EmptySet
<1>2. ASSUME NEW m \in Nat, m \in T PROVE m + 1 \in T
  <2> SUFFICES ASSUME m + 1 < Cardinality(s) PROVE \E i \in s : rank(i) = m + 1
    BY <1>2
  <2>1. PICK i \in s : rank(i) = m
    BY <1>0, <1>2
  <2> DEFINE A == Before(s, key, i)
             rest == {j \in s : key[i] < key[j]}
  <2>2. IsFiniteSet(A) /\ Cardinality(A) = m
    BY <2>1, BeforeIsFinite
  <2>3. i \notin A
    BY <1>0 DEF Before
  <2>4. Cardinality(A \cup {i}) = m + 1
    BY <2>2, <2>3, FS_AddElement
  <2>5. ASSUME NEW j \in s, j \notin rest PROVE j \in A \cup {i}
    BY <1>0, <2>5 DEF Before, Keyed
  <2>6. rest # {}
    <3> SUFFICES ASSUME rest = {} PROVE FALSE
      OBVIOUS
    <3>1. s = A \cup {i}
      BY <2>5 DEF Before
    <3> QED
      BY <1>0, <2>4, <3>1
  <2>7. PICK k \in rest : \A j \in rest : key[k] <= key[j]
    <3>1. rest \in SUBSET s
      OBVIOUS
    <3> HIDE DEF rest
    <3> QED
      BY <2>6, <3>1, LeastKey
  <2>8. Before(s, key, k) = A \cup {i}
    <3>1. ASSUME NEW j \in s, key[j] < key[k] PROVE j \in A \cup {i}
      <4>1. j \notin rest
        BY <1>0, <2>7, <3>1
      <4> QED
        BY <2>5, <4>1
    <3>2. ASSUME NEW j \in A \cup {i} PROVE j \in s /\ key[j] < key[k]
      <4>1. j \in s /\ key[j] <= key[i]
        BY <1>0, <3>2 DEF Before
      <4>2. key[i] < key[k] /\ key[i] \in Int /\ key[j] \in Int /\ key[k] \in Int
        BY <1>0, <2>7, <4>1
      <4> QED
        BY <4>1, <4>2
    <3> QED
      BY <3>1, <3>2 DEF Before
  <2> QED
    BY <2>4, <2>7, <2>8
<1> HIDE DEF T
<1>3. n \in T
  BY <1>1, <1>2, SetInduction
<1> QED
  BY <1>3 DEF T

\* The order is of all the positions and their keys grow.
Ordered(s, key, o) ==
  /\ DOMAIN o = 1..Cardinality(s)
  /\ \A n \in DOMAIN o : o[n] \in s
  /\ \A n, m \in DOMAIN o : n < m => key[o[n]] < key[o[m]]

LEMMA OrderIsOrdered ==
  ASSUME NEW s, NEW key, Keyed(s, key), NEW o, o = InOrder(s, key)
  PROVE  Ordered(s, key, o)
<1> DEFINE rank(i) == Cardinality(Before(s, key, i))
<1>0. Cardinality(s) \in Nat /\ \A i \in s : key[i] \in Int
  BY FS_CardinalityType DEF Keyed
<1>1. o = [n \in 1..Cardinality(s) |-> CHOOSE i \in s : rank(i) = n - 1]
  BY DEF InOrder, Before
<1>2. ASSUME NEW n \in 1..Cardinality(s) PROVE o[n] \in s /\ rank(o[n]) = n - 1
  <2>1. n - 1 \in Nat /\ n - 1 < Cardinality(s)
    BY <1>0
  <2>2. \E i \in s : rank(i) = n - 1
    BY <2>1, RankExists
  <2>3. o[n] = CHOOSE i \in s : rank(i) = n - 1
    BY <1>1
  <2> QED
    BY <2>2, <2>3
<1>3. DOMAIN o = 1..Cardinality(s)
  BY <1>1
<1>4. ASSUME NEW n \in DOMAIN o, NEW m \in DOMAIN o, n < m PROVE key[o[n]] < key[o[m]]
  <2>1. PICK a, b : a = o[n] /\ b = o[m]
    OBVIOUS
  <2>2. a \in s /\ b \in s /\ rank(a) = n - 1 /\ rank(b) = m - 1
    BY <1>2, <1>3, <2>1
  <2>3. n \in Int /\ m \in Int
    BY <1>3
  <2>4. rank(a) < rank(b)
    BY <1>4, <2>2, <2>3
  <2>5. key[a] \in Int /\ key[b] \in Int
    BY <1>0, <2>2
  <2>6. CASE key[a] < key[b]
    BY <2>1, <2>6
  <2>7. CASE key[a] = key[b]
    <3>1. a = b
      BY <2>2, <2>7 DEF Keyed
    <3> QED
      BY <2>2, <2>4, <2>3, <3>1
  <2>8. CASE key[b] < key[a]
    <3>1. rank(b) < rank(a)
      BY <2>2, <2>8, RankGrows
    <3> QED
      BY <2>2, <2>3, <2>4, <3>1
  <2> QED
    BY <2>5, <2>6, <2>7, <2>8
<1> QED
  BY <1>2, <1>3, <1>4 DEF Ordered
(***************************************************************************)
(* Tokens: what is read.                                                   *)
(***************************************************************************)
Series(b) ==
  /\ IsBars(b)
  /\ \A n \in DOMAIN b : b[n].ok
  /\ \A n, m \in DOMAIN b : n < m => b[n].t < b[m].t

LEMMA PositionsAreFinite ==
  ASSUME NEW raw, IsSeq(raw)
  PROVE  /\ Len(raw) \in Nat /\ DOMAIN raw = 1..Len(raw)
         /\ IsFiniteSet(DOMAIN raw) /\ DOMAIN raw \in SUBSET Nat
<1>1. PICK S : raw \in Seq(S)
  BY DEF IsSeq
<1>2. Len(raw) \in Nat /\ DOMAIN raw = 1..Len(raw)
  BY <1>1
<1>0. PICK len : len = Len(raw)
  OBVIOUS
<1>3. len \in Int
  BY <1>0, <1>2
<1>4. 1 \in Int /\ IsFiniteSet(1..len)
  BY <1>3, FS_Interval
<1> QED
  BY <1>0, <1>2, <1>4

LEMMA FunctionIsSeq ==
  ASSUME NEW N \in Nat, NEW f, f = [n \in 1..N |-> f[n]]
  PROVE  IsSeq(f) /\ DOMAIN f = 1..N
<1> DEFINE S == {f[i] : i \in DOMAIN f}
<1>1. DOMAIN f = 1..N
  OBVIOUS
<1>2. f \in [1..N -> S]
  BY <1>1
<1>3. f \in Seq(S)
  BY <1>2
<1> QED
  BY <1>1, <1>3 DEF IsSeq

LEMMA BarsAreSeries ==
  ASSUME NEW raw, IsBars(raw), NEW b, b = NormalizeBars(raw)
  PROVE  Series(b)
<1> DEFINE valid == {i \in DOMAIN raw : raw[i].ok}
           last == {i \in valid : \A j \in valid : raw[j].t = raw[i].t => j <= i}
           kept == {i \in last : Cardinality({j \in last : raw[j].t > raw[i].t}) < MaxCountBack}
           key == [i \in kept |-> raw[i].t]
<1>1. IsFiniteSet(DOMAIN raw) /\ DOMAIN raw \in SUBSET Nat
  BY PositionsAreFinite DEF IsBars
<1>2. \A i \in kept : i \in DOMAIN raw /\ raw[i].ok /\ raw[i].t \in Int /\ raw[i].ok \in BOOLEAN
  BY DEF IsBars
<1>3. \A i, j \in kept : raw[i].t = raw[j].t => i = j
  <2>1. ASSUME NEW i \in kept, NEW j \in kept, raw[i].t = raw[j].t PROVE i = j
    <3>1. i \in valid /\ j \in valid /\ i <= j /\ j <= i
      BY <2>1
    <3>2. i \in Nat /\ j \in Nat
      BY <1>1, <1>2
    <3> QED
      BY <3>1, <3>2
  <2> QED
    BY <2>1
<1>4. kept \in SUBSET DOMAIN raw
  OBVIOUS
<1>5. b = [n \in DOMAIN InOrder(kept, key) |-> raw[InOrder(kept, key)[n]]]
  BY DEF NormalizeBars
<1> HIDE DEF kept
<1>6. IsFiniteSet(kept)
  BY <1>1, <1>4, FS_Subset
<1>7. Keyed(kept, key)
  BY <1>2, <1>3, <1>6 DEF Keyed
<1>8. PICK o : o = InOrder(kept, key)
  OBVIOUS
<1>9. Ordered(kept, key, o)
  BY <1>7, <1>8, OrderIsOrdered
<1>10. b = [n \in DOMAIN o |-> raw[o[n]]] /\ DOMAIN o = 1..Cardinality(kept)
  BY <1>5, <1>8, <1>9 DEF Ordered
<1>11. Cardinality(kept) \in Nat
  BY <1>6, FS_CardinalityType
<1>12. DOMAIN b = DOMAIN o /\ \A n \in DOMAIN o : b[n] = raw[o[n]] /\ o[n] \in kept
  BY <1>9, <1>10 DEF Ordered
<1>13. IsSeq(b)
  <2>1. b = [n \in 1..Cardinality(kept) |-> b[n]]
    BY <1>10
  <2> QED
    BY <1>11, <2>1, FunctionIsSeq
<1>14. IsBars(b)
  BY <1>2, <1>12, <1>13 DEF IsBars
<1>15. ASSUME NEW n \in DOMAIN b, NEW m \in DOMAIN b, n < m PROVE b[n].t < b[m].t
  <2>1. key[o[n]] < key[o[m]]
    BY <1>9, <1>12, <1>15 DEF Ordered
  <2> QED
    BY <1>12, <2>1
<1> QED
  BY <1>2, <1>12, <1>14, <1>15 DEF Series

LEMMA BarsConcatenate ==
  ASSUME NEW a, NEW b, IsBars(a), IsBars(b)
  PROVE  IsBars(a \o b)
<1> DEFINE A == {a[i] : i \in DOMAIN a}
           B == {b[i] : i \in DOMAIN b}
           S == A \cup B
<1>1. \A x \in S : x.t \in Int /\ x.ok \in BOOLEAN
  BY DEF IsBars
<1>2. a \in Seq(A) /\ b \in Seq(B)
  BY DEF IsBars, IsSeq
<1> HIDE DEF A, B
<1>3. a \in Seq(S) /\ b \in Seq(S)
  BY <1>2
<1> HIDE DEF S
<1>4. PICK c \in Seq(S) : c = a \o b
  BY <1>3, ConcatProperties
<1>5. Len(c) \in Nat /\ DOMAIN c = 1..Len(c) /\ \A i \in DOMAIN c : c[i] \in S
  BY <1>4
<1>6. c = [n \in 1..Len(c) |-> c[n]]
  <2>1. c \in [1..Len(c) -> S]
    BY <1>4, LenProperties
  <2> QED
    BY <2>1
<1>7. IsSeq(c)
  BY <1>5, <1>6, FunctionIsSeq
<1>8. IsBars(c)
  BY <1>1, <1>5, <1>7 DEF IsBars
<1> QED
  BY <1>4, <1>8

\* One address, up to case where case does not matter.
SameAddress(chain, x, y) ==
  x = y \/ (FomoNetworkId(chain) \in {"base", "ethereum", "bnb_chain"} /\ x.id = y.id)

LEMMA CaseFolds ==
  ASSUME NEW chain
  PROVE  IdentityIsCaseInsensitive(chain) <=> FomoNetworkId(chain) \in {"base", "ethereum", "bnb_chain"}
BY DEF IdentityIsCaseInsensitive, FomoNetworkId, NoNetwork

LEMMA MatchIsSame ==
  ASSUME NEW chain, NEW address, NEW echo, IdentityMatches(chain, address, echo)
  PROVE  echo.network = FomoNetworkId(chain) /\ SameAddress(chain, echo.address, address)
BY CaseFolds DEF IdentityMatches, AddressEquals, SameAddress

WalletsOnce(chain, rows) ==
  \A i, j \in DOMAIN rows : i # j /\ rows[i].id # "" => ~SameAddress(chain, rows[i], rows[j])

LEMMA SameKey ==
  ASSUME NEW chain, NEW x, NEW y, SameAddress(chain, x, y)
  PROVE  HolderKey(chain, x) = HolderKey(chain, y) /\ x.id = y.id
BY CaseFolds DEF SameAddress, HolderKey

LEMMA EarlierPosition ==
  ASSUME NEW N \in Nat, NEW m \in 1..N, NEW n \in 1..N, m < n
  PROVE  m \in 1..(n - 1)
OBVIOUS

LEMMA HoldersOnce ==
  ASSUME NEW chain, NEW limit, NEW rows, IsSeq(rows), NEW h, h = HolderRows(chain, limit, rows)
  PROVE  WalletsOnce(chain, h)
<1> DEFINE first == {n \in DOMAIN rows :
                       rows[n].id = "" \/ \A m \in 1..(n - 1) :
                                            HolderKey(chain, rows[m]) # HolderKey(chain, rows[n])}
           kept == {n \in first : Cardinality({m \in first : m < n}) < Max({1, limit})}
           key == [n \in kept |-> n]
<1>1. /\ IsFiniteSet(DOMAIN rows) /\ DOMAIN rows \in SUBSET Nat
      /\ Len(rows) \in Nat /\ DOMAIN rows = 1..Len(rows)
  BY PositionsAreFinite
<1>2. kept \in SUBSET DOMAIN rows
  OBVIOUS
<1>3. h = [n \in DOMAIN InOrder(kept, key) |-> rows[InOrder(kept, key)[n]]]
  BY DEF HolderRows
<1>12. \A n \in kept : rows[n].id = "" \/ \A m \in 1..(n - 1) :
                                             HolderKey(chain, rows[m]) # HolderKey(chain, rows[n])
  OBVIOUS
<1> HIDE DEF first, kept
<1>4. ASSUME NEW n \in kept, NEW m \in kept, m < n, rows[n].id # ""
      PROVE  HolderKey(chain, rows[m]) # HolderKey(chain, rows[n])
  <2>1. m \in 1..Len(rows) /\ n \in 1..Len(rows)
    BY <1>1, <1>2
  <2>2. m \in 1..(n - 1)
    BY <1>1, <1>4, <2>1, EarlierPosition
  <2> QED
    BY <1>4, <1>12, <2>2
<1>5. IsFiniteSet(kept)
  BY <1>1, <1>2, FS_Subset
<1>6. Keyed(kept, key)
  <2>1. \A i \in kept : key[i] = i /\ i \in Int
    BY <1>1, <1>2
  <2> QED
    BY <1>5, <2>1 DEF Keyed
<1>7. PICK o : o = InOrder(kept, key)
  OBVIOUS
<1>8. Ordered(kept, key, o)
  BY <1>6, <1>7, OrderIsOrdered
<1>9. DOMAIN h = DOMAIN o /\ \A n \in DOMAIN o : h[n] = rows[o[n]] /\ o[n] \in kept /\ n \in Int
  <2>1. h = [n \in DOMAIN o |-> rows[o[n]]]
    BY <1>3, <1>7
  <2>2. DOMAIN o = 1..Cardinality(kept) /\ \A n \in DOMAIN o : o[n] \in kept
    BY <1>8 DEF Ordered
  <2> QED
    BY <2>1, <2>2
<1>10. ASSUME NEW i \in DOMAIN h, NEW j \in DOMAIN h, i < j,
              h[i].id # "", SameAddress(chain, h[i], h[j])
       PROVE  FALSE
  <2>1. key[o[i]] < key[o[j]] /\ o[i] \in kept /\ o[j] \in kept
    BY <1>8, <1>9, <1>10 DEF Ordered
  <2>2. o[i] < o[j]
    BY <2>1
  <2>3. HolderKey(chain, h[i]) = HolderKey(chain, h[j]) /\ h[j].id # ""
    BY <1>10, SameKey
  <2>4. h[i] = rows[o[i]] /\ h[j] = rows[o[j]]
    BY <1>9
  <2> QED
    BY <1>4, <2>1, <2>2, <2>3, <2>4
<1>11. ASSUME NEW i \in DOMAIN h, NEW j \in DOMAIN h, i # j, h[i].id # "",
              SameAddress(chain, h[i], h[j])
       PROVE  FALSE
  <2>1. i \in Int /\ j \in Int
    BY <1>9
  <2>2. SameAddress(chain, h[j], h[i]) /\ h[j].id # ""
    BY <1>11, SameKey DEF SameAddress
  <2>3. CASE i < j
    BY <1>10, <1>11, <2>3
  <2>4. CASE j < i
    BY <1>10, <2>2, <2>4
  <2>5. i # j
    BY <1>11
  <2>6. i < j \/ j < i
    BY <2>1, <2>5
  <2> QED
    BY <2>3, <2>4, <2>6
<1> QED
  BY <1>11 DEF WalletsOnce

\* A rendered answer, whatever it is about.
AnswerOK(a) ==
  /\ \A e \in a.from : e.network = FomoNetworkId(a.chain) /\ SameAddress(a.chain, e.address, a.address)
  /\ a.op = "holders" => WalletsOnce(a.chain, a.rows)
  /\ a.op = "chart" => Series(a.rows)

LEMMA AnswerIsTheTokens == ASSUME AnswerOK(answer) PROVE AnswersAreTheTokens
BY DEF AnswerOK, AnswersAreTheTokens, WalletsOnce, SameAddress, Series

LEMMA NoAnswerOK == AnswerOK(NoAnswer)
BY DEF AnswerOK, NoAnswer

LEMMA ShownOK ==
  ASSUME NEW op, NEW q, NEW from, NEW rows,
         \A e \in from : e = NoEcho \/ IdentityMatches(q.chain, q.address, e),
         op = "holders" => WalletsOnce(q.chain, rows), op = "chart" => Series(rows)
  PROVE  AnswerOK(Shown(op, q, from, rows))
<1>1. PICK a, c, d : a = Shown(op, q, from, rows) /\ c = q.chain /\ d = q.address
  OBVIOUS
<1>2. a = [op |-> op, chain |-> c, address |-> d, from |-> from \ {NoEcho}, rows |-> rows]
  BY <1>1 DEF Shown
<1>3. a.op = op /\ a.chain = c /\ a.address = d /\ a.from = from \ {NoEcho} /\ a.rows = rows
  BY <1>2
<1>4. ASSUME NEW e \in from \ {NoEcho}
      PROVE  e.network = FomoNetworkId(c) /\ SameAddress(c, e.address, d)
  BY <1>1, MatchIsSame
<1>5. AnswerOK(a)
  BY <1>1, <1>3, <1>4 DEF AnswerOK
<1> QED
  BY <1>1, <1>5

\* A read shows what it was given only when nothing was wrong with it.
LEMMA ReadKeeps ==
  ASSUME NEW flag, NEW refused, NEW err, NEW shown, BridgeRead(flag, refused, err, shown),
         AnswerOK(answer), err = "none" => AnswerOK(shown)
  PROVE  AnswerOK(answer') /\ UNCHANGED <<charts, pulls, emitted, laneSessions, newest>>
BY DEF BridgeRead, UnchangedButReads

LEMMA NothingWrong ==
  ASSUME NEW a, NEW good, FirstError(a, Expect(good)) = "none"
  PROVE  a = "none" /\ good
BY DEF FirstError, Expect

LEMMA ReadsAreTheTokens ==
  ASSUME AnswerOK(answer), FomoReadNext
  PROVE  AnswerOK(answer') /\ UNCHANGED <<charts, pulls, emitted, laneSessions, newest>>
<1>1. PICK q \in TokenQueries, r \in BridgeAnswers :
        \/ GetChart(q, r) \/ GetTrending(q.category, r) \/ GetToken(q, r)
        \/ GetTokenHolders(q, r) \/ GetTokenAbout(q, r) \/ GetTokenActivity(q, r)
  BY DEF FomoReadNext
<1>2. IsSeq(r.rows) /\ IsSeq(r.found) /\ IsBars(r.wire.bars) /\ IsBars(r.wire.latest)
  BY FomoAssumption
<1>3. CASE GetChart(q, r)
  <2> DEFINE rows == NormalizeBars(FetchBars(r.wire).bars)
             err == FirstError(BridgeGetError(r.code), Expect(FetchBars(r.wire).ok))
  <2>1. BridgeRead("history", BarsQueryError(q) # "none", err, Shown("chart", q, {}, rows))
    BY <1>3 DEF GetChart
  <2>2. ASSUME err = "none" PROVE AnswerOK(Shown("chart", q, {}, rows))
    <3>1. FetchBars(r.wire).ok
      BY <2>2, NothingWrong
    <3>2. FetchBars(r.wire).bars = NormalizeBars(r.wire.bars \o r.wire.latest)
      BY <3>1 DEF FetchBars
    <3>3. IsBars(r.wire.bars \o r.wire.latest)
      BY <1>2, BarsConcatenate
    <3>4. IsBars(FetchBars(r.wire).bars)
      BY <3>2, <3>3, BarsAreSeries DEF Series
    <3>5. Series(rows)
      BY <3>4, BarsAreSeries
    <3> HIDE DEF rows
    <3> QED
      BY <3>5, ShownOK
  <2> HIDE DEF rows, err
  <2> QED
    BY <2>1, <2>2, ReadKeeps
<1>4. CASE GetTrending(q.category, r)
  BY <1>4 DEF GetTrending, BridgeRead, UnchangedButReads
<1>5. CASE GetToken(q, r)
  <2> DEFINE good == IdentityMatches(q.chain, q.address, r.echo)
             err == FirstError(BridgeGetError(r.code), Expect(good))
             stats == TokenStats(q, r)
  <2>1. BridgeRead("market", ~FomoSymbolKnown(q.chain, q.address), err, Shown("token", q, {stats}, << >>))
    BY <1>5 DEF GetToken
  <2>2. ASSUME err = "none" PROVE AnswerOK(Shown("token", q, {stats}, << >>))
    <3>1. good
      <4> HIDE DEF good
      <4> QED
        BY <2>2, NothingWrong
    <3>2. stats = NoEcho \/ IdentityMatches(q.chain, q.address, stats)
      <4> DEFINE same == {i \in DOMAIN r.found : IdentityMatches(q.chain, q.address, r.found[i])}
      <4>1. \/ stats = r.echo \/ stats = NoEcho
            \/ stats = r.row /\ IdentityMatches(q.chain, q.address, r.row)
            \/ same # {} /\ stats = r.found[Min(same)]
        BY DEF TokenStats
      <4>2. ASSUME same # {} PROVE Min(same) \in same
        <5>1. same \in SUBSET Nat
          BY <1>2, PositionsAreFinite
        <5> HIDE DEF same
        <5>2. \E m \in same : \A n \in same : m <= n
          BY <4>2, <5>1, LeastMember
        <5> QED
          BY <5>2 DEF Min
      <4>3. CASE stats = r.echo
        BY <3>1, <4>3
      <4>4. CASE same # {} /\ stats = r.found[Min(same)]
        <5>1. PICK i \in same : i = Min(same)
          BY <4>2, <4>4
        <5> QED
          BY <4>4, <5>1
      <4> QED
        BY <4>1, <4>3, <4>4
    <3> HIDE DEF stats
    <3> QED
      BY <3>2, ShownOK
  <2> HIDE DEF stats, err
  <2> QED
    BY <2>1, <2>2, ReadKeeps
<1>6. CASE GetTokenHolders(q, r)
  <2> DEFINE good == IdentityMatches(q.chain, q.address, r.echo)
             err == FirstError(BridgeGetError(r.code), Expect(good))
             rows == HolderRows(q.chain, q.limit, r.rows)
  <2>1. BridgeRead("intelligence", ~FomoSymbolKnown(q.chain, q.address), err,
                   Shown("holders", q, {r.echo}, rows))
    BY <1>6 DEF GetTokenHolders
  <2>2. ASSUME err = "none" PROVE AnswerOK(Shown("holders", q, {r.echo}, rows))
    <3>1. good
      <4> HIDE DEF good
      <4> QED
        BY <2>2, NothingWrong
    <3>2. WalletsOnce(q.chain, rows)
      BY <1>2, HoldersOnce
    <3> HIDE DEF rows
    <3> QED
      BY <3>1, <3>2, ShownOK
  <2> HIDE DEF rows, err
  <2> QED
    BY <2>1, <2>2, ReadKeeps
<1>7. CASE GetTokenAbout(q, r)
  <2> DEFINE good == IdentityEchoesMatch(q.chain, q.address, {r.echo, r.row})
             err == FirstError(BridgeGetError(r.code), Expect(good))
  <2>1. BridgeRead("intelligence", ~FomoSymbolKnown(q.chain, q.address), err,
                   Shown("about", q, {r.echo, r.row}, << >>))
    BY <1>7 DEF GetTokenAbout
  <2>2. ASSUME err = "none" PROVE AnswerOK(Shown("about", q, {r.echo, r.row}, << >>))
    <3>1. good
      <4> HIDE DEF good
      <4> QED
        BY <2>2, NothingWrong
    <3>2. \A e \in {r.echo, r.row} : e = NoEcho \/ IdentityMatches(q.chain, q.address, e)
      BY <3>1 DEF IdentityEchoesMatch
    <3> QED
      BY <3>2, ShownOK
  <2> HIDE DEF err
  <2> QED
    BY <2>1, <2>2, ReadKeeps
<1>8. CASE GetTokenActivity(q, r)
  <2> DEFINE good == IdentityMatches(q.chain, q.address, r.echo)
             err == FirstError(BridgeGetError(r.code), Expect(good))
             rows == SubSeq(r.rows, 1, Min({q.limit, Len(r.rows)}))
  <2>1. BridgeRead("intelligence", ~FomoSymbolKnown(q.chain, q.address), err,
                   Shown("activity", q, {r.echo}, rows))
    BY <1>8 DEF GetTokenActivity
  <2>2. ASSUME err = "none" PROVE AnswerOK(Shown("activity", q, {r.echo}, rows))
    <3>1. good
      <4> HIDE DEF good
      <4> QED
        BY <2>2, NothingWrong
    <3> HIDE DEF rows
    <3> QED
      BY <3>1, ShownOK
  <2> HIDE DEF rows, err
  <2> QED
    BY <2>1, <2>2, ReadKeeps
<1> QED
  BY <1>1, <1>3, <1>4, <1>5, <1>6, <1>7, <1>8

(***************************************************************************)
(* Tokens: what a stream is sent.                                          *)
(***************************************************************************)
PullRecord(p) ==
  /\ p = [pc |-> p.pc, target |-> p.target, switched |-> p.switched, failures |-> p.failures]
  /\ p.pc \in {"idle", "done", "snapshot", "loop", "poll", "fetch"}

LaneRecord(s) ==
  s = [provenance |-> s.provenance, trending |-> s.trending, price |-> s.price, pending |-> s.pending]

LaneRecords(ls) == \A k \in DOMAIN ls : LaneRecord(ls[k])

\* Queued frames that fit a chart of target t, and those that fit any.
FitsChart(q, t) ==
  /\ IsSeq(q)
  /\ \A i \in DOMAIN q : /\ q[i].kind \notin {"snapshot", "delta"}
                         /\ q[i].kind = "price" => q[i].target = t

FitsAnyChart(q) == IsSeq(q) /\ \A i \in DOMAIN q : q[i].kind \notin {"snapshot", "delta", "price"}

Queued(ls, k) == IF k \in DOMAIN ls THEN ls[k].pending ELSE << >>

\* What a connection of session k may rely on at each await.
PullFits(k, p, chart, em, ls) ==
  /\ PullRecord(p)
  /\ chart.kind \in {"delta", "price"} => chart.about = chart.target
  /\ p.pc = "snapshot" => k \notin DOMAIN ls
  /\ p.pc \in {"loop", "poll", "fetch"} => (k \in DOMAIN em => em[k] = chart.target)
  /\ p.pc = "loop" => FitsChart(Queued(ls, k), chart.target)
  /\ p.pc \in {"poll", "fetch"} => FitsAnyChart(Queued(ls, k))
  /\ p.pc = "fetch" /\ ~p.switched => p.target = chart.target

Runs(p) == p.pc \notin {"idle", "done"}

\* One connection of a session runs, and the hub holds it.
OneRuns(ps, nw) ==
  \A d \in FomoStreams : Runs(ps[d]) =>
    /\ nw[StreamOwner[d]] = d
    /\ \A e \in FomoStreams : StreamOwner[e] = StreamOwner[d] /\ Runs(ps[e]) => e = d

FomoInv ==
  /\ DOMAIN pulls = FomoStreams /\ DOMAIN charts = FomoStreams /\ DOMAIN newest = FomoKids
  /\ LaneRecords(laneSessions)
  /\ OneRuns(pulls, newest)
  /\ \A d \in FomoStreams : PullFits(StreamOwner[d], pulls[d], charts[d], emitted, laneSessions)
  /\ AnswerOK(answer)

LEMMA FitsEmpty == \A t : FitsChart(<< >>, t) /\ FitsAnyChart(<< >>)
BY DEF FitsChart, FitsAnyChart, IsSeq

LEMMA FitsAny == ASSUME NEW q, FitsAnyChart(q), NEW t PROVE FitsChart(q, t)
BY DEF FitsChart, FitsAnyChart

\* A session other than j keeps its entry, or loses it to j's.
Spares(j, m, n) == \A x \in DOMAIN n \ {j} : x \in DOMAIN m /\ n[x] = m[x]

LEMMA SparesItself == ASSUME NEW j, NEW m PROVE Spares(j, m, m)
BY DEF Spares

EnteredAs(j, m, n, v) == Spares(j, m, n) /\ j \in DOMAIN n /\ n[j] = v

LEMMA InsertedSpares ==
  ASSUME NEW m, NEW j, NEW v, NEW n \in Inserted(m, j, v)
  PROVE  EnteredAs(j, m, n, v)
<1>1. PICK drop : n = [x \in (DOMAIN m \ drop) \cup {j} |-> IF x = j THEN v ELSE m[x]]
  BY DEF Inserted
<1> QED
  BY <1>1 DEF EnteredAs, Spares

LEMMA InsertedRecords ==
  ASSUME NEW m, LaneRecords(m), NEW j, NEW v, LaneRecord(v), NEW n, EnteredAs(j, m, n, v)
  PROVE  LaneRecords(n)
<1>1. ASSUME NEW x \in DOMAIN n PROVE LaneRecord(n[x])
  <2>1. CASE x = j
    BY <2>1 DEF EnteredAs
  <2>2. CASE x # j
    <3>1. x \in DOMAIN m /\ n[x] = m[x]
      BY <2>2 DEF EnteredAs, Spares
    <3> QED
      BY <3>1 DEF LaneRecords
  <2> QED
    BY <2>1, <2>2
<1> QED
  BY <1>1 DEF LaneRecords

\* What other sessions do leaves a connection as it is.
LEMMA OthersFit ==
  ASSUME NEW k, NEW p, NEW chart, NEW em, NEW ls, PullFits(k, p, chart, em, ls),
         NEW j, j # k, NEW em2, NEW ls2, Spares(j, em, em2), Spares(j, ls, ls2)
  PROVE  PullFits(k, p, chart, em2, ls2)
<1>1. k \in DOMAIN em2 => k \in DOMAIN em /\ em2[k] = em[k]
  BY DEF Spares
<1>2. k \in DOMAIN ls2 => k \in DOMAIN ls /\ ls2[k] = ls[k]
  BY DEF Spares
<1>3. Queued(ls2, k) = Queued(ls, k) \/ Queued(ls2, k) = << >>
  BY <1>2 DEF Queued
<1>4. p.pc = "loop" => FitsChart(Queued(ls2, k), chart.target)
  BY <1>3, FitsEmpty DEF PullFits
<1>5. p.pc \in {"poll", "fetch"} => FitsAnyChart(Queued(ls2, k))
  BY <1>3, FitsEmpty DEF PullFits
<1> QED
  BY <1>1, <1>2, <1>4, <1>5 DEF PullFits

\* A connection that does not run relies on nothing.
LEMMA IdleFits ==
  ASSUME NEW k, NEW p, NEW chart, NEW em, NEW ls, PullFits(k, p, chart, em, ls), ~Runs(p),
         NEW em2, NEW ls2
  PROVE  PullFits(k, p, chart, em2, ls2)
BY DEF PullFits, Runs

\* Only the connection d moves.
Moves(d, p, chart) ==
  /\ DOMAIN pulls' = FomoStreams /\ DOMAIN charts' = FomoStreams
  /\ pulls'[d] = p /\ charts'[d] = chart
  /\ \A e \in FomoStreams \ {d} : pulls'[e] = pulls[e] /\ charts'[e] = charts[e]

\* The hub holds d for its session, and the others as before.
Holds(d) ==
  /\ DOMAIN newest' = FomoKids
  /\ newest'[StreamOwner[d]] = d
  /\ \A k \in FomoKids \ {StreamOwner[d]} : newest'[k] = newest[k]

LEMMA MoveKeeps ==
  ASSUME FomoInv, NEW d \in FomoStreams, NEW p, NEW chart, Moves(d, p, chart), Holds(d),
         \A e \in FomoStreams \ {d} : StreamOwner[e] = StreamOwner[d] => ~Runs(pulls[e]),
         Spares(StreamOwner[d], emitted, emitted'), Spares(StreamOwner[d], laneSessions, laneSessions'),
         LaneRecords(laneSessions'),
         PullFits(StreamOwner[d], p, chart, emitted', laneSessions'), AnswerOK(answer')
  PROVE  FomoInv'
<1>1. PICK k : k = StreamOwner[d]
  OBVIOUS
<1>2. ASSUME NEW e \in FomoStreams
      PROVE  PullFits(StreamOwner[e], pulls'[e], charts'[e], emitted', laneSessions')
  <2>1. CASE e = d
    BY <2>1 DEF Moves
  <2>2. CASE e # d
    <3>1. pulls'[e] = pulls[e] /\ charts'[e] = charts[e]
      BY <2>2 DEF Moves
    <3>2. PullFits(StreamOwner[e], pulls[e], charts[e], emitted, laneSessions)
      BY DEF FomoInv
    <3>3. CASE StreamOwner[e] = k
      <4>1. ~Runs(pulls[e])
        BY <1>1, <2>2, <3>3
      <4> QED
        BY <3>1, <3>2, <4>1, IdleFits
    <3>4. CASE StreamOwner[e] # k
      BY <1>1, <3>1, <3>2, <3>4, OthersFit
    <3> QED
      BY <3>3, <3>4
  <2> QED
    BY <2>1, <2>2
<1>3. OneRuns(pulls', newest')
  <2>1. ASSUME NEW e \in FomoStreams, Runs(pulls'[e])
        PROVE  /\ newest'[StreamOwner[e]] = e
               /\ \A f \in FomoStreams : StreamOwner[f] = StreamOwner[e] /\ Runs(pulls'[f]) => f = e
    <3>1. CASE e = d
      <4>1. ASSUME NEW f \in FomoStreams, f # d, StreamOwner[f] = StreamOwner[d]
            PROVE  ~Runs(pulls'[f])
        BY <4>1 DEF Moves
      <4> QED
        BY <3>1, <4>1 DEF Holds
    <3>2. CASE e # d
      <4>1. Runs(pulls[e])
        BY <2>1, <3>2 DEF Moves
      <4>2. StreamOwner[e] # StreamOwner[d]
        BY <3>2, <4>1
      <4>3. StreamOwner[e] \in FomoKids
        BY FomoAssumption
      <4>4. newest'[StreamOwner[e]] = newest[StreamOwner[e]]
        BY <4>2, <4>3 DEF Holds
      <4>5. /\ newest[StreamOwner[e]] = e
            /\ \A f \in FomoStreams : StreamOwner[f] = StreamOwner[e] /\ Runs(pulls[f]) => f = e
        BY <4>1 DEF FomoInv, OneRuns
      <4>6. ASSUME NEW f \in FomoStreams, StreamOwner[f] = StreamOwner[e], Runs(pulls'[f])
            PROVE  f = e
        <5>1. f # d
          BY <4>2, <4>6
        <5>2. pulls'[f] = pulls[f]
          BY <5>1 DEF Moves
        <5> QED
          BY <4>5, <4>6, <5>2
      <4> QED
        BY <4>4, <4>5, <4>6
    <3> QED
      BY <3>1, <3>2
  <2> QED
    BY <2>1 DEF OneRuns
<1> QED
  BY <1>2, <1>3 DEF FomoInv, Moves, Holds

\* A running connection is alone and current.
LEMMA RunningIsAlone ==
  ASSUME FomoInv, NEW d \in FomoStreams, Runs(pulls[d])
  PROVE  /\ newest[StreamOwner[d]] = d
         /\ \A e \in FomoStreams \ {d} : StreamOwner[e] = StreamOwner[d] => ~Runs(pulls[e])
         /\ newest' = newest => Holds(d)
BY DEF FomoInv, OneRuns, Holds

\* The step of a running connection.
LEMMA StepKeeps ==
  ASSUME FomoInv, NEW d \in FomoStreams, Runs(pulls[d]), NEW p, NEW chart, Moves(d, p, chart),
         newest' = newest, answer' = answer,
         Spares(StreamOwner[d], emitted, emitted'), Spares(StreamOwner[d], laneSessions, laneSessions'),
         LaneRecords(laneSessions'),
         PullFits(StreamOwner[d], p, chart, emitted', laneSessions')
  PROVE  FomoInv'
<1>1. Holds(d) /\ \A e \in FomoStreams \ {d} : StreamOwner[e] = StreamOwner[d] => ~Runs(pulls[e])
  BY RunningIsAlone
<1>2. AnswerOK(answer')
  BY DEF FomoInv
<1> QED
  BY <1>1, <1>2, MoveKeeps

IdleAt(pc) == [IdlePull EXCEPT !.pc = pc]

LEMMA IdleAtRecord ==
  ASSUME NEW pc \in {"idle", "done", "snapshot", "loop", "poll", "fetch"}
  PROVE  PullRecord(IdleAt(pc)) /\ IdleAt(pc).pc = pc
<1>1. PICK p : p = IdleAt(pc)
  OBVIOUS
<1>2. p = [pc |-> pc, target |-> DefaultTarget, switched |-> FALSE, failures |-> 0]
  BY <1>1 DEF IdleAt, IdlePull
<1>3. p.pc = pc /\ PullRecord(p)
  BY <1>2 DEF PullRecord
<1> QED
  BY <1>1, <1>3

LEMMA EndMoves ==
  ASSUME FomoInv, NEW d \in FomoStreams, EndStream(d)
  PROVE  Moves(d, IdleAt("done"), charts[d])
BY DEF EndStream, Moves, FomoInv, IdleAt

LEMMA EndFits ==
  ASSUME FomoInv, NEW d \in FomoStreams, NEW em, NEW ls
  PROVE  PullFits(StreamOwner[d], IdleAt("done"), charts[d], em, ls)
<1>1. PullFits(StreamOwner[d], pulls[d], charts[d], emitted, laneSessions)
  BY DEF FomoInv
<1> QED
  BY <1>1, IdleAtRecord DEF PullFits

LEMMA EndKeeps ==
  ASSUME FomoInv, NEW d \in FomoStreams, Runs(pulls[d]), EndStream(d),
         UNCHANGED <<newest, answer, emitted, laneSessions>>
  PROVE  FomoInv'
<1>1. Moves(d, IdleAt("done"), charts[d])
  BY EndMoves
<1>2. PullFits(StreamOwner[d], IdleAt("done"), charts[d], emitted', laneSessions')
  BY EndFits
<1>3. LaneRecords(laneSessions')
  BY DEF FomoInv
<1>4. Spares(StreamOwner[d], emitted, emitted') /\ Spares(StreamOwner[d], laneSessions, laneSessions')
  BY SparesItself
<1> QED
  BY <1>1, <1>2, <1>3, <1>4, StepKeeps

\* A frame about a token is about the token of the chart.
FrameFits(frame, chart) == frame.kind \in {"delta", "price"} => frame.target = chart.target

LEMMA DeliverMoves ==
  ASSUME FomoInv, NEW d \in FomoStreams, Runs(pulls[d]), NEW frame, Deliver(d, frame, "loop")
  PROVE  Moves(d, IdleAt("loop"), ShownAfter(charts[d], frame))
<1>1. newest[StreamOwner[d]] = d
  BY RunningIsAlone
<1>2. /\ charts' = [charts EXCEPT ![d] = ShownAfter(charts[d], frame)]
      /\ pulls' = [pulls EXCEPT ![d] = IdleAt("loop")]
  BY <1>1 DEF Deliver, IdleAt
<1> QED
  BY <1>2 DEF Moves, FomoInv

LEMMA ShownFits ==
  ASSUME NEW chart, NEW frame, FrameFits(frame, chart), NEW c, c = ShownAfter(chart, frame)
  PROVE  /\ c.kind \in {"delta", "price"} => c.about = c.target
         /\ frame.kind = "snapshot" => c.target = frame.target
         /\ frame.kind # "snapshot" => c.target = chart.target
BY DEF FrameFits, ShownAfter

\* A frame is delivered and the pull starts over.
LEMMA DeliverKeeps ==
  ASSUME FomoInv, NEW d \in FomoStreams, Runs(pulls[d]), NEW frame, Deliver(d, frame, "loop"),
         FrameFits(frame, charts[d]), newest' = newest, answer' = answer,
         Spares(StreamOwner[d], emitted, emitted'), Spares(StreamOwner[d], laneSessions, laneSessions'),
         LaneRecords(laneSessions'),
         NEW t, t = IF frame.kind = "snapshot" THEN frame.target ELSE charts[d].target,
         StreamOwner[d] \in DOMAIN emitted' => emitted'[StreamOwner[d]] = t,
         FitsChart(Queued(laneSessions', StreamOwner[d]), t)
  PROVE  FomoInv'
<1>1. PICK c : c = ShownAfter(charts[d], frame)
  OBVIOUS
<1>2. Moves(d, IdleAt("loop"), c)
  BY <1>1, DeliverMoves
<1>3. (c.kind \in {"delta", "price"} => c.about = c.target) /\ c.target = t
  BY <1>1, ShownFits
<1>4. PullRecord(IdleAt("loop")) /\ IdleAt("loop").pc = "loop"
  BY IdleAtRecord
<1>5. PullFits(StreamOwner[d], IdleAt("loop"), c, emitted', laneSessions')
  BY <1>3, <1>4 DEF PullFits
<1> QED
  BY <1>2, <1>5, StepKeeps

-----------------------------------------------------------------------------
LEMMA OwnFits ==
  ASSUME FomoInv, NEW d \in FomoStreams
  PROVE  PullFits(StreamOwner[d], pulls[d], charts[d], emitted, laneSessions)
BY DEF FomoInv

LEMMA SessionIsRecord ==
  ASSUME FomoInv, NEW k
  PROVE  LaneRecord(LaneSessionOf(k)) /\ LaneSessionOf(k).pending = Queued(laneSessions, k)
<1>1. CASE k \in DOMAIN laneSessions
  BY <1>1 DEF LaneSessionOf, Queued, FomoInv, LaneRecords
<1>2. CASE k \notin DOMAIN laneSessions
  BY <1>2 DEF LaneSessionOf, Queued, NewLaneSession, LaneRecord
<1> QED
  BY <1>1, <1>2

LEMMA SnapshotKeeps ==
  ASSUME FomoInv, NEW d \in FomoStreams, NEW got, SnapshotFetched(d, got)
  PROVE  FomoInv'
<1>1. PICK k, t : k = StreamOwner[d] /\ t = pulls[d].target
  OBVIOUS
<1>2. pulls[d].pc = "snapshot" /\ Runs(pulls[d])
  BY DEF SnapshotFetched, Runs
<1>3. UNCHANGED <<newest, answer, laneSessions>>
  BY DEF SnapshotFetched
<1>4. CASE got = "some"
  <2>1. emitted' \in Inserted(emitted, k, t) /\ Deliver(d, SnapshotFrame(t), "loop")
    BY <1>1, <1>4 DEF SnapshotFetched
  <2>2. EnteredAs(k, emitted, emitted', t)
    BY <2>1, InsertedSpares
  <2>3. Spares(k, emitted, emitted') /\ k \in DOMAIN emitted' /\ emitted'[k] = t
    BY <2>2 DEF EnteredAs
  <2>4. Spares(k, laneSessions, laneSessions') /\ LaneRecords(laneSessions')
    BY <1>3, SparesItself DEF FomoInv
  <2>5. k \notin DOMAIN laneSessions
    BY <1>1, <1>2, OwnFits DEF PullFits
  <2>6. FitsChart(Queued(laneSessions', k), t)
    BY <1>3, <2>5, FitsEmpty DEF Queued
  <2>7. PICK f : f = SnapshotFrame(t)
    OBVIOUS
  <2>8. f.kind = "snapshot" /\ f.target = t
    BY <2>7 DEF SnapshotFrame
  <2>9. FrameFits(f, charts[d])
    BY <2>8 DEF FrameFits
  <2> QED
    BY <1>1, <1>2, <1>3, <2>1, <2>3, <2>4, <2>6, <2>7, <2>8, <2>9, DeliverKeeps
<1>5. CASE got # "some"
  <2>1. EndStream(d) /\ UNCHANGED emitted
    BY <1>5 DEF SnapshotFetched
  <2> QED
    BY <1>2, <1>3, <2>1, EndKeeps
<1> QED
  BY <1>4, <1>5

LEMMA ResolveKeeps ==
  ASSUME FomoInv, NEW d \in FomoStreams, PullResolve(d)
  PROVE  FomoInv'
<1>1. PICK k, t, p, w : /\ k = StreamOwner[d] /\ t = ResolveTarget(k) /\ p = pulls[d]
                        /\ w = Switched(k, t)
  OBVIOUS
<1>2. /\ p.pc = "poll" /\ UNCHANGED <<newest, answer, laneSessions, emitted, charts>>
      /\ pulls' = [pulls EXCEPT ![d].pc = "fetch", ![d].target = t, ![d].switched = w]
  BY <1>1 DEF PullResolve
<1>3. PullFits(k, p, charts[d], emitted, laneSessions)
  BY <1>1, OwnFits
<1>4. p = [pc |-> p.pc, target |-> p.target, switched |-> p.switched, failures |-> p.failures]
  BY <1>3 DEF PullFits, PullRecord
<1>5. PICK q : q = [pc |-> "fetch", target |-> t, switched |-> w, failures |-> p.failures]
  OBVIOUS
<1>6. q.pc = "fetch" /\ q.target = t /\ q.switched = w /\ PullRecord(q)
  BY <1>5 DEF PullRecord
<1>7. pulls'[d] = q /\ DOMAIN pulls' = FomoStreams /\ \A e \in FomoStreams \ {d} : pulls'[e] = pulls[e]
  BY <1>1, <1>2, <1>4, <1>5 DEF FomoInv
<1>8. Moves(d, q, charts[d])
  BY <1>2, <1>7 DEF Moves, FomoInv
<1>9. ~w => t = charts[d].target
  BY <1>1, <1>2, <1>3 DEF Switched, PullFits
<1>10. PullFits(k, q, charts[d], emitted', laneSessions')
  BY <1>2, <1>3, <1>6, <1>9 DEF PullFits
<1>11. Runs(pulls[d])
  BY <1>1, <1>2 DEF Runs
<1>12. LaneRecords(laneSessions') /\ Spares(k, emitted, emitted') /\ Spares(k, laneSessions, laneSessions')
  BY <1>2, SparesItself DEF FomoInv
<1> QED
  BY <1>1, <1>2, <1>8, <1>10, <1>11, <1>12, StepKeeps

\* The connection goes on with nothing sent.
LEMMA QuietKeeps ==
  ASSUME FomoInv, NEW d \in FomoStreams, Runs(pulls[d]), NEW p, PullRecord(p),
         p.pc \in {"loop", "poll"}, Moves(d, p, charts[d]), pulls[d].pc # "snapshot",
         UNCHANGED <<newest, answer, emitted>>,
         Spares(StreamOwner[d], laneSessions, laneSessions'), LaneRecords(laneSessions'),
         FitsAnyChart(Queued(laneSessions', StreamOwner[d]))
  PROVE  FomoInv'
<1>1. PullFits(StreamOwner[d], pulls[d], charts[d], emitted, laneSessions)
  BY OwnFits
<1>2. pulls[d].pc \in {"loop", "poll", "fetch"}
  BY <1>1 DEF PullFits, PullRecord, Runs
<1>3. FitsChart(Queued(laneSessions', StreamOwner[d]), charts[d].target)
  BY FitsAny
<1>4. PullFits(StreamOwner[d], p, charts[d], emitted', laneSessions')
  BY <1>1, <1>2, <1>3 DEF PullFits
<1>5. Spares(StreamOwner[d], emitted, emitted')
  BY SparesItself
<1> QED
  BY <1>4, <1>5, StepKeeps

-----------------------------------------------------------------------------
(* Queued frames.                                                          *)

LEMMA FitsOne ==
  ASSUME NEW f, NEW t, f.kind \notin {"snapshot", "delta"}, f.kind = "price" => f.target = t
  PROVE  FitsChart(<<f>>, t)
<1>1. PICK q : q = <<f>>
  OBVIOUS
<1>2. q \in Seq({f}) /\ Len(q) = 1 /\ DOMAIN q = 1..1 /\ q[1] = f
  BY <1>1
<1>3. \A i \in DOMAIN q : q[i] = f
  BY <1>2
<1>4. {q[i] : i \in DOMAIN q} = {f}
  BY <1>2, <1>3
<1>5. IsSeq(q)
  BY <1>2, <1>4 DEF IsSeq
<1> QED
  BY <1>1, <1>3, <1>5 DEF FitsChart

LEMMA FitsIsAllIn ==
  ASSUME NEW q, NEW t
  PROVE  FitsChart(q, t) <=> \E S : q \in Seq(S) /\ \A f \in S : /\ f.kind \notin {"snapshot", "delta"}
                                                                 /\ f.kind = "price" => f.target = t
<1>1. ASSUME FitsChart(q, t)
      PROVE  \E S : q \in Seq(S) /\ \A f \in S : /\ f.kind \notin {"snapshot", "delta"}
                                                 /\ f.kind = "price" => f.target = t
  <2> DEFINE S == {q[i] : i \in DOMAIN q}
  <2>1. q \in Seq(S)
    BY <1>1 DEF FitsChart, IsSeq
  <2>2. \A f \in S : f.kind \notin {"snapshot", "delta"} /\ (f.kind = "price" => f.target = t)
    BY <1>1 DEF FitsChart
  <2> HIDE DEF S
  <2> QED
    BY <2>1, <2>2
<1>2. ASSUME NEW S, q \in Seq(S), \A f \in S : /\ f.kind \notin {"snapshot", "delta"}
                                               /\ f.kind = "price" => f.target = t
      PROVE  FitsChart(q, t)
  <2>1. Len(q) \in Nat /\ DOMAIN q = 1..Len(q) /\ q \in [1..Len(q) -> S]
    BY <1>2, LenProperties
  <2>2. q = [n \in 1..Len(q) |-> q[n]]
    BY <2>1
  <2>3. IsSeq(q)
    BY <2>1, <2>2, FunctionIsSeq
  <2>4. \A i \in DOMAIN q : q[i] \in S
    BY <2>1
  <2> QED
    BY <1>2, <2>3, <2>4 DEF FitsChart
<1> QED
  BY <1>1, <1>2

LEMMA FitsConcat ==
  ASSUME NEW a, NEW b, NEW t, FitsChart(a, t), FitsChart(b, t)
  PROVE  FitsChart(a \o b, t)
<1> DEFINE Good(f) == f.kind \notin {"snapshot", "delta"} /\ (f.kind = "price" => f.target = t)
<1>1. PICK A : a \in Seq(A) /\ \A f \in A : Good(f)
  BY FitsIsAllIn
<1>2. PICK B : b \in Seq(B) /\ \A f \in B : Good(f)
  BY FitsIsAllIn
<1>3. a \in Seq(A \cup B) /\ b \in Seq(A \cup B)
  BY <1>1, <1>2, SeqMonotonic
<1>4. a \o b \in Seq(A \cup B)
  BY <1>3, ConcatProperties
<1>5. \A f \in A \cup B : Good(f)
  BY <1>1, <1>2
<1> QED
  BY <1>4, <1>5, FitsIsAllIn

\* The first of the queue is sent, the rest stays.
LEMMA FitsHeadTail ==
  ASSUME NEW q, NEW t, FitsChart(q, t), q # << >>
  PROVE  /\ FitsChart(Tail(q), t)
         /\ Head(q).kind \notin {"snapshot", "delta"}
         /\ Head(q).kind = "price" => Head(q).target = t
<1> DEFINE Good(f) == f.kind \notin {"snapshot", "delta"} /\ (f.kind = "price" => f.target = t)
<1>1. PICK S : q \in Seq(S) /\ \A f \in S : Good(f)
  BY FitsIsAllIn
<1>2. Head(q) \in S /\ Tail(q) \in Seq(S)
  BY <1>1, HeadTailProperties
<1>3. FitsChart(Tail(q), t)
  BY <1>1, <1>2, FitsIsAllIn
<1> QED
  BY <1>1, <1>2, <1>3

\* A status fits behind what fits any chart.
LEMMA StatusFits ==
  ASSUME NEW q, FitsAnyChart(q), NEW label \in {"ws", "polling", "unavailable"}
  PROVE  FitsAnyChart(Append(q, StatusFrame(label))) /\ Append(q, StatusFrame(label)) # << >>
<1> DEFINE S == {q[i] : i \in DOMAIN q}
<1>1. q \in Seq(S) /\ \A f \in S : f.kind \notin {"snapshot", "delta", "price"}
  BY DEF FitsAnyChart, IsSeq
<1>2. PICK g : g = StatusFrame(label)
  OBVIOUS
<1>3. g.kind = label
  BY <1>2 DEF StatusFrame
<1> HIDE DEF S
<1>4. PICK T : T = S \cup {g}
  OBVIOUS
<1>5. q \in Seq(T) /\ g \in T
  BY <1>1, <1>4, SeqMonotonic
<1>6. PICK r : r = Append(q, g)
  OBVIOUS
<1>7. r \in Seq(T) /\ r # << >>
  BY <1>5, <1>6, AppendProperties
<1>8. Len(r) \in Nat /\ DOMAIN r = 1..Len(r) /\ r \in [1..Len(r) -> T]
  BY <1>7, LenProperties
<1>9. r = [n \in 1..Len(r) |-> r[n]]
  BY <1>8
<1>10. IsSeq(r)
  BY <1>8, <1>9, FunctionIsSeq
<1>11. \A f \in T : f.kind \notin {"snapshot", "delta", "price"}
  BY <1>1, <1>3, <1>4
<1>12. FitsAnyChart(r)
  BY <1>8, <1>10, <1>11 DEF FitsAnyChart
<1> QED
  BY <1>2, <1>6, <1>7, <1>12

-----------------------------------------------------------------------------
(* The lane.                                                               *)

\* A price is pushed only for the target charted last.
LEMMA LaneFits ==
  ASSUME NEW k, NEW t, NEW p, NEW target, k \in DOMAIN emitted => emitted[k] = target
  PROVE  FitsChart(LaneFrames(k, t, p).frames, target)
<1> DEFINE s == LaneSessionOf(k)
           fresh == laneHub.live /\ ~Switched(k, t)
           trending == fresh /\ laneHub.trending.generation \notin {0, s.trending}
           price == fresh /\ p # << >> /\ laneHub.prices[p].generation # s.price
           label == IF laneHub.live THEN "ws" ELSE "polling"
           a == IF trending THEN <<TrendingFrame>> ELSE << >>
           b == IF price THEN <<PriceFrame(t)>> ELSE << >>
           c == IF s.provenance # label THEN <<StatusFrame(label)>> ELSE << >>
<1>1. FitsChart(a, target)
  <2>1. TrendingFrame.kind = "trending"
    BY DEF TrendingFrame
  <2>2. FitsChart(<<TrendingFrame>>, target)
    BY <2>1, FitsOne
  <2> QED
    BY <2>2, FitsEmpty
<1>2. FitsChart(b, target)
  <2>1. PriceFrame(t).kind = "price" /\ PriceFrame(t).target = t
    BY DEF PriceFrame
  <2>2. price => t = target
    BY DEF Switched
  <2>3. price => FitsChart(<<PriceFrame(t)>>, target)
    BY <2>1, <2>2, FitsOne
  <2> QED
    BY <2>3, FitsEmpty
<1>3. FitsChart(c, target)
  <2>1. StatusFrame(label).kind \in {"ws", "polling"}
    BY DEF StatusFrame
  <2>2. FitsChart(<<StatusFrame(label)>>, target)
    BY <2>1, FitsOne
  <2> QED
    BY <2>2, FitsEmpty
<1>4. LaneFrames(k, t, p).frames = a \o b \o c
  BY DEF LaneFrames
<1> HIDE DEF a, b, c
<1>5. FitsChart(a \o b, target)
  BY <1>1, <1>2, FitsConcat
<1>6. FitsChart((a \o b) \o c, target)
  BY <1>3, <1>5, FitsConcat
<1> QED
  BY <1>4, <1>6

\* A frame of the lane comes with the session's bookkeeping.
LEMMA LaneTouches ==
  ASSUME NEW k, NEW t, NEW p, LaneFrames(k, t, p).frames # << >>
  PROVE  LaneFrames(k, t, p).touched
<1> DEFINE s == LaneSessionOf(k)
           fresh == laneHub.live /\ ~Switched(k, t)
           trending == fresh /\ laneHub.trending.generation \notin {0, s.trending}
           price == fresh /\ p # << >> /\ laneHub.prices[p].generation # s.price
           label == IF laneHub.live THEN "ws" ELSE "polling"
<1>1. LaneFrames(k, t, p).frames = (IF trending THEN <<TrendingFrame>> ELSE << >>)
                                   \o (IF price THEN <<PriceFrame(t)>> ELSE << >>)
                                   \o (IF s.provenance # label THEN <<StatusFrame(label)>> ELSE << >>)
  BY DEF LaneFrames
<1>2. LaneFrames(k, t, p).touched = (trending \/ price \/ s.provenance # label
                                     \/ (laneHub.live /\ Switched(k, t)))
  BY DEF LaneFrames
<1>3. ASSUME ~trending, ~price, s.provenance = label PROVE FALSE
  <2>1. LaneFrames(k, t, p).frames = << >> \o << >> \o << >>
    BY <1>1, <1>3
  <2>2. << >> \o << >> \o << >> = << >>
    OBVIOUS
  <2> QED
    BY <2>1, <2>2
<1> HIDE DEF trending, price, label, s
<1> QED
  BY <1>2, <1>3

LEMMA LaneSessionRecord ==
  ASSUME NEW k, NEW t, NEW p
  PROVE  LaneRecord(LaneFrames(k, t, p).session) /\ LaneFrames(k, t, p).session.pending = << >>
<1>1. PICK x, y, z : LaneFrames(k, t, p).session
                       = [provenance |-> x, trending |-> y, price |-> z, pending |-> << >>]
  BY DEF LaneFrames
<1>2. PICK s : s = LaneFrames(k, t, p).session
  OBVIOUS
<1>3. LaneRecord(s) /\ s.pending = << >>
  BY <1>1, <1>2 DEF LaneRecord
<1> QED
  BY <1>2, <1>3

LEMMA PullLaneKeeps ==
  ASSUME FomoInv, NEW d \in FomoStreams, PullLane(d)
  PROVE  FomoInv'
<1>1. PICK k, t, queued, target : /\ k = StreamOwner[d] /\ t = ResolveTarget(k)
                                  /\ queued = LaneSessionOf(k).pending /\ target = charts[d].target
  OBVIOUS
<1>2. pulls[d].pc = "loop" /\ Runs(pulls[d]) /\ UNCHANGED <<emitted, newest, answer>>
  BY DEF PullLane, Runs
<1>3. PullFits(k, pulls[d], charts[d], emitted, laneSessions)
  BY <1>1, OwnFits
<1>4. FitsChart(queued, target) /\ (k \in DOMAIN emitted => emitted[k] = target)
  BY <1>1, <1>2, <1>3, SessionIsRecord DEF PullFits
<1>5. Spares(k, emitted, emitted') /\ (k \in DOMAIN emitted' => emitted'[k] = target)
  BY <1>2, <1>4, SparesItself
<1>6. CASE queued # << >>
  <2>1. /\ laneSessions' = [laneSessions EXCEPT ![k].pending = Tail(@)]
        /\ Deliver(d, Head(queued), "loop")
    BY <1>1, <1>6 DEF PullLane
  <2>2. k \in DOMAIN laneSessions /\ laneSessions[k].pending = queued
    BY <1>1, <1>6, SessionIsRecord DEF Queued
  <2>3. PICK s, u : s = laneSessions[k] /\ u = [s EXCEPT !.pending = Tail(queued)]
    OBVIOUS
  <2>4. LaneRecord(s)
    BY <2>2, <2>3 DEF FomoInv, LaneRecords
  <2>5. LaneRecord(u) /\ u.pending = Tail(queued)
    BY <2>3, <2>4 DEF LaneRecord
  <2>6. EnteredAs(k, laneSessions, laneSessions', u)
    BY <2>1, <2>2, <2>3 DEF EnteredAs, Spares
  <2>7. LaneRecords(laneSessions')
    BY <2>5, <2>6, InsertedRecords DEF FomoInv
  <2>8. Spares(k, laneSessions, laneSessions') /\ Queued(laneSessions', k) = Tail(queued)
    BY <2>5, <2>6 DEF EnteredAs, Queued
  <2>9. PICK f : f = Head(queued)
    OBVIOUS
  <2>10. FitsChart(Tail(queued), target) /\ f.kind \notin {"snapshot", "delta"}
         /\ (f.kind = "price" => f.target = target)
    BY <1>4, <1>6, <2>9, FitsHeadTail
  <2>11. FrameFits(f, charts[d])
    BY <1>1, <2>10 DEF FrameFits
  <2>12. FitsChart(Queued(laneSessions', k), target)
    BY <2>8, <2>10
  <2> QED
    BY <1>1, <1>2, <1>5, <2>1, <2>7, <2>8, <2>9, <2>10, <2>11, <2>12, DeliverKeeps
<1>7. CASE queued = << >>
  <2>1. PICK p : LET lane == LaneFrames(k, t, p)
                     s == IF lane.frames = << >> THEN lane.session
                          ELSE [lane.session EXCEPT !.pending = Tail(lane.frames)]
                 IN  /\ IF lane.touched THEN laneSessions' \in Inserted(laneSessions, k, s)
                                        ELSE UNCHANGED laneSessions
                     /\ IF lane.frames # << >> THEN Deliver(d, Head(lane.frames), "loop")
                        ELSE pulls' = [pulls EXCEPT ![d].pc = "poll"] /\ UNCHANGED charts
    BY <1>1, <1>7 DEF PullLane
  <2>2. PICK frames, ss, touched : /\ frames = LaneFrames(k, t, p).frames
                                   /\ ss = LaneFrames(k, t, p).session
                                   /\ touched = LaneFrames(k, t, p).touched
    OBVIOUS
  <2>3. LaneRecord(ss) /\ ss.pending = << >> /\ FitsChart(frames, target)
        /\ (frames # << >> => touched)
    BY <1>4, <2>2, LaneFits, LaneTouches, LaneSessionRecord
  <2>4. CASE frames = << >>
    <3>1. pulls' = [pulls EXCEPT ![d].pc = "poll"] /\ UNCHANGED charts
      BY <2>1, <2>2, <2>4
    <3>2. \/ laneSessions' \in Inserted(laneSessions, k, ss) \/ UNCHANGED laneSessions
      BY <2>1, <2>2, <2>4
    <3>3. /\ LaneRecords(laneSessions') /\ Spares(k, laneSessions, laneSessions')
          /\ Queued(laneSessions', k) = << >>
      <4>1. CASE laneSessions' \in Inserted(laneSessions, k, ss)
        <5>1. EnteredAs(k, laneSessions, laneSessions', ss)
          BY <4>1, InsertedSpares
        <5>2. LaneRecords(laneSessions')
          BY <2>3, <5>1, InsertedRecords DEF FomoInv
        <5> QED
          BY <2>3, <5>1, <5>2 DEF EnteredAs, Queued
      <4>2. CASE UNCHANGED laneSessions
        <5>1. Queued(laneSessions, k) = << >>
          BY <1>1, <1>7, SessionIsRecord
        <5> QED
          BY <4>2, <5>1, SparesItself DEF FomoInv, Queued
      <4> QED
        BY <3>2, <4>1, <4>2
    <3>4. PICK x, q : x = pulls[d] /\ q = [x EXCEPT !.pc = "poll"]
      OBVIOUS
    <3>5. PullRecord(x)
      BY <1>3, <3>4 DEF PullFits
    <3>6. PullRecord(q) /\ q.pc = "poll"
      BY <3>4, <3>5 DEF PullRecord
    <3>7. Moves(d, q, charts[d])
      BY <3>1, <3>4 DEF Moves, FomoInv
    <3>8. FitsAnyChart(Queued(laneSessions', k))
      BY <3>3, FitsEmpty
    <3>9. pulls[d].pc # "snapshot"
      BY <1>2
    <3> QED
      BY <1>1, <1>2, <3>3, <3>6, <3>7, <3>8, <3>9, QuietKeeps
  <2>5. CASE frames # << >>
    <3>1. PICK u : u = [ss EXCEPT !.pending = Tail(frames)]
      OBVIOUS
    <3>2. laneSessions' \in Inserted(laneSessions, k, u) /\ Deliver(d, Head(frames), "loop")
      BY <2>1, <2>2, <2>3, <2>5, <3>1
    <3>3. LaneRecord(u) /\ u.pending = Tail(frames)
      BY <2>3, <3>1 DEF LaneRecord
    <3>4. EnteredAs(k, laneSessions, laneSessions', u)
      BY <3>2, InsertedSpares
    <3>5. LaneRecords(laneSessions')
      BY <3>3, <3>4, InsertedRecords DEF FomoInv
    <3>6. Spares(k, laneSessions, laneSessions') /\ Queued(laneSessions', k) = Tail(frames)
      BY <3>3, <3>4 DEF EnteredAs, Queued
    <3>7. PICK f : f = Head(frames)
      OBVIOUS
    <3>8. FitsChart(Tail(frames), target) /\ f.kind \notin {"snapshot", "delta"}
          /\ (f.kind = "price" => f.target = target)
      BY <2>3, <2>5, <3>7, FitsHeadTail
    <3>9. FrameFits(f, charts[d])
      BY <1>1, <3>8 DEF FrameFits
    <3>10. FitsChart(Queued(laneSessions', k), target)
      BY <3>6, <3>8
    <3> QED
      BY <1>1, <1>2, <1>5, <3>2, <3>5, <3>6, <3>7, <3>8, <3>9, <3>10, DeliverKeeps
  <2> QED
    BY <2>4, <2>5
<1> QED
  BY <1>6, <1>7

-----------------------------------------------------------------------------
(* The answer of a poll.                                                   *)

\* What a connection that awaits its poll knows of the queue.
LEMMA FetchFits ==
  ASSUME FomoInv, NEW d \in FomoStreams, pulls[d].pc = "fetch", NEW k, k = StreamOwner[d],
         NEW s, s = LaneSessionOf(k)
  PROVE  /\ Runs(pulls[d]) /\ LaneRecord(s) /\ FitsAnyChart(s.pending)
         /\ s.pending = Queued(laneSessions, k)
         /\ PullFits(k, pulls[d], charts[d], emitted, laneSessions)
<1>1. PullFits(k, pulls[d], charts[d], emitted, laneSessions)
  BY OwnFits
<1>2. LaneRecord(s) /\ s.pending = Queued(laneSessions, k)
  BY SessionIsRecord
<1> QED
  BY <1>1, <1>2 DEF PullFits, Runs

\* The pull loops with another count of failures.
LEMMA LoopMoves ==
  ASSUME FomoInv, NEW d \in FomoStreams, NEW n,
         pulls' = [pulls EXCEPT ![d].pc = "loop", ![d].failures = n], UNCHANGED charts
  PROVE  \E q : PullRecord(q) /\ q.pc = "loop" /\ Moves(d, q, charts[d])
<1>1. PICK x, q : x = pulls[d] /\ q = [x EXCEPT !.pc = "loop", !.failures = n]
  OBVIOUS
<1>2. PullRecord(x)
  BY <1>1 DEF FomoInv, PullFits
<1>3. PullRecord(q) /\ q.pc = "loop"
  BY <1>1, <1>2 DEF PullRecord
<1>4. Moves(d, q, charts[d])
  BY <1>1 DEF Moves, FomoInv
<1> QED
  BY <1>3, <1>4

LEMMA FailedKeeps ==
  ASSUME FomoInv, NEW d \in FomoStreams, pulls[d].pc = "fetch", PullFailed(d),
         UNCHANGED <<emitted, newest, answer>>
  PROVE  FomoInv'
<1>1. PICK k, s, target : k = StreamOwner[d] /\ s = LaneSessionOf(k) /\ target = charts[d].target
  OBVIOUS
<1>2. /\ Runs(pulls[d]) /\ LaneRecord(s) /\ FitsAnyChart(s.pending)
      /\ s.pending = Queued(laneSessions, k)
      /\ PullFits(k, pulls[d], charts[d], emitted, laneSessions)
  BY <1>1, FetchFits
<1>3. PICK q, f : q = Append(s.pending, StatusFrame("unavailable")) /\ f = Head(q)
  OBVIOUS
<1>4. CASE EndStream(d) /\ UNCHANGED laneSessions
  BY <1>2, <1>4, EndKeeps
<1>5. CASE /\ laneSessions' \in Inserted(laneSessions, k,
                  [s EXCEPT !.provenance = "unavailable", !.pending = Tail(q)])
           /\ Deliver(d, f, "loop")
  <2>1. FitsAnyChart(q) /\ q # << >>
    BY <1>2, <1>3, StatusFits
  <2>2. FitsChart(q, target)
    BY <2>1, FitsAny
  <2>3. /\ FitsChart(Tail(q), target) /\ f.kind \notin {"snapshot", "delta"}
        /\ f.kind = "price" => f.target = target
    BY <1>3, <2>1, <2>2, FitsHeadTail
  <2>4. PICK u : u = [s EXCEPT !.provenance = "unavailable", !.pending = Tail(q)]
    OBVIOUS
  <2>5. LaneRecord(u) /\ u.pending = Tail(q)
    BY <1>2, <2>4 DEF LaneRecord
  <2>6. EnteredAs(k, laneSessions, laneSessions', u)
    BY <1>5, <2>4, InsertedSpares
  <2>7. LaneRecords(laneSessions')
    BY <2>5, <2>6, InsertedRecords DEF FomoInv
  <2>8. Spares(k, laneSessions, laneSessions') /\ Queued(laneSessions', k) = Tail(q)
    BY <2>5, <2>6 DEF EnteredAs, Queued
  <2>9. FrameFits(f, charts[d])
    BY <1>1, <2>3 DEF FrameFits
  <2>10. FitsChart(Queued(laneSessions', k), target)
    BY <2>3, <2>8
  <2>11. Spares(k, emitted, emitted') /\ (k \in DOMAIN emitted' => emitted'[k] = target)
    BY <1>1, <1>2, SparesItself DEF PullFits
  <2> QED
    BY <1>1, <1>2, <1>5, <2>3, <2>7, <2>8, <2>9, <2>10, <2>11, DeliverKeeps
<1>6. CASE /\ pulls' = [pulls EXCEPT ![d].pc = "loop", ![d].failures = pulls[d].failures + 1]
           /\ UNCHANGED <<laneSessions, charts>>
  <2>1. PICK p : PullRecord(p) /\ p.pc = "loop" /\ Moves(d, p, charts[d])
    BY <1>6, LoopMoves
  <2>2. /\ Spares(k, laneSessions, laneSessions') /\ LaneRecords(laneSessions')
        /\ FitsAnyChart(Queued(laneSessions', k))
    BY <1>2, <1>6, SparesItself DEF FomoInv
  <2>3. p.pc \in {"loop", "poll"} /\ pulls[d].pc # "snapshot"
    BY <2>1
  <2> QED
    BY <1>1, <1>2, <2>1, <2>2, <2>3, QuietKeeps
<1>7. \/ EndStream(d) /\ UNCHANGED laneSessions
      \/ /\ laneSessions' \in Inserted(laneSessions, k,
                [s EXCEPT !.provenance = "unavailable", !.pending = Tail(q)])
         /\ Deliver(d, f, "loop")
      \/ /\ pulls' = [pulls EXCEPT ![d].pc = "loop", ![d].failures = pulls[d].failures + 1]
         /\ UNCHANGED <<laneSessions, charts>>
  BY <1>1, <1>3 DEF PullFailed
<1> QED
  BY <1>4, <1>5, <1>6, <1>7

LEMMA FetchedKeeps ==
  ASSUME FomoInv, NEW d \in FomoStreams, NEW got, PullFetched(d, got)
  PROVE  FomoInv'
<1>1. PICK k, s, t, target : /\ k = StreamOwner[d] /\ s = LaneSessionOf(k)
                             /\ t = pulls[d].target /\ target = charts[d].target
  OBVIOUS
<1>2. pulls[d].pc = "fetch" /\ UNCHANGED <<newest, answer>>
  BY DEF PullFetched
<1>3. /\ Runs(pulls[d]) /\ LaneRecord(s) /\ FitsAnyChart(s.pending)
      /\ s.pending = Queued(laneSessions, k)
      /\ PullFits(k, pulls[d], charts[d], emitted, laneSessions)
  BY <1>1, <1>2, FetchFits
<1>4. CASE got = "failed"
  <2>1. PullFailed(d) /\ UNCHANGED emitted
    BY <1>4 DEF PullFetched
  <2> QED
    BY <1>2, <2>1, FailedKeeps
<1>5. CASE got # "failed"
  <2>1. \/ laneSessions' \in Inserted(laneSessions, k,
              [s EXCEPT !.provenance = "polling", !.pending = Append(@, StatusFrame("polling"))])
        \/ UNCHANGED laneSessions
    BY <1>1, <1>5 DEF PullFetched
  <2>2. /\ LaneRecords(laneSessions') /\ Spares(k, laneSessions, laneSessions')
        /\ FitsAnyChart(Queued(laneSessions', k))
    <3>1. CASE laneSessions' \in Inserted(laneSessions, k,
                 [s EXCEPT !.provenance = "polling", !.pending = Append(@, StatusFrame("polling"))])
      <4>1. PICK q, u : /\ q = Append(s.pending, StatusFrame("polling"))
                        /\ u = [s EXCEPT !.provenance = "polling", !.pending = q]
        OBVIOUS
      <4>2. FitsAnyChart(q)
        BY <1>3, <4>1, StatusFits
      <4>3. LaneRecord(u) /\ u.pending = q
        BY <1>3, <4>1 DEF LaneRecord
      <4>4. EnteredAs(k, laneSessions, laneSessions', u)
        BY <3>1, <4>1, InsertedSpares
      <4>5. LaneRecords(laneSessions')
        BY <4>3, <4>4, InsertedRecords DEF FomoInv
      <4> QED
        BY <4>2, <4>3, <4>4, <4>5 DEF EnteredAs, Queued
    <3>2. CASE UNCHANGED laneSessions
      BY <1>3, <3>2, SparesItself DEF FomoInv
    <3> QED
      BY <2>1, <3>1, <3>2
  <2>3. CASE got = "empty"
    <3>1. pulls' = [pulls EXCEPT ![d].pc = "loop", ![d].failures = 0] /\ UNCHANGED <<emitted, charts>>
      BY <1>5, <2>3 DEF PullFetched
    <3>2. PICK p : PullRecord(p) /\ p.pc = "loop" /\ Moves(d, p, charts[d])
      BY <3>1, LoopMoves
    <3>3. p.pc \in {"loop", "poll"} /\ pulls[d].pc # "snapshot"
      BY <1>2, <3>2
    <3> QED
      BY <1>1, <1>2, <1>3, <2>2, <3>1, <3>2, <3>3, QuietKeeps
  <2>4. CASE got # "empty" /\ pulls[d].switched
    <3>1. emitted' \in Inserted(emitted, k, t) /\ Deliver(d, SnapshotFrame(t), "loop")
      BY <1>1, <1>5, <2>4 DEF PullFetched
    <3>2. EnteredAs(k, emitted, emitted', t)
      BY <3>1, InsertedSpares
    <3>3. Spares(k, emitted, emitted') /\ k \in DOMAIN emitted' /\ emitted'[k] = t
      BY <3>2 DEF EnteredAs
    <3>4. PICK f : f = SnapshotFrame(t)
      OBVIOUS
    <3>5. f.kind = "snapshot" /\ f.target = t
      BY <3>4 DEF SnapshotFrame
    <3>6. FrameFits(f, charts[d])
      BY <3>5 DEF FrameFits
    <3>7. FitsChart(Queued(laneSessions', k), t)
      BY <2>2, FitsAny
    <3> QED
      BY <1>1, <1>2, <1>3, <2>2, <3>1, <3>3, <3>4, <3>5, <3>6, <3>7, DeliverKeeps
  <2>5. CASE got # "empty" /\ ~pulls[d].switched
    <3>1. UNCHANGED emitted /\ Deliver(d, DeltaFrame(t), "loop")
      BY <1>1, <1>5, <2>5 DEF PullFetched
    <3>2. t = target
      BY <1>1, <1>2, <1>3, <2>5 DEF PullFits
    <3>3. PICK f : f = DeltaFrame(t)
      OBVIOUS
    <3>4. f.kind = "delta" /\ f.target = t
      BY <3>3 DEF DeltaFrame
    <3>5. FrameFits(f, charts[d])
      BY <1>1, <3>2, <3>4 DEF FrameFits
    <3>6. FitsChart(Queued(laneSessions', k), target)
      BY <2>2, FitsAny
    <3>7. Spares(k, emitted, emitted') /\ (k \in DOMAIN emitted' => emitted'[k] = target)
      BY <1>1, <1>2, <1>3, <3>1, SparesItself DEF PullFits
    <3> QED
      BY <1>1, <1>2, <1>3, <2>2, <3>1, <3>3, <3>4, <3>5, <3>6, <3>7, DeliverKeeps
  <2> QED
    BY <2>3, <2>4, <2>5
<1> QED
  BY <1>4, <1>5

-----------------------------------------------------------------------------
(* Opening and ending a connection.                                        *)

\* The bookkeeping of a session that starts over.
LEMMA OpenFits ==
  ASSUME FomoInv, NEW d \in FomoStreams, OpenSnapshot(d), emitted' = emitted
  PROVE  \E p : /\ PullRecord(p) /\ p.pc = "snapshot"
                /\ pulls'[d] = p /\ DOMAIN pulls' = FomoStreams
                /\ \A e \in FomoStreams \ {d} : pulls'[e] = pulls[e]
                /\ LaneRecords(laneSessions')
                /\ Spares(StreamOwner[d], laneSessions, laneSessions')
                /\ Spares(StreamOwner[d], emitted, emitted')
                /\ StreamOwner[d] \notin DOMAIN laneSessions'
<1>1. PICK k, t, i, p : /\ k = StreamOwner[d] /\ t = ResolveTarget(k)
                        /\ i = IdlePull /\ p = [i EXCEPT !.pc = "snapshot", !.target = t]
  OBVIOUS
<1>2. PullRecord(i)
  BY <1>1 DEF IdlePull, PullRecord
<1>3. PullRecord(p) /\ p.pc = "snapshot"
  BY <1>1, <1>2 DEF PullRecord
<1>4. pulls' = [pulls EXCEPT ![d] = p]
  BY <1>1 DEF OpenSnapshot
<1>5. laneSessions' = [x \in DOMAIN laneSessions \ {k} |-> laneSessions[x]]
  BY <1>1 DEF OpenSnapshot
<1>6. pulls'[d] = p /\ DOMAIN pulls' = FomoStreams /\ \A e \in FomoStreams \ {d} : pulls'[e] = pulls[e]
  BY <1>4 DEF FomoInv
<1>7. LaneRecords(laneSessions')
  BY <1>5 DEF FomoInv, LaneRecords
<1>8. Spares(k, laneSessions, laneSessions') /\ k \notin DOMAIN laneSessions'
  BY <1>5 DEF Spares
<1>9. Spares(k, emitted, emitted')
  BY SparesItself
<1> QED
  BY <1>1, <1>3, <1>6, <1>7, <1>8, <1>9

LEMMA SnapshotFits ==
  ASSUME NEW k, NEW p, PullRecord(p), p.pc = "snapshot", NEW chart, NEW em, NEW ls, k \notin DOMAIN ls,
         chart.kind \in {"delta", "price"} => chart.about = chart.target
  PROVE  PullFits(k, p, chart, em, ls)
BY DEF PullFits

LEMMA ConnectKeeps ==
  ASSUME Overlap = FALSE, FomoInv, NEW d \in FomoStreams, StreamConnect(d)
  PROVE  FomoInv'
<1>1. /\ ~Running(d) /\ \A e \in FomoStreams : StreamOwner[e] = StreamOwner[d] => ~Running(e)
      /\ newest' = [newest EXCEPT ![StreamOwner[d]] = d] /\ OpenSnapshot(d)
      /\ charts' = [charts EXCEPT ![d] = NoChart] /\ UNCHANGED <<emitted, answer>>
  BY DEF StreamConnect
<1>2. PICK p : /\ PullRecord(p) /\ p.pc = "snapshot"
               /\ pulls'[d] = p /\ DOMAIN pulls' = FomoStreams
               /\ \A e \in FomoStreams \ {d} : pulls'[e] = pulls[e]
               /\ LaneRecords(laneSessions')
               /\ Spares(StreamOwner[d], laneSessions, laneSessions')
               /\ Spares(StreamOwner[d], emitted, emitted')
               /\ StreamOwner[d] \notin DOMAIN laneSessions'
  BY <1>1, OpenFits
<1>3. Moves(d, p, NoChart)
  BY <1>1, <1>2 DEF Moves, FomoInv
<1>4. StreamOwner[d] \in FomoKids
  BY FomoAssumption
<1>5. Holds(d)
  BY <1>1, <1>4 DEF Holds, FomoInv
<1>6. \A e \in FomoStreams \ {d} : StreamOwner[e] = StreamOwner[d] => ~Runs(pulls[e])
  BY <1>1 DEF Running, Runs
<1>7. NoChart.kind = "none"
  BY DEF NoChart
<1>8. PullFits(StreamOwner[d], p, NoChart, emitted', laneSessions')
  BY <1>2, <1>7, SnapshotFits
<1>9. AnswerOK(answer')
  BY <1>1 DEF FomoInv
<1> QED
  BY <1>2, <1>3, <1>5, <1>6, <1>8, <1>9, MoveKeeps

LEMMA ResyncKeeps ==
  ASSUME FomoInv, NEW d \in FomoStreams, StreamResync(d)
  PROVE  FomoInv'
<1>1. /\ pulls[d].pc \in {"poll", "fetch"} /\ OpenSnapshot(d)
      /\ UNCHANGED <<emitted, newest, charts, answer>>
  BY DEF StreamResync
<1>2. PICK p : /\ PullRecord(p) /\ p.pc = "snapshot"
               /\ pulls'[d] = p /\ DOMAIN pulls' = FomoStreams
               /\ \A e \in FomoStreams \ {d} : pulls'[e] = pulls[e]
               /\ LaneRecords(laneSessions')
               /\ Spares(StreamOwner[d], laneSessions, laneSessions')
               /\ Spares(StreamOwner[d], emitted, emitted')
               /\ StreamOwner[d] \notin DOMAIN laneSessions'
  BY <1>1, OpenFits
<1>3. Moves(d, p, charts[d])
  BY <1>1, <1>2 DEF Moves, FomoInv
<1>4. Runs(pulls[d])
  BY <1>1 DEF Runs
<1>5. charts[d].kind \in {"delta", "price"} => charts[d].about = charts[d].target
  BY OwnFits DEF PullFits
<1>6. PullFits(StreamOwner[d], p, charts[d], emitted', laneSessions')
  BY <1>2, <1>5, SnapshotFits
<1> QED
  BY <1>1, <1>2, <1>3, <1>4, <1>6, StepKeeps

-----------------------------------------------------------------------------
(* The theorem.                                                            *)

LEMMA FomoInitInv == ASSUME FomoInit PROVE FomoInv
<1>1. /\ pulls = [d \in FomoStreams |-> IdlePull] /\ charts = [d \in FomoStreams |-> NoChart]
      /\ newest = [k \in FomoKids |-> "none"] /\ laneSessions = << >> /\ answer = NoAnswer
  BY DEF FomoInit
<1>2. IdlePull.pc = "idle" /\ PullRecord(IdlePull)
  BY DEF IdlePull, PullRecord
<1>3. NoChart.kind = "none"
  BY DEF NoChart
<1>4. LaneRecords(laneSessions)
  BY <1>1 DEF LaneRecords
<1>5. OneRuns(pulls, newest)
  BY <1>1, <1>2 DEF OneRuns, Runs
<1>6. ASSUME NEW d \in FomoStreams
      PROVE  PullFits(StreamOwner[d], pulls[d], charts[d], emitted, laneSessions)
  BY <1>1, <1>2, <1>3 DEF PullFits
<1>7. AnswerOK(answer)
  BY <1>1, NoAnswerOK
<1> QED
  BY <1>1, <1>4, <1>5, <1>6, <1>7 DEF FomoInv

LEMMA FomoUnmoved ==
  ASSUME FomoInv, UNCHANGED <<pulls, charts, newest, laneSessions, emitted>>, AnswerOK(answer')
  PROVE  FomoInv'
BY DEF FomoInv

LEMMA FomoStep ==
  ASSUME Overlap = FALSE, FomoInv, [FomoReadNext \/ FomoStreamNext]_fomoVars
  PROVE  FomoInv'
<1>1. AnswerOK(answer)
  BY DEF FomoInv
<1>2. CASE FomoReadNext
  <2>1. UNCHANGED <<pulls, charts, newest, laneSessions, emitted>>
    BY <1>2 DEF FomoReadNext, GetChart, GetTrending, GetToken, GetTokenHolders, GetTokenAbout,
                GetTokenActivity, BridgeRead, UnchangedButReads
  <2>2. AnswerOK(answer')
    BY <1>1, <1>2, ReadsAreTheTokens
  <2> QED
    BY <2>1, <2>2, FomoUnmoved
<1>3. CASE \E k \in FomoKids, t \in TargetRequests : SetRealtimeTarget(k, t)
  BY <1>1, <1>3, FomoUnmoved DEF SetRealtimeTarget
<1>4. CASE LaneNext
  <2>1. UNCHANGED <<pulls, charts, newest, laneSessions, emitted, answer>>
    BY <1>4 DEF LaneNext, LanePublish, LaneFetch, LaneSilent
  <2> QED
    BY <1>1, <2>1, FomoUnmoved
<1>5. ASSUME NEW d \in FomoStreams, StreamConnect(d) \/ StreamResync(d) \/ StreamDrop(d) \/ StreamPulls(d)
      PROVE  FomoInv'
  <2>1. CASE StreamConnect(d)
    BY <2>1, ConnectKeeps
  <2>2. CASE StreamResync(d)
    BY <2>2, ResyncKeeps
  <2>3. CASE StreamDrop(d)
    BY <2>3, EndKeeps DEF StreamDrop, Running, Runs
  <2>4. CASE StreamPulls(d)
    BY <2>4, SnapshotKeeps, FetchedKeeps, PullLaneKeeps, ResolveKeeps DEF StreamPulls
  <2> QED
    BY <1>5, <2>1, <2>2, <2>3, <2>4
<1>6. CASE UNCHANGED fomoVars
  BY <1>1, <1>6, FomoUnmoved DEF fomoVars
<1> QED
  BY <1>2, <1>3, <1>4, <1>5, <1>6 DEF FomoStreamNext

LEMMA FomoInvKeepsTokens == ASSUME FomoInv PROVE TokensAreNotMixedUp
<1>1. FramesFitTheChart
  BY DEF FomoInv, PullFits, FramesFitTheChart
<1>2. AnswersAreTheTokens
  BY AnswerIsTheTokens DEF FomoInv
<1> QED
  BY <1>1, <1>2 DEF TokensAreNotMixedUp

\* For every set of sessions, connections, targets, pushed events and answers of the bridge, and
\* every limit of the registries: as long as a session does not reconnect before its old
\* connection ended, each bar and each price a client is sent belongs to the chart it was last
\* given, and each rendered read was reported of the token asked for (FomoSessionStreamSource,
\* identity_matches, holders_json, normalize_bars).
THEOREM TokensNotMixedUp ==
  ASSUME Overlap = FALSE
  PROVE  FomoSpec => []TokensAreNotMixedUp
<1>1. FomoInit => FomoInv
  BY FomoInitInv
<1>2. FomoInv /\ [FomoReadNext \/ FomoStreamNext]_fomoVars => FomoInv'
  BY FomoStep
<1>3. FomoInv => TokensAreNotMixedUp
  BY FomoInvKeepsTokens
<1> QED
  BY <1>1, <1>2, <1>3, PTL DEF FomoSpec
=============================================================================
