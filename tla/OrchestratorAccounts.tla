------------------------ MODULE OrchestratorAccounts ------------------------
(***************************************************************************)
(* The accounts of an order: its ledger, its attempt journal and what the  *)
(* chain did agree, for every order, every number of cancels, faults,      *)
(* crashes and dropped calls, and every history of the chain, as long as   *)
(* one tick loop runs (composition.rs starts one).                         *)
(*                                                                         *)
(* The invariant has three parts.  Accounts says what the order, the       *)
(* journal and the chain say of each other: nothing is under way and they  *)
(* are equal, or the latest attempt is and the order lags by its chunk, or *)
(* the order is closed.  Knows says, for each await of a tick or of a      *)
(* recovery pass, what the call may still rely on: its snapshot is the     *)
(* stored object, or a cancellation has been appended since, and the chunk *)
(* it is about to bind is safe.  FatesOrdered says that at most the latest *)
(* attempt is undecided.                                                   *)
(*                                                                         *)
(* Sums over attempts are what the model's folds compute: the first part   *)
(* proves it, by induction on the cardinality of a set.                    *)
(***************************************************************************)
EXTENDS OrchestratorProofs, WellFoundedInduction

\* Least member of a set of naturals.
LEMMA LeastMember ==
    ASSUME NEW T \in SUBSET Nat, NEW k \in T
    PROVE  \E m \in T : \A n \in T : m <= n
<1> DEFINE R == OpToRel(<, Nat)
<1>1. IsWellFoundedOn(R, Nat)
  BY NatLessThanWellFounded
<1>2. \A m, n \in Nat : m < n => <<m, n>> \in R
  BY DEF OpToRel
<1> HIDE DEF R
<1>3. PICK m \in T : \A n \in T : ~(<<n, m>> \in R)
  BY <1>1, WFMin
<1>4. ASSUME NEW n \in T PROVE m <= n
  <2>1. m \in Nat /\ n \in Nat /\ ~(n < m)
    BY <1>2, <1>3
  <2> QED
    BY <2>1
<1> QED
  BY <1>4

\* Induction over the naturals for a set.
LEMMA SetInduction ==
    ASSUME NEW T, 0 \in T, \A n \in Nat : n \in T => n + 1 \in T
    PROVE  Nat \subseteq T
<1> SUFFICES ASSUME NEW k \in Nat \ T PROVE FALSE
  OBVIOUS
<1>1. PICK m \in Nat \ T : \A n \in Nat \ T : m <= n
  <2> DEFINE U == Nat \ T
  <2>1. U \in SUBSET Nat /\ k \in U
    OBVIOUS
  <2> HIDE DEF U
  <2>2. \E m \in U : \A n \in U : m <= n
    BY <2>1, LeastMember
  <2> QED
    BY <2>2 DEF U
<1>2. m # 0 /\ m - 1 \in Nat /\ m - 1 \in T
  BY <1>1
<1>3. (m - 1) + 1 \in T
  BY <1>2
<1> QED
  BY <1>1, <1>3

Pick(s) == CHOOSE x \in s : TRUE

\* f adds up g over the subset u of S.
Adds(f, g, u) == f[u] = IF u = {} THEN 0 ELSE g[Pick(u)] + f[u \ {Pick(u)}]

IsSum(f, g, S) == f \in [SUBSET S -> Nat] /\ \A u \in SUBSET S : Adds(f, g, u)

\* The sum of g over S.
SumOver(g, S) == (CHOOSE f : IsSum(f, g, S))[S]

LEMMA PickIn == ASSUME NEW s, s # {} PROVE Pick(s) \in s
BY DEF Pick

LEMMA SumExists ==
    ASSUME NEW S, IsFiniteSet(S), NEW g \in [S -> Nat]
    PROVE  \E f : IsSum(f, g, S)
<1> DEFINE Upto(f, k) == \A u \in SUBSET S : Cardinality(u) <= k => Adds(f, g, u)
           T == {k \in Nat : \E f \in [SUBSET S -> Nat] : Upto(f, k)}
<1>1. \A u \in SUBSET S : IsFiniteSet(u) /\ Cardinality(u) \in Nat
  BY FS_Subset, FS_CardinalityType
<1>2. 0 \in T
  <2> DEFINE z == [u \in SUBSET S |-> 0]
  <2>1. z \in [SUBSET S -> Nat]
    OBVIOUS
  <2>2. ASSUME NEW u \in SUBSET S, Cardinality(u) <= 0 PROVE Adds(z, g, u)
    <3>1. u = {}
      BY <1>1, <2>2, FS_EmptySet
    <3> QED
      BY <3>1 DEF Adds
  <2> QED
    BY <2>1, <2>2
<1>3. ASSUME NEW k \in Nat, k \in T PROVE k + 1 \in T
  <2>1. PICK f \in [SUBSET S -> Nat] : Upto(f, k)
    BY <1>3
  <2> DEFINE h == [u \in SUBSET S |-> IF u = {} THEN 0 ELSE g[Pick(u)] + f[u \ {Pick(u)}]]
  <2>2. ASSUME NEW u \in SUBSET S, u # {} PROVE Pick(u) \in S /\ u \ {Pick(u)} \in SUBSET S
    BY <2>2, PickIn
  <2>3. h \in [SUBSET S -> Nat]
    BY <2>2
  <2>4. ASSUME NEW u \in SUBSET S, Cardinality(u) <= k + 1 PROVE Adds(h, g, u)
    <3>1. CASE u = {}
      BY <3>1 DEF Adds
    <3>2. CASE u # {}
      <4> DEFINE v == u \ {Pick(u)}
      <4>1. v \in SUBSET S /\ Cardinality(v) = Cardinality(u) - 1
        BY <1>1, <3>2, PickIn, FS_RemoveElement
      <4>2. Cardinality(v) <= k
        BY <1>1, <2>4, <4>1
      <4>3. Adds(f, g, v)
        BY <2>1, <4>1, <4>2
      <4>4. h[v] = f[v]
        BY <4>1, <4>3 DEF Adds
      <4>5. h[u] = g[Pick(u)] + f[v]
        BY <3>2
      <4> QED
        BY <3>2, <4>4, <4>5 DEF Adds
    <3> QED
      BY <3>1, <3>2
  <2>5. Upto(h, k + 1)
    BY <2>4
  <2> HIDE DEF h, Upto
  <2> QED
    BY <2>3, <2>5
<1> HIDE DEF T
<1>4. Cardinality(S) \in T
  BY <1>1, <1>2, <1>3, SetInduction, FS_CardinalityType
<1>5. PICK f \in [SUBSET S -> Nat] : Upto(f, Cardinality(S))
  BY <1>4 DEF T
<1>6. \A u \in SUBSET S : Cardinality(u) <= Cardinality(S)
  BY FS_Subset
<1> QED
  BY <1>5, <1>6 DEF IsSum

\* Whatever member is taken out first, the sum is the same.
LEMMA SumRemove ==
    ASSUME NEW S, IsFiniteSet(S), NEW g \in [S -> Nat], NEW f, IsSum(f, g, S),
           NEW x \in S
    PROVE  f[S] = g[x] + f[S \ {x}]
<1> DEFINE T == {k \in Nat : \A u \in SUBSET S : Cardinality(u) = k =>
                                \A p \in u : f[u] = g[p] + f[u \ {p}]}
<1>1. \A u \in SUBSET S : IsFiniteSet(u) /\ Cardinality(u) \in Nat
  BY FS_Subset, FS_CardinalityType
<1>2. 0 \in T
  <2>1. \A u \in SUBSET S : Cardinality(u) = 0 => u = {}
    BY <1>1, FS_EmptySet
  <2> QED
    BY <2>1
<1>3. ASSUME NEW k \in Nat, k \in T PROVE k + 1 \in T
  <2> SUFFICES ASSUME NEW u \in SUBSET S, Cardinality(u) = k + 1, NEW p \in u
               PROVE  f[u] = g[p] + f[u \ {p}]
    OBVIOUS
  <2> DEFINE q == Pick(u)
  <2>1. q \in u /\ f[u] = g[q] + f[u \ {q}]
    BY PickIn DEF IsSum, Adds
  <2> HIDE DEF q
  <2>2. CASE q = p
    BY <2>1, <2>2
  <2>3. CASE q # p
    <3> DEFINE v == u \ {q}
               w == u \ {p}
               z == u \ {p, q}
    <3>1. /\ v \in SUBSET S /\ w \in SUBSET S /\ z \in SUBSET S
          /\ p \in v /\ q \in w /\ v \ {p} = z /\ w \ {q} = z
      BY <2>1, <2>3
    <3>2. Cardinality(v) = k /\ Cardinality(w) = k
      <4>1. IsFiniteSet(u) /\ (k + 1) - 1 = k
        BY <1>1
      <4>2. Cardinality(v) = Cardinality(u) - 1 /\ Cardinality(w) = Cardinality(u) - 1
        BY <2>1, <4>1, FS_RemoveElement
      <4> QED
        BY <4>1, <4>2
    <3> HIDE DEF v, w, z
    <3>3. f[v] = g[p] + f[z] /\ f[w] = g[q] + f[z]
      <4>1. f[v] = g[p] + f[v \ {p}] /\ f[w] = g[q] + f[w \ {q}]
        BY <1>3, <3>1, <3>2
      <4> QED
        BY <3>1, <4>1
    <3>4. g[p] \in Nat /\ g[q] \in Nat /\ f[z] \in Nat
      BY <2>1, <3>1 DEF IsSum
    <3>5. f[u] = g[q] + f[v]
      BY <2>1, Zenon DEF v
    <3>6. f[u] = g[p] + f[w]
      <4>1. f[u] = g[q] + (g[p] + f[z])
        BY <3>3, <3>5
      <4> QED
        BY <3>3, <3>4, <4>1
    <3> QED
      BY <3>6 DEF w
  <2> QED
    BY <2>2, <2>3
<1>4. Cardinality(S) \in T
  <2> HIDE DEF T
  <2> QED
    BY <1>1, <1>2, <1>3, SetInduction
<1> QED
  BY <1>4

\* There is one sum.
LEMMA SumUnique ==
    ASSUME NEW S, IsFiniteSet(S), NEW g \in [S -> Nat], NEW f, IsSum(f, g, S),
           NEW h, \A u \in SUBSET S : Adds(h, g, u)
    PROVE  h[S] = f[S]
<1> DEFINE T == {k \in Nat : \A u \in SUBSET S : Cardinality(u) = k => h[u] = f[u]}
<1>1. \A u \in SUBSET S : IsFiniteSet(u) /\ Cardinality(u) \in Nat
  BY FS_Subset, FS_CardinalityType
<1>2. 0 \in T
  <2>1. \A u \in SUBSET S : Cardinality(u) = 0 => u = {}
    BY <1>1, FS_EmptySet
  <2>2. h[{}] = 0 /\ f[{}] = 0
    BY DEF IsSum, Adds
  <2> QED
    BY <2>1, <2>2
<1>3. ASSUME NEW k \in Nat, k \in T PROVE k + 1 \in T
  <2> SUFFICES ASSUME NEW u \in SUBSET S, Cardinality(u) = k + 1
               PROVE  h[u] = f[u]
    OBVIOUS
  <2>1. u # {}
    BY FS_EmptySet
  <2> DEFINE v == u \ {Pick(u)}
  <2>2. v \in SUBSET S /\ Cardinality(v) = k
    <3>1. IsFiniteSet(u) /\ (k + 1) - 1 = k
      BY <1>1
    <3>2. Cardinality(v) = Cardinality(u) - 1
      BY <2>1, <3>1, PickIn, FS_RemoveElement
    <3> QED
      BY <3>1, <3>2
  <2>3. h[u] = g[Pick(u)] + h[v] /\ f[u] = g[Pick(u)] + f[v]
    BY <2>1 DEF IsSum, Adds
  <2> HIDE DEF v
  <2>4. h[v] = f[v]
    BY <1>3, <2>2
  <2> QED
    BY <2>3, <2>4
<1>4. Cardinality(S) \in T
  <2> HIDE DEF T
  <2> QED
    BY <1>1, <1>2, <1>3, SetInduction
<1> QED
  BY <1>4

\* What MapThenSumSet folds over S is the sum.
LEMMA SumIs ==
    ASSUME NEW S, IsFiniteSet(S), NEW g \in [S -> Nat], NEW h, \A u \in SUBSET S : Adds(h, g, u)
    PROVE  h[S] = SumOver(g, S)
<1>1. IsSum(CHOOSE f : IsSum(f, g, S), g, S)
  BY SumExists
<1> QED
  BY <1>1, SumUnique DEF SumOver

LEMMA SumEmpty == ASSUME NEW g \in [{} -> Nat] PROVE SumOver(g, {}) = 0
<1>1. IsSum(CHOOSE f : IsSum(f, g, {}), g, {})
  BY SumExists, FS_EmptySet
<1> QED
  BY <1>1 DEF SumOver, IsSum, Adds

LEMMA SumType ==
    ASSUME NEW S, IsFiniteSet(S), NEW g \in [S -> Nat] PROVE SumOver(g, S) \in Nat
<1>1. IsSum(CHOOSE f : IsSum(f, g, S), g, S)
  BY SumExists
<1> QED
  BY <1>1 DEF SumOver, IsSum

\* A member more.
LEMMA SumAdd ==
    ASSUME NEW S, IsFiniteSet(S), NEW x, x \notin S, NEW g \in [S \cup {x} -> Nat],
           NEW h \in [S -> Nat], \A n \in S : h[n] = g[n]
    PROVE  SumOver(g, S \cup {x}) = g[x] + SumOver(h, S)
<1> DEFINE U == S \cup {x}
           f == CHOOSE f : IsSum(f, g, U)
<1>1. IsFiniteSet(U) /\ U \ {x} = S /\ x \in U /\ g \in [U -> Nat]
  BY FS_AddElement
<1> HIDE DEF U
<1>2. IsSum(f, g, U)
  BY <1>1, SumExists
<1>3. SumOver(g, U) = f[U]
  BY DEF SumOver
<1> HIDE DEF f
<1>4. f[U] = g[x] + f[S]
  BY <1>1, <1>2, SumRemove
<1>5. ASSUME NEW u \in SUBSET S PROVE Adds(f, h, u)
  <2>1. u \in SUBSET U
    BY DEF U
  <2>2. u # {} => Pick(u) \in S
    BY PickIn
  <2> QED
    BY <1>2, <2>1, <2>2 DEF IsSum, Adds
<1>6. f[S] = SumOver(h, S)
  BY <1>5, SumIs
<1> QED
  BY <1>3, <1>4, <1>6 DEF U

-----------------------------------------------------------------------------
(* The invariant *)

\* One tick loop, as composition.rs starts it, and a relay whose store does not
\* fail while it reconciles (executor.rs, map_outcome): without the first a stale
\* chunk may be sent, without the second an attempt may be sent twice.
SingleLoop == (\E t : Tickers = {t}) /\ ~RelayStoreFails

Fates == {"none", "pending", "confirmed", "short", "reverted"}
Verdicts == {"unclaimed", "open", "confirmed", "rejected", "unsent"}

\* The chunk a journal binds for attempt n, and the input its fills realised.
BoundIn(j, n) ==
    LET bound == {i \in 1..Len(j) : j[i].attempt = n /\ j[i].phase = "Bound"}
    IN  IF bound = {} THEN 0 ELSE j[CHOOSE i \in bound : TRUE].input

ConfirmedIn(j) == {i \in 1..Len(j) : j[i].phase = "Confirmed"}

TotalIn(j) == SumOver([i \in ConfirmedIn(j) |-> j[i].input], ConfirmedIn(j))

\* What the attempts of a journal with one of these fates have bound.
WithFate(f, fates) == {n \in Attempts : f[n] \in fates}

SpentIn(j, f, fates) ==
    SumOver([n \in WithFate(f, fates) |-> BoundIn(j, n)], WithFate(f, fates))

\* The latest attempt of a journal, and whether it orders its attempts: each ends
\* once, and the latest one with the last event.
LatestIn(j) == IF j = <<>> THEN 0 ELSE j[Len(j)].attempt

Ordered(j) ==
    \A i \in 1..Len(j) :
        /\ j[i].attempt \in 1..LatestIn(j)
        /\ j[i].attempt = LatestIn(j) /\ j[i].phase \in TerminalPhases => i = Len(j)

\* What journal and chain say of the latest attempt, and of all of them.
BooksOf(j, f) ==
    [latest    |-> LatestIn(j),
     phase     |-> IF j = <<>> THEN "none" ELSE j[Len(j)].phase,
     compliant |-> IF j = <<>> THEN TRUE ELSE j[Len(j)].compliant,
     realised  |-> IF j = <<>> THEN 0 ELSE j[Len(j)].input,
     chunk     |-> BoundIn(j, LatestIn(j)),
     fate      |-> IF j = <<>> THEN "none" ELSE f[LatestIn(j)],
     conf      |-> SpentIn(j, f, {"confirmed"}),
     total     |-> TotalIn(j)]

Books == BooksOf(journal, fate)

\* What the stream and the object say of the order.
Shelf ==
    [len |-> Len(stream), head |-> HeadOrder, object |-> object,
     cancelled |-> stream # <<>> /\ stream[Len(stream)].to = "Cancelled"]

\* How many transitions of the next attempt a status is behind.
Rank(status) ==
    CASE status = "Created" -> 0
      [] status \in {"Active", "PartiallyFilled", "FailedRetryable"} -> 1
      [] status = "TriggerCandidate" -> 2
      [] status = "Quoting" -> 3
      [] status = "Simulating" -> 4
      [] OTHER -> 5

\* No attempt is under way: the order, the journal and the chain agree.
Settled(b, k) ==
    /\ b.conf = k.head.filled
    /\ b.total = k.head.filled
    /\ b.fate \notin {"pending", "short"}
    /\ b.phase \in TerminalPhases \cup {"none"}
    /\ 5 * b.latest + Rank(k.head.status) <= k.len

\* The latest attempt is under way: the order may lag behind by its chunk.
Underway(b, k) ==
    /\ k.head.status = "Executing"
    /\ b.latest >= 1
    /\ b.chunk \in SafeChunks(k.head)
    /\ b.conf = k.head.filled + (IF b.fate = "confirmed" THEN b.chunk ELSE 0)
    /\ b.total = k.head.filled + (IF b.phase = "Confirmed" THEN b.chunk ELSE 0)
    /\ b.phase = "Confirmed" =>
          /\ b.realised = b.chunk
          /\ b.fate = IF b.compliant THEN "confirmed" ELSE "short"
    /\ b.phase = "Rejected" => b.fate \in {"none", "reverted"}
    /\ b.phase = "FailedBeforeSubmit" => b.fate = "none"

\* The order is closed: a fill below the floor may be left over.
Over(b, k) ==
    /\ b.conf = k.head.filled
    /\ b.fate # "pending"
    /\ b.fate = "short" => b.chunk <= k.head.remaining

Accounts(b, k) ==
    /\ k.head.filled + k.head.remaining = MaxInput
    /\ 5 * b.latest <= k.len
    /\ 5 * b.latest <= MaxStream + 5
    /\ k.head.status \in Closed => Over(b, k)
    /\ k.head.status \notin Closed => Settled(b, k) \/ Underway(b, k)

\* A snapshot is the object; or a cancel or a write cut short has since put one
\* event behind it.
InStep(s, k) == k.object.seq = k.len /\ s = k.object
Interrupted(s, k) == s.seq + 1 = k.len /\ k.cancelled
Lagging(s, k) == s.seq + 1 = k.len /\ s = k.object

Plain(todo) == \A i \in 1..Len(todo) : todo[i] \in {"Active", "TriggerCandidate", "Expired"}

\* The transitions of tick() up to Executing.
Chain(s, w, b, k) ==
    /\ w.attempt = b.latest + 1
    /\ w.chunk \in SafeChunks(s)
    /\ \/ w.todo = <<"Quoting", "Simulating", "Executing">>
       \/ /\ InStep(s, k) \/ Interrupted(s, k)
          /\ \/ w.todo = <<"Simulating", "Executing">>
             \/ w.todo = <<"Executing">> /\ s.status = "Simulating"

\* A call that persists transitions of an order that is not executing.
Preparing(s, w, b, k) ==
    /\ w.fill = NoFill
    /\ InStep(s, k) \/ Interrupted(s, k) \/ Lagging(s, k)
    /\ 5 * b.latest < MaxStream
    /\ \/ w.next = "bind" /\ Chain(s, w, b, k)
       \/ /\ w.next \in {"evaluate", "identity", "publish"}
          /\ Plain(w.todo)
          /\ w.next = "identity" => w.chunk \in SafeChunks(s)

\* A call that persists the order effect of an attempt.
Settling(s, w, b, k) ==
    /\ InStep(s, k)
    /\ w.next = "publish"
    /\ \/ /\ w.fill = [input |-> b.chunk, remaining_after |-> s.remaining - b.chunk]
          /\ w.todo \in {<<"Filled">>, <<"PartiallyFilled">>}
          /\ Underway(b, k) /\ b.phase = "Confirmed" /\ b.compliant
       \/ /\ w.fill = NoFill
          /\ w.todo \in {<<"FailedFinal">>, <<"FailedRetryable">>, <<"Expired">>}
          /\ \/ Settled(b, k)
             \/ Underway(b, k) /\ b.phase = "FailedBeforeSubmit"
             \/ /\ Underway(b, k) /\ w.todo = <<"FailedFinal">>
                /\ b.phase = "Rejected" \/ (b.phase = "Confirmed" /\ ~b.compliant)

\* An answer of the executor is true of the chain.
Consistent(res, b) ==
    /\ res = "Filled" => b.fate = "confirmed"
    /\ res = "NonCompliantFill" => b.fate = "short"
    /\ res = "Rejected" => b.fate \in {"none", "reverted"}
    /\ res = "FailedBeforeSubmit" => b.fate = "none"

\* What a tick() or a recovery pass knows at await l.
Knows(l, s, w, b, k) ==
    /\ l \notin {"idle", "publish", "mark", "append"} => w.fill = NoFill
    /\ l \in {"evaluate", "identity", "prepare"} =>
          /\ InStep(s, k) \/ Interrupted(s, k) \/ Lagging(s, k)
          /\ s.status # "Executing"
          /\ 5 * b.latest < MaxStream
    /\ l \in {"identity", "prepare", "bind"} => w.chunk \in SafeChunks(s)
    /\ l \in {"prepare", "bind"} => w.attempt = b.latest + 1
    /\ l = "append" =>
          IF s.status = "Executing" THEN Settling(s, w, b, k) ELSE Preparing(s, w, b, k)
    /\ l \in {"bind", "attempts", "execute", "claimed", "sent", "resolve", "reconcile"} =>
          InStep(s, k) /\ s.status = "Executing"
    /\ l = "bind" => Settled(b, k) /\ 5 * b.latest < MaxStream
    /\ l \in {"execute", "claimed", "sent", "resolve", "reconcile"} =>
          /\ Underway(b, k)
          /\ b.phase \notin TerminalPhases /\ w.prior \notin TerminalPhases
          /\ w.attempt = b.latest /\ w.chunk = b.chunk
    /\ l \in {"execute", "claimed"} => b.phase = "Bound" /\ b.fate = "none"
    /\ l = "resolve" => Consistent(w.res, b)

\* What a cancel_order call knows.
Cancelling(l, w) ==
    /\ l \in {"idle", "append"}
    /\ l = "append" => w.todo = <<"Cancelled">> /\ w.next = "idle" /\ w.fill = NoFill

Workers == Tickers \cup {Recoverer}

WorkersKnow ==
    /\ \A p, q \in Workers : pc[p] # "idle" /\ pc[q] # "idle" => p = q
    /\ \A p \in Workers : Knows(pc[p], snap[p], work[p], Books, Shelf)
    /\ \A c \in Cancellers : Cancelling(pc[c], work[c])

\* Only the latest attempt can be undecided.
FatesOrdered ==
    /\ verdict \in [Attempts -> Verdicts]
    /\ sends \in [Attempts -> {0, 1}]
    /\ fate \in [Attempts -> Fates]
    /\ \A n \in Attempts :
          /\ sends[n] = 0 <=> fate[n] = "none"
          /\ verdict[n] = "unsent" => sends[n] = 0
          /\ n > LatestAttempt => fate[n] = "none"
          /\ n < LatestAttempt => fate[n] \notin {"pending", "short"}

\* A cancellation ends the stream.
CancelIsLast ==
    \A i \in 1..Len(stream) :
        stream[i].to = "Cancelled" => i = Len(stream) /\ stream[i].status = "Cancelled"

\* What holds of the order, the journal and the chain, whatever the calls do.
Ledgered ==
    /\ Ordered(journal) /\ FatesOrdered /\ CancelIsLast /\ Accounts(Books, Shelf)

AccountsInv == StoreInv /\ Ledgered /\ WorkersKnow
-----------------------------------------------------------------------------
(* The sums of the model *)

LEMMA AttemptsRange ==
    ASSUME SingleLoop
    PROVE  /\ Attempts = 1..(MaxStream \div 5 + 1)
           /\ \A n \in Nat : n \in Attempts <=> n >= 1 /\ 5 * n <= MaxStream + 5
           /\ \A f, fates : IsFiniteSet(WithFate(f, fates))
<1>1. Cardinality(Tickers) = 1
  BY FS_Singleton DEF SingleLoop
<1>2. Attempts = 1..(MaxStream \div 5 + 1)
  BY <1>1 DEF Attempts
<1>3. MaxStream \div 5 \in Nat /\ \A n \in Nat : n <= MaxStream \div 5 + 1 <=> 5 * n <= MaxStream + 5
  <2> DEFINE q == MaxStream \div 5
  <2>1. q \in Int /\ 5 * q <= MaxStream /\ MaxStream < 5 * q + 5
    BY Bounds
  <2>2. q \in Nat
    BY <2>1, Bounds
  <2> HIDE DEF q
  <2>3. \A n \in Nat : n <= q + 1 <=> 5 * n <= MaxStream + 5
    BY <2>1, <2>2, Bounds
  <2> QED
    BY <2>2, <2>3 DEF q
<1>4. \A n \in Nat : n \in Attempts <=> n >= 1 /\ 5 * n <= MaxStream + 5
  <2> DEFINE q == MaxStream \div 5
  <2>1. /\ q \in Nat /\ Attempts = 1..(q + 1)
        /\ \A n \in Nat : n <= q + 1 <=> 5 * n <= MaxStream + 5
    BY <1>2, <1>3
  <2> HIDE DEF q
  <2> QED
    BY <2>1
<1>5. IsFiniteSet(Attempts)
  BY <1>2, <1>3, FS_Interval
<1>6. \A f, fates : WithFate(f, fates) \subseteq Attempts
  BY DEF WithFate
<1> QED
  BY <1>2, <1>4, <1>5, <1>6, FS_Subset

LEMMA ConfirmedFinite ==
    ASSUME NEW j \in Seq(AttemptEvents)
    PROVE  IsFiniteSet(ConfirmedIn(j)) /\ ConfirmedIn(j) \subseteq 1..Len(j)
<1>1. ConfirmedIn(j) \subseteq 1..Len(j)
  BY DEF ConfirmedIn
<1>2. IsFiniteSet(1..Len(j))
  BY FS_Interval
<1> QED
  BY <1>1, <1>2, FS_Subset

LEMMA BoundType ==
    ASSUME NEW j \in Seq(AttemptEvents), NEW n PROVE BoundIn(j, n) \in Nat
<1> DEFINE bound == {i \in 1..Len(j) : j[i].attempt = n /\ j[i].phase = "Bound"}
<1>1. CASE bound = {}
  BY <1>1 DEF BoundIn
<1>2. CASE bound # {}
  <2>1. (CHOOSE i \in bound : TRUE) \in bound
    BY <1>2
  <2>2. PICK i \in bound : BoundIn(j, n) = j[i].input
    BY <1>2, <2>1 DEF BoundIn
  <2>3. j[i] \in AttemptEvents
    OBVIOUS
  <2> QED
    BY <2>2, <2>3 DEF AttemptEvents
<1> QED
  BY <1>1, <1>2

\* An event that does not bind n leaves the chunk of n.
LEMMA BoundKept ==
    ASSUME NEW j \in Seq(AttemptEvents), NEW ev \in AttemptEvents, NEW n,
           ev.attempt # n \/ ev.phase # "Bound"
    PROVE  BoundIn(Append(j, ev), n) = BoundIn(j, n)
<1> DEFINE j2 == Append(j, ev)
           bound == {i \in 1..Len(j) : j[i].attempt = n /\ j[i].phase = "Bound"}
           bound2 == {i \in 1..Len(j2) : j2[i].attempt = n /\ j2[i].phase = "Bound"}
<1>1. /\ Len(j2) = Len(j) + 1 /\ Len(j) \in Nat
      /\ \A i \in 1..Len(j) : j2[i] = j[i]
      /\ j2[Len(j) + 1] = ev
  OBVIOUS
<1> HIDE DEF j2
<1>2. bound2 = bound
  BY <1>1
<1>3. CASE bound = {}
  BY <1>2, <1>3 DEF BoundIn, j2
<1>4. CASE bound # {}
  <2> DEFINE c == CHOOSE i \in bound : TRUE
  <2>1. c \in bound
    BY <1>4
  <2>2. BoundIn(j, n) = j[c].input
    BY <1>4 DEF BoundIn
  <2>3. BoundIn(j2, n) = j2[c].input
    BY <1>2, <1>4 DEF BoundIn
  <2> HIDE DEF c
  <2> QED
    BY <1>1, <2>1, <2>2, <2>3 DEF j2
<1> QED
  BY <1>3, <1>4

\* The first event that binds n says its chunk.
LEMMA BoundFirst ==
    ASSUME NEW j \in Seq(AttemptEvents), NEW ev \in AttemptEvents,
           ev.phase = "Bound", \A i \in 1..Len(j) : j[i].attempt # ev.attempt
    PROVE  BoundIn(Append(j, ev), ev.attempt) = ev.input
<1> DEFINE j2 == Append(j, ev)
           n == ev.attempt
           bound2 == {i \in 1..Len(j2) : j2[i].attempt = n /\ j2[i].phase = "Bound"}
<1>1. /\ Len(j2) = Len(j) + 1 /\ Len(j) \in Nat
      /\ \A i \in 1..Len(j) : j2[i] = j[i]
      /\ j2[Len(j) + 1] = ev
  OBVIOUS
<1> HIDE DEF j2
<1>2. bound2 = {Len(j) + 1}
  BY <1>1
<1>3. (CHOOSE i \in bound2 : TRUE) = Len(j) + 1 /\ bound2 # {}
  BY <1>2
<1>4. BoundIn(j2, n) = j2[CHOOSE i \in bound2 : TRUE].input
  BY <1>3 DEF BoundIn
<1> HIDE DEF bound2
<1> QED
  BY <1>1, <1>3, <1>4 DEF j2

\* What a journal realised grows by the input of a Confirmed event.
LEMMA TotalAppended ==
    ASSUME NEW j \in Seq(AttemptEvents), NEW ev \in AttemptEvents
    PROVE  /\ TotalIn(j) \in Nat
           /\ ev.phase # "Confirmed" => TotalIn(Append(j, ev)) = TotalIn(j)
           /\ ev.phase = "Confirmed" => TotalIn(Append(j, ev)) = ev.input + TotalIn(j)
<1> DEFINE j2 == Append(j, ev)
           S == ConfirmedIn(j)
           S2 == ConfirmedIn(j2)
           g == [i \in S |-> j[i].input]
           g2 == [i \in S2 |-> j2[i].input]
           x == Len(j) + 1
<1>1. /\ Len(j2) = Len(j) + 1 /\ Len(j) \in Nat
      /\ \A i \in 1..Len(j) : j2[i] = j[i]
      /\ j2[x] = ev
      /\ j2 \in Seq(AttemptEvents)
  OBVIOUS
<1>2. IsFiniteSet(S) /\ S \subseteq 1..Len(j)
  BY ConfirmedFinite
<1>3. g \in [S -> Nat]
  <2>1. ASSUME NEW i \in S PROVE j[i].input \in Nat
    <3>1. j[i] \in AttemptEvents
      BY <1>2
    <3> QED
      BY <3>1 DEF AttemptEvents
  <2> QED
    BY <2>1
<1> HIDE DEF j2
<1>4. CASE ev.phase # "Confirmed"
  <2>1. S2 = S
    BY <1>1, <1>4 DEF ConfirmedIn
  <2>2. g2 = g
    BY <1>1, <1>2, <2>1
  <2>3. SumOver(g2, S2) = SumOver(g, S)
    BY <2>1, <2>2
  <2> QED
    BY <1>2, <1>3, <1>4, <2>3, SumType DEF TotalIn, j2
<1>5. CASE ev.phase = "Confirmed"
  <2>1. S2 = S \cup {x} /\ x \notin S
    BY <1>1, <1>2, <1>5 DEF ConfirmedIn
  <2>2. g2 \in [S2 -> Nat]
    <3>1. ASSUME NEW i \in S2 PROVE j2[i].input \in Nat
      <4>1. i \in 1..Len(j2)
        BY DEF ConfirmedIn
      <4>2. j2[i] \in AttemptEvents
        BY <1>1, <4>1
      <4> QED
        BY <4>2 DEF AttemptEvents
    <3> QED
      BY <3>1
  <2>3. g2[x] = ev.input /\ \A i \in S : g[i] = g2[i]
    BY <1>1, <1>2, <2>1
  <2> HIDE DEF g, g2, S, S2, x
  <2>4. SumOver(g2, S2) = g2[x] + SumOver(g, S)
    BY <1>2, <1>3, <2>1, <2>2, <2>3, SumAdd
  <2> QED
    BY <1>2, <1>3, <1>5, <2>3, <2>4, SumType DEF TotalIn, j2, g, g2, S, S2
<1> QED
  BY <1>4, <1>5

LEMMA SpentType ==
    ASSUME SingleLoop, NEW j \in Seq(AttemptEvents), NEW f, NEW fates
    PROVE  SpentIn(j, f, fates) \in Nat
<1> DEFINE S == WithFate(f, fates)
           g == [n \in S |-> BoundIn(j, n)]
<1>1. IsFiniteSet(S) /\ g \in [S -> Nat]
  BY AttemptsRange, BoundType
<1> HIDE DEF S, g
<1> QED
  BY <1>1, SumType DEF SpentIn, S, g

\* The sum depends on the chunks of the attempts it is about only.
LEMMA SpentKept ==
    ASSUME NEW j, NEW j2, NEW f, NEW f2, NEW fates, NEW fates2,
           WithFate(f2, fates2) = WithFate(f, fates),
           \A n \in WithFate(f, fates) : BoundIn(j2, n) = BoundIn(j, n)
    PROVE  SpentIn(j2, f2, fates2) = SpentIn(j, f, fates)
<1>1. [n \in WithFate(f2, fates2) |-> BoundIn(j2, n)] = [n \in WithFate(f, fates) |-> BoundIn(j, n)]
  OBVIOUS
<1> QED
  BY <1>1 DEF SpentIn

\* One attempt more.
LEMMA SpentMore ==
    ASSUME SingleLoop, NEW j \in Seq(AttemptEvents), NEW f, NEW f2, NEW fates, NEW fates2,
           NEW n \in Attempts, n \notin WithFate(f, fates),
           WithFate(f2, fates2) = WithFate(f, fates) \cup {n}
    PROVE  SpentIn(j, f2, fates2) = BoundIn(j, n) + SpentIn(j, f, fates)
<1> DEFINE S == WithFate(f, fates)
           S2 == WithFate(f2, fates2)
           g == [m \in S |-> BoundIn(j, m)]
           g2 == [m \in S2 |-> BoundIn(j, m)]
<1>1. IsFiniteSet(S) /\ n \notin S /\ S2 = S \cup {n}
  BY AttemptsRange
<1>2. g \in [S -> Nat] /\ g2 \in [S2 -> Nat]
  BY BoundType
<1>3. g2[n] = BoundIn(j, n) /\ \A m \in S : g[m] = g2[m]
  BY <1>1
<1> HIDE DEF S, S2, g, g2
<1>4. SumOver(g2, S2) = g2[n] + SumOver(g, S)
  BY <1>1, <1>2, <1>3, SumAdd
<1> QED
  BY <1>3, <1>4 DEF SpentIn, S, S2, g, g2
-----------------------------------------------------------------------------
(* The two sums of the model are sums of this theory *)

LEMMA ChunksAreSum ==
    ASSUME StoreInv, NEW S, IsFiniteSet(S)
    PROVE  /\ [n \in S |-> BoundChunk(n)] \in [S -> Nat]
           /\ MapThenSumSet(BoundChunk, S) = SumOver([n \in S |-> BoundChunk(n)], S)
<1> DEFINE g == [n \in S |-> BoundChunk(n)]
           Eq(f) == f = [s \in SUBSET S |->
                            IF s = {} THEN 0
                            ELSE LET x == CHOOSE x \in s : TRUE IN BoundChunk(x) + f[s \ {x}]]
           iter == CHOOSE f : Eq(f)
<1>1. g \in [S -> Nat]
  BY JournalFacts
<1>2. MapThenSumSet(BoundChunk, S) = iter[S]
  BY DEF MapThenSumSet, MapThenFoldSet
<1>3. PICK f : IsSum(f, g, S)
  BY <1>1, SumExists
<1>4. Eq(f)
  <2> DEFINE F == [s \in SUBSET S |->
                      IF s = {} THEN 0
                      ELSE LET x == CHOOSE x \in s : TRUE IN BoundChunk(x) + f[s \ {x}]]
  <2>1. ASSUME NEW s \in SUBSET S PROVE f[s] = F[s]
    <3>1. s # {} => Pick(s) \in S
      BY PickIn
    <3> QED
      BY <1>3, <3>1 DEF IsSum, Adds, Pick
  <2>2. f \in [SUBSET S -> Nat]
    BY <1>3 DEF IsSum
  <2> QED
    BY <2>1, <2>2
<1>5. Eq(iter)
  BY <1>4, Zenon
<1> HIDE DEF iter
<1>6. ASSUME NEW u \in SUBSET S PROVE Adds(iter, g, u)
  <2>1. u # {} => Pick(u) \in S
    BY PickIn
  <2>2. iter[u] = IF u = {} THEN 0 ELSE BoundChunk(Pick(u)) + iter[u \ {Pick(u)}]
    BY <1>5 DEF Pick
  <2> QED
    BY <2>1, <2>2 DEF Adds
<1> HIDE DEF g
<1>7. iter[S] = SumOver(g, S)
  BY <1>1, <1>6, SumIs
<1> QED
  BY <1>1, <1>2, <1>7 DEF g

LEMMA InputsAreSum ==
    ASSUME StoreInv, NEW S, S \subseteq 1..Len(journal), IsFiniteSet(S)
    PROVE  MapThenSumSet(LAMBDA i : journal[i].input, S) = SumOver([i \in S |-> journal[i].input], S)
<1> DEFINE g == [i \in S |-> journal[i].input]
           Eq(f) == f = [s \in SUBSET S |->
                            IF s = {} THEN 0
                            ELSE LET x == CHOOSE x \in s : TRUE IN journal[x].input + f[s \ {x}]]
           iter == CHOOSE f : Eq(f)
<1>1. g \in [S -> Nat]
  <2>1. ASSUME NEW i \in S PROVE journal[i].input \in Nat
    <3>1. journal[i] \in AttemptEvents
      BY JournalFacts
    <3> QED
      BY <3>1 DEF AttemptEvents
  <2> QED
    BY <2>1
<1>2. MapThenSumSet(LAMBDA i : journal[i].input, S) = iter[S]
  BY DEF MapThenSumSet, MapThenFoldSet
<1>3. PICK f : IsSum(f, g, S)
  BY <1>1, SumExists
<1>4. Eq(f)
  <2> DEFINE F == [s \in SUBSET S |->
                      IF s = {} THEN 0
                      ELSE LET x == CHOOSE x \in s : TRUE IN journal[x].input + f[s \ {x}]]
  <2>1. ASSUME NEW s \in SUBSET S PROVE f[s] = F[s]
    <3>1. s # {} => Pick(s) \in S
      BY PickIn
    <3> QED
      BY <1>3, <3>1 DEF IsSum, Adds, Pick
  <2>2. f \in [SUBSET S -> Nat]
    BY <1>3 DEF IsSum
  <2> QED
    BY <2>1, <2>2
<1>5. Eq(iter)
  BY <1>4, Zenon
<1> HIDE DEF iter
<1>6. ASSUME NEW u \in SUBSET S PROVE Adds(iter, g, u)
  <2>1. u # {} => Pick(u) \in S
    BY PickIn
  <2>2. iter[u] = IF u = {} THEN 0 ELSE journal[Pick(u)].input + iter[u \ {Pick(u)}]
    BY <1>5 DEF Pick
  <2> QED
    BY <2>1, <2>2 DEF Adds
<1> HIDE DEF g
<1>7. iter[S] = SumOver(g, S)
  BY <1>1, <1>6, SumIs
<1> QED
  BY <1>2, <1>7 DEF g

\* confirmed_input_total, and the chunks with a fate.
LEMMA ModelSums ==
    ASSUME SingleLoop, StoreInv
    PROVE  /\ ConfirmedTotal = TotalIn(journal)
           /\ \A fates : Chunks(fates) = SpentIn(journal, fate, fates)
<1>1. ConfirmedTotal = TotalIn(journal)
  <2> DEFINE S == ConfirmedIn(journal)
  <2>1. IsFiniteSet(S) /\ S \subseteq 1..Len(journal)
    BY JournalFacts, ConfirmedFinite
  <2>2. ConfirmedTotal = MapThenSumSet(LAMBDA i : journal[i].input, S)
    BY DEF ConfirmedTotal, ConfirmedIn
  <2> QED
    BY <2>1, <2>2, InputsAreSum DEF TotalIn
<1>2. ASSUME NEW fates PROVE Chunks(fates) = SpentIn(journal, fate, fates)
  <2> DEFINE S == WithFate(fate, fates)
  <2>1. IsFiniteSet(S)
    BY AttemptsRange
  <2>2. Chunks(fates) = MapThenSumSet(BoundChunk, S)
    BY DEF Chunks, WithFate
  <2>3. [n \in S |-> BoundChunk(n)] = [n \in S |-> BoundIn(journal, n)]
    BY DEF BoundChunk, BoundIn
  <2> HIDE DEF S
  <2>4. MapThenSumSet(BoundChunk, S) = SumOver([n \in S |-> BoundChunk(n)], S)
    BY <2>1, ChunksAreSum
  <2> QED
    BY <2>2, <2>3, <2>4 DEF SpentIn, S
<1> QED
  BY <1>1, <1>2
-----------------------------------------------------------------------------
(* Journal and chain *)

\* The books of a journal that has events, and of one that has none.
LEMMA ReadBooks ==
    ASSUME NEW j, NEW f, NEW b, b = BooksOf(j, f), j # <<>>
    PROVE  /\ b.latest = LatestIn(j) /\ b.phase = j[Len(j)].phase
           /\ b.compliant = j[Len(j)].compliant /\ b.realised = j[Len(j)].input
           /\ b.chunk = BoundIn(j, LatestIn(j)) /\ b.fate = f[LatestIn(j)]
           /\ b.conf = SpentIn(j, f, {"confirmed"}) /\ b.total = TotalIn(j)
BY DEF BooksOf

LEMMA EmptyBooks ==
    ASSUME NEW j, NEW f, NEW b, b = BooksOf(j, f), j = <<>>
    PROVE  /\ b.latest = 0 /\ b.phase = "none" /\ b.compliant = TRUE /\ b.realised = 0
           /\ b.chunk = BoundIn(j, LatestIn(j)) /\ b.fate = "none"
           /\ b.conf = SpentIn(j, f, {"confirmed"}) /\ b.total = TotalIn(j)
BY DEF BooksOf, LatestIn

BookRecord(b) ==
    /\ b.latest \in Nat /\ b.phase \in Phases \cup {"none"} /\ b.compliant \in BOOLEAN
    /\ b.realised \in Nat /\ b.chunk \in Nat /\ b.conf \in Nat /\ b.total \in Nat
    /\ b.phase = "none" <=> b.latest = 0
    /\ b.latest = 0 => b.fate = "none"

LEMMA BooksTypes ==
    ASSUME SingleLoop, NEW j \in Seq(AttemptEvents), NEW f, Ordered(j), NEW b, b = BooksOf(j, f)
    PROVE  BookRecord(b) /\ b.latest = LatestIn(j)
<1>1. /\ BoundIn(j, LatestIn(j)) \in Nat /\ SpentIn(j, f, {"confirmed"}) \in Nat
  BY BoundType, SpentType
<1>2. TotalIn(j) \in Nat
  <2>1. PICK ev : ev \in AttemptEvents
    <3>1. [attempt |-> 0, phase |-> "Bound", input |-> 0, compliant |-> TRUE, at |-> 0] \in AttemptEvents
      BY Bounds DEF AttemptEvents, Phases, InFlightPhases
    <3> QED
      BY <3>1
  <2> QED
    BY <2>1, TotalAppended
<1>3. CASE j = <<>>
  <2>1. /\ b.latest = 0 /\ b.phase = "none" /\ b.compliant \in BOOLEAN /\ b.realised = 0
        /\ b.chunk \in Nat /\ b.fate = "none" /\ b.conf \in Nat /\ b.total \in Nat
    BY <1>1, <1>2, <1>3, EmptyBooks
  <2> QED
    BY <1>3, <2>1 DEF BookRecord, LatestIn
<1>4. CASE j # <<>>
  <2>1. Len(j) \in 1..Len(j) /\ j[Len(j)] \in AttemptEvents
    BY <1>4
  <2>2. LatestIn(j) = j[Len(j)].attempt /\ j[Len(j)].attempt \in 1..LatestIn(j)
    BY <1>4, <2>1 DEF Ordered, LatestIn
  <2>3. j[Len(j)].phase \in Phases /\ j[Len(j)].phase # "none" /\ LatestIn(j) \in Nat
        /\ j[Len(j)].compliant \in BOOLEAN /\ j[Len(j)].input \in Nat
    BY <2>1, <2>2 DEF AttemptEvents, Phases, InFlightPhases, TerminalPhases
  <2>4. LatestIn(j) # 0
    BY <2>2, <2>3
  <2>5. /\ b.latest = LatestIn(j) /\ b.phase \in Phases /\ b.phase # "none"
        /\ b.compliant \in BOOLEAN /\ b.realised \in Nat
        /\ b.chunk \in Nat /\ b.conf \in Nat /\ b.total \in Nat
    BY <1>1, <1>2, <1>4, <2>3, ReadBooks
  <2> QED
    BY <2>3, <2>4, <2>5 DEF BookRecord
<1> QED
  BY <1>3, <1>4

\* The end of a longer journal.
LEMMA AppendedEnd ==
    ASSUME NEW j \in Seq(AttemptEvents), NEW ev \in AttemptEvents
    PROVE  /\ Append(j, ev) \in Seq(AttemptEvents) /\ Append(j, ev) # <<>>
           /\ Len(Append(j, ev)) = Len(j) + 1 /\ Len(j) \in Nat
           /\ Append(j, ev)[Len(j) + 1] = ev
           /\ \A i \in 1..Len(j) : Append(j, ev)[i] = j[i]
           /\ LatestIn(Append(j, ev)) = ev.attempt
<1>1. /\ Append(j, ev) \in Seq(AttemptEvents) /\ Append(j, ev) # <<>>
      /\ Len(Append(j, ev)) = Len(j) + 1 /\ Len(j) \in Nat
      /\ Append(j, ev)[Len(j) + 1] = ev
      /\ \A i \in 1..Len(j) : Append(j, ev)[i] = j[i]
  OBVIOUS
<1> QED
  BY <1>1 DEF LatestIn

\* bind_attempt: the next attempt is the latest.
LEMMA BindBooks ==
    ASSUME SingleLoop, NEW j \in Seq(AttemptEvents), NEW f \in [Attempts -> Fates], Ordered(j),
           NEW ev \in AttemptEvents, ev.phase = "Bound", ev.attempt = LatestIn(j) + 1,
           ev.attempt \in Attempts, f[ev.attempt] = "none",
           NEW b, b = BooksOf(j, f), NEW c, c = BooksOf(Append(j, ev), f)
    PROVE  /\ Ordered(Append(j, ev))
           /\ c.latest = b.latest + 1 /\ c.phase = "Bound" /\ c.chunk = ev.input
           /\ c.fate = "none" /\ c.conf = b.conf /\ c.total = b.total
<1> DEFINE j2 == Append(j, ev)
<1>1. /\ j2 \in Seq(AttemptEvents) /\ j2 # <<>> /\ Len(j2) = Len(j) + 1 /\ Len(j) \in Nat
      /\ j2[Len(j) + 1] = ev /\ \A i \in 1..Len(j) : j2[i] = j[i]
      /\ LatestIn(j2) = ev.attempt
  BY AppendedEnd
<1>2. LatestIn(j) \in Nat
  BY BooksTypes DEF BookRecord
<1>3. \A i \in 1..Len(j) : j[i].attempt \in 1..LatestIn(j) /\ j[i].attempt # ev.attempt
  BY <1>2 DEF Ordered
<1>4. BoundIn(j2, ev.attempt) = ev.input
  BY <1>3, BoundFirst
<1>5. TotalIn(j2) = TotalIn(j)
  BY TotalAppended
<1>6. SpentIn(j2, f, {"confirmed"}) = SpentIn(j, f, {"confirmed"})
  <2>1. ASSUME NEW n \in WithFate(f, {"confirmed"}) PROVE BoundIn(j2, n) = BoundIn(j, n)
    <3>1. n # ev.attempt
      BY DEF WithFate
    <3> QED
      BY <3>1, BoundKept
  <2> HIDE DEF j2
  <2> QED
    BY <2>1, SpentKept
<1> HIDE DEF j2
<1>7. Ordered(j2)
  <2> SUFFICES ASSUME NEW i \in 1..Len(j2)
               PROVE  /\ j2[i].attempt \in 1..ev.attempt
                      /\ j2[i].attempt = ev.attempt /\ j2[i].phase \in TerminalPhases => i = Len(j2)
    BY <1>1 DEF Ordered
  <2>1. CASE i \in 1..Len(j)
    BY <1>1, <1>2, <1>3, <2>1
  <2>2. CASE i = Len(j) + 1
    BY <1>1, <1>2, <2>2
  <2> QED
    BY <1>1, <2>1, <2>2
<1>8. /\ c.latest = ev.attempt /\ c.phase = "Bound" /\ c.chunk = ev.input
      /\ c.fate = "none" /\ c.conf = SpentIn(j2, f, {"confirmed"}) /\ c.total = TotalIn(j2)
  <2>1. j2[Len(j2)] = ev /\ c = BooksOf(j2, f)
    BY <1>1 DEF j2
  <2> QED
    BY <1>1, <1>4, <2>1, ReadBooks
<1>9. b.latest = LatestIn(j) /\ b.conf = SpentIn(j, f, {"confirmed"}) /\ b.total = TotalIn(j)
  BY DEF BooksOf
<1> QED
  BY <1>5, <1>6, <1>7, <1>8, <1>9 DEF j2

\* append_attempt of a later phase of the latest attempt.
LEMMA PhaseBooks ==
    ASSUME SingleLoop, NEW j \in Seq(AttemptEvents), NEW f, Ordered(j),
           NEW ev \in AttemptEvents, ev.phase # "Bound", ev.attempt = LatestIn(j), j # <<>>,
           NEW b, b = BooksOf(j, f), b.phase \notin TerminalPhases,
           NEW c, c = BooksOf(Append(j, ev), f)
    PROVE  /\ Ordered(Append(j, ev))
           /\ c.latest = b.latest /\ c.phase = ev.phase /\ c.chunk = b.chunk
           /\ c.compliant = ev.compliant /\ c.realised = ev.input
           /\ c.fate = b.fate /\ c.conf = b.conf
           /\ ev.phase # "Confirmed" => c.total = b.total
           /\ ev.phase = "Confirmed" => c.total = ev.input + b.total
<1> DEFINE j2 == Append(j, ev)
<1>1. /\ j2 \in Seq(AttemptEvents) /\ j2 # <<>> /\ Len(j2) = Len(j) + 1 /\ Len(j) \in Nat
      /\ j2[Len(j) + 1] = ev /\ \A i \in 1..Len(j) : j2[i] = j[i]
      /\ LatestIn(j2) = ev.attempt
  BY AppendedEnd
<1>2. LatestIn(j) \in Nat /\ LatestIn(j) # 0
  <2>1. BookRecord(b)
    BY BooksTypes
  <2>2. b.latest = LatestIn(j) /\ b.phase = j[Len(j)].phase
    BY ReadBooks
  <2>3. j[Len(j)] \in AttemptEvents
    OBVIOUS
  <2> QED
    BY <2>1, <2>2, <2>3 DEF BookRecord, AttemptEvents, Phases, InFlightPhases, TerminalPhases
<1>3. \A n : BoundIn(j2, n) = BoundIn(j, n)
  BY BoundKept
<1>4. /\ ev.phase # "Confirmed" => TotalIn(j2) = TotalIn(j)
      /\ ev.phase = "Confirmed" => TotalIn(j2) = ev.input + TotalIn(j)
  BY TotalAppended
<1> HIDE DEF j2
<1>5. SpentIn(j2, f, {"confirmed"}) = SpentIn(j, f, {"confirmed"})
  BY <1>3, SpentKept
<1>6. Ordered(j2)
  <2> SUFFICES ASSUME NEW i \in 1..Len(j2)
               PROVE  /\ j2[i].attempt \in 1..ev.attempt
                      /\ j2[i].attempt = ev.attempt /\ j2[i].phase \in TerminalPhases => i = Len(j2)
    BY <1>1 DEF Ordered
  <2>1. CASE i \in 1..Len(j)
    <3>1. j2[i] = j[i] /\ j[i].attempt \in 1..ev.attempt
      BY <1>1, <2>1 DEF Ordered
    <3>2. ~(j[i].attempt = ev.attempt /\ j[i].phase \in TerminalPhases)
      <4>1. b.phase = j[Len(j)].phase
        BY ReadBooks
      <4> QED
        BY <2>1, <4>1 DEF Ordered
    <3> QED
      BY <3>1, <3>2
  <2>2. CASE i = Len(j) + 1
    BY <1>1, <1>2, <2>2
  <2> QED
    BY <1>1, <2>1, <2>2
<1>7. /\ c.latest = ev.attempt /\ c.phase = ev.phase /\ c.chunk = BoundIn(j2, ev.attempt)
      /\ c.compliant = ev.compliant /\ c.realised = ev.input /\ c.fate = f[ev.attempt]
      /\ c.conf = SpentIn(j2, f, {"confirmed"}) /\ c.total = TotalIn(j2)
  <2>1. j2[Len(j2)] = ev /\ c = BooksOf(j2, f)
    BY <1>1 DEF j2
  <2> QED
    BY <1>1, <2>1, ReadBooks
<1>8. /\ b.latest = ev.attempt /\ b.chunk = BoundIn(j, ev.attempt) /\ b.fate = f[ev.attempt]
      /\ b.conf = SpentIn(j, f, {"confirmed"}) /\ b.total = TotalIn(j)
  BY ReadBooks
<1> QED
  BY <1>3, <1>4, <1>5, <1>6, <1>7, <1>8 DEF j2

LEMMA SpentConfirmed ==
    ASSUME SingleLoop, NEW j \in Seq(AttemptEvents), NEW f, NEW g, NEW n \in Attempts,
           n \notin WithFate(f, {"confirmed"}),
           WithFate(g, {"confirmed"}) = WithFate(f, {"confirmed"}) \cup {n}
    PROVE  SpentIn(j, g, {"confirmed"}) = BoundIn(j, n) + SpentIn(j, f, {"confirmed"})
BY SpentMore

\* The fate of the latest attempt changes.
Turns(f, g, n, x) == g[n] = x /\ \A m \in Attempts \ {n} : g[m] = f[m]

LEMMA FateBooks ==
    ASSUME SingleLoop, NEW j \in Seq(AttemptEvents), NEW f \in [Attempts -> Fates], j # <<>>,
           LatestIn(j) \in Attempts, f[LatestIn(j)] # "confirmed",
           NEW x, NEW g, Turns(f, g, LatestIn(j), x),
           NEW b, b = BooksOf(j, f), NEW c, c = BooksOf(j, g)
    PROVE  /\ c.latest = b.latest /\ c.phase = b.phase /\ c.chunk = b.chunk
           /\ c.compliant = b.compliant /\ c.realised = b.realised /\ c.total = b.total
           /\ c.fate = x
           /\ x # "confirmed" => c.conf = b.conf
           /\ x = "confirmed" => c.conf = b.chunk + b.conf
<1> DEFINE l == LatestIn(j)
<1>1. /\ g[l] = x /\ \A n \in Attempts \ {l} : g[n] = f[n]
  BY DEF Turns
<1>2. /\ c.latest = b.latest /\ c.phase = b.phase /\ c.chunk = b.chunk
      /\ c.compliant = b.compliant /\ c.realised = b.realised /\ c.total = b.total
      /\ c.fate = x /\ b.chunk = BoundIn(j, l)
      /\ c.conf = SpentIn(j, g, {"confirmed"}) /\ b.conf = SpentIn(j, f, {"confirmed"})
  <2>1. /\ c.latest = LatestIn(j) /\ c.phase = j[Len(j)].phase
        /\ c.compliant = j[Len(j)].compliant /\ c.realised = j[Len(j)].input
        /\ c.chunk = BoundIn(j, LatestIn(j)) /\ c.fate = g[LatestIn(j)]
        /\ c.conf = SpentIn(j, g, {"confirmed"}) /\ c.total = TotalIn(j)
    BY ReadBooks
  <2>2. /\ b.latest = LatestIn(j) /\ b.phase = j[Len(j)].phase
        /\ b.compliant = j[Len(j)].compliant /\ b.realised = j[Len(j)].input
        /\ b.chunk = BoundIn(j, LatestIn(j)) /\ b.conf = SpentIn(j, f, {"confirmed"})
        /\ b.total = TotalIn(j)
    BY ReadBooks
  <2> QED
    BY <1>1, <2>1, <2>2
<1>3. CASE x # "confirmed"
  <2>1. WithFate(g, {"confirmed"}) = WithFate(f, {"confirmed"})
    BY <1>1, <1>3 DEF WithFate
  <2>2. SpentIn(j, g, {"confirmed"}) = SpentIn(j, f, {"confirmed"})
    BY <2>1, SpentKept
  <2> QED
    BY <1>2, <1>3, <2>2
<1>4. CASE x = "confirmed"
  <2>1. WithFate(g, {"confirmed"}) = WithFate(f, {"confirmed"}) \cup {l}
    BY <1>1, <1>4 DEF WithFate
  <2>2. l \in Attempts /\ l \notin WithFate(f, {"confirmed"})
    BY DEF WithFate
  <2> HIDE DEF l
  <2>3. SpentIn(j, g, {"confirmed"}) = BoundIn(j, l) + SpentIn(j, f, {"confirmed"})
    BY <2>1, <2>2, SpentConfirmed
  <2> QED
    BY <1>2, <1>4, <2>3
<1> QED
  BY <1>2, <1>3, <1>4
-----------------------------------------------------------------------------
(* What the workers know *)

\* The stream and the object of an order.
ShelfOK(k) ==
    /\ k.len \in Nat /\ k.object \in Orders /\ k.object.seq \in {k.len, k.len - 1}
    /\ k.head.status \in OrderStatus /\ k.head.remaining \in 0..MaxInput /\ k.head.filled \in Nat
    /\ k.object.seq = k.len =>
          /\ k.object.status = k.head.status
          /\ k.object.remaining = k.head.remaining
          /\ k.object.filled = k.head.filled
    /\ k.cancelled => k.head.status = "Cancelled"

\* A call at rest, or about to write its watermark, knows nothing.
LEMMA RestKnows ==
    ASSUME NEW l \in {"idle", "publish", "mark"}, NEW s, NEW w, NEW b, NEW k
    PROVE  Knows(l, s, w, b, k)
BY DEF Knows

\* A chunk is safe for any record with the same remainder, and is not empty.
LEMMA SafeChunkFacts ==
    ASSUME NEW o, NEW q, o.remaining = q.remaining, o.remaining \in 0..MaxInput,
           NEW c \in SafeChunks(o)
    PROVE  c \in SafeChunks(q) /\ c \in Nat /\ c >= 1 /\ c <= o.remaining
BY Bounds DEF SafeChunks

\* apply_transition without a fill.
LEMMA AcceptedPlain ==
    ASSUME NEW s, NEW to, NEW at, Accepts(terms, s, to, NoFill, at)
    PROVE  /\ EffectiveStatus(terms, s, to, NoFill, at) = to
           /\ RemainingAfter(s, NoFill) = s.remaining
           /\ FilledAfter(s, NoFill) = s.filled
           /\ to \in Successors(s.status)
<1>1. ~HasFill(NoFill)
  BY DEF HasFill
<1>2. RequestedStatus(terms, s, to, NoFill, at) = to
  BY <1>1 DEF RequestedStatus
<1>3. EffectiveStatus(terms, s, to, NoFill, at) = to
  BY <1>1, <1>2 DEF EffectiveStatus
<1> QED
  BY <1>1, <1>2, <1>3 DEF RemainingAfter, FilledAfter, Accepts, CanTransitionTo

\* A transition of an order that is not executing keeps it settled, or closes it.
LEMMA PreparedAccounts ==
    ASSUME NEW b, BookRecord(b), NEW k, ShelfOK(k), NEW k2, Accounts(b, k),
           k.head.status # "Executing", NEW to, to \in Successors(k.head.status),
           to = "Executing" => k.head.status = "Simulating",
           to \notin {"Filled", "FailedFinal"},
           k2.len = k.len + 1, k2.head.status = to,
           k2.head.remaining = k.head.remaining, k2.head.filled = k.head.filled
    PROVE  Accounts(b, k2) /\ (to \notin Closed => Settled(b, k2))
<1>1. k.head.status \notin Closed
  BY DEF Successors, Closed
<1>2. Settled(b, k)
  BY <1>1 DEF Accounts, Underway
<1>3. to \notin Closed => Rank(to) <= Rank(k.head.status) + 1 /\ Rank(to) \in Nat /\ Rank(k.head.status) \in Nat
  BY <1>1 DEF Successors, Rank, ShelfOK, Closed, OrderStatus, Open
<1>4. to \notin Closed => Settled(b, k2)
  <2> DEFINE x == Rank(to)
             y == Rank(k.head.status)
  <2>1. b.latest \in Nat /\ k.len \in Nat /\ 5 * b.latest + y <= k.len
    BY <1>2 DEF Settled, BookRecord, ShelfOK
  <2>2. to \notin Closed => x <= y + 1 /\ x \in Nat /\ y \in Nat
    BY <1>3
  <2> HIDE DEF x, y
  <2>3. to \notin Closed => 5 * b.latest + x <= k.len + 1
    BY <2>1, <2>2
  <2> QED
    BY <1>2, <2>3 DEF Settled, x
<1>5. Over(b, k2)
  BY <1>2 DEF Settled, Over
<1>6. k2.head.filled + k2.head.remaining = MaxInput /\ 5 * b.latest <= k2.len
      /\ 5 * b.latest <= MaxStream + 5
  BY DEF Accounts, BookRecord, ShelfOK
<1> QED
  BY <1>4, <1>5, <1>6 DEF Accounts

\* The call goes on once a transition of an order that is not executing is there.
LEMMA PreparedGoesOn ==
    ASSUME NEW b, NEW k, NEW k2, NEW s \in Orders, NEW r \in Orders, NEW w \in Locals,
           w.todo # <<>>, Preparing(s, w, b, k), s.status # "Executing",
           NEW v, v = [w EXCEPT !.todo = Tail(w.todo), !.fill = NoFill],
           r.status = Head(w.todo), r.remaining = s.remaining, InStep(r, k2),
           Head(w.todo) = "Executing" => Settled(b, k2),
           NEW l, l = IF Tail(w.todo) # <<>> THEN "append" ELSE w.next
    PROVE  Knows(l, r, v, b, k2)
<1>1. /\ v.fill = NoFill /\ v.todo = Tail(w.todo) /\ v.next = w.next /\ v.chunk = w.chunk
      /\ v.attempt = w.attempt
  BY DEF Locals
<1>2. w.todo \in Seq(OrderStatus)
  BY DEF Locals
<1>3. \A c \in SafeChunks(s) : c \in SafeChunks(r)
  BY SafeChunkFacts DEF Orders
<1>4. CASE w.next = "bind" /\ Chain(s, w, b, k)
  <2>1. CASE w.todo = <<"Quoting", "Simulating", "Executing">>
    <3>1. v.todo = <<"Simulating", "Executing">> /\ l = "append" /\ r.status = "Quoting"
      BY <1>1, <2>1
    <3>2. Preparing(r, v, b, k2)
      BY <1>1, <1>3, <1>4, <3>1 DEF Preparing, Chain
    <3> QED
      BY <3>1, <3>2 DEF Knows
  <2>2. CASE w.todo = <<"Simulating", "Executing">>
    <3>1. v.todo = <<"Executing">> /\ l = "append" /\ r.status = "Simulating"
      BY <1>1, <2>2
    <3>2. Preparing(r, v, b, k2)
      BY <1>1, <1>3, <1>4, <3>1 DEF Preparing, Chain
    <3> QED
      BY <3>1, <3>2 DEF Knows
  <2>3. CASE w.todo = <<"Executing">>
    <3>1. l = "bind" /\ r.status = "Executing" /\ Settled(b, k2)
      BY <1>4, <2>3
    <3>2. v.chunk \in SafeChunks(r) /\ v.attempt = b.latest + 1 /\ 5 * b.latest < MaxStream
      BY <1>1, <1>3, <1>4 DEF Preparing, Chain
    <3> QED
      BY <1>1, <3>1, <3>2 DEF Knows
  <2> QED
    BY <1>4, <2>1, <2>2, <2>3 DEF Chain
<1>5. CASE w.next \in {"evaluate", "identity", "publish"} /\ Plain(w.todo)
  <2>1. r.status \in {"Active", "TriggerCandidate", "Expired"} /\ Plain(v.todo)
    BY <1>1, <1>2, <1>5 DEF Plain
  <2>2. 5 * b.latest < MaxStream /\ (w.next = "identity" => w.chunk \in SafeChunks(r))
    BY <1>3, <1>5 DEF Preparing
  <2>3. CASE l = "append"
    <3>1. Preparing(r, v, b, k2)
      BY <1>1, <1>5, <2>1, <2>2 DEF Preparing
    <3> QED
      BY <2>1, <2>3, <3>1 DEF Knows
  <2>4. CASE l = w.next
    BY <1>1, <1>5, <2>1, <2>2, <2>4 DEF Knows
  <2> QED
    BY <2>3, <2>4
<1> QED
  BY <1>4, <1>5 DEF Preparing

\* The order effect of an attempt settles the order or closes it.
LEMMA SettlingAccounts ==
    ASSUME NEW b, BookRecord(b), NEW k, ShelfOK(k), NEW k2, Accounts(b, k),
           NEW s \in Orders, s.status = "Executing", NEW w \in Locals, Settling(s, w, b, k),
           NEW to, to = Head(w.todo), NEW at, Accepts(terms, s, to, w.fill, at),
           k2.len = k.len + 1,
           k2.head.status = EffectiveStatus(terms, s, to, w.fill, at),
           k2.head.remaining = RemainingAfter(s, w.fill),
           k2.head.filled = FilledAfter(s, w.fill)
    PROVE  Accounts(b, k2)
<1>1. /\ k.head.status = "Executing" /\ s.remaining = k.head.remaining
      /\ s.filled = k.head.filled
  BY DEF Settling, InStep, ShelfOK
<1>2. /\ k.head.remaining \in Nat /\ k.head.filled \in Nat /\ k.len \in Nat /\ b.latest \in Nat
      /\ b.chunk \in Nat /\ b.conf \in Nat /\ b.total \in Nat
      /\ k.head.filled + k.head.remaining = MaxInput /\ 5 * b.latest <= k.len
      /\ 5 * b.latest <= MaxStream + 5
  BY Bounds DEF ShelfOK, BookRecord, Accounts
<1>3. Rank("PartiallyFilled") = 1 /\ Rank("FailedRetryable") = 1
  BY DEF Rank
<1>4. CASE /\ w.fill = [input |-> b.chunk, remaining_after |-> s.remaining - b.chunk]
           /\ w.todo \in {<<"Filled">>, <<"PartiallyFilled">>}
           /\ Underway(b, k) /\ b.phase = "Confirmed" /\ b.compliant
  <2>1. b.chunk <= k.head.remaining
    BY <1>2, <1>4, SafeChunkFacts DEF Underway, ShelfOK
  <2>2. b.conf = k.head.filled + b.chunk /\ b.total = k.head.filled + b.chunk
        /\ b.fate = "confirmed"
    BY <1>4 DEF Underway
  <2>3. HasFill(w.fill) /\ w.fill.input = b.chunk
    BY <1>2, <1>4 DEF HasFill, NoFill
  <2>4. k2.head.remaining = k.head.remaining - b.chunk /\ k2.head.filled = k.head.filled + b.chunk
    BY <1>1, <2>3 DEF RemainingAfter, FilledAfter
  <2>5. k2.head.status \in {"Filled", "PartiallyFilled", "Expired"}
    <3>1. to \in {"Filled", "PartiallyFilled"}
      BY <1>4
    <3> QED
      BY <3>1 DEF EffectiveStatus, RequestedStatus
  <2>6. Over(b, k2)
    BY <2>2, <2>4 DEF Over
  <2>7. CASE k2.head.status \in Closed
    BY <1>2, <2>1, <2>4, <2>6, <2>7 DEF Accounts
  <2>8. CASE k2.head.status = "PartiallyFilled"
    <3>1. Settled(b, k2)
      BY <1>2, <1>3, <1>4, <2>2, <2>4, <2>8 DEF Settled, TerminalPhases
    <3>2. k2.head.status \notin Closed
      BY <2>8 DEF Closed
    <3> QED
      BY <1>2, <2>1, <2>4, <3>1, <3>2 DEF Accounts
  <2> QED
    BY <2>5, <2>7, <2>8 DEF Closed
<1>5. CASE /\ w.fill = NoFill
           /\ w.todo \in {<<"FailedFinal">>, <<"FailedRetryable">>, <<"Expired">>}
           /\ \/ Settled(b, k)
              \/ Underway(b, k) /\ b.phase = "FailedBeforeSubmit"
              \/ /\ Underway(b, k) /\ w.todo = <<"FailedFinal">>
                 /\ b.phase = "Rejected" \/ (b.phase = "Confirmed" /\ ~b.compliant)
  <2>1. k2.head.status = to /\ k2.head.remaining = k.head.remaining /\ k2.head.filled = k.head.filled
        /\ to \in {"FailedFinal", "FailedRetryable", "Expired"}
    BY <1>1, <1>5, AcceptedPlain
  <2>2. CASE Settled(b, k) \/ (Underway(b, k) /\ b.phase = "FailedBeforeSubmit")
    <3>1. /\ b.conf = k.head.filled /\ b.total = k.head.filled
          /\ b.fate \notin {"pending", "short"} /\ b.phase \in TerminalPhases \cup {"none"}
      BY <1>2, <2>2 DEF Settled, Underway, TerminalPhases
    <3>2. Over(b, k2)
      BY <2>1, <3>1 DEF Over
    <3>3. to = "FailedRetryable" => Settled(b, k2)
      BY <1>2, <1>3, <2>1, <3>1 DEF Settled
    <3>4. to # "FailedRetryable" => to \in Closed
      BY <2>1 DEF Closed
    <3> QED
      BY <1>2, <2>1, <3>2, <3>3, <3>4 DEF Accounts
  <2>3. CASE /\ Underway(b, k) /\ w.todo = <<"FailedFinal">>
             /\ b.phase = "Rejected" \/ (b.phase = "Confirmed" /\ ~b.compliant)
    <3>1. to = "FailedFinal" /\ to \in Closed
      BY <2>3 DEF Closed
    <3>2. b.fate \in {"none", "reverted", "short"} /\ b.conf = k.head.filled
      BY <1>2, <2>3 DEF Underway
    <3>3. b.chunk <= k.head.remaining
      BY <1>2, <2>3, SafeChunkFacts DEF Underway, ShelfOK
    <3>4. Over(b, k2)
      BY <2>1, <3>2, <3>3 DEF Over
    <3> QED
      BY <1>2, <2>1, <3>1, <3>4 DEF Accounts
  <2> QED
    BY <1>5, <2>2, <2>3
<1> QED
  BY <1>4, <1>5 DEF Settling

\* A cancellation that becomes visible interrupts a call and tells it nothing.
LEMMA CancelKnown ==
    ASSUME NEW l, NEW s, NEW w, NEW b, NEW k, NEW k2, Knows(l, s, w, b, k),
           InStep(s, k) => InStep(s, k2) \/ Interrupted(s, k2),
           Interrupted(s, k) => Interrupted(s, k2),
           Lagging(s, k) => Interrupted(s, k2),
           InStep(s, k) /\ s.status = "Executing" => k2 = k
    PROVE  Knows(l, s, w, b, k2)
<1>1. CASE InStep(s, k) /\ s.status = "Executing"
  BY <1>1
<1>2. CASE ~(InStep(s, k) /\ s.status = "Executing")
  <2>1. l \notin {"bind", "attempts", "execute", "claimed", "sent", "resolve", "reconcile"}
    BY <1>2 DEF Knows
  <2>2. ~(l = "append" /\ s.status = "Executing")
    BY <1>2 DEF Knows, Settling
  <2>3. Preparing(s, w, b, k) => Preparing(s, w, b, k2)
    BY DEF Preparing, Chain
  <2> QED
    BY <2>1, <2>2, <2>3 DEF Knows
<1> QED
  BY <1>1, <1>2

\* The chain decides: the attempt it is about is under way and not settled.
LEMMA FateKnown ==
    ASSUME NEW l, NEW s, NEW w \in Locals, NEW b, NEW b2, NEW k, Knows(l, s, w, b, k),
           Underway(b, k), Underway(b2, k), b.fate = "pending",
           b2.latest = b.latest, b2.phase = b.phase, b2.chunk = b.chunk
    PROVE  Knows(l, s, w, b2, k)
<1>1. ~Settled(b, k) /\ b.phase \notin TerminalPhases
  BY DEF Settled, Underway, TerminalPhases
<1>2. l \notin {"bind", "execute", "claimed"}
  BY <1>1 DEF Knows
<1>3. ~(l = "append" /\ s.status = "Executing")
  BY <1>1 DEF Knows, Settling, TerminalPhases
<1>4. Preparing(s, w, b, k) => Preparing(s, w, b2, k)
  BY DEF Preparing, Chain
<1>5. Consistent(w.res, b) => Consistent(w.res, b2)
  BY DEF Consistent
<1> QED
  BY <1>1, <1>2, <1>3, <1>4, <1>5 DEF Knows

\* A fate decided by the chain, or a transaction handed to it, leaves the attempt
\* under way.
LEMMA FateAccounts ==
    ASSUME NEW b, BookRecord(b), NEW b2, NEW k, ShelfOK(k), Accounts(b, k), Underway(b, k),
           b.phase \notin TerminalPhases, b.fate # "confirmed",
           b2.latest = b.latest, b2.phase = b.phase, b2.chunk = b.chunk, b2.total = b.total,
           b2.fate # "confirmed" => b2.conf = b.conf,
           b2.fate = "confirmed" => b2.conf = b.chunk + b.conf
    PROVE  Accounts(b2, k) /\ Underway(b2, k)
<1>1. b.conf \in Nat /\ b.chunk \in Nat /\ k.head.filled \in Nat /\ b.conf = k.head.filled
      /\ b.total = k.head.filled
  BY DEF BookRecord, ShelfOK, Underway, TerminalPhases
<1>2. b.phase \notin {"Confirmed", "Rejected", "FailedBeforeSubmit"}
  BY DEF TerminalPhases
<1>3. Underway(b2, k)
  BY <1>1, <1>2 DEF Underway
<1>4. k.head.status \notin Closed
  BY DEF Underway, Closed
<1> QED
  BY <1>3, <1>4 DEF Accounts

\* bind_attempt: the settled order has an attempt under way.
LEMMA BindAccounts ==
    ASSUME NEW b, BookRecord(b), NEW b2, NEW k, ShelfOK(k), Accounts(b, k), NEW s, NEW w,
           Knows("bind", s, w, b, k),
           b2.latest = b.latest + 1, b2.phase = "Bound", b2.chunk = w.chunk, b2.fate = "none",
           b2.conf = b.conf, b2.total = b.total
    PROVE  Accounts(b2, k) /\ Underway(b2, k)
<1>1. /\ Settled(b, k) /\ InStep(s, k) /\ s.status = "Executing" /\ w.chunk \in SafeChunks(s)
      /\ 5 * b.latest < MaxStream
  BY DEF Knows
<1>2. /\ k.head.status = "Executing" /\ k.head.remaining = s.remaining
      /\ s.remaining \in 0..MaxInput
  BY <1>1 DEF InStep, ShelfOK, Orders
<1>3. w.chunk \in SafeChunks(k.head)
  BY <1>1, <1>2, SafeChunkFacts
<1>4. Rank("Executing") = 5 /\ "Executing" \notin Closed
  BY DEF Rank, Closed
<1>5. b.latest \in Nat /\ k.len \in Nat /\ 5 * b.latest + 5 <= k.len
  BY <1>1, <1>2, <1>4 DEF Settled, BookRecord, ShelfOK
<1>6. 5 * b2.latest <= k.len /\ 5 * b2.latest <= MaxStream + 5 /\ b2.latest >= 1
  BY <1>1, <1>5, Bounds
<1>7. b2.conf = k.head.filled /\ b2.total = k.head.filled /\ k.head.filled \in Nat
  BY <1>1 DEF Settled, ShelfOK
<1>8. Underway(b2, k)
  BY <1>2, <1>3, <1>6, <1>7 DEF Underway
<1> QED
  BY <1>2, <1>4, <1>6, <1>8 DEF Accounts

\* append_attempt of the phase an answer of the executor stands for.
LEMMA PhaseAccounts ==
    ASSUME NEW b, BookRecord(b), NEW b2, NEW k, ShelfOK(k), Accounts(b, k), NEW s, NEW w,
           Knows("resolve", s, w, b, k), w.res \in Resolutions,
           b2.latest = b.latest, b2.phase = Phase(w.res), b2.chunk = b.chunk,
           b2.compliant = (w.res # "NonCompliantFill"),
           b2.realised = IF Phase(w.res) = "Confirmed" THEN w.chunk ELSE 0,
           b2.fate = b.fate, b2.conf = b.conf,
           b2.phase # "Confirmed" => b2.total = b.total,
           b2.phase = "Confirmed" => b2.total = w.chunk + b.total
    PROVE  Accounts(b2, k) /\ Underway(b2, k)
<1>1. /\ Underway(b, k) /\ b.phase \notin TerminalPhases /\ w.chunk = b.chunk
      /\ Consistent(w.res, b)
  BY DEF Knows
<1>2. b.total = k.head.filled /\ k.head.filled \in Nat /\ b.chunk \in Nat
  BY <1>1 DEF Underway, TerminalPhases, ShelfOK, BookRecord
<1>3. CASE w.res \in {"Filled", "NonCompliantFill"}
  <2>1. b2.phase = "Confirmed" /\ b2.realised = b.chunk
    BY <1>1, <1>3 DEF Phase
  <2>2. b2.total = k.head.filled + b.chunk
    BY <1>1, <1>2, <2>1
  <2>3. b2.fate = IF b2.compliant THEN "confirmed" ELSE "short"
    BY <1>1, <1>3 DEF Consistent
  <2> QED
    BY <1>1, <2>1, <2>2, <2>3 DEF Underway, Accounts, Closed
<1>4. CASE w.res \notin {"Filled", "NonCompliantFill"}
  <2>1. b2.phase = w.res /\ b2.phase # "Confirmed"
    BY <1>4 DEF Phase, Resolutions
  <2> QED
    BY <1>1, <1>2, <2>1 DEF Underway, Accounts, Closed, Consistent
<1> QED
  BY <1>3, <1>4

\* A call with nothing to fill persists the order effect it is told to.
LEMMA EffectMoves ==
    ASSUME CallsOK, NEW p \in Procs, NEW w \in Locals, NEW to \in OrderStatus,
           Advance(p, w, <<to>>, "publish"), UNCHANGED snap,
           NEW b, NEW k, InStep(snap[p], k), snap[p].status = "Executing", w.fill = NoFill,
           to \in {"FailedFinal", "FailedRetryable", "Expired"},
           \/ Settled(b, k)
           \/ Underway(b, k) /\ b.phase = "FailedBeforeSubmit"
           \/ /\ Underway(b, k) /\ to = "FailedFinal"
              /\ b.phase = "Rejected" \/ (b.phase = "Confirmed" /\ ~b.compliant)
    PROVE  \E l, s, v : Moves(p, l, s, v) /\ Knows(l, s, v, b, k)
<1> DEFINE v == [w EXCEPT !.todo = <<to>>, !.next = "publish"]
<1>1. v.todo = <<to>> /\ v.next = "publish" /\ v.fill = NoFill
  BY DEF Locals
<1>2. Moves(p, "append", snap[p], v)
  BY DEF Advance, Goto, Moves, CallsOK
<1> HIDE DEF v
<1>3. Settling(snap[p], v, b, k)
  BY <1>1 DEF Settling
<1>4. Knows("append", snap[p], v, b, k)
  BY <1>3 DEF Knows
<1> QED
  BY <1>2, <1>4

\* resolve_fill and the other order effects of a resolution.
LEMMA SettleMoves ==
    ASSUME CallsOK, NEW p \in Procs, NEW w \in Locals, w.res \in Resolutions, Settle(p, w),
           NEW b, NEW k, ShelfOK(k), InStep(snap[p], k), snap[p].status = "Executing",
           w.fill = NoFill,
           w.res = "Filled" =>
               Underway(b, k) /\ b.phase = "Confirmed" /\ b.compliant /\ w.chunk = b.chunk,
           w.res = "NonCompliantFill" =>
               Underway(b, k) /\ b.phase = "Confirmed" /\ ~b.compliant,
           w.res = "Rejected" => Settled(b, k) \/ (Underway(b, k) /\ b.phase = "Rejected"),
           w.res = "FailedBeforeSubmit" =>
               Settled(b, k) \/ (Underway(b, k) /\ b.phase = "FailedBeforeSubmit")
    PROVE  \E l, s, v : Moves(p, l, s, v) /\ Knows(l, s, v, b, k)
<1> DEFINE left == snap[p].remaining - w.chunk
<1>1. /\ "FailedFinal" \in OrderStatus /\ "FailedRetryable" \in OrderStatus
      /\ "Expired" \in OrderStatus
  BY DEF OrderStatus, Open, Closed
<1>2. CASE Publish(p) \/ Fail(p)
  <2>1. PICK l \in {"idle", "publish"} : Moves(p, l, NewObject, IdleWork)
    BY <1>2, Rests
  <2> QED
    BY <2>1, RestKnows
<1>3. CASE w.res = "FailedBeforeSubmit"
  <2> DEFINE to == PreSendTarget(w.attempt, w.at)
  <2>1. Advance(p, w, <<to>>, "publish") /\ UNCHANGED snap
    BY <1>3 DEF Settle
  <2>2. to \in {"FailedFinal", "FailedRetryable", "Expired"}
    BY DEF PreSendTarget
  <2> HIDE DEF to
  <2> QED
    BY <1>1, <1>3, <2>1, <2>2, EffectMoves
<1>4. CASE w.res \in {"Rejected", "NonCompliantFill"}
  <2>1. Advance(p, w, <<"FailedFinal">>, "publish") /\ UNCHANGED snap
    BY <1>4 DEF Settle
  <2>2. \/ Settled(b, k)
        \/ Underway(b, k) /\ (b.phase = "Rejected" \/ (b.phase = "Confirmed" /\ ~b.compliant))
    BY <1>4
  <2> QED
    BY <1>1, <2>1, <2>2, EffectMoves
<1>5. CASE w.res = "Filled" /\ ~(left < 0)
  <2> DEFINE f == [input |-> w.chunk, remaining_after |-> left]
             todo == IF left = 0 THEN <<"Filled">> ELSE <<"PartiallyFilled">>
             v == [[w EXCEPT !.fill = f] EXCEPT !.todo = todo, !.next = "publish"]
  <2>1. Goto(p, "append", v) /\ UNCHANGED snap
    BY <1>5 DEF Settle, Advance
  <2>2. /\ v.fill = f /\ v.todo = todo /\ v.next = "publish"
    BY DEF Locals
  <2>3. todo \in {<<"Filled">>, <<"PartiallyFilled">>}
    OBVIOUS
  <2>4. f = [input |-> b.chunk, remaining_after |-> snap[p].remaining - b.chunk]
    BY <1>5
  <2> HIDE DEF v, todo, f
  <2>5. Moves(p, "append", snap[p], v)
    BY <2>1 DEF Goto, Moves, CallsOK
  <2>6. Settling(snap[p], v, b, k)
    BY <1>5, <2>2, <2>3, <2>4 DEF Settling
  <2>7. Knows("append", snap[p], v, b, k)
    BY <2>6 DEF Knows
  <2> QED
    BY <2>5, <2>7
<1>6. CASE w.res = "Unknown" \/ (w.res = "Filled" /\ left < 0)
  BY <1>2, <1>6 DEF Settle
<1> QED
  BY <1>3, <1>4, <1>5, <1>6 DEF Resolutions
-----------------------------------------------------------------------------
(* Calls *)

Alone(p) == \A q \in Workers \ {p} : pc[q] = "idle"

\* A worker that is not idle is the only one.
LEMMA BusyAlone ==
    ASSUME WorkersKnow, NEW p \in Workers, pc[p] # "idle"
    PROVE  Alone(p)
BY DEF WorkersKnow, Alone

LEMMA WorkersAreProcs ==
    /\ Workers \subseteq Procs /\ Cancellers \subseteq Procs
    /\ \A p \in Procs : p \in Workers \/ p \in Cancellers
    /\ \A c \in Cancellers : c \notin Workers
    /\ \A t \in Tickers : t \in Workers
    /\ Recoverer \in Workers
BY OrchestratorAssumption DEF Workers, Procs

\* One worker moves while the others rest.
LEMMA WorkerMoves ==
    ASSUME CallsOK, WorkersKnow, NEW p \in Workers, Alone(p), NEW l, NEW s, NEW w,
           Moves(p, l, s, w), Knows(l, s, w, Books', Shelf')
    PROVE  WorkersKnow'
<1>1. p \in Procs /\ \A q \in Procs : q # p => pc'[q] = pc[q] /\ work'[q] = work[q]
                                                /\ snap'[q] = snap[q]
  BY WorkersAreProcs DEF CallsOK, Moves
<1>2. pc'[p] = l /\ snap'[p] = s /\ work'[p] = w
  BY <1>1 DEF CallsOK, Moves
<1>3. ASSUME NEW q \in Workers PROVE Knows(pc'[q], snap'[q], work'[q], Books', Shelf')
  <2>1. CASE q = p
    BY <1>2, <2>1
  <2>2. CASE q # p
    <3>1. pc'[q] = "idle"
      BY <1>1, <2>2, WorkersAreProcs DEF Alone
    <3> QED
      BY <3>1, RestKnows
  <2> QED
    BY <2>1, <2>2
<1>4. \A q, o \in Workers : pc'[q] # "idle" /\ pc'[o] # "idle" => q = o
  BY <1>1, WorkersAreProcs DEF Alone
<1>5. \A c \in Cancellers : Cancelling(pc'[c], work'[c])
  BY <1>1, WorkersAreProcs DEF WorkersKnow
<1> QED
  BY <1>3, <1>4, <1>5 DEF WorkersKnow

\* A cancel_order call moves and every worker knows what it knew.
LEMMA CancellerMoves ==
    ASSUME CallsOK, WorkersKnow, NEW c \in Cancellers, NEW l, NEW s, NEW w,
           Moves(c, l, s, w), Cancelling(l, w),
           \A q \in Workers : Knows(pc[q], snap[q], work[q], Books', Shelf')
    PROVE  WorkersKnow'
<1>1. c \in Procs /\ \A q \in Procs : q # c => pc'[q] = pc[q] /\ work'[q] = work[q]
                                                /\ snap'[q] = snap[q]
  BY WorkersAreProcs DEF CallsOK, Moves
<1>2. pc'[c] = l /\ work'[c] = w
  BY <1>1 DEF CallsOK, Moves
<1>3. \A q \in Workers : q # c /\ pc'[q] = pc[q] /\ work'[q] = work[q] /\ snap'[q] = snap[q]
  BY <1>1, WorkersAreProcs
<1>4. \A q \in Workers : Knows(pc'[q], snap'[q], work'[q], Books', Shelf')
  BY <1>3
<1>5. \A q, o \in Workers : pc'[q] # "idle" /\ pc'[o] # "idle" => q = o
  BY <1>3 DEF WorkersKnow
<1>6. \A q \in Cancellers : Cancelling(pc'[q], work'[q])
  BY <1>1, <1>2, WorkersAreProcs DEF WorkersKnow
<1> QED
  BY <1>4, <1>5, <1>6 DEF WorkersKnow

\* Journal and chain stay, and so does the stream.
LEMMA SameLedger ==
    ASSUME Ledgered, UNCHANGED <<stream, journal, fate>>
    PROVE  /\ Books' = Books
           /\ Shelf'.len = Shelf.len /\ Shelf'.head = Shelf.head
           /\ Shelf'.cancelled = Shelf.cancelled /\ Shelf'.object = object'
           /\ UNCHANGED object => Shelf' = Shelf
           /\ FatesOrdered' => Ledgered'
<1>1. Books' = Books
  BY DEF Books
<1>2. HeadOrder' = HeadOrder
  BY DEF HeadOrder
<1>3. /\ Shelf'.len = Shelf.len /\ Shelf'.head = Shelf.head
      /\ Shelf'.cancelled = Shelf.cancelled /\ Shelf'.object = object'
      /\ UNCHANGED object => Shelf' = Shelf
  BY <1>2 DEF Shelf
<1>4. Accounts(Books', Shelf')
  <2>1. Accounts(Books, Shelf)
    BY DEF Ledgered
  <2>2. Accounts(Books, Shelf')
    BY <1>3, <2>1 DEF Accounts, Over, Settled, Underway
  <2> QED
    BY <1>1, <2>2
<1>5. Ordered(journal') /\ CancelIsLast'
  BY DEF Ledgered, CancelIsLast
<1> QED
  BY <1>1, <1>3, <1>4, <1>5 DEF Ledgered

\* The relay's ledger of attempts stays too.
LEMMA SameFates ==
    ASSUME FatesOrdered, UNCHANGED <<journal, verdict, sends, fate>> PROVE FatesOrdered'
BY DEF FatesOrdered, LatestAttempt

\* The books and the shelf of a state, typed.
LEMMA Facts ==
    ASSUME SingleLoop, AccountsInv
    PROVE  /\ BookRecord(Books) /\ ShelfOK(Shelf) /\ Accounts(Books, Shelf)
           /\ Books.latest = LatestAttempt /\ LatestAttempt \in Nat
           /\ Shelf.len = Len(stream) /\ Shelf.object = object /\ Shelf.head = HeadOrder
<1>1. journal \in Seq(AttemptEvents) /\ Ordered(journal) /\ CancelIsLast /\ Accounts(Books, Shelf)
  BY DEF AccountsInv, Ledgered, StoreInv, StoreTypeOK
<1>2. BookRecord(Books) /\ Books.latest = LatestIn(journal)
  BY <1>1, BooksTypes DEF Books
<1>3. LatestIn(journal) = LatestAttempt
  BY DEF LatestIn, LatestAttempt
<1>4. /\ Shelf.len = Len(stream) /\ Shelf.head = HeadOrder /\ Shelf.object = object
      /\ Shelf.cancelled = (stream # <<>> /\ stream[Len(stream)].to = "Cancelled")
  BY DEF Shelf
<1>5. /\ object \in Orders /\ object.seq \in {Len(stream), Len(stream) - 1} /\ Len(stream) \in Nat
  BY ObjectFacts DEF AccountsInv
<1>6. /\ HeadOrder.status \in OrderStatus /\ HeadOrder.remaining \in 0..MaxInput
      /\ HeadOrder.filled \in Nat
  <2>1. CASE stream = <<>>
    BY <2>1, TermsFields, Bounds DEF HeadOrder, NewOrder, OrderStatus, Open
  <2>2. CASE stream # <<>>
    BY <2>2, HeadFacts DEF AccountsInv, StoreInv, Events
  <2> QED
    BY <2>1, <2>2
<1>7. object.seq = Len(stream) =>
          /\ object.status = HeadOrder.status
          /\ object.remaining = HeadOrder.remaining
          /\ object.filled = HeadOrder.filled
  BY DEF AccountsInv, StoreInv, ObjectAgrees
<1>8. Shelf.cancelled => HeadOrder.status = "Cancelled"
  <2>1. stream # <<>> => Len(stream) \in 1..Len(stream) /\ HeadOrder.status = stream[Len(stream)].status
    BY HeadFacts DEF AccountsInv, StoreInv
  <2> QED
    BY <1>1, <1>4, <2>1 DEF CancelIsLast
<1>9. ShelfOK(Shelf)
  BY <1>4, <1>5, <1>6, <1>7, <1>8 DEF ShelfOK
<1> QED
  BY <1>1, <1>2, <1>3, <1>4, <1>9, BooksTypes DEF BookRecord

\* What is known of a worker.
LEMMA WorkerFacts ==
    ASSUME AccountsInv, NEW p \in Workers
    PROVE  /\ p \in Procs /\ snap[p] \in Orders /\ work[p] \in Locals
           /\ Knows(pc[p], snap[p], work[p], Books, Shelf)
           /\ pc[p] # "idle" => Alone(p)
<1>1. p \in Procs
  BY WorkersAreProcs
<1>2. snap[p] \in Orders /\ work[p] \in Locals
  BY <1>1, CallFacts DEF AccountsInv, StoreInv
<1> QED
  BY <1>1, <1>2, BusyAlone DEF AccountsInv, WorkersKnow

\* A worker goes on while the order, the journal and the chain stay.
Goes(p) == \E l, s, w : Moves(p, l, s, w) /\ Knows(l, s, w, Books, Shelf)

LEMMA LocalAccounts ==
    ASSUME AccountsInv, StoreInv', NEW p \in Workers, Alone(p), Goes(p),
           UNCHANGED <<stream, object, journal, fate>>, FatesOrdered'
    PROVE  AccountsInv'
<1>1. PICK l, s, w : Moves(p, l, s, w) /\ Knows(l, s, w, Books, Shelf)
  BY DEF Goes
<1>2. Books' = Books /\ Shelf' = Shelf /\ Ledgered'
  BY SameLedger DEF AccountsInv
<1>3. Knows(l, s, w, Books', Shelf')
  BY <1>1, <1>2
<1>4. WorkersKnow'
  BY <1>1, <1>3, WorkerMoves DEF AccountsInv, StoreInv
<1> QED
  BY <1>2, <1>4 DEF AccountsInv

\* Finish, Publish and Fail.
LEMMA RestGoes ==
    ASSUME NEW p \in Procs, Finish(p) \/ Publish(p) \/ Fail(p) PROVE Goes(p)
<1>1. PICK l \in {"idle", "publish"} : Moves(p, l, NewObject, IdleWork)
  BY Rests
<1> QED
  BY <1>1, RestKnows DEF Goes

\* Goto with the snapshot kept.
LEMMA GotoGoes ==
    ASSUME CallsOK, NEW p \in Procs, NEW l, NEW w, Goto(p, l, w), UNCHANGED snap,
           Knows(l, snap[p], w, Books, Shelf)
    PROVE  Goes(p)
<1>1. Moves(p, l, snap[p], w)
  BY DEF Goto, Moves, CallsOK
<1> QED
  BY <1>1 DEF Goes

\* A call that is not executing persists plain transitions.
LEMMA PlainKnows ==
    ASSUME NEW s, s.status # "Executing", NEW w \in Locals, w.fill = NoFill, NEW todo, Plain(todo),
           NEW l \in {"evaluate", "identity", "publish"}, NEW b, NEW k,
           InStep(s, k) \/ Interrupted(s, k) \/ Lagging(s, k), 5 * b.latest < MaxStream,
           l = "identity" => w.chunk \in SafeChunks(s),
           NEW v, v = [w EXCEPT !.todo = todo, !.next = l]
    PROVE  Knows("append", s, v, b, k)
<1>1. v.fill = NoFill /\ v.todo = todo /\ v.next = l /\ v.chunk = w.chunk
  BY DEF Locals
<1>2. Preparing(s, v, b, k)
  BY <1>1 DEF Preparing
<1> QED
  BY <1>2 DEF Knows

LEMMA PlainTodos ==
    /\ Plain(<<"Active">>) /\ Plain(<<"Expired">>) /\ Plain(<<"TriggerCandidate">>)
    /\ Plain(<<"TriggerCandidate", "Active">>)
BY DEF Plain

\* Steps 1 to 4 of a tick.
LEMMA LoadAccounts ==
    ASSUME SingleLoop, AccountsInv, StoreInv', NEW t \in Tickers, Load(t) PROVE AccountsInv'
<1> DEFINE w == [IdleWork EXCEPT !.at = now]
<1>1. t \in Workers /\ t \in Procs
  BY WorkersAreProcs
<1>2. Alone(t)
  <2>1. \A q \in Workers \ {t} : q = Recoverer
    BY DEF SingleLoop, Workers
  <2> QED
    BY <2>1 DEF Load, Alone
<1>3. UNCHANGED <<stream, object, journal, fate>> /\ FatesOrdered'
  BY SameFates DEF Load, durableVars, relayVars, AccountsInv, Ledgered
<1>4. w \in Locals /\ w.fill = NoFill
  BY JournalFacts, LocalsAt DEF IdleWork, AccountsInv
<1>5. CallsOK
  BY DEF AccountsInv, StoreInv
<1> HIDE DEF w
<1>6. CASE Publish(t)
  BY <1>1, <1>2, <1>3, <1>6, RestGoes, LocalAccounts
<1>7. CASE ~Publish(t)
  <2> DEFINE b == Books
             k == Shelf
  <2>1. /\ object.status # "Executing" /\ snap' = [snap EXCEPT ![t] = object]
        /\ \/ Goto(t, "evaluate", w)
           \/ Advance(t, w, <<"Expired">>, "publish")
           \/ Advance(t, w, <<"Active">>, "evaluate")
    BY <1>7 DEF Load, w
  <2>2. /\ k.object = object /\ k.len \in Nat /\ object.seq \in {k.len, k.len - 1}
        /\ object.seq \in Nat /\ k.len = Len(stream) /\ 5 * b.latest <= k.len /\ b.latest \in Nat
    BY Facts DEF Accounts, ShelfOK, BookRecord, Orders
  <2> HIDE DEF b, k
  <2>3. InStep(object, k) \/ Interrupted(object, k) \/ Lagging(object, k)
    BY <2>2 DEF InStep, Lagging
  <2>4. 5 * b.latest < MaxStream
    BY <2>2, Bounds DEF Load
  <2>5. ASSUME NEW l, NEW v, Goto(t, l, v), Knows(l, object, v, b, k) PROVE Goes(t)
    <3>1. Moves(t, l, object, v)
      BY <2>1, <2>5 DEF Goto, Moves
    <3> QED
      BY <2>5, <3>1 DEF Goes, b, k
  <2>6. CASE Goto(t, "evaluate", w)
    <3>1. Knows("evaluate", object, w, b, k)
      BY <1>4, <2>1, <2>3, <2>4 DEF Knows
    <3> QED
      BY <1>1, <1>2, <1>3, <2>5, <2>6, <3>1, LocalAccounts
  <2>7. ASSUME NEW todo \in {<<"Expired">>, <<"Active">>}, NEW l \in {"evaluate", "publish"},
               Advance(t, w, todo, l)
        PROVE  AccountsInv'
    <3> DEFINE v == [w EXCEPT !.todo = todo, !.next = l]
    <3>1. Goto(t, "append", v)
      BY <2>7 DEF Advance
    <3>2. Plain(todo) /\ l \in {"evaluate", "identity", "publish"} /\ l # "identity"
      BY PlainTodos
    <3>3. Knows("append", object, v, b, k)
      BY <1>4, <2>1, <2>3, <2>4, <3>2, PlainKnows
    <3> HIDE DEF v
    <3> QED
      BY <1>1, <1>2, <1>3, <2>5, <3>1, <3>3, LocalAccounts
  <2> QED
    BY <2>1, <2>6, <2>7
<1> QED
  BY <1>6, <1>7

\* Step 5: the trigger.
LEMMA EvaluateAccounts ==
    ASSUME SingleLoop, AccountsInv, StoreInv', NEW t \in Tickers, EvaluateTrigger(t)
    PROVE  AccountsInv'
<1> DEFINE w == work[t]
           o == snap[t]
           b == Books
           k == Shelf
           candidate == IF o.status = "TriggerCandidate" THEN <<>> ELSE <<"TriggerCandidate">>
<1>1. t \in Workers /\ t \in Procs /\ w \in Locals /\ Alone(t) /\ CallsOK
  BY WorkersAreProcs, WorkerFacts DEF EvaluateTrigger, AccountsInv, StoreInv
<1>2. UNCHANGED <<stream, object, journal, fate>> /\ FatesOrdered'
  BY SameFates DEF EvaluateTrigger, durableVars, relayVars, AccountsInv, Ledgered
<1>3. /\ w.fill = NoFill /\ o.status # "Executing" /\ 5 * b.latest < MaxStream
      /\ InStep(o, k) \/ Interrupted(o, k) \/ Lagging(o, k)
  <2>1. Knows("evaluate", o, w, b, k)
    BY <1>1, WorkerFacts DEF EvaluateTrigger
  <2> QED
    BY <2>1 DEF Knows
<1>4. SUFFICES Goes(t)
  BY <1>1, <1>2, LocalAccounts
<1>5. CASE Publish(t)
  BY <1>1, <1>5, RestGoes
<1>6. ASSUME NEW v \in Locals, v.fill = NoFill, NEW todo, Plain(todo),
             NEW l \in {"identity", "publish"}, l = "identity" => v.chunk \in SafeChunks(o),
             Advance(t, v, todo, l), UNCHANGED snap
      PROVE  Goes(t)
  <2> DEFINE u == [v EXCEPT !.todo = todo, !.next = l]
  <2>1. Goto(t, "append", u)
    BY <1>6 DEF Advance
  <2>2. Knows("append", o, u, b, k)
    BY <1>3, <1>6, PlainKnows
  <2> HIDE DEF u
  <2> QED
    BY <1>1, <1>6, <2>1, <2>2, GotoGoes
<1>7. CASE Advance(t, w, <<"Expired">>, "publish") /\ UNCHANGED snap
  BY <1>1, <1>3, <1>6, <1>7, PlainTodos
<1>8. CASE Advance(t, w, candidate \o <<"Active">>, "publish") /\ UNCHANGED snap
  <2>1. Plain(candidate \o <<"Active">>)
    <3> DEFINE P == {"Active", "TriggerCandidate", "Expired"}
    <3>1. candidate \in Seq(P) /\ <<"Active">> \in Seq(P)
      <4>1. <<"Active">> \in Seq(P) /\ <<"TriggerCandidate">> \in Seq(P) /\ <<>> \in Seq(P)
        OBVIOUS
      <4> HIDE DEF P
      <4> QED
        BY <4>1
    <3> HIDE DEF candidate
    <3>2. candidate \o <<"Active">> \in Seq(P)
      BY <3>1
    <3> QED
      BY <3>2 DEF Plain
  <2> DEFINE todo == candidate \o <<"Active">>
  <2>2. Plain(todo) /\ Advance(t, w, todo, "publish")
    BY <1>8, <2>1
  <2> HIDE DEF todo
  <2> QED
    BY <1>1, <1>3, <1>6, <1>8, <2>2
<1>9. ASSUME NEW chunk \in SafeChunks(o), UNCHANGED snap,
             IF candidate = <<>> THEN Goto(t, "identity", [w EXCEPT !.chunk = chunk])
             ELSE Advance(t, [w EXCEPT !.chunk = chunk], candidate, "identity")
      PROVE  Goes(t)
  <2> DEFINE v == [w EXCEPT !.chunk = chunk]
  <2>1. chunk \in Nat
    BY <1>1, WorkerFacts, SafeChunkFacts DEF Orders
  <2>2. v \in Locals /\ v.chunk = chunk /\ v.fill = NoFill
    <3>1. v \in Locals
      BY <1>1, <2>1, LocalsChunk
    <3> QED
      BY <1>1, <1>3, <3>1 DEF Locals
  <2>3. \/ Goto(t, "identity", v)
        \/ candidate = <<"TriggerCandidate">> /\ Advance(t, v, candidate, "identity")
    BY <1>9
  <2> HIDE DEF v, candidate
  <2>4. CASE Goto(t, "identity", v)
    <3>1. Knows("identity", o, v, b, k)
      BY <1>3, <2>2 DEF Knows
    <3> QED
      BY <1>1, <1>9, <2>4, <3>1, GotoGoes
  <2>5. CASE candidate = <<"TriggerCandidate">> /\ Advance(t, v, candidate, "identity")
    <3>1. Plain(candidate)
      BY <2>5, PlainTodos
    <3> QED
      BY <1>6, <1>9, <2>2, <2>5, <3>1
  <2> QED
    BY <2>3, <2>4, <2>5
<1> QED
  BY <1>5, <1>7, <1>8, <1>9 DEF EvaluateTrigger

\* Step 7: the identity of the next attempt.
LEMMA IdentityAccounts ==
    ASSUME SingleLoop, AccountsInv, StoreInv', NEW t \in Tickers, NextAttemptIdentity(t)
    PROVE  AccountsInv'
<1> DEFINE w == work[t]
           o == snap[t]
           b == Books
           k == Shelf
<1>1. t \in Workers /\ t \in Procs /\ w \in Locals /\ Alone(t) /\ CallsOK
  BY WorkersAreProcs, WorkerFacts DEF NextAttemptIdentity, AccountsInv, StoreInv
<1>2. UNCHANGED <<stream, object, journal, fate>> /\ FatesOrdered'
  BY SameFates DEF NextAttemptIdentity, durableVars, relayVars, AccountsInv, Ledgered
<1>3. SUFFICES Goes(t)
  BY <1>1, <1>2, LocalAccounts
<1>4. CASE Fail(t) \/ Publish(t)
  BY <1>1, <1>4, RestGoes
<1>5. CASE Goto(t, "prepare", [w EXCEPT !.attempt = LatestAttempt + 1]) /\ UNCHANGED snap
  <2> DEFINE v == [w EXCEPT !.attempt = LatestAttempt + 1]
  <2>1. Knows("identity", o, w, b, k) /\ b.latest = LatestAttempt
    BY <1>1, WorkerFacts, Facts DEF NextAttemptIdentity
  <2>2. v.attempt = b.latest + 1 /\ v.fill = w.fill /\ v.chunk = w.chunk
    BY <1>1, <2>1 DEF Locals
  <2> HIDE DEF v, b, k, o, w
  <2>3. Knows("prepare", o, v, b, k)
    BY <2>1, <2>2 DEF Knows
  <2>4. Goto(t, "prepare", v)
    BY <1>5 DEF v, w
  <2> QED
    BY <1>1, <1>5, <2>3, <2>4, GotoGoes DEF o, b, k
<1> QED
  BY <1>4, <1>5 DEF NextAttemptIdentity

\* Steps 6 and 8 to 10: the chain of transitions up to Executing.
LEMMA PrepareAccounts ==
    ASSUME SingleLoop, AccountsInv, StoreInv', NEW t \in Tickers, PrepareAttempt(t)
    PROVE  AccountsInv'
<1> DEFINE w == work[t]
           o == snap[t]
           b == Books
           k == Shelf
           chain == <<"Quoting", "Simulating", "Executing">>
<1>1. t \in Workers /\ t \in Procs /\ w \in Locals /\ Alone(t) /\ CallsOK
  BY WorkersAreProcs, WorkerFacts DEF PrepareAttempt, AccountsInv, StoreInv
<1>2. UNCHANGED <<stream, object, journal, fate, snap>> /\ FatesOrdered'
  BY SameFates DEF PrepareAttempt, durableVars, relayVars, AccountsInv, Ledgered
<1>3. SUFFICES Goes(t)
  BY <1>1, <1>2, LocalAccounts
<1>4. /\ w.fill = NoFill /\ o.status # "Executing" /\ 5 * b.latest < MaxStream
      /\ InStep(o, k) \/ Interrupted(o, k) \/ Lagging(o, k)
      /\ w.chunk \in SafeChunks(o) /\ w.attempt = b.latest + 1
  <2>1. Knows("prepare", o, w, b, k)
    BY <1>1, WorkerFacts DEF PrepareAttempt
  <2> QED
    BY <2>1 DEF Knows
<1>5. CASE Advance(t, w, <<"Active">>, "publish")
  <2> DEFINE v == [w EXCEPT !.todo = <<"Active">>, !.next = "publish"]
  <2>1. Goto(t, "append", v)
    BY <1>5 DEF Advance
  <2>2. Knows("append", o, v, b, k)
    BY <1>1, <1>4, PlainTodos, PlainKnows
  <2> HIDE DEF v
  <2> QED
    BY <1>1, <1>2, <2>1, <2>2, GotoGoes
<1>6. CASE Advance(t, w, chain, "bind")
  <2> DEFINE v == [w EXCEPT !.todo = chain, !.next = "bind"]
  <2>1. Goto(t, "append", v)
    BY <1>6 DEF Advance
  <2>2. v.todo = chain /\ v.next = "bind" /\ v.fill = NoFill /\ v.chunk = w.chunk /\ v.attempt = w.attempt
    BY <1>1, <1>4 DEF Locals
  <2> HIDE DEF v
  <2>3. Preparing(o, v, b, k)
    BY <1>4, <2>2 DEF Preparing, Chain
  <2>4. Knows("append", o, v, b, k)
    BY <1>4, <2>3 DEF Knows
  <2> QED
    BY <1>1, <1>2, <2>1, <2>4, GotoGoes
<1> QED
  BY <1>5, <1>6 DEF PrepareAttempt

\* The attempt a call executes or reconciles is the latest, and what the chain
\* knows of it.
LEMMA AttemptFacts ==
    ASSUME SingleLoop, AccountsInv, Books.latest >= 1
    PROVE  /\ journal # <<>> /\ LatestIn(journal) = LatestAttempt
           /\ LatestAttempt \in Attempts /\ LatestAttempt = Books.latest
           /\ Books.fate = fate[LatestAttempt] /\ Books.phase = journal[Len(journal)].phase
           /\ Books.chunk = BoundChunk(LatestAttempt)
           /\ fate \in [Attempts -> Fates]
<1>1. Books.latest = LatestAttempt /\ LatestAttempt \in Nat /\ 5 * Books.latest <= MaxStream + 5
  BY Facts DEF Accounts
<1>2. LatestAttempt \in Attempts
  BY <1>1, AttemptsRange
<1>3. journal # <<>>
  BY <1>1 DEF LatestAttempt
<1>4. LatestIn(journal) = LatestAttempt
  BY DEF LatestIn, LatestAttempt
<1>5. Books.fate = fate[LatestIn(journal)] /\ Books.phase = journal[Len(journal)].phase
      /\ Books.chunk = BoundIn(journal, LatestIn(journal))
  BY <1>3, ReadBooks DEF Books
<1>6. BoundIn(journal, LatestIn(journal)) = BoundChunk(LatestIn(journal))
  BY DEF BoundIn, BoundChunk
<1> QED
  BY <1>1, <1>2, <1>3, <1>4, <1>5, <1>6 DEF AccountsInv, Ledgered, FatesOrdered

\* What a call between the Bound event and its answer holds.
LEMMA ExecutingFacts ==
    ASSUME SingleLoop, AccountsInv, NEW p \in Workers,
           pc[p] \in {"execute", "claimed", "sent", "resolve", "reconcile"}
    PROVE  /\ p \in Procs /\ Alone(p) /\ CallsOK /\ work[p] \in Locals /\ snap[p] \in Orders
           /\ InStep(snap[p], Shelf) /\ snap[p].status = "Executing" /\ work[p].fill = NoFill
           /\ Underway(Books, Shelf) /\ Books.phase \notin TerminalPhases
           /\ work[p].prior \notin TerminalPhases
           /\ work[p].attempt = Books.latest /\ work[p].chunk = Books.chunk
           /\ work[p].attempt = LatestAttempt /\ LatestAttempt \in Attempts
           /\ Books.fate = fate[LatestAttempt] /\ journal # <<>>
<1>1. /\ p \in Procs /\ Alone(p) /\ work[p] \in Locals /\ snap[p] \in Orders
      /\ Knows(pc[p], snap[p], work[p], Books, Shelf)
  BY WorkerFacts
<1>2. /\ InStep(snap[p], Shelf) /\ snap[p].status = "Executing" /\ work[p].fill = NoFill
      /\ Underway(Books, Shelf) /\ Books.phase \notin TerminalPhases
      /\ work[p].prior \notin TerminalPhases
      /\ work[p].attempt = Books.latest /\ work[p].chunk = Books.chunk
  BY <1>1 DEF Knows
<1>3. Books.latest >= 1
  BY <1>2 DEF Underway
<1> QED
  BY <1>1, <1>2, <1>3, AttemptFacts DEF AccountsInv, StoreInv

\* The executor's answer, true of the chain, is the call's resolution.
LEMMA ResolveGoes ==
    ASSUME SingleLoop, AccountsInv, NEW p \in Workers,
           pc[p] \in {"execute", "claimed", "sent", "reconcile"},
           NEW res \in Resolutions, Resolve(p, res), Consistent(res, Books)
    PROVE  Goes(p)
<1> DEFINE v == [work[p] EXCEPT !.res = res]
           b == Books
           k == Shelf
<1>1. /\ p \in Procs /\ CallsOK /\ work[p] \in Locals
      /\ InStep(snap[p], k) /\ snap[p].status = "Executing" /\ work[p].fill = NoFill
      /\ Underway(b, k) /\ b.phase \notin TerminalPhases
      /\ work[p].prior \notin TerminalPhases
      /\ work[p].attempt = b.latest /\ work[p].chunk = b.chunk
  BY ExecutingFacts
<1>2. /\ v.res = res /\ v.fill = work[p].fill /\ v.prior = work[p].prior
      /\ v.attempt = work[p].attempt /\ v.chunk = work[p].chunk
  BY <1>1 DEF Locals
<1>3. Goto(p, "resolve", v) /\ UNCHANGED snap
  BY DEF Resolve
<1> HIDE DEF v
<1>4. Knows("resolve", snap[p], v, b, k)
  BY <1>1, <1>2 DEF Knows
<1> QED
  BY <1>1, <1>3, <1>4, GotoGoes

\* The attempt ledger decides about the latest attempt.
LEMMA DecidedFates ==
    ASSUME FatesOrdered, NEW n \in Attempts, NEW v \in Verdicts, v = "unsent" => sends[n] = 0,
           verdict' = [verdict EXCEPT ![n] = v], UNCHANGED <<journal, sends, fate>>
    PROVE  FatesOrdered'
<1>1. verdict' \in [Attempts -> Verdicts] /\ \A m \in Attempts : verdict'[m] = IF m = n THEN v ELSE verdict[m]
  BY DEF FatesOrdered
<1>2. LatestAttempt' = LatestAttempt
  BY DEF LatestAttempt
<1> QED
  BY <1>1, <1>2 DEF FatesOrdered

LEMMA ReportAccounts ==
    ASSUME SingleLoop, AccountsInv, NEW p \in Workers, pc[p] \in {"sent", "reconcile"},
           Report(p, work[p].attempt), UNCHANGED <<journal, fate>>
    PROVE  Goes(p) /\ FatesOrdered'
<1> DEFINE n == work[p].attempt
<1>1. n \in Attempts /\ Books.fate = fate[n] /\ FatesOrdered
  BY ExecutingFacts DEF AccountsInv, Ledgered
<1>2. CASE Resolve(p, "Unknown") /\ UNCHANGED <<verdict, sends>>
  <2>1. Consistent("Unknown", Books) /\ "Unknown" \in Resolutions
    BY DEF Consistent, Resolutions
  <2> QED
    BY <1>1, <1>2, <2>1, ResolveGoes, SameFates
<1>3. CASE ReportSeen(p, n)
  <2>1. PICK res \in Seen(n) :
            /\ Resolve(p, res)
            /\ \/ verdict[n] = "open" /\ Relay!Decide(n, Verdict(res))
               \/ verdict[n] = Verdict(res) /\ UNCHANGED <<verdict, sends>>
    BY <1>3 DEF ReportSeen
  <2>2. res \in Resolutions /\ Consistent(res, Books)
    BY <1>1 DEF Seen, Resolutions, Consistent
  <2>3. Goes(p)
    BY <2>1, <2>2, ResolveGoes
  <2>4. Verdict(res) \in Verdicts /\ Verdict(res) # "unsent"
    BY DEF Verdict, Verdicts
  <2>5. CASE Relay!Decide(n, Verdict(res))
    <3>1. verdict' = [verdict EXCEPT ![n] = Verdict(res)] /\ UNCHANGED sends
      BY <2>5 DEF Relay!Decide
    <3> QED
      BY <1>1, <2>3, <2>4, <3>1, DecidedFates
  <2> QED
    BY <1>1, <2>1, <2>3, <2>5, SameFates
<1> QED
  BY <1>2, <1>3 DEF Report

\* execute: the key is claimed, or refused before that.
LEMMA ClaimAccounts ==
    ASSUME SingleLoop, AccountsInv, StoreInv', NEW t \in Tickers, ClaimAttempt(t)
    PROVE  AccountsInv'
<1> DEFINE n == work[t].attempt
<1>1. t \in Workers /\ pc[t] = "execute" /\ UNCHANGED <<stream, object, journal, fate>>
  BY WorkersAreProcs DEF ClaimAttempt, durableVars
<1>2. /\ t \in Procs /\ Alone(t) /\ CallsOK /\ n \in Attempts /\ FatesOrdered
  BY <1>1, ExecutingFacts DEF AccountsInv, Ledgered
<1>3. Knows("execute", snap[t], work[t], Books, Shelf)
  BY <1>1, WorkerFacts
<1>4. CASE Relay!Claim(n) /\ Goto(t, "claimed", work[t]) /\ UNCHANGED snap
  <2>1. Knows("claimed", snap[t], work[t], Books, Shelf)
    BY <1>3 DEF Knows
  <2>2. Goes(t)
    BY <1>2, <1>4, <2>1, GotoGoes
  <2>3. verdict' = [verdict EXCEPT ![n] = "open"] /\ UNCHANGED sends
    BY <1>4 DEF Relay!Claim
  <2>4. FatesOrdered'
    BY <1>1, <1>2, <2>3, DecidedFates DEF Verdicts
  <2> QED
    BY <1>1, <1>2, <2>2, <2>4, LocalAccounts
<1>5. CASE Resolve(t, "FailedBeforeSubmit") /\ UNCHANGED <<verdict, sends>>
  <2>1. Consistent("FailedBeforeSubmit", Books) /\ "FailedBeforeSubmit" \in Resolutions
    BY <1>3 DEF Knows, Consistent, Resolutions
  <2>2. Goes(t)
    BY <1>1, <1>5, <2>1, ResolveGoes
  <2> QED
    BY <1>1, <1>2, <1>5, <2>2, SameFates, LocalAccounts
<1> QED
  BY <1>4, <1>5 DEF ClaimAttempt

\* It gives up before sending, or the adapter refuses the transaction.
LEMMA RefuseAccounts ==
    ASSUME SingleLoop, AccountsInv, StoreInv', NEW t \in Tickers, RefuseAttempt(t)
    PROVE  AccountsInv'
<1> DEFINE n == work[t].attempt
<1>1. t \in Workers /\ pc[t] = "claimed" /\ UNCHANGED <<stream, object, journal, fate>>
  BY WorkersAreProcs DEF RefuseAttempt, durableVars
<1>2. /\ t \in Procs /\ Alone(t) /\ CallsOK /\ n \in Attempts /\ FatesOrdered
  BY <1>1, ExecutingFacts DEF AccountsInv, Ledgered
<1>3. Books.fate = "none"
  BY <1>1, WorkerFacts DEF Knows
<1>4. ASSUME NEW res \in {"FailedBeforeSubmit", "Rejected", "Unknown"}, Resolve(t, res) PROVE Goes(t)
  <2>1. Consistent(res, Books) /\ res \in Resolutions
    BY <1>3 DEF Consistent, Resolutions
  <2> QED
    BY <1>1, <1>4, <2>1, ResolveGoes
<1>5. ASSUME NEW v \in {"unsent", "rejected"}, Relay!Decide(n, v) PROVE FatesOrdered'
  <2>1. verdict' = [verdict EXCEPT ![n] = v] /\ UNCHANGED sends /\ (v = "unsent" => sends[n] = 0)
    BY <1>5 DEF Relay!Decide
  <2>2. v \in Verdicts
    BY DEF Verdicts
  <2> QED
    BY <1>1, <1>2, <2>1, <2>2, DecidedFates
<1>6. Goes(t)
  BY <1>4 DEF RefuseAttempt
<1>7. FatesOrdered'
  <2>1. CASE UNCHANGED <<verdict, sends>>
    BY <1>1, <1>2, <2>1, SameFates
  <2>2. CASE Relay!Decide(n, "unsent") \/ Relay!Decide(n, "rejected")
    BY <1>5, <2>2
  <2> QED
    BY <2>1, <2>2 DEF RefuseAttempt
<1> QED
  BY <1>1, <1>2, <1>6, <1>7, LocalAccounts

\* execute returns, and reconcile, which never sends.
LEMMA ReturnsAccounts ==
    ASSUME SingleLoop, AccountsInv, StoreInv', NEW t \in Tickers, ExecuteReturns(t)
    PROVE  AccountsInv'
<1>1. t \in Workers /\ pc[t] = "sent" /\ UNCHANGED <<stream, object, journal, fate>>
  BY WorkersAreProcs DEF ExecuteReturns, durableVars
<1>2. Alone(t)
  BY <1>1, ExecutingFacts
<1>3. Goes(t) /\ FatesOrdered'
  BY <1>1, ReportAccounts DEF ExecuteReturns
<1> QED
  BY <1>1, <1>2, <1>3, LocalAccounts

LEMMA ReconcileAccounts ==
    ASSUME SingleLoop, AccountsInv, StoreInv', Reconcile PROVE AccountsInv'
<1> DEFINE r == Recoverer
           n == work[r].attempt
<1>1. r \in Workers /\ pc[r] = "reconcile" /\ UNCHANGED <<stream, object, journal, fate>>
  BY WorkersAreProcs DEF Reconcile, durableVars
<1>2. Alone(r) /\ n \in Attempts /\ Books.fate = fate[n] /\ FatesOrdered
  BY <1>1, ExecutingFacts DEF AccountsInv, Ledgered
<1>3. SUFFICES Goes(r) /\ FatesOrdered'
  BY <1>1, <1>2, LocalAccounts
<1>4. CASE Report(r, n)
  BY <1>1, <1>4, ReportAccounts
<1>5. ASSUME NEW res \in {"Rejected", "FailedBeforeSubmit"}, Resolve(r, res), sends[n] = 0,
             UNCHANGED <<verdict, sends>>
      PROVE  Goes(r) /\ FatesOrdered'
  <2>1. Books.fate = "none"
    BY <1>2, <1>5 DEF FatesOrdered
  <2>2. Consistent(res, Books) /\ res \in Resolutions
    BY <2>1 DEF Consistent, Resolutions
  <2> QED
    BY <1>1, <1>2, <1>5, <2>2, ResolveGoes, SameFates
<1>6. CASE /\ verdict[n] = "unsent" \/ RelayStoreFails
           /\ Resolve(r, "FailedBeforeSubmit") /\ UNCHANGED <<verdict, sends>>
  <2>1. sends[n] = 0
    BY <1>2, <1>6 DEF FatesOrdered, SingleLoop
  <2> QED
    BY <1>5, <1>6, <2>1
<1> QED
  BY <1>4, <1>5, <1>6 DEF Reconcile

\* The fate of the latest attempt changes, with the number of its sends.
LEMMA FateLedger ==
    ASSUME SingleLoop, AccountsInv, Books.latest >= 1, UNCHANGED <<stream, object, journal, verdict>>,
           NEW x \in Fates \ {"none"}, fate' = [fate EXCEPT ![LatestAttempt] = x],
           Underway(Books, Shelf), Books.phase \notin TerminalPhases,
           Books.fate # "confirmed",
           \/ UNCHANGED sends /\ Books.fate # "none"
           \/ sends' = [sends EXCEPT ![LatestAttempt] = 1] /\ verdict[LatestAttempt] # "unsent"
    PROVE  /\ Ledgered' /\ Underway(Books', Shelf') /\ Shelf' = Shelf
           /\ Books'.latest = Books.latest /\ Books'.phase = Books.phase
           /\ Books'.chunk = Books.chunk /\ Books'.fate = x
<1> DEFINE b == Books
           c == BooksOf(journal, fate')
           k == Shelf
           n == LatestAttempt
<1>1. /\ journal # <<>> /\ LatestIn(journal) = n /\ n \in Attempts /\ n = b.latest
      /\ b.fate = fate[n] /\ fate \in [Attempts -> Fates]
      /\ journal \in Seq(AttemptEvents) /\ Ordered(journal) /\ FatesOrdered /\ CancelIsLast
  BY AttemptFacts DEF AccountsInv, Ledgered, StoreInv, StoreTypeOK
<1>2. BookRecord(b) /\ ShelfOK(k) /\ Accounts(b, k)
  BY Facts
<1>3. /\ c.latest = b.latest /\ c.phase = b.phase /\ c.chunk = b.chunk /\ c.total = b.total
      /\ c.fate = x
      /\ x # "confirmed" => c.conf = b.conf
      /\ x = "confirmed" => c.conf = b.chunk + b.conf
  <2>1. b = BooksOf(journal, fate)
    BY DEF Books
  <2>2. fate' = [fate EXCEPT ![LatestIn(journal)] = x] /\ fate[LatestIn(journal)] # "confirmed"
    BY <1>1
  <2> HIDE DEF b, c, n
  <2>3. c = BooksOf(journal, fate')
    BY DEF c
  <2>4. LatestIn(journal) \in Attempts
    BY <1>1
  <2> DEFINE f2 == fate'
  <2>5. f2 = [fate EXCEPT ![LatestIn(journal)] = x] /\ c = BooksOf(journal, f2)
    BY <2>2, <2>3
  <2> HIDE DEF f2
  <2>6. Turns(fate, f2, LatestIn(journal), x)
    BY <1>1, <2>4, <2>5 DEF Turns
  <2> QED
    BY <1>1, <2>1, <2>2, <2>4, <2>5, <2>6, FateBooks
<1>4. Books' = c /\ Shelf' = k /\ LatestAttempt' = n
  BY DEF Books, Shelf, HeadOrder, LatestAttempt
<1> HIDE DEF b, c, k, n
<1>5. Accounts(c, k) /\ Underway(c, k)
  BY <1>2, <1>3, FateAccounts DEF b, k
<1>6. FatesOrdered'
  <2>1. fate' \in [Attempts -> Fates] /\ fate'[n] = x /\ \A m \in Attempts : m # n => fate'[m] = fate[m]
    BY <1>1 DEF n
  <2>2. /\ sends' \in [Attempts -> {0, 1}] /\ sends'[n] = 1
        /\ \A m \in Attempts : m # n => sends'[m] = sends[m]
    BY <1>1 DEF n, FatesOrdered, b
  <2>3. n \in Nat
    BY <1>1, <1>2 DEF BookRecord, b
  <2>4. verdict[n] # "unsent"
    BY <1>1 DEF n, FatesOrdered, b
  <2>5. ASSUME NEW m \in Attempts
        PROVE  /\ sends'[m] = 0 <=> fate'[m] = "none"
               /\ verdict'[m] = "unsent" => sends'[m] = 0
               /\ m > n => fate'[m] = "none"
               /\ m < n => fate'[m] \notin {"pending", "short"}
    <3>1. CASE m = n
      <4>1. sends'[m] # 0 /\ fate'[m] # "none" /\ verdict'[m] # "unsent" /\ ~(m > n) /\ ~(m < n)
        BY <2>1, <2>2, <2>3, <2>4, <3>1
      <4> QED
        BY <4>1
    <3>2. CASE m # n
      BY <1>1, <2>1, <2>2, <3>2 DEF FatesOrdered, n
    <3> QED
      BY <3>1, <3>2
  <2>6. verdict' \in [Attempts -> Verdicts]
    BY <1>1 DEF FatesOrdered
  <2> QED
    BY <1>4, <2>1, <2>2, <2>5, <2>6 DEF FatesOrdered
<1>7. Ordered(journal') /\ CancelIsLast'
  BY <1>1 DEF CancelIsLast
<1>8. Accounts(Books', Shelf') /\ Underway(Books', Shelf')
  BY <1>4, <1>5
<1>9. Ledgered'
  BY <1>6, <1>7, <1>8 DEF Ledgered
<1> QED
  BY <1>3, <1>4, <1>8, <1>9 DEF b, k

\* The transaction of the latest attempt is handed to the chain.
LEMMA SendAccounts ==
    ASSUME SingleLoop, AccountsInv, StoreInv', NEW t \in Tickers, SendAttempt(t)
    PROVE  AccountsInv'
<1> DEFINE n == work[t].attempt
           w == work[t]
           s == snap[t]
<1>1. /\ t \in Workers /\ pc[t] = "claimed" /\ UNCHANGED <<stream, object, journal, snap>>
      /\ verdict[n] = "open" /\ UNCHANGED verdict /\ sends' = [sends EXCEPT ![n] = 1]
      /\ fate' = [fate EXCEPT ![n] = "pending"] /\ Goto(t, "sent", w)
  BY WorkersAreProcs DEF SendAttempt, durableVars, Relay!Send
<1>2. /\ t \in Procs /\ Alone(t) /\ CallsOK /\ n = LatestAttempt /\ n = Books.latest
      /\ InStep(s, Shelf) /\ s.status = "Executing" /\ w.fill = NoFill
      /\ Underway(Books, Shelf) /\ Books.phase \notin TerminalPhases
      /\ w.prior \notin TerminalPhases /\ w.chunk = Books.chunk
  BY <1>1, ExecutingFacts
<1>3. Books.fate = "none" /\ Books.latest >= 1
  BY <1>1, <1>2, WorkerFacts DEF Knows, Underway
<1>4. "pending" \in Fates \ {"none"}
  BY DEF Fates
<1>5. /\ fate' = [fate EXCEPT ![LatestAttempt] = "pending"]
      /\ sends' = [sends EXCEPT ![LatestAttempt] = 1] /\ verdict[LatestAttempt] # "unsent"
  BY <1>1, <1>2
<1>6. /\ Ledgered' /\ Underway(Books', Shelf') /\ Shelf' = Shelf
      /\ Books'.latest = Books.latest /\ Books'.phase = Books.phase
      /\ Books'.chunk = Books.chunk
  BY <1>1, <1>2, <1>3, <1>4, <1>5, FateLedger
<1> HIDE DEF n, w, s
<1>7. Knows("sent", s, w, Books', Shelf')
  <2> DEFINE c == Books'
             k == Shelf'
  <2>1. /\ InStep(s, k) /\ s.status = "Executing" /\ w.fill = NoFill
        /\ Underway(c, k) /\ c.phase \notin TerminalPhases
        /\ w.prior \notin TerminalPhases /\ w.chunk = c.chunk /\ w.attempt = c.latest
    BY <1>2, <1>6 DEF n, w
  <2> HIDE DEF c, k
  <2>2. Knows("sent", s, w, c, k)
    BY <2>1 DEF Knows
  <2> QED
    BY <2>2 DEF c, k
<1>8. Moves(t, "sent", s, w)
  BY <1>1, <1>2 DEF Goto, Moves, CallsOK, s
<1>9. WorkersKnow'
  BY <1>1, <1>2, <1>7, <1>8, WorkerMoves DEF AccountsInv
<1> QED
  BY <1>6, <1>9 DEF AccountsInv

\* No call moves and every worker knows what it knew.
LEMMA CallsKnow ==
    ASSUME WorkersKnow, UNCHANGED callVars,
           \A q \in Workers : Knows(pc[q], snap[q], work[q], Books', Shelf')
    PROVE  WorkersKnow'
BY DEF WorkersKnow, callVars

\* The chain decides about the transaction of an attempt.
LEMMA ChainAccounts ==
    ASSUME SingleLoop, AccountsInv, StoreInv', NEW n \in Attempts, ChainSettles(n)
    PROVE  AccountsInv'
<1>1. /\ fate[n] = "pending" /\ UNCHANGED <<stream, object, journal, verdict, sends, callVars>>
  BY DEF ChainSettles, durableVars
<1>2. PICK x \in {"confirmed", "short", "reverted"} : fate' = [fate EXCEPT ![n] = x]
  BY DEF ChainSettles
<1>3. n = LatestAttempt /\ LatestAttempt \in Nat /\ n >= 1 /\ Books.latest = n
  <2>1. n \in Nat /\ n >= 1
    BY AttemptsRange
  <2>2. ~(n > LatestAttempt) /\ ~(n < LatestAttempt)
    BY <1>1 DEF AccountsInv, Ledgered, FatesOrdered
  <2> QED
    BY <2>1, <2>2, Facts
<1>4. Books.fate = "pending"
  BY <1>1, <1>3, AttemptFacts
<1>5. Underway(Books, Shelf) /\ Books.phase \notin TerminalPhases
  <2>1. ~Settled(Books, Shelf) /\ ~Over(Books, Shelf)
    BY <1>4 DEF Settled, Over
  <2>2. Underway(Books, Shelf)
    BY <2>1, Facts DEF Accounts
  <2> QED
    BY <1>4, <2>2 DEF Underway, TerminalPhases
<1>6. x \in Fates \ {"none"}
  BY DEF Fates
<1>7. /\ Ledgered' /\ Underway(Books', Shelf') /\ Shelf' = Shelf
      /\ Books'.latest = Books.latest /\ Books'.phase = Books.phase
      /\ Books'.chunk = Books.chunk
  BY <1>1, <1>2, <1>3, <1>4, <1>5, <1>6, FateLedger
<1>8. ASSUME NEW q \in Workers PROVE Knows(pc[q], snap[q], work[q], Books', Shelf')
  <2> DEFINE c == Books'
             k == Shelf
  <2>1. Knows(pc[q], snap[q], work[q], Books, k) /\ work[q] \in Locals
    BY WorkerFacts
  <2>2. Underway(c, k) /\ c.latest = Books.latest /\ c.phase = Books.phase /\ c.chunk = Books.chunk
    BY <1>7
  <2> HIDE DEF c, k
  <2>3. Knows(pc[q], snap[q], work[q], c, k)
    BY <1>4, <1>5, <2>1, <2>2, FateKnown DEF k
  <2> QED
    BY <1>7, <2>3 DEF c, k
<1>9. WorkersKnow'
  BY <1>1, <1>8, CallsKnow DEF AccountsInv
<1> QED
  BY <1>7, <1>9 DEF AccountsInv

\* The stream and the chain stay, and the journal grows.
LEMMA JournalLedger ==
    ASSUME AccountsInv, UNCHANGED <<stream, object, verdict, sends, fate>>,
           Ordered(journal'), Accounts(Books', Shelf),
           \A n \in Attempts : /\ n > LatestAttempt' => fate[n] = "none"
                               /\ n < LatestAttempt' => fate[n] \notin {"pending", "short"}
    PROVE  Ledgered' /\ Shelf' = Shelf
<1>1. Shelf' = Shelf
  BY DEF Shelf, HeadOrder
<1>2. CancelIsLast'
  BY DEF AccountsInv, Ledgered, CancelIsLast
<1>3. FatesOrdered'
  BY DEF AccountsInv, Ledgered, FatesOrdered
<1>4. Accounts(Books', Shelf')
  BY <1>1
<1> QED
  BY <1>1, <1>2, <1>3, <1>4 DEF Ledgered

\* Steps 11 and 12: the Bound event.
LEMMA BoundAccounts ==
    ASSUME SingleLoop, AccountsInv, StoreInv', NEW t \in Tickers, BindAttempt(t)
    PROVE  AccountsInv'
<1> DEFINE w == work[t]
           s == snap[t]
           ev == AttemptEvent(w.attempt, "Bound", w.chunk, TRUE, w.at)
           v == [w EXCEPT !.prior = "Bound"]
           b == Books
           k == Shelf
<1>1. t \in Workers /\ t \in Procs /\ w \in Locals /\ Alone(t) /\ CallsOK
      /\ Knows("bind", s, w, b, k)
  BY WorkersAreProcs, WorkerFacts DEF BindAttempt, AccountsInv, StoreInv
<1>2. UNCHANGED <<stream, object, verdict, sends, fate>>
  BY DEF BindAttempt, AppendAttempt, relayVars
<1>3. /\ ev \in AttemptEvents /\ ev.attempt = w.attempt /\ ev.phase = "Bound" /\ ev.input = w.chunk
  <2>1. w.attempt \in Nat /\ w.chunk \in Nat /\ w.at \in 0..MaxNow
    BY <1>1 DEF Locals
  <2> QED
    BY <2>1 DEF AttemptEvent, AttemptEvents, Phases, InFlightPhases
<1>4. \/ Fail(t) /\ UNCHANGED journal
      \/ /\ journal' = Append(journal, ev)
         /\ (Goto(t, "execute", v) /\ UNCHANGED snap) \/ Fail(t)
  <2> HIDE DEF ev, v
  <2>1. AppendAttempt(t, ev, Goto(t, "execute", v) /\ UNCHANGED snap, Fail(t))
    BY DEF BindAttempt, ev, v
  <2> QED
    BY <2>1 DEF AppendAttempt
<1>5. CASE Fail(t) /\ UNCHANGED journal
  BY <1>1, <1>2, <1>5, RestGoes, SameFates, LocalAccounts DEF AccountsInv, Ledgered
<1>6. CASE /\ journal' = Append(journal, ev)
           /\ (Goto(t, "execute", v) /\ UNCHANGED snap) \/ Fail(t)
  <2> DEFINE c == BooksOf(Append(journal, ev), fate)
  <2>1. BookRecord(b) /\ ShelfOK(k) /\ Accounts(b, k) /\ b.latest = LatestAttempt /\ LatestAttempt \in Nat
    BY Facts
  <2>2. /\ Settled(b, k) /\ 5 * b.latest < MaxStream /\ w.attempt = b.latest + 1 /\ w.fill = NoFill
        /\ InStep(s, k) /\ s.status = "Executing"
    BY <1>1 DEF Knows
  <2> HIDE DEF ev, b, c, k, v, w, s
  <2>3. ev.attempt = LatestIn(journal) + 1 /\ ev.attempt \in Attempts /\ fate[ev.attempt] = "none"
    <3>1. LatestIn(journal) = LatestAttempt
      BY DEF LatestIn, LatestAttempt
    <3>2. ev.attempt = LatestAttempt + 1 /\ ev.attempt > LatestAttempt
      BY <1>3, <2>1, <2>2
    <3>3. ev.attempt \in Attempts
      <4>1. ev.attempt \in Nat /\ ev.attempt >= 1 /\ 5 * ev.attempt <= MaxStream + 5
        BY <2>1, <2>2, <3>2, Bounds
      <4> QED
        BY <4>1, AttemptsRange
    <3> QED
      BY <3>1, <3>2, <3>3 DEF AccountsInv, Ledgered, FatesOrdered
  <2>4. /\ journal \in Seq(AttemptEvents) /\ Ordered(journal) /\ fate \in [Attempts -> Fates]
    BY DEF AccountsInv, Ledgered, StoreInv, StoreTypeOK, FatesOrdered
  <2>5. b = BooksOf(journal, fate) /\ Books' = c
    BY <1>2, <1>6 DEF Books, b, c
  <2>6. /\ Ordered(Append(journal, ev))
        /\ c.latest = b.latest + 1 /\ c.phase = "Bound" /\ c.chunk = ev.input
        /\ c.fate = "none" /\ c.conf = b.conf /\ c.total = b.total
    BY <1>3, <2>3, <2>4, <2>5, BindBooks DEF c
  <2>7. Accounts(c, k) /\ Underway(c, k)
    BY <1>1, <1>3, <2>1, <2>6, BindAccounts
  <2>8. ASSUME NEW n \in Attempts
        PROVE  /\ n > LatestAttempt' => fate[n] = "none"
               /\ n < LatestAttempt' => fate[n] \notin {"pending", "short"}
    <3>1. LatestAttempt' = LatestAttempt + 1
      <4>1. LatestIn(journal') = ev.attempt
        BY <1>3, <1>6, <2>4, AppendedEnd
      <4>2. LatestAttempt' = LatestIn(journal') /\ LatestAttempt = LatestIn(journal)
        BY DEF LatestIn, LatestAttempt
      <4> QED
        BY <2>3, <4>1, <4>2
    <3>2. /\ n > LatestAttempt => fate[n] = "none"
          /\ n < LatestAttempt => fate[n] \notin {"pending", "short"}
      BY DEF AccountsInv, Ledgered, FatesOrdered
    <3>3. n = LatestAttempt => fate[n] \notin {"pending", "short"}
      <4>1. ASSUME n = LatestAttempt PROVE b.fate = fate[n]
        <5>1. b.latest >= 1
          BY <2>1, <4>1, AttemptsRange
        <5> QED
          BY <4>1, <5>1, AttemptFacts DEF b
      <4> QED
        BY <2>2, <4>1 DEF Settled
    <3>4. n \in Nat
      BY AttemptsRange
    <3> QED
      BY <2>1, <3>1, <3>2, <3>3, <3>4
  <2>9. Ledgered' /\ Shelf' = k
    <3>1. Ordered(journal') /\ Accounts(Books', Shelf)
      BY <1>6, <2>5, <2>6, <2>7 DEF k
    <3> QED
      BY <1>2, <2>8, <3>1, JournalLedger DEF k
  <2>10. CASE Fail(t)
    <3>1. PICK l \in {"idle", "publish"} : Moves(t, l, NewObject, IdleWork)
      BY <1>1, <2>10, Rests
    <3>2. WorkersKnow'
      BY <1>1, <3>1, RestKnows, WorkerMoves DEF AccountsInv
    <3> QED
      BY <2>9, <3>2 DEF AccountsInv
  <2>11. CASE Goto(t, "execute", v) /\ UNCHANGED snap
    <3>1. /\ v.prior = "Bound" /\ v.fill = w.fill /\ v.attempt = w.attempt /\ v.chunk = w.chunk
      BY <1>1 DEF Locals, v
    <3>2. "Bound" \notin TerminalPhases
      BY DEF TerminalPhases
    <3>3. Knows("execute", s, v, c, k)
      BY <1>3, <2>2, <2>6, <2>7, <3>1, <3>2 DEF Knows
    <3>4. Moves(t, "execute", s, v)
      BY <1>1, <2>11 DEF Goto, Moves, CallsOK, s
    <3>5. Knows("execute", s, v, Books', Shelf')
      BY <2>5, <2>9, <3>3
    <3>6. WorkersKnow'
      BY <1>1, <3>4, <3>5, WorkerMoves DEF AccountsInv
    <3> QED
      BY <2>9, <3>6 DEF AccountsInv
  <2> QED
    BY <1>6, <2>10, <2>11
<1> QED
  BY <1>4, <1>5, <1>6

\* A worker goes on once the journal has grown.
LEMMA GrownAccounts ==
    ASSUME AccountsInv, StoreInv', NEW p \in Workers, Alone(p), Ledgered',
           \E l, s, v : Moves(p, l, s, v) /\ Knows(l, s, v, Books', Shelf')
    PROVE  AccountsInv'
<1>1. WorkersKnow'
  BY WorkerMoves DEF AccountsInv, StoreInv
<1> QED
  BY <1>1 DEF AccountsInv

\* apply_resolution.
LEMMA ResolutionAccounts ==
    ASSUME SingleLoop, AccountsInv, StoreInv', NEW p \in Procs, ApplyResolution(p)
    PROVE  AccountsInv'
<1> DEFINE w == work[p]
           s == snap[p]
           b == Books
           k == Shelf
           ev == AttemptEvent(w.attempt, Phase(w.res),
                              IF Phase(w.res) = "Confirmed" THEN w.chunk ELSE 0,
                              w.res # "NonCompliantFill", w.at)
<1>1. pc[p] = "resolve" /\ w.res \in Resolutions /\ w \in Locals
  BY DEF ApplyResolution, AccountsInv, StoreInv, CallsOK, Suspended
<1>2. p \in Workers
  BY <1>1, WorkersAreProcs DEF AccountsInv, WorkersKnow, Cancelling
<1>3. /\ Alone(p) /\ CallsOK /\ s \in Orders
      /\ InStep(s, k) /\ s.status = "Executing" /\ w.fill = NoFill
      /\ b.phase \notin TerminalPhases /\ w.prior \notin TerminalPhases
      /\ w.attempt = b.latest /\ w.chunk = b.chunk /\ w.attempt = LatestAttempt
      /\ LatestAttempt \in Attempts /\ journal # <<>>
  BY <1>1, <1>2, ExecutingFacts
<1>4. Knows("resolve", s, w, b, k)
  BY <1>1, <1>2, WorkerFacts
<1>5. UNCHANGED <<stream, object, verdict, sends, fate>>
  BY DEF ApplyResolution, AppendAttempt, relayVars, durableVars
<1>6. /\ journal \in Seq(AttemptEvents) /\ Ordered(journal) /\ FatesOrdered
      /\ LatestIn(journal) = LatestAttempt
  BY DEF AccountsInv, Ledgered, StoreInv, StoreTypeOK, LatestIn, LatestAttempt
<1>7. /\ ev \in AttemptEvents /\ ev.attempt = w.attempt /\ ev.phase = Phase(w.res)
      /\ ev.input = (IF Phase(w.res) = "Confirmed" THEN w.chunk ELSE 0)
      /\ ev.compliant = (w.res # "NonCompliantFill")
      /\ ev.phase # "Bound"
      /\ ev.phase \in TerminalPhases \/ w.res = "Unknown"
  <2>1. w.attempt \in Nat /\ w.chunk \in Nat /\ w.at \in 0..MaxNow
    BY <1>1 DEF Locals
  <2>2. /\ Phase(w.res) \in Phases /\ Phase(w.res) # "Bound"
        /\ Phase(w.res) \in TerminalPhases \/ w.res = "Unknown"
    BY <1>1 DEF Phase, Resolutions, Phases, InFlightPhases, TerminalPhases
  <2> QED
    BY <2>1, <2>2 DEF AttemptEvent, AttemptEvents
<1>8. CASE Fail(p) /\ UNCHANGED journal
  BY <1>2, <1>3, <1>5, <1>6, <1>8, RestGoes, SameFates, LocalAccounts
<1>9. CASE w.res = "Unknown" /\ Settle(p, w) /\ UNCHANGED journal
  <2>1. Publish(p)
    BY <1>9 DEF Settle
  <2> QED
    BY <1>2, <1>3, <1>5, <1>6, <1>9, <2>1, RestGoes, SameFates, LocalAccounts
<1>10. CASE journal' = Append(journal, ev) /\ (Settle(p, w) \/ Fail(p))
  <2> DEFINE c == BooksOf(Append(journal, ev), fate)
  <2>1. b = BooksOf(journal, fate) /\ Books' = c
    BY <1>5, <1>10 DEF Books
  <2>2. BookRecord(b) /\ ShelfOK(k) /\ Accounts(b, k)
    BY Facts
  <2> HIDE DEF ev, b, c, k, w, s
  <2>3. /\ Ordered(Append(journal, ev))
        /\ c.latest = b.latest /\ c.phase = ev.phase /\ c.chunk = b.chunk
        /\ c.compliant = ev.compliant /\ c.realised = ev.input
        /\ c.fate = b.fate /\ c.conf = b.conf
        /\ ev.phase # "Confirmed" => c.total = b.total
        /\ ev.phase = "Confirmed" => c.total = ev.input + b.total
    <3>1. /\ journal \in Seq(AttemptEvents) /\ Ordered(journal) /\ ev \in AttemptEvents
          /\ ev.phase # "Bound" /\ ev.attempt = LatestIn(journal) /\ journal # <<>>
          /\ b = BooksOf(journal, fate) /\ b.phase \notin TerminalPhases
          /\ c = BooksOf(Append(journal, ev), fate)
      BY <1>3, <1>6, <1>7, <2>1 DEF c
    <3> QED
      BY <3>1, PhaseBooks
  <2>4. Accounts(c, k) /\ Underway(c, k)
    BY <1>1, <1>4, <1>7, <2>2, <2>3, PhaseAccounts
  <2>5. LatestAttempt' = LatestAttempt
    <3>1. LatestIn(journal') = ev.attempt
      BY <1>6, <1>7, <1>10, AppendedEnd
    <3>2. LatestAttempt' = LatestIn(journal')
      BY DEF LatestIn, LatestAttempt
    <3> QED
      BY <1>3, <1>7, <3>1, <3>2
  <2>6. Ledgered' /\ Shelf' = k
    <3>1. Ordered(journal') /\ Accounts(Books', Shelf)
      BY <1>10, <2>1, <2>3, <2>4 DEF k
    <3>2. \A n \in Attempts : /\ n > LatestAttempt' => fate[n] = "none"
                              /\ n < LatestAttempt' => fate[n] \notin {"pending", "short"}
      BY <1>6, <2>5 DEF FatesOrdered
    <3> QED
      BY <1>5, <3>1, <3>2, JournalLedger DEF k
  <2>7. \E l, u, v : Moves(p, l, u, v) /\ Knows(l, u, v, c, k)
    <3>1. CASE Fail(p)
      <4>1. PICK l \in {"idle", "publish"} : Moves(p, l, NewObject, IdleWork)
        BY <3>1, Rests
      <4> QED
        BY <4>1, RestKnows
    <3>2. CASE Settle(p, w)
      <4>1. w.res = "Filled" => c.phase = "Confirmed" /\ c.compliant /\ w.chunk = c.chunk
        BY <1>3, <1>7, <2>3 DEF Phase
      <4>2. w.res = "NonCompliantFill" => c.phase = "Confirmed" /\ ~c.compliant
        BY <1>7, <2>3 DEF Phase
      <4>3. /\ w.res = "Rejected" => c.phase = "Rejected"
            /\ w.res = "FailedBeforeSubmit" => c.phase = "FailedBeforeSubmit"
        BY <1>7, <2>3 DEF Phase
      <4>4. InStep(snap[p], k) /\ snap[p].status = "Executing"
        BY <1>3 DEF s
      <4> QED
        BY <1>1, <1>3, <2>2, <2>4, <3>2, <4>1, <4>2, <4>3, <4>4, SettleMoves
    <3> QED
      BY <1>10, <3>1, <3>2
  <2>8. \E l, u, v : Moves(p, l, u, v) /\ Knows(l, u, v, Books', Shelf')
    BY <2>1, <2>6, <2>7
  <2> QED
    BY <1>2, <1>3, <2>6, <2>8, GrownAccounts
<1>11. CASE w.prior = Phase(w.res)
  <2>1. Phase(w.res) \notin TerminalPhases
    BY <1>3, <1>11
  <2>2. w.res = "Unknown"
    BY <1>7, <2>1
  <2>3. Settle(p, w) /\ UNCHANGED journal
    BY <1>11 DEF ApplyResolution, durableVars
  <2> QED
    BY <1>9, <2>2, <2>3
<1>12. CASE w.prior # Phase(w.res)
  <2>1. AppendAttempt(p, ev, Settle(p, w), Settle(p, w))
    BY <1>12 DEF ApplyResolution
  <2> HIDE DEF ev, w, s, b, k
  <2>2. \/ Fail(p) /\ UNCHANGED journal
        \/ journal' = Append(journal, ev) /\ (Settle(p, w) \/ Fail(p))
        \/ Present(ev) # {} /\ Settle(p, w) /\ UNCHANGED journal
    BY <2>1 DEF AppendAttempt
  <2>3. Present(ev) # {} => w.res = "Unknown"
    <3> SUFFICES ASSUME NEW i \in Present(ev), ev.phase \in TerminalPhases PROVE FALSE
      BY <1>7
    <3>1. i \in 1..Len(journal) /\ journal[i].attempt = LatestAttempt /\ journal[i].phase \in TerminalPhases
      BY <1>3, <1>7 DEF Present
    <3>2. i = Len(journal)
      BY <1>6, <3>1 DEF Ordered
    <3>3. b.phase = journal[Len(journal)].phase
      <4>1. b = BooksOf(journal, fate)
        BY DEF b, Books
      <4> QED
        BY <1>3, <4>1, ReadBooks
    <3> QED
      BY <1>3, <3>1, <3>2, <3>3
  <2> QED
    BY <1>8, <1>9, <1>10, <2>2, <2>3
<1> QED
  BY <1>11, <1>12

\* A record that brings the object up to the stream.
LEMMA RepairedShelf ==
    ASSUME SingleLoop, AccountsInv
    PROVE  /\ Repaired \in Orders /\ Repaired.seq = Len(stream)
           /\ Repaired.status = HeadOrder.status /\ Repaired.remaining = HeadOrder.remaining
           /\ Repaired.filled = HeadOrder.filled
           /\ object.seq = Len(stream) => Repaired = object
<1>1. object.seq \in {Len(stream), Len(stream) - 1} /\ StoreTypeOK /\ ObjectAgrees
  BY ObjectFacts DEF AccountsInv, StoreInv
<1> QED
  BY <1>1, RepairedTypes DEF Repaired

\* A startup pass.
LEMMA ScanAccounts ==
    ASSUME SingleLoop, AccountsInv, StoreInv', RecoverScan PROVE AccountsInv'
<1> DEFINE r == Recoverer
           v == [IdleWork EXCEPT !.at = now]
           k == Shelf'
           b == Books'
<1>1. /\ r \in Workers /\ r \in Procs /\ object' = Repaired
      /\ UNCHANGED <<stream, journal, fate, verdict, sends>>
  BY WorkersAreProcs DEF RecoverScan, relayVars
<1>2. Alone(r) /\ pc[r] = "idle"
  BY DEF RecoverScan, Alone, Workers
<1>3. FatesOrdered'
  BY <1>1, SameFates DEF AccountsInv, Ledgered
<1>4. Ledgered' /\ k.len = Len(stream) /\ k.object = Repaired
  BY <1>1, <1>3, SameLedger, Facts DEF AccountsInv
<1>5. CallsOK
  BY DEF AccountsInv, StoreInv
<1>6. CASE UNCHANGED callVars
  <2>1. \A q \in Workers : pc[q] = "idle"
    BY <1>2 DEF Alone
  <2>2. WorkersKnow'
    BY <1>6, <2>1, RestKnows, CallsKnow DEF AccountsInv
  <2> QED
    BY <1>4, <2>2 DEF AccountsInv
<1>7. CASE Publish(r)
  <2>1. PICK l \in {"idle", "publish"} : Moves(r, l, NewObject, IdleWork)
    BY <1>1, <1>7, Rests
  <2> QED
    BY <1>1, <1>2, <1>4, <2>1, RestKnows, GrownAccounts
<1>8. CASE /\ Repaired.status = "Executing" /\ Goto(r, "attempts", v)
           /\ snap' = [snap EXCEPT ![r] = Repaired]
  <2>1. v.fill = NoFill
    BY DEF IdleWork
  <2>2. Moves(r, "attempts", Repaired, v)
    BY <1>8 DEF Goto, Moves
  <2> HIDE DEF v, k, b
  <2>3. InStep(Repaired, k)
    BY <1>4, RepairedShelf DEF InStep
  <2>4. Knows("attempts", Repaired, v, b, k)
    BY <1>8, <2>1, <2>3 DEF Knows
  <2>5. Knows("attempts", Repaired, v, Books', Shelf')
    BY <2>4 DEF b, k
  <2> QED
    BY <1>1, <1>2, <1>4, <2>2, <2>5, GrownAccounts
<1> QED
  BY <1>6, <1>7, <1>8 DEF RecoverScan

\* recover_executing.
LEMMA RecoverAccounts ==
    ASSUME SingleLoop, AccountsInv, StoreInv', RecoverExecuting PROVE AccountsInv'
<1> DEFINE r == Recoverer
           b == Books
           k == Shelf
           s == snap[r]
           last == journal[Len(journal)]
           w == [work[r] EXCEPT !.attempt = last.attempt, !.chunk = BoundChunk(last.attempt),
                                !.prior = last.phase]
<1>1. /\ r \in Workers /\ pc[r] = "attempts"
      /\ UNCHANGED <<stream, object, journal, fate, verdict, sends>>
  BY WorkersAreProcs DEF RecoverExecuting, durableVars, relayVars
<1>2. /\ r \in Procs /\ Alone(r) /\ CallsOK /\ work[r] \in Locals /\ s \in Orders
      /\ Knows("attempts", s, work[r], b, k)
  BY <1>1, WorkerFacts DEF AccountsInv, StoreInv
<1>3. /\ InStep(s, k) /\ s.status = "Executing" /\ work[r].fill = NoFill
  BY <1>2 DEF Knows
<1>4. BookRecord(b) /\ ShelfOK(k) /\ Accounts(b, k)
  BY Facts
<1>5. k.head.status = "Executing" /\ s.filled = k.head.filled /\ k.head.filled \in Nat
  BY <1>3, <1>4 DEF InStep, ShelfOK
<1>6. Settled(b, k) \/ Underway(b, k)
  BY <1>4, <1>5 DEF Accounts, Closed
<1>7. FatesOrdered'
  BY <1>1, SameFates DEF AccountsInv, Ledgered
<1>8. SUFFICES Goes(r)
  BY <1>1, <1>2, <1>7, LocalAccounts
<1>9. /\ "FailedFinal" \in OrderStatus /\ "FailedRetryable" \in OrderStatus
      /\ "Expired" \in OrderStatus
  BY DEF OrderStatus, Open, Closed
<1>10. ASSUME Settled(b, k), NEW to \in {"FailedFinal", "FailedRetryable", "Expired"},
              Advance(r, work[r], <<to>>, "publish"), UNCHANGED snap
       PROVE  Goes(r)
  BY <1>2, <1>3, <1>9, <1>10, EffectMoves DEF Goes
<1>11. \A n : PreSendTarget(n, work[r].at) \in {"FailedFinal", "FailedRetryable", "Expired"}
  BY DEF PreSendTarget
<1>12. CASE journal = <<>>
  <2>1. Advance(r, work[r], <<PreSendTarget(0, work[r].at)>>, "publish") /\ UNCHANGED snap
    BY <1>12 DEF RecoverExecuting
  <2>2. Settled(b, k)
    <3>1. b.latest = 0
      BY <1>12, EmptyBooks DEF Books
    <3> QED
      BY <1>6, <3>1 DEF Underway
  <2> QED
    BY <1>10, <1>11, <2>1, <2>2
<1>13. CASE journal # <<>>
  <2>1. /\ last \in AttemptEvents /\ last.attempt = LatestAttempt
        /\ BoundChunk(last.attempt) \in Nat
    BY <1>13, JournalFacts DEF AccountsInv, LatestAttempt
  <2>2. /\ last.attempt \in Nat /\ last.phase \in Phases /\ last.compliant \in BOOLEAN
    BY <2>1 DEF AttemptEvents
  <2>3. /\ w \in Locals /\ w.attempt = last.attempt /\ w.chunk = BoundChunk(last.attempt)
        /\ w.prior = last.phase /\ w.fill = NoFill
    <3>1. w \in Locals
      BY <1>2, <2>1, <2>2, LocalsHead
    <3> QED
      BY <1>2, <1>3, <3>1 DEF Locals
  <2>4. /\ b.phase = last.phase /\ b.compliant = last.compliant /\ b.realised = last.input
        /\ b.chunk = BoundChunk(last.attempt) /\ b.latest = last.attempt
        /\ b.total = TotalIn(journal)
    <3>1. /\ b.phase = last.phase /\ b.compliant = last.compliant /\ b.realised = last.input
          /\ b.chunk = BoundIn(journal, LatestIn(journal)) /\ b.latest = LatestIn(journal)
          /\ b.total = TotalIn(journal)
      BY <1>13, ReadBooks DEF Books
    <3>2. LatestIn(journal) = last.attempt
      BY <1>13 DEF LatestIn
    <3>3. BoundIn(journal, last.attempt) = BoundChunk(last.attempt)
      BY DEF BoundIn, BoundChunk
    <3> QED
      BY <3>1, <3>2, <3>3
  <2> HIDE DEF w, last, b, k, s, r
  <2>5. CASE last.phase \in InFlightPhases
    <3>1. Goto(r, "reconcile", w) /\ UNCHANGED snap
      BY <1>13, <2>5 DEF RecoverExecuting, w, InFlightPhases, last, r
    <3>2. last.phase \notin TerminalPhases /\ last.phase # "none"
      BY <2>5 DEF InFlightPhases, TerminalPhases
    <3>3. Underway(b, k)
      BY <1>6, <2>4, <3>2 DEF Settled
    <3>4. Knows("reconcile", s, w, b, k)
      BY <1>3, <2>3, <2>4, <3>2, <3>3 DEF Knows
    <3> QED
      BY <1>2, <3>1, <3>4, GotoGoes DEF s, b, k
  <2>6. ASSUME NEW res \in Resolutions, Settle(r, [w EXCEPT !.res = res]),
               res = "Filled" => Underway(b, k) /\ b.phase = "Confirmed" /\ b.compliant,
               res = "NonCompliantFill" => Underway(b, k) /\ b.phase = "Confirmed" /\ ~b.compliant,
               res = "Rejected" => Settled(b, k) \/ (Underway(b, k) /\ b.phase = "Rejected"),
               res = "FailedBeforeSubmit" =>
                   Settled(b, k) \/ (Underway(b, k) /\ b.phase = "FailedBeforeSubmit")
        PROVE  Goes(r)
    <3> DEFINE v == [w EXCEPT !.res = res]
    <3>1. v \in Locals /\ v.res = res /\ v.fill = NoFill /\ v.chunk = b.chunk
      <4>1. v \in Locals /\ v.res = res
        BY <2>3, LocalsRes
      <4> QED
        BY <2>3, <2>4, <4>1 DEF Locals
    <3>2. Settle(r, v)
      BY <2>6
    <3> HIDE DEF v
    <3>3. InStep(snap[r], k) /\ snap[r].status = "Executing"
      BY <1>3 DEF s
    <3>4. \E l, u, x : Moves(r, l, u, x) /\ Knows(l, u, x, b, k)
      BY <1>2, <1>4, <2>6, <3>1, <3>2, <3>3, SettleMoves
    <3> QED
      BY <3>4 DEF Goes, b, k
  <2>7. CASE last.phase = "Confirmed"
    <3>1. IF Outstanding(last, s.filled)
          THEN Settle(r, [w EXCEPT !.res = IF last.compliant THEN "Filled" ELSE "NonCompliantFill"])
          ELSE IF s.filled >= ConfirmedTotal
          THEN Advance(r, work[r], <<PreSendTarget(last.attempt, work[r].at)>>, "publish") /\ UNCHANGED snap
          ELSE Advance(r, work[r], <<"FailedFinal">>, "publish") /\ UNCHANGED snap
      BY <1>13, <2>7 DEF RecoverExecuting, w, InFlightPhases, last, r, s
    <3>2. ConfirmedTotal = b.total /\ b.total \in Nat
      BY <1>4, <2>4, ModelSums DEF BookRecord, AccountsInv
    <3>3. CASE Settled(b, k)
      <4>1. ~Outstanding(last, s.filled)
        BY <1>5, <3>2, <3>3 DEF Outstanding, Settled
      <4> QED
        BY <1>10, <1>11, <3>1, <3>3, <4>1
    <3>4. CASE Underway(b, k)
      <4>1. b.total = k.head.filled + b.chunk /\ b.realised = b.chunk
        BY <2>4, <2>7, <3>4 DEF Underway
      <4>2. b.chunk \in Nat /\ b.chunk >= 1
        BY <1>4, <3>4, SafeChunkFacts DEF Underway, ShelfOK
      <4>3. Outstanding(last, s.filled)
        BY <1>5, <2>4, <3>2, <4>1, <4>2 DEF Outstanding
      <4>4. CASE last.compliant
        <5>1. Settle(r, [w EXCEPT !.res = "Filled"]) /\ "Filled" \in Resolutions
          BY <3>1, <4>3, <4>4 DEF Resolutions
        <5> QED
          BY <2>4, <2>6, <2>7, <3>4, <4>4, <5>1
      <4>5. CASE ~last.compliant
        <5>1. Settle(r, [w EXCEPT !.res = "NonCompliantFill"]) /\ "NonCompliantFill" \in Resolutions
          BY <3>1, <4>3, <4>5 DEF Resolutions
        <5> QED
          BY <2>4, <2>6, <2>7, <3>4, <4>5, <5>1
      <4> QED
        BY <4>4, <4>5
    <3> QED
      BY <1>6, <3>3, <3>4
  <2>8. CASE last.phase \in {"FailedBeforeSubmit", "Rejected"}
    <3>1. Settle(r, [w EXCEPT !.res = last.phase])
      BY <1>13, <2>8 DEF RecoverExecuting, w, InFlightPhases, last, r
    <3>2. last.phase \in Resolutions
      BY <2>8 DEF Resolutions
    <3> QED
      BY <1>6, <2>4, <2>6, <2>8, <3>1, <3>2
  <2> QED
    BY <2>2, <2>5, <2>7, <2>8 DEF Phases, TerminalPhases
<1> QED
  BY <1>12, <1>13

\* A call ends while the order, the journal and the chain stay.
LEMMA RestAccounts ==
    ASSUME SingleLoop, AccountsInv, StoreInv', NEW p \in Procs, pc[p] # "idle",
           Finish(p) \/ Fail(p),
           UNCHANGED <<stream, object, journal, verdict, sends, fate>>
    PROVE  AccountsInv'
<1>1. FatesOrdered' /\ CallsOK /\ WorkersKnow
  BY SameFates DEF AccountsInv, Ledgered, StoreInv
<1>2. CASE p \in Workers
  BY <1>1, <1>2, WorkerFacts, RestGoes, LocalAccounts
<1>3. CASE p \in Cancellers
  <2>1. Finish(p)
    BY <1>3, OrchestratorAssumption DEF Fail
  <2>2. Moves(p, "idle", NewObject, IdleWork)
    BY <2>1 DEF Finish, Moves
  <2>3. Books' = Books /\ Shelf' = Shelf /\ Ledgered'
    BY <1>1, SameLedger DEF AccountsInv
  <2>4. Cancelling("idle", IdleWork)
    BY DEF Cancelling
  <2>5. \A q \in Workers : Knows(pc[q], snap[q], work[q], Books', Shelf')
    BY <1>1, <2>3 DEF WorkersKnow
  <2>6. WorkersKnow'
    BY <1>1, <1>3, <2>2, <2>4, <2>5, CancellerMoves
  <2> QED
    BY <2>3, <2>6 DEF AccountsInv
<1> QED
  BY <1>2, <1>3, WorkersAreProcs

\* A cancel_order call is at rest or about to append.
LEMMA NotCancelling ==
    ASSUME AccountsInv, NEW p \in Procs, pc[p] \notin {"idle", "append"} PROVE p \in Workers
BY WorkersAreProcs DEF AccountsInv, WorkersKnow, Cancelling

\* publish_pending.
LEMMA PublishAccounts ==
    ASSUME SingleLoop, AccountsInv, StoreInv', NEW p \in Procs, NEW highest, PublishPending(p, highest)
    PROVE  AccountsInv'
<1>1. /\ pc[p] = "publish" /\ UNCHANGED <<stream, object, journal, verdict, sends, fate>>
  BY DEF PublishPending, durableVars, relayVars
<1>2. p \in Workers
  BY <1>1, NotCancelling
<1>3. CASE Finish(p)
  BY <1>1, <1>2, <1>3, WorkersAreProcs, RestAccounts
<1>4. CASE ~Finish(p)
  <2> DEFINE v == [IdleWork EXCEPT !.mark = highest]
  <2>1. Moves(p, "mark", object, v)
    BY <1>4 DEF PublishPending, Goto, Moves
  <2> HIDE DEF v
  <2>2. Knows("mark", object, v, Books, Shelf)
    BY RestKnows
  <2>3. Goes(p)
    BY <2>1, <2>2 DEF Goes
  <2>4. FatesOrdered' /\ Alone(p)
    BY <1>1, <1>2, SameFates, WorkerFacts DEF AccountsInv, Ledgered
  <2> QED
    BY <1>1, <1>2, <2>3, <2>4, LocalAccounts
<1> QED
  BY <1>3, <1>4

\* mark_published.
LEMMA MarkAccounts ==
    ASSUME SingleLoop, AccountsInv, StoreInv', NEW p \in Procs, MarkPublished(p) PROVE AccountsInv'
<1>1. /\ pc[p] = "mark" /\ Finish(p) /\ UNCHANGED <<stream, journal, verdict, sends, fate>>
  BY DEF MarkPublished, relayVars
<1>2. p \in Workers /\ p \in Procs /\ Alone(p)
  BY <1>1, NotCancelling, WorkerFacts
<1>3. Ledgered'
  BY <1>1, SameFates, SameLedger DEF AccountsInv, Ledgered
<1>4. PICK l \in {"idle", "publish"} : Moves(p, l, NewObject, IdleWork)
  BY <1>1, Rests
<1> QED
  BY <1>2, <1>3, <1>4, RestKnows, GrownAccounts

\* cancel_order reads the object.
LEMMA CancelAccounts ==
    ASSUME SingleLoop, AccountsInv, StoreInv', NEW c \in Cancellers, Cancel(c) PROVE AccountsInv'
<1> DEFINE v == [[IdleWork EXCEPT !.at = now] EXCEPT !.todo = <<"Cancelled">>, !.next = "idle"]
<1>1. UNCHANGED <<stream, object, journal, verdict, sends, fate>>
  BY DEF Cancel, durableVars, relayVars
<1>2. Moves(c, "append", object, v)
  BY DEF Cancel, Advance, Goto, Moves
<1>3. Cancelling("append", v)
  BY DEF Cancelling, IdleWork
<1> HIDE DEF v
<1>4. Books' = Books /\ Shelf' = Shelf /\ Ledgered'
  BY <1>1, SameFates, SameLedger DEF AccountsInv, Ledgered
<1>5. \A q \in Workers : Knows(pc[q], snap[q], work[q], Books', Shelf')
  BY <1>4 DEF AccountsInv, WorkersKnow
<1>6. WorkersKnow'
  BY <1>2, <1>3, <1>5, CancellerMoves DEF AccountsInv, StoreInv
<1> QED
  BY <1>4, <1>6 DEF AccountsInv

\* The kill switch, the clock and stuttering.
LEMMA QuietAccounts ==
    ASSUME SingleLoop, AccountsInv, StoreInv',
           UNCHANGED <<stream, object, journal, pc, snap, work, verdict, sends, fate>>
    PROVE  AccountsInv'
<1>1. Books' = Books /\ Shelf' = Shelf /\ Ledgered'
  BY SameFates, SameLedger DEF AccountsInv, Ledgered
<1>2. \A q \in Workers : Knows(pc[q], snap[q], work[q], Books', Shelf')
  BY <1>1 DEF AccountsInv, WorkersKnow
<1>3. WorkersKnow'
  BY <1>2, CallsKnow DEF AccountsInv, callVars
<1> QED
  BY <1>1, <1>3 DEF AccountsInv

\* A restart forgets the calls.
LEMMA CrashAccounts ==
    ASSUME SingleLoop, AccountsInv, StoreInv', Crash PROVE AccountsInv'
<1>1. UNCHANGED <<stream, object, journal, verdict, sends, fate>>
  BY DEF Crash, durableVars, relayVars
<1>2. Ledgered'
  BY <1>1, SameFates, SameLedger DEF AccountsInv, Ledgered
<1>3. \A q \in Procs : pc'[q] = "idle"
  BY DEF Crash
<1>4. \A q \in Workers : Knows(pc'[q], snap'[q], work'[q], Books', Shelf')
  BY <1>3, WorkersAreProcs, RestKnows
<1>5. \A q \in Cancellers : Cancelling(pc'[q], work'[q])
  BY <1>3, WorkersAreProcs DEF Cancelling
<1>6. WorkersKnow'
  BY <1>3, <1>4, <1>5, WorkersAreProcs DEF WorkersKnow
<1> QED
  BY <1>2, <1>6 DEF AccountsInv

LEMMA DropAccounts ==
    ASSUME SingleLoop, AccountsInv, StoreInv', NEW p \in Procs, Drop(p) PROVE AccountsInv'
BY RestAccounts DEF Drop, durableVars, relayVars
-----------------------------------------------------------------------------
(* append_transition *)

\* Once its transition is durable a call goes on with the record, or rests.
LEMMA PersistedGoes ==
    ASSUME NEW p \in Procs, NEW record, Persisted(p, record), NEW b, NEW k,
           Knows(IF Tail(work[p].todo) # <<>> THEN "append" ELSE work[p].next, record,
                 [work[p] EXCEPT !.todo = Tail(work[p].todo), !.fill = NoFill], b, k)
              \/ (Tail(work[p].todo) = <<>> /\ work[p].next = "publish")
    PROVE  \E l, s, v : Moves(p, l, s, v) /\ Knows(l, s, v, b, k)
<1> DEFINE rest == Tail(work[p].todo)
           v == [work[p] EXCEPT !.todo = rest, !.fill = NoFill]
           l == IF rest # <<>> THEN "append" ELSE work[p].next
<1>1. CASE rest = <<>> /\ work[p].next \in {"publish", "idle"}
  <2>1. Publish(p) \/ Finish(p)
    BY <1>1 DEF Persisted
  <2>2. PICK m \in {"idle", "publish"} : Moves(p, m, NewObject, IdleWork)
    BY <2>1, Rests
  <2> QED
    BY <2>2, RestKnows
<1>2. CASE ~(rest = <<>> /\ work[p].next \in {"publish", "idle"})
  <2>1. Goto(p, l, v) /\ snap' = [snap EXCEPT ![p] = record]
    BY <1>2 DEF Persisted
  <2>2. Moves(p, l, record, v)
    BY <2>1 DEF Goto, Moves
  <2>3. Knows(l, record, v, b, k)
    BY <1>2
  <2> QED
    BY <2>2, <2>3
<1> QED
  BY <1>1, <1>2

\* A canceller that persisted its transition rests.
LEMMA CancelPersisted ==
    ASSUME NEW c \in Cancellers, Cancelling("append", work[c]), NEW record, Persisted(c, record)
    PROVE  Moves(c, "idle", NewObject, IdleWork)
<1>1. work[c].todo = <<"Cancelled">> /\ work[c].next = "idle"
  BY DEF Cancelling
<1>2. Tail(<<"Cancelled">>) = <<>>
  OBVIOUS
<1>3. Tail(work[c].todo) = <<>>
  BY <1>1, <1>2
<1> QED
  BY <1>1, <1>3 DEF Persisted, Finish, Moves

\* The first transition of a call that is preparing an attempt.
LEMMA FirstPrepared ==
    ASSUME NEW s, NEW w \in Locals, w.todo # <<>>, NEW b, NEW k, Preparing(s, w, b, k)
    PROVE  /\ Head(w.todo) \in {"Active", "TriggerCandidate", "Expired", "Quoting", "Simulating",
                                "Executing"}
           /\ Head(w.todo) = "Executing" =>
                 s.status = "Simulating" /\ (InStep(s, k) \/ Interrupted(s, k))
<1>1. w.todo \in Seq(OrderStatus)
  BY DEF Locals
<1>2. CASE Chain(s, w, b, k)
  BY <1>2 DEF Chain
<1>3. CASE Plain(w.todo)
  BY <1>1, <1>3 DEF Plain
<1> QED
  BY <1>2, <1>3 DEF Preparing

\* A stale call finds its own transition in the stream.
LEMMA ReplayAccounts ==
    ASSUME SingleLoop, AccountsInv, StoreInv', NEW p \in Procs, ReplayTransition(p)
    PROVE  AccountsInv'
<1> DEFINE s == snap[p]
           w == work[p]
           b == Books
           k == Shelf
           k2 == Shelf'
<1>1. /\ pc[p] = "append" /\ UNCHANGED <<stream, journal, verdict, sends, fate>> /\ StoreInv /\ CallsOK
      /\ WorkersKnow
  BY DEF ReplayTransition, relayVars, AccountsInv, StoreInv
<1>2. CASE Fail(p) /\ UNCHANGED object
  BY <1>1, <1>2, RestAccounts
<1>3. CASE ~(Fail(p) /\ UNCHANGED object)
  <2>1. /\ Acceptable(p) /\ s.seq < Len(stream) /\ stream[s.seq + 1] = Pending(p)
        /\ object' = Repaired /\ Persisted(p, Repaired)
    BY <1>3 DEF ReplayTransition
  <2>2. /\ To(p) \in OrderStatus /\ w \in Locals /\ s \in Orders /\ w.todo # <<>>
        /\ Pending(p).to = To(p) /\ To(p) = Head(w.todo)
    BY <1>1, AppendFacts DEF Pending, Event, To, StoreInv, CallsOK, Suspended
  <2>3. /\ Ledgered' /\ Books' = b /\ k2.len = k.len /\ k2.head = k.head
        /\ k2.cancelled = k.cancelled /\ k2.object = Repaired
    BY <1>1, <2>1, SameFates, SameLedger DEF AccountsInv, Ledgered
  <2>4. /\ Repaired \in Orders /\ Repaired.seq = Len(stream)
        /\ Repaired.status = HeadOrder.status /\ Repaired.remaining = HeadOrder.remaining
        /\ Repaired.filled = HeadOrder.filled
        /\ object.seq = Len(stream) => Repaired = object
    BY RepairedShelf
  <2>5. /\ k.len = Len(stream) /\ k.object = object /\ k.head = HeadOrder /\ k.len \in Nat
        /\ s.seq \in Nat /\ k.cancelled = (stream # <<>> /\ stream[Len(stream)].to = "Cancelled")
    BY <2>2, Facts, ObjectFacts DEF AccountsInv, Orders, Shelf
  <2>6. s.seq + 1 \in 1..Len(stream) /\ stream # <<>>
    BY <2>1, <2>5
  <2>7. k2 = k \/ object.seq # Len(stream)
    BY <1>1, <2>1, <2>4, SameLedger DEF AccountsInv
  <2>8. Acceptable(p) <=> Accepts(terms, s, To(p), w.fill, w.at)
    BY DEF Acceptable
  <2>9. CASE p \in Workers
    <3>1. Knows("append", s, w, b, k) /\ Alone(p)
      BY <1>1, <2>9, WorkerFacts
    <3> HIDE DEF s, w, b, k, k2
    <3>2. ~InStep(s, k)
      BY <2>1, <2>5 DEF InStep
    <3>3. s.status # "Executing" /\ Preparing(s, w, b, k)
      BY <3>1, <3>2 DEF Knows, Settling
    <3>4. w.fill = NoFill /\ s.seq + 1 = k.len
      BY <3>2, <3>3 DEF Preparing, Interrupted, Lagging
    <3>5. /\ To(p) # "Cancelled" /\ To(p) \in OrderStatus
          /\ To(p) = "Executing" => InStep(s, k) \/ Interrupted(s, k)
      BY <2>2, <3>3, FirstPrepared
    <3>6. stream[Len(stream)].to = To(p) /\ ~k.cancelled
      BY <2>1, <2>2, <2>5, <3>4, <3>5
    <3>7. To(p) # "Executing"
      BY <3>2, <3>5, <3>6 DEF Interrupted
    <3>8. Repaired.status = To(p) /\ Repaired.remaining = s.remaining
      <4>1. /\ EffectiveStatus(terms, s, To(p), w.fill, w.at) = To(p)
            /\ RemainingAfter(s, w.fill) = s.remaining
        BY <2>1, <2>8, <3>4, AcceptedPlain
      <4>2. Pending(p).status = To(p) /\ Pending(p).remaining = s.remaining
        BY <4>1 DEF Pending, Event, s, w
      <4>3. stream[Len(stream)] = Pending(p)
        BY <2>1, <2>5, <3>4
      <4> QED
        BY <1>1, <2>4, <2>6, <4>2, <4>3, HeadFacts DEF StoreInv
    <3>9. InStep(Repaired, k2)
      BY <2>3, <2>4, <2>5 DEF InStep
    <3> DEFINE v == [w EXCEPT !.todo = Tail(w.todo), !.fill = NoFill]
               l == IF Tail(w.todo) # <<>> THEN "append" ELSE w.next
    <3>10. Knows(l, Repaired, v, b, k2)
      <4>1. v = [w EXCEPT !.todo = Tail(w.todo), !.fill = NoFill]
            /\ l = IF Tail(w.todo) # <<>> THEN "append" ELSE w.next
        OBVIOUS
      <4> HIDE DEF v, l
      <4> QED
        BY <2>2, <2>4, <3>3, <3>7, <3>8, <3>9, <4>1, PreparedGoesOn
    <3>11. \E m, t, u : Moves(p, m, t, u) /\ Knows(m, t, u, b, k2)
      BY <2>1, <3>10, PersistedGoes DEF w
    <3>12. \E m, t, u : Moves(p, m, t, u) /\ Knows(m, t, u, Books', Shelf')
      BY <2>3, <3>11 DEF k2
    <3> QED
      BY <2>3, <2>9, <3>1, <3>12, GrownAccounts
  <2>10. CASE p \in Cancellers
    <3>1. Cancelling("append", w)
      BY <1>1, <2>10 DEF WorkersKnow
    <3>2. To(p) = "Cancelled"
      BY <2>2, <3>1 DEF Cancelling
    <3>3. s.seq + 1 = Len(stream) /\ k.cancelled
      BY <2>1, <2>2, <2>5, <2>6, <3>2 DEF AccountsInv, Ledgered, CancelIsLast
    <3>4. Moves(p, "idle", NewObject, IdleWork) /\ Cancelling("idle", IdleWork)
      BY <2>1, <2>10, <3>1, CancelPersisted DEF Cancelling
    <3> HIDE DEF s, w, b, k, k2
    <3>5. ASSUME NEW q \in Workers PROVE Knows(pc[q], snap[q], work[q], b, k2)
      <4>1. Knows(pc[q], snap[q], work[q], b, k)
        BY <1>1 DEF WorkersKnow, b, k
      <4>2. InStep(snap[q], k) => k2 = k
        BY <2>5, <2>7 DEF InStep
      <4>3. Interrupted(snap[q], k) => Interrupted(snap[q], k2)
        BY <2>3 DEF Interrupted
      <4>4. Lagging(snap[q], k) => Interrupted(snap[q], k2)
        BY <2>3, <3>3 DEF Lagging, Interrupted
      <4> QED
        BY <4>1, <4>2, <4>3, <4>4, CancelKnown
    <3>6. \A q \in Workers : Knows(pc[q], snap[q], work[q], Books', Shelf')
      BY <2>3, <3>5 DEF k2
    <3>7. WorkersKnow'
      BY <1>1, <2>10, <3>4, <3>6, CancellerMoves
    <3> QED
      BY <2>3, <3>7 DEF AccountsInv
  <2> QED
    BY <2>9, <2>10, WorkersAreProcs
<1> QED
  BY <1>2, <1>3

\* An appended event becomes the head of the stream, and a cancellation its end.
LEMMA AppendedShelf ==
    ASSUME SingleLoop, AccountsInv, NEW p \in Procs, pc[p] = "append", Acceptable(p),
           snap[p].version = object.version, object.seq = Len(stream),
           stream' = Append(stream, Pending(p))
    PROVE  /\ CancelIsLast'
           /\ Shelf'.len = Shelf.len + 1 /\ Shelf'.object = object'
           /\ Shelf'.head.status = EffectiveStatus(terms, snap[p], To(p), work[p].fill, work[p].at)
           /\ Shelf'.head.remaining = RemainingAfter(snap[p], work[p].fill)
           /\ Shelf'.head.filled = FilledAfter(snap[p], work[p].fill)
           /\ Shelf'.cancelled = (To(p) = "Cancelled")
<1> DEFINE e == Pending(p)
<1>1. StoreInv /\ stream \in Seq(Events) /\ CancelIsLast
  BY DEF AccountsInv, StoreInv, StoreTypeOK, Ledgered
<1>2. /\ snap[p] = object /\ To(p) \in OrderStatus /\ work[p].fill \in FillDeltas
  BY <1>1, AppendFacts
<1>3. /\ stream' \in Seq(Events) /\ Len(stream') = Len(stream) + 1 /\ Len(stream) \in Nat
      /\ HeadOrder'.status = e.status /\ HeadOrder'.remaining = e.remaining
      /\ HeadOrder'.filled = e.filled
  BY <1>1, AppendedStep
<1>4. /\ e.to = To(p)
      /\ e.status = EffectiveStatus(terms, snap[p], To(p), work[p].fill, work[p].at)
      /\ e.remaining = RemainingAfter(snap[p], work[p].fill)
      /\ e.filled = FilledAfter(snap[p], work[p].fill)
  BY DEF Pending, Event
<1>5. /\ stream'[Len(stream) + 1] = e /\ stream' # <<>>
      /\ \A i \in 1..Len(stream) : stream'[i] = stream[i]
  BY <1>1, <1>3
<1>6. \A i \in 1..Len(stream) : stream[i].to # "Cancelled"
  <2> SUFFICES ASSUME NEW i \in 1..Len(stream), stream[i].to = "Cancelled" PROVE FALSE
    OBVIOUS
  <2>1. i = Len(stream) /\ stream[i].status = "Cancelled" /\ stream # <<>>
    BY <1>1 DEF CancelIsLast
  <2>2. snap[p].status = "Cancelled"
    BY <1>1, <1>2, <2>1, HeadFacts DEF StoreInv, ObjectAgrees
  <2>3. Successors("Cancelled") = {}
    BY DEF Successors
  <2> QED
    BY <2>2, <2>3 DEF Acceptable, Accepts, CanTransitionTo
<1>7. e.to = "Cancelled" => e.status = "Cancelled"
  BY <1>4 DEF EffectiveStatus, RequestedStatus
<1> HIDE DEF e
<1>8. CancelIsLast'
  <2> SUFFICES ASSUME NEW i \in 1..Len(stream'), stream'[i].to = "Cancelled"
               PROVE  i = Len(stream') /\ stream'[i].status = "Cancelled"
    BY DEF CancelIsLast
  <2>1. i = Len(stream) + 1
    BY <1>3, <1>5, <1>6
  <2> QED
    BY <1>3, <1>5, <1>7, <2>1
<1>9. /\ Shelf.len = Len(stream) /\ Shelf'.len = Len(stream') /\ Shelf'.object = object'
      /\ Shelf'.head = HeadOrder'
      /\ Shelf'.cancelled = (stream' # <<>> /\ stream'[Len(stream')].to = "Cancelled")
  BY DEF Shelf
<1> QED
  BY <1>3, <1>4, <1>5, <1>8, <1>9

\* The event of a transition is appended; its object may or may not be.
LEMMA AppendedAccounts ==
    ASSUME SingleLoop, AccountsInv, StoreInv', NEW p \in Procs, pc[p] = "append", Acceptable(p),
           snap[p].seq = Len(stream), snap[p].version = object.version, object.seq = Len(stream),
           stream' = Append(stream, Pending(p)),
           UNCHANGED <<journal, verdict, sends, fate>>,
           \/ /\ object' = NextObject(snap[p], To(p), work[p].fill, work[p].at)
              /\ Persisted(p, NextObject(snap[p], To(p), work[p].fill, work[p].at))
           \/ Fail(p)
    PROVE  AccountsInv'
<1> DEFINE s == snap[p]
           w == work[p]
           b == Books
           k == Shelf
           k2 == Shelf'
           to == To(p)
           record == NextObject(s, to, w.fill, w.at)
<1>1. /\ StoreInv /\ CallsOK /\ WorkersKnow /\ FatesOrdered /\ Ordered(journal)
      /\ BookRecord(b) /\ ShelfOK(k) /\ Accounts(b, k)
  BY Facts DEF AccountsInv, StoreInv, Ledgered
<1>2. /\ s = object /\ to \in OrderStatus /\ w \in Locals /\ s \in Orders /\ w.todo # <<>>
      /\ to = Head(w.todo) /\ w.fill \in FillDeltas /\ w.at \in 0..MaxNow
  BY <1>1, AppendFacts DEF To, StoreInv, CallsOK, Suspended
<1>3. /\ CancelIsLast' /\ k2.len = k.len + 1 /\ k2.object = object'
      /\ k2.head.status = EffectiveStatus(terms, s, to, w.fill, w.at)
      /\ k2.head.remaining = RemainingAfter(s, w.fill)
      /\ k2.head.filled = FilledAfter(s, w.fill)
      /\ k2.cancelled = (to = "Cancelled")
  BY AppendedShelf
<1>4. Accepts(terms, s, to, w.fill, w.at)
  BY DEF Acceptable
<1>5. Books' = b /\ Ordered(journal') /\ FatesOrdered'
  BY <1>1, SameFates DEF Books
<1>6. /\ k.len = Len(stream) /\ k.object = object /\ k.len \in Nat
      /\ k.object.seq = k.len /\ s.seq = k.len
      /\ s.status = k.head.status /\ s.remaining = k.head.remaining /\ s.filled = k.head.filled
  BY <1>1, <1>2, Facts, ObjectFacts DEF ShelfOK
<1>7. InStep(s, k) /\ ~Interrupted(s, k) /\ ~Lagging(s, k)
  BY <1>2, <1>6 DEF InStep, Interrupted, Lagging
<1>8. /\ record \in Orders
      /\ record.status = EffectiveStatus(terms, s, to, w.fill, w.at)
      /\ record.remaining = RemainingAfter(s, w.fill) /\ record.seq = s.seq + 1
  BY <1>2, <1>4, NextObjectTypes DEF NextObject
<1>9. object' = record => InStep(record, k2)
  BY <1>3, <1>6, <1>8 DEF InStep
<1>10. (object' = record /\ Persisted(p, record)) \/ Fail(p)
  OBVIOUS
<1> HIDE DEF s, w, b, k, k2, to, record
<1>11. ASSUME Accounts(b, k2) PROVE Ledgered'
  BY <1>3, <1>5, <1>11 DEF Ledgered, k2
<1>12. ASSUME NEW c \in Workers, c = p, Accounts(b, k2),
              object' = record /\ Persisted(p, record) =>
                  \E l, o, v : Moves(p, l, o, v) /\ Knows(l, o, v, b, k2)
       PROVE  AccountsInv'
  <2>1. \E l, o, v : Moves(p, l, o, v) /\ Knows(l, o, v, b, k2)
    <3>1. CASE Fail(p)
      <4>1. PICK l \in {"idle", "publish"} : Moves(p, l, NewObject, IdleWork)
        BY <3>1, Rests
      <4> QED
        BY <4>1, RestKnows
    <3> QED
      BY <1>10, <1>12, <3>1
  <2>2. \E l, o, v : Moves(p, l, o, v) /\ Knows(l, o, v, Books', Shelf')
    BY <1>5, <2>1 DEF k2
  <2>3. Alone(p)
    BY <1>12, WorkerFacts
  <2> QED
    BY <1>11, <1>12, <2>2, <2>3, GrownAccounts
<1>13. CASE p \in Workers /\ s.status = "Executing"
  <2>1. Settling(s, w, b, k)
    BY <1>13, WorkerFacts DEF Knows, s, w, b, k
  <2>2. Accounts(b, k2)
    BY <1>1, <1>2, <1>3, <1>4, <1>13, <2>1, SettlingAccounts
  <2>3. Tail(w.todo) = <<>> /\ w.next = "publish"
    <3>1. (\E x : w.todo = <<x>>) /\ w.next = "publish"
      BY <2>1 DEF Settling
    <3>2. \A x : Tail(<<x>>) = <<>>
      OBVIOUS
    <3> QED
      BY <3>1, <3>2
  <2>4. object' = record /\ Persisted(p, record) =>
            \E l, o, v : Moves(p, l, o, v) /\ Knows(l, o, v, b, k2)
    BY <2>3, PersistedGoes DEF w
  <2> QED
    BY <1>12, <1>13, <2>2, <2>4
<1>14. CASE p \in Workers /\ s.status # "Executing"
  <2>1. Preparing(s, w, b, k)
    BY <1>14, WorkerFacts DEF Knows, s, w, b, k
  <2>2. w.fill = NoFill
    BY <2>1 DEF Preparing
  <2>3. /\ EffectiveStatus(terms, s, to, w.fill, w.at) = to
        /\ RemainingAfter(s, w.fill) = s.remaining
        /\ FilledAfter(s, w.fill) = s.filled
        /\ to \in Successors(s.status)
    BY <1>4, <2>2, AcceptedPlain
  <2>4. to \notin {"Filled", "FailedFinal"} /\ (to = "Executing" => s.status = "Simulating")
    BY <1>2, <2>1, FirstPrepared
  <2>5. Accounts(b, k2) /\ (to \notin Closed => Settled(b, k2))
    BY <1>1, <1>3, <1>6, <1>14, <2>3, <2>4, PreparedAccounts
  <2>6. to = "Executing" => Settled(b, k2)
    BY <2>5 DEF Closed
  <2> DEFINE v == [w EXCEPT !.todo = Tail(w.todo), !.fill = NoFill]
             l == IF Tail(w.todo) # <<>> THEN "append" ELSE w.next
  <2>7. ASSUME object' = record PROVE Knows(l, record, v, b, k2)
    <3>1. v = [w EXCEPT !.todo = Tail(w.todo), !.fill = NoFill]
          /\ l = IF Tail(w.todo) # <<>> THEN "append" ELSE w.next
      OBVIOUS
    <3>2. record.status = Head(w.todo) /\ record.remaining = s.remaining /\ InStep(record, k2)
          /\ (Head(w.todo) = "Executing" => Settled(b, k2))
      BY <1>2, <1>8, <1>9, <2>3, <2>6, <2>7
    <3> HIDE DEF v, l
    <3> QED
      BY <1>2, <1>8, <1>14, <2>1, <3>1, <3>2, PreparedGoesOn
  <2>8. object' = record /\ Persisted(p, record) =>
            \E m, o, u : Moves(p, m, o, u) /\ Knows(m, o, u, b, k2)
    BY <2>7, PersistedGoes DEF w
  <2> QED
    BY <1>12, <1>14, <2>5, <2>8
<1>15. CASE p \in Cancellers
  <2>1. Cancelling("append", work[p])
    BY <1>1, <1>15 DEF WorkersKnow
  <2>2. to = "Cancelled" /\ w.fill = NoFill
    BY <1>2, <2>1 DEF Cancelling, w
  <2>3. /\ EffectiveStatus(terms, s, to, w.fill, w.at) = to
        /\ RemainingAfter(s, w.fill) = s.remaining
        /\ FilledAfter(s, w.fill) = s.filled
        /\ to \in Successors(s.status)
    BY <1>4, <2>2, AcceptedPlain
  <2>4. s.status # "Executing" /\ s.status \notin Closed
    BY <2>2, <2>3 DEF Successors, Closed
  <2>5. Accounts(b, k2)
    BY <1>1, <1>3, <1>6, <2>2, <2>3, <2>4, PreparedAccounts
  <2>6. Moves(p, "idle", NewObject, IdleWork) /\ Cancelling("idle", IdleWork)
    <3>1. CASE Fail(p)
      <4>1. p \notin Tickers
        BY <1>15, OrchestratorAssumption
      <4> QED
        BY <3>1, <4>1 DEF Fail, Finish, Moves, Cancelling
    <3>2. CASE Persisted(p, record)
      BY <1>15, <2>1, <3>2, CancelPersisted DEF Cancelling
    <3> QED
      BY <1>10, <3>1, <3>2
  <2>7. ASSUME NEW q \in Workers PROVE Knows(pc[q], snap[q], work[q], b, k2)
    <3>1. Knows(pc[q], snap[q], work[q], b, k)
      BY <1>1 DEF WorkersKnow, b, k
    <3>2. InStep(snap[q], k) => Interrupted(snap[q], k2)
      BY <1>3, <1>6, <2>2 DEF InStep, Interrupted
    <3>3. ~Lagging(snap[q], k)
      BY <1>6 DEF Lagging
    <3>4. ~Interrupted(snap[q], k)
      BY <1>1, <1>6, <2>4 DEF Interrupted, ShelfOK, Closed
    <3>5. ~(InStep(snap[q], k) /\ snap[q].status = "Executing")
      BY <1>2, <1>6, <2>4 DEF InStep
    <3> QED
      BY <3>1, <3>2, <3>3, <3>4, <3>5, CancelKnown
  <2>8. \A q \in Workers : Knows(pc[q], snap[q], work[q], Books', Shelf')
    BY <1>5, <2>7 DEF k2
  <2>9. WorkersKnow'
    BY <1>1, <1>15, <2>6, <2>8, CancellerMoves
  <2> QED
    BY <1>11, <2>5, <2>9 DEF AccountsInv
<1> QED
  BY <1>13, <1>14, <1>15, WorkersAreProcs

\* append_transition of a free sequence.
LEMMA AppendAccounts ==
    ASSUME SingleLoop, AccountsInv, StoreInv', NEW p \in Procs, AppendTransition(p)
    PROVE  AccountsInv'
<1>1. /\ pc[p] = "append" /\ Acceptable(p) /\ snap[p].seq = Len(stream)
      /\ UNCHANGED <<journal, verdict, sends, fate>>
  BY DEF AppendTransition, relayVars
<1>2. CASE Fail(p) /\ UNCHANGED <<stream, object>>
  BY <1>1, <1>2, RestAccounts
<1>3. CASE ~(Fail(p) /\ UNCHANGED <<stream, object>>)
  <2>1. /\ object.seq = Len(stream) /\ snap[p].version = object.version
        /\ stream' = Append(stream, Pending(p))
        /\ \/ /\ object' = NextObject(snap[p], To(p), work[p].fill, work[p].at)
              /\ Persisted(p, NextObject(snap[p], To(p), work[p].fill, work[p].at))
           \/ Fail(p)
    BY <1>3 DEF AppendTransition
  <2> QED
    BY <1>1, <2>1, AppendedAccounts
<1> QED
  BY <1>2, <1>3
-----------------------------------------------------------------------------
(* The invariant is kept *)

LEMMA InitAccounts == ASSUME SingleLoop, Init PROVE AccountsInv
<1>1. StoreInv
  BY InitKeeps
<1>2. /\ stream = <<>> /\ object = NewObject /\ journal = <<>>
      /\ pc = [p \in Procs |-> "idle"] /\ fate = [n \in Attempts |-> "none"]
      /\ verdict = [n \in Attempts |-> "unclaimed"] /\ sends = [n \in Attempts |-> 0]
  BY DEF Init, Relay!Init
<1>3. HeadOrder.status = "Created" /\ HeadOrder.remaining = MaxInput /\ HeadOrder.filled = 0
  BY <1>2, TermsFields DEF HeadOrder, NewOrder
<1>4. Ordered(journal) /\ CancelIsLast
  BY <1>2 DEF Ordered, CancelIsLast
<1>5. FatesOrdered
  BY <1>2 DEF FatesOrdered, Verdicts, Fates
<1>6. TotalIn(journal) = 0
  <2> DEFINE S == ConfirmedIn(journal)
             g == [i \in S |-> journal[i].input]
  <2>1. S = {}
    BY <1>2 DEF ConfirmedIn
  <2>2. g \in [{} -> Nat]
    BY <2>1
  <2>3. TotalIn(journal) = SumOver(g, S)
    BY DEF TotalIn
  <2> HIDE DEF S, g
  <2> QED
    BY <2>1, <2>2, <2>3, SumEmpty
<1>7. SpentIn(journal, fate, {"confirmed"}) = 0
  <2> DEFINE S == WithFate(fate, {"confirmed"})
             g == [n \in S |-> BoundIn(journal, n)]
  <2>1. S = {}
    BY <1>2 DEF WithFate
  <2>2. g \in [{} -> Nat]
    BY <2>1
  <2>3. SpentIn(journal, fate, {"confirmed"}) = SumOver(g, S)
    BY DEF SpentIn
  <2> HIDE DEF S, g
  <2> QED
    BY <2>1, <2>2, <2>3, SumEmpty
<1> DEFINE b == Books
           k == Shelf
<1>8. b.latest = 0 /\ b.phase = "none" /\ b.fate = "none" /\ b.conf = 0 /\ b.total = 0
  BY <1>2, <1>6, <1>7, EmptyBooks DEF Books
<1>9. k.len = 0 /\ k.head = HeadOrder
  BY <1>2 DEF Shelf
<1> HIDE DEF b, k
<1>10. Rank("Created") = 0 /\ "Created" \notin Closed
  BY DEF Rank, Closed
<1>11. Settled(b, k)
  BY <1>3, <1>8, <1>9, <1>10 DEF Settled
<1>12. Accounts(b, k)
  BY <1>3, <1>8, <1>9, <1>10, <1>11, Bounds DEF Accounts
<1>13. \A q \in Procs : pc[q] = "idle"
  BY <1>2
<1>14. WorkersKnow
  BY <1>13, WorkersAreProcs, RestKnows DEF WorkersKnow, Cancelling
<1> QED
  BY <1>1, <1>4, <1>5, <1>12, <1>14 DEF AccountsInv, Ledgered, b, k

LEMMA AccountsStep == ASSUME SingleLoop, AccountsInv, Next PROVE AccountsInv'
<1>1. StoreInv'
  BY StepKeeps DEF Keeps, AccountsInv
<1>2. CASE \E p \in Procs : StoreStep(p)
  BY <1>1, <1>2, ReplayAccounts, AppendAccounts, PublishAccounts, MarkAccounts DEF StoreStep
<1>3. CASE \E t \in Tickers : Load(t)
  BY <1>1, <1>3, LoadAccounts
<1>4. CASE \E t \in Tickers : TickStep(t)
  BY <1>1, <1>4, EvaluateAccounts, IdentityAccounts, PrepareAccounts, BoundAccounts, ClaimAccounts,
     RefuseAccounts, SendAccounts, ReturnsAccounts DEF TickStep
<1>5. CASE \E p \in Procs : ApplyResolution(p)
  BY <1>1, <1>5, ResolutionAccounts
<1>6. CASE RecoverScan \/ RecoverExecuting \/ Reconcile
  BY <1>1, <1>6, ScanAccounts, RecoverAccounts, ReconcileAccounts
<1>7. CASE \E c \in Cancellers : Cancel(c)
  BY <1>1, <1>7, CancelAccounts
<1>8. CASE \E n \in Attempts : ChainSettles(n)
  BY <1>1, <1>8, ChainAccounts
<1>9. CASE DisableTrading \/ Tick
  BY <1>1, <1>9, QuietAccounts DEF DisableTrading, Tick, durableVars, callVars, relayVars
<1>10. CASE Crash
  BY <1>1, <1>10, CrashAccounts
<1>11. CASE \E p \in Procs : Drop(p)
  BY <1>1, <1>11, DropAccounts
<1> QED
  BY <1>2, <1>3, <1>4, <1>5, <1>6, <1>7, <1>8, <1>9, <1>10, <1>11 DEF Next

\* The order, the journal and the chain agree, and each call knows what its next
\* write needs, whatever the store, the chain and the process do.
THEOREM AccountsKept == ASSUME SingleLoop PROVE Spec => []AccountsInv
<1>1. AccountsInv /\ [Next]_vars => AccountsInv'
  <2> SUFFICES ASSUME AccountsInv, [Next]_vars PROVE AccountsInv'
    OBVIOUS
  <2>1. CASE Next
    BY <2>1, AccountsStep
  <2>2. CASE UNCHANGED vars
    <3>1. /\ UNCHANGED <<stream, object, journal, pc, snap, work, verdict, sends, fate>>
          /\ UNCHANGED <<stream, object, journal, delivered, callVars>> /\ now' = now
      BY <2>2 DEF vars, callVars
    <3>2. StoreInv'
      BY <3>1, JournalFacts, QuietKeeps DEF Keeps, AccountsInv
    <3> QED
      BY <3>1, <3>2, QuietAccounts
  <2> QED
    BY <2>1, <2>2
<1>2. Init => AccountsInv
  BY InitAccounts
<1> QED
  BY <1>1, <1>2, PTL DEF Spec
-----------------------------------------------------------------------------
(* What it implies *)

\* No attempt but the latest can be pending or short.
LEMMA OnlyLatest ==
    ASSUME SingleLoop, AccountsInv
    PROVE  /\ \A n \in Attempts : fate[n] \in {"pending", "short"} => n = LatestAttempt
           /\ \A n \in Attempts : n = LatestAttempt => Books.latest >= 1 /\ Books.fate = fate[n]
           /\ Books.latest >= 1 => LatestAttempt \in Attempts
           /\ Books.latest = 0 => Books.fate = "none"
           /\ Chunks({"confirmed"}) = Books.conf /\ HeadOrder = Shelf.head
           /\ Books.chunk = BoundIn(journal, LatestAttempt)
           /\ Books.latest = LatestAttempt
<1>1. /\ LatestAttempt \in Nat /\ Books.latest = LatestAttempt /\ HeadOrder = Shelf.head
      /\ BookRecord(Books)
  BY Facts
<1>2. ASSUME NEW n \in Attempts PROVE n \in Nat /\ n >= 1
  BY AttemptsRange
<1>3. ASSUME NEW n \in Attempts, fate[n] \in {"pending", "short"} PROVE n = LatestAttempt
  <2>1. ~(n > LatestAttempt) /\ ~(n < LatestAttempt)
    BY <1>3 DEF AccountsInv, Ledgered, FatesOrdered
  <2> QED
    BY <1>1, <1>2, <2>1
<1>4. ASSUME NEW n \in Attempts, n = LatestAttempt PROVE Books.latest >= 1 /\ Books.fate = fate[n]
  <2>1. Books.latest >= 1
    BY <1>1, <1>2, <1>4
  <2> QED
    BY <1>4, <2>1, AttemptFacts
<1>5. Chunks({"confirmed"}) = Books.conf
  <2>1. Books.conf = SpentIn(journal, fate, {"confirmed"})
    BY DEF Books, BooksOf
  <2> QED
    BY <2>1, ModelSums DEF AccountsInv
<1>6. Books.chunk = BoundIn(journal, LatestAttempt)
  <2>1. Books.chunk = BoundIn(journal, LatestIn(journal))
    BY DEF Books, BooksOf
  <2>2. LatestIn(journal) = LatestAttempt
    BY DEF LatestIn, LatestAttempt
  <2> QED
    BY <2>1, <2>2
<1>7. Books.latest >= 1 => LatestAttempt \in Attempts
  BY AttemptFacts
<1>8. Books.latest = 0 => Books.fate = "none"
  BY <1>1 DEF BookRecord
<1> QED
  BY <1>1, <1>3, <1>4, <1>5, <1>6, <1>7, <1>8

\* The chunks of all transactions on the chain stay within the input of the order
\* (docs/PRD.md:34, INVARIANTS.md 9): the confirmed ones are its ledger, and at most
\* the latest attempt, whose chunk fits the remainder, is on top of them.
THEOREM NeverOverspent == ASSUME SingleLoop PROVE Spec => []NeverOverspends
<1>1. ASSUME AccountsInv PROVE NeverOverspends
  <2> DEFINE b == Books
             k == Shelf
             C == {"confirmed"}
             U == {"pending", "confirmed", "short"}
             n == LatestAttempt
             total == Chunks(U)
  <2>1. total = SpentIn(journal, fate, U) /\ b.conf = SpentIn(journal, fate, C)
    BY <1>1, ModelSums DEF AccountsInv, Books, BooksOf
  <2>2. journal \in Seq(AttemptEvents) /\ BookRecord(b) /\ ShelfOK(k) /\ Accounts(b, k)
    BY <1>1, Facts, JournalFacts DEF AccountsInv
  <2>3. /\ b.conf \in Nat /\ b.chunk \in Nat /\ k.head.filled \in Nat /\ k.head.remaining \in Nat
        /\ k.head.filled + k.head.remaining = MaxInput
    BY <2>2 DEF BookRecord, ShelfOK, Accounts
  <2>4. b.latest = 0 \/ b.latest >= 1
    BY <2>2 DEF BookRecord
  <2>5. b.fate \in {"pending", "short"} => total = b.chunk + b.conf
    <3> SUFFICES ASSUME b.fate \in {"pending", "short"} PROVE total = b.chunk + b.conf
      OBVIOUS
    <3>1. n \in Attempts /\ fate[n] = b.fate /\ b.chunk = BoundIn(journal, n)
      BY <1>1, <2>4, OnlyLatest
    <3>2. n \notin WithFate(fate, C)
      BY <3>1 DEF WithFate
    <3>3. WithFate(fate, U) = WithFate(fate, C) \cup {n}
      BY <1>1, <3>1, OnlyLatest DEF WithFate
    <3> HIDE DEF n, b, U, C
    <3>4. SpentIn(journal, fate, U) = BoundIn(journal, n) + SpentIn(journal, fate, C)
      BY <2>2, <3>1, <3>2, <3>3, SpentMore
    <3> QED
      BY <2>1, <3>1, <3>4
  <2>6. b.fate \notin {"pending", "short"} => total = b.conf
    <3> SUFFICES ASSUME b.fate \notin {"pending", "short"} PROVE total = b.conf
      OBVIOUS
    <3>1. WithFate(fate, U) = WithFate(fate, C)
      BY <1>1, OnlyLatest DEF WithFate
    <3> QED
      BY <2>1, <3>1, SpentKept
  <2> SUFFICES total <= MaxInput
    BY DEF NeverOverspends
  <2> HIDE DEF b, k, total
  <2>7. Underway(b, k) => b.chunk <= k.head.remaining
    BY <2>2, SafeChunkFacts DEF Underway, ShelfOK
  <2>8. CASE k.head.status \in Closed
    BY <2>2, <2>3, <2>5, <2>6, <2>8 DEF Accounts, Over
  <2>9. CASE Settled(b, k)
    BY <2>3, <2>6, <2>9 DEF Settled
  <2>10. CASE Underway(b, k)
    <3>1. b.fate = "confirmed" => total = k.head.filled + b.chunk
      BY <2>6, <2>10 DEF Underway
    <3>2. b.fate # "confirmed" => b.conf = k.head.filled
      BY <2>3, <2>10 DEF Underway
    <3> QED
      BY <2>3, <2>5, <2>6, <2>7, <2>10, <3>1, <3>2
  <2> QED
    BY <2>2, <2>8, <2>9, <2>10 DEF Accounts
<1> QED
  BY <1>1, AccountsKept, PTL

\* Once the durable order has left Executing its ledger is what the compliant
\* confirmed transactions consumed and nothing is undecided; until then it lags, by
\* the latest attempt only.
THEOREM LedgerFollowsChain == ASSUME SingleLoop PROVE Spec => []LedgerIsTheChain
<1>1. ASSUME AccountsInv PROVE LedgerIsTheChain
  <2> DEFINE b == Books
             k == Shelf
  <2>1. /\ Chunks({"confirmed"}) = b.conf /\ HeadOrder = k.head
        /\ \A n \in Attempts : fate[n] = "pending" => n = LatestAttempt /\ b.fate = "pending"
    BY <1>1, OnlyLatest
  <2>2. /\ Accounts(b, k) /\ b.conf \in Nat /\ b.chunk \in Nat /\ k.head.filled \in Nat
    BY <1>1, Facts DEF BookRecord, ShelfOK
  <2> HIDE DEF b, k
  <2>3. CASE k.head.status = "Executing"
    <3>1. Settled(b, k) \/ Underway(b, k)
      BY <2>2, <2>3 DEF Accounts, Closed
    <3>2. k.head.filled <= b.conf
      BY <2>2, <3>1 DEF Settled, Underway
    <3> QED
      BY <2>1, <2>3, <3>2 DEF LedgerIsTheChain
  <2>4. CASE k.head.status # "Executing"
    <3>1. b.conf = k.head.filled /\ b.fate # "pending"
      BY <2>2, <2>4 DEF Accounts, Settled, Underway, Over
    <3> QED
      BY <2>1, <2>4, <3>1 DEF LedgerIsTheChain
  <2> QED
    BY <2>3, <2>4
<1> QED
  BY <1>1, AccountsKept, PTL

\* apply_transition accepts the fill of a safe chunk of an executing order, on time
\* or late.
LEMMA SafeFillAccepted ==
    ASSUME NEW o, o.status = "Executing", o.remaining \in 0..MaxInput, o.filled \in Nat,
           o.filled + o.remaining = MaxInput, NEW c \in SafeChunks(o), NEW at \in 0..MaxNow
    PROVE  LET left == o.remaining - c IN
           Accepts(terms, o, IF left = 0 THEN "Filled" ELSE "PartiallyFilled",
                   [input |-> c, remaining_after |-> left], at)
<1> DEFINE left == o.remaining - c
           fill == [input |-> c, remaining_after |-> left]
<1>1. c \in Nat /\ c >= 1 /\ c <= o.remaining /\ c >= MinFill /\ o.remaining \in Nat
  BY SafeChunkFacts, Bounds DEF SafeChunks
<1>2. HasFill(fill) /\ fill.input = c /\ fill.remaining_after = left
  BY <1>1 DEF HasFill, NoFill
<1>3. left \in Nat /\ (left # 0 => AllowPartial /\ left >= MinFill)
  BY <1>1 DEF SafeChunks
<1>4. RemainingAfter(o, fill) = left
  BY <1>2 DEF RemainingAfter
<1>5. FillApplies(terms, o, fill) /\ ConservationHolds(terms, o)
  BY <1>1, <1>2, TermsFields DEF FillApplies, ConservationHolds
<1>6. Successors("Executing") = {"PartiallyFilled", "Filled", "FailedRetryable", "FailedFinal",
                                 "Expired"}
  BY DEF Successors
<1>7. /\ MinFill \in Nat /\ 1 <= MinFill /\ MaxInput \in Nat /\ ExpiresAt \in Nat /\ at \in Nat
      /\ left <= MaxInput /\ (left > 0 \/ left = 0)
  BY <1>1, <1>3, Bounds
<1> HIDE DEF fill, left
<1>8. CASE left = 0
  <2>1. /\ RequestedStatus(terms, o, "Filled", fill, at) = "Filled"
        /\ EffectiveStatus(terms, o, "Filled", fill, at) = "Filled"
    BY DEF RequestedStatus, EffectiveStatus
  <2>2. FillAllowed(o.status, "Filled") /\ DeadlineAllows(terms, "Filled", at)
    BY DEF FillAllowed, FillRequired, DeadlineAllows, Closed
  <2>3. FillPolicyAllows(terms, "Filled", fill)
    BY <1>1, <1>2, <1>7, TermsFields DEF FillPolicyAllows
  <2>4. Validates(terms, "Filled", left, at)
    BY <1>7, <1>8, TermsFields DEF Validates, Open
  <2>5. Accepts(terms, o, "Filled", fill, at)
    BY <1>2, <1>4, <1>5, <1>6, <1>8, <2>1, <2>2, <2>3, <2>4 DEF Accepts, CanTransitionTo
  <2> QED
    BY <1>8, <2>5 DEF fill, left
<1>9. CASE left # 0
  <2> DEFINE status == IF at >= ExpiresAt THEN "Expired" ELSE "PartiallyFilled"
  <2>1. /\ RequestedStatus(terms, o, "PartiallyFilled", fill, at) = status
    BY <1>2, TermsFields DEF RequestedStatus, InFlightOrPartial
  <2>2. EffectiveStatus(terms, o, "PartiallyFilled", fill, at) = status
    BY <1>4, <1>9, <2>1 DEF EffectiveStatus
  <2>3. FillAllowed(o.status, "PartiallyFilled")
    BY DEF FillAllowed, FillRequired
  <2>4. DeadlineAllows(terms, status, at)
    BY <1>7, TermsFields DEF DeadlineAllows, Closed
  <2>5. FillPolicyAllows(terms, status, fill)
    BY <1>1, <1>2, <1>3, <1>7, <1>9, TermsFields DEF FillPolicyAllows
  <2>6. Validates(terms, status, left, at)
    <3>1. CASE at >= ExpiresAt
      BY <1>7, <3>1, TermsFields DEF Validates, Open
    <3>2. CASE ~(at >= ExpiresAt)
      BY <1>3, <1>7, <1>9, <3>2, TermsFields DEF Validates, Open
    <3> QED
      BY <3>1, <3>2
  <2>7. status \in Successors(o.status)
    BY <1>6
  <2> HIDE DEF status
  <2>8. Accepts(terms, o, "PartiallyFilled", fill, at)
    BY <1>2, <1>4, <1>5, <1>9, <2>1, <2>2, <2>3, <2>4, <2>5, <2>6, <2>7 DEF Accepts, CanTransitionTo
  <2> QED
    BY <1>9, <2>8 DEF fill, left
<1> QED
  BY <1>8, <1>9

\* Recovery can always apply the confirmed fill it owes the order: the chunk bound
\* for the attempt was safe, and nothing has touched the order since.
THEOREM ConfirmedFillCanApply == ASSUME SingleLoop PROVE Spec => []ConfirmedFillApplies
<1>1. ASSUME AccountsInv PROVE ConfirmedFillApplies
  <2> DEFINE b == Books
             k == Shelf
             o == HeadOrder
             last == journal[Len(journal)]
  <2> SUFFICES ASSUME journal # <<>>, o.status = "Executing", last.phase = "Confirmed",
                      last.compliant, Outstanding(last, o.filled), NEW at \in 0..MaxNow
               PROVE  LET left == o.remaining - last.input IN
                      Accepts(terms, o, IF left = 0 THEN "Filled" ELSE "PartiallyFilled",
                              [input |-> last.input, remaining_after |-> left], at)
    BY DEF ConfirmedFillApplies
  <2>1. BookRecord(b) /\ ShelfOK(k) /\ Accounts(b, k) /\ k.head = o
    BY <1>1, Facts
  <2>2. b.phase = "Confirmed" /\ b.realised = last.input /\ b.total = ConfirmedTotal
    BY <1>1, ReadBooks, ModelSums DEF Books, AccountsInv
  <2>3. /\ o.filled \in Nat /\ o.remaining \in 0..MaxInput /\ o.filled + o.remaining = MaxInput
        /\ b.total \in Nat
    BY <2>1 DEF ShelfOK, Accounts, BookRecord
  <2>4. ~Settled(b, k)
    BY <2>1, <2>2, <2>3 DEF Settled, Outstanding
  <2>5. Underway(b, k)
    BY <2>1, <2>4 DEF Accounts, Closed
  <2>6. last.input \in SafeChunks(o)
    BY <2>1, <2>2, <2>5 DEF Underway
  <2> HIDE DEF o, last, b, k
  <2> QED
    BY <2>3, <2>6, SafeFillAccepted
<1> QED
  BY <1>1, AccountsKept, PTL

\* Only SendAttempt hands a transaction to the chain.
LEMMA OnlySendSends ==
    ASSUME Next, ~UNCHANGED sends PROVE \E t \in Tickers : SendAttempt(t)
<1>1. CASE \E p \in Procs : StoreStep(p)
  BY <1>1 DEF StoreStep, ReplayTransition, AppendTransition, PublishPending, MarkPublished, relayVars
<1>2. CASE \E t \in Tickers : Load(t)
  BY <1>2 DEF Load, relayVars
<1>3. CASE \E t \in Tickers : EvaluateTrigger(t) \/ NextAttemptIdentity(t) \/ PrepareAttempt(t)
  BY <1>3 DEF EvaluateTrigger, NextAttemptIdentity, PrepareAttempt, relayVars
<1>4. CASE \E t \in Tickers : BindAttempt(t)
  BY <1>4 DEF BindAttempt, AppendAttempt, relayVars
<1>5. CASE \E t \in Tickers : ClaimAttempt(t) \/ RefuseAttempt(t)
  BY <1>5 DEF ClaimAttempt, RefuseAttempt, Relay!Claim, Relay!Decide
<1>6. ASSUME NEW p, NEW n, Report(p, n) PROVE UNCHANGED sends
  BY <1>6 DEF Report, ReportSeen, Relay!Decide
<1>7. CASE (\E t \in Tickers : ExecuteReturns(t)) \/ Reconcile
  BY <1>6, <1>7 DEF ExecuteReturns, Reconcile
<1>8. CASE \E p \in Procs : ApplyResolution(p)
  BY <1>8 DEF ApplyResolution, AppendAttempt, relayVars
<1>9. CASE RecoverScan \/ RecoverExecuting \/ (\E c \in Cancellers : Cancel(c))
  BY <1>9 DEF RecoverScan, RecoverExecuting, Cancel, relayVars
<1>10. CASE (\E n \in Attempts : ChainSettles(n)) \/ DisableTrading \/ Tick \/ Crash
            \/ (\E p \in Procs : Drop(p))
  BY <1>10 DEF ChainSettles, DisableTrading, Tick, Crash, Drop, relayVars
<1> QED
  BY <1>1, <1>2, <1>3, <1>4, <1>5, <1>7, <1>8, <1>9, <1>10 DEF Next, TickStep

\* What a send needs.
Reserved(n) ==
    /\ HeadOrder.status = "Executing"
    /\ n = LatestAttempt
    /\ journal[Len(journal)].phase = "Bound"
    /\ \A m \in Attempts : fate[m] # "pending"

\* A transaction is sent for the latest attempt only, its Bound event durable, the
\* durable order Executing, and none undecided.
THEOREM SendsReserved == ASSUME SingleLoop PROVE Spec => SendsAreReserved
<1>1. AccountsInv /\ [Next]_vars
      => [\A n \in Attempts : sends'[n] # sends[n] => Reserved(n)]_vars
  <2> SUFFICES ASSUME AccountsInv, Next, NEW n \in Attempts, sends'[n] # sends[n]
               PROVE  Reserved(n)
    OBVIOUS
  <2>1. PICK t \in Tickers : SendAttempt(t)
    BY OnlySendSends
  <2>2. t \in Workers /\ pc[t] = "claimed" /\ sends' = [sends EXCEPT ![work[t].attempt] = 1]
    BY <2>1, WorkersAreProcs DEF SendAttempt, Relay!Send
  <2>3. sends \in [Attempts -> {0, 1}]
    BY DEF AccountsInv, Ledgered, FatesOrdered
  <2>4. n = work[t].attempt
    BY <2>2, <2>3
  <2>5. /\ work[t].attempt = LatestAttempt /\ Underway(Books, Shelf) /\ LatestAttempt \in Attempts
        /\ journal # <<>> /\ Books.fate = fate[LatestAttempt]
    BY <2>2, ExecutingFacts
  <2>6. Books.phase = "Bound" /\ Books.fate = "none"
    BY <2>2, WorkerFacts DEF Knows
  <2>7. journal[Len(journal)].phase = "Bound"
    BY <2>5, <2>6, ReadBooks DEF Books
  <2>8. HeadOrder.status = "Executing"
    BY <2>5, Facts DEF Underway
  <2>9. \A m \in Attempts : fate[m] # "pending"
    BY <2>5, <2>6, OnlyLatest
  <2> QED
    BY <2>4, <2>5, <2>7, <2>8, <2>9 DEF Reserved
<1> QED
  BY <1>1, AccountsKept, PTL DEF Spec, SendsAreReserved, Reserved
=============================================================================
