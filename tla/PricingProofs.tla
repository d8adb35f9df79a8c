----------------------------- MODULE PricingProofs -----------------------------
(***************************************************************************)
(* What the pre-sign gate and the OKX client promise, for every request,   *)
(* approval, plan, observation, answer and value of the constants:         *)
(* GateIsSafe and OkxAnswersAreOurs.                                       *)
(*                                                                         *)
(* A gate runs through a list of checks and answers the verdict of the     *)
(* first that fails.  Of each list two facts are proved: a check that      *)
(* fails never answers the verdict that lets the request through, hence    *)
(* that verdict means that no check failed; and what the absence of a      *)
(* failure says of the request.  The sums over branches (Total) and the    *)
(* concatenations of lists (FlattenSeq) are folds of the library.  A fold  *)
(* over 1..n is shown to be the last value of a function that satisfies    *)
(* the recurrence, and what it computes by induction over the set of the   *)
(* numbers for which it does, through the least number for which it does   *)
(* not.                                                                    *)
(*                                                                         *)
(* civil_from_days is shown to be the calendar by giving every day its     *)
(* era, its year of the era and its day of the year, which are unique: the *)
(* successor of a day is found among them, and the table of the months     *)
(* says its date.  The other way round, a date determines the three, so    *)
(* that no two seconds are signed alike.  What a percentage with digits    *)
(* behind the point says is the last value of a function again.            *)
(***************************************************************************)
EXTENDS PreSignGate, OkxClient, FiniteSetTheorems, SequenceTheorems, NaturalsInduction,
        WellFoundedInduction, TLAPS

(***************************************************************************)
(* Induction over sets of numbers.                                         *)
(***************************************************************************)
\* A nonempty set of numbers has a least one.
LEMMA LeastMember ==
  ASSUME NEW T \in SUBSET Nat, NEW k \in T
  PROVE  \E m \in T : \A n \in T : m <= n
<1> DEFINE R == OpToRel(<, Nat)
<1>1. IsWellFoundedOn(R, Nat)
  BY NatLessThanWellFounded
<1>2. \A m, n \in Nat : m < n => <<m, n>> \in R
  BY DEF OpToRel
<1> HIDE DEF R
<1>3. PICK m \in T : \A n \in T : ~(<<n, m>> \in R)
  BY <1>1, WFMin
<1>4. ASSUME NEW n \in T PROVE m <= n
  <2>1. m \in Nat /\ n \in Nat /\ ~(n < m)
    BY <1>2, <1>3
  <2> QED
    BY <2>1
<1> QED
  BY <1>4

\* Induction over a set: what holds of 0 and of each successor holds of all.
LEMMA SetInduction ==
  ASSUME NEW T, 0 \in T, \A n \in Nat : n \in T => n + 1 \in T
  PROVE  Nat \subseteq T
<1> SUFFICES ASSUME NEW k \in Nat \ T PROVE FALSE
  OBVIOUS
<1>1. PICK m \in Nat \ T : \A n \in Nat \ T : m <= n
  <2> DEFINE U == Nat \ T
  <2>1. U \in SUBSET Nat /\ k \in U
    OBVIOUS
  <2> HIDE DEF U
  <2>2. \E m \in U : \A n \in U : m <= n
    BY <2>1, LeastMember
  <2> QED
    BY <2>2 DEF U
<1>2. m # 0 /\ m - 1 \in Nat /\ m - 1 \in T
  BY <1>1
<1>3. (m - 1) + 1 \in T
  BY <1>2
<1> QED
  BY <1>1, <1>3

(***************************************************************************)
(* Lists of checks.                                                        *)
(***************************************************************************)
\* A list of which no check fails.
Clean(cs) == \A i \in DOMAIN cs : ~cs[i].bad

\* A list of checks, of which one that fails does not answer v.
Refuses(cs, v) == IsSeq(cs) /\ \A i \in DOMAIN cs : cs[i].bad => cs[i].verdict # v

\* The domain of a sequence.
LEMMA SeqDomain ==
  ASSUME NEW s, IsSeq(s)
  PROVE  Len(s) \in Nat /\ DOMAIN s = 1..Len(s)
BY DEF IsSeq

\* Min is the least member.
LEMMA FirstOfFailing ==
  ASSUME NEW S \in SUBSET Nat, S # {}
  PROVE  Min(S) \in S
<1>1. PICK m \in S : \A n \in S : m <= n
  BY LeastMember
<1> QED
  BY <1>1 DEF Min

\* The verdict v of a list that refuses it is the verdict behind the list, and no check fails.
LEMMA Passed ==
  ASSUME NEW cs, NEW o, NEW v, Refuses(cs, v), FirstFailure(cs, o) = v
  PROVE  Clean(cs) /\ o = v
<1> DEFINE F == {i \in DOMAIN cs : cs[i].bad}
<1>1. F \in SUBSET Nat
  BY SeqDomain DEF Refuses
<1>2. FirstFailure(cs, o) = IF F = {} THEN o ELSE cs[Min(F)].verdict
  BY DEF FirstFailure
<1>3. F = {}
  <2>1. SUFFICES ASSUME F # {} PROVE FALSE
    OBVIOUS
  <2>2. Min(F) \in F
    <3> HIDE DEF F
    <3> QED
      BY <1>1, <2>1, FirstOfFailing
  <2>3. cs[Min(F)].verdict # v
    BY <2>2 DEF Refuses
  <2> QED
    BY <1>2, <2>1, <2>3
<1> QED
  BY <1>2, <1>3 DEF Clean

\* A list of which no check fails gives the verdict behind it.
LEMMA AllPass == ASSUME NEW cs, Clean(cs), NEW o PROVE FirstFailure(cs, o) = o
<1>1. {i \in DOMAIN cs : cs[i].bad} = {}
  BY DEF Clean
<1> QED
  BY <1>1 DEF FirstFailure

\* A sequence over any set is a sequence.
LEMMA IsSeqOf == ASSUME NEW S, NEW s \in Seq(S) PROVE IsSeq(s)
<1>1. Len(s) \in Nat /\ DOMAIN s = 1..Len(s) /\ s \in [1..Len(s) -> S]
  BY LenProperties
<1>2. s \in [1..Len(s) -> {s[i] : i \in DOMAIN s}]
  BY <1>1
<1> QED
  BY <1>1, <1>2, SeqDef DEF IsSeq

\* Two lists that refuse a verdict, one after the other, refuse it.
LEMMA RefusesConcat ==
  ASSUME NEW a, NEW b, NEW v, Refuses(a, v), Refuses(b, v)
  PROVE  Refuses(a \o b, v)
<1> DEFINE A == {a[i] : i \in DOMAIN a}
           B == {b[i] : i \in DOMAIN b}
<1>1. a \in Seq(A) /\ b \in Seq(B)
  BY DEF Refuses, IsSeq
<1>2. \A c \in A \cup B : c.bad => c.verdict # v
  BY DEF Refuses
<1> HIDE DEF A, B
<1>3. a \in Seq(A \cup B) /\ b \in Seq(A \cup B)
  BY <1>1, SeqMonotonic
<1>4. PICK ab : ab = a \o b
  OBVIOUS
<1>5. ab \in Seq(A \cup B)
  BY <1>3, <1>4, ConcatProperties
<1>6. \A i \in DOMAIN ab : ab[i] \in A \cup B
  BY <1>5
<1>7. IsSeq(ab)
  BY <1>5, IsSeqOf
<1> QED
  BY <1>2, <1>4, <1>6, <1>7 DEF Refuses

\* No check of two lists fails when no check of either does.
LEMMA CleanConcat ==
  ASSUME NEW a, NEW b, IsSeq(a), IsSeq(b)
  PROVE  Clean(a \o b) <=> Clean(a) /\ Clean(b)
<1>1. PICK A, B : A = {a[i] : i \in DOMAIN a} /\ B = {b[i] : i \in DOMAIN b}
  OBVIOUS
<1>2. a \in Seq(A) /\ b \in Seq(B)
  BY <1>1 DEF IsSeq
<1>3. a \in Seq(A \cup B) /\ b \in Seq(A \cup B)
  BY <1>2, SeqMonotonic
<1>4. PICK m, n : m = Len(a) /\ n = Len(b)
  OBVIOUS
<1>5. m \in Nat /\ n \in Nat /\ DOMAIN a = 1..m /\ DOMAIN b = 1..n
  BY <1>3, <1>4
<1>6. PICK ab : ab = a \o b
  OBVIOUS
<1>7. DOMAIN ab = 1..(m + n)
  BY <1>3, <1>4, <1>6
<1>8. \A i \in 1..(m + n) : ab[i] = IF i <= m THEN a[i] ELSE b[i - m]
  BY <1>3, <1>4, <1>6, ConcatProperties
<1>9. ASSUME Clean(ab) PROVE Clean(a) /\ Clean(b)
  <2>1. ASSUME NEW i \in 1..m PROVE ~a[i].bad
    <3>1. i \in 1..(m + n) /\ i <= m
      BY <1>5
    <3> QED
      BY <1>7, <1>8, <1>9, <3>1 DEF Clean
  <2>2. ASSUME NEW i \in 1..n PROVE ~b[i].bad
    <3>1. i + m \in 1..(m + n) /\ ~(i + m <= m) /\ (i + m) - m = i
      BY <1>5
    <3>2. ab[i + m] = b[i]
      BY <1>8, <3>1
    <3> QED
      BY <1>7, <1>9, <3>1, <3>2 DEF Clean
  <2> QED
    BY <1>5, <2>1, <2>2 DEF Clean
<1>10. ASSUME Clean(a), Clean(b) PROVE Clean(ab)
  <2>1. ASSUME NEW i \in 1..(m + n) PROVE ~ab[i].bad
    <3>1. CASE i <= m
      <4>1. i \in 1..m
        BY <1>5, <3>1
      <4> QED
        BY <1>5, <1>8, <1>10, <3>1, <4>1 DEF Clean
    <3>2. CASE ~(i <= m)
      <4>1. i - m \in 1..n
        BY <1>5, <3>2
      <4> QED
        BY <1>5, <1>8, <1>10, <3>2, <4>1 DEF Clean
    <3> QED
      BY <3>1, <3>2
  <2> QED
    BY <1>7, <2>1 DEF Clean
<1> QED
  BY <1>6, <1>9, <1>10

(***************************************************************************)
(* Sums.                                                                   *)
(***************************************************************************)
\* f adds up the first N of s.
AddsUp(f, s, N) ==
  /\ f = [k \in 0..N |-> f[k]]
  /\ f[0] = 0
  /\ \A k \in 1..N : f[k] = f[k - 1] + s[k]

\* There is a function that adds up a sequence: Total is one.
LEMMA SumExists ==
  ASSUME NEW N \in Nat, NEW s
  PROVE  \E f : AddsUp(f, s, N)
<1> DEFINE T == {n \in Nat : \E f : AddsUp(f, s, n)}
<1>1. 0 \in T
  <2>1. AddsUp([n \in 0..0 |-> 0], s, 0)
    BY DEF AddsUp
  <2> QED
    BY <2>1
<1>2. ASSUME NEW n \in Nat, n \in T PROVE n + 1 \in T
  <2>1. PICK f : AddsUp(f, s, n)
    BY <1>2
  <2> DEFINE g == [k \in 0..(n + 1) |-> IF k = n + 1 THEN f[n] + s[n + 1] ELSE f[k]]
  <2>2. g[0] = 0
    BY <2>1 DEF AddsUp
  <2>3. ASSUME NEW k \in 1..(n + 1) PROVE g[k] = g[k - 1] + s[k]
    <3>1. CASE k = n + 1
      <4>1. g[n + 1] = f[n] + s[n + 1] /\ g[n] = f[n] /\ k - 1 = n
        BY <3>1
      <4> QED
        BY <4>1, <3>1
    <3>2. CASE k # n + 1
      <4>1. k \in 1..n /\ k - 1 \in 0..n /\ k - 1 # n + 1 /\ k \in 0..(n + 1) /\ k - 1 \in 0..(n + 1)
        BY <3>2
      <4>2. g[k] = f[k] /\ g[k - 1] = f[k - 1]
        BY <4>1
      <4> QED
        BY <4>1, <4>2, <2>1 DEF AddsUp
    <3> QED
      BY <3>1, <3>2
  <2>4. g = [k \in 0..(n + 1) |-> g[k]]
    OBVIOUS
  <2> HIDE DEF g
  <2>5. AddsUp(g, s, n + 1)
    BY <2>2, <2>3, <2>4 DEF AddsUp
  <2> QED
    BY <2>5
<1>3. Nat \subseteq T
  <2> HIDE DEF T
  <2> QED
    BY <1>1, <1>2, SetInduction
<1> QED
  BY <1>3

\* What Total evaluates.
LEMMA TotalIs ==
  ASSUME NEW s, Len(s) \in Nat
  PROVE  \E f : AddsUp(f, s, Len(s)) /\ Total(s) = f[Len(s)]
<1> DEFINE N == Len(s)
           F(f) == [k \in 0..N |-> IF k = 0 THEN 0 ELSE f[k - 1] + s[k]]
           t == CHOOSE f : f = F(f)
<1>1. PICK f : AddsUp(f, s, N)
  BY SumExists
<1>2. f = F(f)
  <2>1. f = [k \in 0..N |-> f[k]]
    BY <1>1 DEF AddsUp
  <2>2. \A k \in 0..N : f[k] = IF k = 0 THEN 0 ELSE f[k - 1] + s[k]
    BY <1>1 DEF AddsUp
  <2> QED
    BY <2>1, <2>2
<1>3. t = F(t)
  BY <1>2
<1>4. Total(s) = t[N]
  BY DEF Total
<1> HIDE DEF t
<1>5. \A k \in 0..N : t[k] = IF k = 0 THEN 0 ELSE t[k - 1] + s[k]
  BY <1>3
<1>6. t = [k \in 0..N |-> t[k]]
  BY <1>3
<1>7. AddsUp(t, s, N)
  BY <1>5, <1>6 DEF AddsUp
<1> QED
  BY <1>4, <1>7

\* The sum of one.
LEMMA TotalOne ==
  ASSUME NEW s, Len(s) = 1, s[1] \in Int
  PROVE  Total(s) = s[1]
<1>0. 1 \in Nat
  OBVIOUS
<1>1. PICK f : AddsUp(f, s, 1) /\ Total(s) = f[1]
  BY <1>0, TotalIs
<1>2. f[0] = 0 /\ f[1] = f[1 - 1] + s[1]
  BY <1>1 DEF AddsUp
<1> QED
  BY <1>1, <1>2

\* A sum of integers is an integer.
LEMMA TotalType ==
  ASSUME NEW s, Len(s) \in Nat, \A k \in 1..Len(s) : s[k] \in Int
  PROVE  Total(s) \in Int
<1>1. PICK N : N = Len(s)
  OBVIOUS
<1>2. PICK f : AddsUp(f, s, N) /\ Total(s) = f[N]
  BY <1>1, TotalIs
<1> DEFINE T == {n \in Nat : n <= N => f[n] \in Int}
<1>3. 0 \in T
  BY <1>2 DEF AddsUp
<1>4. ASSUME NEW n \in Nat, n \in T PROVE n + 1 \in T
  <2>1. SUFFICES ASSUME n + 1 <= N PROVE f[n + 1] \in Int
    OBVIOUS
  <2>2. n + 1 \in 1..N /\ (n + 1) - 1 = n /\ f[n] \in Int
    BY <1>1, <1>4, <2>1
  <2>3. f[n + 1] = f[n] + s[n + 1]
    BY <1>2, <2>2 DEF AddsUp
  <2> QED
    BY <1>1, <2>2, <2>3
<1>5. Nat \subseteq T
  <2> HIDE DEF T
  <2> QED
    BY <1>3, <1>4, SetInduction
<1> QED
  BY <1>1, <1>2, <1>5

\* Sums of sequences of equal length are subtracted term by term.
LEMMA TotalLess ==
  ASSUME NEW s, NEW t, NEW u, Len(s) \in Nat, Len(t) = Len(s), Len(u) = Len(s),
         \A k \in 1..Len(s) : s[k] \in Int /\ t[k] \in Int /\ u[k] = s[k] - t[k]
  PROVE  Total(u) = Total(s) - Total(t)
<1>1. PICK N : N = Len(s)
  OBVIOUS
<1>2. PICK f : AddsUp(f, s, N) /\ Total(s) = f[N]
  BY <1>1, TotalIs
<1>3. PICK g : AddsUp(g, t, N) /\ Total(t) = g[N]
  BY <1>1, TotalIs
<1>4. PICK h : AddsUp(h, u, N) /\ Total(u) = h[N]
  BY <1>1, TotalIs
<1> DEFINE T == {n \in Nat : n <= N => f[n] \in Int /\ g[n] \in Int /\ h[n] = f[n] - g[n]}
<1>5. 0 \in T
  BY <1>2, <1>3, <1>4 DEF AddsUp
<1>6. ASSUME NEW n \in Nat, n \in T PROVE n + 1 \in T
  <2>1. SUFFICES ASSUME n + 1 <= N
                 PROVE  f[n + 1] \in Int /\ g[n + 1] \in Int /\ h[n + 1] = f[n + 1] - g[n + 1]
    OBVIOUS
  <2>2. n + 1 \in 1..N /\ (n + 1) - 1 = n
    BY <1>1, <2>1
  <2>3. f[n] \in Int /\ g[n] \in Int /\ h[n] = f[n] - g[n]
    BY <1>1, <1>6, <2>1
  <2>4. f[n + 1] = f[n] + s[n + 1]
    BY <1>2, <2>2 DEF AddsUp
  <2>5. g[n + 1] = g[n] + t[n + 1]
    BY <1>3, <2>2 DEF AddsUp
  <2>6. h[n + 1] = h[n] + u[n + 1]
    BY <1>4, <2>2 DEF AddsUp
  <2>7. s[n + 1] \in Int /\ t[n + 1] \in Int /\ u[n + 1] = s[n + 1] - t[n + 1]
    BY <1>1, <2>2
  <2> QED
    BY <2>3, <2>4, <2>5, <2>6, <2>7
<1>7. Nat \subseteq T
  <2> HIDE DEF T
  <2> QED
    BY <1>5, <1>6, SetInduction
<1> QED
  BY <1>1, <1>2, <1>3, <1>4, <1>7

(***************************************************************************)
(* Lists of lists of checks.                                               *)
(***************************************************************************)
\* f joins the first N of seqs.
Joins(f, seqs, N) ==
  /\ f = [k \in 1..N |-> f[k]]
  /\ f[1] = seqs[1]
  /\ \A k \in 2..N : f[k] = f[k - 1] \o seqs[k]

\* There is a function that joins sequences: FlattenSeq is one.
LEMMA JoinExists ==
  ASSUME NEW N \in Nat \ {0}, NEW seqs
  PROVE  \E f : Joins(f, seqs, N)
<1> DEFINE T == {n \in Nat : \E f : Joins(f, seqs, n + 1)}
<1>1. 0 \in T
  <2>1. PICK g : g = [k \in 1..1 |-> seqs[1]]
    OBVIOUS
  <2>2. g = [k \in 1..1 |-> g[k]] /\ g[1] = seqs[1]
    BY <2>1
  <2>3. Joins(g, seqs, 1)
    BY <2>2 DEF Joins
  <2>4. 0 + 1 = 1
    OBVIOUS
  <2>5. Joins(g, seqs, 0 + 1)
    BY <2>3, <2>4
  <2> QED
    BY <2>5
<1>2. ASSUME NEW n \in Nat, n \in T PROVE n + 1 \in T
  <2>1. PICK f : Joins(f, seqs, n + 1)
    BY <1>2
  <2>2. PICK m : m = n + 1
    OBVIOUS
  <2>3. m \in Nat /\ m >= 1 /\ Joins(f, seqs, m)
    BY <2>1, <2>2
  <2> DEFINE g == [k \in 1..(m + 1) |-> IF k = m + 1 THEN f[m] \o seqs[m + 1] ELSE f[k]]
  <2>4. g[1] = seqs[1]
    <3>1. 1 \in 1..(m + 1) /\ 1 # m + 1
      BY <2>3
    <3>2. f[1] = seqs[1]
      BY <2>3 DEF Joins
    <3> QED
      BY <3>1, <3>2
  <2>5. ASSUME NEW k \in 2..(m + 1) PROVE g[k] = g[k - 1] \o seqs[k]
    <3>1. CASE k = m + 1
      <4>1. m \in 1..(m + 1) /\ m # m + 1 /\ m + 1 \in 1..(m + 1) /\ k - 1 = m
        BY <2>3, <3>1
      <4>2. g[m] = f[m] /\ g[m + 1] = f[m] \o seqs[m + 1]
        BY <4>1
      <4> QED
        BY <4>1, <4>2, <3>1
    <3>2. CASE k # m + 1
      <4>1. k \in 2..m /\ k - 1 # m + 1 /\ k \in 1..(m + 1) /\ k - 1 \in 1..(m + 1)
        BY <2>3, <3>2
      <4>2. g[k] = f[k] /\ g[k - 1] = f[k - 1]
        BY <3>2, <4>1
      <4>3. f[k] = f[k - 1] \o seqs[k]
        BY <2>3, <4>1 DEF Joins
      <4> QED
        BY <4>2, <4>3
    <3> QED
      BY <3>1, <3>2
  <2>6. g = [k \in 1..(m + 1) |-> g[k]]
    OBVIOUS
  <2> HIDE DEF g
  <2>7. Joins(g, seqs, m + 1)
    BY <2>4, <2>5, <2>6 DEF Joins
  <2>8. Joins(g, seqs, (n + 1) + 1)
    BY <2>2, <2>7
  <2> QED
    BY <2>8
<1>3. Nat \subseteq T
  <2> HIDE DEF T
  <2> QED
    BY <1>1, <1>2, SetInduction
<1>4. N - 1 \in T
  <2>1. N - 1 \in Nat
    OBVIOUS
  <2> HIDE DEF T
  <2> QED
    BY <1>3, <2>1
<1>5. PICK f : Joins(f, seqs, (N - 1) + 1)
  BY <1>4
<1>6. (N - 1) + 1 = N
  OBVIOUS
<1> QED
  BY <1>5, <1>6

\* What FlattenSeq evaluates.
LEMMA FlattenIs ==
  ASSUME NEW seqs, Len(seqs) \in Nat \ {0}
  PROVE  \E f : Joins(f, seqs, Len(seqs)) /\ FlattenSeq(seqs) = f[Len(seqs)]
<1> DEFINE N == Len(seqs)
           F(f) == [i \in 1..N |-> IF i = 1 THEN seqs[i] ELSE f[i - 1] \o seqs[i]]
           t == CHOOSE f : f = F(f)
<1>1. PICK f : Joins(f, seqs, N)
  BY JoinExists
<1>2. f = F(f)
  <2>1. f = [k \in 1..N |-> f[k]]
    BY <1>1 DEF Joins
  <2>2. \A k \in 1..N : f[k] = IF k = 1 THEN seqs[k] ELSE f[k - 1] \o seqs[k]
    <3>1. ASSUME NEW k \in 1..N, k # 1 PROVE k \in 2..N
      BY <3>1
    <3> QED
      BY <1>1, <3>1 DEF Joins
  <2> QED
    BY <2>1, <2>2
<1>3. t = F(t)
  BY <1>2
<1>4. FlattenSeq(seqs) = t[N]
  BY DEF FlattenSeq
<1> HIDE DEF t
<1>5. \A k \in 1..N : t[k] = IF k = 1 THEN seqs[k] ELSE t[k - 1] \o seqs[k]
  BY <1>3
<1>6. t = [k \in 1..N |-> t[k]]
  BY <1>3
<1>7. 1 \in 1..N /\ \A k \in 2..N : k \in 1..N /\ k # 1
  OBVIOUS
<1>8. Joins(t, seqs, N)
  BY <1>5, <1>6, <1>7 DEF Joins
<1> QED
  BY <1>4, <1>8

\* Lists that refuse v, one after the other, refuse it; and none fails exactly when no check of any
\* of them fails.
LEMMA FlattenChecks ==
  ASSUME NEW seqs, NEW v, IsSeq(seqs), \A k \in DOMAIN seqs : Refuses(seqs[k], v)
  PROVE  /\ Refuses(FlattenSeq(seqs), v)
         /\ Clean(FlattenSeq(seqs)) => \A k \in DOMAIN seqs : Clean(seqs[k])
<1>1. PICK N : N = Len(seqs)
  OBVIOUS
<1>2. N \in Nat /\ DOMAIN seqs = 1..N
  BY <1>1, SeqDomain
<1>3. CASE N = 0
  <2>1. FlattenSeq(seqs) = seqs
    BY <1>1, <1>3 DEF FlattenSeq
  <2>2. DOMAIN seqs = {}
    BY <1>2, <1>3
  <2> QED
    BY <2>1, <2>2 DEF Refuses, Clean
<1>4. CASE N # 0
  <2>1. PICK f : Joins(f, seqs, N) /\ FlattenSeq(seqs) = f[N]
    BY <1>1, <1>2, <1>4, FlattenIs
  <2> DEFINE P(n) == /\ Refuses(f[n], v)
                     /\ Clean(f[n]) => \A k \in 1..n : Clean(seqs[k])
             T == {n \in Nat : n + 1 <= N => P(n + 1)}
  <2>2. P(1)
    <3>1. 1 \in 1..N /\ f[1] = seqs[1] /\ 1..1 = {1}
      BY <1>2, <1>4, <2>1 DEF Joins
    <3> QED
      BY <1>2, <3>1
  <2>3. 0 \in T
    BY <2>2
  <2>4. ASSUME NEW n \in Nat, n \in T PROVE n + 1 \in T
    <3>1. PICK m : m = n + 1
      OBVIOUS
    <3>2. SUFFICES ASSUME m + 1 <= N PROVE P(m + 1)
      BY <3>1
    <3>3. P(m)
      BY <1>2, <2>4, <3>1, <3>2
    <3>4. m \in Nat /\ m + 1 \in 2..N /\ (m + 1) - 1 = m /\ m + 1 \in 1..N
      BY <1>2, <3>1, <3>2
    <3>5. f[m + 1] = f[m] \o seqs[m + 1]
      BY <2>1, <3>4 DEF Joins
    <3>6. Refuses(seqs[m + 1], v)
      BY <1>2, <3>4
    <3>7. PICK a, b : a = f[m] /\ b = seqs[m + 1]
      OBVIOUS
    <3>8. Refuses(a, v) /\ Refuses(b, v)
      BY <3>3, <3>6, <3>7
    <3>9. IsSeq(a) /\ IsSeq(b)
      BY <3>8 DEF Refuses
    <3>10. Refuses(a \o b, v)
      BY <3>8, RefusesConcat
    <3>11. Clean(a \o b) => Clean(a) /\ Clean(b)
      BY <3>9, CleanConcat
    <3>12. \A k \in 1..(m + 1) : k \in 1..m \/ k = m + 1
      BY <3>4
    <3> QED
      BY <3>3, <3>5, <3>7, <3>10, <3>11, <3>12
  <2>5. Nat \subseteq T
    <3> HIDE DEF T
    <3> QED
      BY <2>3, <2>4, SetInduction
  <2>6. N - 1 \in Nat /\ (N - 1) + 1 = N
    BY <1>2, <1>4
  <2>7. P(N)
    BY <2>5, <2>6, <1>2
  <2> QED
    BY <1>2, <2>1, <2>7
<1> QED
  BY <1>3, <1>4

(***************************************************************************)
(* Rates.                                                                  *)
(***************************************************************************)
\* A whole number of units more is that much more after the division.
LEMMA DivShift ==
  ASSUME NEW B \in Nat \ {0}, NEW x \in Int, NEW y \in Int
  PROVE  (B * x + y) \div B = x + (y \div B)
<1>1. PICK q, m : q = y \div B /\ m = y % B
  OBVIOUS
<1>2. q \in Int /\ m \in Int /\ 0 <= m /\ m < B /\ y = B * q + m
  BY <1>1
<1>3. PICK w : w = B * x + y
  OBVIOUS
<1>4. PICK p, n : p = w \div B /\ n = w % B
  OBVIOUS
<1>5. w \in Int
  BY <1>3
<1>6. p \in Int /\ n \in Int /\ 0 <= n /\ n < B /\ w = B * p + n
  BY <1>4, <1>5
<1>7. PICK e : e = x + q - p
  OBVIOUS
<1>8. e \in Int
  BY <1>2, <1>6, <1>7
<1>9. B * e = n - m
  <2>1. B * e = B * x + B * q - B * p
    BY <1>2, <1>6, <1>7
  <2>2. B * x \in Int /\ B * q \in Int /\ B * p \in Int
    BY <1>2, <1>6
  <2> QED
    BY <1>2, <1>3, <1>6, <2>1, <2>2
<1>10. ~(e >= 1)
  <2>1. e >= 1 => B * e >= B
    BY <1>8
  <2> QED
    BY <1>2, <1>6, <1>9, <2>1
<1>11. ~(e <= -1)
  <2>1. e <= -1 => B * e <= -B
    BY <1>8
  <2> QED
    BY <1>2, <1>6, <1>9, <2>1
<1>12. e = 0
  BY <1>8, <1>10, <1>11
<1>13. p = x + q
  BY <1>2, <1>6, <1>7, <1>12
<1>14. (B * x + y) \div B = p
  BY <1>3, <1>4
<1> QED
  BY <1>1, <1>13, <1>14

\* A tax taken without forming amount * bps is the tax on the product.
LEMMA FloorBpsIs ==
  ASSUME NEW amount \in Nat, NEW bps \in Nat
  PROVE  FloorBps(amount, bps) = (amount * bps) \div BpsOne /\ FloorBps(amount, bps) \in Nat
<1>1. PICK B : B = BpsOne
  OBVIOUS
<1>2. B \in Nat \ {0}
  BY <1>1, KernelAssumption
<1>3. PICK q, m : q = amount \div B /\ m = amount % B
  OBVIOUS
<1>4. q \in Nat /\ m \in Nat /\ amount = B * q + m
  BY <1>2, <1>3
<1>5. amount * bps = B * (q * bps) + m * bps
  <2>1. (B * q + m) * bps = (B * q) * bps + m * bps
    BY <1>2, <1>4
  <2>2. (B * q) * bps = B * (q * bps)
    BY <1>2, <1>4
  <2> QED
    BY <1>4, <2>1, <2>2
<1>6. q * bps \in Nat /\ m * bps \in Nat
  BY <1>4
<1>7. PICK x, y : x = q * bps /\ y = m * bps
  OBVIOUS
<1>8. (amount * bps) \div B = x + (y \div B)
  <2>1. x \in Int /\ y \in Int
    BY <1>6, <1>7
  <2>2. (B * x + y) \div B = x + (y \div B)
    BY <1>2, <2>1, DivShift
  <2>3. amount * bps = B * x + y
    BY <1>5, <1>7
  <2> QED
    BY <2>2, <2>3
<1>9. y \div B \in Nat
  BY <1>2, <1>6, <1>7
<1> QED
  BY <1>1, <1>3, <1>6, <1>7, <1>8, <1>9 DEF FloorBps

(***************************************************************************)
(* What each list of checks refuses, and what it says when no check fails. *)
(***************************************************************************)
\* The parts of a check.
LEMMA CheckIs == \A b, v : Check(b, v).verdict = v /\ Check(b, v).bad = b
BY DEF Check

\* A verdict with a reason is not Valid.
LEMMA NotValid == \A x : Final(x) # Valid /\ Requote(x) # Valid
BY DEF Final, Requote, Valid

\* What is not fresh is not valid, whatever the tax error, the answer is not valid.
LEMMA VerdictsRefuse ==
  /\ \A r, state : ClassifyFreshness(r.policy, state, r.now) # "Fresh" =>
        FreshnessVerdict(ClassifyFreshness(r.policy, state, r.now)) # Valid
  /\ \A e : MapTaxError(e) # Valid
  /\ \A e : MapBridgeError(e) = Valid => e = "none"
<1>1. \A p, at, now : EvaluateFreshness(p, at, now) \in {"Invalid", "ResyncRequired", "Fresh", "Stale"}
  BY DEF EvaluateFreshness
<1>2. \A r, state : ClassifyFreshness(r.policy, state, r.now) \in {"Invalid", "ResyncRequired", "Fresh", "Stale"}
  BY <1>1 DEF ClassifyFreshness
<1>3. \A f \in {"Invalid", "ResyncRequired", "Stale"} : FreshnessVerdict(f) # Valid
  BY NotValid DEF FreshnessVerdict
<1>4. ASSUME NEW r, NEW state, ClassifyFreshness(r.policy, state, r.now) # "Fresh"
      PROVE  FreshnessVerdict(ClassifyFreshness(r.policy, state, r.now)) # Valid
  BY <1>2, <1>3, <1>4
<1>5. \A e : MapTaxError(e) # Valid
  BY NotValid DEF MapTaxError
<1>6. \A e : MapBridgeError(e) = Valid => e = "none"
  BY NotValid DEF MapBridgeError
<1> QED
  BY <1>4, <1>5, <1>6

\* A failed check of AuthorityChecks is a refusal.
LEMMA AuthorityRefuse ==
  ASSUME NEW r PROVE Refuses(AuthorityChecks(r), Valid)
<1>1. PICK s : s = AuthorityChecks(r)
  OBVIOUS
<1>2. s \in Seq({s[1], s[2], s[3], s[4], s[5], s[6], s[7], s[8], s[9]})
  BY <1>1 DEF AuthorityChecks
<1>3. IsSeq(s)
  BY <1>2, IsSeqOf
<1>4. DOMAIN s = 1..9
  BY <1>1 DEF AuthorityChecks
<1>5. s[1].bad => s[1].verdict # Valid
  BY <1>1, CheckIs, NotValid DEF AuthorityChecks
<1>6. s[2].bad => s[2].verdict # Valid
  BY <1>1, CheckIs, NotValid DEF AuthorityChecks
<1>7. s[3].bad => s[3].verdict # Valid
  BY <1>1, CheckIs, NotValid DEF AuthorityChecks
<1>8. s[4].bad => s[4].verdict # Valid
  BY <1>1, CheckIs, NotValid DEF AuthorityChecks
<1>9. s[5].bad => s[5].verdict # Valid
  BY <1>1, CheckIs, NotValid DEF AuthorityChecks
<1>10. s[6].bad => s[6].verdict # Valid
  BY <1>1, CheckIs, NotValid DEF AuthorityChecks
<1>11. s[7].bad => s[7].verdict # Valid
  BY <1>1, CheckIs, NotValid DEF AuthorityChecks
<1>12. s[8].bad => s[8].verdict # Valid
  BY <1>1, CheckIs, NotValid DEF AuthorityChecks
<1>13. s[9].bad => s[9].verdict # Valid
  BY <1>1, CheckIs, NotValid DEF AuthorityChecks
<1> QED
  BY <1>1, <1>3, <1>4, <1>5, <1>6, <1>7, <1>8, <1>9, <1>10, <1>11, <1>12, <1>13 DEF Refuses

\* What AuthorityChecks says when no check fails.
LEMMA AuthorityClean ==
  ASSUME NEW r, Clean(AuthorityChecks(r))
  PROVE  /\ r.enabled
         /\ r.approval.bound
         /\ ~(r.approval.expires # 0 /\ r.approval.expires <= r.now)
<1>1. PICK s : s = AuthorityChecks(r)
  OBVIOUS
<1>2. DOMAIN s = 1..9
  BY <1>1 DEF AuthorityChecks
<1>3. r.enabled
  <2>1. ~s[1].bad
    BY <1>1, <1>2 DEF Clean
  <2> QED
    BY <1>1, <2>1, CheckIs DEF AuthorityChecks
<1>4. r.approval.bound
  <2>1. ~s[3].bad
    BY <1>1, <1>2 DEF Clean
  <2> QED
    BY <1>1, <2>1, CheckIs DEF AuthorityChecks
<1>5. ~(r.approval.expires # 0 /\ r.approval.expires <= r.now)
  <2>1. ~s[4].bad
    BY <1>1, <1>2 DEF Clean
  <2> QED
    BY <1>1, <2>1, CheckIs DEF AuthorityChecks
<1> QED
  BY <1>3, <1>4, <1>5

\* A failed check of RouterChecks is a refusal.
LEMMA RouterRefuse ==
  ASSUME NEW r, NEW S PROVE Refuses(RouterChecks(r, S), Valid)
<1>1. PICK s : s = RouterChecks(r, S)
  OBVIOUS
<1>2. s \in Seq({s[1], s[2]})
  BY <1>1 DEF RouterChecks
<1>3. IsSeq(s)
  BY <1>2, IsSeqOf
<1>4. DOMAIN s = 1..2
  BY <1>1 DEF RouterChecks
<1>5. s[1].bad => s[1].verdict # Valid
  BY <1>1, CheckIs, NotValid DEF RouterChecks
<1>6. s[2].bad => s[2].verdict # Valid
  BY <1>1, CheckIs, NotValid DEF RouterChecks
<1> QED
  BY <1>1, <1>3, <1>4, <1>5, <1>6 DEF Refuses

\* A failed check of BalanceChecks is a refusal.
LEMMA BalanceRefuse ==
  ASSUME NEW r, NEW d PROVE Refuses(BalanceChecks(r, d), Valid)
<1>1. PICK s : s = BalanceChecks(r, d)
  OBVIOUS
<1>2. s \in Seq({s[1], s[2]})
  BY <1>1 DEF BalanceChecks
<1>3. IsSeq(s)
  BY <1>2, IsSeqOf
<1>4. DOMAIN s = 1..2
  BY <1>1 DEF BalanceChecks
<1>5. s[1].bad => s[1].verdict # Valid
  BY <1>1, CheckIs, NotValid DEF BalanceChecks
<1>6. s[2].bad => s[2].verdict # Valid
  BY <1>1, CheckIs, NotValid DEF BalanceChecks
<1> QED
  BY <1>1, <1>3, <1>4, <1>5, <1>6 DEF Refuses

\* What BalanceChecks says when no check fails.
LEMMA BalanceClean ==
  ASSUME NEW r, NEW d, Clean(BalanceChecks(r, d))
  PROVE  /\ ~(r.balance.amount < d.in)
<1>1. PICK s : s = BalanceChecks(r, d)
  OBVIOUS
<1>2. DOMAIN s = 1..2
  BY <1>1 DEF BalanceChecks
<1>3. ~(r.balance.amount < d.in)
  <2>1. ~s[2].bad
    BY <1>1, <1>2 DEF Clean
  <2> QED
    BY <1>1, <2>1, CheckIs DEF BalanceChecks
<1> QED
  BY <1>3

\* A failed check of FloorChecks is a refusal.
LEMMA FloorRefuse ==
  ASSUME NEW r, NEW d PROVE Refuses(FloorChecks(r, d), Valid)
<1>1. PICK s : s = FloorChecks(r, d)
  OBVIOUS
<1>2. s \in Seq({s[1], s[2], s[3]})
  BY <1>1 DEF FloorChecks
<1>3. IsSeq(s)
  BY <1>2, IsSeqOf
<1>4. DOMAIN s = 1..3
  BY <1>1 DEF FloorChecks
<1>5. s[1].bad => s[1].verdict # Valid
  BY <1>1, CheckIs, NotValid DEF FloorChecks
<1>6. s[2].bad => s[2].verdict # Valid
  BY <1>1, CheckIs, NotValid DEF FloorChecks
<1>7. s[3].bad => s[3].verdict # Valid
  BY <1>1, CheckIs, NotValid DEF FloorChecks
<1> QED
  BY <1>1, <1>3, <1>4, <1>5, <1>6, <1>7 DEF Refuses

\* What FloorChecks says when no check fails.
LEMMA FloorClean ==
  ASSUME NEW r, NEW d, Clean(FloorChecks(r, d))
  PROVE  /\ ~(d.net < r.minOut.amount)
         /\ ~(r.minOut.amount * BpsOne <
               r.expected * (IF r.intent.slippage > BpsOne THEN 0 ELSE BpsOne - r.intent.slippage))
<1>1. PICK s : s = FloorChecks(r, d)
  OBVIOUS
<1>2. DOMAIN s = 1..3
  BY <1>1 DEF FloorChecks
<1>3. ~(d.net < r.minOut.amount)
  <2>1. ~s[2].bad
    BY <1>1, <1>2 DEF Clean
  <2> QED
    BY <1>1, <2>1, CheckIs DEF FloorChecks
<1>4. ~(r.minOut.amount * BpsOne <
               r.expected * (IF r.intent.slippage > BpsOne THEN 0 ELSE BpsOne - r.intent.slippage))
  <2>1. ~s[3].bad
    BY <1>1, <1>2 DEF Clean
  <2> QED
    BY <1>1, <2>1, CheckIs DEF FloorChecks
<1> QED
  BY <1>3, <1>4

\* A failed check of AllowanceChecks is a refusal.
LEMMA AllowanceRefuse ==
  ASSUME NEW r, NEW d, NEW a PROVE Refuses(AllowanceChecks(r, d, a), Valid)
<1>1. PICK s : s = AllowanceChecks(r, d, a)
  OBVIOUS
<1>2. s \in Seq({s[1], s[2], s[3]})
  BY <1>1 DEF AllowanceChecks
<1>3. IsSeq(s)
  BY <1>2, IsSeqOf
<1>4. DOMAIN s = 1..3
  BY <1>1 DEF AllowanceChecks
<1>5. s[1].bad => s[1].verdict # Valid
  BY <1>1, CheckIs, NotValid DEF AllowanceChecks
<1>6. s[2].bad => s[2].verdict # Valid
  BY <1>1, CheckIs, NotValid DEF AllowanceChecks
<1>7. s[3].bad => s[3].verdict # Valid
  BY <1>1, CheckIs, NotValid DEF AllowanceChecks
<1> QED
  BY <1>1, <1>3, <1>4, <1>5, <1>6, <1>7 DEF Refuses

\* What AllowanceChecks says when no check fails.
LEMMA AllowanceClean ==
  ASSUME NEW r, NEW d, NEW a, Clean(AllowanceChecks(r, d, a))
  PROVE  /\ ~(a.required /\ a.spender # ExpectedSpender(r))
         /\ ~(a.required /\ a.amount < d.in)
<1>1. PICK s : s = AllowanceChecks(r, d, a)
  OBVIOUS
<1>2. DOMAIN s = 1..3
  BY <1>1 DEF AllowanceChecks
<1>3. ~(a.required /\ a.spender # ExpectedSpender(r))
  <2>1. ~s[1].bad
    BY <1>1, <1>2 DEF Clean
  <2> QED
    BY <1>1, <2>1, CheckIs DEF AllowanceChecks
<1>4. ~(a.required /\ a.amount < d.in)
  <2>1. ~s[3].bad
    BY <1>1, <1>2 DEF Clean
  <2> QED
    BY <1>1, <2>1, CheckIs DEF AllowanceChecks
<1> QED
  BY <1>3, <1>4

\* A failed check of ObservationChecks is a refusal.
LEMMA ObservationRefuse ==
  ASSUME NEW r, NEW req, NEW a PROVE Refuses(ObservationChecks(r, req, a), Valid)
<1>1. PICK s : s = ObservationChecks(r, req, a)
  OBVIOUS
<1>2. s \in Seq({s[1], s[2], s[3]})
  BY <1>1 DEF ObservationChecks
<1>3. IsSeq(s)
  BY <1>2, IsSeqOf
<1>4. DOMAIN s = 1..3
  BY <1>1 DEF ObservationChecks
<1>5. s[1].bad => s[1].verdict # Valid
  BY <1>1, CheckIs, NotValid DEF ObservationChecks
<1>6. s[2].bad => s[2].verdict # Valid
  BY <1>1, CheckIs, NotValid DEF ObservationChecks
<1>7. s[3].bad => s[3].verdict # Valid
  BY <1>1, CheckIs, NotValid DEF ObservationChecks
<1> QED
  BY <1>1, <1>3, <1>4, <1>5, <1>6, <1>7 DEF Refuses

\* What ObservationChecks says when no check fails.
LEMMA ObservationClean ==
  ASSUME NEW r, NEW req, NEW a, Clean(ObservationChecks(r, req, a))
  PROVE  /\ r.allowances[a].required
         /\ ~SeenBefore(r, a)
<1>1. PICK s : s = ObservationChecks(r, req, a)
  OBVIOUS
<1>2. DOMAIN s = 1..3
  BY <1>1 DEF ObservationChecks
<1>3. r.allowances[a].required
  <2>1. ~s[1].bad
    BY <1>1, <1>2 DEF Clean
  <2> QED
    BY <1>1, <2>1, CheckIs DEF ObservationChecks
<1>4. ~SeenBefore(r, a)
  <2>1. ~s[3].bad
    BY <1>1, <1>2 DEF Clean
  <2> QED
    BY <1>1, <2>1, CheckIs DEF ObservationChecks
<1> QED
  BY <1>3, <1>4

\* A failed check of SpenderChecks is a refusal.
LEMMA SpenderRefuse ==
  ASSUME NEW r, NEW req, NEW d, NEW x PROVE Refuses(SpenderChecks(r, req, d, x), Valid)
<1>1. PICK s : s = SpenderChecks(r, req, d, x)
  OBVIOUS
<1>2. s \in Seq({s[1], s[2], s[3]})
  BY <1>1 DEF SpenderChecks
<1>3. IsSeq(s)
  BY <1>2, IsSeqOf
<1>4. DOMAIN s = 1..3
  BY <1>1 DEF SpenderChecks
<1>5. s[1].bad => s[1].verdict # Valid
  BY <1>1, CheckIs, NotValid DEF SpenderChecks
<1>6. s[2].bad => s[2].verdict # Valid
  BY <1>1, CheckIs, NotValid DEF SpenderChecks
<1>7. s[3].bad => s[3].verdict # Valid
  BY <1>1, CheckIs, NotValid DEF SpenderChecks
<1> QED
  BY <1>1, <1>3, <1>4, <1>5, <1>6, <1>7 DEF Refuses

\* What SpenderChecks says when no check fails.
LEMMA SpenderClean ==
  ASSUME NEW r, NEW req, NEW d, NEW x, Clean(SpenderChecks(r, req, d, x))
  PROVE  /\ ObservationsOf(r, x) # {}
         /\ ~(ObservationsOf(r, x) # {} /\ FirstObservation(r, x).amount < req[x])
<1>1. PICK s : s = SpenderChecks(r, req, d, x)
  OBVIOUS
<1>2. DOMAIN s = 1..3
  BY <1>1 DEF SpenderChecks
<1>3. ObservationsOf(r, x) # {}
  <2>1. ~s[1].bad
    BY <1>1, <1>2 DEF Clean
  <2> QED
    BY <1>1, <2>1, CheckIs DEF SpenderChecks
<1>4. ~(ObservationsOf(r, x) # {} /\ FirstObservation(r, x).amount < req[x])
  <2>1. ~s[3].bad
    BY <1>1, <1>2 DEF Clean
  <2> QED
    BY <1>1, <2>1, CheckIs DEF SpenderChecks
<1> QED
  BY <1>3, <1>4

\* A failed check of TaxSafetyChecks is a refusal.
LEMMA TaxSafetyRefuse ==
  ASSUME NEW i, NEW o, NEW now, NEW p PROVE Refuses(TaxSafetyChecks(i, o, now, p), "none")
<1>1. PICK s : s = TaxSafetyChecks(i, o, now, p)
  OBVIOUS
<1>2. s \in Seq({s[1], s[2], s[3], s[4], s[5], s[6], s[7], s[8], s[9], s[10], s[11], s[12], s[13]})
  BY <1>1 DEF TaxSafetyChecks
<1>3. IsSeq(s)
  BY <1>2, IsSeqOf
<1>4. DOMAIN s = 1..13
  BY <1>1 DEF TaxSafetyChecks
<1>5. s[1].bad => s[1].verdict # "none"
  BY <1>1, CheckIs DEF TaxSafetyChecks
<1>6. s[2].bad => s[2].verdict # "none"
  BY <1>1, CheckIs DEF TaxSafetyChecks
<1>7. s[3].bad => s[3].verdict # "none"
  BY <1>1, CheckIs DEF TaxSafetyChecks
<1>8. s[4].bad => s[4].verdict # "none"
  BY <1>1, CheckIs DEF TaxSafetyChecks
<1>9. s[5].bad => s[5].verdict # "none"
  BY <1>1, CheckIs DEF TaxSafetyChecks
<1>10. s[6].bad => s[6].verdict # "none"
  BY <1>1, CheckIs DEF TaxSafetyChecks
<1>11. s[7].bad => s[7].verdict # "none"
  BY <1>1, CheckIs DEF TaxSafetyChecks
<1>12. s[8].bad => s[8].verdict # "none"
  BY <1>1, CheckIs DEF TaxSafetyChecks
<1>13. s[9].bad => s[9].verdict # "none"
  BY <1>1, CheckIs DEF TaxSafetyChecks
<1>14. s[10].bad => s[10].verdict # "none"
  BY <1>1, CheckIs DEF TaxSafetyChecks
<1>15. s[11].bad => s[11].verdict # "none"
  BY <1>1, CheckIs DEF TaxSafetyChecks
<1>16. s[12].bad => s[12].verdict # "none"
  BY <1>1, CheckIs DEF TaxSafetyChecks
<1>17. s[13].bad => s[13].verdict # "none"
  BY <1>1, CheckIs DEF TaxSafetyChecks
<1> QED
  BY <1>1, <1>3, <1>4, <1>5, <1>6, <1>7, <1>8, <1>9, <1>10, <1>11, <1>12, <1>13, <1>14, <1>15,
     <1>16, <1>17 DEF Refuses

\* What TaxSafetyChecks says when no check fails.
LEMMA TaxSafetyClean ==
  ASSUME NEW i, NEW o, NEW now, NEW p, Clean(TaxSafetyChecks(i, o, now, p))
  PROVE  /\ ~(o.buyTax > i.buyCap)
         /\ ~(o.sellTax > i.sellCap)
<1>1. PICK s : s = TaxSafetyChecks(i, o, now, p)
  OBVIOUS
<1>2. DOMAIN s = 1..13
  BY <1>1 DEF TaxSafetyChecks
<1>3. ~(o.buyTax > i.buyCap)
  <2>1. ~s[12].bad
    BY <1>1, <1>2 DEF Clean
  <2> QED
    BY <1>1, <2>1, CheckIs DEF TaxSafetyChecks
<1>4. ~(o.sellTax > i.sellCap)
  <2>1. ~s[13].bad
    BY <1>1, <1>2 DEF Clean
  <2> QED
    BY <1>1, <2>1, CheckIs DEF TaxSafetyChecks
<1> QED
  BY <1>3, <1>4

\* A failed check of SplitPlanChecks is a refusal.
LEMMA SplitPlanRefuse ==
  ASSUME NEW i, NEW r PROVE Refuses(SplitPlanChecks(i, r), "none")
<1>1. PICK s : s = SplitPlanChecks(i, r)
  OBVIOUS
<1>2. s \in Seq({s[1], s[2], s[3], s[4], s[5], s[6], s[7], s[8], s[9], s[10]})
  BY <1>1 DEF SplitPlanChecks
<1>3. IsSeq(s)
  BY <1>2, IsSeqOf
<1>4. DOMAIN s = 1..10
  BY <1>1 DEF SplitPlanChecks
<1>5. s[1].bad => s[1].verdict # "none"
  BY <1>1, CheckIs DEF SplitPlanChecks
<1>6. s[2].bad => s[2].verdict # "none"
  BY <1>1, CheckIs DEF SplitPlanChecks
<1>7. s[3].bad => s[3].verdict # "none"
  BY <1>1, CheckIs DEF SplitPlanChecks
<1>8. s[4].bad => s[4].verdict # "none"
  BY <1>1, CheckIs DEF SplitPlanChecks
<1>9. s[5].bad => s[5].verdict # "none"
  BY <1>1, CheckIs DEF SplitPlanChecks
<1>10. s[6].bad => s[6].verdict # "none"
  BY <1>1, CheckIs DEF SplitPlanChecks
<1>11. s[7].bad => s[7].verdict # "none"
  BY <1>1, CheckIs DEF SplitPlanChecks
<1>12. s[8].bad => s[8].verdict # "none"
  BY <1>1, CheckIs DEF SplitPlanChecks
<1>13. s[9].bad => s[9].verdict # "none"
  BY <1>1, CheckIs DEF SplitPlanChecks
<1>14. s[10].bad => s[10].verdict # "none"
  BY <1>1, CheckIs DEF SplitPlanChecks
<1> QED
  BY <1>1, <1>3, <1>4, <1>5, <1>6, <1>7, <1>8, <1>9, <1>10, <1>11, <1>12, <1>13, <1>14 DEF Refuses

\* What SplitPlanChecks says when no check fails.
LEMMA SplitPlanClean ==
  ASSUME NEW i, NEW r, Clean(SplitPlanChecks(i, r))
  PROVE  /\ ~PoolReused(r.plan)
<1>1. PICK s : s = SplitPlanChecks(i, r)
  OBVIOUS
<1>2. DOMAIN s = 1..10
  BY <1>1 DEF SplitPlanChecks
<1>3. ~PoolReused(r.plan)
  <2>1. ~s[4].bad
    BY <1>1, <1>2 DEF Clean
  <2> QED
    BY <1>1, <2>1, CheckIs DEF SplitPlanChecks
<1> QED
  BY <1>3

\* A failed check of CommonPreviewChecks is a refusal.
LEMMA CommonRefuse ==
  ASSUME NEW r, NEW d PROVE Refuses(CommonPreviewChecks(r, d), "none")
<1>1. PICK s : s = CommonPreviewChecks(r, d)
  OBVIOUS
<1>2. s \in Seq({s[1], s[2], s[3]})
  BY <1>1 DEF CommonPreviewChecks
<1>3. IsSeq(s)
  BY <1>2, IsSeqOf
<1>4. DOMAIN s = 1..3
  BY <1>1 DEF CommonPreviewChecks
<1>5. s[1].bad => s[1].verdict # "none"
  BY <1>1, CheckIs DEF CommonPreviewChecks
<1>6. s[2].bad => s[2].verdict # "none"
  BY <1>1, CheckIs DEF CommonPreviewChecks
<1>7. s[3].bad => s[3].verdict # "none"
  BY <1>1, CheckIs DEF CommonPreviewChecks
<1> QED
  BY <1>1, <1>3, <1>4, <1>5, <1>6, <1>7 DEF Refuses

\* What CommonPreviewChecks says when no check fails.
LEMMA CommonClean ==
  ASSUME NEW r, NEW d, Clean(CommonPreviewChecks(r, d))
  PROVE  /\ LimitError(r.intent, d) = "none"
<1>1. PICK s : s = CommonPreviewChecks(r, d)
  OBVIOUS
<1>2. DOMAIN s = 1..3
  BY <1>1 DEF CommonPreviewChecks
<1>3. LimitError(r.intent, d) = "none"
  <2>1. ~s[3].bad
    BY <1>1, <1>2 DEF Clean
  <2> QED
    BY <1>1, <2>1, CheckIs DEF CommonPreviewChecks
<1> QED
  BY <1>3

\* A failed check of PreviewChecks is a refusal.
LEMMA PreviewRefuse ==
  ASSUME NEW r, NEW d PROVE Refuses(PreviewChecks(r, d), "none")
<1>1. PICK s : s = PreviewChecks(r, d)
  OBVIOUS
<1>2. s \in Seq({s[1], s[2], s[3], s[4], s[5], s[6], s[7], s[8], s[9], s[10]})
  BY <1>1 DEF PreviewChecks
<1>3. IsSeq(s)
  BY <1>2, IsSeqOf
<1>4. DOMAIN s = 1..10
  BY <1>1 DEF PreviewChecks
<1>5. s[1].bad => s[1].verdict # "none"
  BY <1>1, CheckIs DEF PreviewChecks
<1>6. s[2].bad => s[2].verdict # "none"
  BY <1>1, CheckIs DEF PreviewChecks
<1>7. s[3].bad => s[3].verdict # "none"
  BY <1>1, CheckIs DEF PreviewChecks
<1>8. s[4].bad => s[4].verdict # "none"
  BY <1>1, CheckIs DEF PreviewChecks
<1>9. s[5].bad => s[5].verdict # "none"
  BY <1>1, CheckIs DEF PreviewChecks
<1>10. s[6].bad => s[6].verdict # "none"
  BY <1>1, CheckIs DEF PreviewChecks
<1>11. s[7].bad => s[7].verdict # "none"
  BY <1>1, CheckIs DEF PreviewChecks
<1>12. s[8].bad => s[8].verdict # "none"
  BY <1>1, CheckIs DEF PreviewChecks
<1>13. s[9].bad => s[9].verdict # "none"
  BY <1>1, CheckIs DEF PreviewChecks
<1>14. s[10].bad => s[10].verdict # "none"
  BY <1>1, CheckIs DEF PreviewChecks
<1> QED
  BY <1>1, <1>3, <1>4, <1>5, <1>6, <1>7, <1>8, <1>9, <1>10, <1>11, <1>12, <1>13, <1>14 DEF Refuses

\* What PreviewChecks says when no check fails.
LEMMA PreviewClean ==
  ASSUME NEW r, NEW d, Clean(PreviewChecks(r, d))
  PROVE  /\ ~Overdrawn(r.plan[1].legs, d.in)
<1>1. PICK s : s = PreviewChecks(r, d)
  OBVIOUS
<1>2. DOMAIN s = 1..10
  BY <1>1 DEF PreviewChecks
<1>3. ~Overdrawn(r.plan[1].legs, d.in)
  <2>1. ~s[9].bad
    BY <1>1, <1>2 DEF Clean
  <2> QED
    BY <1>1, <2>1, CheckIs DEF PreviewChecks
<1> QED
  BY <1>3

\* A failed check of SplitPreviewChecks is a refusal.
LEMMA SplitPreviewRefuse ==
  ASSUME NEW r, NEW d PROVE Refuses(SplitPreviewChecks(r, d), "none")
<1>1. PICK s : s = SplitPreviewChecks(r, d)
  OBVIOUS
<1>2. s \in Seq({s[1], s[2], s[3], s[4], s[5]})
  BY <1>1 DEF SplitPreviewChecks
<1>3. IsSeq(s)
  BY <1>2, IsSeqOf
<1>4. DOMAIN s = 1..5
  BY <1>1 DEF SplitPreviewChecks
<1>5. s[1].bad => s[1].verdict # "none"
  BY <1>1, CheckIs DEF SplitPreviewChecks
<1>6. s[2].bad => s[2].verdict # "none"
  BY <1>1, CheckIs DEF SplitPreviewChecks
<1>7. s[3].bad => s[3].verdict # "none"
  BY <1>1, CheckIs DEF SplitPreviewChecks
<1>8. s[4].bad => s[4].verdict # "none"
  BY <1>1, CheckIs DEF SplitPreviewChecks
<1>9. s[5].bad => s[5].verdict # "none"
  BY <1>1, CheckIs DEF SplitPreviewChecks
<1> QED
  BY <1>1, <1>3, <1>4, <1>5, <1>6, <1>7, <1>8, <1>9 DEF Refuses

\* What SplitPreviewChecks says when no check fails.
LEMMA SplitPreviewClean ==
  ASSUME NEW r, NEW d, Clean(SplitPreviewChecks(r, d))
  PROVE  /\ SplitPlanError(r.intent, r) = "none"
         /\ Total([b \in DOMAIN r.plan |-> r.plan[b].amount]) = d.in
<1>1. PICK s : s = SplitPreviewChecks(r, d)
  OBVIOUS
<1>2. DOMAIN s = 1..5
  BY <1>1 DEF SplitPreviewChecks
<1>3. SplitPlanError(r.intent, r) = "none"
  <2>1. ~s[2].bad
    BY <1>1, <1>2 DEF Clean
  <2> QED
    BY <1>1, <2>1, CheckIs DEF SplitPreviewChecks
<1>4. Total([b \in DOMAIN r.plan |-> r.plan[b].amount]) = d.in
  <2>1. ~s[4].bad
    BY <1>1, <1>2 DEF Clean
  <2> QED
    BY <1>1, <2>1, CheckIs DEF SplitPreviewChecks
<1> QED
  BY <1>3, <1>4

\* A failed check of BuildPreviewChecks is a refusal.
LEMMA BuildPreviewRefuse ==
  ASSUME NEW i, NEW d PROVE Refuses(BuildPreviewChecks(i, d), "none")
<1>1. PICK s : s = BuildPreviewChecks(i, d)
  OBVIOUS
<1>2. s \in Seq({s[1], s[2], s[3], s[4]})
  BY <1>1 DEF BuildPreviewChecks
<1>3. IsSeq(s)
  BY <1>2, IsSeqOf
<1>4. DOMAIN s = 1..4
  BY <1>1 DEF BuildPreviewChecks
<1>5. s[1].bad => s[1].verdict # "none"
  BY <1>1, CheckIs DEF BuildPreviewChecks
<1>6. s[2].bad => s[2].verdict # "none"
  BY <1>1, CheckIs DEF BuildPreviewChecks
<1>7. s[3].bad => s[3].verdict # "none"
  BY <1>1, CheckIs DEF BuildPreviewChecks
<1>8. s[4].bad => s[4].verdict # "none"
  BY <1>1, CheckIs DEF BuildPreviewChecks
<1> QED
  BY <1>1, <1>3, <1>4, <1>5, <1>6, <1>7, <1>8 DEF Refuses

\* What BuildPreviewChecks says when no check fails.
LEMMA BuildPreviewClean ==
  ASSUME NEW i, NEW d, Clean(BuildPreviewChecks(i, d))
  PROVE  /\ DeltaValid(d)
         /\ d.tokens = i.tokens
<1>1. PICK s : s = BuildPreviewChecks(i, d)
  OBVIOUS
<1>2. DOMAIN s = 1..4
  BY <1>1 DEF BuildPreviewChecks
<1>3. DeltaValid(d)
  <2>1. ~s[1].bad
    BY <1>1, <1>2 DEF Clean
  <2> QED
    BY <1>1, <2>1, CheckIs DEF BuildPreviewChecks
<1>4. d.tokens = i.tokens
  <2>1. ~s[3].bad
    BY <1>1, <1>2 DEF Clean
  <2> QED
    BY <1>1, <2>1, CheckIs DEF BuildPreviewChecks
<1> QED
  BY <1>3, <1>4

\* A failed check of AssessmentChecks is a refusal.
LEMMA AssessmentRefuse ==
  ASSUME NEW i, NEW ds, NEW obs PROVE Refuses(AssessmentChecks(i, ds, obs), "none")
<1>1. PICK s : s = AssessmentChecks(i, ds, obs)
  OBVIOUS
<1>2. s \in Seq({s[1], s[2]})
  BY <1>1 DEF AssessmentChecks
<1>3. IsSeq(s)
  BY <1>2, IsSeqOf
<1>4. DOMAIN s = 1..2
  BY <1>1 DEF AssessmentChecks
<1>5. s[1].bad => s[1].verdict # "none"
  BY <1>1, CheckIs DEF AssessmentChecks
<1>6. s[2].bad => s[2].verdict # "none"
  BY <1>1, CheckIs DEF AssessmentChecks
<1> QED
  BY <1>1, <1>3, <1>4, <1>5, <1>6 DEF Refuses

\* What AssessmentChecks says when no check fails.
LEMMA AssessmentClean ==
  ASSUME NEW i, NEW ds, NEW obs, Clean(AssessmentChecks(i, ds, obs))
  PROVE  /\ ~TaxMismatch(i, ds, obs)
<1>1. PICK s : s = AssessmentChecks(i, ds, obs)
  OBVIOUS
<1>2. DOMAIN s = 1..2
  BY <1>1 DEF AssessmentChecks
<1>3. ~TaxMismatch(i, ds, obs)
  <2>1. ~s[1].bad
    BY <1>1, <1>2 DEF Clean
  <2> QED
    BY <1>1, <2>1, CheckIs DEF AssessmentChecks
<1> QED
  BY <1>3

\* A failed check of DeltaPreviewChecks is a refusal.
LEMMA DeltaPreviewRefuse ==
  ASSUME NEW r, NEW d, NEW obs PROVE Refuses(DeltaPreviewChecks(r, d, obs), "none")
<1>1. PICK s : s = DeltaPreviewChecks(r, d, obs)
  OBVIOUS
<1>2. s \in Seq({s[1], s[2], s[3]})
  BY <1>1 DEF DeltaPreviewChecks
<1>3. IsSeq(s)
  BY <1>2, IsSeqOf
<1>4. DOMAIN s = 1..3
  BY <1>1 DEF DeltaPreviewChecks
<1>5. s[1].bad => s[1].verdict # "none"
  BY <1>1, CheckIs DEF DeltaPreviewChecks
<1>6. s[2].bad => s[2].verdict # "none"
  BY <1>1, CheckIs DEF DeltaPreviewChecks
<1>7. s[3].bad => s[3].verdict # "none"
  BY <1>1, CheckIs DEF DeltaPreviewChecks
<1> QED
  BY <1>1, <1>3, <1>4, <1>5, <1>6, <1>7 DEF Refuses

\* What DeltaPreviewChecks says when no check fails.
LEMMA DeltaPreviewClean ==
  ASSUME NEW r, NEW d, NEW obs, Clean(DeltaPreviewChecks(r, d, obs))
  PROVE  /\ AssessmentError(r.intent, r.deltas, obs) = "none"
         /\ BuildPreviewError(r.intent, d) = "none"
<1>1. PICK s : s = DeltaPreviewChecks(r, d, obs)
  OBVIOUS
<1>2. DOMAIN s = 1..3
  BY <1>1 DEF DeltaPreviewChecks
<1>3. AssessmentError(r.intent, r.deltas, obs) = "none"
  <2>1. ~s[1].bad
    BY <1>1, <1>2 DEF Clean
  <2> QED
    BY <1>1, <2>1, CheckIs DEF DeltaPreviewChecks
<1>4. BuildPreviewError(r.intent, d) = "none"
  <2>1. ~s[3].bad
    BY <1>1, <1>2 DEF Clean
  <2> QED
    BY <1>1, <2>1, CheckIs DEF DeltaPreviewChecks
<1> QED
  BY <1>3, <1>4

\* A failed check of SplitDeltaPreviewChecks is a refusal.
LEMMA SplitDeltaPreviewRefuse ==
  ASSUME NEW r, NEW d, NEW obs PROVE Refuses(SplitDeltaPreviewChecks(r, d, obs), "none")
<1>1. PICK s : s = SplitDeltaPreviewChecks(r, d, obs)
  OBVIOUS
<1>2. s \in Seq({s[1], s[2], s[3], s[4], s[5], s[6]})
  BY <1>1 DEF SplitDeltaPreviewChecks
<1>3. IsSeq(s)
  BY <1>2, IsSeqOf
<1>4. DOMAIN s = 1..6
  BY <1>1 DEF SplitDeltaPreviewChecks
<1>5. s[1].bad => s[1].verdict # "none"
  BY <1>1, CheckIs DEF SplitDeltaPreviewChecks
<1>6. s[2].bad => s[2].verdict # "none"
  BY <1>1, CheckIs DEF SplitDeltaPreviewChecks
<1>7. s[3].bad => s[3].verdict # "none"
  BY <1>1, CheckIs DEF SplitDeltaPreviewChecks
<1>8. s[4].bad => s[4].verdict # "none"
  BY <1>1, CheckIs DEF SplitDeltaPreviewChecks
<1>9. s[5].bad => s[5].verdict # "none"
  BY <1>1, CheckIs DEF SplitDeltaPreviewChecks
<1>10. s[6].bad => s[6].verdict # "none"
  BY <1>1, CheckIs DEF SplitDeltaPreviewChecks
<1> QED
  BY <1>1, <1>3, <1>4, <1>5, <1>6, <1>7, <1>8, <1>9, <1>10 DEF Refuses

\* What SplitDeltaPreviewChecks says when no check fails.
LEMMA SplitDeltaPreviewClean ==
  ASSUME NEW r, NEW d, NEW obs, Clean(SplitDeltaPreviewChecks(r, d, obs))
  PROVE  /\ AssessmentError(r.intent, r.deltas, obs) = "none"
         /\ BuildPreviewError(r.intent, d) = "none"
<1>1. PICK s : s = SplitDeltaPreviewChecks(r, d, obs)
  OBVIOUS
<1>2. DOMAIN s = 1..6
  BY <1>1 DEF SplitDeltaPreviewChecks
<1>3. AssessmentError(r.intent, r.deltas, obs) = "none"
  <2>1. ~s[2].bad
    BY <1>1, <1>2 DEF Clean
  <2> QED
    BY <1>1, <2>1, CheckIs DEF SplitDeltaPreviewChecks
<1>4. BuildPreviewError(r.intent, d) = "none"
  <2>1. ~s[6].bad
    BY <1>1, <1>2 DEF Clean
  <2> QED
    BY <1>1, <2>1, CheckIs DEF SplitDeltaPreviewChecks
<1> QED
  BY <1>3, <1>4

\* A failed check of SubmitChecks is a refusal.
LEMMA SubmitRefuse ==
  ASSUME NEW q, NEW s0, NEW p, NEW chain PROVE Refuses(SubmitChecks(q, s0, p, chain), "none")
<1>1. PICK s : s = SubmitChecks(q, s0, p, chain)
  OBVIOUS
<1>2. s \in Seq({s[1], s[2], s[3], s[4]})
  BY <1>1 DEF SubmitChecks
<1>3. IsSeq(s)
  BY <1>2, IsSeqOf
<1>4. DOMAIN s = 1..4
  BY <1>1 DEF SubmitChecks
<1>5. s[1].bad => s[1].verdict # "none"
  BY <1>1, CheckIs DEF SubmitChecks
<1>6. s[2].bad => s[2].verdict # "none"
  BY <1>1, CheckIs DEF SubmitChecks
<1>7. s[3].bad => s[3].verdict # "none"
  BY <1>1, CheckIs DEF SubmitChecks
<1>8. s[4].bad => s[4].verdict # "none"
  BY <1>1, CheckIs DEF SubmitChecks
<1> QED
  BY <1>1, <1>3, <1>4, <1>5, <1>6, <1>7, <1>8 DEF Refuses

\* What SubmitChecks says when no check fails.
LEMMA SubmitClean ==
  ASSUME NEW q, NEW s0, NEW p, NEW chain, Clean(SubmitChecks(q, s0, p, chain))
  PROVE  /\ <<s0.digest, s0.id, s0.key>> = <<q.digest, q.id, q.key>>
         /\ chain = q.chain
         /\ PayloadError(p) = "none"
         /\ p.bytes = q.payload
<1>1. PICK s : s = SubmitChecks(q, s0, p, chain)
  OBVIOUS
<1>2. DOMAIN s = 1..4
  BY <1>1 DEF SubmitChecks
<1>3. <<s0.digest, s0.id, s0.key>> = <<q.digest, q.id, q.key>>
  <2>1. ~s[1].bad
    BY <1>1, <1>2 DEF Clean
  <2> QED
    BY <1>1, <2>1, CheckIs DEF SubmitChecks
<1>4. chain = q.chain
  <2>1. ~s[2].bad
    BY <1>1, <1>2 DEF Clean
  <2> QED
    BY <1>1, <2>1, CheckIs DEF SubmitChecks
<1>5. PayloadError(p) = "none"
  <2>1. ~s[3].bad
    BY <1>1, <1>2 DEF Clean
  <2> QED
    BY <1>1, <2>1, CheckIs DEF SubmitChecks
<1>6. p.bytes = q.payload
  <2>1. ~s[4].bad
    BY <1>1, <1>2 DEF Clean
  <2> QED
    BY <1>1, <2>1, CheckIs DEF SubmitChecks
<1> QED
  BY <1>3, <1>4, <1>5, <1>6

\* A failed check of ProposalAccessChecks is a refusal.
LEMMA ProposalAccessRefuse ==
  ASSUME NEW r, NEW p, NEW pol PROVE Refuses(ProposalAccessChecks(r, p, pol), "none")
<1>1. PICK s : s = ProposalAccessChecks(r, p, pol)
  OBVIOUS
<1>2. s \in Seq({s[1], s[2], s[3], s[4], s[5], s[6], s[7], s[8]})
  BY <1>1 DEF ProposalAccessChecks
<1>3. IsSeq(s)
  BY <1>2, IsSeqOf
<1>4. DOMAIN s = 1..8
  BY <1>1 DEF ProposalAccessChecks
<1>5. s[1].bad => s[1].verdict # "none"
  BY <1>1, CheckIs DEF ProposalAccessChecks
<1>6. s[2].bad => s[2].verdict # "none"
  BY <1>1, CheckIs DEF ProposalAccessChecks
<1>7. s[3].bad => s[3].verdict # "none"
  BY <1>1, CheckIs DEF ProposalAccessChecks
<1>8. s[4].bad => s[4].verdict # "none"
  BY <1>1, CheckIs DEF ProposalAccessChecks
<1>9. s[5].bad => s[5].verdict # "none"
  BY <1>1, CheckIs DEF ProposalAccessChecks
<1>10. s[6].bad => s[6].verdict # "none"
  BY <1>1, CheckIs DEF ProposalAccessChecks
<1>11. s[7].bad => s[7].verdict # "none"
  BY <1>1, CheckIs DEF ProposalAccessChecks
<1>12. s[8].bad => s[8].verdict # "none"
  BY <1>1, CheckIs DEF ProposalAccessChecks
<1> QED
  BY <1>1, <1>3, <1>4, <1>5, <1>6, <1>7, <1>8, <1>9, <1>10, <1>11, <1>12 DEF Refuses

\* What ProposalAccessChecks says when no check fails.
LEMMA ProposalAccessClean ==
  ASSUME NEW r, NEW p, NEW pol, Clean(ProposalAccessChecks(r, p, pol))
  PROVE  /\ r.plan[1].legs # << >>
<1>1. PICK s : s = ProposalAccessChecks(r, p, pol)
  OBVIOUS
<1>2. DOMAIN s = 1..8
  BY <1>1 DEF ProposalAccessChecks
<1>3. r.plan[1].legs # << >>
  <2>1. ~s[1].bad
    BY <1>1, <1>2 DEF Clean
  <2> QED
    BY <1>1, <2>1, CheckIs DEF ProposalAccessChecks
<1> QED
  BY <1>3

\* A failed check of ProposalAmountChecks is a refusal.
LEMMA ProposalAmountRefuse ==
  ASSUME NEW r, NEW p, NEW pol PROVE Refuses(ProposalAmountChecks(r, p, pol), "none")
<1>1. PICK s : s = ProposalAmountChecks(r, p, pol)
  OBVIOUS
<1>2. s \in Seq({s[1], s[2], s[3], s[4], s[5], s[6], s[7], s[8]})
  BY <1>1 DEF ProposalAmountChecks
<1>3. IsSeq(s)
  BY <1>2, IsSeqOf
<1>4. DOMAIN s = 1..8
  BY <1>1 DEF ProposalAmountChecks
<1>5. s[1].bad => s[1].verdict # "none"
  BY <1>1, CheckIs DEF ProposalAmountChecks
<1>6. s[2].bad => s[2].verdict # "none"
  BY <1>1, CheckIs DEF ProposalAmountChecks
<1>7. s[3].bad => s[3].verdict # "none"
  BY <1>1, CheckIs DEF ProposalAmountChecks
<1>8. s[4].bad => s[4].verdict # "none"
  BY <1>1, CheckIs DEF ProposalAmountChecks
<1>9. s[5].bad => s[5].verdict # "none"
  BY <1>1, CheckIs DEF ProposalAmountChecks
<1>10. s[6].bad => s[6].verdict # "none"
  BY <1>1, CheckIs DEF ProposalAmountChecks
<1>11. s[7].bad => s[7].verdict # "none"
  BY <1>1, CheckIs DEF ProposalAmountChecks
<1>12. s[8].bad => s[8].verdict # "none"
  BY <1>1, CheckIs DEF ProposalAmountChecks
<1> QED
  BY <1>1, <1>3, <1>4, <1>5, <1>6, <1>7, <1>8, <1>9, <1>10, <1>11, <1>12 DEF Refuses

\* What ProposalAmountChecks says when no check fails.
LEMMA ProposalAmountClean ==
  ASSUME NEW r, NEW p, NEW pol, Clean(ProposalAmountChecks(r, p, pol))
  PROVE  /\ ~(r.plan[1].legs # << >> /\ p.in # Head(r.plan[1].legs).in)
         /\ ~(p.minReceive < pol.minReceive)
<1>1. PICK s : s = ProposalAmountChecks(r, p, pol)
  OBVIOUS
<1>2. DOMAIN s = 1..8
  BY <1>1 DEF ProposalAmountChecks
<1>3. ~(r.plan[1].legs # << >> /\ p.in # Head(r.plan[1].legs).in)
  <2>1. ~s[1].bad
    BY <1>1, <1>2 DEF Clean
  <2> QED
    BY <1>1, <2>1, CheckIs DEF ProposalAmountChecks
<1>4. ~(p.minReceive < pol.minReceive)
  <2>1. ~s[6].bad
    BY <1>1, <1>2 DEF Clean
  <2> QED
    BY <1>1, <2>1, CheckIs DEF ProposalAmountChecks
<1> QED
  BY <1>3, <1>4

\* A failed check of ProposalCallChecks is a refusal.
LEMMA ProposalCallRefuse ==
  ASSUME NEW r, NEW p, NEW pol PROVE Refuses(ProposalCallChecks(r, p, pol), "none")
<1>1. PICK s : s = ProposalCallChecks(r, p, pol)
  OBVIOUS
<1>2. s \in Seq({s[1], s[2], s[3], s[4], s[5], s[6], s[7]})
  BY <1>1 DEF ProposalCallChecks
<1>3. IsSeq(s)
  BY <1>2, IsSeqOf
<1>4. DOMAIN s = 1..7
  BY <1>1 DEF ProposalCallChecks
<1>5. s[1].bad => s[1].verdict # "none"
  BY <1>1, CheckIs DEF ProposalCallChecks
<1>6. s[2].bad => s[2].verdict # "none"
  BY <1>1, CheckIs DEF ProposalCallChecks
<1>7. s[3].bad => s[3].verdict # "none"
  BY <1>1, CheckIs DEF ProposalCallChecks
<1>8. s[4].bad => s[4].verdict # "none"
  BY <1>1, CheckIs DEF ProposalCallChecks
<1>9. s[5].bad => s[5].verdict # "none"
  BY <1>1, CheckIs DEF ProposalCallChecks
<1>10. s[6].bad => s[6].verdict # "none"
  BY <1>1, CheckIs DEF ProposalCallChecks
<1>11. s[7].bad => s[7].verdict # "none"
  BY <1>1, CheckIs DEF ProposalCallChecks
<1> QED
  BY <1>1, <1>3, <1>4, <1>5, <1>6, <1>7, <1>8, <1>9, <1>10, <1>11 DEF Refuses

\* A failed check of TaxChecks is a refusal.
LEMMA TaxRefuse ==
  ASSUME NEW r PROVE Refuses(TaxChecks(r), Valid)
<1>1. PICK s : s = TaxChecks(r)
  OBVIOUS
<1>2. s \in Seq({s[1], s[2], s[3]})
  BY <1>1 DEF TaxChecks
<1>3. IsSeq(s)
  BY <1>2, IsSeqOf
<1>4. DOMAIN s = 1..3
  BY <1>1 DEF TaxChecks
<1>5. s[1].bad => s[1].verdict # Valid
  BY <1>1, CheckIs, NotValid, VerdictsRefuse DEF TaxChecks
<1>6. s[2].bad => s[2].verdict # Valid
  BY <1>1, CheckIs, NotValid, VerdictsRefuse DEF TaxChecks
<1>7. s[3].bad => s[3].verdict # Valid
  BY <1>1, CheckIs, NotValid, VerdictsRefuse DEF TaxChecks
<1> QED
  BY <1>1, <1>3, <1>4, <1>5, <1>6, <1>7 DEF Refuses

\* What TaxChecks says when no check fails.
LEMMA TaxClean ==
  ASSUME NEW r, Clean(TaxChecks(r))
  PROVE  /\ TaxSafetyError(r.intent, r.tax, r.now, r.policy) = "none"
<1>1. PICK s : s = TaxChecks(r)
  OBVIOUS
<1>2. DOMAIN s = 1..3
  BY <1>1 DEF TaxChecks
<1>3. TaxSafetyError(r.intent, r.tax, r.now, r.policy) = "none"
  <2>1. ~s[2].bad
    BY <1>1, <1>2 DEF Clean
  <2> QED
    BY <1>1, <2>1, CheckIs DEF TaxChecks
<1> QED
  BY <1>3

\* A failed check of PlanChecks is a refusal.
LEMMA PlanRefuse ==
  ASSUME NEW r, NEW req PROVE Refuses(PlanChecks(r, req), Valid)
<1>1. PICK s : s = PlanChecks(r, req)
  OBVIOUS
<1>2. s \in Seq({s[1], s[2]})
  BY <1>1 DEF PlanChecks
<1>3. IsSeq(s)
  BY <1>2, IsSeqOf
<1>4. DOMAIN s = 1..2
  BY <1>1 DEF PlanChecks
<1>5. s[1].bad => s[1].verdict # Valid
  BY <1>1, CheckIs, NotValid DEF PlanChecks
<1>6. s[2].bad => s[2].verdict # Valid
  BY <1>1, CheckIs, NotValid DEF PlanChecks
<1> QED
  BY <1>1, <1>3, <1>4, <1>5, <1>6 DEF Refuses

\* What PlanChecks says when no check fails.
LEMMA PlanClean ==
  ASSUME NEW r, NEW req, Clean(PlanChecks(r, req))
  PROVE  /\ SplitRouteBinding(r.plan) = r.approved
<1>1. PICK s : s = PlanChecks(r, req)
  OBVIOUS
<1>2. DOMAIN s = 1..2
  BY <1>1 DEF PlanChecks
<1>3. SplitRouteBinding(r.plan) = r.approved
  <2>1. ~s[2].bad
    BY <1>1, <1>2 DEF Clean
  <2> QED
    BY <1>1, <2>1, CheckIs DEF PlanChecks
<1> QED
  BY <1>3

\* A failed check of RestoreChecks is a refusal.
LEMMA RestoreRefuse ==
  ASSUME NEW x PROVE Refuses(RestoreChecks(x), "none")
<1>1. PICK s : s = RestoreChecks(x)
  OBVIOUS
<1>2. s \in Seq({s[1], s[2]})
  BY <1>1 DEF RestoreChecks
<1>3. IsSeq(s)
  BY <1>2, IsSeqOf
<1>4. DOMAIN s = 1..2
  BY <1>1 DEF RestoreChecks
<1>5. s[1].bad => s[1].verdict # "none"
  BY <1>1, CheckIs DEF RestoreChecks
<1>6. s[2].bad => s[2].verdict # "none"
  BY <1>1, CheckIs DEF RestoreChecks
<1> QED
  BY <1>1, <1>3, <1>4, <1>5, <1>6 DEF Refuses

\* What RestoreChecks says when no check fails.
LEMMA RestoreClean ==
  ASSUME NEW x, Clean(RestoreChecks(x))
  PROVE  /\ x.payload.bytes = x.payloadDigest
<1>1. PICK s : s = RestoreChecks(x)
  OBVIOUS
<1>2. DOMAIN s = 1..2
  BY <1>1 DEF RestoreChecks
<1>3. x.payload.bytes = x.payloadDigest
  <2>1. ~s[2].bad
    BY <1>1, <1>2 DEF Clean
  <2> QED
    BY <1>1, <2>1, CheckIs DEF RestoreChecks
<1> QED
  BY <1>3

(***************************************************************************)
(* The branches' deltas together.                                          *)
(***************************************************************************)
\* A function over 1..n is a sequence.
LEMMA SeqFn ==
  ASSUME NEW n \in Nat, NEW s, s = [k \in 1..n |-> s[k]]
  PROVE  IsSeq(s) /\ Len(s) = n /\ DOMAIN s = 1..n
<1>1. s \in [1..n -> {s[k] : k \in 1..n}] /\ DOMAIN s = 1..n
  OBVIOUS
<1>2. s \in Seq({s[k] : k \in 1..n})
  BY <1>1
<1> QED
  BY <1>1, <1>2 DEF IsSeq

\* A list of one check.
LEMMA One ==
  ASSUME NEW c, NEW v
  PROVE  /\ (c.bad => c.verdict # v) => Refuses(<<c>>, v)
         /\ Clean(<<c>>) => ~c.bad
<1>1. PICK s : s = <<c>>
  OBVIOUS
<1>2. s \in Seq({c}) /\ DOMAIN s = 1..1 /\ s[1] = c
  BY <1>1
<1>3. IsSeq(s)
  BY <1>2, IsSeqOf
<1>4. (c.bad => c.verdict # v) => Refuses(s, v)
  BY <1>2, <1>3 DEF Refuses
<1>5. Clean(s) => ~c.bad
  BY <1>2 DEF Clean
<1> QED
  BY <1>1, <1>4, <1>5

\* Two lists, one after the other.
LEMMA Both ==
  ASSUME NEW a, NEW b, NEW v, Refuses(a, v), Refuses(b, v)
  PROVE  Refuses(a \o b, v) /\ (Clean(a \o b) => Clean(a) /\ Clean(b))
<1>1. IsSeq(a) /\ IsSeq(b)
  BY DEF Refuses
<1> QED
  BY <1>1, RefusesConcat, CleanConcat

\* What aggregate_net_delta returned, if it did.
LEMMA AggregateIs ==
  ASSUME NEW ds, AggregateDelta(ds) # NoDelta
  PROVE  LET d == AggregateDelta(ds) IN
         /\ d.tokens = ds[1].tokens
         /\ d.in = Total([b \in DOMAIN ds |-> ds[b].in])
         /\ d.net = Total([b \in DOMAIN ds |-> ds[b].net])
         /\ \A b \in DOMAIN ds : DeltaValid(ds[b]) /\ ds[b].tokens = ds[1].tokens
         /\ ds # << >>
<1>1. PICK d : d = AggregateDelta(ds)
  OBVIOUS
<1>2. d.tokens = ds[1].tokens
  BY <1>1 DEF AggregateDelta
<1>3. d.in = Total([b \in DOMAIN ds |-> ds[b].in])
  BY <1>1 DEF AggregateDelta, Sum
<1>4. d.net = Total([b \in DOMAIN ds |-> ds[b].net])
  BY <1>1 DEF AggregateDelta, Sum
<1>5. \A b \in DOMAIN ds : DeltaValid(ds[b]) /\ ds[b].tokens = ds[1].tokens
  BY <1>1 DEF AggregateDelta
<1>6. ds # << >>
  BY <1>1 DEF AggregateDelta
<1> QED
  BY <1>1, <1>2, <1>3, <1>4, <1>5, <1>6

\* What a delta nets, when its tax is the tax charged now.
LEMMA NetIs ==
  ASSUME NEW i, NEW x, NEW tax, IsDelta(x), DeltaValid(x), TaxMatches(i, x, tax),
         x.tokens = i.tokens, tax.buyTax \in Nat, tax.sellTax \in Nat
  PROVE  /\ x.gross \in Int /\ x.net \in Int
         /\ (IF i.side = "Buy" THEN (x.gross * tax.buyTax) \div BpsOne ELSE 0) \in Int
         /\ x.net = x.gross - (IF i.side = "Buy" THEN (x.gross * tax.buyTax) \div BpsOne ELSE 0)
<1>1. x.gross \in Nat /\ x.net \in Nat /\ x.in \in Nat /\ x.tax \in Nat
  BY KernelAssumption DEF IsDelta, Amounts
<1>2. i.tokens[1] # i.tokens[2]
  BY DEF DeltaValid
<1>3. \/ x.tax = 0 /\ x.net = x.gross
      \/ x.tax > 0 /\ x.taxAsset = i.tokens[2] /\ x.net + x.tax = x.gross
      \/ x.tax > 0 /\ x.taxAsset = i.tokens[1] /\ x.net = x.gross
  BY DEF DeltaValid
<1>4. CASE i.side = "Buy"
  <2>1. PICK t : t = FloorBps(x.gross, tax.buyTax)
    OBVIOUS
  <2>2. t = (x.gross * tax.buyTax) \div BpsOne /\ t \in Nat
    BY <1>1, <2>1, FloorBpsIs
  <2>3. x.tax = t /\ (t > 0 => x.taxAsset = i.tokens[2])
    BY <1>4, <2>1 DEF TaxMatches, AssessedAsset
  <2>4. x.net = x.gross - t
    BY <1>1, <1>2, <1>3, <2>2, <2>3
  <2> QED
    BY <1>1, <1>4, <2>2, <2>4
<1>5. CASE i.side # "Buy"
  <2>1. PICK t : t = FloorBps(x.in, tax.sellTax)
    OBVIOUS
  <2>2. x.tax = t /\ (t > 0 => x.taxAsset = i.tokens[1])
    BY <1>5, <2>1 DEF TaxMatches, AssessedAsset
  <2>3. x.net = x.gross
    BY <1>1, <1>2, <1>3, <2>2
  <2> QED
    BY <1>1, <1>5, <2>3
<1> QED
  BY <1>4, <1>5

\* All branches together net what they gross less the tax charged now.
LEMMA NetsAddUp ==
  ASSUME NEW i, NEW ds, NEW tax, IsSeq(ds), \A b \in DOMAIN ds : IsDelta(ds[b]),
         \A b \in DOMAIN ds : DeltaValid(ds[b]) /\ ds[b].tokens = i.tokens,
         ~TaxMismatch(i, ds, tax), tax.buyTax \in Nat, tax.sellTax \in Nat
  PROVE  Total([b \in DOMAIN ds |-> ds[b].net])
           = Total([b \in DOMAIN ds |-> ds[b].gross])
             - Total([b \in DOMAIN ds |->
                        IF i.side = "Buy" THEN (ds[b].gross * tax.buyTax) \div BpsOne ELSE 0])
<1>1. PICK n : n = Len(ds)
  OBVIOUS
<1>2. n \in Nat /\ DOMAIN ds = 1..n
  BY <1>1, SeqDomain
<1>3. PICK s, t, u : /\ s = [b \in DOMAIN ds |-> ds[b].gross]
                     /\ t = [b \in DOMAIN ds |-> IF i.side = "Buy" THEN (ds[b].gross * tax.buyTax) \div BpsOne
                                                                   ELSE 0]
                     /\ u = [b \in DOMAIN ds |-> ds[b].net]
  OBVIOUS
<1>4. s = [b \in 1..n |-> s[b]] /\ t = [b \in 1..n |-> t[b]] /\ u = [b \in 1..n |-> u[b]]
  BY <1>2, <1>3
<1>5. Len(s) = n /\ Len(t) = n /\ Len(u) = n
  BY <1>2, <1>4, SeqFn
<1>6. ASSUME NEW b \in 1..n PROVE s[b] \in Int /\ t[b] \in Int /\ u[b] = s[b] - t[b]
  <2>1. PICK x : x = ds[b]
    OBVIOUS
  <2>2. b \in DOMAIN ds
    BY <1>2
  <2>3. IsDelta(x) /\ DeltaValid(x) /\ x.tokens = i.tokens /\ TaxMatches(i, x, tax)
    BY <2>1, <2>2 DEF TaxMismatch
  <2>4. s[b] = x.gross /\ u[b] = x.net
    BY <1>3, <2>1, <2>2
  <2>5. t[b] = IF i.side = "Buy" THEN (x.gross * tax.buyTax) \div BpsOne ELSE 0
    BY <1>3, <2>1, <2>2
  <2> QED
    BY <2>3, <2>4, <2>5, NetIs
<1>7. Total(u) = Total(s) - Total(t)
  BY <1>2, <1>5, <1>6, TotalLess
<1> QED
  BY <1>3, <1>7

(***************************************************************************)
(* What a gate that answers Valid has checked.                             *)
(***************************************************************************)
\* A state that is not fresh is refused.
LEMMA FreshRefuse ==
  ASSUME NEW r, NEW state
  PROVE  FreshCheck(r, state).bad => FreshCheck(r, state).verdict # Valid
<1>1. PICK f, v : f = ClassifyFreshness(r.policy, state, r.now) /\ v = FreshnessVerdict(f)
  OBVIOUS
<1>2. f # "Fresh" => v # Valid
  BY <1>1, VerdictsRefuse
<1>3. PICK c : c = Check(f # "Fresh", v)
  OBVIOUS
<1>4. FreshCheck(r, state) = c
  BY <1>1, <1>3 DEF FreshCheck
<1>5. c.bad = (f # "Fresh") /\ c.verdict = v
  BY <1>3, CheckIs
<1> QED
  BY <1>2, <1>4, <1>5

\* The checks of the market, balance, allowance and tax states refuse Valid.
LEMMA StateRefuse ==
  ASSUME NEW r, IsSeq(r.allowances)
  PROVE  /\ Refuses(StateChecks(r), Valid)
         /\ Clean(StateChecks(r)) => ~(r.tax.buyTax > r.intent.buyCap) /\ ~(r.tax.sellTax > r.intent.sellCap)
<1>1. PICK a, b, c : /\ a = <<FreshCheck(r, r.state), FreshCheck(r, r.balance.state)>>
                     /\ b = AllowanceFreshness(r) /\ c = TaxChecks(r)
  OBVIOUS
<1>2. StateChecks(r) = (a \o b) \o c
  BY <1>1 DEF StateChecks
<1>3. Refuses(a, Valid)
  <2>1. PICK e, f : e = FreshCheck(r, r.state) /\ f = FreshCheck(r, r.balance.state)
    OBVIOUS
  <2>2. a = <<e, f>>
    BY <1>1, <2>1
  <2>3. (e.bad => e.verdict # Valid) /\ (f.bad => f.verdict # Valid)
    BY <2>1, FreshRefuse
  <2>4. a \in Seq({e, f}) /\ DOMAIN a = 1..2 /\ a[1] = e /\ a[2] = f
    BY <2>2
  <2>5. IsSeq(a)
    BY <2>4, IsSeqOf
  <2> QED
    BY <2>3, <2>4, <2>5 DEF Refuses
<1>4. Refuses(b, Valid)
  <2>1. PICK n : n = Len(r.allowances)
    OBVIOUS
  <2>2. n \in Nat /\ DOMAIN r.allowances = 1..n
    BY <2>1, SeqDomain
  <2>3. b = [k \in 1..n |-> b[k]]
    BY <1>1, <2>2 DEF AllowanceFreshness
  <2>4. IsSeq(b) /\ DOMAIN b = 1..n
    BY <2>2, <2>3, SeqFn
  <2>5. ASSUME NEW k \in 1..n PROVE b[k].bad => b[k].verdict # Valid
    <3>1. b[k] = IF r.allowances[k].required THEN FreshCheck(r, r.allowances[k].state)
                                             ELSE Check(FALSE, Valid)
      BY <1>1, <2>2 DEF AllowanceFreshness
    <3>2. CASE r.allowances[k].required
      <4>1. b[k] = FreshCheck(r, r.allowances[k].state)
        BY <3>1, <3>2
      <4> QED
        BY <4>1, FreshRefuse
    <3>3. CASE ~r.allowances[k].required
      <4>1. b[k] = Check(FALSE, Valid)
        BY <3>1, <3>3
      <4>2. b[k].bad = FALSE
        BY <4>1, CheckIs
      <4> QED
        BY <4>2
    <3> QED
      BY <3>2, <3>3
  <2> QED
    BY <2>4, <2>5 DEF Refuses
<1>5. Refuses(c, Valid)
  BY <1>1, TaxRefuse
<1>6. Refuses(a \o b, Valid)
  BY <1>3, <1>4, Both
<1>7. Refuses((a \o b) \o c, Valid) /\ (Clean((a \o b) \o c) => Clean(c))
  BY <1>5, <1>6, Both
<1>8. ASSUME Clean(c) PROVE ~(r.tax.buyTax > r.intent.buyCap) /\ ~(r.tax.sellTax > r.intent.sellCap)
  <2>1. TaxSafetyError(r.intent, r.tax, r.now, r.policy) = "none"
    BY <1>1, <1>8, TaxClean
  <2>2. PICK l : l = TaxSafetyChecks(r.intent, r.tax, r.now, r.policy)
    OBVIOUS
  <2>3. Refuses(l, "none") /\ FirstFailure(l, "none") = "none"
    BY <2>1, <2>2, TaxSafetyRefuse DEF TaxSafetyError
  <2>4. Clean(l)
    BY <2>3, Passed
  <2> QED
    BY <2>2, <2>4, TaxSafetyClean
<1> QED
  BY <1>2, <1>7, <1>8

(***************************************************************************)
(* What has been held against a request that the gate lets through.        *)
(***************************************************************************)
\* An authorised request of delta d.
Authorised(r) ==
  /\ r.enabled /\ r.approval.bound
  /\ ~(r.approval.expires # 0 /\ r.approval.expires <= r.now)

\* The token's taxes are within the intent's caps.
WithinCaps(r) == ~(r.tax.buyTax > r.intent.buyCap) /\ ~(r.tax.sellTax > r.intent.sellCap)

\* What is received meets min_out, and min_out the slippage floor.
AboveFloor(r, d) ==
  /\ ~(d.net < r.minOut.amount)
  /\ ~(r.minOut.amount * BpsOne <
         r.expected * (IF r.intent.slippage > BpsOne THEN 0 ELSE BpsOne - r.intent.slippage))

\* The delta is of the intent's tokens and satisfies its limit.
Priced(r, d) ==
  /\ ~TaxMismatch(r.intent, r.deltas, r.tax)
  /\ DeltaValid(d) /\ d.tokens = r.intent.tokens /\ LimitError(r.intent, d) = "none"

\* What both gates have checked when they answer Valid.
Cleared(r, d) == Authorised(r) /\ WithinCaps(r) /\ ~(r.balance.amount < d.in) /\ AboveFloor(r, d) /\ Priced(r, d)

\* What revalidate_pre_sign has checked.
ClearedSingle(r, d) ==
  /\ Cleared(r, d)
  /\ RouteBinding(r.plan[1]) = r.approved[1].legs
  /\ ~(r.allowances[1].required /\ r.allowances[1].spender # ExpectedSpender(r))
  /\ ~(r.allowances[1].required /\ r.allowances[1].amount < d.in)
  /\ ~Overdrawn(r.plan[1].legs, d.in)
  /\ PreviewError(r, d) = "none"

\* What revalidate_split_pre_sign has checked.
ClearedSplit(r, d, required) ==
  /\ Cleared(r, d)
  /\ SplitRouteBinding(r.plan) = r.approved
  /\ d # NoDelta
  /\ \A a \in DOMAIN r.allowances : r.allowances[a].required /\ ~SeenBefore(r, a)
  /\ \A b \in DOMAIN r.approved :
        LET s == SpenderOf(r.approved[b].legs, r.intent.chain)
        IN  ObservationsOf(r, s) # {} /\ ~(FirstObservation(r, s).amount < required[s])
  /\ Total([k \in DOMAIN r.plan |-> r.plan[k].amount]) = d.in
  /\ ~PoolReused(r.plan)
  /\ SplitPreviewError(r, d) = "none"

\* The assessed tax is the one in the delta.
LEMMA AssessedDelta ==
  ASSUME NEW r, NEW d, AssessmentError(r.intent, r.deltas, r.tax) = "none",
         BuildPreviewError(r.intent, d) = "none"
  PROVE  ~TaxMismatch(r.intent, r.deltas, r.tax) /\ DeltaValid(d) /\ d.tokens = r.intent.tokens
<1>1. PICK a, b : a = AssessmentChecks(r.intent, r.deltas, r.tax) /\ b = BuildPreviewChecks(r.intent, d)
  OBVIOUS
<1>2. FirstFailure(a, "none") = "none" /\ FirstFailure(b, "none") = "none"
  BY <1>1 DEF AssessmentError, BuildPreviewError
<1>3. Refuses(a, "none") /\ Refuses(b, "none")
  BY <1>1, AssessmentRefuse, BuildPreviewRefuse
<1>4. Clean(a) /\ Clean(b)
  BY <1>2, <1>3, Passed
<1> QED
  BY <1>1, <1>4, AssessmentClean, BuildPreviewClean

\* A single preview that was accepted is priced.
LEMMA PreviewPassed ==
  ASSUME NEW r, NEW d, PreviewError(r, d) = "none"
  PROVE  ~Overdrawn(r.plan[1].legs, d.in) /\ LimitError(r.intent, d) = "none"
<1>1. PICK a, b : a = PreviewChecks(r, d) /\ b = CommonPreviewChecks(r, d)
  OBVIOUS
<1>2. FirstFailure(a \o b, "none") = "none"
  BY <1>1 DEF PreviewError
<1>3. Refuses(a, "none") /\ Refuses(b, "none")
  BY <1>1, PreviewRefuse, CommonRefuse
<1>4. Refuses(a \o b, "none") /\ (Clean(a \o b) => Clean(a) /\ Clean(b))
  BY <1>3, Both
<1>5. Clean(a) /\ Clean(b)
  BY <1>2, <1>4, Passed
<1> QED
  BY <1>1, <1>5, PreviewClean, CommonClean

\* A split preview that was accepted is priced.
LEMMA SplitPreviewPassed ==
  ASSUME NEW r, NEW d, SplitPreviewError(r, d) = "none"
  PROVE  /\ LimitError(r.intent, d) = "none"
         /\ Total([k \in DOMAIN r.plan |-> r.plan[k].amount]) = d.in
         /\ ~PoolReused(r.plan)
<1>1. PICK a, b, c : /\ a = SplitPreviewChecks(r, d) /\ b = CommonPreviewChecks(r, d)
                     /\ c = SplitPlanChecks(r.intent, r)
  OBVIOUS
<1>2. FirstFailure(a \o b, "none") = "none"
  BY <1>1 DEF SplitPreviewError
<1>3. Refuses(a, "none") /\ Refuses(b, "none") /\ Refuses(c, "none")
  BY <1>1, SplitPreviewRefuse, CommonRefuse, SplitPlanRefuse
<1>4. Refuses(a \o b, "none") /\ (Clean(a \o b) => Clean(a) /\ Clean(b))
  BY <1>3, Both
<1>5. Clean(a) /\ Clean(b)
  BY <1>2, <1>4, Passed
<1>6. SplitPlanError(r.intent, r) = "none" /\ Total([k \in DOMAIN r.plan |-> r.plan[k].amount]) = d.in
  BY <1>1, <1>5, SplitPreviewClean
<1>7. FirstFailure(c, "none") = "none"
  BY <1>1, <1>6 DEF SplitPlanError
<1>8. Clean(c)
  BY <1>3, <1>7, Passed
<1> QED
  BY <1>1, <1>5, <1>6, <1>8, CommonClean, SplitPlanClean

\* revalidate_pre_sign.
LEMMA SinglePasses ==
  ASSUME NEW r, IsSeq(r.allowances), RevalidatePreSign(r) = Valid
  PROVE  ClearedSingle(r, r.deltas[1])
<1>1. PICK d : d = r.deltas[1]
  OBVIOUS
<1>2. PICK a1, a2, a3, a4, a5, a6, a7 :
        /\ a1 = AuthorityChecks(r) /\ a2 = RouterChecks(r, {ExpectedSpender(r)})
        /\ a3 = <<Check(RouteBinding(r.plan[1]) # r.approved[1].legs, Requote("SelectedRouteMismatch"))>>
        /\ a4 = StateChecks(r) /\ a5 = BalanceChecks(r, d)
        /\ a6 = AllowanceChecks(r, d, r.allowances[1]) /\ a7 = FloorChecks(r, d)
  OBVIOUS
<1>3. PICK o : o = ValidateDeltaPreview(r, r.tax)
  OBVIOUS
<1>4. FirstFailure(a1 \o a2 \o a3 \o a4 \o a5 \o a6 \o a7, MapBridgeError(o)) = Valid
  BY <1>1, <1>2, <1>3 DEF RevalidatePreSign
<1>5. Refuses(a1, Valid) /\ Refuses(a2, Valid) /\ Refuses(a4, Valid) /\ Refuses(a5, Valid)
        /\ Refuses(a6, Valid) /\ Refuses(a7, Valid)
  BY <1>2, AuthorityRefuse, RouterRefuse, StateRefuse, BalanceRefuse, AllowanceRefuse, FloorRefuse
<1>6. Refuses(a3, Valid) /\ (Clean(a3) => RouteBinding(r.plan[1]) = r.approved[1].legs)
  <2>1. PICK c : c = Check(RouteBinding(r.plan[1]) # r.approved[1].legs, Requote("SelectedRouteMismatch"))
    OBVIOUS
  <2>2. c.verdict # Valid /\ (~c.bad => RouteBinding(r.plan[1]) = r.approved[1].legs)
    <3>1. PICK x, y : x = RouteBinding(r.plan[1]) /\ y = r.approved[1].legs
      OBVIOUS
    <3>2. c = Check(x # y, Requote("SelectedRouteMismatch"))
      BY <2>1, <3>1
    <3>3. c.verdict = Requote("SelectedRouteMismatch") /\ (c.bad = (x # y))
      BY <3>2, CheckIs
    <3> QED
      BY <3>1, <3>3, NotValid
  <2>3. a3 = <<c>>
    BY <1>2, <2>1
  <2> QED
    BY <2>2, <2>3, One
<1>7. PICK s2, s3, s4, s5, s6, s7 :
        /\ s2 = a1 \o a2 /\ s3 = s2 \o a3 /\ s4 = s3 \o a4 /\ s5 = s4 \o a5 /\ s6 = s5 \o a6 /\ s7 = s6 \o a7
  OBVIOUS
<1>8. Refuses(s2, Valid) /\ (Clean(s2) => Clean(a1))
  BY <1>5, <1>7, Both
<1>9. Refuses(s3, Valid) /\ (Clean(s3) => Clean(s2) /\ Clean(a3))
  BY <1>6, <1>7, <1>8, Both
<1>10. Refuses(s4, Valid) /\ (Clean(s4) => Clean(s3) /\ Clean(a4))
  BY <1>5, <1>7, <1>9, Both
<1>11. Refuses(s5, Valid) /\ (Clean(s5) => Clean(s4) /\ Clean(a5))
  BY <1>5, <1>7, <1>10, Both
<1>12. Refuses(s6, Valid) /\ (Clean(s6) => Clean(s5) /\ Clean(a6))
  BY <1>5, <1>7, <1>11, Both
<1>13. Refuses(s7, Valid) /\ (Clean(s7) => Clean(s6) /\ Clean(a7))
  BY <1>5, <1>7, <1>12, Both
<1>14. FirstFailure(s7, MapBridgeError(o)) = Valid
  BY <1>4, <1>7
<1>15. Clean(s7) /\ MapBridgeError(o) = Valid
  BY <1>13, <1>14, Passed
<1>16. Clean(a1) /\ Clean(a3) /\ Clean(a4) /\ Clean(a5) /\ Clean(a6) /\ Clean(a7)
  BY <1>8, <1>9, <1>10, <1>11, <1>12, <1>13, <1>15
<1>17. o = "none"
  BY <1>15, VerdictsRefuse
<1>18. PICK l : l = DeltaPreviewChecks(r, d, r.tax)
  OBVIOUS
<1>19. FirstFailure(l, PreviewError(r, d)) = "none"
  BY <1>1, <1>3, <1>17, <1>18 DEF ValidateDeltaPreview
<1>20. Clean(l) /\ PreviewError(r, d) = "none"
  BY <1>18, <1>19, DeltaPreviewRefuse, Passed
<1>21. AssessmentError(r.intent, r.deltas, r.tax) = "none" /\ BuildPreviewError(r.intent, d) = "none"
  BY <1>18, <1>20, DeltaPreviewClean
<1>22. ~Overdrawn(r.plan[1].legs, d.in) /\ LimitError(r.intent, d) = "none"
  BY <1>20, PreviewPassed
<1>23. Priced(r, d)
  BY <1>21, <1>22, AssessedDelta DEF Priced
<1>24. Authorised(r)
  BY <1>2, <1>16, AuthorityClean DEF Authorised
<1>25. WithinCaps(r)
  BY <1>2, <1>16, StateRefuse DEF WithinCaps
<1>26. AboveFloor(r, d)
  BY <1>2, <1>16, FloorClean DEF AboveFloor
<1>27. ~(r.balance.amount < d.in)
  BY <1>2, <1>16, BalanceClean
<1>28. /\ ~(r.allowances[1].required /\ r.allowances[1].spender # ExpectedSpender(r))
       /\ ~(r.allowances[1].required /\ r.allowances[1].amount < d.in)
  BY <1>2, <1>16, AllowanceClean
<1>29. Cleared(r, d)
  BY <1>23, <1>24, <1>25, <1>26, <1>27 DEF Cleared
<1>30. RouteBinding(r.plan[1]) = r.approved[1].legs
  BY <1>6, <1>16
<1> QED
  BY <1>1, <1>20, <1>22, <1>28, <1>29, <1>30 DEF ClearedSingle

\* revalidate_split_pre_sign.
LEMMA SplitPasses ==
  ASSUME NEW r, IsSeq(r.allowances), IsSeq(r.approved), RevalidateSplitPreSign(r) = Valid
  PROVE  ClearedSplit(r, AggregateDelta(r.deltas), RequiredSplitSpenders(r.approved, r.intent.chain))
<1>1. PICK d, required : /\ d = AggregateDelta(r.deltas)
                         /\ required = RequiredSplitSpenders(r.approved, r.intent.chain)
  OBVIOUS
<1>2. PICK f, g : /\ f = [a \in DOMAIN r.allowances |-> ObservationChecks(r, required, a)]
                  /\ g = [b \in DOMAIN r.approved |->
                            SpenderChecks(r, required, d, SpenderOf(r.approved[b].legs, r.intent.chain))]
  OBVIOUS
<1>3. PICK c2, c4, c8 :
        /\ c2 = Check(Uncountable(required), Final("AmountPolicyViolation"))
        /\ c4 = Check(DOMAIN required = {} /\ r.allowances # << >>, Final("AllowanceSpenderMismatch"))
        /\ c8 = Check(d = NoDelta, Final("NetDeltaInconsistent"))
  OBVIOUS
<1>4. PICK a1, a2, a3, a4, a5, a6, a7, a8, a9, a10, a11 :
        /\ a1 = AuthorityChecks(r) /\ a2 = <<c2>> /\ a3 = RouterChecks(r, DOMAIN required)
        /\ a4 = <<c4>> /\ a5 = FlattenSeq(f) /\ a6 = PlanChecks(r, required) /\ a7 = StateChecks(r)
        /\ a8 = <<c8>> /\ a9 = BalanceChecks(r, d) /\ a10 = FlattenSeq(g) /\ a11 = FloorChecks(r, d)
  OBVIOUS
<1>5. PICK o : o = ValidateSplitDeltaPreview(r, r.tax)
  OBVIOUS
<1>6. FirstFailure(a1 \o a2 \o a3 \o a4 \o a5 \o a6 \o a7 \o a8 \o a9 \o a10 \o a11, MapBridgeError(o)) = Valid
  BY <1>1, <1>2, <1>3, <1>4, <1>5 DEF RevalidateSplitPreSign
<1>7. Refuses(a1, Valid) /\ Refuses(a3, Valid) /\ Refuses(a6, Valid) /\ Refuses(a7, Valid)
        /\ Refuses(a9, Valid) /\ Refuses(a11, Valid)
  BY <1>4, AuthorityRefuse, RouterRefuse, PlanRefuse, StateRefuse, BalanceRefuse, FloorRefuse
<1>8. Refuses(a2, Valid) /\ Refuses(a4, Valid) /\ Refuses(a8, Valid) /\ (Clean(a8) => d # NoDelta)
  <2>1. c2.verdict # Valid /\ c4.verdict # Valid /\ c8.verdict # Valid
    BY <1>3, CheckIs, NotValid
  <2>2. c8.bad = (d = NoDelta)
    BY <1>3, CheckIs
  <2>3. Refuses(a2, Valid) /\ Refuses(a4, Valid) /\ Refuses(a8, Valid)
    BY <1>4, <2>1, One
  <2>4. Clean(a8) => ~c8.bad
    BY <1>4, One
  <2> QED
    BY <2>2, <2>3, <2>4
<1>9. /\ Refuses(a5, Valid)
      /\ Clean(a5) => \A a \in DOMAIN r.allowances : r.allowances[a].required /\ ~SeenBefore(r, a)
  <2>1. PICK n : n = Len(r.allowances)
    OBVIOUS
  <2>2. n \in Nat /\ DOMAIN r.allowances = 1..n
    BY <2>1, SeqDomain
  <2>3. f = [k \in 1..n |-> f[k]]
    BY <1>2, <2>2
  <2>4. IsSeq(f) /\ DOMAIN f = 1..n
    BY <2>2, <2>3, SeqFn
  <2>5. \A k \in DOMAIN f : f[k] = ObservationChecks(r, required, k)
    BY <1>2, <2>2, <2>4
  <2>6. \A k \in DOMAIN f : Refuses(f[k], Valid)
    BY <2>5, ObservationRefuse
  <2>7. Refuses(a5, Valid) /\ (Clean(a5) => \A k \in DOMAIN f : Clean(f[k]))
    BY <1>4, <2>4, <2>6, FlattenChecks
  <2>8. ASSUME NEW k \in DOMAIN f, Clean(f[k]) PROVE r.allowances[k].required /\ ~SeenBefore(r, k)
    BY <2>5, <2>8, ObservationClean
  <2> QED
    BY <2>2, <2>4, <2>7, <2>8
<1>10. /\ Refuses(a10, Valid)
       /\ Clean(a10) => \A b \in DOMAIN r.approved :
                           LET s == SpenderOf(r.approved[b].legs, r.intent.chain)
                           IN  ObservationsOf(r, s) # {} /\ ~(FirstObservation(r, s).amount < required[s])
  <2>1. PICK n : n = Len(r.approved)
    OBVIOUS
  <2>2. n \in Nat /\ DOMAIN r.approved = 1..n
    BY <2>1, SeqDomain
  <2>3. g = [k \in 1..n |-> g[k]]
    BY <1>2, <2>2
  <2>4. IsSeq(g) /\ DOMAIN g = 1..n
    BY <2>2, <2>3, SeqFn
  <2>5. \A k \in DOMAIN g :
           g[k] = SpenderChecks(r, required, d, SpenderOf(r.approved[k].legs, r.intent.chain))
    BY <1>2, <2>2, <2>4
  <2>6. \A k \in DOMAIN g : Refuses(g[k], Valid)
    BY <2>5, SpenderRefuse
  <2>7. Refuses(a10, Valid) /\ (Clean(a10) => \A k \in DOMAIN g : Clean(g[k]))
    BY <1>4, <2>4, <2>6, FlattenChecks
  <2>8. ASSUME NEW k \in DOMAIN g, Clean(g[k])
        PROVE  LET s == SpenderOf(r.approved[k].legs, r.intent.chain)
               IN  ObservationsOf(r, s) # {} /\ ~(FirstObservation(r, s).amount < required[s])
    <3>1. PICK s : s = SpenderOf(r.approved[k].legs, r.intent.chain)
      OBVIOUS
    <3>2. Clean(SpenderChecks(r, required, d, s))
      BY <2>5, <2>8, <3>1
    <3>3. ObservationsOf(r, s) # {} /\ ~(FirstObservation(r, s).amount < required[s])
      BY <3>2, SpenderClean
    <3> QED
      BY <3>1, <3>3
  <2> QED
    BY <2>2, <2>4, <2>7, <2>8
<1>11. PICK s2, s3, s4, s5, s6, s7, s8, s9, s10, s11 :
         /\ s2 = a1 \o a2 /\ s3 = s2 \o a3 /\ s4 = s3 \o a4 /\ s5 = s4 \o a5 /\ s6 = s5 \o a6
         /\ s7 = s6 \o a7 /\ s8 = s7 \o a8 /\ s9 = s8 \o a9 /\ s10 = s9 \o a10 /\ s11 = s10 \o a11
  OBVIOUS
<1>12. Refuses(s2, Valid) /\ (Clean(s2) => Clean(a1))
  BY <1>7, <1>8, <1>11, Both
<1>13. Refuses(s3, Valid) /\ (Clean(s3) => Clean(s2))
  BY <1>7, <1>11, <1>12, Both
<1>14. Refuses(s4, Valid) /\ (Clean(s4) => Clean(s3))
  BY <1>8, <1>11, <1>13, Both
<1>15. Refuses(s5, Valid) /\ (Clean(s5) => Clean(s4) /\ Clean(a5))
  BY <1>9, <1>11, <1>14, Both
<1>16. Refuses(s6, Valid) /\ (Clean(s6) => Clean(s5) /\ Clean(a6))
  BY <1>7, <1>11, <1>15, Both
<1>17. Refuses(s7, Valid) /\ (Clean(s7) => Clean(s6) /\ Clean(a7))
  BY <1>7, <1>11, <1>16, Both
<1>18. Refuses(s8, Valid) /\ (Clean(s8) => Clean(s7) /\ Clean(a8))
  BY <1>8, <1>11, <1>17, Both
<1>19. Refuses(s9, Valid) /\ (Clean(s9) => Clean(s8) /\ Clean(a9))
  BY <1>7, <1>11, <1>18, Both
<1>20. Refuses(s10, Valid) /\ (Clean(s10) => Clean(s9) /\ Clean(a10))
  BY <1>10, <1>11, <1>19, Both
<1>21. Refuses(s11, Valid) /\ (Clean(s11) => Clean(s10) /\ Clean(a11))
  BY <1>7, <1>11, <1>20, Both
<1>22. FirstFailure(s11, MapBridgeError(o)) = Valid
  BY <1>6, <1>11
<1>23. Clean(s11) /\ MapBridgeError(o) = Valid
  BY <1>21, <1>22, Passed
<1>24. /\ Clean(a1) /\ Clean(a5) /\ Clean(a6) /\ Clean(a7) /\ Clean(a8) /\ Clean(a9) /\ Clean(a10)
       /\ Clean(a11)
  BY <1>12, <1>13, <1>14, <1>15, <1>16, <1>17, <1>18, <1>19, <1>20, <1>21, <1>23
<1>25. o = "none"
  BY <1>23, VerdictsRefuse
<1>26. PICK l : l = SplitDeltaPreviewChecks(r, d, r.tax)
  OBVIOUS
<1>27. FirstFailure(l, SplitPreviewError(r, d)) = "none"
  BY <1>1, <1>5, <1>25, <1>26 DEF ValidateSplitDeltaPreview
<1>28. Clean(l) /\ SplitPreviewError(r, d) = "none"
  BY <1>26, <1>27, SplitDeltaPreviewRefuse, Passed
<1>29. AssessmentError(r.intent, r.deltas, r.tax) = "none" /\ BuildPreviewError(r.intent, d) = "none"
  BY <1>26, <1>28, SplitDeltaPreviewClean
<1>30. /\ LimitError(r.intent, d) = "none"
       /\ Total([k \in DOMAIN r.plan |-> r.plan[k].amount]) = d.in
       /\ ~PoolReused(r.plan)
  BY <1>28, SplitPreviewPassed
<1>31. Priced(r, d)
  BY <1>29, <1>30, AssessedDelta DEF Priced
<1>32. Authorised(r)
  BY <1>4, <1>24, AuthorityClean DEF Authorised
<1>33. WithinCaps(r)
  BY <1>4, <1>24, StateRefuse DEF WithinCaps
<1>34. AboveFloor(r, d)
  BY <1>4, <1>24, FloorClean DEF AboveFloor
<1>35. ~(r.balance.amount < d.in)
  BY <1>4, <1>24, BalanceClean
<1>36. Cleared(r, d)
  BY <1>31, <1>32, <1>33, <1>34, <1>35 DEF Cleared
<1>37. SplitRouteBinding(r.plan) = r.approved
  BY <1>4, <1>24, PlanClean
<1> QED
  BY <1>1, <1>8, <1>9, <1>10, <1>24, <1>28, <1>30, <1>36, <1>37 DEF ClearedSplit

(***************************************************************************)
(* What was checked is what is safe.                                       *)
(***************************************************************************)
\* The approved slippage floor, from min_out.
LEMMA FloorHolds ==
  ASSUME NEW got \in Int, NEW least \in Int, NEW expected \in Nat, NEW slip \in Nat, NEW B \in Nat \ {0},
         ~(got < least), ~(least * B < expected * (IF slip > B THEN 0 ELSE B - slip))
  PROVE  got * B >= expected * (B - slip)
<1>1. got * B >= least * B
  <2>1. (got - least) * B >= 0
    BY got - least >= 0
  <2>2. (got - least) * B = got * B - least * B
    OBVIOUS
  <2>3. got * B \in Int /\ least * B \in Int
    OBVIOUS
  <2> QED
    BY <2>1, <2>2, <2>3
<1>2. least * B \in Int /\ got * B \in Int /\ expected * (B - slip) \in Int
  OBVIOUS
<1>3. CASE slip > B
  <2>1. expected * (B - slip) <= 0
    BY <1>3
  <2>2. ~(least * B < expected * 0) /\ expected * 0 = 0
    BY <1>3
  <2> QED
    BY <1>1, <1>2, <2>1, <2>2
<1>4. CASE ~(slip > B)
  <2>1. ~(least * B < expected * (B - slip))
    BY <1>4
  <2> QED
    BY <1>1, <1>2, <2>1
<1> QED
  BY <1>3, <1>4

\* A sequence is empty when its length is 0.
LEMMA EmptyIs ==
  ASSUME NEW s, IsSeq(s)
  PROVE  s = << >> <=> Len(s) = 0
BY EmptySeq DEF IsSeq

\* The approval's binding keeps what tells who spends.
LEMMA SameSpender ==
  ASSUME NEW b, NEW chain, IsSeq(b.legs)
  PROVE  SpenderOf(RouteBinding(b), chain) = SpenderOf(b.legs, chain)
<1>1. PICK l, m, n : l = b.legs /\ m = RouteBinding(b) /\ n = Len(l)
  OBVIOUS
<1>2. n \in Nat /\ DOMAIN l = 1..n
  BY <1>1, SeqDomain
<1>3. m = [k \in 1..n |-> m[k]]
  BY <1>1, <1>2 DEF RouteBinding
<1>4. IsSeq(m) /\ Len(m) = n
  BY <1>2, <1>3, SeqFn
<1>5. (l = << >> <=> n = 0) /\ (m = << >> <=> n = 0)
  BY <1>1, <1>4, EmptyIs
<1>6. CASE n = 0
  BY <1>1, <1>5, <1>6 DEF SpenderOf
<1>7. CASE n # 0
  <2>1. 1 \in 1..n
    BY <1>2, <1>7
  <2>2. m[1] = LegRef(l[1])
    BY <1>1, <1>2, <2>1 DEF RouteBinding
  <2>3. m[1].pool = l[1].pool /\ m[1].venue = l[1].venue
    BY <2>2 DEF LegRef
  <2>4. l # << >> /\ m # << >>
    BY <1>5, <1>7
  <2>5. SpenderOf(m, chain) = IF chain = "Solana" THEN m[1].pool ELSE m[1].venue
    BY <2>4 DEF SpenderOf
  <2>6. SpenderOf(l, chain) = IF chain = "Solana" THEN l[1].pool ELSE l[1].venue
    BY <2>4 DEF SpenderOf
  <2> QED
    BY <1>1, <2>3, <2>5, <2>6
<1> QED
  BY <1>6, <1>7

\* What the branches of spender s spend.
Spent(plan, chain, s) ==
  Total([b \in DOMAIN plan |-> IF SpenderOf(plan[b].legs, chain) = s THEN plan[b].amount ELSE 0])

\* What all branches spend.
Paid(plan) == Total([b \in DOMAIN plan |-> plan[b].amount])

\* Both are numbers.
LEMMA PlanSums ==
  ASSUME NEW plan, NEW chain, NEW s, IsSeq(plan), \A b \in DOMAIN plan : plan[b].amount \in Amounts
  PROVE  Paid(plan) \in Int /\ Spent(plan, chain, s) \in Int
<1>1. PICK n : n = Len(plan)
  OBVIOUS
<1>2. n \in Nat /\ DOMAIN plan = 1..n
  BY <1>1, SeqDomain
<1>3. PICK u, v : /\ u = [b \in DOMAIN plan |-> plan[b].amount]
                  /\ v = [b \in DOMAIN plan |-> IF SpenderOf(plan[b].legs, chain) = s THEN plan[b].amount ELSE 0]
  OBVIOUS
<1>4. u = [b \in 1..n |-> u[b]] /\ v = [b \in 1..n |-> v[b]]
  BY <1>2, <1>3
<1>5. Len(u) = n /\ Len(v) = n
  BY <1>2, <1>4, SeqFn
<1>6. \A b \in 1..n : plan[b].amount \in Int
  BY <1>2, KernelAssumption DEF Amounts
<1>7. \A b \in 1..n : u[b] \in Int /\ v[b] \in Int
  BY <1>2, <1>3, <1>6
<1>8. Total(u) \in Int /\ Total(v) \in Int
  BY <1>2, <1>5, <1>7, TotalType
<1> QED
  BY <1>3, <1>8 DEF Paid, Spent

\* What the gate requires of a spender is what its branches spend.
LEMMA RequiredIs ==
  ASSUME NEW plan, NEW approved, NEW chain, NEW b \in DOMAIN plan, IsSeq(plan),
         \A k \in DOMAIN plan : IsSeq(plan[k].legs), SplitRouteBinding(plan) = approved
  PROVE  LET s == SpenderOf(plan[b].legs, chain)
         IN  /\ b \in DOMAIN approved /\ SpenderOf(approved[b].legs, chain) = s
             /\ RequiredSplitSpenders(approved, chain)[s] = Spent(plan, chain, s)
<1>1. PICK s : s = SpenderOf(plan[b].legs, chain)
  OBVIOUS
<1>2. DOMAIN approved = DOMAIN plan
  BY DEF SplitRouteBinding
<1>3. \A k \in DOMAIN plan : approved[k].amount = plan[k].amount /\ approved[k].legs = RouteBinding(plan[k])
  BY DEF SplitRouteBinding
<1>4. \A k \in DOMAIN plan : SpenderOf(approved[k].legs, chain) = SpenderOf(plan[k].legs, chain)
  BY <1>3, SameSpender
<1>5. PICK u, v :
        /\ u = [k \in DOMAIN plan |-> IF SpenderOf(plan[k].legs, chain) = s THEN plan[k].amount ELSE 0]
        /\ v = [k \in DOMAIN approved |->
                  IF SpenderOf(approved[k].legs, chain) = s THEN approved[k].amount ELSE 0]
  OBVIOUS
<1>6. u = v
  BY <1>2, <1>3, <1>4, <1>5
<1>7. s \in {SpenderOf(approved[k].legs, chain) : k \in DOMAIN approved}
  BY <1>1, <1>2, <1>4
<1>8. RequiredSplitSpenders(approved, chain)[s] = Total(v)
  BY <1>5, <1>7 DEF RequiredSplitSpenders
<1>9. Total(u) = Spent(plan, chain, s)
  BY <1>5 DEF Spent
<1> QED
  BY <1>1, <1>2, <1>4, <1>6, <1>8, <1>9

\* A single observation of a spender is what the spender is allowed.
LEMMA AllowedIs ==
  ASSUME NEW r, NEW s, IsSeq(r.allowances), \A a \in DOMAIN r.allowances : r.allowances[a].amount \in Amounts,
         \A a \in DOMAIN r.allowances : r.allowances[a].required /\ ~SeenBefore(r, a),
         ObservationsOf(r, s) # {}
  PROVE  FirstObservation(r, s).amount \in Int /\ AllowedTo(r, s) = FirstObservation(r, s).amount
<1>1. PICK A, O : A = r.allowances /\ O = ObservationsOf(r, s)
  OBVIOUS
<1>2. O = {a \in DOMAIN A : A[a].spender = s}
  BY <1>1 DEF ObservationsOf
<1>3. O = {a \in DOMAIN A : A[a].required /\ A[a].spender = s}
  BY <1>1, <1>2
<1>4. DOMAIN A \subseteq Nat /\ \A a \in DOMAIN A : a >= 1
  BY <1>1, SeqDomain
<1>5. PICK m : m = Min(O)
  OBVIOUS
<1>6. m \in O
  BY <1>1, <1>2, <1>4, <1>5, FirstOfFailing
<1>7. ASSUME NEW a \in O, NEW k \in O, a < k PROVE FALSE
  <2>1. a \in 1..(k - 1) /\ k \in DOMAIN A /\ A[a].spender = A[k].spender
    BY <1>2, <1>4, <1>7
  <2>2. SeenBefore(r, k)
    BY <1>1, <2>1 DEF SeenBefore
  <2> QED
    BY <1>1, <2>1, <2>2
<1>8. \A a \in O : a = m
  <2> SUFFICES ASSUME NEW a \in O PROVE a = m
    OBVIOUS
  <2>1. a \in Nat /\ m \in Nat /\ ~(a < m) /\ ~(m < a)
    BY <1>2, <1>4, <1>6, <1>7
  <2> QED
    BY <2>1
<1>9. PICK x : x = A[m].amount
  OBVIOUS
<1>10. x \in Int
  BY <1>1, <1>2, <1>6, <1>9, KernelAssumption DEF Amounts
<1>11. {A[a].amount : a \in O} = {x}
  BY <1>6, <1>8, <1>9
<1>12. Max({x}) = x
  BY <1>10 DEF Max
<1>13. AllowedTo(r, s) = x
  BY <1>1, <1>3, <1>6, <1>11, <1>12 DEF AllowedTo
<1>14. FirstObservation(r, s).amount = x
  BY <1>1, <1>5, <1>9 DEF FirstObservation
<1> QED
  BY <1>10, <1>13, <1>14

\* What a request lets through nets.
Got(r) == Total([b \in DOMAIN r.deltas |-> r.deltas[b].gross])
          - Total([b \in DOMAIN r.deltas |->
                     IF r.intent.side = "Buy" THEN (r.deltas[b].gross * r.tax.buyTax) \div BpsOne ELSE 0])

\* ValidIsSafe, of what has been cleared.
LEMMA ClearedIsSafe ==
  ASSUME NEW r, PricedRequest(r), NEW d, Cleared(r, d), d.net \in Int, Paid(r.plan) = d.in, Got(r) = d.net,
         \A b \in DOMAIN r.plan :
            LET s == SpenderOf(r.plan[b].legs, r.intent.chain)
            IN  Spent(r.plan, r.intent.chain, s) <= AllowedTo(r, s),
         r.kind = "split" => ~PoolReused(r.plan)
  PROVE  ValidIsSafe(r)
<1>1. PICK i, paid, got : i = r.intent /\ paid = Paid(r.plan) /\ got = Got(r)
  OBVIOUS
<1>2. r.balance.amount \in Int /\ r.expected \in Nat /\ r.minOut.amount \in Int /\ i.slippage \in Nat
  BY <1>1, KernelAssumption DEF PricedRequest, Amounts
<1>3. r.tax.buyTax \in Nat /\ r.tax.sellTax \in Nat /\ i.buyCap \in Nat /\ i.sellCap \in Nat
  BY <1>1 DEF PricedRequest
<1>4. paid \in Int
  BY <1>1, PlanSums DEF PricedRequest
<1>5. paid <= r.balance.amount
  BY <1>1, <1>2, <1>4 DEF Cleared
<1>6. got * BpsOne >= r.expected * (BpsOne - i.slippage)
  <2>1. ~(got < r.minOut.amount)
    BY <1>1 DEF Cleared, AboveFloor
  <2>2. ~(r.minOut.amount * BpsOne < r.expected * (IF i.slippage > BpsOne THEN 0 ELSE BpsOne - i.slippage))
    BY <1>1 DEF Cleared, AboveFloor
  <2>3. got \in Int /\ BpsOne \in Nat \ {0}
    BY <1>1, KernelAssumption
  <2>4. PICK least, expected, slip, B : least = r.minOut.amount /\ expected = r.expected /\ slip = i.slippage /\ B = BpsOne
    OBVIOUS
  <2>5. got * B >= expected * (B - slip)
    BY <1>2, <2>1, <2>2, <2>3, <2>4, FloorHolds
  <2> QED
    BY <2>4, <2>5
<1>7. r.tax.buyTax <= i.buyCap /\ r.tax.sellTax <= i.sellCap
  BY <1>1, <1>3 DEF Cleared, WithinCaps
<1>8. i.limit # NoPrice => SatisfiesLimit(i.side, paid, got, i.limit)
  BY <1>1 DEF Cleared, Priced, LimitError
<1>9. \A s \in {SpenderOf(r.plan[b].legs, i.chain) : b \in DOMAIN r.plan} : Spent(r.plan, i.chain, s) <= AllowedTo(r, s)
  BY <1>1
<1> QED
  BY <1>1, <1>5, <1>6, <1>7, <1>8, <1>9 DEF ValidIsSafe, Paid, Got, Spent

\* A split that revalidate_split_pre_sign answers Valid to is safe.
LEMMA SplitSafe ==
  ASSUME NEW r, PricedRequest(r), r.kind # "single", Revalidate(r) = Valid
  PROVE  ValidIsSafe(r) /\ ClearedSplit(r, AggregateDelta(r.deltas), RequiredSplitSpenders(r.approved, r.intent.chain))
<1>1. PICK d, required : /\ d = AggregateDelta(r.deltas)
                         /\ required = RequiredSplitSpenders(r.approved, r.intent.chain)
  OBVIOUS
<1>2. /\ IsSeq(r.plan) /\ IsSeq(r.approved) /\ IsSeq(r.deltas) /\ IsSeq(r.allowances)
      /\ \A b \in DOMAIN r.plan : r.plan[b].amount \in Amounts /\ IsSeq(r.plan[b].legs)
      /\ \A b \in DOMAIN r.deltas : IsDelta(r.deltas[b])
      /\ \A a \in DOMAIN r.allowances : r.allowances[a].amount \in Amounts
      /\ r.tax.buyTax \in Nat /\ r.tax.sellTax \in Nat
  BY DEF PricedRequest
<1>3. ClearedSplit(r, d, required)
  BY <1>1, <1>2, SplitPasses DEF Revalidate
<1>4. Cleared(r, d) /\ d # NoDelta /\ Paid(r.plan) = d.in /\ ~PoolReused(r.plan)
  BY <1>3 DEF ClearedSplit, Paid
<1>5. /\ d.tokens = r.deltas[1].tokens /\ d.net = Total([b \in DOMAIN r.deltas |-> r.deltas[b].net])
      /\ \A b \in DOMAIN r.deltas : DeltaValid(r.deltas[b]) /\ r.deltas[b].tokens = r.deltas[1].tokens
  BY <1>1, <1>4, AggregateIs
<1>6. ~TaxMismatch(r.intent, r.deltas, r.tax) /\ d.tokens = r.intent.tokens
  BY <1>4 DEF Cleared, Priced
<1>7. Got(r) = d.net
  BY <1>2, <1>5, <1>6, NetsAddUp DEF Got
<1>8. d.net \in Int
  <2>1. PICK n, u : n = Len(r.deltas) /\ u = [b \in DOMAIN r.deltas |-> r.deltas[b].net]
    OBVIOUS
  <2>2. n \in Nat /\ DOMAIN r.deltas = 1..n
    BY <1>2, <2>1, SeqDomain
  <2>3. u = [b \in 1..n |-> u[b]]
    BY <2>1, <2>2
  <2>4. Len(u) = n
    BY <2>2, <2>3, SeqFn
  <2>5. ASSUME NEW b \in 1..n PROVE r.deltas[b].net \in Int
    <3>1. PICK x : x = r.deltas[b]
      OBVIOUS
    <3>2. IsDelta(x)
      BY <1>2, <2>2, <3>1
    <3>3. x.net \in Int
      BY <3>2, KernelAssumption DEF IsDelta, Amounts
    <3> QED
      BY <3>1, <3>3
  <2>6. \A b \in 1..n : u[b] \in Int
    BY <2>1, <2>2, <2>5
  <2>7. Total(u) \in Int
    BY <2>2, <2>4, <2>6, TotalType
  <2> QED
    BY <1>5, <2>1, <2>7
<1>9. ASSUME NEW b \in DOMAIN r.plan
      PROVE  LET s == SpenderOf(r.plan[b].legs, r.intent.chain)
             IN  Spent(r.plan, r.intent.chain, s) <= AllowedTo(r, s)
  <2>1. PICK s, c : s = SpenderOf(r.plan[b].legs, r.intent.chain) /\ c = r.intent.chain
    OBVIOUS
  <2>2. SplitRouteBinding(r.plan) = r.approved
    BY <1>3 DEF ClearedSplit
  <2>3. /\ b \in DOMAIN r.approved /\ SpenderOf(r.approved[b].legs, c) = s
        /\ required[s] = Spent(r.plan, c, s)
    <3>1. PICK plan, approved : plan = r.plan /\ approved = r.approved
      OBVIOUS
    <3>2. /\ b \in DOMAIN plan /\ IsSeq(plan) /\ SplitRouteBinding(plan) = approved
          /\ \A k \in DOMAIN plan : IsSeq(plan[k].legs)
      BY <1>2, <2>2, <3>1
    <3>3. /\ b \in DOMAIN approved
          /\ SpenderOf(approved[b].legs, c) = SpenderOf(plan[b].legs, c)
          /\ RequiredSplitSpenders(approved, c)[SpenderOf(plan[b].legs, c)]
               = Spent(plan, c, SpenderOf(plan[b].legs, c))
      BY <3>2, RequiredIs
    <3> QED
      BY <1>1, <2>1, <3>1, <3>3
  <2>4. ObservationsOf(r, s) # {} /\ ~(FirstObservation(r, s).amount < required[s])
    BY <1>3, <2>1, <2>3 DEF ClearedSplit
  <2>5. \A a \in DOMAIN r.allowances : r.allowances[a].required /\ ~SeenBefore(r, a)
    BY <1>3 DEF ClearedSplit
  <2>6. FirstObservation(r, s).amount \in Int /\ AllowedTo(r, s) = FirstObservation(r, s).amount
    BY <1>2, <2>4, <2>5, AllowedIs
  <2>7. Spent(r.plan, c, s) \in Int
    BY <1>2, PlanSums
  <2>8. Spent(r.plan, c, s) <= AllowedTo(r, s)
    BY <2>3, <2>4, <2>6, <2>7
  <2> QED
    BY <2>1, <2>8
<1>10. ValidIsSafe(r)
  BY <1>4, <1>7, <1>8, <1>9, ClearedIsSafe
<1> QED
  BY <1>1, <1>3, <1>10

\* A route that revalidate_pre_sign answers Valid to is safe.
LEMMA SingleSafe ==
  ASSUME NEW r, PricedRequest(r), r.kind = "single", Revalidate(r) = Valid
  PROVE  ValidIsSafe(r) /\ ClearedSingle(r, r.deltas[1])
<1>1. PICK d, p, a, c : d = r.deltas[1] /\ p = r.plan[1] /\ a = r.allowances[1] /\ c = r.intent.chain
  OBVIOUS
<1>2. /\ IsSeq(r.plan) /\ IsSeq(r.approved) /\ IsSeq(r.deltas) /\ IsSeq(r.allowances)
      /\ \A b \in DOMAIN r.plan : r.plan[b].amount \in Amounts /\ IsSeq(r.plan[b].legs)
      /\ \A b \in DOMAIN r.deltas : IsDelta(r.deltas[b])
      /\ \A k \in DOMAIN r.allowances : r.allowances[k].amount \in Amounts
      /\ r.tax.buyTax \in Nat /\ r.tax.sellTax \in Nat
  BY DEF PricedRequest
<1>3. Len(r.plan) = 1 /\ Len(r.deltas) = 1 /\ Len(r.allowances) = 1 /\ p.amount = d.in
  BY <1>1 DEF PricedRequest
<1>4. DOMAIN r.plan = {1} /\ DOMAIN r.deltas = {1} /\ DOMAIN r.allowances = {1}
  <2>1. 1..1 = {1}
    OBVIOUS
  <2> QED
    BY <1>2, <1>3, <2>1, SeqDomain
<1>5. ClearedSingle(r, d)
  BY <1>1, <1>2, SinglePasses DEF Revalidate
<1>6. Cleared(r, d)
  BY <1>5 DEF ClearedSingle
<1>7. IsDelta(d) /\ p.amount \in Amounts /\ IsSeq(p.legs) /\ a.amount \in Amounts
  BY <1>1, <1>2, <1>4
<1>8. d.net \in Int /\ p.amount \in Int /\ a.amount \in Int /\ p.amount <= AmountMax
  BY <1>7, KernelAssumption DEF IsDelta, Amounts
<1>9. ~TaxMismatch(r.intent, r.deltas, r.tax) /\ d.tokens = r.intent.tokens /\ DeltaValid(d)
  BY <1>6 DEF Cleared, Priced
<1>10. ASSUME NEW f, DOMAIN f = {1}, f = [k \in {1} |-> f[k]], f[1] \in Int PROVE Total(f) = f[1]
  <2>1. 1 \in Nat /\ 1..1 = {1}
    OBVIOUS
  <2>2. f = [k \in 1..1 |-> f[k]]
    BY <1>10, <2>1
  <2>3. Len(f) = 1
    BY <2>1, <2>2, SeqFn
  <2> QED
    BY <1>10, <2>3, TotalOne
<1>11. Got(r) = d.net
  <2>1. \A b \in DOMAIN r.deltas : DeltaValid(r.deltas[b]) /\ r.deltas[b].tokens = r.intent.tokens
    BY <1>1, <1>4, <1>9
  <2>2. PICK u : u = [b \in DOMAIN r.deltas |-> r.deltas[b].net]
    OBVIOUS
  <2>3. Got(r) = Total(u)
    BY <1>2, <1>9, <2>1, <2>2, NetsAddUp DEF Got
  <2>4. DOMAIN u = {1} /\ u = [k \in {1} |-> u[k]] /\ u[1] = d.net
    BY <1>1, <1>4, <2>2
  <2> QED
    BY <1>8, <1>10, <2>3, <2>4
<1>12. Paid(r.plan) = d.in
  <2>1. PICK u : u = [b \in DOMAIN r.plan |-> r.plan[b].amount]
    OBVIOUS
  <2>2. DOMAIN u = {1} /\ u = [k \in {1} |-> u[k]] /\ u[1] = p.amount
    BY <1>1, <1>4, <2>1
  <2>3. Total(u) = p.amount
    BY <1>8, <1>10, <2>2
  <2> QED
    BY <1>3, <2>1, <2>3 DEF Paid
<1>13. ASSUME NEW b \in DOMAIN r.plan
       PROVE  LET s == SpenderOf(r.plan[b].legs, r.intent.chain)
              IN  Spent(r.plan, r.intent.chain, s) <= AllowedTo(r, s)
  <2>1. b = 1
    BY <1>4
  <2>2. PICK s : s = SpenderOf(p.legs, c)
    OBVIOUS
  <2>3. Spent(r.plan, c, s) = p.amount
    <3>1. PICK u : u = [k \in DOMAIN r.plan |-> IF SpenderOf(r.plan[k].legs, c) = s THEN r.plan[k].amount ELSE 0]
      OBVIOUS
    <3>2. DOMAIN u = {1} /\ u = [k \in {1} |-> u[k]] /\ u[1] = p.amount
      BY <1>1, <1>4, <2>2, <3>1
    <3>3. Total(u) = p.amount
      BY <1>8, <1>10, <3>2
    <3> QED
      BY <3>1, <3>3 DEF Spent
  <2>4. ExpectedSpender(r) = s
    <3>1. RouteBinding(p) = r.approved[1].legs
      BY <1>1, <1>5 DEF ClearedSingle
    <3>2. SpenderOf(RouteBinding(p), c) = s
      BY <1>7, <2>2, SameSpender
    <3> QED
      BY <1>1, <3>1, <3>2 DEF ExpectedSpender
  <2>5. ~(a.required /\ a.spender # s) /\ ~(a.required /\ a.amount < d.in)
    BY <1>1, <1>5, <2>4 DEF ClearedSingle
  <2>6. PICK O : O = {k \in DOMAIN r.allowances : r.allowances[k].required /\ r.allowances[k].spender = s}
    OBVIOUS
  <2>7. CASE a.required
    <3>1. O = {1}
      BY <1>1, <1>4, <2>5, <2>6, <2>7
    <3>2. {r.allowances[k].amount : k \in O} = {a.amount}
      BY <1>1, <3>1
    <3>3. PICK x : x = a.amount
      OBVIOUS
    <3>4. Max({x}) = x
      BY <1>8, <3>3 DEF Max
    <3>5. AllowedTo(r, s) = a.amount
      BY <2>6, <3>1, <3>2, <3>3, <3>4 DEF AllowedTo
    <3>6. p.amount <= a.amount
      BY <1>3, <1>8, <2>5, <2>7
    <3> QED
      BY <1>1, <2>1, <2>2, <2>3, <3>5, <3>6
  <2>8. CASE ~a.required
    <3>1. O = {}
      BY <1>1, <1>4, <2>6, <2>8
    <3>2. AllowedTo(r, s) = AmountMax
      BY <2>6, <3>1 DEF AllowedTo
    <3> QED
      BY <1>1, <1>8, <2>1, <2>2, <2>3, <3>2
  <2> QED
    BY <2>7, <2>8
<1>14. "single" # "split"
  OBVIOUS
<1>15. ValidIsSafe(r)
  BY <1>6, <1>8, <1>11, <1>12, <1>13, <1>14, ClearedIsSafe
<1> QED
  BY <1>1, <1>5, <1>15

(***************************************************************************)
(* The signer.                                                             *)
(***************************************************************************)
\* Two deltas of one trade: their tax's asset matters only where there is a tax.
SameTrade(d, e) ==
  /\ e.tokens = d.tokens /\ e.in = d.in /\ e.gross = d.gross /\ e.net = d.net /\ e.tax = d.tax
  /\ d.tax > 0 => e.taxAsset = d.taxAsset

\* The preview of one trade does not depend on the asset of a tax that is 0.
LEMMA PreviewSame ==
  ASSUME NEW r, NEW d, NEW e, SameTrade(d, e)
  PROVE  PreviewError(r, e) = PreviewError(r, d)
<1>1. e.tokens = d.tokens /\ e.in = d.in /\ e.gross = d.gross /\ e.net = d.net /\ e.tax = d.tax
  BY DEF SameTrade
<1>2. d.tax > 0 => e.taxAsset = d.taxAsset
  BY DEF SameTrade
<1>3. (d.tax > 0 /\ d.taxAsset = d.tokens[2]) <=> (e.tax > 0 /\ e.taxAsset = e.tokens[2])
  BY <1>1, <1>2
<1>4. (IF d.tax > 0 /\ d.taxAsset = d.tokens[2] THEN d.tax ELSE 0)
        = (IF e.tax > 0 /\ e.taxAsset = e.tokens[2] THEN e.tax ELSE 0)
  BY <1>1, <1>3
<1>5. PreviewInternalError(e) = PreviewInternalError(d)
  BY <1>1, <1>4 DEF PreviewInternalError
<1>6. AmountAndRiskError(r.intent, e) = AmountAndRiskError(r.intent, d)
  BY <1>1 DEF AmountAndRiskError
<1>7. LimitError(r.intent, e) = LimitError(r.intent, d)
  BY <1>1 DEF LimitError
<1>8. PreviewChecks(r, e) = PreviewChecks(r, d)
  BY <1>1, <1>5 DEF PreviewChecks
<1>9. CommonPreviewChecks(r, e) = CommonPreviewChecks(r, d)
  BY <1>6, <1>7 DEF CommonPreviewChecks
<1> QED
  BY <1>8, <1>9 DEF PreviewError

\* The total of one number.
LEMMA OneSum ==
  ASSUME NEW f, f = [k \in {1} |-> f[k]], f[1] \in Int PROVE Total(f) = f[1]
<1>1. 1 \in Nat /\ 1..1 = {1}
  OBVIOUS
<1>2. f = [k \in 1..1 |-> f[k]]
  BY <1>1
<1>3. Len(f) = 1
  BY <1>1, <1>2, SeqFn
<1> QED
  BY <1>3, TotalOne

\* One branch adds up to itself.
LEMMA OneBranch ==
  ASSUME NEW ds, DOMAIN ds = {1}, ds # << >>, IsDelta(ds[1]), DeltaValid(ds[1])
  PROVE  SameTrade(ds[1], AggregateDelta(ds))
<1>1. PICK x : x = ds[1]
  OBVIOUS
<1>2. IsDelta(x) /\ DeltaValid(x)
  BY <1>1
<1>3. /\ x.in \in Amounts /\ x.gross \in Amounts /\ x.net \in Amounts /\ x.fee \in Amounts /\ x.tax \in Amounts
  BY <1>2 DEF IsDelta
<1>4. /\ x.in \in Int /\ x.gross \in Int /\ x.net \in Int /\ x.fee \in Int /\ x.tax \in Int
      /\ x.in <= AmountMax /\ x.gross <= AmountMax /\ x.tax >= 0
  BY <1>3, KernelAssumption DEF Amounts
<1>5. PICK f1, f2, f3, f4, f5 :
        /\ f1 = [b \in DOMAIN ds |-> ds[b].in] /\ f2 = [b \in DOMAIN ds |-> ds[b].gross]
        /\ f3 = [b \in DOMAIN ds |-> ds[b].net] /\ f4 = [b \in DOMAIN ds |-> ds[b].fee]
        /\ f5 = [b \in DOMAIN ds |-> ds[b].tax]
  OBVIOUS
<1>6. /\ f1 = [k \in {1} |-> f1[k]] /\ f2 = [k \in {1} |-> f2[k]] /\ f3 = [k \in {1} |-> f3[k]]
      /\ f4 = [k \in {1} |-> f4[k]] /\ f5 = [k \in {1} |-> f5[k]]
  BY <1>5
<1>7. f1[1] = x.in /\ f2[1] = x.gross /\ f3[1] = x.net /\ f4[1] = x.fee /\ f5[1] = x.tax
  BY <1>1, <1>5
<1>8. Total(f1) = x.in /\ Total(f2) = x.gross /\ Total(f3) = x.net /\ Total(f4) = x.fee /\ Total(f5) = x.tax
  BY <1>4, <1>6, <1>7, OneSum
<1>9. PICK taxed : taxed = {b \in DOMAIN ds : ds[b].tax > 0}
  OBVIOUS
<1>10. PICK asset : asset = IF taxed = {} THEN NoAsset ELSE ds[Min(taxed)].taxAsset
  OBVIOUS
<1>11. x.tax > 0 => taxed = {1} /\ asset = x.taxAsset
  <2>1. SUFFICES ASSUME x.tax > 0 PROVE taxed = {1} /\ asset = x.taxAsset
    OBVIOUS
  <2>2. taxed = {1}
    BY <1>1, <1>9, <2>1
  <2>3. Min({1}) = 1
    BY DEF Min
  <2> QED
    BY <1>1, <1>10, <2>2, <2>3
<1>12. ~(x.tax > 0) => taxed = {}
  BY <1>1, <1>9
<1>13. PICK m : m = [tokens |-> ds[1].tokens, in |-> Total(f1), gross |-> Total(f2), net |-> Total(f3),
                     fee |-> Total(f4), tax |-> Total(f5), taxAsset |-> asset]
  OBVIOUS
<1>14. /\ m.tokens = x.tokens /\ m.in = x.in /\ m.gross = x.gross /\ m.net = x.net /\ m.fee = x.fee
       /\ m.tax = x.tax /\ m.taxAsset = asset
  BY <1>1, <1>8, <1>13
<1>15. DeltaValid(m)
  <2>1. CASE x.tax > 0
    BY <1>2, <1>11, <1>14, <2>1 DEF DeltaValid
  <2>2. CASE ~(x.tax > 0)
    <3>1. x.tax = 0
      BY <1>4, <2>2
    <3> QED
      BY <1>2, <1>14, <3>1 DEF DeltaValid
  <2> QED
    BY <2>1, <2>2
<1>16. \A b \in taxed : ds[b].taxAsset = m.taxAsset
  BY <1>1, <1>11, <1>12, <1>14
<1>17. \A b \in DOMAIN ds : DeltaValid(ds[b]) /\ ds[b].tokens = ds[1].tokens
  BY <1>1, <1>2
<1>18. m.in <= AmountMax /\ m.gross <= AmountMax
  BY <1>4, <1>14
<1>19. AggregateDelta(ds) = IF /\ ds # << >>
                               /\ \A b \in DOMAIN ds : DeltaValid(ds[b]) /\ ds[b].tokens = ds[1].tokens
                               /\ \A b \in taxed : ds[b].taxAsset = m.taxAsset
                               /\ m.in <= AmountMax /\ m.gross <= AmountMax
                               /\ DeltaValid(m)
                            THEN m ELSE NoDelta
  BY <1>5, <1>9, <1>10, <1>13 DEF AggregateDelta, Sum
<1>20. AggregateDelta(ds) = m
  BY <1>15, <1>16, <1>17, <1>18, <1>19
<1> QED
  BY <1>1, <1>11, <1>14, <1>20 DEF SameTrade

\* A request that was cleared passes the signer's checks.
LEMMA BindPasses ==
  ASSUME NEW r, NEW d, Authorised(r), r.prepared.bound, d.tokens = r.intent.tokens,
         r.intent.chain \in TaggedChains, r.kind = "single" => PreviewError(r, d) = "none",
         r.kind # "single" => SplitPreviewError(r, d) = "none"
  PROVE  FirstFailure(BindChecks(r, d, "payload"), "none") = "none"
<1>1. PICK s, preview : /\ s = BindChecks(r, d, "payload")
                        /\ preview = IF r.kind = "single" THEN PreviewError(r, d) ELSE SplitPreviewError(r, d)
  OBVIOUS
<1>2. preview = "none"
  BY <1>1
<1>3. s = <<Check(~r.approval.bound, "ApprovalBindingMismatch"),
            Check(~r.prepared.bound, "ApprovalBindingMismatch"),
            Check(d.tokens # r.intent.tokens, "PreviewRevalidationFailed"),
            Check(~r.enabled, "TradingDisabled"),
            Check(r.approval.expires # 0 /\ r.approval.expires <= r.now, "ApprovalExpired"),
            Check(preview # "none", "PreviewRevalidationFailed"),
            Check("payload" = "zero", "MissingPayloadDigest"),
            Check(r.intent.chain \notin TaggedChains, "UnsupportedChain")>>
  BY <1>1 DEF BindChecks
<1>4. DOMAIN s = 1..8
  BY <1>3
<1>5. ~s[1].bad /\ ~s[4].bad /\ ~s[5].bad
  BY <1>3, CheckIs DEF Authorised
<1>6. ~s[2].bad /\ ~s[3].bad /\ ~s[8].bad
  BY <1>3, CheckIs
<1>7. ~s[6].bad /\ ~s[7].bad
  BY <1>2, <1>3, CheckIs
<1>8. Clean(s)
  BY <1>4, <1>5, <1>6, <1>7 DEF Clean
<1> QED
  BY <1>1, <1>8, AllPass

\* GateImpliesBindable, of every priced request.
LEMMA Bindable ==
  ASSUME NEW r, PricedRequest(r)
  PROVE  GateImpliesBindable(r)
<1>1. SUFFICES ASSUME Revalidate(r) = Valid, r.prepared.bound, r.intent.chain \in TaggedChains
               PROVE  BindError(r, "payload") = "none"
  BY DEF GateImpliesBindable
<1>2. PICK e : e = AggregateDelta(r.deltas)
  OBVIOUS
<1>3. CASE r.kind = "single"
  <2>1. PICK d : d = r.deltas[1]
    OBVIOUS
  <2>2. ClearedSingle(r, d)
    BY <1>1, <1>3, <2>1, SingleSafe
  <2>3. Authorised(r) /\ PreviewError(r, d) = "none" /\ DeltaValid(d) /\ d.tokens = r.intent.tokens
    BY <2>2 DEF ClearedSingle, Cleared, Priced
  <2>4. IsSeq(r.deltas) /\ Len(r.deltas) = 1 /\ \A b \in DOMAIN r.deltas : IsDelta(r.deltas[b])
    BY <1>3 DEF PricedRequest
  <2>5. DOMAIN r.deltas = {1} /\ r.deltas # << >>
    <3>1. 1..1 = {1} /\ 1 # 0
      OBVIOUS
    <3> QED
      BY <2>4, <3>1, SeqDomain, EmptyIs
  <2>6. SameTrade(d, e)
    <3>1. PICK ds : ds = r.deltas
      OBVIOUS
    <3>2. DOMAIN ds = {1} /\ ds # << >> /\ IsDelta(ds[1]) /\ DeltaValid(ds[1])
      BY <2>1, <2>3, <2>4, <2>5, <3>1
    <3> QED
      BY <1>2, <2>1, <3>1, <3>2, OneBranch
  <2>7. PreviewError(r, e) = "none"
    BY <2>3, <2>6, PreviewSame
  <2>8. e.tokens = r.intent.tokens
    BY <2>3, <2>6 DEF SameTrade
  <2> QED
    BY <1>1, <1>2, <1>3, <2>3, <2>7, <2>8, BindPasses DEF BindError
<1>4. CASE r.kind # "single"
  <2>1. ClearedSplit(r, e, RequiredSplitSpenders(r.approved, r.intent.chain))
    BY <1>1, <1>2, <1>4, SplitSafe
  <2>2. Authorised(r) /\ SplitPreviewError(r, e) = "none" /\ e.tokens = r.intent.tokens
    BY <2>1 DEF ClearedSplit, Cleared, Priced
  <2> QED
    BY <1>1, <1>2, <1>4, <2>2, BindPasses DEF BindError
<1> QED
  BY <1>3, <1>4

\* The digested fields of legs determine the legs.
LEMMA LegsFromFields ==
  ASSUME NEW l, NEW m, IsSeq(l), IsSeq(m), \A k \in DOMAIN l : IsLeg(l[k]),
         \A k \in DOMAIN m : IsLeg(m[k]), LegFields(l) = LegFields(m)
  PROVE  l = m
<1>1. PICK u, v : u = LegFields(l) /\ v = LegFields(m)
  OBVIOUS
<1>2. u = v /\ DOMAIN l = DOMAIN m
  BY <1>1 DEF LegFields
<1>3. ASSUME NEW k \in DOMAIN l PROVE l[k] = m[k]
  <2>1. PICK x, y : x = l[k] /\ y = m[k]
    OBVIOUS
  <2>2. u[k] = <<x.venue, x.pool, x.tokens, x.in, x.out>>
    BY <1>1, <2>1 DEF LegFields
  <2>3. v[k] = <<y.venue, y.pool, y.tokens, y.in, y.out>>
    BY <1>1, <1>2, <2>1 DEF LegFields
  <2>4. x.venue = y.venue /\ x.pool = y.pool /\ x.tokens = y.tokens /\ x.in = y.in /\ x.out = y.out
    BY <1>2, <2>2, <2>3
  <2>5. IsLeg(x) /\ IsLeg(y)
    BY <1>2, <2>1
  <2>6. x = [venue |-> x.venue, pool |-> x.pool, tokens |-> x.tokens, in |-> x.in, out |-> x.out]
    BY <2>5 DEF IsLeg
  <2>7. y = [venue |-> y.venue, pool |-> y.pool, tokens |-> y.tokens, in |-> y.in, out |-> y.out]
    BY <2>5 DEF IsLeg
  <2> QED
    BY <2>1, <2>4, <2>6, <2>7
<1>4. l = [k \in DOMAIN l |-> l[k]] /\ m = [k \in DOMAIN m |-> m[k]]
  BY DEF IsSeq
<1> QED
  BY <1>2, <1>3, <1>4

\* DigestNamesOneTrade, of every two requests.
LEMMA DigestHolds ==
  ASSUME NEW r, NEW t, PricedRequest(r), PricedRequest(t)
  PROVE  DigestNamesOneTrade(r, "payload", t, "payload")
<1>1. SUFFICES ASSUME RequestDigest(r, "payload") = RequestDigest(t, "payload")
               PROVE  /\ r.intent = t.intent
                      /\ LegsOf(r.plan) = LegsOf(t.plan)
                      /\ AggregateDelta(r.deltas).net = AggregateDelta(t.deltas).net
  BY DEF DigestNamesOneTrade
<1>2. PICK x, y : x = RequestDigest(r, "payload") /\ y = RequestDigest(t, "payload")
  OBVIOUS
<1>3. x.intent = IntentDigest(r.intent) /\ y.intent = IntentDigest(t.intent)
  BY <1>2 DEF RequestDigest
<1>4. r.intent = t.intent
  BY <1>1, <1>2, <1>3 DEF IntentDigest
<1>5. AggregateDelta(r.deltas).net = AggregateDelta(t.deltas).net
  <2>1. PICK d, e : d = AggregateDelta(r.deltas) /\ e = AggregateDelta(t.deltas)
    OBVIOUS
  <2>2. x.amounts = <<d.in, d.gross, d.net>> /\ y.amounts = <<e.in, e.gross, e.net>>
    BY <1>2, <2>1 DEF RequestDigest
  <2>3. d.net = e.net
    BY <1>1, <1>2, <2>2
  <2> QED
    BY <2>1, <2>3
<1>6. /\ x.route = IF r.kind = "single" THEN RouteDigest(r.plan[1]) ELSE SplitRouteDigest(r)
      /\ y.route = IF t.kind = "single" THEN RouteDigest(t.plan[1]) ELSE SplitRouteDigest(t)
  BY <1>2 DEF RequestDigest
<1>7. x.route = y.route
  BY <1>1, <1>2
<1>8. \A b : RouteDigest(b)[1] = "route" /\ RouteDigest(b)[2] = LegFields(b.legs)
  BY DEF RouteDigest
<1>9. \A q : /\ SplitRouteDigest(q)[1] = "split"
             /\ SplitRouteDigest(q)[2] = [b \in DOMAIN q.plan |->
                                            <<q.plan[b].amount, LegFields(q.plan[b].legs),
                                              q.plan[b].outAsset, q.plan[b].out>>]
  BY DEF SplitRouteDigest
<1>10. "route" # "split"
  OBVIOUS
<1>11. PICK p, q : p = r.plan /\ q = t.plan
  OBVIOUS
<1>12. /\ IsSeq(p) /\ IsSeq(q)
       /\ \A b \in DOMAIN p : IsSeq(p[b].legs) /\ \A k \in DOMAIN p[b].legs : IsLeg(p[b].legs[k])
       /\ \A b \in DOMAIN q : IsSeq(q[b].legs) /\ \A k \in DOMAIN q[b].legs : IsLeg(q[b].legs[k])
  BY <1>11 DEF PricedRequest
<1>13. DOMAIN p = DOMAIN q /\ \A b \in DOMAIN p : LegFields(p[b].legs) = LegFields(q[b].legs)
  <2>1. CASE r.kind = "single"
    <3>1. t.kind = "single"
      BY <1>6, <1>7, <1>8, <1>9, <1>10, <2>1
    <3>2. Len(p) = 1 /\ Len(q) = 1
      BY <1>11, <2>1, <3>1 DEF PricedRequest
    <3>3. DOMAIN p = {1} /\ DOMAIN q = {1}
      <4>1. 1..1 = {1}
        OBVIOUS
      <4> QED
        BY <1>12, <3>2, <4>1, SeqDomain
    <3>4. LegFields(p[1].legs) = LegFields(q[1].legs)
      BY <1>6, <1>7, <1>8, <1>11, <2>1, <3>1
    <3> QED
      BY <3>3, <3>4
  <2>2. CASE r.kind # "single"
    <3>1. t.kind # "single"
      BY <1>6, <1>7, <1>8, <1>9, <1>10, <2>2
    <3>2. PICK f, g : /\ f = [b \in DOMAIN p |-> <<p[b].amount, LegFields(p[b].legs), p[b].outAsset, p[b].out>>]
                      /\ g = [b \in DOMAIN q |-> <<q[b].amount, LegFields(q[b].legs), q[b].outAsset, q[b].out>>]
      OBVIOUS
    <3>3. f = g
      BY <1>6, <1>7, <1>9, <1>11, <2>2, <3>1, <3>2
    <3>4. DOMAIN p = DOMAIN q
      BY <3>2, <3>3
    <3>5. ASSUME NEW b \in DOMAIN p PROVE LegFields(p[b].legs) = LegFields(q[b].legs)
      <4>1. f[b][2] = LegFields(p[b].legs) /\ g[b][2] = LegFields(q[b].legs)
        BY <3>2, <3>4
      <4> QED
        BY <3>3, <4>1
    <3> QED
      BY <3>4, <3>5
  <2> QED
    BY <2>1, <2>2
<1>14. ASSUME NEW b \in DOMAIN p PROVE p[b].legs = q[b].legs
  <2>1. PICK l, m : l = p[b].legs /\ m = q[b].legs
    OBVIOUS
  <2>2. /\ IsSeq(l) /\ IsSeq(m) /\ LegFields(l) = LegFields(m)
        /\ \A k \in DOMAIN l : IsLeg(l[k])
        /\ \A k \in DOMAIN m : IsLeg(m[k])
    BY <1>12, <1>13, <2>1
  <2> QED
    BY <2>1, <2>2, LegsFromFields
<1>15. [b \in DOMAIN p |-> p[b].legs] = [b \in DOMAIN q |-> q[b].legs]
  BY <1>13, <1>14
<1>16. LegsOf(p) = LegsOf(q)
  BY <1>15 DEF LegsOf
<1> QED
  BY <1>4, <1>5, <1>11, <1>16

\* SubmissionIsSigned, of every two signing requests.
LEMMA SubmissionHolds ==
  ASSUME NEW q, NEW theirs, NEW chain, NEW sent \in [size : Nat, bytes : STRING], q.payload = "payload"
  PROVE  SubmissionIsSigned(q, theirs, sent, chain)
<1>1. PICK signed, bound : signed = SignedReference(theirs, "ref") /\ bound = SubmitRequestOf(q, signed, sent)
  OBVIOUS
<1>2. SUFFICES ASSUME SubmitError(q, signed, sent, chain) = "none"
               PROVE  /\ theirs.digest = q.digest
                      /\ sent.bytes = q.payload /\ chain = q.chain
                      /\ RestoreError(bound) = "none"
                      /\ RestoreError([bound EXCEPT !.payload.bytes = "changed"]) # "none"
  BY <1>1 DEF SubmissionIsSigned
<1>3. PICK l : l = SubmitChecks(q, signed, sent, chain)
  OBVIOUS
<1>4. Refuses(l, "none") /\ FirstFailure(l, "none") = "none"
  BY <1>2, <1>3, SubmitRefuse DEF SubmitError
<1>5. Clean(l)
  BY <1>4, Passed
<1>6. /\ <<signed.digest, signed.id, signed.key>> = <<q.digest, q.id, q.key>>
      /\ chain = q.chain /\ PayloadError(sent) = "none" /\ sent.bytes = q.payload
  BY <1>3, <1>5, SubmitClean
<1>7. signed.digest = theirs.digest
  BY <1>1 DEF SignedReference
<1>8. theirs.digest = q.digest
  BY <1>6, <1>7
<1>9. bound.payload = sent /\ bound.payloadDigest = q.payload
  BY <1>1 DEF SubmitRequestOf
<1>10. RestoreError(bound) = "none"
  <2>1. PICK s : s = RestoreChecks(bound)
    OBVIOUS
  <2>2. DOMAIN s = 1..2
    BY <2>1 DEF RestoreChecks
  <2>3. ~s[1].bad
    BY <1>6, <1>9, <2>1, CheckIs DEF RestoreChecks
  <2>4. ~s[2].bad
    BY <1>6, <1>9, <2>1, CheckIs DEF RestoreChecks
  <2>5. Clean(s)
    BY <2>2, <2>3, <2>4 DEF Clean
  <2> QED
    BY <2>1, <2>5, AllPass DEF RestoreError
<1>11. PICK other : other = [bound EXCEPT !.payload.bytes = "changed"]
  OBVIOUS
<1>12. other.payload.bytes = "changed" /\ other.payloadDigest = "payload"
  BY <1>1, <1>11 DEF SubmitRequestOf
<1>13. RestoreError(other) # "none"
  <2>1. SUFFICES ASSUME RestoreError(other) = "none" PROVE FALSE
    OBVIOUS
  <2>2. PICK s : s = RestoreChecks(other)
    OBVIOUS
  <2>3. Refuses(s, "none") /\ FirstFailure(s, "none") = "none"
    BY <2>1, <2>2, RestoreRefuse DEF RestoreError
  <2>4. Clean(s)
    BY <2>3, Passed
  <2>5. other.payload.bytes = other.payloadDigest
    BY <2>2, <2>4, RestoreClean
  <2> QED
    BY <1>12, <2>5
<1> QED
  BY <1>6, <1>8, <1>10, <1>11, <1>13

\* ProviderFloorHolds, of every proposal.
LEMMA ProviderHolds ==
  ASSUME NEW r, PricedRequest(r), NEW p, NEW policy, p.minReceive \in Int
  PROVE  ProviderFloorHolds(r, p, policy)
<1>1. SUFFICES ASSUME Revalidate(r) = Valid, r.kind = "single", policy.minReceive = r.minOut.amount,
                      VerifyProviderProposal(r, p, policy) = "none"
               PROVE  /\ p.minReceive * BpsOne >= r.expected * (BpsOne - r.intent.slippage)
                      /\ p.in <= r.balance.amount
  BY DEF ProviderFloorHolds
<1>2. PICK d, l : d = r.deltas[1] /\ l = r.plan[1].legs
  OBVIOUS
<1>3. ClearedSingle(r, d)
  BY <1>1, <1>2, SingleSafe
<1>4. PICK a1, a2, a3 : /\ a1 = ProposalAccessChecks(r, p, policy) /\ a2 = ProposalAmountChecks(r, p, policy)
                        /\ a3 = ProposalCallChecks(r, p, policy)
  OBVIOUS
<1>5. FirstFailure((a1 \o a2) \o a3, "none") = "none"
  BY <1>1, <1>4 DEF VerifyProviderProposal
<1>6. Refuses(a1, "none") /\ Refuses(a2, "none") /\ Refuses(a3, "none")
  BY <1>4, ProposalAccessRefuse, ProposalAmountRefuse, ProposalCallRefuse
<1>7. Refuses(a1 \o a2, "none") /\ (Clean(a1 \o a2) => Clean(a1) /\ Clean(a2))
  BY <1>6, Both
<1>8. Refuses((a1 \o a2) \o a3, "none") /\ (Clean((a1 \o a2) \o a3) => Clean(a1 \o a2))
  BY <1>6, <1>7, Both
<1>9. Clean(a1) /\ Clean(a2)
  BY <1>5, <1>7, <1>8, Passed
<1>10. l # << >>
  BY <1>2, <1>4, <1>9, ProposalAccessClean
<1>11. p.in = Head(l).in /\ ~(p.minReceive < r.minOut.amount)
  BY <1>1, <1>2, <1>4, <1>9, <1>10, ProposalAmountClean
<1>12. ~(Head(l).in > d.in)
  BY <1>2, <1>3, <1>10 DEF ClearedSingle, Overdrawn
<1>13. Head(l).in \in Int
  <2>1. Len(r.plan) = 1 /\ IsSeq(r.plan)
    BY <1>1 DEF PricedRequest
  <2>2. 1 \in DOMAIN r.plan
    BY <2>1, SeqDomain
  <2>3. IsSeq(l) /\ \A k \in DOMAIN l : IsLeg(l[k])
    BY <1>2, <2>2 DEF PricedRequest
  <2>4. 1 \in DOMAIN l
    BY <1>10, <2>3, SeqDomain, EmptyIs
  <2>5. IsLeg(l[1])
    BY <2>3, <2>4
  <2>6. l[1].in \in Int
    BY <2>5, KernelAssumption DEF IsLeg, Amounts
  <2>7. Head(l) = l[1]
    OBVIOUS
  <2> QED
    BY <2>6, <2>7
<1>14. d.in \in Int /\ r.balance.amount \in Int
  <2>1. Len(r.deltas) = 1 /\ IsSeq(r.deltas)
    BY <1>1 DEF PricedRequest
  <2>2. 1 \in DOMAIN r.deltas
    BY <2>1, SeqDomain
  <2>3. IsDelta(d)
    BY <1>2, <2>2 DEF PricedRequest
  <2>4. d.in \in Int
    BY <2>3, KernelAssumption DEF IsDelta, Amounts
  <2>5. r.balance.amount \in Int
    BY KernelAssumption DEF PricedRequest, Amounts
  <2> QED
    BY <2>4, <2>5
<1>15. ~(r.balance.amount < d.in)
  BY <1>3 DEF ClearedSingle, Cleared
<1>16. p.in <= r.balance.amount
  BY <1>11, <1>12, <1>13, <1>14, <1>15
<1>17. p.minReceive * BpsOne >= r.expected * (BpsOne - r.intent.slippage)
  <2>1. PICK got, least, expected, slip, B :
          /\ got = p.minReceive /\ least = r.minOut.amount /\ expected = r.expected
          /\ slip = r.intent.slippage /\ B = BpsOne
    OBVIOUS
  <2>2. got \in Int /\ least \in Int /\ expected \in Nat /\ slip \in Nat /\ B \in Nat \ {0}
    BY <2>1, KernelAssumption DEF PricedRequest, Amounts
  <2>3. ~(least * B < expected * (IF slip > B THEN 0 ELSE B - slip))
    BY <1>3, <2>1 DEF ClearedSingle, Cleared, AboveFloor
  <2>4. got * B >= expected * (B - slip)
    BY <1>11, <2>1, <2>2, <2>3, FloorHolds
  <2> QED
    BY <2>1, <2>4
<1> QED
  BY <1>16, <1>17

(***************************************************************************)
(* The gate.                                                               *)
(***************************************************************************)
\* The cases at the gate are cases that may be asked.
GateType == gate \subseteq GateCases

\* Every conjunct of GateIsSafe, of every case.
LEMMA CaseIsSafe ==
  ASSUME NEW c \in GateCases
  PROVE  /\ ValidIsSafe(c.request)
         /\ GateImpliesBindable(c.request)
         /\ DigestNamesOneTrade(c.request, "payload", c.signed, "payload")
         /\ \A sent \in c.sent, chain \in TaggedChains, key \in {"k1", "k2"} :
               SubmissionIsSigned(SigningRequestOf(c.request, "payload", "k1"),
                                  SigningRequestOf(c.signed, "payload", key), sent, chain)
         /\ \A o \in c.offers : ProviderFloorHolds(c.request, o.proposal, o.policy)
<1>1. GateCase(c)
  BY GateAssumption
<1>2. PricedRequest(c.request) /\ PricedRequest(c.signed)
  BY <1>1 DEF GateCase
<1>3. ValidIsSafe(c.request)
  <2>1. CASE Revalidate(c.request) = Valid
    BY <1>2, <2>1, SingleSafe, SplitSafe
  <2>2. CASE Revalidate(c.request) # Valid
    BY <2>2 DEF ValidIsSafe
  <2> QED
    BY <2>1, <2>2
<1>4. GateImpliesBindable(c.request) /\ DigestNamesOneTrade(c.request, "payload", c.signed, "payload")
  BY <1>2, Bindable, DigestHolds
<1>5. ASSUME NEW sent \in c.sent, NEW chain \in TaggedChains, NEW key \in {"k1", "k2"}
      PROVE  SubmissionIsSigned(SigningRequestOf(c.request, "payload", "k1"),
                                SigningRequestOf(c.signed, "payload", key), sent, chain)
  <2>1. sent \in [size : Nat, bytes : STRING]
    BY <1>1 DEF GateCase
  <2>2. PICK q : q = SigningRequestOf(c.request, "payload", "k1")
    OBVIOUS
  <2>3. q.payload = "payload"
    BY <2>2 DEF SigningRequestOf
  <2> QED
    BY <2>1, <2>2, <2>3, SubmissionHolds
<1>6. ASSUME NEW o \in c.offers PROVE ProviderFloorHolds(c.request, o.proposal, o.policy)
  <2>1. o.proposal.minReceive \in Int
    BY <1>1 DEF GateCase
  <2> QED
    BY <1>2, <2>1, ProviderHolds
<1> QED
  BY <1>3, <1>4, <1>5, <1>6

\* GateIsSafe, for every case at the gate: what revalidate_pre_sign and revalidate_split_pre_sign
\* let through is affordable, allowed, above the floor and within the caps; SigningRequest::bind
\* accepts it, under a digest that names this trade alone; SubmitRequest::bind accepts only what was
\* signed for it; and a verified provider swap guarantees its floor.
THEOREM GateSafe == GateSpec => []GateIsSafe
<1>1. GateInit => GateType
  BY DEF GateInit, GateType
<1>2. GateType /\ [GateNext]_gate => GateType'
  BY DEF GateType, GateNext
<1>3. GateType => GateIsSafe
  BY CaseIsSafe DEF GateType, GateIsSafe
<1> QED
  BY <1>1, <1>2, <1>3, PTL DEF GateSpec

(***************************************************************************)
(* The calendar of civil_from_days.                                        *)
(***************************************************************************)
\* A day of an era is a day of its year.
LEMMA YearOfEraIs ==
  ASSUME NEW doe \in Int, 0 <= doe, doe <= 146096
  PROVE  \E y \in Int :
            /\ 0 <= y /\ y <= 399
            /\ YearOfEra(doe) = y
            /\ YearStart(y) <= doe /\ (y < 399 => doe < YearStart(y + 1))
<1>1. PICK c \in Int : c = doe \div 36524
  BY SMT
<1>2. 0 <= c /\ c <= 4 /\ 36524 * c <= doe /\ doe < 36524 * c + 36524
  BY SMT, <1>1
<1>3. PICK m \in Int : m = doe - 36524 * c
  BY SMT
<1>4. 0 <= m /\ m < 36524
  BY SMT, <1>2, <1>3
<1>5. PICK q \in Int : q = m \div 1461
  BY SMT
<1>6. 0 <= q /\ q <= 24 /\ 1461 * q <= m /\ m < 1461 * q + 1461
  BY SMT, <1>4, <1>5
<1>7. PICK r \in Int : r = m - 1461 * q
  BY SMT
<1>8. 0 <= r /\ r <= 1460
  BY SMT, <1>6, <1>7
<1>9. doe = 36524 * c + 1461 * q + r
  BY SMT, <1>3, <1>7
<1>10. CASE doe = 146096
  <2>1. YearOfEra(doe) = 399
    BY SMT, <1>10 DEF YearOfEra
  <2>2. YearStart(399) <= doe
    BY SMT, <1>10 DEF YearStart
  <2>3. 399 \in Int /\ 0 <= 399 /\ 399 <= 399 /\ ~(399 < 399)
    BY SMT
  <2> QED
    BY SMT, <2>1, <2>2, <2>3
<1>11. CASE doe < 146096
  <2>1. PICK e \in Int : e = IF 24 * c + q + r >= 1460 THEN 1 ELSE 0
    BY SMT
  <2>2. c <= 3 /\ doe \div 146096 = 0
    BY SMT, <1>2, <1>11
  <2>3. doe \div 1460 = 25 * c + q + e
    BY SMT, <1>2, <1>6, <1>8, <1>9, <2>1, <2>2
  <2>4. PICK k \in Int : k = IF r = 1460 THEN 3 ELSE r \div 365
    <3>1. r \div 365 \in Int
      BY SMT
    <3> QED
      BY SMT, <3>1
  <2>5. 0 <= k /\ k <= 3 /\ 365 * k <= r /\ (k < 3 => r < 365 * k + 365)
    BY SMT, <1>8, <2>4
  <2>6. 365 * k <= r - e /\ r - e < 365 * k + 365
    BY SMT, <1>2, <1>6, <1>8, <2>1, <2>5
  <2>7. doe - doe \div 1460 + doe \div 36524 - doe \div 146096 = 36500 * c + 1460 * q + r - e
    BY SMT, <1>1, <1>9, <2>2, <2>3
  <2>8. (36500 * c + 1460 * q + r - e) \div 365 = 100 * c + 4 * q + k
    BY SMT, <2>6
  <2>9. PICK y \in Int : y = 100 * c + 4 * q + k
    BY SMT
  <2>10. 0 <= y /\ y <= 399 /\ y \div 100 = c /\ y \div 4 = 25 * c + q
    BY SMT, <1>2, <1>6, <2>2, <2>5, <2>9
  <2>11. YearStart(y) = 36524 * c + 1461 * q + 365 * k
    BY SMT, <2>9, <2>10 DEF YearStart
  <2>12. y < 399 => doe < YearStart(y + 1)
    <3>1. CASE k < 3
      <4>1. (y + 1) \div 100 = c /\ (y + 1) \div 4 = 25 * c + q
        BY SMT, <1>2, <1>6, <2>2, <2>5, <2>9, <3>1
      <4>2. YearStart(y + 1) = 36524 * c + 1461 * q + 365 * k + 365
        BY SMT, <2>9, <4>1 DEF YearStart
      <4> QED
        BY SMT, <1>9, <2>5, <3>1, <4>2
    <3>2. CASE k = 3 /\ q < 24
      <4>1. (y + 1) \div 100 = c /\ (y + 1) \div 4 = 25 * c + q + 1
        BY SMT, <1>2, <1>6, <2>2, <2>9, <3>2
      <4>2. YearStart(y + 1) = 36524 * c + 1461 * q + 1461
        BY SMT, <2>9, <3>2, <4>1 DEF YearStart
      <4> QED
        BY SMT, <1>8, <1>9, <4>2
    <3>3. CASE k = 3 /\ q = 24
      <4>1. (y + 1) \div 100 = c + 1 /\ (y + 1) \div 4 = 25 * c + q + 1
        BY SMT, <1>2, <1>6, <2>2, <2>9, <3>3
      <4>2. YearStart(y + 1) = 36524 * c + 36524
        BY SMT, <2>9, <3>3, <4>1 DEF YearStart
      <4> QED
        BY SMT, <1>2, <4>2
    <3> QED
      BY SMT, <1>6, <2>5, <3>1, <3>2, <3>3
  <2>13. YearOfEra(doe) = y
    BY SMT, <2>7, <2>8, <2>9 DEF YearOfEra
  <2>14. YearStart(y) <= doe
    BY SMT, <1>9, <2>5, <2>11
  <2> QED
    BY SMT, <2>10, <2>12, <2>13, <2>14
<1>12. doe < 146096 \/ doe = 146096
  BY SMT
<1> QED
  BY SMT, <1>10, <1>11, <1>12

\* The last day of a year of an era.
LastDay(y) == IF (y + 1) % 4 = 0 /\ ((y + 1) % 100 # 0 \/ y = 399) THEN 365 ELSE 364

\* A day of a year of an era.
InYear(y, doy) ==
  /\ y \in Int /\ 0 <= y /\ y <= 399
  /\ doy \in Int /\ 0 <= doy /\ doy <= LastDay(y)

\* A year ends where the next one begins.
LEMMA YearLength ==
  ASSUME NEW y \in Int, 0 <= y, y <= 399
  PROVE  /\ y < 399 => YearStart(y + 1) = YearStart(y) + LastDay(y) + 1
         /\ y = 399 => YearStart(y) + LastDay(y) = 146096
         /\ LastDay(y) \in Int /\ 364 <= LastDay(y) /\ LastDay(y) <= 365
         /\ YearStart(y) \in Int
<1>1. y < 399 => YearStart(y + 1) = YearStart(y) + LastDay(y) + 1
  BY SMT DEF YearStart, LastDay
<1>2. y = 399 => YearStart(y) + LastDay(y) = 146096
  BY SMT DEF YearStart, LastDay
<1>3. LastDay(y) \in Int /\ 364 <= LastDay(y) /\ LastDay(y) <= 365
  BY SMT DEF LastDay
<1>4. YearStart(y) \in Int
  BY SMT DEF YearStart
<1> QED
  BY SMT, <1>1, <1>2, <1>3, <1>4

\* Years follow each other.
LEMMA YearsInOrder ==
  ASSUME NEW a \in Int, NEW b \in Int, 0 <= a, a < b
  PROVE  YearStart(a + 1) <= YearStart(b)
BY SMT DEF YearStart

\* A day is one of a year.
LEMMA DayOfYear ==
  ASSUME NEW doe \in Int, 0 <= doe, doe <= 146096
  PROVE  InYear(YearOfEra(doe), doe - YearStart(YearOfEra(doe)))
<1>1. PICK y \in Int : /\ 0 <= y /\ y <= 399
                       /\ YearOfEra(doe) = y
                       /\ YearStart(y) <= doe /\ (y < 399 => doe < YearStart(y + 1))
  BY SMT, YearOfEraIs
<1>2. PICK s, e : s = YearStart(y) /\ e = LastDay(y)
  BY SMT
<1>3. /\ y < 399 => YearStart(y + 1) = s + e + 1
      /\ y = 399 => s + e = 146096
      /\ e \in Int /\ s \in Int
  BY SMT, <1>1, <1>2, YearLength
<1>4. doe - s \in Int /\ 0 <= doe - s /\ doe - s <= e
  BY SMT, <1>1, <1>2, <1>3
<1> QED
  BY SMT, <1>1, <1>2, <1>4 DEF InYear

\* And of one year only.
LEMMA OneYear ==
  ASSUME NEW a, NEW b, NEW c, NEW d, InYear(a, b), InYear(c, d), YearStart(a) + b = YearStart(c) + d
  PROVE  a = c /\ b = d
<1>1. ASSUME NEW x, NEW m, NEW y, NEW n, InYear(x, m), InYear(y, n), x < y,
             YearStart(x) + m = YearStart(y) + n
      PROVE  FALSE
  <2>1. /\ x \in Int /\ 0 <= x /\ x < 399 /\ m \in Int /\ m <= LastDay(x)
        /\ y \in Int /\ 0 <= y /\ y <= 399 /\ n \in Int /\ 0 <= n
    BY SMT, <1>1 DEF InYear
  <2>2. PICK s, t, e : s = YearStart(x) /\ t = YearStart(y) /\ e = LastDay(x)
    BY SMT
  <2>3. YearStart(x + 1) <= t
    BY SMT, <1>1, <2>1, <2>2, YearsInOrder
  <2>4. YearStart(x + 1) = s + e + 1 /\ s \in Int /\ e \in Int
    BY SMT, <2>1, <2>2, YearLength
  <2>5. t \in Int
    BY SMT, <2>1, <2>2, YearLength
  <2> QED
    BY SMT, <1>1, <2>1, <2>2, <2>3, <2>4, <2>5
<1>2. a \in Int /\ c \in Int /\ b \in Int /\ d \in Int /\ YearStart(a) \in Int
  BY SMT, YearLength DEF InYear
<1>3. ~(a < c) /\ ~(c < a)
  BY SMT, <1>1
<1>4. a = c
  BY SMT, <1>2, <1>3
<1> QED
  BY SMT, <1>2, <1>4

\* Where day z of the eras is.
IsDay(z, era, y, doy) == era \in Int /\ InYear(y, doy) /\ z = era * 146097 + YearStart(y) + doy

\* Every day is somewhere.
LEMMA DayIs ==
  ASSUME NEW days \in Int
  PROVE  \E era, y, doy : IsDay(days + 719468, era, y, doy) /\ CivilFromDays(days) = DateOf(era, y, doy)
<1>1. PICK z \in Int : z = days + 719468
  BY SMT
<1>2. PICK era \in Int : era = z \div 146097
  BY SMT
<1>3. PICK doe \in Int : doe = z - era * 146097
  BY SMT
<1>4. 0 <= doe
  BY SMT, <1>2, <1>3
<1>5. doe <= 146096
  BY SMT, <1>2, <1>3
<1>6. PICK y : y = YearOfEra(doe)
  BY SMT
<1>7. InYear(y, doe - YearStart(y))
  BY SMT, <1>4, <1>5, <1>6, DayOfYear
<1>8. PICK s \in Int : s = YearStart(y)
  BY SMT, <1>7, YearLength DEF InYear
<1>9. z = era * 146097 + s + (doe - s)
  BY SMT, <1>3
<1>10. CivilFromDays(days) = DateOf(era, y, doe - s)
  BY SMT, <1>1, <1>2, <1>3, <1>6, <1>8 DEF CivilFromDays
<1>11. IsDay(z, era, y, doe - s)
  BY SMT, <1>7, <1>8, <1>9 DEF IsDay
<1> QED
  BY SMT, <1>1, <1>10, <1>11

\* And only there.
LEMMA OneDay ==
  ASSUME NEW z, NEW a, NEW b, NEW c, NEW p, NEW q, NEW r, IsDay(z, a, b, c), IsDay(z, p, q, r)
  PROVE  a = p /\ b = q /\ c = r
<1>1. ASSUME NEW y, NEW n, InYear(y, n)
      PROVE  /\ n \in Int /\ YearStart(y) \in Int
             /\ 0 <= YearStart(y) + n /\ YearStart(y) + n <= 146096
  <2>1. /\ y \in Int /\ 0 <= y /\ y <= 399 /\ n \in Int /\ 0 <= n /\ n <= LastDay(y)
    BY SMT, <1>1 DEF InYear
  <2>2. PICK s, e : s = YearStart(y) /\ e = LastDay(y)
    BY SMT
  <2>3. s \in Int /\ e \in Int /\ (y < 399 => YearStart(y + 1) = s + e + 1) /\ (y = 399 => s + e = 146096)
    BY SMT, <2>1, <2>2, YearLength
  <2>4. 0 <= s
    BY SMT, <2>1, <2>2 DEF YearStart
  <2>5. y < 399 => YearStart(y + 1) <= 145731
    BY SMT, <2>1 DEF YearStart
  <2> QED
    BY SMT, <2>1, <2>2, <2>3, <2>4, <2>5
<1>2. PICK u, v : u = YearStart(b) + c /\ v = YearStart(q) + r
  BY SMT
<1>3. u \in Int /\ 0 <= u /\ u <= 146096 /\ v \in Int /\ 0 <= v /\ v <= 146096
  BY SMT, <1>1, <1>2 DEF IsDay
<1>4. YearStart(b) \in Int /\ YearStart(q) \in Int /\ c \in Int /\ r \in Int
  BY SMT, <1>1 DEF IsDay
<1>5. a \in Int /\ p \in Int /\ a * 146097 + u = p * 146097 + v
  BY SMT, <1>2, <1>4 DEF IsDay
<1>6. a = p
  BY SMT, <1>3, <1>5
<1>7. u = v
  BY SMT, <1>3, <1>5, <1>6
<1>8. b = q /\ c = r
  BY SMT, <1>2, <1>7, OneYear DEF IsDay
<1> QED
  BY SMT, <1>6, <1>8

\* A day of a year is one of its month.
LEMMA MonthIs ==
  ASSUME NEW doy \in Int, 0 <= doy, doy <= 365
  PROVE  \E mp \in Int : /\ 0 <= mp /\ mp <= 11 /\ mp = (5 * doy + 2) \div 153
                         /\ MonthStart(mp) <= doy /\ doy < MonthStart(mp + 1)
<1>1. PICK mp \in Int : mp = (5 * doy + 2) \div 153
  BY SMT
<1>2. 0 <= mp /\ mp <= 11
  BY SMT, <1>1
<1>3. MonthStart(mp) <= doy
  BY SMT, <1>1 DEF MonthStart
<1>4. doy < MonthStart(mp + 1)
  BY SMT, <1>1 DEF MonthStart
<1> QED
  BY SMT, <1>1, <1>2, <1>3, <1>4

\* Days of months, from March.
LEMMA MonthTable ==
  /\ MonthStart(0) = 0 /\ MonthStart(1) = 31 /\ MonthStart(2) = 61 /\ MonthStart(3) = 92
  /\ MonthStart(4) = 122 /\ MonthStart(5) = 153 /\ MonthStart(6) = 184 /\ MonthStart(7) = 214
  /\ MonthStart(8) = 245 /\ MonthStart(9) = 275 /\ MonthStart(10) = 306 /\ MonthStart(11) = 337
  /\ MonthStart(12) = 367
BY SMT DEF MonthStart

\* The year of the date is a leap year when the year of the era has a day more.
LEMMA LeapIs ==
  ASSUME NEW era \in Int, NEW y \in Int, 0 <= y, y <= 399
  PROVE  MonthDays(y + era * 400 + 1, 2) = LastDay(y) - 336
<1>1. (y + era * 400 + 1) % 4 = (y + 1) % 4
  BY SMT
<1>2. (y + era * 400 + 1) % 100 = (y + 1) % 100
  BY SMT
<1>3. (y + era * 400 + 1) % 400 = 0 <=> y = 399
  BY SMT
<1>4. (y + 1) % 100 = 0 => (y + 1) % 4 = 0
  BY SMT
<1> QED
  BY SMT, <1>1, <1>2, <1>3, <1>4 DEF MonthDays, LeapYear, LastDay

\* A date.
CivilDate(y, m, d) == [year |-> y, month |-> m, day |-> d]

\* The date of a day of a month.
LEMMA DateIs ==
  ASSUME NEW era \in Int, NEW y \in Int, NEW doy \in Int, NEW mp \in Int, 0 <= mp, mp <= 11,
         MonthStart(mp) <= doy, doy < MonthStart(mp + 1)
  PROVE  DateOf(era, y, doy) = CivilDate(y + era * 400 + (IF mp < 10 THEN 0 ELSE 1),
                                         IF mp < 10 THEN mp + 3 ELSE mp - 9, doy - MonthStart(mp) + 1)
<1>1. (5 * doy + 2) \div 153 = mp
  BY SMT DEF MonthStart
<1>2. PICK m \in Int : m = IF mp < 10 THEN mp + 3 ELSE mp - 9
  BY SMT
<1>3. DateOf(era, y, doy) = CivilDate(y + era * 400 + (IF m <= 2 THEN 1 ELSE 0), m, doy - MonthStart(mp) + 1)
  BY SMT, <1>1, <1>2 DEF DateOf, CivilDate
<1>4. (m <= 2) <=> ~(mp < 10)
  BY SMT, <1>2
<1> QED
  BY SMT, <1>2, <1>3, <1>4

\* The day after a date.
LEMMA DayAfterIs ==
  ASSUME NEW y \in Int, NEW m \in Int, NEW d \in Int
  PROVE  /\ d < MonthDays(y, m) => DayAfter(CivilDate(y, m, d)) = CivilDate(y, m, d + 1)
         /\ ~(d < MonthDays(y, m)) /\ m < 12 => DayAfter(CivilDate(y, m, d)) = CivilDate(y, m + 1, 1)
         /\ ~(d < MonthDays(y, m)) /\ ~(m < 12) => DayAfter(CivilDate(y, m, d)) = CivilDate(y + 1, 1, 1)
<1>1. PICK x : x = CivilDate(y, m, d)
  BY SMT
<1>2. x.year = y /\ x.month = m /\ x.day = d
  BY SMT, <1>1 DEF CivilDate
<1>3. [x EXCEPT !.day = x.day + 1] = CivilDate(y, m, d + 1)
  BY SMT, <1>1, <1>2 DEF CivilDate
<1>4. DayAfter(x) = IF d < MonthDays(y, m) THEN CivilDate(y, m, d + 1)
                    ELSE IF m < 12 THEN CivilDate(y, m + 1, 1) ELSE CivilDate(y + 1, 1, 1)
  BY SMT, <1>2, <1>3 DEF DayAfter, CivilDate
<1> QED
  BY SMT, <1>1, <1>4

\* The days of the months but February.
LEMMA LongMonths ==
  ASSUME NEW mp \in Int, 0 <= mp, mp <= 10, NEW y
  PROVE  MonthDays(y, IF mp < 10 THEN mp + 3 ELSE mp - 9) = MonthStart(mp + 1) - MonthStart(mp)
<1>1. mp = 0 \/ mp = 1 \/ mp = 2 \/ mp = 3 \/ mp = 4 \/ mp = 5 \/ mp = 6 \/ mp = 7 \/ mp = 8 \/ mp = 9 \/ mp = 10
  BY SMT
<1> QED
  BY SMT, <1>1, MonthTable DEF MonthDays

\* Within a year the date moves on.
LEMMA NextInYear ==
  ASSUME NEW era \in Int, NEW y, NEW doy, InYear(y, doy), doy < LastDay(y)
  PROVE  DateOf(era, y, doy + 1) = DayAfter(DateOf(era, y, doy))
<1>1. /\ y \in Int /\ 0 <= y /\ y <= 399 /\ doy \in Int /\ 0 <= doy
  BY SMT DEF InYear
<1>2. PICK e \in Int : e = LastDay(y) /\ 364 <= e /\ e <= 365
  BY SMT, <1>1, YearLength
<1>3. PICK mp \in Int : /\ 0 <= mp /\ mp <= 11
                        /\ MonthStart(mp) <= doy /\ doy < MonthStart(mp + 1)
  BY SMT, <1>1, <1>2, MonthIs
<1>4. PICK s \in Int, t \in Int : s = MonthStart(mp) /\ t = MonthStart(mp + 1)
  BY SMT DEF MonthStart
<1>5. PICK yy \in Int : yy = y + era * 400 + (IF mp < 10 THEN 0 ELSE 1)
  BY SMT, <1>1
<1>6. PICK m \in Int : m = IF mp < 10 THEN mp + 3 ELSE mp - 9
  BY SMT
<1>7. DateOf(era, y, doy) = CivilDate(yy, m, doy - s + 1)
  BY SMT, <1>1, <1>3, <1>4, <1>5, <1>6, DateIs
<1>8. PICK n : n = MonthDays(yy, m)
  BY SMT
<1>9. mp <= 10 => n = t - s
  BY SMT, <1>3, <1>4, <1>6, <1>8, LongMonths
<1>10. mp = 11 => n = e - 336 /\ s = 337 /\ t = 367
  BY SMT, <1>1, <1>2, <1>4, <1>5, <1>6, <1>8, LeapIs, MonthTable
<1>11. CASE doy + 1 < t
  <2>1. doy + 1 \in Int /\ MonthStart(mp) <= doy + 1 /\ doy + 1 < MonthStart(mp + 1)
    BY SMT, <1>1, <1>3, <1>4, <1>11
  <2>2. PICK n1 \in Int : n1 = doy + 1 /\ MonthStart(mp) <= n1 /\ n1 < MonthStart(mp + 1)
    BY SMT, <2>1
  <2>3. DateOf(era, y, n1) = CivilDate(y + era * 400 + (IF mp < 10 THEN 0 ELSE 1),
                                        IF mp < 10 THEN mp + 3 ELSE mp - 9, n1 - MonthStart(mp) + 1)
    BY SMT, <1>1, <1>3, <2>2, DateIs
  <2>4. DateOf(era, y, n1) = CivilDate(yy, m, n1 - s + 1)
    BY SMT, <1>4, <1>5, <1>6, <2>3
  <2>5. doy - s + 1 < n
    BY SMT, <1>1, <1>2, <1>3, <1>4, <1>9, <1>10, <1>11
  <2>6. DayAfter(CivilDate(yy, m, doy - s + 1)) = CivilDate(yy, m, (doy - s + 1) + 1)
    BY SMT, <1>1, <1>8, <2>5, DayAfterIs
  <2>7. (doy - s + 1) + 1 = n1 - s + 1
    BY SMT, <1>1, <2>2
  <2> QED
    BY SMT, <1>7, <2>2, <2>4, <2>6, <2>7
<1>12. CASE ~(doy + 1 < t)
  <2>1. doy + 1 = t /\ mp <= 10 /\ ~(doy - s + 1 < n)
    BY SMT, <1>1, <1>2, <1>3, <1>4, <1>9, <1>10, <1>12
  <2>2. PICK u \in Int : u = MonthStart(mp + 2)
    BY SMT DEF MonthStart
  <2>3. t < u /\ (mp + 1) + 1 = mp + 2
    BY SMT, <1>4, <2>2 DEF MonthStart
  <2>4. mp + 1 \in Int /\ 0 <= mp + 1 /\ mp + 1 <= 11 /\ MonthStart(mp + 1) <= doy + 1
        /\ doy + 1 < MonthStart((mp + 1) + 1)
    BY SMT, <1>1, <1>3, <1>4, <2>1, <2>2, <2>3
  <2>5. DateOf(era, y, doy + 1) = CivilDate(y + era * 400 + (IF mp + 1 < 10 THEN 0 ELSE 1),
                                            IF mp + 1 < 10 THEN (mp + 1) + 3 ELSE (mp + 1) - 9,
                                            (doy + 1) - MonthStart(mp + 1) + 1)
    BY SMT, <1>1, <2>4, DateIs
  <2>6. (doy + 1) - t + 1 = 1
    BY SMT, <1>1, <2>1
  <2>7. CASE mp = 9
    <3>1. m = 12 /\ yy = y + era * 400
      BY SMT, <1>1, <1>5, <1>6, <2>7
    <3>2. DateOf(era, y, doy + 1) = CivilDate(yy + 1, 1, 1)
      BY SMT, <1>4, <2>5, <2>6, <2>7, <3>1
    <3>3. DayAfter(CivilDate(yy, m, doy - s + 1)) = CivilDate(yy + 1, 1, 1)
      BY SMT, <1>1, <1>8, <2>1, <3>1, DayAfterIs
    <3> QED
      BY SMT, <1>7, <3>2, <3>3
  <2>8. CASE mp # 9
    <3>1. m < 12 /\ m + 1 = (IF mp + 1 < 10 THEN (mp + 1) + 3 ELSE (mp + 1) - 9)
      BY SMT, <1>3, <1>6, <2>1, <2>8
    <3>2. yy = y + era * 400 + (IF mp + 1 < 10 THEN 0 ELSE 1)
      BY SMT, <1>3, <1>5, <2>1, <2>8
    <3>3. DateOf(era, y, doy + 1) = CivilDate(yy, m + 1, 1)
      BY SMT, <1>4, <2>5, <2>6, <3>1, <3>2
    <3>4. DayAfter(CivilDate(yy, m, doy - s + 1)) = CivilDate(yy, m + 1, 1)
      BY SMT, <1>1, <1>8, <2>1, <3>1, DayAfterIs
    <3> QED
      BY SMT, <1>7, <3>3, <3>4
  <2> QED
    BY SMT, <2>7, <2>8
<1> QED
  BY SMT, <1>11, <1>12

\* The first of March follows the last of February.
LEMMA NextYear ==
  ASSUME NEW era \in Int, NEW y, InYear(y, LastDay(y)), NEW era2 \in Int, NEW y2 \in Int,
         y2 + era2 * 400 = y + era * 400 + 1
  PROVE  DateOf(era2, y2, 0) = DayAfter(DateOf(era, y, LastDay(y)))
<1>1. y \in Int /\ 0 <= y /\ y <= 399
  BY SMT DEF InYear
<1>2. PICK e \in Int : e = LastDay(y) /\ 364 <= e /\ e <= 365
  BY SMT, <1>1, YearLength
<1>3. PICK yy \in Int : yy = y + era * 400 + 1
  BY SMT, <1>1
<1>4. MonthStart(11) = 337 /\ MonthStart(12) = 367 /\ MonthStart(0) = 0 /\ MonthStart(1) = 31
  BY SMT, MonthTable
<1>5. DateOf(era, y, e) = CivilDate(yy, 2, e - 336)
  <2>1. 11 \in Int /\ 0 <= 11 /\ 11 <= 11 /\ 11 + 1 = 12 /\ ~(11 < 10) /\ 11 - 9 = 2 /\ e - 337 + 1 = e - 336
    BY SMT
  <2>2. MonthStart(11) <= e /\ e < MonthStart(11 + 1)
    BY SMT, <1>2, <1>4, <2>1
  <2>3. DateOf(era, y, e) = CivilDate(y + era * 400 + (IF 11 < 10 THEN 0 ELSE 1),
                                      IF 11 < 10 THEN 11 + 3 ELSE 11 - 9, e - MonthStart(11) + 1)
    BY SMT, <1>1, <2>1, <2>2, DateIs
  <2> QED
    BY SMT, <1>3, <1>4, <2>1, <2>3
<1>6. DateOf(era2, y2, 0) = CivilDate(yy, 3, 1)
  <2>1. 0 \in Int /\ 0 <= 0 /\ 0 <= 11 /\ 0 + 1 = 1 /\ 0 < 10 /\ 0 + 3 = 3 /\ 0 - 0 + 1 = 1
    BY SMT
  <2>2. MonthStart(0) <= 0 /\ 0 < MonthStart(0 + 1)
    BY SMT, <1>4, <2>1
  <2>3. DateOf(era2, y2, 0) = CivilDate(y2 + era2 * 400 + (IF 0 < 10 THEN 0 ELSE 1),
                                        IF 0 < 10 THEN 0 + 3 ELSE 0 - 9, 0 - MonthStart(0) + 1)
    BY SMT, <2>1, <2>2, DateIs
  <2>4. y2 + era2 * 400 + 0 = yy
    BY SMT, <1>3
  <2> QED
    BY SMT, <1>4, <2>1, <2>3, <2>4
<1>7. MonthDays(yy, 2) = e - 336
  BY SMT, <1>1, <1>2, <1>3, LeapIs
<1>8. DayAfter(CivilDate(yy, 2, e - 336)) = CivilDate(yy, 2 + 1, 1)
  BY SMT, <1>7, DayAfterIs
<1> QED
  BY SMT, <1>2, <1>5, <1>6, <1>8

\* civil_from_days counts as the calendar does.
LEMMA CalendarHolds ==
  ASSUME NEW days \in Int
  PROVE  DateIsCalendar(days)
<1>1. PICK era, y, doy : IsDay(days + 719468, era, y, doy) /\ CivilFromDays(days) = DateOf(era, y, doy)
  BY SMT, DayIs
<1>2. PICK a, b, c : IsDay((days + 1) + 719468, a, b, c) /\ CivilFromDays(days + 1) = DateOf(a, b, c)
  BY SMT, DayIs
<1>3. PICK z \in Int : z = days + 719468 /\ z + 1 = (days + 1) + 719468
  BY SMT
<1>4. /\ era \in Int /\ InYear(y, doy) /\ z = era * 146097 + YearStart(y) + doy
      /\ y \in Int /\ 0 <= y /\ y <= 399 /\ doy \in Int /\ 0 <= doy /\ doy <= LastDay(y)
  BY SMT, <1>1, <1>3 DEF IsDay, InYear
<1>5. PICK s, e : s = YearStart(y) /\ e = LastDay(y)
  BY SMT
<1>6. /\ s \in Int /\ e \in Int /\ (y < 399 => YearStart(y + 1) = s + e + 1)
      /\ (y = 399 => s + e = 146096)
  BY SMT, <1>4, <1>5, YearLength
<1>7. ASSUME NEW k, NEW l, NEW m, IsDay(z + 1, k, l, m), DateOf(k, l, m) = DayAfter(DateOf(era, y, doy))
      PROVE  CivilFromDays(days + 1) = DayAfter(CivilFromDays(days))
  <2>1. a = k /\ b = l /\ c = m
    BY SMT, <1>2, <1>3, <1>7, OneDay
  <2> QED
    BY SMT, <1>1, <1>2, <1>7, <2>1
<1>8. CivilFromDays(days + 1) = DayAfter(CivilFromDays(days))
  <2>1. CASE doy < e
    <3>1. InYear(y, doy + 1)
      BY SMT, <1>4, <1>5, <1>6, <2>1 DEF InYear
    <3>2. z + 1 = era * 146097 + s + (doy + 1)
      BY SMT, <1>4, <1>5, <1>6
    <3>3. IsDay(z + 1, era, y, doy + 1)
      BY SMT, <1>4, <1>5, <3>1, <3>2 DEF IsDay
    <3>4. DateOf(era, y, doy + 1) = DayAfter(DateOf(era, y, doy))
      BY SMT, <1>4, <1>5, <2>1, NextInYear
    <3> QED
      BY SMT, <1>7, <3>3, <3>4
  <2>2. CASE doy = e /\ y < 399
    <3>1. InYear(y + 1, 0)
      <4>1. y + 1 \in Int /\ 0 <= y + 1 /\ y + 1 <= 399
        BY SMT, <1>4, <2>2
      <4>2. 364 <= LastDay(y + 1) /\ LastDay(y + 1) \in Int
        BY SMT, <4>1, YearLength
      <4> QED
        BY SMT, <4>1, <4>2 DEF InYear
    <3>2. z + 1 = era * 146097 + YearStart(y + 1) + 0
      BY SMT, <1>4, <1>5, <1>6, <2>2
    <3>3. IsDay(z + 1, era, y + 1, 0)
      BY SMT, <1>4, <3>1, <3>2 DEF IsDay
    <3>4. (y + 1) + era * 400 = y + era * 400 + 1 /\ y + 1 \in Int
      BY SMT, <1>4
    <3>5. DateOf(era, y + 1, 0) = DayAfter(DateOf(era, y, doy))
      BY SMT, <1>4, <1>5, <2>2, <3>4, NextYear
    <3> QED
      BY SMT, <1>7, <3>3, <3>5
  <2>3. CASE doy = e /\ y = 399
    <3>1. InYear(0, 0)
      <4>1. 0 \in Int /\ 0 <= 0 /\ 0 <= 399
        BY SMT
      <4>2. 364 <= LastDay(0) /\ LastDay(0) \in Int
        BY SMT, <4>1, YearLength
      <4> QED
        BY SMT, <4>1, <4>2 DEF InYear
    <3>2. YearStart(0) = 0
      BY SMT DEF YearStart
    <3>3. z + 1 = (era + 1) * 146097 + YearStart(0) + 0 /\ era + 1 \in Int
      BY SMT, <1>4, <1>5, <1>6, <2>3, <3>2
    <3>4. IsDay(z + 1, era + 1, 0, 0)
      BY SMT, <3>1, <3>3 DEF IsDay
    <3>5. 0 + (era + 1) * 400 = y + era * 400 + 1 /\ 0 \in Int
      BY SMT, <1>4, <2>3
    <3>6. DateOf(era + 1, 0, 0) = DayAfter(DateOf(era, y, doy))
      BY SMT, <1>4, <1>5, <2>3, <3>3, <3>5, NextYear
    <3> QED
      BY SMT, <1>7, <3>4, <3>6
  <2> QED
    BY SMT, <1>4, <1>5, <1>6, <2>1, <2>2, <2>3
<1>9. CivilFromDays(0) = [year |-> 1970, month |-> 1, day |-> 1]
  <2>1. PICK k, l, m : IsDay(0 + 719468, k, l, m) /\ CivilFromDays(0) = DateOf(k, l, m)
    BY SMT, DayIs
  <2>2. InYear(369, 306)
    BY SMT DEF InYear, LastDay
  <2>3. YearStart(369) = 134774
    BY SMT DEF YearStart
  <2>4. IsDay(0 + 719468, 4, 369, 306)
    BY SMT, <2>2, <2>3 DEF IsDay
  <2>5. k = 4 /\ l = 369 /\ m = 306
    BY SMT, <2>1, <2>4, OneDay
  <2>6. DateOf(4, 369, 306) = [year |-> 1970, month |-> 1, day |-> 1]
    BY SMT DEF DateOf, MonthStart
  <2> QED
    BY SMT, <2>1, <2>5, <2>6
<1> QED
  BY SMT, <1>8, <1>9 DEF DateIsCalendar

(***************************************************************************)
(* Numbers written in digits.                                              *)
(***************************************************************************)
\* f reads d and then the first N of s.
Reads(f, d, s, N) ==
  /\ f = [k \in 0..N |-> f[k]]
  /\ f[0] = d
  /\ \A k \in 1..N : f[k] = f[k - 1] * 10 + s[k]

\* There is a function that reads digits: Numeral is one.
LEMMA ReadExists ==
  ASSUME NEW N \in Nat, NEW d, NEW s
  PROVE  \E f : Reads(f, d, s, N)
<1> DEFINE T == {n \in Nat : \E f : Reads(f, d, s, n)}
<1>1. 0 \in T
  <2>1. Reads([n \in 0..0 |-> d], d, s, 0)
    BY DEF Reads
  <2> QED
    BY <2>1
<1>2. ASSUME NEW n \in Nat, n \in T PROVE n + 1 \in T
  <2>1. PICK f : Reads(f, d, s, n)
    BY <1>2
  <2> DEFINE g == [k \in 0..(n + 1) |-> IF k = n + 1 THEN f[n] * 10 + s[n + 1] ELSE f[k]]
  <2>2. g[0] = d
    BY <2>1 DEF Reads
  <2>3. ASSUME NEW k \in 1..(n + 1) PROVE g[k] = g[k - 1] * 10 + s[k]
    <3>1. CASE k = n + 1
      <4>1. g[n + 1] = f[n] * 10 + s[n + 1] /\ g[n] = f[n] /\ k - 1 = n
        BY <3>1
      <4> QED
        BY <3>1, <4>1
    <3>2. CASE k # n + 1
      <4>1. k \in 1..n /\ k - 1 \in 0..n /\ k - 1 # n + 1 /\ k \in 0..(n + 1) /\ k - 1 \in 0..(n + 1)
        BY <3>2
      <4>2. g[k] = f[k] /\ g[k - 1] = f[k - 1]
        BY <4>1
      <4> QED
        BY <2>1, <4>1, <4>2 DEF Reads
    <3> QED
      BY <3>1, <3>2
  <2>4. g = [k \in 0..(n + 1) |-> g[k]]
    OBVIOUS
  <2> HIDE DEF g
  <2>5. Reads(g, d, s, n + 1)
    BY <2>2, <2>3, <2>4 DEF Reads
  <2> QED
    BY <2>5
<1>3. Nat \subseteq T
  <2> HIDE DEF T
  <2> QED
    BY <1>1, <1>2, SetInduction
<1> QED
  BY <1>3

\* What Numeral evaluates.
LEMMA NumeralIs ==
  ASSUME NEW d, NEW s, Len(s) \in Nat
  PROVE  \E f : Reads(f, d, s, Len(s)) /\ Numeral(d, s) = f[Len(s)]
<1> DEFINE N == Len(s)
           F(f) == [n \in 0..N |-> IF n = 0 THEN d ELSE f[n - 1] * 10 + s[n]]
           t == CHOOSE f : f = F(f)
<1>1. PICK f : Reads(f, d, s, N)
  BY ReadExists
<1>2. f = F(f)
  <2>1. f = [k \in 0..N |-> f[k]]
    BY <1>1 DEF Reads
  <2>2. ASSUME NEW k \in 0..N PROVE f[k] = IF k = 0 THEN d ELSE f[k - 1] * 10 + s[k]
    <3>1. CASE k = 0
      BY <1>1, <3>1 DEF Reads
    <3>2. CASE k # 0
      <4>1. k \in 1..N
        BY <3>2
      <4>2. \A j \in 1..N : f[j] = f[j - 1] * 10 + s[j]
        BY <1>1 DEF Reads
      <4> HIDE DEF N
      <4> QED
        BY <3>2, <4>1, <4>2
    <3> QED
      BY <3>1, <3>2
  <2> QED
    BY <2>1, <2>2
<1>3. t = F(t)
  BY <1>2
<1>4. Numeral(d, s) = t[N]
  BY DEF Numeral
<1> HIDE DEF t
<1>5. \A k \in 0..N : t[k] = IF k = 0 THEN d ELSE t[k - 1] * 10 + s[k]
  BY <1>3
<1>6. t = [k \in 0..N |-> t[k]]
  BY <1>3
<1>7. Reads(t, d, s, N)
  BY <1>5, <1>6 DEF Reads
<1> QED
  BY <1>4, <1>7

\* A number that begins with d is at least d.
LEMMA NumeralType ==
  ASSUME NEW d \in Nat, NEW s, Len(s) \in Nat, \A k \in 1..Len(s) : s[k] \in Nat
  PROVE  Numeral(d, s) \in Nat /\ Numeral(d, s) >= d
<1>1. PICK N : N = Len(s)
  OBVIOUS
<1>2. PICK f : Reads(f, d, s, N) /\ Numeral(d, s) = f[N]
  BY <1>1, NumeralIs
<1> DEFINE T == {n \in Nat : n <= N => f[n] \in Nat /\ f[n] >= d}
<1>3. 0 \in T
  BY <1>2 DEF Reads
<1>4. ASSUME NEW n \in Nat, n \in T PROVE n + 1 \in T
  <2>1. SUFFICES ASSUME n + 1 <= N PROVE f[n + 1] \in Nat /\ f[n + 1] >= d
    OBVIOUS
  <2>2. n + 1 \in 1..N /\ (n + 1) - 1 = n /\ f[n] \in Nat /\ f[n] >= d
    BY <1>1, <1>4, <2>1
  <2>3. f[n + 1] = f[n] * 10 + s[n + 1]
    BY <1>2, <2>2 DEF Reads
  <2>4. s[n + 1] \in Nat
    BY <1>1, <2>2
  <2> QED
    BY <2>2, <2>3, <2>4
<1>5. Nat \subseteq T
  <2> HIDE DEF T
  <2> QED
    BY <1>3, <1>4, SetInduction
<1> QED
  BY <1>1, <1>2, <1>5

\* Numbers of no, one and two digits.
LEMMA ShortNumerals ==
  ASSUME NEW d \in Nat, NEW s
  PROVE  /\ Len(s) = 0 => Numeral(d, s) = d
         /\ Len(s) = 1 /\ s[1] \in Nat => Numeral(d, s) = d * 10 + s[1]
         /\ Len(s) = 2 /\ s[1] \in Nat /\ s[2] \in Nat => Numeral(d, s) = (d * 10 + s[1]) * 10 + s[2]
<1>1. ASSUME Len(s) = 0 PROVE Numeral(d, s) = d
  <2>1. PICK f : Reads(f, d, s, 0) /\ Numeral(d, s) = f[0]
    BY <1>1, NumeralIs
  <2> QED
    BY <2>1 DEF Reads
<1>2. ASSUME Len(s) = 1, s[1] \in Nat PROVE Numeral(d, s) = d * 10 + s[1]
  <2>1. PICK f : Reads(f, d, s, 1) /\ Numeral(d, s) = f[1]
    BY <1>2, NumeralIs
  <2>2. f[0] = d /\ f[1] = f[1 - 1] * 10 + s[1]
    BY <2>1 DEF Reads
  <2> QED
    BY <2>1, <2>2
<1>3. ASSUME Len(s) = 2, s[1] \in Nat, s[2] \in Nat PROVE Numeral(d, s) = (d * 10 + s[1]) * 10 + s[2]
  <2>1. PICK f : Reads(f, d, s, 2) /\ Numeral(d, s) = f[2]
    <3>1. Len(s) \in Nat
      BY <1>3
    <3>2. PICK f : Reads(f, d, s, Len(s)) /\ Numeral(d, s) = f[Len(s)]
      BY <3>1, NumeralIs
    <3> QED
      BY <1>3, <3>2
  <2>2. f[0] = d /\ f[1] = f[1 - 1] * 10 + s[1] /\ f[2] = f[2 - 1] * 10 + s[2]
    BY <2>1 DEF Reads
  <2> QED
    BY <2>1, <2>2
<1> QED
  BY <1>1, <1>2, <1>3

\* Powers of ten.
LEMMA PowerIs ==
  ASSUME NEW n \in Nat
  PROVE  /\ Pow10(n) \in Nat \ {0}
         /\ n = 0 => Pow10(n) = 1
         /\ n = 1 => Pow10(n) = 10
         /\ n = 2 => Pow10(n) = 100
<1>1. PICK z : z = [k \in 1..n |-> 0]
  OBVIOUS
<1>2. Len(z) = n /\ DOMAIN z = 1..n
  BY <1>1, SeqFn
<1>3. \A k \in 1..n : z[k] = 0
  BY <1>1
<1>4. Numeral(1, z) \in Nat /\ Numeral(1, z) >= 1
  BY <1>2, <1>3, NumeralType
<1>5. n = 0 => Numeral(1, z) = 1
  BY <1>2, ShortNumerals
<1>6. n = 1 => Numeral(1, z) = 10
  BY <1>2, <1>3, ShortNumerals
<1>7. n = 2 => Numeral(1, z) = 100
  BY <1>2, <1>3, ShortNumerals
<1> QED
  BY <1>1, <1>4, <1>5, <1>6, <1>7 DEF Pow10

(***************************************************************************)
(* Percentages.                                                            *)
(***************************************************************************)
\* Rounding up never understates.
LEMMA CeilingHolds ==
  ASSUME NEW a \in Nat, NEW s \in Nat \ {0}
  PROVE  (a + s - 1) \div s \in Int /\ ((a + s - 1) \div s) * s >= a
<1>1. PICK q \in Int : q = (a + s - 1) \div s
  BY SMT
<1>2. a + s - 1 < q * s + s
  BY SMT, <1>1
<1>3. q * s \in Int
  BY SMT
<1> QED
  BY SMT, <1>1, <1>2, <1>3

\* percent_to_bps_ceil never understates.
LEMMA PercentHolds ==
  ASSUME NEW p, IsPercent(p), PercentToBpsCeil(p).ok
  PROVE  PercentToBpsCeil(p).v * Pow10(Len(p.digits))
           >= (p.int * Pow10(Len(p.digits)) + Digits(p.digits)) * 100
<1>1. PICK n : n = Len(p.digits)
  OBVIOUS
<1>2. n \in Nat /\ \A k \in 1..n : p.digits[k] \in Nat
  BY <1>1 DEF IsPercent
<1>3. PICK i \in Nat, s \in Nat \ {0}, a \in Nat : i = p.int /\ s = Pow10(n) /\ a = Digits(p.digits)
  <2>1. p.int \in Nat
    BY DEF IsPercent
  <2>2. Pow10(n) \in Nat \ {0}
    BY <1>2, PowerIs
  <2>3. Numeral(0, p.digits) \in Nat
    BY <1>1, <1>2, NumeralType
  <2> QED
    BY <2>1, <2>2, <2>3 DEF Digits
<1>4. PICK q \in Int : q = (a * 100 + s - 1) \div s /\ q * s >= a * 100
  BY CeilingHolds
<1>5. PercentToBpsCeil(p) = IF n > MaxFraction \/ i * 100 + q > 10000 THEN OkxErr("MalformedResponse")
                            ELSE [ok |-> TRUE, v |-> i * 100 + q]
  BY SMT, <1>1, <1>3, <1>4 DEF PercentToBpsCeil
<1>6. ~OkxErr("MalformedResponse").ok
  BY DEF OkxErr
<1>7. PercentToBpsCeil(p).v = i * 100 + q
  BY SMT, <1>5, <1>6
<1>8. (i * 100 + q) * s = i * 100 * s + q * s
  BY SMT
<1>9. (i * s + a) * 100 = i * 100 * s + a * 100
  BY SMT
<1>10. i * 100 * s \in Int /\ q * s \in Int
  BY SMT
<1>11. (i * 100 + q) * s >= (i * s + a) * 100
  BY SMT, <1>4, <1>8, <1>9, <1>10
<1> QED
  BY SMT, <1>1, <1>3, <1>7, <1>11

\* A percentage of whole basis points is read as them.
LEMMA PercentIs ==
  ASSUME NEW p, NEW b \in Nat, b <= 10000, Len(p.digits) \in Nat, Len(p.digits) <= MaxFraction,
         p.int * 100 + (Digits(p.digits) * 100 + Pow10(Len(p.digits)) - 1) \div Pow10(Len(p.digits)) = b
  PROVE  PercentToBpsCeil(p) = [ok |-> TRUE, v |-> b]
<1>1. PICK n, h :
         /\ n = Len(p.digits)
         /\ h = p.int * 100 + (Digits(p.digits) * 100 + Pow10(Len(p.digits)) - 1) \div Pow10(Len(p.digits))
  BY SMT
<1>2. PercentToBpsCeil(p) = IF n > MaxFraction \/ h > 10000 THEN OkxErr("MalformedResponse")
                            ELSE [ok |-> TRUE, v |-> h]
  BY SMT, <1>1 DEF PercentToBpsCeil
<1>3. h = b /\ n \in Nat
  BY SMT, <1>1
<1>4. ~(n > MaxFraction) /\ ~(h > 10000)
  BY SMT, <1>1, <1>3, OkxAssumption
<1>5. PercentToBpsCeil(p) = [ok |-> TRUE, v |-> h]
  BY SMT, <1>2, <1>4
<1> QED
  BY SMT, <1>3, <1>5

\* format_bps_as_percent says the basis points it is given.
LEMMA SlippageHolds ==
  ASSUME NEW bps \in Nat, bps <= 10000
  PROVE  SlippageIsSent(bps)
<1>1. PICK w \in Nat : w = bps \div 100
  BY SMT
<1>2. PICK f \in Nat : f = bps % 100 /\ f <= 99
  BY SMT
<1>3. w * 100 + f = bps
  BY SMT, <1>1, <1>2
<1>4. PICK t \in Nat : t = f \div 10
  BY SMT
<1>5. PICK u \in Nat : u = f % 10
  BY SMT
<1>6. t * 10 + u = f
  BY SMT, <1>4, <1>5
<1> DEFINE ds == IF f = 0 THEN << >> ELSE IF u = 0 THEN <<t>> ELSE <<t, u>>
<1>7. FormatBpsAsPercent(bps) = [neg |-> FALSE, int |-> w, digits |-> ds]
  BY SMT, <1>1, <1>2, <1>4, <1>5 DEF FormatBpsAsPercent
<1>8. PICK p : p = FormatBpsAsPercent(bps) /\ p.int = w /\ p.digits = ds
  BY SMT, <1>7
<1>9. ASSUME NEW n \in Nat, n <= 2, NEW a \in Nat, NEW z \in Nat \ {0},
              Len(p.digits) = n, Digits(p.digits) = a, Pow10(n) = z, (a * 100 + z - 1) \div z = f
       PROVE  SlippageIsSent(bps)
  <2> HIDE DEF ds
  <2>1. n <= MaxFraction
    BY SMT, <1>9, OkxAssumption
  <2>2. Digits(p.digits) * 100 + Pow10(Len(p.digits)) - 1 = a * 100 + z - 1
    BY SMT, <1>9
  <2>3. (Digits(p.digits) * 100 + Pow10(Len(p.digits)) - 1) \div Pow10(Len(p.digits)) = f
    BY SMT, <1>9, <2>2
  <2>4. p.int * 100 + (Digits(p.digits) * 100 + Pow10(Len(p.digits)) - 1) \div Pow10(Len(p.digits)) = bps
    BY SMT, <1>3, <1>8, <2>3
  <2>5. PercentToBpsCeil(p) = [ok |-> TRUE, v |-> bps]
    BY SMT, <1>9, <2>1, <2>4, PercentIs
  <2> QED
    BY SMT, <1>8, <2>5 DEF SlippageIsSent
<1>10. CASE f = 0
  <2>1. Len(p.digits) = 0
    BY SMT, <1>8, <1>10
  <2>2. Digits(p.digits) = 0 /\ Pow10(0) = 1
    BY SMT, <2>1, ShortNumerals, PowerIs DEF Digits
  <2>3. (0 * 100 + 1 - 1) \div 1 = f
    BY SMT, <1>10
  <2> HIDE DEF ds
  <2> QED
    BY SMT, <1>9, <2>1, <2>2, <2>3
<1>11. CASE f # 0 /\ u = 0
  <2>1. p.digits = <<t>>
    BY SMT, <1>8, <1>11
  <2>2. Len(p.digits) = 1 /\ p.digits[1] = t
    BY SMT, <2>1
  <2>3. Numeral(0, p.digits) = 0 * 10 + t
    BY SMT, <2>2, ShortNumerals
  <2>4. PICK n \in Nat, z \in Nat \ {0}, a \in Nat :
            /\ n = Len(p.digits) /\ a = Digits(p.digits) /\ z = Pow10(n)
            /\ n = 1 /\ a = t /\ z = 10
    BY SMT, <2>2, <2>3, PowerIs DEF Digits
  <2>5. (a * 100 + z - 1) \div z = f /\ n <= 2
    BY SMT, <1>6, <1>11, <2>4
  <2> HIDE DEF ds
  <2> QED
    BY SMT, <1>9, <2>4, <2>5
<1>12. CASE f # 0 /\ u # 0
  <2>1. p.digits = <<t, u>>
    BY SMT, <1>8, <1>12
  <2>2. Len(p.digits) = 2 /\ p.digits[1] = t /\ p.digits[2] = u
    BY SMT, <2>1
  <2>3. Numeral(0, p.digits) = (0 * 10 + t) * 10 + u
    BY SMT, <2>2, ShortNumerals
  <2>4. PICK n \in Nat, z \in Nat \ {0}, a \in Nat :
            /\ n = Len(p.digits) /\ a = Digits(p.digits) /\ z = Pow10(n)
            /\ n = 2 /\ a = f /\ z = 100
    BY SMT, <1>6, <2>2, <2>3, PowerIs DEF Digits
  <2>5. (a * 100 + z - 1) \div z = f /\ n <= 2
    BY SMT, <2>4
  <2> HIDE DEF ds
  <2> QED
    BY SMT, <1>9, <2>4, <2>5
<1> QED
  BY SMT, <1>10, <1>11, <1>12

\* Two slippages are not sent as the same percentage.
LEMMA OneSlippage ==
  ASSUME NEW a \in Nat, NEW b \in Nat, a <= 10000, b <= 10000, FormatBpsAsPercent(a) = FormatBpsAsPercent(b)
  PROVE  a = b
<1>1. ASSUME NEW c \in Nat, c <= 10000 PROVE PercentToBpsCeil(FormatBpsAsPercent(c)).v = c
  <2>1. PICK r : r = PercentToBpsCeil(FormatBpsAsPercent(c))
    BY SMT
  <2>2. r = [ok |-> TRUE, v |-> c]
    BY SMT, <1>1, <2>1, SlippageHolds DEF SlippageIsSent
  <2> QED
    BY SMT, <2>1, <2>2
<1>2. PICK g : g = FormatBpsAsPercent(a)
  BY SMT
<1>3. g = FormatBpsAsPercent(b)
  BY SMT, <1>2
<1>4. PercentToBpsCeil(g).v = a
  BY SMT, <1>1, <1>2
<1>5. PercentToBpsCeil(g).v = b
  BY SMT, <1>1, <1>3
<1> QED
  BY SMT, <1>4, <1>5

(***************************************************************************)
(* Signatures.                                                             *)
(***************************************************************************)
\* Two days have not the same date.
LEMMA OneDate ==
  ASSUME NEW m \in Int, NEW n \in Int, CivilFromDays(m) = CivilFromDays(n)
  PROVE  m = n
<1>1. ASSUME NEW x \in Int
      PROVE \E era \in Int, y \in Int, mp \in Int, d \in Int, yy \in Int, mm \in Int :
              /\ 0 <= y /\ y <= 399 /\ 0 <= mp /\ mp <= 11
              /\ x + 719468 = era * 146097 + YearStart(y) + (MonthStart(mp) + d - 1)
              /\ yy = y + era * 400 + (IF mp < 10 THEN 0 ELSE 1)
              /\ mm = (IF mp < 10 THEN mp + 3 ELSE mp - 9)
              /\ CivilFromDays(x) = CivilDate(yy, mm, d)
  <2>1. PICK era, y, doy : IsDay(x + 719468, era, y, doy) /\ CivilFromDays(x) = DateOf(era, y, doy)
    BY SMT, DayIs
  <2>2. /\ era \in Int /\ y \in Int /\ 0 <= y /\ y <= 399 /\ doy \in Int /\ 0 <= doy /\ doy <= LastDay(y)
        /\ x + 719468 = era * 146097 + YearStart(y) + doy
    BY SMT, <2>1 DEF IsDay, InYear
  <2>3. LastDay(y) <= 365 /\ LastDay(y) \in Int
    BY SMT, <2>2, YearLength
  <2>4. doy <= 365
    BY SMT, <2>2, <2>3
  <2>5. PICK mp \in Int : /\ 0 <= mp /\ mp <= 11
                          /\ MonthStart(mp) <= doy /\ doy < MonthStart(mp + 1)
    BY SMT, <2>2, <2>4, MonthIs
  <2>6. PICK s \in Int : s = MonthStart(mp)
    BY SMT DEF MonthStart
  <2>7. PICK d \in Int : d = doy - s + 1
    BY SMT, <2>2
  <2>8. PICK yy \in Int : yy = y + era * 400 + (IF mp < 10 THEN 0 ELSE 1)
    BY SMT, <2>2
  <2>9. PICK mm \in Int : mm = IF mp < 10 THEN mp + 3 ELSE mp - 9
    BY SMT
  <2>10. DateOf(era, y, doy) = CivilDate(yy, mm, d)
    BY SMT, <2>2, <2>5, <2>6, <2>7, <2>8, <2>9, DateIs
  <2>11. doy = s + d - 1
    BY SMT, <2>2, <2>7
  <2>12. CivilFromDays(x) = CivilDate(yy, mm, d)
    BY SMT, <2>1, <2>10
  <2>13. x + 719468 = era * 146097 + YearStart(y) + (MonthStart(mp) + d - 1)
    BY SMT, <2>2, <2>6, <2>11
  <2> QED
    BY SMT, <2>2, <2>5, <2>8, <2>9, <2>12, <2>13
<1>2. PICK era \in Int, y \in Int, mp \in Int, d \in Int, yy \in Int, mm \in Int :
              /\ 0 <= y /\ y <= 399 /\ 0 <= mp /\ mp <= 11
              /\ m + 719468 = era * 146097 + YearStart(y) + (MonthStart(mp) + d - 1)
              /\ yy = y + era * 400 + (IF mp < 10 THEN 0 ELSE 1)
              /\ mm = (IF mp < 10 THEN mp + 3 ELSE mp - 9)
              /\ CivilFromDays(m) = CivilDate(yy, mm, d)
  BY SMT, <1>1
<1>3. PICK era2 \in Int, y2 \in Int, mp2 \in Int, d2 \in Int, yy2 \in Int, mm2 \in Int :
              /\ 0 <= y2 /\ y2 <= 399 /\ 0 <= mp2 /\ mp2 <= 11
              /\ n + 719468 = era2 * 146097 + YearStart(y2) + (MonthStart(mp2) + d2 - 1)
              /\ yy2 = y2 + era2 * 400 + (IF mp2 < 10 THEN 0 ELSE 1)
              /\ mm2 = (IF mp2 < 10 THEN mp2 + 3 ELSE mp2 - 9)
              /\ CivilFromDays(n) = CivilDate(yy2, mm2, d2)
  BY SMT, <1>1
<1>4. yy = yy2 /\ mm = mm2 /\ d = d2
  <2>1. PICK r : r = CivilDate(yy, mm, d) /\ r = CivilDate(yy2, mm2, d2)
    <3>1. CivilDate(yy, mm, d) = CivilFromDays(m)
      BY SMT, <1>2
    <3>2. CivilFromDays(n) = CivilDate(yy2, mm2, d2)
      BY SMT, <1>3
    <3>3. CivilDate(yy, mm, d) = CivilDate(yy2, mm2, d2)
      BY SMT, <3>1, <3>2
    <3> QED
      BY SMT, <3>3
  <2>2. r.year = yy /\ r.month = mm /\ r.day = d
    BY SMT, <2>1 DEF CivilDate
  <2>3. r.year = yy2 /\ r.month = mm2 /\ r.day = d2
    BY SMT, <2>1 DEF CivilDate
  <2> QED
    BY SMT, <2>2, <2>3
<1>5. mp = mp2
  BY SMT, <1>2, <1>3, <1>4
<1>6. y + era * 400 = y2 + era2 * 400
  BY SMT, <1>2, <1>3, <1>4, <1>5
<1>7. era = era2
  BY SMT, <1>2, <1>3, <1>6
<1>8. y = y2
  BY SMT, <1>6, <1>7
<1>9. m + 719468 = n + 719468
  BY SMT, <1>2, <1>3, <1>4, <1>5, <1>7, <1>8
<1> QED
  BY SMT, <1>9

\* The parts of a time of day.
LEMMA TimeIs ==
  ASSUME NEW s \in Nat
  PROVE  \E d \in Int, h \in Int, m \in Int, x \in Int :
            /\ d = s \div 86400 /\ h = (s % 86400) \div 3600 /\ m = (s % 3600) \div 60 /\ x = s % 60
            /\ s = d * 86400 + h * 3600 + m * 60 + x
<1>1. PICK d \in Int : d = s \div 86400
  BY SMT
<1>2. PICK t \in Int : t = s % 86400 /\ 0 <= t /\ t < 86400 /\ s = d * 86400 + t
  BY SMT, <1>1
<1>3. PICK h \in Int : h = t \div 3600
  BY SMT
<1>4. PICK r \in Int : r = t - h * 3600
  BY SMT
<1>5. 0 <= r /\ r < 3600
  BY SMT, <1>3, <1>4
<1>6. s % 3600 = r
  BY SMT, <1>2, <1>4, <1>5
<1>7. PICK m \in Int : m = r \div 60
  BY SMT
<1>8. PICK x \in Int : x = r - m * 60
  BY SMT
<1>9. 0 <= x /\ x < 60
  BY SMT, <1>7, <1>8
<1>10. s % 60 = x
  BY SMT, <1>2, <1>4, <1>8, <1>9
<1>11. s = d * 86400 + h * 3600 + m * 60 + x
  BY SMT, <1>2, <1>4, <1>8
<1> QED
  BY SMT, <1>1, <1>2, <1>3, <1>6, <1>7, <1>10, <1>11

\* Two seconds have not the same time stamp.
LEMMA OneTime ==
  ASSUME NEW a \in Nat, NEW b \in Nat, FormatRfc3339(a) = FormatRfc3339(b)
  PROVE  a = b
<1>1. PICK d \in Int, h \in Int, m \in Int, x \in Int :
            /\ d = a \div 86400 /\ h = (a % 86400) \div 3600 /\ m = (a % 3600) \div 60 /\ x = a % 60
            /\ a = d * 86400 + h * 3600 + m * 60 + x
  BY SMT, TimeIs
<1>2. PICK e \in Int, i \in Int, n \in Int, y \in Int :
            /\ e = b \div 86400 /\ i = (b % 86400) \div 3600 /\ n = (b % 3600) \div 60 /\ y = b % 60
            /\ b = e * 86400 + i * 3600 + n * 60 + y
  BY SMT, TimeIs
<1>3. FormatRfc3339(a) = [date |-> CivilFromDays(d), hour |-> h, minute |-> m, second |-> x]
  BY SMT, <1>1 DEF FormatRfc3339
<1>4. FormatRfc3339(b) = [date |-> CivilFromDays(e), hour |-> i, minute |-> n, second |-> y]
  BY SMT, <1>2 DEF FormatRfc3339
<1>5. CivilFromDays(d) = CivilFromDays(e) /\ h = i /\ m = n /\ x = y
  <2>1. PICK r : r = FormatRfc3339(a) /\ r = FormatRfc3339(b)
    BY SMT
  <2>2. r.date = CivilFromDays(d) /\ r.hour = h /\ r.minute = m /\ r.second = x
    BY SMT, <1>3, <2>1
  <2>3. r.date = CivilFromDays(e) /\ r.hour = i /\ r.minute = n /\ r.second = y
    BY SMT, <1>4, <2>1
  <2> QED
    BY SMT, <2>2, <2>3
<1>6. d = e
  BY SMT, <1>5, OneDate
<1> QED
  BY SMT, <1>1, <1>2, <1>5, <1>6

\* A signature stands for one request.
LEMMA SignatureHolds ==
  ASSUME NEW p, NEW q, NEW path, NEW a \in Nat, NEW b \in Nat, IsSlippage(p.slippage), IsSlippage(q.slippage)
  PROVE  SignatureNamesRequest(p, q, path, a, b)
<1>1. SUFFICES ASSUME SignRequest(p, path, a).tag = SignRequest(q, path, b).tag
               PROVE  /\ OkxChainIndex(p.chain) = OkxChainIndex(q.chain)
                      /\ p.in[2] = q.in[2] /\ p.out[2] = q.out[2]
                      /\ p.amount = q.amount /\ p.slippage = q.slippage /\ a = b
  BY SMT DEF SignatureNamesRequest
<1>2. <<FormatRfc3339(a), "GET", path, OkxQuery(p), NoBody>>
        = <<FormatRfc3339(b), "GET", path, OkxQuery(q), NoBody>>
  BY SMT, <1>1 DEF SignRequest
<1>3. FormatRfc3339(a) = FormatRfc3339(b) /\ OkxQuery(p) = OkxQuery(q)
  BY SMT, <1>2
<1>4. a = b
  BY SMT, <1>3, OneTime
<1> DEFINE x == IF p.slippage < 0 THEN << >> ELSE <<FormatBpsAsPercent(p.slippage)>>
           y == IF q.slippage < 0 THEN << >> ELSE <<FormatBpsAsPercent(q.slippage)>>
<1>5. /\ OkxChainIndex(p.chain) = OkxChainIndex(q.chain)
      /\ p.in[2] = q.in[2] /\ p.out[2] = q.out[2] /\ p.amount = q.amount /\ x = y
  BY SMT, <1>3 DEF OkxQuery
<1>6. PICK s \in Int, t \in Int : s = p.slippage /\ t = q.slippage /\ -1 <= s /\ s <= 10000 /\ -1 <= t /\ t <= 10000
  BY SMT DEF IsSlippage
<1>7. s < 0 <=> t < 0
  <2>1. Len(x) = IF s < 0 THEN 0 ELSE 1
    BY SMT, <1>6
  <2>2. Len(y) = IF t < 0 THEN 0 ELSE 1
    BY SMT, <1>6
  <2> HIDE DEF x, y
  <2>3. Len(x) = Len(y)
    BY SMT, <1>5
  <2> QED
    BY SMT, <2>1, <2>2, <2>3
<1>8. ~(s < 0) => FormatBpsAsPercent(s) = FormatBpsAsPercent(t)
  BY SMT, <1>5, <1>6, <1>7
<1> HIDE DEF x, y
<1>9. s = t
  <2>1. CASE s < 0
    BY SMT, <1>6, <1>7, <2>1
  <2>2. CASE ~(s < 0)
    <3>1. s \in Nat /\ t \in Nat
      BY SMT, <1>7, <2>2
    <3>2. s <= 10000 /\ t <= 10000 /\ FormatBpsAsPercent(s) = FormatBpsAsPercent(t)
      BY SMT, <1>6, <1>8, <2>2
    <3> QED
      BY SMT, <3>1, <3>2, OneSlippage
  <2> QED
    BY SMT, <2>1, <2>2
<1> QED
  BY SMT, <1>4, <1>5, <1>6, <1>9

(***************************************************************************)
(* Answers.                                                                *)
(***************************************************************************)
\* What resolve_address resolves to is what every stated address says.
LEMMA AddressHolds ==
  ASSUME NEW top, NEW nested, NEW r, r = ResolveAddress(top, nested), r.ok
  PROVE  /\ Stated(top) => top.v = r.v
         /\ Stated(nested) => nested.v = r.v
<1>1. ~OkxErr("MalformedResponse").ok
  BY DEF OkxErr
<1>2. CASE Stated(top) /\ Stated(nested)
  <2>1. r = IF top.v = nested.v THEN [ok |-> TRUE, v |-> top.v] ELSE OkxErr("MalformedResponse")
    BY <1>2 DEF ResolveAddress
  <2> QED
    BY <1>1, <2>1
<1>3. CASE Stated(top) /\ ~Stated(nested)
  <2>1. r = [ok |-> TRUE, v |-> top.v]
    BY <1>3 DEF ResolveAddress
  <2> QED
    BY <1>3, <2>1
<1>4. CASE Stated(nested) /\ ~Stated(top)
  <2>1. r = [ok |-> TRUE, v |-> nested.v]
    BY <1>4 DEF ResolveAddress
  <2> QED
    BY <1>4, <2>1
<1> QED
  BY <1>2, <1>3, <1>4

\* An answer without an error is about the request.
LEMMA AnswerHolds ==
  ASSUME NEW q, NEW e, AnswerError(q, e) = "none"
  PROVE  /\ e.code = "0" /\ e.data[1].chainIndex.v = OkxChainIndex(q.chain)
         /\ ResolveAddress(e.data[1].from, e.data[1].fromNested).ok
         /\ ResolveAddress(e.data[1].to, e.data[1].toNested).ok
         /\ ResolveAddress(e.data[1].from, e.data[1].fromNested).v = q.in[2]
         /\ ResolveAddress(e.data[1].to, e.data[1].toNested).v = q.out[2]
BY DEF AnswerError

\* parse_atomic_decimal, where zero is refused, takes a number that is not zero.
LEMMA AmountHolds ==
  ASSUME NEW t, NEW r, r = ParseAtomicDecimal(t, TRUE), r.ok
  PROVE  t.text = "ok" /\ r.v = t.v /\ t.v # 0
<1>1. ~OkxErr("MalformedResponse").ok /\ ~OkxErr("QuoteMismatch").ok
  BY DEF OkxErr
<1>2. t.text = "ok"
  BY <1>1 DEF ParseAtomicDecimal
<1>3. t.v # 0
  BY <1>1, <1>2 DEF ParseAtomicDecimal
<1>4. r = [ok |-> TRUE, v |-> t.v]
  BY <1>2, <1>3 DEF ParseAtomicDecimal
<1>5. r.v = t.v
  <2>1. PICK x : x = t.v
    OBVIOUS
  <2>2. r = [ok |-> TRUE, v |-> x]
    BY <1>4, <2>1
  <2>3. [ok |-> TRUE, v |-> x].v = x
    OBVIOUS
  <2>4. r.v = x
    BY Zenon, <2>2, <2>3
  <2> QED
    BY <2>1, <2>4
<1> QED
  BY <1>2, <1>3, <1>5

\* A request that is made is for a chain OKX has.
LEMMA RequestHolds ==
  ASSUME NEW q, OkxQuoteRequestError(q) = "none"
  PROVE  OkxChainIndex(q.chain) # 0
BY DEF OkxQuoteRequestError

\* The client answers what the normalizer made of a good reply.
LEMMA ClientHolds ==
  ASSUME NEW reply, NEW x, NEW n, n = ClientAnswer(reply, x), n.ok
  PROVE  n = x /\ reply.status = 200
<1>1. /\ ~OkxErr("TransportUnavailable").ok /\ ~OkxErr("TransportFailure").ok /\ ~OkxErr("ProviderError").ok
      /\ ~OkxErr("OversizedResponse").ok /\ ~OkxErr("MalformedResponse").ok
  BY DEF OkxErr
<1> QED
  BY <1>1 DEF ClientAnswer

\* What normalize_quote accepts.
LEMMA QuoteHolds ==
  ASSUME NEW q, NEW e, NEW n, n = NormalizeQuote(q, e, 0), n.ok, NEW d, d = e.data[1]
  PROVE  /\ AnswerError(q, e) = "none"
         /\ d.toAmount.text = "ok" /\ n.amountOut = d.toAmount.v /\ d.toAmount.v # 0
         /\ ParsePriceImpact(d.impact).ok
         /\ n.impact = ParsePriceImpact(d.impact).v
<1>1. PICK err, got, impact : /\ err = AnswerError(q, e)
                              /\ got = ParseAtomicDecimal(d.toAmount, TRUE)
                              /\ impact = ParsePriceImpact(d.impact)
  OBVIOUS
<1>2. ~OkxErr(err).ok
  BY DEF OkxErr
<1>3. err = "none"
  BY <1>1, <1>2 DEF NormalizeQuote
<1>4. got.ok
  BY <1>1, <1>3 DEF NormalizeQuote
<1>5. impact.ok
  BY <1>1, <1>3, <1>4 DEF NormalizeQuote
<1>6. n = [ok |-> TRUE, chain |-> q.chain, in |-> q.in, out |-> q.out,
           amountIn |-> q.amount, amountOut |-> got.v, impact |-> impact.v, at |-> 0]
  BY <1>1, <1>3, <1>4, <1>5 DEF NormalizeQuote
<1>7. n.amountOut = got.v /\ n.impact = impact.v
  BY <1>6
<1>8. d.toAmount.text = "ok" /\ got.v = d.toAmount.v /\ d.toAmount.v # 0
  BY Zenon, <1>1, <1>4, AmountHolds
<1> QED
  BY <1>1, <1>3, <1>5, <1>7, <1>8

\* An accepted quote is ours.
LEMMA QuoteOurs ==
  ASSUME NEW q, NEW e, NEW reply, NEW d, d = e.data[1],
         d.toAmount.text = "ok" => d.toAmount.v \in Nat,
         d.impact.text = "ok" => IsPercent(d.impact.v)
  PROVE  QuoteIsOurs(q, e, reply)
<1>1. PICK n : n = ClientAnswer(reply, NormalizeQuote(q, e, 0))
  OBVIOUS
<1>2. SUFFICES ASSUME OkxQuoteRequestError(q) = "none", n.ok
               PROVE  /\ reply.status = 200 /\ e.code = "0"
                      /\ d.chainIndex.v = OkxChainIndex(q.chain) /\ d.chainIndex.v # 0
                      /\ \A t \in {d.from, d.fromNested} : Stated(t) => t.v = q.in[2]
                      /\ \A t \in {d.to, d.toNested} : Stated(t) => t.v = q.out[2]
                      /\ n.amountOut > 0
                      /\ d.impact.text = "ok" =>
                            n.impact * Pow10(Len(d.impact.v.digits))
                              >= (d.impact.v.int * Pow10(Len(d.impact.v.digits)) + Digits(d.impact.v.digits)) * 100
  BY <1>1 DEF QuoteIsOurs
<1>3. n = NormalizeQuote(q, e, 0) /\ reply.status = 200
  BY <1>1, <1>2, ClientHolds
<1>4. /\ AnswerError(q, e) = "none"
      /\ d.toAmount.text = "ok" /\ n.amountOut = d.toAmount.v /\ d.toAmount.v # 0
      /\ ParsePriceImpact(d.impact).ok
      /\ n.impact = ParsePriceImpact(d.impact).v
  BY <1>2, <1>3, QuoteHolds
<1>5. /\ e.code = "0" /\ d.chainIndex.v = OkxChainIndex(q.chain)
      /\ ResolveAddress(d.from, d.fromNested).ok /\ ResolveAddress(d.to, d.toNested).ok
      /\ ResolveAddress(d.from, d.fromNested).v = q.in[2] /\ ResolveAddress(d.to, d.toNested).v = q.out[2]
  BY <1>1, <1>4, AnswerHolds
<1>6. d.chainIndex.v # 0
  BY <1>2, <1>5, RequestHolds
<1>7. \A t \in {d.from, d.fromNested} : Stated(t) => t.v = q.in[2]
  BY <1>5, AddressHolds
<1>8. \A t \in {d.to, d.toNested} : Stated(t) => t.v = q.out[2]
  BY <1>5, AddressHolds
<1>9. n.amountOut > 0
  <2>1. n.amountOut \in Nat /\ n.amountOut # 0
    BY <1>4
  <2> QED
    BY <2>1
<1>10. ASSUME d.impact.text = "ok"
       PROVE  n.impact * Pow10(Len(d.impact.v.digits))
                >= (d.impact.v.int * Pow10(Len(d.impact.v.digits)) + Digits(d.impact.v.digits)) * 100
  <2>1. PICK p : p = d.impact.v
    OBVIOUS
  <2>2. ParsePriceImpact(d.impact) = PercentToBpsCeil(p)
    BY <1>10, <2>1 DEF ParsePriceImpact
  <2>3. PercentToBpsCeil(p).ok /\ n.impact = PercentToBpsCeil(p).v
    BY <1>4, <2>2
  <2>4. IsPercent(p)
    BY <1>1, <1>10, <2>1
  <2>5. n.impact * Pow10(Len(p.digits)) >= (p.int * Pow10(Len(p.digits)) + Digits(p.digits)) * 100
    BY <2>3, <2>4, PercentHolds
  <2> QED
    BY <2>1, <2>5
<1> QED
  BY <1>3, <1>5, <1>6, <1>7, <1>8, <1>9, <1>10

\* What resolve_optional_address and resolve_optional_decimal resolve to is what every stated one says.
LEMMA OptionalHolds ==
  ASSUME NEW cs, NEW r, r = ResolveOptional(cs), r.ok
  PROVE  /\ \A i \in DOMAIN cs : Stated(cs[i]) => cs[i].v = r.v
         /\ (\A i \in DOMAIN cs : ~Stated(cs[i])) => r.v = "none"
<1> DEFINE given == {i \in DOMAIN cs : Stated(cs[i])}
<1>1. ~OkxErr("MalformedResponse").ok
  BY DEF OkxErr
<1>2. CASE given = {}
  <2>1. r = [ok |-> TRUE, v |-> "none"]
    BY <1>2 DEF ResolveOptional
  <2> QED
    BY <1>2, <2>1
<1>3. CASE given # {}
  <2>1. ~(\E i \in given : cs[i].text = "bad")
    BY <1>1, <1>3 DEF ResolveOptional
  <2>2. ~(\E i, j \in given : cs[i].v # cs[j].v)
    BY <1>1, <1>3, <2>1 DEF ResolveOptional
  <2>3. PICK k : k = CHOOSE i \in given : TRUE
    OBVIOUS
  <2>4. k \in given
    BY <1>3, <2>3
  <2>5. r = [ok |-> TRUE, v |-> cs[k].v]
    BY <1>3, <2>1, <2>2, <2>3 DEF ResolveOptional
  <2>6. r.v = cs[k].v
    BY <2>5
  <2> QED
    BY <2>2, <2>4, <2>6
<1> QED
  BY <1>2, <1>3

\* What normalize_swap accepts.
LEMMA SwapHolds ==
  ASSUME NEW q, NEW e, NEW n, n = NormalizeSwap(q, e, 0), n.ok, NEW d, d = e.data[1]
  PROVE  /\ ResolveOptional(d.floors).ok /\ n.floor = ResolveOptional(d.floors).v
         /\ ResolveOptional(d.spenders).ok /\ n.spender = ResolveOptional(d.spenders).v
         /\ ResolveOptional(d.receivers).ok
         /\ n.receiver = IF ResolveOptional(d.receivers).v = "none" THEN n.wallet ELSE ResolveOptional(d.receivers).v
<1>1. PICK err, got, value : /\ err = AnswerError(q, e)
                             /\ got = ParseAtomicDecimal(d.toAmount, TRUE)
                             /\ value = ParseAtomicDecimal(d.tx.value, FALSE)
  OBVIOUS
<1>2. PICK floor, spender, receiver : /\ floor = ResolveOptional(d.floors)
                                      /\ spender = ResolveOptional(d.spenders)
                                      /\ receiver = ResolveOptional(d.receivers)
  OBVIOUS
<1>3. ~OkxErr(err).ok /\ ~OkxErr("MalformedResponse").ok
  BY DEF OkxErr
<1>4. err = "none" /\ got.ok
  BY <1>1, <1>3 DEF NormalizeSwap
<1>5. ~(d.tx.text # "ok" \/ d.tx.from.text # "ok" \/ d.tx.to.text # "ok") /\ value.ok
  BY <1>1, <1>3, <1>4 DEF NormalizeSwap
<1>6. d.tx.calldata.text = "ok" /\ floor.ok /\ spender.ok /\ receiver.ok
  BY <1>1, <1>2, <1>3, <1>4, <1>5 DEF NormalizeSwap
<1>7. n = [ok |-> TRUE, chain |-> q.chain, in |-> q.in, out |-> q.out,
           wallet |-> d.tx.from.v, router |-> d.tx.to.v, amountIn |-> q.amount,
           amountOut |-> got.v, value |-> value.v, floor |-> floor.v,
           spender |-> spender.v, calldata |-> d.tx.calldata.v, at |-> 0,
           receiver |-> IF receiver.v = "none" THEN d.tx.from.v ELSE receiver.v]
  BY <1>1, <1>2, <1>4, <1>5, <1>6 DEF NormalizeSwap
<1>8. n.floor = floor.v /\ n.spender = spender.v /\ n.wallet = d.tx.from.v
  BY <1>7
<1>9. n.receiver = IF receiver.v = "none" THEN d.tx.from.v ELSE receiver.v
  BY <1>7
<1> QED
  BY <1>2, <1>6, <1>8, <1>9

\* An accepted swap hides nothing.
LEMMA SwapWhole ==
  ASSUME NEW q, NEW e, NEW reply,
         \A i \in DOMAIN e.data[1].receivers :
            Stated(e.data[1].receivers[i]) => e.data[1].receivers[i].v # "none"
  PROVE  SwapIsWhole(q, e, reply)
<1>1. PICK n, d : n = ClientAnswer(reply, NormalizeSwap(q, e, 0)) /\ d = e.data[1]
  OBVIOUS
<1> DEFINE Named(candidates, v) == \A i \in DOMAIN candidates : Stated(candidates[i]) => candidates[i].v = v
<1>2. SUFFICES ASSUME n.ok
               PROVE  /\ Named(d.receivers, n.receiver) /\ Named(d.spenders, n.spender)
                      /\ Named(d.floors, n.floor)
                      /\ (\A i \in DOMAIN d.receivers : ~Stated(d.receivers[i])) => n.receiver = n.wallet
  BY <1>1 DEF SwapIsWhole
<1>3. n = NormalizeSwap(q, e, 0)
  BY <1>1, <1>2, ClientHolds
<1>4. /\ ResolveOptional(d.floors).ok /\ n.floor = ResolveOptional(d.floors).v
      /\ ResolveOptional(d.spenders).ok /\ n.spender = ResolveOptional(d.spenders).v
      /\ ResolveOptional(d.receivers).ok
      /\ n.receiver = IF ResolveOptional(d.receivers).v = "none" THEN n.wallet ELSE ResolveOptional(d.receivers).v
  BY <1>1, <1>2, <1>3, SwapHolds
<1>5. Named(d.spenders, n.spender) /\ Named(d.floors, n.floor)
  BY <1>4, OptionalHolds
<1>6. PICK r : r = ResolveOptional(d.receivers)
  OBVIOUS
<1>7. /\ \A i \in DOMAIN d.receivers : Stated(d.receivers[i]) => d.receivers[i].v = r.v
      /\ (\A i \in DOMAIN d.receivers : ~Stated(d.receivers[i])) => r.v = "none"
  BY <1>4, <1>6, OptionalHolds
<1>8. Named(d.receivers, n.receiver)
  BY <1>1, <1>4, <1>6, <1>7
<1>9. (\A i \in DOMAIN d.receivers : ~Stated(d.receivers[i])) => n.receiver = n.wallet
  BY <1>4, <1>6, <1>7
<1> QED
  BY <1>5, <1>8, <1>9

(***************************************************************************)
(* The client.                                                             *)
(***************************************************************************)
\* Whatever the client is asked to sign, and whatever it is answered (normalize_quote,
\* normalize_swap, sign_request): what it accepts is ours.
THEOREM OkxOurs == OkxSpec => []OkxAnswersAreOurs
<1> DEFINE Inv == okx \subseteq OkxCases
<1>1. OkxInit => Inv
  BY DEF OkxInit
<1>2. Inv /\ [OkxNext]_okx => Inv'
  BY DEF OkxNext
<1>3. Inv => OkxAnswersAreOurs
  <2>1. SUFFICES ASSUME NEW c, OkxCase(c)
                 PROVE  /\ c.kind = "quote" => \A reply \in c.replies : QuoteIsOurs(c.request, c.answer, reply)
                        /\ c.kind = "swap" => \A reply \in c.replies : SwapIsWhole(c.request, c.answer, reply)
                        /\ c.kind = "sign" => /\ DateIsCalendar(c.days) /\ SlippageIsSent(c.bps)
                                              /\ \A q \in c.others, s \in c.times :
                                                    SignatureNamesRequest(c.request, q, "quote", c.at, s)
    BY OkxAssumption DEF OkxAnswersAreOurs
  <2>2. ASSUME c.kind = "quote", NEW reply \in c.replies PROVE QuoteIsOurs(c.request, c.answer, reply)
    BY <2>1, <2>2, QuoteOurs DEF OkxCase
  <2>3. ASSUME c.kind = "swap", NEW reply \in c.replies PROVE SwapIsWhole(c.request, c.answer, reply)
    BY <2>1, <2>3, SwapWhole DEF OkxCase
  <2>4. ASSUME c.kind = "sign" PROVE DateIsCalendar(c.days) /\ SlippageIsSent(c.bps)
    <3>1. c.days \in Int /\ c.bps \in Nat /\ c.bps <= 10000
      BY SMT, <2>1, <2>4 DEF OkxCase
    <3> QED
      BY SMT, <3>1, CalendarHolds, SlippageHolds
  <2>5. ASSUME c.kind = "sign", NEW q \in c.others, NEW s \in c.times
        PROVE  SignatureNamesRequest(c.request, q, "quote", c.at, s)
    <3>1. c.at \in Nat /\ s \in Nat /\ IsSlippage(c.request.slippage) /\ IsSlippage(q.slippage)
      BY SMT, <2>1, <2>5 DEF OkxCase
    <3> QED
      BY SMT, <3>1, SignatureHolds
  <2> QED
    BY <2>2, <2>3, <2>4, <2>5
<1> QED
  BY <1>1, <1>2, <1>3, PTL DEF OkxSpec
=============================================================================
