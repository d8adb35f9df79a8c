-------------------------- MODULE OrchestratorProofs --------------------------
(***************************************************************************)
(* What the durable store of the orchestrator keeps for every set of       *)
(* ticks, every number of faults, crashes and dropped calls, and every     *)
(* order: the outbox is gapless, the stored object only advances, and the  *)
(* stream implements the order ledger.                                     *)
(*                                                                         *)
(* The invariant relates each call's snapshot to the stored object: it is  *)
(* older, or it is the object.  So the version check of a write is all     *)
(* that the write needs.                                                   *)
(***************************************************************************)
EXTENDS Orchestrator, FiniteSetTheorems, TLAPS

Awaits == {"idle", "append", "evaluate", "identity", "prepare", "bind", "execute", "claimed",
           "sent", "resolve", "attempts", "reconcile", "publish", "mark"}

\* Where a call goes on once its transitions are persisted.
Resumes == {"idle", "publish", "evaluate", "identity", "bind"}

Resolutions == {"Filled", "NonCompliantFill", "Rejected", "FailedBeforeSubmit", "Unknown"}

Phases == InFlightPhases \cup TerminalPhases

FillDeltas == {NoFill} \cup [input : 0..MaxInput, remaining_after : 0..MaxInput]

Orders ==
    [status : OrderStatus, remaining : 0..MaxInput, filled : Nat,
     version : Nat, seq : Nat, published : Nat]

Events ==
    [from : OrderStatus, to : OrderStatus, fill : FillDeltas, at : 0..MaxNow,
     status : OrderStatus, remaining : 0..MaxInput, filled : Nat]

AttemptEvents ==
    [attempt : Nat, phase : Phases, input : Nat, compliant : BOOLEAN, at : 0..MaxNow]

Locals ==
    [at : 0..MaxNow, chunk : Nat, attempt : Nat, prior : Phases \cup {"none"},
     res : Resolutions \cup {"none"}, todo : Seq(OrderStatus), fill : FillDeltas,
     next : Resumes, mark : Nat]

StoreTypeOK ==
    /\ stream \in Seq(Events)
    /\ object \in Orders
    /\ journal \in Seq(AttemptEvents)
    /\ now \in 0..MaxNow
    /\ IsFiniteSet(delivered)

\* The object, when it is in step with the stream, is the order at its head, and
\* it was never written before its version moved on from the first.
ObjectAgrees ==
    /\ object.version >= 1
    /\ object.version = 1 => object = NewObject
    /\ object.seq = Len(stream) =>
          /\ object.status = HeadOrder.status
          /\ object.remaining = HeadOrder.remaining
          /\ object.filled = HeadOrder.filled

\* A call suspended at l with snapshot s and locals w, when the stored object is
\* o and the bus has accepted d.
Suspended(l, s, w, o, d) ==
    /\ l \in Awaits /\ s \in Orders /\ w \in Locals
    /\ s.version <= o.version
    /\ s.version = o.version => s = o
    /\ l = "append" => w.todo # <<>>
    /\ l = "resolve" => w.res \in Resolutions
    /\ l = "mark" => w.mark \in d /\ w.mark <= s.seq

CallsOK ==
    /\ pc \in [Procs -> Awaits] /\ snap \in [Procs -> Orders] /\ work \in [Procs -> Locals]
    /\ \A p \in Procs : Suspended(pc[p], snap[p], work[p], object, delivered)

StoreInv == StoreTypeOK /\ ObjectAgrees /\ OutboxIsGapless /\ CallsOK

-----------------------------------------------------------------------------
(* Records and locals *)

\* What the assumption on the constants says, split for the provers.
LEMMA Bounds ==
    /\ MaxInput \in Nat /\ MinFill \in Nat /\ 1 <= MinFill /\ MinFill <= MaxInput
    /\ MaxNow \in Nat /\ ExpiresAt \in Nat /\ MaxStream \in Nat
BY OrchestratorAssumption

\* The record of a new order (create_order) and the locals of a new call.
LEMMA NewTypes ==
    /\ NewObject \in Orders
    /\ NewObject.version = 1
    /\ IdleWork \in Locals
    /\ IdleWork.mark = 0
<1>1. NewObject \in Orders /\ NewObject.version = 1
  BY Bounds DEF NewObject, Orders, OrderStatus, Open
<1>2. NoFill \in FillDeltas /\ <<>> \in Seq(OrderStatus)
  BY DEF FillDeltas
<1>3. IdleWork \in Locals
  BY <1>2, Bounds DEF IdleWork, Locals, Resumes
<1> QED
  BY <1>1, <1>3 DEF IdleWork

\* The locals keep their types: one lemma for each shape of update.
LEMMA LocalsAt == ASSUME NEW n \in 0..MaxNow PROVE [IdleWork EXCEPT !.at = n] \in Locals
BY NewTypes DEF Locals

LEMMA LocalsMark ==
    ASSUME NEW n \in Nat
    PROVE  [IdleWork EXCEPT !.mark = n] \in Locals /\ [IdleWork EXCEPT !.mark = n].mark = n
<1>1. [IdleWork EXCEPT !.mark = n] \in Locals
  BY NewTypes DEF Locals
<1> QED
  BY <1>1 DEF IdleWork

LEMMA LocalsTodo ==
    ASSUME NEW w \in Locals, NEW todo \in Seq(OrderStatus), NEW l \in Resumes
    PROVE  /\ [w EXCEPT !.todo = todo, !.next = l] \in Locals
           /\ [w EXCEPT !.todo = todo, !.next = l].todo = todo
BY DEF Locals

LEMMA LocalsRest ==
    ASSUME NEW w \in Locals, NEW todo \in Seq(OrderStatus)
    PROVE  /\ [w EXCEPT !.todo = todo, !.fill = NoFill] \in Locals
           /\ [w EXCEPT !.todo = todo, !.fill = NoFill].todo = todo
           /\ [w EXCEPT !.todo = todo, !.fill = NoFill].res = w.res
<1>1. NoFill \in FillDeltas
  BY DEF FillDeltas
<1> QED
  BY <1>1 DEF Locals

LEMMA LocalsChunk ==
    ASSUME NEW w \in Locals, NEW n \in Nat PROVE [w EXCEPT !.chunk = n] \in Locals
BY DEF Locals

LEMMA LocalsAttempt ==
    ASSUME NEW w \in Locals, NEW n \in Nat PROVE [w EXCEPT !.attempt = n] \in Locals
BY DEF Locals

LEMMA LocalsPrior ==
    ASSUME NEW w \in Locals, NEW ph \in Phases PROVE [w EXCEPT !.prior = ph] \in Locals
BY DEF Locals

LEMMA LocalsRes ==
    ASSUME NEW w \in Locals, NEW res \in Resolutions
    PROVE  [w EXCEPT !.res = res] \in Locals /\ [w EXCEPT !.res = res].res = res
BY DEF Locals

LEMMA LocalsFill ==
    ASSUME NEW w \in Locals, NEW f \in FillDeltas PROVE [w EXCEPT !.fill = f] \in Locals
BY DEF Locals

LEMMA LocalsHead ==
    ASSUME NEW w \in Locals, NEW n \in Nat, NEW c \in Nat, NEW ph \in Phases
    PROVE  [w EXCEPT !.attempt = n, !.chunk = c, !.prior = ph] \in Locals
BY DEF Locals
-----------------------------------------------------------------------------
(* Calls *)

\* The call p goes on to await l with snapshot s and locals w.
Moves(p, l, s, w) ==
    /\ pc' = [pc EXCEPT ![p] = l]
    /\ snap' = [snap EXCEPT ![p] = s]
    /\ work' = [work EXCEPT ![p] = w]

\* The call p goes on as the stored object and the outbox allow.
Continues(p) ==
    \E l, s, w : Moves(p, l, s, w) /\ Suspended(l, s, w, object, delivered)

\* A newer object and a longer outbox suspend no call wrongly.
LEMMA StaysSuspended ==
    ASSUME NEW l, NEW s, NEW w, NEW o \in Orders, NEW o2 \in Orders, NEW d, NEW d2,
           Suspended(l, s, w, o, d), o2 = o \/ o2.version > o.version, d \subseteq d2
    PROVE  Suspended(l, s, w, o2, d2)
<1>1. s.version \in Nat /\ o.version \in Nat /\ o2.version \in Nat
  BY DEF Suspended, Orders
<1> QED
  BY <1>1 DEF Suspended

\* One call moves; the others stay where they are.
LEMMA OneCallMoves ==
    ASSUME CallsOK, NEW p \in Procs, NEW l, NEW s, NEW w, Moves(p, l, s, w),
           Suspended(l, s, w, object', delivered'),
           object \in Orders, object' \in Orders,
           object' = object \/ object'.version > object.version,
           delivered \subseteq delivered'
    PROVE  CallsOK'
<1>1. l \in Awaits /\ s \in Orders /\ w \in Locals
  BY DEF Suspended
<1>2. pc' \in [Procs -> Awaits] /\ snap' \in [Procs -> Orders] /\ work' \in [Procs -> Locals]
  BY <1>1 DEF CallsOK, Moves
<1>3. ASSUME NEW q \in Procs PROVE Suspended(pc'[q], snap'[q], work'[q], object', delivered')
  <2>1. CASE q = p
    <3>1. pc'[q] = l /\ snap'[q] = s /\ work'[q] = w
      BY <2>1 DEF CallsOK, Moves
    <3> QED
      BY <3>1
  <2>2. CASE q # p
    <3>1. pc'[q] = pc[q] /\ snap'[q] = snap[q] /\ work'[q] = work[q]
      BY <2>2 DEF CallsOK, Moves
    <3>2. Suspended(pc[q], snap[q], work[q], object, delivered)
      BY DEF CallsOK
    <3>3. Suspended(pc[q], snap[q], work[q], object', delivered')
      BY <3>2, StaysSuspended
    <3> QED
      BY <3>1, <3>3
  <2> QED
    BY <2>1, <2>2
<1> QED
  BY <1>2, <1>3 DEF CallsOK

\* No call moves.
LEMMA CallsStay ==
    ASSUME CallsOK, UNCHANGED callVars, object \in Orders, object' \in Orders,
           object' = object \/ object'.version > object.version,
           delivered \subseteq delivered'
    PROVE  CallsOK'
<1>1. ASSUME NEW q \in Procs PROVE Suspended(pc[q], snap[q], work[q], object', delivered')
  <2>1. Suspended(pc[q], snap[q], work[q], object, delivered)
    BY DEF CallsOK
  <2> QED
    BY <2>1, StaysSuspended
<1>2. pc' = pc /\ snap' = snap /\ work' = work
  BY DEF callVars
<1> QED
  BY <1>1, <1>2 DEF CallsOK

\* What is known of a suspended call.
LEMMA CallFacts ==
    ASSUME CallsOK, NEW p \in Procs
    PROVE  /\ pc[p] \in Awaits /\ snap[p] \in Orders /\ work[p] \in Locals
           /\ Suspended(pc[p], snap[p], work[p], object, delivered)
BY DEF CallsOK

\* A call that has ended, or is about to publish, holds no snapshot.
LEMMA RestsAnywhere ==
    ASSUME StoreTypeOK, ObjectAgrees, NEW o \in Orders, o.version >= 1,
           o.version = 1 => o = NewObject, NEW l \in {"idle", "publish"}, NEW d
    PROVE  Suspended(l, NewObject, IdleWork, o, d)
<1>1. o.version \in Nat
  BY DEF Orders
<1> QED
  BY <1>1, NewTypes DEF Suspended, Awaits

\* Finish, Publish and Fail.
LEMMA Rests ==
    ASSUME NEW p \in Procs, Finish(p) \/ Publish(p) \/ Fail(p)
    PROVE  \E l \in {"idle", "publish"} : Moves(p, l, NewObject, IdleWork)
<1>1. CASE Finish(p)
  BY <1>1 DEF Finish, Moves
<1>2. CASE Publish(p)
  <2>1. CASE HasBus
    BY <1>2, <2>1 DEF Publish, Moves
  <2>2. CASE ~HasBus
    BY <1>2, <2>2 DEF Publish, Moves
  <2> QED
    BY <2>1, <2>2
<1> QED
  BY <1>1, <1>2 DEF Fail

LEMMA RestContinues ==
    ASSUME StoreInv, NEW p \in Procs, Finish(p) \/ Publish(p) \/ Fail(p)
    PROVE  Continues(p)
<1>1. PICK l \in {"idle", "publish"} : Moves(p, l, NewObject, IdleWork)
  BY Rests
<1>2. Suspended(l, NewObject, IdleWork, object, delivered)
  BY RestsAnywhere DEF StoreInv, StoreTypeOK, ObjectAgrees
<1> QED
  BY <1>1, <1>2 DEF Continues

\* Goto and Advance keep the snapshot.
LEMMA GotoContinues ==
    ASSUME StoreInv, NEW p \in Procs, NEW l \in Awaits, NEW w \in Locals,
           Goto(p, l, w), UNCHANGED snap,
           l = "append" => w.todo # <<>>, l = "resolve" => w.res \in Resolutions, l # "mark"
    PROVE  Continues(p)
<1>1. snap' = [snap EXCEPT ![p] = snap[p]]
  BY DEF StoreInv, CallsOK
<1>2. Moves(p, l, snap[p], w)
  BY <1>1 DEF Goto, Moves
<1>3. Suspended(l, snap[p], w, object, delivered)
  BY DEF StoreInv, CallsOK, Suspended
<1> QED
  BY <1>2, <1>3 DEF Continues

LEMMA AdvanceContinues ==
    ASSUME StoreInv, NEW p \in Procs, NEW w \in Locals, NEW todo \in Seq(OrderStatus),
           todo # <<>>, NEW l \in Resumes, Advance(p, w, todo, l), UNCHANGED snap
    PROVE  Continues(p)
<1> DEFINE v == [w EXCEPT !.todo = todo, !.next = l]
<1>1. v \in Locals /\ v.todo = todo
  BY LocalsTodo
<1>2. Goto(p, "append", v)
  BY DEF Advance
<1> HIDE DEF v
<1> QED
  BY <1>1, <1>2, GotoContinues DEF Awaits

\* A call that loads the object starts from it.
LEMMA LoadContinues ==
    ASSUME StoreInv, NEW p \in Procs, NEW l \in Awaits, NEW w \in Locals,
           Goto(p, l, w), snap' = [snap EXCEPT ![p] = object],
           l = "append" => w.todo # <<>>, l # "resolve", l # "mark"
    PROVE  Continues(p)
<1>1. Moves(p, l, object, w)
  BY DEF Goto, Moves
<1>2. object \in Orders /\ object.version \in Nat
  BY DEF StoreInv, StoreTypeOK, Orders
<1>3. Suspended(l, object, w, object, delivered)
  BY <1>2 DEF Suspended
<1> QED
  BY <1>1, <1>3 DEF Continues
-----------------------------------------------------------------------------
(* Transitions *)

LEMMA TermsFields ==
    /\ terms.max_input = MaxInput /\ terms.min_fill = MinFill
    /\ terms.allow_partial = AllowPartial /\ terms.expires_at = ExpiresAt
BY DEF terms

\* The amounts of a fill delta.
LEMMA FillAmounts ==
    ASSUME NEW fill \in FillDeltas, HasFill(fill)
    PROVE  fill.input \in 0..MaxInput /\ fill.remaining_after \in 0..MaxInput
BY DEF FillDeltas, HasFill

\* apply_transition of an order record yields an order record.
LEMMA AcceptedTypes ==
    ASSUME NEW o \in Orders, NEW to \in OrderStatus, NEW fill \in FillDeltas, NEW at,
           Accepts(terms, o, to, fill, at)
    PROVE  /\ EffectiveStatus(terms, o, to, fill, at) \in OrderStatus
           /\ RemainingAfter(o, fill) \in 0..MaxInput
           /\ FilledAfter(o, fill) \in Nat
<1>1. o.remaining \in 0..MaxInput /\ o.filled \in Nat
  BY DEF Orders
<1>2. EffectiveStatus(terms, o, to, fill, at) \in OrderStatus
  BY DEF EffectiveStatus, RequestedStatus, OrderStatus, Closed
<1>3. CASE ~HasFill(fill)
  BY <1>1, <1>2, <1>3 DEF RemainingAfter, FilledAfter
<1>4. CASE HasFill(fill)
  <2>1. FillApplies(terms, o, fill)
    BY <1>4, Zenon DEF Accepts
  <2>2. fill.input \in 0..MaxInput /\ fill.input <= o.remaining
    BY <1>4, <2>1, FillAmounts DEF FillApplies
  <2> QED
    BY <1>1, <1>2, <1>4, <2>2, Bounds DEF RemainingAfter, FilledAfter
<1> QED
  BY <1>3, <1>4

LEMMA NextObjectTypes ==
    ASSUME NEW o \in Orders, NEW to \in OrderStatus, NEW fill \in FillDeltas,
           NEW at \in 0..MaxNow, Accepts(terms, o, to, fill, at)
    PROVE  /\ NextObject(o, to, fill, at) \in Orders
           /\ Event(o, to, fill, at) \in Events
<1>1. /\ EffectiveStatus(terms, o, to, fill, at) \in OrderStatus
      /\ RemainingAfter(o, fill) \in 0..MaxInput
      /\ FilledAfter(o, fill) \in Nat
  BY AcceptedTypes
<1>2. o.version + 1 \in Nat /\ o.seq + 1 \in Nat /\ o.published \in Nat /\ o.status \in OrderStatus
  BY DEF Orders
<1>3. NextObject(o, to, fill, at) \in Orders
  BY <1>1, <1>2 DEF NextObject, Orders
<1> QED
  BY <1>1, <1>2, <1>3 DEF Event, Events

\* The head of the stream.
LEMMA HeadFacts ==
    ASSUME StoreTypeOK, stream # <<>>
    PROVE  /\ Len(stream) \in Nat /\ Len(stream) >= 1
           /\ stream[Len(stream)] \in Events
           /\ HeadOrder.status = stream[Len(stream)].status
           /\ HeadOrder.remaining = stream[Len(stream)].remaining
           /\ HeadOrder.filled = stream[Len(stream)].filled
<1>1. stream \in Seq(Events)
  BY DEF StoreTypeOK
<1>2. Len(stream) \in Nat /\ Len(stream) >= 1
  BY <1>1
<1>3. stream[Len(stream)] \in Events
  BY <1>1, <1>2
<1> QED
  BY <1>2, <1>3 DEF HeadOrder

\* reconcile_lagging yields an order record in step with the stream: the object
\* itself, or a newer one.
LEMMA RepairedTypes ==
    ASSUME StoreTypeOK, ObjectAgrees, object.seq \in {Len(stream), Len(stream) - 1}
    PROVE  /\ Repaired \in Orders
           /\ Repaired = object \/ Repaired.version = object.version + 1
           /\ Repaired.seq = Len(stream)
           /\ Repaired.published = object.published
           /\ Repaired.status = HeadOrder.status
           /\ Repaired.remaining = HeadOrder.remaining
           /\ Repaired.filled = HeadOrder.filled
<1>1. CASE object.seq = Len(stream)
  BY <1>1 DEF Repaired, StoreTypeOK, ObjectAgrees
<1>2. CASE object.seq # Len(stream)
  <2>1. object.version \in Nat /\ object.seq \in Nat /\ object.published \in Nat
    BY DEF StoreTypeOK, Orders
  <2>2. object.seq = Len(stream) - 1 /\ Len(stream) \in Nat
    BY <1>2 DEF StoreTypeOK
  <2>3. stream # <<>> /\ Len(stream) - object.seq = 1
    BY <2>1, <2>2
  <2>4. /\ stream[Len(stream)].status \in OrderStatus
        /\ stream[Len(stream)].remaining \in 0..MaxInput
        /\ stream[Len(stream)].filled \in Nat
    BY <2>3, HeadFacts DEF Events
  <2>5. Repaired = [status |-> stream[Len(stream)].status,
                    remaining |-> stream[Len(stream)].remaining,
                    filled |-> stream[Len(stream)].filled,
                    version |-> object.version + 1,
                    seq |-> Len(stream), published |-> object.published]
    BY <1>2, <2>3 DEF Repaired
  <2>6. Repaired \in Orders
    BY <2>1, <2>2, <2>4, <2>5 DEF Orders
  <2> QED
    BY <2>3, <2>5, <2>6, HeadFacts
<1> QED
  BY <1>1, <1>2

\* Appending a transition moves the head of the stream to the order it leads to.
LEMMA AppendedHead ==
    ASSUME stream \in Seq(Events), NEW e \in Events, stream' = Append(stream, e)
    PROVE  /\ stream' \in Seq(Events)
           /\ Len(stream') = Len(stream) + 1
           /\ HeadOrder' = [status |-> e.status, remaining |-> e.remaining, filled |-> e.filled]
<1>1. stream' \in Seq(Events) /\ Len(stream') = Len(stream) + 1 /\ Len(stream) \in Nat
  OBVIOUS
<1>2. stream'[Len(stream) + 1] = e /\ stream' # <<>>
  BY <1>1
<1> QED
  BY <1>1, <1>2 DEF HeadOrder

\* Whether a transition is accepted depends on the order of a record only.
LEMMA SameAccepts ==
    ASSUME NEW o, NEW q, NEW to, NEW fill, NEW at,
           o.status = q.status, o.remaining = q.remaining, o.filled = q.filled,
           Accepts(terms, o, to, fill, at)
    PROVE  Accepts(terms, q, to, fill, at)
BY DEF Accepts, RequestedStatus, EffectiveStatus, RemainingAfter, CanTransitionTo,
       ConservationHolds, FillAllowed, FillRequired, FillApplies

LEMMA SameApplied ==
    ASSUME NEW o, NEW q, NEW to, NEW fill, NEW at,
           o.status = q.status, o.remaining = q.remaining, o.filled = q.filled
    PROVE  Applied(terms, o, to, fill, at) = Applied(terms, q, to, fill, at)
BY DEF Applied, RequestedStatus, EffectiveStatus, RemainingAfter, FilledAfter
-----------------------------------------------------------------------------
(* append_transition, mark_published and the outbox *)

\* What a call about to append holds.
LEMMA AppendFacts ==
    ASSUME StoreInv, NEW p \in Procs, pc[p] = "append"
    PROVE  /\ To(p) \in OrderStatus /\ Tail(work[p].todo) \in Seq(OrderStatus)
           /\ work[p] \in Locals /\ work[p].fill \in FillDeltas
           /\ work[p].at \in 0..MaxNow /\ work[p].next \in Resumes
           /\ snap[p] \in Orders
           /\ snap[p].version <= object.version
           /\ snap[p].version = object.version => snap[p] = object
<1>1. /\ work[p] \in Locals /\ snap[p] \in Orders /\ work[p].todo # <<>>
      /\ snap[p].version <= object.version
      /\ snap[p].version = object.version => snap[p] = object
  BY DEF StoreInv, CallsOK, Suspended
<1>2. /\ work[p].todo \in Seq(OrderStatus) /\ work[p].fill \in FillDeltas
      /\ work[p].at \in 0..MaxNow /\ work[p].next \in Resumes
  BY <1>1 DEF Locals
<1>3. Head(work[p].todo) \in OrderStatus /\ Tail(work[p].todo) \in Seq(OrderStatus)
  BY <1>1, <1>2
<1> QED
  BY <1>1, <1>2, <1>3 DEF To

\* A call that was answered by the store goes on from the record, or rests.
LEMMA PersistedMoves ==
    ASSUME StoreInv, NEW p \in Procs, pc[p] = "append", NEW record \in Orders,
           Persisted(p, record), NEW o \in Orders, o.version >= 1,
           o.version = 1 => o = NewObject,
           record.version <= o.version, record.version = o.version => record = o, NEW d
    PROVE  \E l, s, w : Moves(p, l, s, w) /\ Suspended(l, s, w, o, d)
<1> DEFINE rest == Tail(work[p].todo)
           v == [work[p] EXCEPT !.todo = rest, !.fill = NoFill]
<1>1. /\ rest \in Seq(OrderStatus) /\ work[p] \in Locals /\ work[p].next \in Resumes
  BY AppendFacts
<1>2. v \in Locals /\ v.todo = rest
  BY <1>1, LocalsRest
<1>3. CASE Publish(p) \/ Finish(p)
  <2>1. PICK l \in {"idle", "publish"} : Moves(p, l, NewObject, IdleWork)
    BY <1>3, Rests
  <2>2. Suspended(l, NewObject, IdleWork, o, d)
    BY RestsAnywhere DEF StoreInv
  <2> QED
    BY <2>1, <2>2
<1>4. ASSUME NEW l \in Awaits \ {"mark", "resolve"}, l = "append" => rest # <<>>,
             Goto(p, l, v), snap' = [snap EXCEPT ![p] = record]
      PROVE  \E k, s, w : Moves(p, k, s, w) /\ Suspended(k, s, w, o, d)
  <2>1. Moves(p, l, record, v)
    BY <1>4 DEF Goto, Moves
  <2>2. Suspended(l, record, v, o, d)
    BY <1>2, <1>4 DEF Suspended
  <2> QED
    BY <2>1, <2>2
<1> HIDE DEF v
<1>5. CASE rest # <<>>
  <2>1. Goto(p, "append", v) /\ snap' = [snap EXCEPT ![p] = record]
    BY <1>5 DEF Persisted, v
  <2> QED
    BY <1>4, <1>5, <2>1 DEF Awaits
<1>6. CASE rest = <<>> /\ work[p].next \notin {"publish", "idle"}
  <2>1. Goto(p, work[p].next, v) /\ snap' = [snap EXCEPT ![p] = record]
    BY <1>6 DEF Persisted, v
  <2>2. work[p].next \in Awaits \ {"mark", "resolve", "append"}
    BY <1>1 DEF Resumes, Awaits
  <2> QED
    BY <1>4, <2>1, <2>2
<1>7. CASE rest = <<>> /\ work[p].next \in {"publish", "idle"}
  BY <1>3, <1>7 DEF Persisted
<1> QED
  BY <1>5, <1>6, <1>7

\* The stream and the object stay; the rest of the store keeps its type.
LEMMA StoreStays ==
    ASSUME StoreInv, UNCHANGED <<stream, object, delivered>>,
           journal' \in Seq(AttemptEvents), now' \in 0..MaxNow
    PROVE  StoreTypeOK' /\ ObjectAgrees' /\ OutboxIsGapless' /\ UNCHANGED HeadOrder
BY DEF StoreInv, StoreTypeOK, ObjectAgrees, OutboxIsGapless, HeadOrder

\* The stored object, its place in the stream and its watermark.
LEMMA ObjectFacts ==
    ASSUME StoreInv
    PROVE  /\ object \in Orders /\ object.version \in Nat /\ object.seq \in Nat
           /\ object.published \in Nat /\ object.published <= object.seq
           /\ object.seq \in {Len(stream), Len(stream) - 1}
           /\ stream \in Seq(Events) /\ Len(stream) \in Nat
           /\ object.version >= 1 /\ (object.version = 1 => object = NewObject)
<1>1. object \in Orders /\ stream \in Seq(Events)
  BY DEF StoreInv, StoreTypeOK
<1>2. object.published <= object.seq /\ object.seq \in {Len(stream), Len(stream) - 1}
  BY DEF StoreInv, OutboxIsGapless
<1>3. object.version >= 1 /\ (object.version = 1 => object = NewObject)
  BY DEF StoreInv, ObjectAgrees
<1>4. Len(stream) \in Nat
  BY <1>1
<1>5. object.version \in Nat /\ object.seq \in Nat /\ object.published \in Nat
  BY <1>1 DEF Orders
<1> QED
  BY <1>1, <1>2, <1>3, <1>4, <1>5

\* One call continues and the store stays.
LEMMA ContinuesPreserves ==
    ASSUME StoreInv, NEW p \in Procs, Continues(p), UNCHANGED <<stream, object, delivered>>,
           journal' \in Seq(AttemptEvents), now' \in 0..MaxNow
    PROVE  StoreInv' /\ UNCHANGED HeadOrder
<1>1. PICK l, s, w : Moves(p, l, s, w) /\ Suspended(l, s, w, object, delivered)
  BY DEF Continues
<1>2. object \in Orders /\ object' = object /\ delivered' = delivered
  BY DEF StoreInv, StoreTypeOK
<1>3. CallsOK'
  BY <1>1, <1>2, OneCallMoves DEF StoreInv
<1> QED
  BY <1>3, StoreStays DEF StoreInv

\* The object is repaired and one call moves, or none.
LEMMA RepairPreserves ==
    ASSUME StoreInv, object' = Repaired, UNCHANGED <<stream, delivered, journal, now>>,
           UNCHANGED callVars \/
           \E p \in Procs : \E l, s, w :
               Moves(p, l, s, w) /\ Suspended(l, s, w, Repaired, delivered)
    PROVE  StoreInv' /\ UNCHANGED HeadOrder
<1>1. object \in Orders /\ object.version \in Nat /\ object.seq \in {Len(stream), Len(stream) - 1}
  BY ObjectFacts
<1>2. /\ Repaired \in Orders
      /\ Repaired = object \/ Repaired.version = object.version + 1
      /\ Repaired.seq = Len(stream) /\ Repaired.published = object.published
      /\ Repaired.status = HeadOrder.status
      /\ Repaired.remaining = HeadOrder.remaining
      /\ Repaired.filled = HeadOrder.filled
  BY <1>1, RepairedTypes DEF StoreInv
<1>3. object' = object \/ object'.version > object.version
  BY <1>1, <1>2
<1>4. HeadOrder' = HeadOrder
  BY DEF HeadOrder
<1>5. StoreTypeOK'
  BY <1>2 DEF StoreInv, StoreTypeOK
<1>6. ObjectAgrees'
  <2>1. object.version >= 1 /\ (object.version = 1 => object = NewObject)
    BY ObjectFacts
  <2>2. object'.version >= 1 /\ (object'.version = 1 => object' = NewObject)
    BY <1>1, <1>2, <2>1
  <2> QED
    BY <1>2, <1>4, <2>2 DEF ObjectAgrees
<1>7. OutboxIsGapless'
  <2>1. /\ object.published <= object.seq /\ object.published \in Nat /\ object.seq \in Nat
        /\ Len(stream) \in Nat
    BY ObjectFacts
  <2>2. object'.published <= object'.seq /\ object'.seq \in {Len(stream), Len(stream) - 1}
    BY <1>1, <1>2, <2>1
  <2> QED
    BY <1>2, <2>2 DEF StoreInv, OutboxIsGapless
<1>8. CallsOK'
  <2>1. CASE UNCHANGED callVars
    BY <1>1, <1>2, <1>3, <2>1, CallsStay DEF StoreInv
  <2>2. ASSUME NEW p \in Procs, NEW l, NEW s, NEW w,
               Moves(p, l, s, w), Suspended(l, s, w, Repaired, delivered)
        PROVE  CallsOK'
    BY <1>1, <1>2, <1>3, <2>2, OneCallMoves DEF StoreInv
  <2> QED
    BY <2>1, <2>2
<1> QED
  BY <1>4, <1>5, <1>6, <1>7, <1>8 DEF StoreInv
\* What every step keeps: the invariant, the direction of the object, and the
\* ledger.
Advances ==
    /\ object'.version >= object.version
    /\ object'.published >= object.published
    /\ object'.seq >= object.seq

Keeps == StoreInv' /\ Advances /\ (UNCHANGED HeadOrder \/ Ledger!LedgerNext)

LEMMA SameObjectKeeps ==
    ASSUME StoreInv, UNCHANGED object, StoreInv', UNCHANGED HeadOrder
    PROVE  Keeps
BY ObjectFacts DEF Keeps, Advances

LEMMA RepairedKeeps ==
    ASSUME StoreInv, object' = Repaired, StoreInv', UNCHANGED HeadOrder
    PROVE  Keeps
<1>1. /\ object.version \in Nat /\ object.seq \in Nat /\ object.published \in Nat
      /\ object.seq \in {Len(stream), Len(stream) - 1} /\ Len(stream) \in Nat
  BY ObjectFacts
<1>2. /\ Repaired = object \/ Repaired.version = object.version + 1
      /\ Repaired.seq = Len(stream) /\ Repaired.published = object.published
  BY <1>1, RepairedTypes DEF StoreInv
<1>3. Advances
  BY <1>1, <1>2 DEF Advances
<1> QED
  BY <1>3 DEF Keeps

\* A call that continues, with the stream, the object and the outbox untouched.
LEMMA ContinuesKeeps ==
    ASSUME StoreInv, NEW p \in Procs, Continues(p), UNCHANGED <<stream, object, delivered>>,
           journal' \in Seq(AttemptEvents), now' \in 0..MaxNow
    PROVE  Keeps
BY ContinuesPreserves, SameObjectKeeps

\* append_transition, refused, replayed or in conflict.
LEMMA ReplayKeeps ==
    ASSUME StoreInv, NEW p \in Procs, ReplayTransition(p) PROVE Keeps
<1>1. pc[p] = "append" /\ UNCHANGED <<stream, journal, delivered, now>>
  BY DEF ReplayTransition, envVars
<1>2. CASE Fail(p) /\ UNCHANGED object
  <2>1. Continues(p)
    BY <1>2, RestContinues
  <2>2. journal' \in Seq(AttemptEvents) /\ now' \in 0..MaxNow
    BY <1>1 DEF StoreInv, StoreTypeOK
  <2> QED
    BY <1>1, <1>2, <2>1, <2>2, ContinuesKeeps
<1>3. CASE object' = Repaired /\ Persisted(p, Repaired)
  <2>1. /\ object.version \in Nat /\ object.version >= 1 /\ (object.version = 1 => object = NewObject)
        /\ object.seq \in {Len(stream), Len(stream) - 1}
    BY ObjectFacts
  <2>2. /\ Repaired \in Orders
        /\ Repaired = object \/ Repaired.version = object.version + 1
    BY <2>1, RepairedTypes DEF StoreInv
  <2>3. /\ Repaired.version >= 1 /\ (Repaired.version = 1 => Repaired = NewObject)
        /\ Repaired.version \in Nat
    BY <2>1, <2>2
  <2>4. \E l, s, w : Moves(p, l, s, w) /\ Suspended(l, s, w, Repaired, delivered)
    BY <1>1, <1>3, <2>2, <2>3, PersistedMoves
  <2>5. StoreInv' /\ UNCHANGED HeadOrder
    BY <1>1, <1>3, <2>4, RepairPreserves
  <2> QED
    BY <1>3, <2>5, RepairedKeeps
<1> QED
  BY <1>2, <1>3 DEF ReplayTransition

\* The ledger's state machine is the orchestrator's: both are OrderFsm.
LEMMA SameMachine ==
    /\ Ledger!NoFill = NoFill
    /\ Ledger!OrderStatus = OrderStatus
    /\ \A o, to, fill, at :
          /\ Ledger!Accepts(terms, o, to, fill, at) <=> Accepts(terms, o, to, fill, at)
          /\ Ledger!Applied(terms, o, to, fill, at) = Applied(terms, o, to, fill, at)
<1>1. Ledger!NoFill = NoFill
  BY DEF Ledger!NoFill, NoFill
<1>2. /\ Ledger!Open = Open /\ Ledger!Closed = Closed
      /\ Ledger!InFlightOrPartial = InFlightOrPartial
  BY DEF Ledger!Open, Ledger!Closed, Ledger!InFlightOrPartial, Open, Closed, InFlightOrPartial
<1>3. Ledger!OrderStatus = OrderStatus
  BY <1>2 DEF Ledger!OrderStatus, OrderStatus
<1>4. ASSUME NEW o, NEW to, NEW fill, NEW at
      PROVE  /\ Ledger!HasFill(fill) <=> HasFill(fill)
             /\ Ledger!RemainingAfter(o, fill) = RemainingAfter(o, fill)
             /\ Ledger!FilledAfter(o, fill) = FilledAfter(o, fill)
             /\ Ledger!RequestedStatus(terms, o, to, fill, at) = RequestedStatus(terms, o, to, fill, at)
             /\ Ledger!EffectiveStatus(terms, o, to, fill, at) = EffectiveStatus(terms, o, to, fill, at)
  <2>1. Ledger!HasFill(fill) <=> HasFill(fill)
    BY <1>1 DEF Ledger!HasFill, HasFill
  <2>2. /\ Ledger!RemainingAfter(o, fill) = RemainingAfter(o, fill)
        /\ Ledger!FilledAfter(o, fill) = FilledAfter(o, fill)
    BY <2>1 DEF Ledger!RemainingAfter, Ledger!FilledAfter, RemainingAfter, FilledAfter
  <2>3. Ledger!RequestedStatus(terms, o, to, fill, at) = RequestedStatus(terms, o, to, fill, at)
    BY <1>2, <2>1 DEF Ledger!RequestedStatus, RequestedStatus
  <2> QED
    BY <1>2, <2>1, <2>2, <2>3 DEF Ledger!EffectiveStatus, EffectiveStatus
<1>5. ASSUME NEW o, NEW to, NEW fill, NEW at
      PROVE  Ledger!Accepts(terms, o, to, fill, at) <=> Accepts(terms, o, to, fill, at)
  <2>1. \A a, b : Ledger!CanTransitionTo(a, b) <=> CanTransitionTo(a, b)
    BY DEF Ledger!CanTransitionTo, Ledger!Successors, CanTransitionTo, Successors
  <2>2. \A a, b : Ledger!FillRequired(a, b) <=> FillRequired(a, b)
    BY DEF Ledger!FillRequired, FillRequired
  <2>3. \A a, b : Ledger!FillAllowed(a, b) <=> FillAllowed(a, b)
    BY <1>2, <2>2 DEF Ledger!FillAllowed, FillAllowed
  <2>4. \A a : Ledger!DeadlineAllows(terms, a, at) <=> DeadlineAllows(terms, a, at)
    BY <1>2 DEF Ledger!DeadlineAllows, DeadlineAllows
  <2>5. \A a : Ledger!FillPolicyAllows(terms, a, fill) <=> FillPolicyAllows(terms, a, fill)
    BY DEF Ledger!FillPolicyAllows, FillPolicyAllows
  <2>6. \A a, b : Ledger!Validates(terms, a, b, at) <=> Validates(terms, a, b, at)
    BY <1>2 DEF Ledger!Validates, Validates
  <2>7. Ledger!FillApplies(terms, o, fill) <=> FillApplies(terms, o, fill)
    BY DEF Ledger!FillApplies, FillApplies
  <2>8. Ledger!ConservationHolds(terms, o) <=> ConservationHolds(terms, o)
    BY DEF Ledger!ConservationHolds, ConservationHolds
  <2> QED
    BY <1>4, <2>1, <2>2, <2>3, <2>4, <2>5, <2>6, <2>7, <2>8 DEF Ledger!Accepts, Accepts
<1>6. ASSUME NEW o, NEW to, NEW fill, NEW at
      PROVE  Ledger!Applied(terms, o, to, fill, at) = Applied(terms, o, to, fill, at)
  BY <1>4 DEF Ledger!Applied, Applied
<1> QED
  BY <1>1, <1>3, <1>5, <1>6

\* An event appended in step with the object is one step of the ledger.
LEMMA AppendedStep ==
    ASSUME StoreInv, NEW p \in Procs, pc[p] = "append", Acceptable(p),
           snap[p].version = object.version, object.seq = Len(stream),
           stream' = Append(stream, Pending(p))
    PROVE  /\ Ledger!LedgerNext
           /\ stream' \in Seq(Events) /\ Len(stream') = Len(stream) + 1
           /\ HeadOrder'.status = Pending(p).status
           /\ HeadOrder'.remaining = Pending(p).remaining
           /\ HeadOrder'.filled = Pending(p).filled
<1> DEFINE o == snap[p]
           to == To(p)
           fill == work[p].fill
           at == work[p].at
<1>1. /\ o \in Orders /\ to \in OrderStatus /\ fill \in FillDeltas /\ at \in 0..MaxNow
      /\ o = object
  BY AppendFacts
<1>2. Accepts(terms, o, to, fill, at) /\ Pending(p) = Event(o, to, fill, at)
  BY DEF Acceptable, Pending
<1>3. stream \in Seq(Events) /\ Pending(p) \in Events
  BY <1>1, <1>2, NextObjectTypes DEF StoreInv, StoreTypeOK
<1>4. /\ stream' \in Seq(Events) /\ Len(stream') = Len(stream) + 1
      /\ HeadOrder' = [status |-> Pending(p).status, remaining |-> Pending(p).remaining,
                       filled |-> Pending(p).filled]
  BY <1>3, AppendedHead
<1>5. /\ o.status = HeadOrder.status /\ o.remaining = HeadOrder.remaining
      /\ o.filled = HeadOrder.filled
  BY <1>1 DEF StoreInv, ObjectAgrees
<1> HIDE DEF o, to, fill, at
<1>6. HeadOrder' = Applied(terms, o, to, fill, at)
  BY <1>2, <1>4 DEF Applied, Event
<1>7. HeadOrder' = Applied(terms, HeadOrder, to, fill, at)
  BY <1>5, <1>6, SameApplied
<1>8. Accepts(terms, HeadOrder, to, fill, at)
  BY <1>2, <1>5, SameAccepts
<1>9. fill \in Ledger!Fills
  BY <1>1, TermsFields, SameMachine DEF Ledger!Fills, FillDeltas
<1>10. Ledger!Transition(to, fill, at)
  BY <1>7, <1>8, SameMachine DEF Ledger!Transition, terms
<1>11. Ledger!LedgerNext
  BY <1>1, <1>9, <1>10, SameMachine DEF Ledger!LedgerNext
<1> QED
  BY <1>4, <1>11
\* The watermark and what the bus accepted.
LEMMA OutboxFacts ==
    ASSUME StoreInv
    PROVE  /\ Cardinality(delivered) \in Nat /\ delivered = 1..Cardinality(delivered)
           /\ object.published <= Cardinality(delivered)
           /\ Cardinality(delivered) <= Len(stream)
<1>1. Cardinality(delivered) \in Nat
  BY FS_CardinalityType DEF StoreInv, StoreTypeOK
<1> QED
  BY <1>1 DEF StoreInv, OutboxIsGapless

\* append_transition, written whole or half.
LEMMA AppendKeeps ==
    ASSUME StoreInv, NEW p \in Procs, AppendTransition(p) PROVE Keeps
<1> DEFINE record == NextObject(snap[p], To(p), work[p].fill, work[p].at)
           current == object.seq = Len(stream) /\ object.version = snap[p].version
<1>1. pc[p] = "append" /\ Acceptable(p) /\ UNCHANGED <<journal, delivered, now>>
  BY DEF AppendTransition, envVars
<1>2. journal' \in Seq(AttemptEvents) /\ now' \in 0..MaxNow
  BY <1>1 DEF StoreInv, StoreTypeOK
<1>3. /\ object \in Orders /\ object.version \in Nat /\ object.seq \in Nat
      /\ object.published \in Nat /\ object.published <= object.seq
      /\ stream \in Seq(Events) /\ Len(stream) \in Nat
      /\ object.version >= 1 /\ (object.version = 1 => object = NewObject)
  BY ObjectFacts
<1>4. CASE current /\ stream' = Append(stream, Pending(p)) /\ object' = record /\ Persisted(p, record)
  <2>1. snap[p] = object /\ object.seq = Len(stream)
    BY <1>1, <1>4, AppendFacts
  <2>2. /\ Ledger!LedgerNext /\ stream' \in Seq(Events) /\ Len(stream') = Len(stream) + 1
        /\ HeadOrder'.status = Pending(p).status
        /\ HeadOrder'.remaining = Pending(p).remaining
        /\ HeadOrder'.filled = Pending(p).filled
    BY <1>1, <1>4, AppendedStep
  <2>3. record \in Orders
    <3>1. /\ snap[p] \in Orders /\ To(p) \in OrderStatus /\ work[p].fill \in FillDeltas
          /\ work[p].at \in 0..MaxNow
      BY <1>1, AppendFacts
    <3>2. Accepts(terms, snap[p], To(p), work[p].fill, work[p].at)
      BY <1>1 DEF Acceptable
    <3> QED
      BY <3>1, <3>2, NextObjectTypes
  <2>4. /\ record.version = object.version + 1 /\ record.seq = Len(stream) + 1
        /\ record.published = object.published
        /\ record.status = Pending(p).status /\ record.remaining = Pending(p).remaining
        /\ record.filled = Pending(p).filled
    BY <2>1 DEF NextObject, Pending, Event
  <2> HIDE DEF record
  <2>5. StoreTypeOK'
    BY <1>1, <1>2, <1>4, <2>2, <2>3 DEF StoreInv, StoreTypeOK
  <2>6. ObjectAgrees'
    BY <1>3, <1>4, <2>2, <2>4 DEF ObjectAgrees
  <2>7. OutboxIsGapless'
    BY <1>1, <1>3, <1>4, <2>1, <2>2, <2>4, OutboxFacts DEF OutboxIsGapless
  <2>8. record.version >= 1 /\ record.version # 1 /\ record.version \in Nat
    BY <1>3, <2>4
  <2>9. PICK l, s, w : Moves(p, l, s, w) /\ Suspended(l, s, w, record, delivered)
    <3>1. Persisted(p, record) /\ record.version <= record.version
      BY <1>4, <2>8
    <3>2. \E l, s, w : Moves(p, l, s, w) /\ Suspended(l, s, w, record, delivered)
      BY <1>1, <2>3, <2>8, <3>1, PersistedMoves
    <3> QED
      BY <3>2
  <2>10. CallsOK'
    BY <1>1, <1>3, <1>4, <2>3, <2>4, <2>9, OneCallMoves DEF StoreInv
  <2>11. Advances
    BY <1>3, <1>4, <2>1, <2>4 DEF Advances
  <2> QED
    BY <2>2, <2>5, <2>6, <2>7, <2>10, <2>11 DEF Keeps, StoreInv
<1>5. CASE UNCHANGED <<stream, object>> /\ Fail(p)
  BY <1>1, <1>2, <1>5, RestContinues, ContinuesKeeps
<1>6. CASE current /\ stream' = Append(stream, Pending(p)) /\ UNCHANGED object /\ Fail(p)
  <2>1. /\ Ledger!LedgerNext /\ stream' \in Seq(Events) /\ Len(stream') = Len(stream) + 1
    BY <1>1, <1>6, AppendedStep
  <2>2. StoreTypeOK'
    BY <1>1, <1>2, <1>6, <2>1 DEF StoreInv, StoreTypeOK
  <2>3. ObjectAgrees'
    BY <1>3, <1>6, <2>1 DEF ObjectAgrees
  <2>4. OutboxIsGapless'
    BY <1>1, <1>3, <1>6, <2>1, OutboxFacts DEF OutboxIsGapless
  <2>5. PICK l, s, w : Moves(p, l, s, w) /\ Suspended(l, s, w, object, delivered)
    BY <1>6, RestContinues DEF Continues
  <2>6. CallsOK'
    BY <1>1, <1>3, <1>6, <2>5, OneCallMoves DEF StoreInv
  <2>7. Advances
    BY <1>3, <1>6 DEF Advances
  <2> QED
    BY <2>1, <2>2, <2>3, <2>4, <2>6, <2>7 DEF Keeps, StoreInv
<1> QED
  BY <1>4, <1>5, <1>6 DEF AppendTransition

\* publish_pending: the bus accepts a prefix of the pending events.
LEMMA PublishKeeps ==
    ASSUME StoreInv, NEW p \in Procs, NEW highest, PublishPending(p, highest) PROVE Keeps
<1>1. /\ highest \in object.published..object.seq
      /\ delivered' = delivered \cup (object.published + 1)..highest
      /\ UNCHANGED <<stream, object, journal, now>>
  BY DEF PublishPending, Batch, durableVars
<1>2. /\ object \in Orders /\ object.version \in Nat /\ object.seq \in Nat
      /\ object.published \in Nat /\ object.published <= object.seq
      /\ object.seq \in {Len(stream), Len(stream) - 1} /\ Len(stream) \in Nat
      /\ object.version >= 1 /\ (object.version = 1 => object = NewObject)
  BY ObjectFacts
<1>3. /\ Cardinality(delivered) \in Nat /\ delivered = 1..Cardinality(delivered)
      /\ object.published <= Cardinality(delivered)
      /\ Cardinality(delivered) <= Len(stream)
  BY OutboxFacts
<1>4. PICK k \in Nat : delivered' = 1..k /\ Cardinality(delivered) <= k /\ k <= Len(stream)
                       /\ highest <= k
  <2>1. CASE highest <= Cardinality(delivered)
    <3>1. delivered' = 1..Cardinality(delivered)
      BY <1>1, <1>2, <1>3, <2>1
    <3> QED
      BY <1>1, <1>3, <2>1, <3>1
  <2>2. CASE ~(highest <= Cardinality(delivered))
    <3>1. delivered' = 1..highest
      BY <1>1, <1>2, <1>3, <2>2
    <3> QED
      BY <1>1, <1>2, <1>3, <2>2, <3>1
  <2> QED
    BY <2>1, <2>2
<1>5. IsFiniteSet(delivered') /\ Cardinality(delivered') = k
  BY <1>4, FS_Interval
<1>6. StoreTypeOK'
  BY <1>1, <1>5 DEF StoreInv, StoreTypeOK
<1>7. ObjectAgrees' /\ UNCHANGED HeadOrder
  BY <1>1 DEF StoreInv, ObjectAgrees, HeadOrder
<1>8. OutboxIsGapless'
  BY <1>1, <1>2, <1>3, <1>4, <1>5 DEF OutboxIsGapless
<1>9. CallsOK'
  <2>1. delivered \subseteq delivered'
    BY <1>1
  <2>2. CASE Finish(p)
    <3>1. PICK l \in {"idle", "publish"} : Moves(p, l, NewObject, IdleWork)
      BY <2>2, Rests
    <3>2. Suspended(l, NewObject, IdleWork, object', delivered')
      BY <1>1, <1>2, RestsAnywhere DEF StoreInv
    <3> QED
      BY <1>1, <1>2, <2>1, <3>1, <3>2, OneCallMoves DEF StoreInv
  <2>3. CASE /\ highest # object.published
             /\ Goto(p, "mark", [IdleWork EXCEPT !.mark = highest])
             /\ snap' = [snap EXCEPT ![p] = object]
    <3> DEFINE v == [IdleWork EXCEPT !.mark = highest]
    <3>1. highest \in Nat /\ highest <= object.seq /\ highest \in delivered'
      BY <1>1, <1>2, <2>3
    <3>2. v \in Locals /\ v.mark = highest
      BY <3>1, LocalsMark
    <3>3. Moves(p, "mark", object, v)
      BY <2>3 DEF Goto, Moves
    <3> HIDE DEF v
    <3>4. Suspended("mark", object, v, object', delivered')
      BY <1>1, <1>2, <3>1, <3>2 DEF Suspended, Awaits
    <3> QED
      BY <1>1, <1>2, <2>1, <3>3, <3>4, OneCallMoves DEF StoreInv
  <2> QED
    BY <2>2, <2>3 DEF PublishPending
<1>10. Advances
  BY <1>1, <1>2 DEF Advances
<1> QED
  BY <1>6, <1>7, <1>8, <1>9, <1>10 DEF Keeps, StoreInv

\* mark_published: the watermark of the object a call published from.
LEMMA MarkKeeps ==
    ASSUME StoreInv, NEW p \in Procs, MarkPublished(p) PROVE Keeps
<1>1. /\ pc[p] = "mark" /\ Finish(p) /\ UNCHANGED <<stream, journal, delivered, now>>
  BY DEF MarkPublished, envVars
<1>2. /\ object \in Orders /\ object.version \in Nat /\ object.seq \in Nat
      /\ object.published \in Nat /\ object.published <= object.seq
      /\ object.seq \in {Len(stream), Len(stream) - 1} /\ Len(stream) \in Nat
      /\ object.version >= 1 /\ (object.version = 1 => object = NewObject)
  BY ObjectFacts
<1>3. CASE UNCHANGED object
  <2>1. journal' \in Seq(AttemptEvents) /\ now' \in 0..MaxNow
    BY <1>1 DEF StoreInv, StoreTypeOK
  <2> QED
    BY <1>1, <1>3, <2>1, RestContinues, ContinuesKeeps
<1>4. CASE /\ object.published < work[p].mark /\ object.version = snap[p].version
           /\ object' = [object EXCEPT !.published = work[p].mark, !.version = @ + 1]
  <2> DEFINE mark == work[p].mark
             version == object.version + 1
  <2>1. /\ snap[p] \in Orders /\ snap[p] = object /\ mark \in delivered /\ mark <= snap[p].seq
        /\ mark \in Nat
    <3>1. Suspended("mark", snap[p], work[p], object, delivered)
      BY <1>1 DEF StoreInv, CallsOK
    <3> QED
      BY <1>4, <3>1 DEF Suspended, Locals
  <2>2. version \in Nat /\ version > object.version
    BY <1>2
  <2>3. object' = [object EXCEPT !.published = mark, !.version = version]
    BY <1>4
  <2> HIDE DEF mark, version
  <2>4. object' \in Orders /\ object'.version = version /\ object'.published = mark
        /\ object'.seq = object.seq /\ object'.status = object.status
        /\ object'.remaining = object.remaining /\ object'.filled = object.filled
    BY <1>2, <2>1, <2>2, <2>3 DEF Orders
  <2>5. HeadOrder' = HeadOrder
    BY <1>1 DEF HeadOrder
  <2>6. StoreTypeOK'
    BY <1>1, <2>4 DEF StoreInv, StoreTypeOK
  <2>7. ObjectAgrees'
    BY <1>1, <1>2, <2>2, <2>4, <2>5 DEF StoreInv, ObjectAgrees
  <2>8. OutboxIsGapless'
    <3>1. mark <= Cardinality(delivered) /\ mark <= object.seq
      BY <2>1, OutboxFacts
    <3> QED
      BY <1>1, <1>2, <2>4, <3>1, OutboxFacts DEF OutboxIsGapless
  <2>9. CallsOK'
    <3>1. PICK l \in {"idle", "publish"} : Moves(p, l, NewObject, IdleWork)
      BY <1>1, Rests
    <3>2. object'.version >= 1 /\ object'.version # 1
      BY <1>2, <2>2, <2>4
    <3>3. Suspended(l, NewObject, IdleWork, object', delivered')
      BY <2>4, <3>2, RestsAnywhere DEF StoreInv
    <3> QED
      BY <1>1, <1>2, <2>2, <2>4, <3>1, <3>3, OneCallMoves DEF StoreInv
  <2>10. Advances
    BY <1>2, <1>4, <2>1, <2>2, <2>4 DEF Advances, mark
  <2> QED
    BY <2>5, <2>6, <2>7, <2>8, <2>9, <2>10 DEF Keeps, StoreInv
<1> QED
  BY <1>3, <1>4 DEF MarkPublished
-----------------------------------------------------------------------------
(* tick, the executor, apply_resolution, recover and cancel_order *)

\* What a call that writes only the journal, or nothing, leaves of the store.
LEMMA JournalFacts ==
    ASSUME StoreInv
    PROVE  /\ journal \in Seq(AttemptEvents) /\ now \in 0..MaxNow
           /\ LatestAttempt \in Nat
           /\ \A n : BoundChunk(n) \in Nat
           /\ journal # <<>> => journal[Len(journal)] \in AttemptEvents
<1>1. journal \in Seq(AttemptEvents) /\ now \in 0..MaxNow
  BY DEF StoreInv, StoreTypeOK
<1>2. journal # <<>> => journal[Len(journal)] \in AttemptEvents
  BY <1>1
<1>3. LatestAttempt \in Nat
  BY <1>2 DEF LatestAttempt, AttemptEvents
<1>4. ASSUME NEW n PROVE BoundChunk(n) \in Nat
  <2> DEFINE bound == {i \in 1..Len(journal) : journal[i].attempt = n /\ journal[i].phase = "Bound"}
  <2>1. CASE bound = {}
    BY <2>1 DEF BoundChunk
  <2>2. CASE bound # {}
    <3>1. (CHOOSE i \in bound : TRUE) \in bound
      BY <2>2
    <3>2. PICK i \in bound : BoundChunk(n) = journal[i].input
      BY <2>2, <3>1 DEF BoundChunk
    <3>3. journal[i] \in AttemptEvents
      BY <1>1
    <3> QED
      BY <3>2, <3>3 DEF AttemptEvents
  <2> QED
    BY <2>1, <2>2
<1> QED
  BY <1>1, <1>2, <1>3, <1>4

\* A call that touches neither the durable store nor the outbox.
LEMMA LocalStepKeeps ==
    ASSUME StoreInv, NEW p \in Procs, Continues(p), UNCHANGED <<durableVars, envVars>>
    PROVE  Keeps
<1>1. UNCHANGED <<stream, object, delivered>> /\ journal' = journal /\ now' = now
  BY DEF durableVars, envVars
<1> QED
  BY <1>1, JournalFacts, ContinuesKeeps

\* append_attempt keeps the journal's type; the call goes on as it was told, or
\* fails.
LEMMA AppendAttemptKeeps ==
    ASSUME StoreInv, NEW p \in Procs, NEW ev \in AttemptEvents,
           \/ Continues(p)
           \/ Fail(p),
           journal' \in {journal, Append(journal, ev)},
           UNCHANGED <<stream, object, relayVars, envVars>>
    PROVE  Keeps
<1>1. Continues(p)
  BY RestContinues
<1>2. UNCHANGED <<stream, object, delivered>> /\ now' = now
  BY DEF envVars
<1>3. journal' \in Seq(AttemptEvents)
  BY JournalFacts
<1> QED
  BY <1>1, <1>2, <1>3, JournalFacts, ContinuesKeeps

\* One transition to persist.
LEMMA OneTodo == ASSUME NEW s \in OrderStatus PROVE <<s>> \in Seq(OrderStatus) /\ <<s>> # <<>>
OBVIOUS

\* The order effects of a resolution (resolve_fill).
LEMMA SettleContinues ==
    ASSUME StoreInv, NEW p \in Procs, NEW w \in Locals, w.res \in Resolutions, Settle(p, w)
    PROVE  Continues(p)
<1> DEFINE left == snap[p].remaining - w.chunk
<1>1. snap[p].remaining \in 0..MaxInput /\ w.chunk \in Nat
  BY DEF StoreInv, CallsOK, Orders, Locals
<1>2. CASE w.res = "Unknown"
  BY <1>2, RestContinues DEF Settle
<1>3. CASE w.res = "FailedBeforeSubmit"
  <2> DEFINE todo == <<PreSendTarget(w.attempt, w.at)>>
  <2>1. Advance(p, w, todo, "publish") /\ UNCHANGED snap
    BY <1>3 DEF Settle
  <2>2. PreSendTarget(w.attempt, w.at) \in OrderStatus
    BY DEF PreSendTarget, OrderStatus, Open, Closed
  <2>3. todo \in Seq(OrderStatus) /\ todo # <<>>
    BY <2>2
  <2> HIDE DEF todo
  <2> QED
    BY <2>1, <2>3, AdvanceContinues DEF Resumes
<1>4. CASE w.res \in {"Rejected", "NonCompliantFill"}
  <2> DEFINE todo == <<"FailedFinal">>
  <2>1. Advance(p, w, todo, "publish") /\ UNCHANGED snap
    BY <1>4 DEF Settle
  <2>2. todo \in Seq(OrderStatus) /\ todo # <<>>
    BY DEF OrderStatus, Closed
  <2> HIDE DEF todo
  <2> QED
    BY <2>1, <2>2, AdvanceContinues DEF Resumes
<1>5. CASE w.res = "Filled" /\ left < 0
  BY <1>5, RestContinues DEF Settle
<1>6. CASE w.res = "Filled" /\ ~(left < 0)
  <2> DEFINE f == [input |-> w.chunk, remaining_after |-> left]
             v == [w EXCEPT !.fill = f]
             todo == IF left = 0 THEN <<"Filled">> ELSE <<"PartiallyFilled">>
  <2>1. Advance(p, v, todo, "publish") /\ UNCHANGED snap
    BY <1>6 DEF Settle
  <2>2. f \in FillDeltas
    BY <1>1, <1>6, Bounds DEF FillDeltas
  <2>3. v \in Locals
    BY <2>2, LocalsFill
  <2>4. todo \in Seq(OrderStatus) /\ todo # <<>>
    <3>1. "Filled" \in OrderStatus /\ "PartiallyFilled" \in OrderStatus
      BY DEF OrderStatus, Open, Closed
    <3> QED
      BY <3>1, OneTodo
  <2> HIDE DEF todo, v
  <2> QED
    BY <2>1, <2>3, <2>4, AdvanceContinues DEF Resumes
<1> QED
  BY <1>2, <1>3, <1>4, <1>5, <1>6 DEF Resolutions

\* Steps 1 to 4 of a tick.
LEMMA LoadKeeps == ASSUME StoreInv, NEW t \in Tickers, Load(t) PROVE Keeps
<1> DEFINE w == [IdleWork EXCEPT !.at = now]
<1>1. t \in Procs /\ w \in Locals
  BY JournalFacts, LocalsAt DEF Procs
<1>2. UNCHANGED <<durableVars, envVars>>
  BY DEF Load
<1>3. CASE Publish(t)
  BY <1>1, <1>2, <1>3, RestContinues, LocalStepKeeps
<1>4. CASE snap' = [snap EXCEPT ![t] = object] /\ Goto(t, "evaluate", w)
  <2> HIDE DEF w
  <2> QED
    BY <1>1, <1>2, <1>4, LoadContinues, LocalStepKeeps DEF Awaits
<1>5. ASSUME NEW todo \in {<<"Expired">>, <<"Active">>}, NEW l \in Resumes,
             snap' = [snap EXCEPT ![t] = object], Advance(t, w, todo, l)
      PROVE  Keeps
  <2> DEFINE v == [w EXCEPT !.todo = todo, !.next = l]
  <2>1. todo \in Seq(OrderStatus) /\ todo # <<>>
    <3>1. "Active" \in OrderStatus /\ "Expired" \in OrderStatus
      BY DEF OrderStatus, Open, Closed
    <3> QED
      BY <3>1, OneTodo
  <2> HIDE DEF w
  <2>2. v \in Locals /\ v.todo = todo
    BY <1>1, <2>1, LocalsTodo
  <2>3. Goto(t, "append", v)
    BY <1>5 DEF Advance
  <2> HIDE DEF v
  <2> QED
    BY <1>1, <1>2, <1>5, <2>1, <2>2, <2>3, LoadContinues, LocalStepKeeps DEF Awaits
<1> QED
  BY <1>3, <1>4, <1>5 DEF Load, Resumes
\* Step 5: the trigger.
LEMMA EvaluateKeeps == ASSUME StoreInv, NEW t \in Tickers, EvaluateTrigger(t) PROVE Keeps
<1> DEFINE w == work[t]
           candidate == IF snap[t].status = "TriggerCandidate" THEN <<>> ELSE <<"TriggerCandidate">>
<1>1. t \in Procs /\ work[t] \in Locals /\ snap[t] \in Orders
  BY CallFacts DEF Procs, StoreInv
<1>2. UNCHANGED <<durableVars, envVars>>
  BY DEF EvaluateTrigger
<1>3. SUFFICES Continues(t)
  BY <1>1, <1>2, LocalStepKeeps
<1>4. /\ "Active" \in OrderStatus /\ "Expired" \in OrderStatus /\ "TriggerCandidate" \in OrderStatus
  BY DEF OrderStatus, Open, Closed
<1>5. CASE Publish(t)
  BY <1>1, <1>5, RestContinues
<1>6. CASE Advance(t, w, <<"Expired">>, "publish") /\ UNCHANGED snap
  BY <1>1, <1>4, <1>6, OneTodo, AdvanceContinues DEF Resumes
<1>7. CASE Advance(t, w, candidate \o <<"Active">>, "publish") /\ UNCHANGED snap
  <2> DEFINE todo == candidate \o <<"Active">>
  <2>1. candidate \in Seq(OrderStatus) /\ <<"Active">> \in Seq(OrderStatus)
    BY <1>4, OneTodo
  <2>2. todo \in Seq(OrderStatus) /\ todo # <<>>
    BY <2>1
  <2> HIDE DEF todo
  <2>3. Advance(t, w, todo, "publish")
    BY <1>7 DEF todo
  <2> QED
    BY <1>1, <1>7, <2>2, <2>3, AdvanceContinues DEF Resumes
<1>8. ASSUME NEW chunk \in SafeChunks(snap[t]), UNCHANGED snap,
             IF candidate = <<>> THEN Goto(t, "identity", [w EXCEPT !.chunk = chunk])
             ELSE Advance(t, [w EXCEPT !.chunk = chunk], candidate, "identity")
      PROVE  Continues(t)
  <2> DEFINE v == [w EXCEPT !.chunk = chunk]
  <2>1. chunk \in Nat
    BY <1>1, Bounds DEF SafeChunks, Orders
  <2>2. v \in Locals
    BY <1>1, <2>1, LocalsChunk
  <2>3. candidate \in Seq(OrderStatus)
    BY <1>4, OneTodo
  <2>4. \/ Goto(t, "identity", v)
        \/ candidate # <<>> /\ Advance(t, v, candidate, "identity")
    BY <1>8
  <2> HIDE DEF v, candidate
  <2>5. CASE Goto(t, "identity", v)
    BY <1>1, <1>8, <2>2, <2>5, GotoContinues DEF Awaits
  <2>6. CASE candidate # <<>> /\ Advance(t, v, candidate, "identity")
    BY <1>1, <1>8, <2>2, <2>3, <2>6, AdvanceContinues DEF Resumes
  <2> QED
    BY <2>4, <2>5, <2>6
<1> QED
  BY <1>5, <1>6, <1>7, <1>8 DEF EvaluateTrigger

\* Step 7: the identity of the next attempt.
LEMMA IdentityKeeps == ASSUME StoreInv, NEW t \in Tickers, NextAttemptIdentity(t) PROVE Keeps
<1>1. t \in Procs /\ work[t] \in Locals
  BY CallFacts DEF Procs, StoreInv
<1>2. UNCHANGED <<durableVars, envVars>>
  BY DEF NextAttemptIdentity
<1>3. CASE Fail(t) \/ Publish(t)
  BY <1>1, <1>2, <1>3, RestContinues, LocalStepKeeps
<1>4. CASE UNCHANGED snap /\ Goto(t, "prepare", [work[t] EXCEPT !.attempt = LatestAttempt + 1])
  <2> DEFINE v == [work[t] EXCEPT !.attempt = LatestAttempt + 1]
  <2>1. v \in Locals
    <3>1. LatestAttempt + 1 \in Nat
      BY JournalFacts
    <3> QED
      BY <1>1, <3>1, LocalsAttempt
  <2> HIDE DEF v
  <2>2. Goto(t, "prepare", v)
    BY <1>4 DEF v
  <2> QED
    BY <1>1, <1>2, <1>4, <2>1, <2>2, GotoContinues, LocalStepKeeps DEF Awaits
<1> QED
  BY <1>3, <1>4 DEF NextAttemptIdentity

\* Steps 6 and 8 to 10: the chain of transitions up to Executing.
LEMMA PrepareKeeps == ASSUME StoreInv, NEW t \in Tickers, PrepareAttempt(t) PROVE Keeps
<1>1. t \in Procs /\ work[t] \in Locals
  BY CallFacts DEF Procs, StoreInv
<1>2. UNCHANGED <<durableVars, envVars>> /\ UNCHANGED snap
  BY DEF PrepareAttempt
<1>3. CASE Advance(t, work[t], <<"Active">>, "publish")
  <2>1. "Active" \in OrderStatus
    BY DEF OrderStatus, Open
  <2> QED
    BY <1>1, <1>2, <1>3, <2>1, OneTodo, AdvanceContinues, LocalStepKeeps DEF Resumes
<1>4. CASE Advance(t, work[t], <<"Quoting", "Simulating", "Executing">>, "bind")
  <2> DEFINE todo == <<"Quoting", "Simulating", "Executing">>
  <2>1. todo \in Seq(OrderStatus) /\ todo # <<>>
    BY DEF OrderStatus, Open
  <2> HIDE DEF todo
  <2>2. Advance(t, work[t], todo, "bind")
    BY <1>4 DEF todo
  <2> QED
    BY <1>1, <1>2, <2>1, <2>2, AdvanceContinues, LocalStepKeeps DEF Resumes
<1> QED
  BY <1>3, <1>4 DEF PrepareAttempt

\* Steps 11 and 12: the Bound event.
LEMMA BindKeeps == ASSUME StoreInv, NEW t \in Tickers, BindAttempt(t) PROVE Keeps
<1> DEFINE w == work[t]
           ev == AttemptEvent(w.attempt, "Bound", w.chunk, TRUE, w.at)
           v == [w EXCEPT !.prior = "Bound"]
<1>1. t \in Procs /\ w \in Locals
  BY CallFacts DEF Procs, StoreInv
<1>2. w.attempt \in Nat /\ w.chunk \in Nat /\ w.at \in 0..MaxNow
  BY <1>1 DEF Locals
<1>3. ev \in AttemptEvents
  BY <1>2 DEF AttemptEvent, AttemptEvents, Phases, InFlightPhases
<1>4. v \in Locals
  BY <1>1, LocalsPrior DEF Phases, InFlightPhases
<1> HIDE DEF ev, v
<1>5. /\ journal' \in {journal, Append(journal, ev)}
      /\ UNCHANGED <<stream, object, relayVars, envVars>>
      /\ (Goto(t, "execute", v) /\ UNCHANGED snap) \/ Fail(t)
  <2>1. AppendAttempt(t, ev, Goto(t, "execute", v) /\ UNCHANGED snap, Fail(t))
    BY DEF BindAttempt, ev, v
  <2> QED
    BY <2>1 DEF AppendAttempt
<1>6. Goto(t, "execute", v) /\ UNCHANGED snap => Continues(t)
  BY <1>1, <1>4, GotoContinues DEF Awaits
<1> QED
  BY <1>1, <1>3, <1>5, <1>6, AppendAttemptKeeps
\* The executor's answer is the call's resolution.
LEMMA ResolveContinues ==
    ASSUME StoreInv, NEW p \in Procs, NEW res \in Resolutions, Resolve(p, res)
    PROVE  Continues(p)
<1> DEFINE v == [work[p] EXCEPT !.res = res]
<1>1. work[p] \in Locals
  BY CallFacts DEF StoreInv
<1>2. v \in Locals /\ v.res = res
  BY <1>1, LocalsRes
<1> HIDE DEF v
<1>3. Goto(p, "resolve", v) /\ UNCHANGED snap
  BY DEF Resolve, v
<1> QED
  BY <1>2, <1>3, GotoContinues DEF Awaits

LEMMA ReportContinues ==
    ASSUME StoreInv, NEW p \in Procs, NEW n, Report(p, n)
    PROVE  Continues(p)
<1>1. CASE Resolve(p, "Unknown")
  BY <1>1, ResolveContinues DEF Resolutions
<1>2. CASE ReportSeen(p, n)
  <2>1. PICK res \in Seen(n) : Resolve(p, res)
    BY <1>2 DEF ReportSeen
  <2>2. res \in Resolutions
    BY DEF Seen, Resolutions
  <2> QED
    BY <2>1, <2>2, ResolveContinues
<1> QED
  BY <1>1, <1>2 DEF Report

\* execute and reconcile.
LEMMA ExecutorKeeps ==
    ASSUME StoreInv,
           \/ \E t \in Tickers : ClaimAttempt(t) \/ RefuseAttempt(t) \/ SendAttempt(t)
                                 \/ ExecuteReturns(t)
           \/ Reconcile
    PROVE  Keeps
<1>1. UNCHANGED <<durableVars, envVars>>
  BY DEF ClaimAttempt, RefuseAttempt, SendAttempt, ExecuteReturns, Reconcile
<1>2. ASSUME NEW t \in Tickers PROVE t \in Procs /\ work[t] \in Locals
  BY CallFacts DEF Procs, StoreInv
<1>3. ASSUME NEW t \in Tickers, ClaimAttempt(t) PROVE Continues(t)
  <2>1. CASE Resolve(t, "FailedBeforeSubmit")
    BY <1>2, <2>1, ResolveContinues DEF Resolutions
  <2>2. CASE Goto(t, "claimed", work[t]) /\ UNCHANGED snap
    BY <1>2, <2>2, GotoContinues DEF Awaits
  <2> QED
    BY <1>3, <2>1, <2>2 DEF ClaimAttempt
<1>4. ASSUME NEW t \in Tickers, RefuseAttempt(t) PROVE Continues(t)
  <2>1. PICK res \in Resolutions : Resolve(t, res)
    BY <1>4 DEF RefuseAttempt, Resolutions
  <2> QED
    BY <1>2, <2>1, ResolveContinues
<1>5. ASSUME NEW t \in Tickers, SendAttempt(t) PROVE Continues(t)
  <2>1. Goto(t, "sent", work[t]) /\ UNCHANGED snap
    BY <1>5 DEF SendAttempt
  <2> QED
    BY <1>2, <2>1, GotoContinues DEF Awaits
<1>6. ASSUME NEW t \in Tickers, ExecuteReturns(t) PROVE Continues(t)
  BY <1>2, <1>6, ReportContinues DEF ExecuteReturns
<1>7. ASSUME Reconcile PROVE Continues(Recoverer)
  <2>1. Recoverer \in Procs
    BY DEF Procs
  <2>2. CASE Report(Recoverer, work[Recoverer].attempt)
    BY <2>1, <2>2, ReportContinues
  <2>3. CASE Resolve(Recoverer, "Rejected") \/ Resolve(Recoverer, "FailedBeforeSubmit")
    BY <2>1, <2>3, ResolveContinues DEF Resolutions
  <2> QED
    BY <1>7, <2>2, <2>3 DEF Reconcile
<1>8. Recoverer \in Procs
  BY DEF Procs
<1>9. ASSUME NEW p \in Procs, Continues(p) PROVE Keeps
  BY <1>1, <1>9, LocalStepKeeps
<1> QED
  BY <1>2, <1>3, <1>4, <1>5, <1>6, <1>7, <1>8, <1>9

\* apply_resolution.
LEMMA ResolutionKeeps == ASSUME StoreInv, NEW p \in Procs, ApplyResolution(p) PROVE Keeps
<1> DEFINE w == work[p]
           ev == AttemptEvent(w.attempt, Phase(w.res),
                              IF Phase(w.res) = "Confirmed" THEN w.chunk ELSE 0,
                              w.res # "NonCompliantFill", w.at)
<1>1. w \in Locals /\ w.res \in Resolutions
  BY DEF ApplyResolution, StoreInv, CallsOK, Suspended
<1>2. w.attempt \in Nat /\ w.chunk \in Nat /\ w.at \in 0..MaxNow
  BY <1>1 DEF Locals
<1>3. Phase(w.res) \in Phases
  BY <1>1 DEF Phase, Resolutions, Phases, InFlightPhases, TerminalPhases
<1>4. ev \in AttemptEvents
  BY <1>2, <1>3 DEF AttemptEvent, AttemptEvents
<1>5. Settle(p, w) => Continues(p)
  BY <1>1, SettleContinues
<1>6. CASE Settle(p, w) /\ UNCHANGED <<durableVars, envVars>>
  BY <1>5, <1>6, LocalStepKeeps
<1>7. CASE AppendAttempt(p, ev, Settle(p, w), Settle(p, w))
  <2> HIDE DEF ev, w
  <2>1. /\ journal' \in {journal, Append(journal, ev)}
        /\ UNCHANGED <<stream, object, relayVars, envVars>>
        /\ Settle(p, w) \/ Fail(p)
    BY <1>7 DEF AppendAttempt
  <2> QED
    BY <1>4, <1>5, <2>1, AppendAttemptKeeps
<1> QED
  BY <1>6, <1>7 DEF ApplyResolution

\* A startup pass.
LEMMA ScanKeeps == ASSUME StoreInv, RecoverScan PROVE Keeps
<1> DEFINE r == Recoverer
           v == [IdleWork EXCEPT !.at = now]
<1>1. r \in Procs /\ object' = Repaired /\ UNCHANGED <<stream, journal, delivered, now>>
  BY DEF RecoverScan, Procs, envVars
<1>2. /\ object.version \in Nat /\ object.version >= 1 /\ (object.version = 1 => object = NewObject)
      /\ object.seq \in {Len(stream), Len(stream) - 1}
  BY ObjectFacts
<1>3. /\ Repaired \in Orders
      /\ Repaired = object \/ Repaired.version = object.version + 1
  BY <1>2, RepairedTypes DEF StoreInv
<1>4. /\ Repaired.version >= 1 /\ (Repaired.version = 1 => Repaired = NewObject)
      /\ Repaired.version \in Nat
  BY <1>2, <1>3
<1>5. v \in Locals
  BY JournalFacts, LocalsAt
<1> HIDE DEF r, v
<1>6. CASE UNCHANGED callVars
  BY <1>1, <1>6, RepairPreserves, RepairedKeeps
<1>7. CASE Goto(r, "attempts", v) /\ snap' = [snap EXCEPT ![r] = Repaired]
  <2>1. Moves(r, "attempts", Repaired, v)
    BY <1>7 DEF Goto, Moves
  <2>2. Suspended("attempts", Repaired, v, Repaired, delivered)
    BY <1>3, <1>4, <1>5 DEF Suspended, Awaits
  <2> QED
    BY <1>1, <2>1, <2>2, RepairPreserves, RepairedKeeps
<1>8. CASE Publish(r)
  <2>1. PICK l \in {"idle", "publish"} : Moves(r, l, NewObject, IdleWork)
    BY <1>1, <1>8, Rests
  <2>2. Suspended(l, NewObject, IdleWork, Repaired, delivered)
    BY <1>3, <1>4, RestsAnywhere DEF StoreInv
  <2> QED
    BY <1>1, <2>1, <2>2, RepairPreserves, RepairedKeeps
<1> QED
  BY <1>6, <1>7, <1>8 DEF RecoverScan, r, v

\* recover_executing.
LEMMA RecoverKeeps == ASSUME StoreInv, RecoverExecuting PROVE Keeps
<1> DEFINE r == Recoverer
           last == journal[Len(journal)]
           w == [work[r] EXCEPT !.attempt = last.attempt, !.chunk = BoundChunk(last.attempt),
                                !.prior = last.phase]
<1>1. r \in Procs /\ work[r] \in Locals
  BY CallFacts DEF Procs, StoreInv
<1>2. UNCHANGED <<durableVars, envVars>>
  BY DEF RecoverExecuting
<1>3. SUFFICES Continues(r)
  BY <1>1, <1>2, LocalStepKeeps
<1>4. ASSUME NEW s \in OrderStatus, Advance(r, work[r], <<s>>, "publish"), UNCHANGED snap
      PROVE  Continues(r)
  BY <1>1, <1>4, OneTodo, AdvanceContinues DEF Resumes
<1>5. \A n : PreSendTarget(n, work[r].at) \in OrderStatus
  BY DEF PreSendTarget, OrderStatus, Open, Closed
<1>6. CASE journal = <<>>
  <2>1. Advance(r, work[r], <<PreSendTarget(0, work[r].at)>>, "publish") /\ UNCHANGED snap
    BY <1>6 DEF RecoverExecuting
  <2> QED
    BY <1>4, <1>5, <2>1
<1>7. CASE journal # <<>>
  <2>1. last.attempt \in Nat /\ BoundChunk(last.attempt) \in Nat /\ last.phase \in Phases
        /\ last.compliant \in BOOLEAN
    <3>1. last \in AttemptEvents
      BY <1>7, JournalFacts
    <3> QED
      BY <3>1, JournalFacts DEF AttemptEvents
  <2>2. w \in Locals
    BY <1>1, <2>1, LocalsHead
  <2> HIDE DEF w
  <2>3. ASSUME NEW res \in Resolutions, Settle(r, [w EXCEPT !.res = res]) PROVE Continues(r)
    BY <1>1, <2>2, <2>3, LocalsRes, SettleContinues
  <2>4. CASE last.phase \in InFlightPhases
    <3>1. Goto(r, "reconcile", w) /\ UNCHANGED snap
      BY <1>7, <2>4 DEF RecoverExecuting, w, InFlightPhases
    <3> QED
      BY <1>1, <2>2, <3>1, GotoContinues DEF Awaits
  <2>5. CASE last.phase = "Confirmed"
    <3>1. IF Outstanding(last, snap[r].filled)
          THEN Settle(r, [w EXCEPT !.res = IF last.compliant THEN "Filled" ELSE "NonCompliantFill"])
          ELSE IF snap[r].filled >= ConfirmedTotal
          THEN Advance(r, work[r], <<PreSendTarget(last.attempt, work[r].at)>>, "publish") /\ UNCHANGED snap
          ELSE Advance(r, work[r], <<"FailedFinal">>, "publish") /\ UNCHANGED snap
      BY <1>7, <2>5 DEF RecoverExecuting, w, InFlightPhases
    <3>2. (IF last.compliant THEN "Filled" ELSE "NonCompliantFill") \in Resolutions
      BY DEF Resolutions
    <3>3. "FailedFinal" \in OrderStatus
      BY DEF OrderStatus, Closed
    <3> QED
      BY <1>4, <1>5, <2>3, <3>1, <3>2, <3>3
  <2>6. CASE last.phase \in {"FailedBeforeSubmit", "Rejected"}
    <3>1. Settle(r, [w EXCEPT !.res = last.phase])
      BY <1>7, <2>6 DEF RecoverExecuting, w, InFlightPhases
    <3>2. last.phase \in Resolutions
      BY <2>6 DEF Resolutions
    <3> QED
      BY <2>3, <3>1, <3>2
  <2> QED
    BY <2>1, <2>4, <2>5, <2>6 DEF Phases, TerminalPhases
<1> QED
  BY <1>6, <1>7

\* cancel_order.
LEMMA CancelKeeps == ASSUME StoreInv, NEW c \in Cancellers, Cancel(c) PROVE Keeps
<1> DEFINE w == [IdleWork EXCEPT !.at = now]
           v == [w EXCEPT !.todo = <<"Cancelled">>, !.next = "idle"]
<1>1. c \in Procs /\ w \in Locals
  BY JournalFacts, LocalsAt DEF Procs
<1>2. UNCHANGED <<durableVars, envVars>> /\ snap' = [snap EXCEPT ![c] = object]
  BY DEF Cancel
<1>3. "Cancelled" \in OrderStatus
  BY DEF OrderStatus, Closed
<1> HIDE DEF w
<1>4. v \in Locals /\ v.todo = <<"Cancelled">> /\ <<"Cancelled">> # <<>>
  <2>1. <<"Cancelled">> \in Seq(OrderStatus) /\ <<"Cancelled">> # <<>> /\ "idle" \in Resumes
    BY <1>3, OneTodo DEF Resumes
  <2> QED
    BY <1>1, <2>1, LocalsTodo
<1> HIDE DEF v
<1>5. Goto(c, "append", v)
  BY DEF Cancel, Advance, v, w
<1> QED
  BY <1>1, <1>2, <1>4, <1>5, LoadContinues, LocalStepKeeps DEF Awaits
-----------------------------------------------------------------------------
(* The environment, and the theorems *)

\* No call moves, and only the clock, the chain or the kill switch does.
LEMMA QuietKeeps ==
    ASSUME StoreInv, UNCHANGED <<stream, object, journal, delivered, callVars>>,
           now' \in 0..MaxNow
    PROVE  Keeps
<1>1. StoreTypeOK' /\ ObjectAgrees' /\ OutboxIsGapless' /\ UNCHANGED HeadOrder
  BY JournalFacts, StoreStays
<1>2. CallsOK'
  BY ObjectFacts, CallsStay DEF StoreInv
<1> QED
  BY <1>1, <1>2, SameObjectKeeps DEF StoreInv

\* A restart loses every call and nothing durable.
LEMMA CrashKeeps == ASSUME StoreInv, Crash PROVE Keeps
<1>1. /\ pc' = [p \in Procs |-> "idle"] /\ snap' = [p \in Procs |-> NewObject]
      /\ work' = [p \in Procs |-> IdleWork]
      /\ UNCHANGED <<stream, object, journal, delivered, now>>
  BY DEF Crash, durableVars
<1>2. StoreTypeOK' /\ ObjectAgrees' /\ OutboxIsGapless' /\ UNCHANGED HeadOrder
  BY <1>1, JournalFacts, StoreStays
<1>3. Suspended("idle", NewObject, IdleWork, object, delivered)
  BY ObjectFacts, RestsAnywhere DEF StoreInv
<1>4. CallsOK'
  BY <1>1, <1>3, NewTypes DEF CallsOK, Awaits
<1> QED
  BY <1>1, <1>2, <1>4, SameObjectKeeps DEF StoreInv

\* The inductive step.
LEMMA StepKeeps == ASSUME StoreInv, Next PROVE Keeps
<1>1. CASE \E p \in Procs : StoreStep(p)
  BY <1>1, ReplayKeeps, AppendKeeps, PublishKeeps, MarkKeeps DEF StoreStep
<1>2. CASE \E t \in Tickers : Load(t) \/ TickStep(t)
  BY <1>2, LoadKeeps, EvaluateKeeps, IdentityKeeps, PrepareKeeps, BindKeeps, ExecutorKeeps
  DEF TickStep
<1>3. CASE \E p \in Procs : ApplyResolution(p)
  BY <1>3, ResolutionKeeps
<1>4. CASE RecoverScan \/ RecoverExecuting \/ Reconcile
  BY <1>4, ScanKeeps, RecoverKeeps, ExecutorKeeps
<1>5. CASE \E c \in Cancellers : Cancel(c)
  BY <1>5, CancelKeeps
<1>6. CASE (\E n \in Attempts : ChainSettles(n)) \/ DisableTrading
  <2>1. UNCHANGED <<stream, object, journal, delivered, callVars>> /\ now' = now
    BY <1>6 DEF ChainSettles, DisableTrading, durableVars, envVars
  <2> QED
    BY <2>1, JournalFacts, QuietKeeps
<1>7. CASE Tick
  <2>1. UNCHANGED <<stream, object, journal, delivered, callVars>> /\ now' = now + 1 /\ now < MaxNow
    BY <1>7 DEF Tick, durableVars
  <2>2. now' \in 0..MaxNow
    BY <2>1, JournalFacts, Bounds
  <2> QED
    BY <2>1, <2>2, QuietKeeps
<1>8. CASE Crash
  BY <1>8, CrashKeeps
<1>9. CASE \E p \in Procs : Drop(p)
  <2>1. PICK p \in Procs : Drop(p)
    BY <1>9
  <2>2. /\ Finish(p) /\ UNCHANGED <<stream, object, delivered>>
        /\ journal' = journal /\ now' = now
    BY <2>1 DEF Drop, durableVars
  <2> QED
    BY <2>2, RestContinues, JournalFacts, ContinuesKeeps
<1> QED
  BY <1>1, <1>2, <1>3, <1>4, <1>5, <1>6, <1>7, <1>8, <1>9 DEF Next

\* A new order: an empty store and no call.
LEMMA InitKeeps == ASSUME Init PROVE StoreInv
<1>1. /\ stream = <<>> /\ object = NewObject /\ journal = <<>> /\ delivered = {} /\ now = 0
      /\ pc = [p \in Procs |-> "idle"] /\ snap = [p \in Procs |-> NewObject]
      /\ work = [p \in Procs |-> IdleWork]
  BY DEF Init
<1>2. IsFiniteSet(delivered) /\ Cardinality(delivered) = 0
  BY <1>1, FS_EmptySet
<1>3. StoreTypeOK
  BY <1>1, <1>2, NewTypes, Bounds DEF StoreTypeOK
<1>4. ObjectAgrees
  BY <1>1, TermsFields DEF ObjectAgrees, HeadOrder, NewObject, NewOrder
<1>5. OutboxIsGapless
  BY <1>1, <1>2 DEF OutboxIsGapless, NewObject
<1>6. Suspended("idle", NewObject, IdleWork, object, delivered)
  BY <1>1, NewTypes DEF Suspended, Awaits
<1>7. CallsOK
  BY <1>1, <1>6, NewTypes DEF CallsOK, Awaits
<1> QED
  BY <1>3, <1>4, <1>5, <1>7 DEF StoreInv

LEMMA StoreIsKept == Spec => [](StoreInv)
<1>1. StoreInv /\ [Next]_vars => StoreInv'
  <2> SUFFICES ASSUME StoreInv, [Next]_vars PROVE StoreInv'
    OBVIOUS
  <2>1. CASE Next
    BY <2>1, StepKeeps DEF Keeps
  <2>2. CASE UNCHANGED vars
    <3>1. UNCHANGED <<stream, object, journal, delivered, callVars>> /\ now' = now
      BY <2>2 DEF vars, callVars
    <3> QED
      BY <3>1, JournalFacts, QuietKeeps DEF Keeps
  <2> QED
    BY <2>1, <2>2
<1>2. Init => StoreInv
  BY InitKeeps
<1> QED
  BY <1>1, <1>2, PTL DEF Spec

\* Whatever writes fail half way and however calls race, crash or are dropped,
\* publish_pending and mark_published deliver a gapless prefix of the durable
\* stream, and the watermark never passes what the bus accepted.
THEOREM OutboxGapless == Spec => []OutboxIsGapless
<1>1. StoreInv => OutboxIsGapless
  BY DEF StoreInv
<1> QED
  BY <1>1, StoreIsKept, PTL

\* The version check of append_transition and mark_published lets no stale call
\* take the stored object back.
THEOREM ObjectAdvances == Spec => ObjectOnlyAdvances
<1>1. StoreInv /\ [Next]_vars => [Advances]_vars
  BY StepKeeps DEF Keeps
<1> QED
  BY <1>1, StoreIsKept, PTL DEF Spec, ObjectOnlyAdvances, Advances

\* The transition stream implements the order ledger: whoever appends to it, every
\* event is one transition that apply_transition accepts from the event before it,
\* so the ledger's own theorems hold of the durable order.
THEOREM StreamImplementsLedger == Spec => ImplementsOrderLedger
<1>1. StoreInv /\ [Next]_vars => [UNCHANGED HeadOrder \/ Ledger!LedgerNext]_vars
  BY StepKeeps DEF Keeps
<1>2. Init => Ledger!LedgerInit
  <2> SUFFICES ASSUME Init PROVE Ledger!LedgerInit
    OBVIOUS
  <2>1. HeadOrder = NewOrder(terms)
    BY DEF Init, HeadOrder
  <2>2. terms \in Ledger!Terms({MaxInput, MinFill}, {ExpiresAt})
    BY OrchestratorAssumption DEF terms, Ledger!Terms
  <2>3. Ledger!NewOrder(terms) = NewOrder(terms)
    BY DEF Ledger!NewOrder, NewOrder
  <2> QED
    BY <2>1, <2>2, <2>3 DEF Ledger!LedgerInit
<1> QED
  BY <1>1, <1>2, StoreIsKept, PTL DEF Spec, ImplementsOrderLedger
=============================================================================
