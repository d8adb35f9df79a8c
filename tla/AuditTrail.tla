------------------------------ MODULE AuditTrail ------------------------------
(***************************************************************************)
(* The encrypted audit trail (crates/audit) over the opaque event store    *)
(* (crates/storage/src/pg.rs) and at-rest sealing (crates/crypto-envelope/ *)
(* src/at_rest.rs): several writer processes append lifecycle events to    *)
(* one intent's stream, restart, lose replies and rotate keys, while a     *)
(* reader replays the stream batch by batch.                               *)
(*                                                                         *)
(* A stream is addressed by <<kid, intent>> (a keyed hash); a ciphertext   *)
(* is the record of what it binds.  The database's INSERT reads its gate   *)
(* from a snapshot and is decided by the primary key.                      *)
(***************************************************************************)
EXTENDS Integers, Sequences, FiniteSets

CONSTANTS
  AuditWriters,   \* writer processes
  AuditEvents,    \* events, [seq, intent, owner, execution, outcome, signed, bound]
  AuditLookups,   \* [intent, owner, execution]: "any" where not asked
  AuditKids,      \* key identifiers, a sequence: rotation moves to the next
  ReplayBatch,    \* REPLAY_BATCH
  MaxTampered     \* bound on rows the storage corrupts

ASSUME AuditAssumption ==
  /\ AuditKids \in Seq({AuditKids[i] : i \in DOMAIN AuditKids}) /\ AuditKids # <<>>
  /\ ReplayBatch \in Nat

VARIABLES
  rows,       \* [stream -> [sequence -> row]] the events table
  highWater,  \* [writer -> [stream -> last sequence acknowledged]]
  append,     \* [writer -> the append it is in]
  kidIndex,   \* the provider's current key
  replay,     \* a replay in progress or its result
  acked,      \* history: acknowledged appends, <<stream, event>>
  sealed,     \* history: what was inserted where
  tampered    \* history: rows the storage changed

auditVars == <<rows, highWater, append, kidIndex, replay, acked, sealed, tampered>>

AuditIntents == {e.intent : e \in AuditEvents} \cup {l.intent : l \in AuditLookups}
Kids == {AuditKids[i] : i \in DOMAIN AuditKids}
Streams == Kids \X AuditIntents

-----------------------------------------------------------------------------
(* Events, streams and sealing.                                            *)

\* RelayOutcomeClass::requires_signing
RequiresSigning(outcome) == outcome \in {"Submitted", "Unknown", "Confirmed", "Rejected"}

\* validate_bindings: preview, route and event agree.
BindingsHold(e) == e.bound

\* ExecutionAuditEvent::validate: no relay outcome before signing.
EventValid(e) ==
  e.seq > 0 /\ BindingsHold(e) /\ (RequiresSigning(e.outcome) => e.signed)

\* stream_blind_index: the stream of an intent under a blind-index key.
StreamOf(kid, intent) == <<kid, intent>>

\* seal_at_rest: the ciphertext authenticates its key, stream and sequence.
SealAtRest(kid, stream, seq, event) ==
  [kid |-> kid, stream |-> stream, seq |-> seq, event |-> event]

\* open_at_rest under the key the wire names.
Opens(cipher, stream, seq) == cipher.stream = stream /\ cipher.seq = seq

\* AuditLookup::authenticates: an equality of keyed tokens.
Authenticates(lookup, e) ==
  /\ lookup.owner \in {"any", e.owner}
  /\ lookup.execution \in {"any", e.execution}

-----------------------------------------------------------------------------
(* Appending.                                                              *)

AuditIdle == [step |-> "idle"]
WithRow(table, seq, row) == [n \in DOMAIN table \cup {seq} |-> IF n = seq THEN row ELSE table[n]]
MaxSeq(stream) == Cardinality(DOMAIN rows[stream])
Write(w, a) == append' = [append EXCEPT ![w] = a]

\* Mutant: any sequence that is not taken is inserted.
GatePassesAny(stream, seq) == seq \notin DOMAIN rows[stream]

\* append_event's gate: only the successor of the newest row of its snapshot.
GatePasses(stream, seq) == seq = MaxSeq(stream) + 1

\* AuditWriter::append up to the insert.  The process-local high-water mark
\* refuses a sequence that does not increase, the store's gate one that is not
\* next (a conflict); the event is sealed under the provider's current key.
AppendEvent(w, e) ==
  LET kid == AuditKids[kidIndex]
      stream == StreamOf(kid, e.intent)
  IN  /\ append[w].step = "idle"
      /\ EventValid(e)
      /\ e.seq > highWater[w][stream]
      /\ GatePasses(stream, e.seq)
      /\ Write(w, [step |-> "inserting", event |-> e, stream |-> stream,
                   cipher |-> SealAtRest(kid, stream, e.seq, e)])
      /\ UNCHANGED <<rows, highWater, kidIndex, replay, acked, sealed, tampered>>

\* ... ON CONFLICT DO NOTHING; no row inserted is a conflict.  A lost reply is
\* a backend error to the writer, which then does not know.
AppendInsert(w, lost) ==
  LET a == append[w]
      seq == a.event.seq
      fresh == seq \notin DOMAIN rows[a.stream]
  IN  /\ a.step = "inserting"
      /\ Write(w, AuditIdle)
      /\ rows' = IF fresh THEN [rows EXCEPT ![a.stream] = WithRow(@, seq, a.cipher)] ELSE rows
      /\ sealed' = IF fresh THEN [sealed EXCEPT ![a.stream] = WithRow(@, seq, a.event)] ELSE sealed
      /\ IF fresh /\ ~lost
         THEN /\ highWater' = [highWater EXCEPT ![w][a.stream] = seq]
              /\ acked' = acked \cup {<<a.stream, a.event>>}
         ELSE UNCHANGED <<highWater, acked>>
      /\ UNCHANGED <<kidIndex, replay, tampered>>

\* The process restarts: the mark is only in memory.  (An insert cut off by
\* the restart is one whose reply is lost.)
WriterRestart(w) ==
  /\ append[w].step = "idle"
  /\ highWater' = [highWater EXCEPT ![w] = [s \in Streams |-> 0]]
  /\ UNCHANGED <<rows, append, kidIndex, replay, acked, sealed, tampered>>

\* The key provider moves to its next key.
Rotate ==
  /\ kidIndex < Len(AuditKids)
  /\ kidIndex' = kidIndex + 1
  /\ UNCHANGED <<rows, highWater, append, replay, acked, sealed, tampered>>

\* The storage returns a row with another row's ciphertext.
Tamper(stream, seq, from) ==
  /\ Cardinality(tampered) < MaxTampered
  /\ seq \in DOMAIN rows[stream] /\ from \in DOMAIN rows[stream] /\ from # seq
  /\ rows' = [rows EXCEPT ![stream][seq] = rows[stream][from]]
  /\ tampered' = tampered \cup {<<stream, seq>>}
  /\ UNCHANGED <<highWater, append, kidIndex, replay, acked, sealed>>

-----------------------------------------------------------------------------
(* Replaying.                                                              *)

\* replay_with_index_key and replay_current resolve the stream.
ReplayStart(lookup, kid) ==
  /\ replay.step = "none"
  /\ replay' = [step |-> "reading", lookup |-> lookup, stream |-> StreamOf(kid, lookup.intent),
                expected |-> 1, events |-> <<>>,
                floor |-> {p[2].seq : p \in {q \in acked : q[1] = StreamOf(kid, lookup.intent)}}]
  /\ UNCHANGED <<rows, highWater, append, kidIndex, acked, sealed, tampered>>

\* read_events: at most ReplayBatch rows from a sequence on, in order.
StoredBatch(stream, from) ==
  {n \in DOMAIN rows[stream] :
     n >= from /\ Cardinality({m \in DOMAIN rows[stream] : m >= from /\ m < n}) < ReplayBatch}

\* read_and_open, one batch: a gap, a record that does not open or an event of
\* another sequence ends the replay with an error and no events.
ReplayRead ==
  LET from == replay.expected
      batch == StoredBatch(replay.stream, from)
      size == Cardinality(batch)
      bad == \E n \in batch : ~Opens(rows[replay.stream][n], replay.stream, n)
      gap == batch # from..(from + size - 1)
      opened == [i \in 1..size |-> rows[replay.stream][from + i - 1].event]
  IN  /\ replay.step = "reading"
      /\ replay' =
           IF size > 0 /\ (gap \/ bad)
           THEN [replay EXCEPT !.step = "failed", !.events = <<>>]
           ELSE IF size < ReplayBatch
           THEN [replay EXCEPT !.step = "done", !.events = @ \o opened]
           ELSE [replay EXCEPT !.expected = @ + size, !.events = @ \o opened]
      /\ UNCHANGED <<rows, highWater, append, kidIndex, acked, sealed, tampered>>

\* replay_with_material's filtered view: the positions it keeps, in their order.
ReplayView == {i \in DOMAIN replay.events : Authenticates(replay.lookup, replay.events[i])}

ReplayTaken ==
  /\ replay.step \in {"done", "failed"}
  /\ replay' = [step |-> "none"]
  /\ UNCHANGED <<rows, highWater, append, kidIndex, acked, sealed, tampered>>

-----------------------------------------------------------------------------
AuditInit ==
  /\ rows = [s \in Streams |-> <<>>] /\ sealed = [s \in Streams |-> <<>>]
  /\ highWater = [w \in AuditWriters |-> [s \in Streams |-> 0]]
  /\ append = [w \in AuditWriters |-> AuditIdle]
  /\ kidIndex = 1 /\ replay = [step |-> "none"] /\ acked = {} /\ tampered = {}

AuditNext ==
  \/ \E w \in AuditWriters :
       \/ \E e \in AuditEvents : AppendEvent(w, e)
       \/ WriterRestart(w)
       \/ \E lost \in BOOLEAN : AppendInsert(w, lost)
  \/ Rotate \/ ReplayRead \/ ReplayTaken
  \/ \E s \in Streams : \E n, m \in DOMAIN rows[s] : Tamper(s, n, m)
  \/ \E l \in AuditLookups, k \in Kids : ReplayStart(l, k)

AuditSpec == AuditInit /\ [][AuditNext]_auditVars

-----------------------------------------------------------------------------
(* Properties.                                                             *)

\* However writers race, restart and lose replies, a stream is the events
\* 1..n without a hole, and an acknowledged append is there for good, once, at
\* its own sequence (append_event's gate and the primary key).
StreamIsContiguous ==
  /\ \A s \in Streams : DOMAIN rows[s] = 1..Cardinality(DOMAIN rows[s])
  /\ \A p \in acked : sealed[p[1]][p[2].seq] = p[2]

\* A replay that answers returns, in order, exactly the valid events that were
\* appended at each position, every append acknowledged before it began
\* included; a row the storage changed under it makes it fail, never lie.
ReplayIsFaithful ==
  replay.step = "done" =>
    /\ \A i \in DOMAIN replay.events :
         /\ replay.events[i] = sealed[replay.stream][i]
         /\ EventValid(replay.events[i])
    /\ replay.floor \subseteq DOMAIN replay.events
    /\ \A i \in ReplayView :
         replay.lookup.owner \in {"any", replay.events[i].owner}

AuditIsFaithful == StreamIsContiguous /\ ReplayIsFaithful
=============================================================================
