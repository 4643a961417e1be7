--------------------------- MODULE TranslateRouting ---------------------------
(***************************************************************************)
(* One buffer's rows on their way to the screen: src/src/state/events.rs   *)
(* (routing, the reorder queue's owner), src/src/app/translate.rs (the     *)
(* answers of the provider and the tick) and the own-message reflections   *)
(* of src/src/irc/events.rs.                                               *)
(*                                                                         *)
(* The main loop runs one handler at a time, so a handler is one action.   *)
(* What is concurrent is the provider (answers in any order), the outgoing *)
(* lane (answers in submission order), the URL shrinker (any order), the   *)
(* server (reflects our lines in the order they were sent), the clock, the *)
(* tick and the user.                                                      *)
(*                                                                         *)
(* A row is [key, src, part]: `key` is the id that orders it, `src` the    *)
(* arrival or the send it comes from, `part` its chunk number in a split   *)
(* send.                                                                   *)
(***************************************************************************)
EXTENDS TranslateQueue, FiniteSets

CONSTANTS
  MaxQueue,      \* translate.max_queue
  Timeout,       \* translate.timeout_ms, in clock steps
  RecordTTL,     \* OWN_ECHO_TTL, in clock steps
  MaxRecords,    \* OWN_ECHO_MAX
  Sessions       \* the sessions to look at, see Session

ASSUME MaxQueueAssumption == MaxQueue \in Nat \ {0}
ASSUME TimeoutAssumption == Timeout \in Nat \ {0}

\* A session: whether the server grants echo-message, whether incoming shrink
\* is on, whether the user sends one text again and again or never the same
\* twice, the wire lines a translation may need, and the bound on the message
\* ids handed out.
Session == [echo : BOOLEAN, shrinking : BOOLEAN, retype : BOOLEAN, parts : Nat \ {0}, ids : Nat]

ASSUME SessionsAssumption ==
  /\ MaxRecords \in Nat
  /\ Sessions # {}
  /\ \A s \in Sessions : s \in Session /\ s.parts <= MaxRecords

VARIABLES
  open,         \* buffers.contains_key(id)
  hasQueue,     \* translate_queues.contains_key(id)
  queue,        \* its entries
  records,      \* own_echo_decorations: sends whose reflection is expected
  atProvider,   \* incoming lines dispatched and not answered
  lane,         \* outgoing sends in translation, in submission order
  reflecting,   \* our lines the server has yet to reflect
  atShrinker,   \* rows sent to the URL shrinker
  nextId,       \* next_message_id
  session,      \* the Session at hand
  writer,       \* whether the session's writer task still takes lines
  shown,        \* history: rows delivered to the buffer, in order
  lost,         \* history: rows refused because the buffer was gone
  unplaced,     \* history: keys that gave their place up, or never had one
  timedOut,     \* history: reservations the tick gave up on
  crossed       \* history: sends of one text whose lines and records crossed

vars == <<open, hasQueue, queue, records, atProvider, lane, reflecting,
          atShrinker, nextId, session, writer, shown, lost, unplaced, timedOut, crossed>>

Row(id) == [key |-> id, src |-> id, part |-> 0]
OwnRow(key, send, part) == [key |-> key, src |-> send, part |-> part]

MaxAge == IF Timeout > RecordTTL THEN Timeout ELSE RecordTTL
Older(x) == [x EXCEPT !.age = IF @ < MaxAge THEN @ + 1 ELSE @]

Init ==
  /\ open = TRUE /\ hasQueue = FALSE /\ queue = <<>>
  /\ records = <<>> /\ atProvider = {} /\ lane = <<>>
  /\ reflecting = <<>> /\ atShrinker = {}
  /\ session \in Sessions
  /\ nextId = 1 /\ writer = TRUE
  /\ shown = <<>> /\ lost = {} /\ unplaced = {} /\ timedOut = {} /\ crossed = {}

-----------------------------------------------------------------------------
(* A handler works on the buffer's queue and hands rows to the buffer:     *)
(* b = [has, q, out].                                                      *)

Now == [has |-> hasQueue, q |-> queue, out |-> <<>>]

\* deliver_ready: rows leave the queue for the buffer.
Release(b) == [b EXCEPT !.q = Drained(b.q), !.out = b.out \o DrainedRows(b.q)]

\* A queue that is dropped when it has emptied.
Prune(b) == [b EXCEPT !.has = b.has /\ b.q # <<>>]

\* drain_translate_ready, drain_translate_queue
DrainTranslateReady(b) == IF b.has THEN Prune(Release(b)) ELSE b

\* Mutant of EnforceTranslateCeiling: left to the tick.
NoCeiling(b) == b

\* enforce_translate_ceiling: an emptied queue is kept.
EnforceTranslateCeiling(b) ==
  IF b.has /\ Len(b.q) > MaxQueue
    THEN Release([b EXCEPT !.q = EnforceCeiling(b.q, MaxQueue)])
    ELSE b

\* flush_translate_queue
FlushTranslateQueue(b) ==
  IF b.has THEN [Release([b EXCEPT !.q = FlushAll(b.q)]) EXCEPT !.has = FALSE] ELSE b

\* Mutant of ReleaseEchoSlot: an emptied queue stays.
ReleaseSlotOnly(b, id) == IF b.has THEN [b EXCEPT !.q = ReleaseReserved(b.q, id)] ELSE b

\* release_echo_slot: prunes, but does not drain.
ReleaseEchoSlot(b, id) == IF b.has THEN Prune([b EXCEPT !.q = ReleaseReserved(b.q, id)]) ELSE b

ReleaseEchoSlotAndDrain(b, id) == DrainTranslateReady(ReleaseEchoSlot(b, id))

\* Mutant of PushOrDeliver: shown at once, ahead of the queue.
DeliverAtOnce(b, row) == [b EXCEPT !.out = Append(b.out, row)]

\* A row that needs no translation: behind the queue when there is one.
PushOrDeliver(b, row) ==
  IF b.has THEN EnforceTranslateCeiling([b EXCEPT !.q = PushResolved(b.q, row.key, row)])
           ELSE [b EXCEPT !.out = Append(b.out, row)]

InsertRow(q, row) == InsertResolvedInOrder(q, row.key, row)

\* add_own_message_chunks: into the reserved place, else by id, else directly.
AddOwnMessageChunks(b, key, rows) ==
  IF ~b.has THEN [b EXCEPT !.out = b.out \o rows]
  ELSE LET placed == IF HoldsReservation(b.q, key) THEN FillReservedWith(b.q, key, rows)
                     ELSE FoldLeft(InsertRow, b.q, rows)
       IN  DrainTranslateReady(EnforceTranslateCeiling([b EXCEPT !.q = placed]))

\* hold_own_message_chunk
HoldOwnMessageChunk(b, key, row) ==
  IF b.has /\ CanHold(b.q, key)
    THEN [b EXCEPT !.q = HoldInReserved(b.q, key, row)]
    ELSE AddOwnMessageChunks(b, key, <<row>>)

\* abandon_reflections
AbandonReflections(b, ids) == FoldLeft(ReleaseEchoSlotAndDrain, b, ids)

Reservations(q) == {q[i].id : i \in {j \in 1..Len(q) : q[j].kind = "reserved"}}

\* End of a handler: rows go to the buffer, and of `places` those that are
\* gone were given up.
Close(b, places) ==
  /\ hasQueue' = b.has
  /\ queue' = IF b.has THEN b.q ELSE <<>>
  /\ shown' = IF open THEN shown \o b.out ELSE shown
  /\ lost' = IF open THEN lost ELSE lost \cup Range(b.out)
  /\ unplaced' = unplaced \cup (places \ Reservations(queue'))

\* `filled`: the reservation that got the row it was for (matching by text may
\* give it the row of an equal send).
Finish(b, filled) == Close(b, Reservations(queue) \ filled)

\* The ceiling may take back at once the place that was asked for.
FinishReserving(b) == Close(b, Reservations(queue) \cup {nextId})

TakeId == nextId <= session.ids /\ nextId' = nextId + 1

-----------------------------------------------------------------------------
(* Rows arriving from the network.                                         *)

\* route_through_translation -> dispatch_for_translation: the worker takes it.
RecvDispatched ==
  /\ open /\ TakeId
  /\ LET has == [Now EXCEPT !.has = TRUE]
     IN  Finish(EnforceTranslateCeiling(
                  [has EXCEPT !.q = PushPending(has.q, nextId, Row(nextId))]), {})
  /\ atProvider' = atProvider \cup {nextId}
  /\ UNCHANGED <<open, records, lane, reflecting, atShrinker, timedOut, crossed, writer, session>>

\* A line that is no candidate, or a candidate that cannot be dispatched
\* (multi-line, worker full or dead): in order, without a translation.  Also
\* the placeholders and day separators of add_transient_message_with_activity
\* and add_local_message_in_order.
RecvInOrder ==
  /\ open /\ TakeId
  /\ Finish(PushOrDeliver(Now, Row(nextId)), {})
  /\ UNCHANGED <<open, records, atProvider, lane, reflecting, atShrinker, timedOut, crossed, writer, session>>

\* A row with a long URL: with a queue its place is reserved first
\* (offer_parked_row_to_shrink), without one it simply leaves for the worker.
RecvToShrinker ==
  /\ open /\ session.shrinking /\ TakeId
  /\ atShrinker' = atShrinker \cup {nextId}
  /\ FinishReserving(IF hasQueue
       THEN EnforceTranslateCeiling([Now EXCEPT !.q = Reserve(queue, nextId)])
       ELSE Now)
  /\ UNCHANGED <<open, records, atProvider, lane, reflecting, timedOut, crossed, writer, session>>

\* Mutant of ShrinkDone: the row is only put into a reservation it still has.
ShrinkDoneFillOnly(id) ==
  /\ id \in atShrinker
  /\ atShrinker' = atShrinker \ {id}
  /\ Finish(IF hasQueue
              THEN DrainTranslateReady([Now EXCEPT !.q = FillReservedWith(queue, id, <<Row(id)>>)])
              ELSE [Now EXCEPT !.out = <<Row(id)>>], {id})
  /\ UNCHANGED <<open, records, atProvider, lane, reflecting, nextId, timedOut, crossed, writer, session>>

\* deliver_shrunk_in_order
ShrinkDone(id) ==
  /\ id \in atShrinker
  /\ atShrinker' = atShrinker \ {id}
  /\ LET row == Row(id)
     IN  IF ~hasQueue
           THEN Finish([Now EXCEPT !.out = <<row>>], {})
           ELSE IF HoldsReservation(queue, id)
             THEN Finish(DrainTranslateReady(
                           [Now EXCEPT !.q = FillReservedWith(queue, id, <<row>>)]), {id})
             ELSE Finish(DrainTranslateReady(
                           [Now EXCEPT !.q = InsertResolvedInOrder(queue, id, row)]), {})
  /\ UNCHANGED <<open, records, atProvider, lane, reflecting, nextId, timedOut, crossed, writer, session>>

\* Mutant of AnswerIncoming: an answer the queue no longer waits for is shown.
AnswerShownLate(id) ==
  /\ id \in atProvider
  /\ atProvider' = atProvider \ {id}
  /\ LET waiting == \E e \in Range(queue) : e.id = id /\ e.kind = "pending"
     IN  Finish(IF waiting THEN DrainTranslateReady([Now EXCEPT !.q = Resolve(queue, id)])
                           ELSE [Now EXCEPT !.out = <<Row(id)>>], {})
  /\ UNCHANGED <<open, records, lane, reflecting, atShrinker, nextId, timedOut, crossed, writer, session>>

\* resolve_incoming_translation: an answer, of whatever outcome.  The queue
\* may have released the line long ago.
AnswerIncoming(id) ==
  /\ id \in atProvider
  /\ atProvider' = atProvider \ {id}
  /\ Finish(DrainTranslateReady([Now EXCEPT !.q = Resolve(queue, id)]), {})
  /\ UNCHANGED <<open, records, lane, reflecting, atShrinker, nextId, timedOut, crossed, writer, session>>

-----------------------------------------------------------------------------
(* Own messages.                                                           *)

\* The error row of a refused send takes its place like any other, if the
\* window is there (deliver_translate_error falls back to another one).
WithErrorRow(b, id) == IF open THEN PushOrDeliver(b, Row(id)) ELSE b

\* reserve_echo_slot, then the hand-over to the outgoing worker.
Submit ==
  /\ TakeId
  /\ lane' = Append(lane, [id |-> nextId, text |-> IF session.retype THEN 0 ELSE nextId, age |-> 0, sameSession |-> TRUE])
  /\ FinishReserving(EnforceTranslateCeiling(
              [Now EXCEPT !.has = TRUE, !.q = Reserve(queue, nextId)]))
  /\ UNCHANGED <<open, records, atProvider, reflecting, atShrinker, timedOut, crossed, writer, session>>

\* The worker is full or dead: the place is given back at once and the send
\* is refused in the conversation on screen.
SubmitRefused ==
  /\ nextId < session.ids /\ nextId' = nextId + 2
  /\ LET reserved == EnforceTranslateCeiling(
                       [Now EXCEPT !.has = TRUE, !.q = Reserve(queue, nextId)])
     IN  Finish(WithErrorRow(ReleaseEchoSlot(reserved, nextId), nextId + 1), {})
  /\ UNCHANGED <<open, records, atProvider, lane, reflecting, atShrinker, timedOut, crossed, writer, session>>

Late(send) == send.age >= Timeout

\* The send comes back and is not put on the wire: a gap, a refused answer,
\* a late one, no connection, another session.
OutgoingRefused ==
  /\ lane # <<>> /\ TakeId
  /\ LET send == Head(lane)
     IN  Finish(WithErrorRow(ReleaseEchoSlotAndDrain(Now, send.id), nextId), {})
  /\ lane' = Tail(lane)
  /\ UNCHANGED <<open, records, atProvider, reflecting, atShrinker, timedOut, crossed, writer, session>>

CanSend == lane # <<>> /\ writer /\ ~Late(Head(lane)) /\ Head(lane).sameSession

\* Without echo-message: write_translated_local_echo, then the drain.
OutgoingSentLocalEcho(parts) ==
  /\ CanSend /\ ~session.echo
  /\ LET send == Head(lane)
         rows == [i \in 1..parts |-> OwnRow(send.id, send.id, i)]
         echo == IF open THEN AddOwnMessageChunks(Now, send.id, rows)
                         ELSE ReleaseEchoSlot(Now, send.id)
     IN  Finish(DrainTranslateReady(echo), IF open THEN {send.id} ELSE {})
  /\ lane' = Tail(lane)
  /\ UNCHANGED <<open, records, atProvider, reflecting, atShrinker, nextId, timedOut, crossed, writer, session>>

\* Without echo-message, for a script that prints its own output: no row will
\* come, the place is given up.
OutgoingSentSilently ==
  /\ CanSend /\ ~session.echo
  /\ Finish(DrainTranslateReady(ReleaseEchoSlot(Now, Head(lane).id)), {})
  /\ lane' = Tail(lane)
  /\ UNCHANGED <<open, records, atProvider, reflecting, atShrinker, nextId, timedOut, crossed, writer, session>>

\* decorate_own_echo for one wire line: records are dropped by MESSAGE, first
\* the expired ones, then the oldest until the new one fits.
StaleIds(recs) == {recs[i].id : i \in {j \in 1..Len(recs) : recs[j].age >= RecordTTL}}
KeepRecords(recs, ids) == Picked(recs, {i \in 1..Len(recs) : recs[i].id \notin ids})

\* Mutant of Evicted: no cap.
NeverEvict(recs) == {}

\* Ids of the messages to evict, oldest first, until `recs` has room.
Evicted(recs) ==
  LET heads == [k \in 1..Len(recs) |-> {recs[i].id : i \in 1..k}]
      fits  == {k \in 1..Len(recs) : Len(KeepRecords(recs, heads[k])) < MaxRecords}
  IN  IF Len(recs) < MaxRecords \/ fits = {} THEN {} ELSE heads[Min(fits)]

DecorateOwnEcho(rb, record) ==
  LET stale   == StaleIds(rb.recs)
      fresh   == KeepRecords(rb.recs, stale)
      dropped == stale \cup Evicted(fresh)
  IN  [recs |-> Append(KeepRecords(rb.recs, dropped), record),
       b    |-> AbandonReflections(rb.b, SetToSeq(dropped))]

\* Line i of a send whose translation needed `parts` lines: sending the same
\* text again gives the same lines.
WireText(send, parts, i) == <<send.text, parts, i>>
Wire(send, parts, i) == [id |-> send.id, text |-> WireText(send, parts, i), part |-> i]

\* With echo-message: expect_own_reflection files a record per wire line; the
\* reservation stays up for the reflections.
OutgoingSentReflected(parts) ==
  /\ CanSend /\ session.echo
  /\ LET send  == Head(lane)
         lines == [i \in 1..parts |-> [id |-> send.id, text |-> WireText(send, parts, i),
                                       part |-> i, last |-> i = parts, age |-> 0]]
         filed == FoldLeft(DecorateOwnEcho, [recs |-> records, b |-> Now], lines)
     IN  /\ records' = filed.recs
         /\ Finish(DrainTranslateReady(filed.b), {})
         /\ reflecting' = reflecting \o
              [i \in 1..parts |-> Wire(send, parts, i)]
  /\ lane' = Tail(lane)
  /\ UNCHANGED <<open, atProvider, atShrinker, nextId, timedOut, crossed, writer, session>>

\* The writer task died after `sent` of the lines: abandon_translated_send.
\* What went out may still be reflected, with no record of it.
OutgoingSentPartly(parts, sent) ==
  /\ CanSend /\ sent < parts /\ TakeId
  /\ LET send == Head(lane)
     IN  /\ Finish(WithErrorRow(ReleaseEchoSlotAndDrain(Now, send.id), nextId), {})
         /\ reflecting' = IF session.echo
              THEN reflecting \o [i \in 1..sent |-> Wire(send, parts, i)]
              ELSE reflecting
  /\ lane' = Tail(lane)
  /\ writer' = FALSE
  /\ UNCHANGED <<open, records, atProvider, atShrinker, timedOut, crossed, session>>

\* take_own_echo_decoration: expired messages go first, then the oldest
\* record with this wire text is consumed (0: none).
Taken(recs, text) ==
  LET fresh == KeepRecords(recs, StaleIds(recs))
      p     == SelectInSeq(fresh, LAMBDA r : r.text = text)
  IN  [found |-> p # 0,
       rec   |-> IF p = 0 THEN <<>> ELSE fresh[p],
       left  |-> IF p = 0 THEN fresh ELSE RemoveAt(fresh, p)]

\* Equal sends have equal lines: a line may take the record of another send.
CrossedBy(line, taken) ==
  IF taken.found /\ taken.rec.id # line.id THEN {taken.rec.id, line.id} ELSE {}

\* handle_privmsg on our own line: the record says where it belongs, a line
\* without one is an ordinary row.  (A query without a window gets one first:
\* OpenBuffer; a channel that was left does not.)
Reflect ==
  /\ reflecting # <<>>
  /\ LET line  == Head(reflecting)
         taken == Taken(records, line.text)
         base  == AbandonReflections(Now, SetToSeq(StaleIds(records)))
         rec   == taken.rec
         row   == OwnRow(IF taken.found THEN rec.id ELSE nextId, line.id, line.part)
     IN  /\ records' = taken.left
         /\ IF taken.found
              THEN IF rec.last
                     THEN Finish(AddOwnMessageChunks(base, rec.id, <<row>>), {rec.id} \cap {line.id})
                     ELSE Finish(HoldOwnMessageChunk(base, rec.id, row), {})
              ELSE Finish(PushOrDeliver(base, row), {})
         /\ IF taken.found THEN nextId' = nextId ELSE TakeId
         /\ crossed' = crossed \cup CrossedBy(line, taken)
  /\ reflecting' = Tail(reflecting)
  /\ UNCHANGED <<open, atProvider, lane, atShrinker, timedOut, writer, session>>

\* Mutant of ReflectSuppressed: the record is consumed, the place is kept.
SuppressedKeepsPlace ==
  /\ reflecting # <<>>
  /\ records' = Taken(records, Head(reflecting).text).left
  /\ Finish(AbandonReflections(Now, SetToSeq(StaleIds(records))), {})
  /\ reflecting' = Tail(reflecting)
  /\ UNCHANGED <<open, atProvider, lane, atShrinker, nextId, timedOut, crossed, writer, session>>

\* The reflection is eaten: by a script (release_suppressed_own_echo) or by an
\* ignore rule that matches us.
ReflectSuppressed ==
  /\ reflecting # <<>>
  /\ LET taken == Taken(records, Head(reflecting).text)
         base  == AbandonReflections(Now, SetToSeq(StaleIds(records)))
     IN  /\ records' = taken.left
         /\ Finish(IF taken.found THEN ReleaseEchoSlotAndDrain(base, taken.rec.id) ELSE base, {})
         /\ crossed' = crossed \cup CrossedBy(Head(reflecting), taken)
  /\ reflecting' = Tail(reflecting)
  /\ UNCHANGED <<open, atProvider, lane, atShrinker, nextId, timedOut, writer, session>>

-----------------------------------------------------------------------------
(* Clock, tick, user, connection.                                          *)

Elapse ==
  /\ queue' = [i \in 1..Len(queue) |-> Older(queue[i])]
  /\ records' = [i \in 1..Len(records) |-> Older(records[i])]
  /\ lane' = [i \in 1..Len(lane) |-> Older(lane[i])]
  /\ UNCHANGED <<open, hasQueue, atProvider, reflecting, atShrinker, nextId,
                 shown, lost, unplaced, timedOut, crossed, writer, session>>

\* tick_translate_queues: expire, ceiling, drain, forget the records of the
\* reservations that timed out, prune.
Tick ==
  /\ hasQueue
  /\ LET abandoned == AbandonedReservations(queue, Timeout)
         forced    == EnforceCeiling(Expire(queue, Timeout), MaxQueue)
     IN  /\ Finish(Prune(Release([Now EXCEPT !.q = forced])), {})
         /\ records' = KeepRecords(records, abandoned)
         /\ timedOut' = timedOut \cup abandoned
  /\ UNCHANGED <<open, atProvider, lane, reflecting, atShrinker, nextId, writer, session, crossed>>

\* remove_buffer: the flush comes before the buffer goes.
CloseBuffer ==
  /\ open
  /\ open' = FALSE
  /\ Finish(FlushTranslateQueue(Now), {})
  /\ records' = <<>>
  /\ UNCHANGED <<atProvider, lane, reflecting, atShrinker, nextId, timedOut, crossed, writer, session>>

OpenBuffer ==
  /\ ~open
  /\ open' = TRUE
  /\ UNCHANGED <<hasQueue, queue, records, atProvider, lane, reflecting, atShrinker,
                 nextId, shown, lost, unplaced, timedOut, crossed, writer, session>>

\* /translate delin: flush_pending_translations leaves reservations alone.
StopIncoming ==
  /\ hasQueue
  /\ Finish(Prune(Release([Now EXCEPT !.q = FlushPending(queue)])), {})
  /\ UNCHANGED <<open, records, atProvider, lane, reflecting, atShrinker, nextId, timedOut, crossed, writer, session>>

\* The connection drops and is made anew: its queues are flushed, its records
\* forgotten, and a send still in translation belongs to a session that is
\* over.
Disconnect ==
  /\ Finish(FlushTranslateQueue(Now), {})
  /\ records' = <<>>
  /\ reflecting' = <<>>
  /\ writer' = TRUE
  /\ lane' = [i \in 1..Len(lane) |-> [lane[i] EXCEPT !.sameSession = FALSE]]
  /\ UNCHANGED <<open, atProvider, atShrinker, nextId, timedOut, crossed, session>>

Next ==
  \/ RecvDispatched \/ RecvInOrder \/ RecvToShrinker
  \/ \E id \in 1..session.ids : ShrinkDone(id) \/ AnswerIncoming(id)
  \/ Submit \/ SubmitRefused
  \/ OutgoingRefused \/ OutgoingSentSilently
  \/ \E n \in 1..session.parts :
       \/ OutgoingSentLocalEcho(n) \/ OutgoingSentReflected(n)
       \/ \E sent \in 1..(n - 1) : OutgoingSentPartly(n, sent)
  \/ Reflect \/ ReflectSuppressed
  \/ Elapse \/ Tick
  \/ CloseBuffer \/ OpenBuffer \/ StopIncoming \/ Disconnect

Spec == Init /\ [][Next]_vars

\* When the tick would change anything.
TickDue ==
  /\ hasQueue
  /\ \/ queue = <<>> \/ ~IsWaiting(Head(queue)) \/ Len(queue) > MaxQueue
     \/ \E e \in Range(queue) : TimedOut(e, Timeout)

\* The clock advances and the one-second tick comes round.  Nothing else is
\* promised: a provider may never answer, a server may never reflect.  The
\* second conjunct is WF_vars(Tick) with its ENABLED spelled out.
Fairness == WF_vars(Elapse) /\ ([]<>(~TickDue) \/ []<><<Tick>>_vars)

FairSpec == Spec /\ Fairness

-----------------------------------------------------------------------------
Ids == 1..Max({s.ids : s \in Sessions})
Rows == [key : Ids, src : Ids, part : 0..MaxRecords]

TypeOK ==
  /\ open \in BOOLEAN /\ hasQueue \in BOOLEAN
  /\ \A e \in Range(queue) :
       /\ e.id \in Ids /\ e.kind \in {"pending", "reserved", "ready"}
       /\ Range(e.rows) \subseteq Rows /\ e.age \in 0..MaxAge
  /\ ~hasQueue => queue = <<>>
  /\ Len(records) <= MaxRecords
  /\ \A r \in Range(records) : r.id \in Ids /\ r.part \in 1..session.parts /\ r.age \in 0..MaxAge
  /\ atProvider \subseteq Ids /\ atShrinker \subseteq Ids
  /\ Range(shown) \cup lost \subseteq Rows
  /\ nextId \in 1..(session.ids + 1) /\ writer \in BOOLEAN
  /\ unplaced \cup timedOut \cup crossed \subseteq Ids

QueueRows == UNION {Range(queue[i].rows) : i \in 1..Len(queue)}
RowsInSystem == Range(shown) \cup QueueRows \cup lost \cup {Row(id) : id \in atShrinker}

\* Whatever combination of answers, expiries, ceilings and flushes releases a
\* row, it is not also released by another: every row is in one place.
NeverTwice ==
  /\ IsInjective(shown) /\ \A i \in 1..Len(queue) : IsInjective(queue[i].rows)
  /\ \A i, j \in 1..Len(queue) : i < j => Range(queue[i].rows) \cap Range(queue[j].rows) = {}
  /\ Range(shown) \cap QueueRows = {} /\ lost \cap (Range(shown) \cup QueueRows) = {}
  /\ \A id \in atShrinker : Row(id) \notin Range(shown) \cup QueueRows \cup lost

\* A row that was received stays: no path of the queue drops one.
NoRowVanishes == [][RowsInSystem \subseteq RowsInSystem']_vars

\* remove_buffer flushes before the buffer goes, so an incoming line that held
\* a place is never refused by a buffer that is gone.
OnlyUnplacedLost == \A row \in lost : row.part = 0 => row.key \in unplaced

\* A row is shown once, or lost with its buffer after its place was given up.
RowsOnce == NeverTwice /\ OnlyUnplacedLost

\* The guarantee the reorder queue exists for: the rows of a buffer appear in
\* the order of their ids, except a row whose place had to be given up.
OrderKept ==
  \A i, j \in 1..Len(shown) :
    i < j /\ shown[i].key > shown[j].key => shown[j].key \in unplaced

\* What the handlers together promise the buffer.  A step of the routing shows
\* the rows it appends and hands out the ids it takes; TLC is given that
\* witness instead of searching for one.
Timeline == INSTANCE OrderedTimeline WITH
  timeline  <- [i \in 1..Len(shown) |-> shown[i].key],
  held      <- {queue[i].id : i \in 1..Len(queue)},
  forfeited <- unplaced,
  next      <- nextId

NewKeys == [i \in 1..(Len(shown') - Len(shown)) |-> shown'[Len(shown) + i].key]

\* No handler shows a row while an older one still holds its place: routing
\* implements OrderedTimeline.
ImplementsTimeline == Timeline!Init /\ [][Timeline!Step(NewKeys, nextId')]_vars

\* A long translation comes back as several lines; they are never shown with
\* a later part first, even when records are evicted or time out in between.
\* This is what decorate_own_echo drops records by message for.  It does not
\* reach the sends of one text whose records were forgotten (the window was
\* closed, the cap reached) while their lines were still to come: such a line
\* takes the record of a later send, and the last part may fill its place
\* with the first part behind it.
PartsInOrder ==
  \A i, j \in 1..Len(shown) :
    /\ i < j /\ shown[i].src = shown[j].src /\ shown[i].src \notin crossed
    => shown[i].part < shown[j].part

\* While its place is held, the parts of a send are shown together.
PartsTogether ==
  \A i, j, k \in 1..Len(shown) :
    i < j /\ j < k /\ shown[i].key = shown[k].key /\ shown[i].key \notin unplaced
      => shown[j].key = shown[i].key

\* The lines of one answer are shown as one message: in order, and with
\* nothing between them (hold_own_message_chunk, decorate_own_echo), but for
\* the exceptions of the two.
PartsWhole == PartsInOrder /\ PartsTogether

\* A reservation is a barrier for the whole buffer: something that will end
\* it before its timeout is always on the way.
NoOrphanBarrier ==
  \A id \in Reservations(queue) :
    \/ id \in atShrinker
    \/ \E i \in 1..Len(lane) : lane[i].id = id
    \/ \E i \in 1..Len(records) : records[i].id = id

\* forget_own_echo_records: a record does not outlive a reservation that
\* timed out, or it would catch the next reflection of the same text.
NoStaleRecord == \A i \in 1..Len(records) : records[i].id \notin timedOut

\* Places and records end together: neither blocks or catches what comes
\* after it (release_echo_slot, forget_own_echo_records).
NothingLeftBehind == NoOrphanBarrier /\ NoStaleRecord

\* docs/commands/translate.md: the queue is capped at translate.max_queue, as
\* lines arrive and not on a timer.
QueueBounded == Len(queue) <= MaxQueue

WaitingEntries(q) == {i \in 1..Len(q) : IsWaiting(q[i])}

\* The part of that bound that holds (enforce_translate_ceiling): a line that
\* arrives leaves the queue within max_queue, and whatever happens in between
\* no more than max_queue entries wait for the provider or for an echo.
\* Parked lines of one send may exceed the bound until the next arrival.
HeldToCeiling ==
  [][/\ open /\ nextId' # nextId => Len(queue') <= MaxQueue
     /\ Cardinality(WaitingEntries(queue')) <= MaxQueue]_vars

Idle == hasQueue /\ WaitingEntries(queue) = {}

\* No step leaves a queue behind in which nothing waits, so that rows are
\* parked behind nothing until the tick comes round; only the ceiling may
\* (it keeps an emptied queue), and only when it was reached.
NothingParkedIdly == [][Idle' => Idle \/ Len(queue) >= MaxQueue]_vars

\* Whatever the provider and the server do, nothing stays in the queue for
\* ever: every id is again and again absent from it.
EntriesLeave == \A id \in Ids : []<>(\A e \in Range(queue) : e.id # id)
=============================================================================
