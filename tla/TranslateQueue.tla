---------------------------- MODULE TranslateQueue ----------------------------
(***************************************************************************)
(* The per-buffer reorder queue of src/src/translate/queue.rs, as          *)
(* operators on a sequence of entries.                                     *)
(*                                                                         *)
(* An entry is a place in the buffer's timeline:                           *)
(*   "pending"   a line at the translation provider, rows = <<the line>>;  *)
(*   "reserved"  a place held for rows that do not exist yet, rows = the   *)
(*               chunks already parked there;                              *)
(*   "ready"     a row cleared for delivery, rows = <<the row>>.           *)
(* Its age counts clock steps since it was queued (Instant::elapsed).      *)
(* What a row says, how it is marked and whether it is logged is left out: *)
(* a row is whatever the module that uses the queue wants it to be.        *)
(***************************************************************************)
EXTENDS Integers, Sequences, FiniteSets, SequencesExt

Pending(id, row) == [id |-> id, kind |-> "pending", rows |-> <<row>>, age |-> 0]
Reserved(id)     == [id |-> id, kind |-> "reserved", rows |-> <<>>, age |-> 0]
Ready(id, row)   == [id |-> id, kind |-> "ready", rows |-> <<row>>, age |-> 0]

IsWaiting(e) == e.kind \in {"pending", "reserved"}

PushPending(q, id, row)  == Append(q, Pending(id, row))
PushResolved(q, id, row) == Append(q, Ready(id, row))
Reserve(q, id)           == Append(q, Reserved(id))

\* Mutant of InsertResolvedInOrder: append it.
AppendResolved(q, id, row) == Append(q, Ready(id, row))

\* Before the first entry with a greater id, or at the end.
InsertResolvedInOrder(q, id, row) ==
  LET later == SelectInSeq(q, LAMBDA e : e.id > id)
  IN  InsertAt(q, IF later = 0 THEN Len(q) + 1 ELSE later, Ready(id, row))

ReservationAt(q, id) == SelectInSeq(q, LAMBDA e : e.id = id /\ e.kind = "reserved")

HoldsReservation(q, id) == ReservationAt(q, id) # 0

\* hold_in_reserved: the FIRST entry with the id must be a reservation,
\* otherwise the row is handed back (CanHold is false).
CanHold(q, id) ==
  LET p == SelectInSeq(q, LAMBDA e : e.id = id)
  IN  p # 0 /\ q[p].kind = "reserved"

HoldInReserved(q, id, row) ==
  LET p == SelectInSeq(q, LAMBDA e : e.id = id)
  IN  [q EXCEPT ![p].rows = Append(@, row)]

\* Mutant of FillReservedWith: only the first row takes the reserved place.
FillFirstOnly(q, id, rows) ==
  LET p   == ReservationAt(q, id)
      all == q[p].rows \o rows
  IN  IF p = 0 THEN q
      ELSE SubSeq(q, 1, p - 1)
           \o [i \in 1..(IF all = <<>> THEN 0 ELSE 1) |-> Ready(id, all[i])]
           \o SubSeq(q, p + 1, Len(q))
           \o [i \in 1..(Len(all) - 1) |-> Ready(id, all[i + 1])]

\* The reservation becomes its parked rows followed by `rows`, all under its
\* id and in its one place; with no row at all the place is given back.
FillReservedWith(q, id, rows) ==
  LET p   == ReservationAt(q, id)
      all == q[p].rows \o rows
  IN  IF p = 0 THEN q
      ELSE SubSeq(q, 1, p - 1)
           \o [i \in 1..Len(all) |-> Ready(id, all[i])]
           \o SubSeq(q, p + 1, Len(q))

\* Mutant of ReleaseReserved: the parked rows go with the reservation.
DropReserved(q, id) == SelectSeq(q, LAMBDA e : ~(e.id = id /\ e.kind = "reserved"))

\* End a reservation whose remaining rows will not come: parked rows stay.
ReleaseReserved(q, id) == FillReservedWith(q, id, <<>>)

\* Fold an outcome into the first entry with the id, if it is still pending.
Resolve(q, id) ==
  LET p == SelectInSeq(q, LAMBDA e : e.id = id)
  IN  IF p = 0 \/ q[p].kind # "pending" THEN q
      ELSE [q EXCEPT ![p] = Ready(id, q[p].rows[1])]

\* Rows at the head that are ready, and the queue without them.
ReadyPrefix(q) ==
  LET firstWaiting == SelectInSeq(q, IsWaiting)
  IN  IF firstWaiting = 0 THEN Len(q) ELSE firstWaiting - 1

DrainedRows(q) == [i \in 1..ReadyPrefix(q) |-> q[i].rows[1]]
Drained(q)     == SubSeq(q, ReadyPrefix(q) + 1, Len(q))

-----------------------------------------------------------------------------
(* Filters, in a form whose facts can be proved: the members of `s` at the *)
(* positions `at`, in order.                                               *)
Nth(at, k) == CHOOSE i \in at : Cardinality({j \in at : j <= i}) = k
Picked(s, at) == [k \in 1..Cardinality(at) |-> s[Nth(at, k)]]

IdsOf(q, Test(_)) ==
  LET found == Picked(q, {i \in 1..Len(q) : Test(q[i])})
  IN  [k \in 1..Len(found) |-> found[k].id]

\* The body of the loops in expire, enforce_ceiling and flush_all: a
\* reservation is released, a pending line resolved as timed out.
GiveUpOne(q, id) == Resolve(ReleaseReserved(q, id), id)
GiveUp(q, ids) == FoldLeft(GiveUpOne, q, ids)

\* Mutant of TimedOut: reservations do not expire.
PendingTimedOut(e, timeout) == e.kind = "pending" /\ e.age >= timeout

TimedOut(e, timeout) == IsWaiting(e) /\ e.age >= timeout

Expire(q, timeout) == GiveUp(q, IdsOf(q, LAMBDA e : TimedOut(e, timeout)))

\* Reservations that expire gives up on.
AbandonedReservations(q, timeout) ==
  {q[i].id : i \in {j \in 1..Len(q) : q[j].kind = "reserved" /\ TimedOut(q[j], timeout)}}

\* Force the oldest waiting entries out until the queue fits `max`.
EnforceCeiling(q, max) ==
  LET ids    == IdsOf(q, IsWaiting)
      excess == Len(q) - max
  IN  IF excess <= 0 THEN q
      ELSE GiveUp(q, SubSeq(ids, 1, IF excess < Len(ids) THEN excess ELSE Len(ids)))

\* flush_all and flush_pending, before their final drain.
FlushAll(q)     == GiveUp(q, IdsOf(q, IsWaiting))
FlushPending(q) == FoldLeft(Resolve, q, IdsOf(q, LAMBDA e : e.kind = "pending"))
=============================================================================
