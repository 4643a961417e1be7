------------------------------- MODULE History -------------------------------
(***************************************************************************)
(* Server history (CHATHISTORY) of one buffer of an ordinary connection:   *)
(* src/src/irc/chathistory.rs, src/src/app/backlog.rs and the batches that *)
(* bring it, src/src/irc/batch.rs, src/src/irc/events.rs.                  *)
(*                                                                         *)
(* The server holds a row for each time 1..size.  Scrolling up past what   *)
(* is stored asks for the page BEFORE the oldest row fetched; connecting   *)
(* again asks for what was missed, AFTER the newest row stored before.     *)
(* Pages are put in the log (through a queue), and scrolling up shows the  *)
(* log page by page.  A page may never come, or be cut: the rows that came *)
(* before the batch timed out are kept.                                    *)
(*                                                                         *)
(* An answer does not come later than the 90 seconds after which the       *)
(* request is given up, and the log writer drops nothing.                  *)
(***************************************************************************)
EXTENDS Integers, FiniteSets, FiniteSetsExt

CONSTANTS
  PageSize,       \* rows of a server page: clamp_limit of CHAT_BACKLOG_PAGE
  LocalPage,      \* CHAT_BACKLOG_PAGE, of the log
  PinnedCap,      \* PINNED_BACKLOG_CAP
  Skipped,        \* rows a page carries and the client does not store: events
  Logs,           \* what an earlier session may have stored
  MaxRows,        \* bounds: rows at the server, at first and in the end;
  StartRows,
  Faults,         \*   what may happen to a page: "drop", "cut", "cut first"
  MaxFaults       \*   (that of the first request); and how often, or a disconnect,
                  \*   or a /clear

ASSUME PageAssumption ==
  PageSize \in Nat \ {0} /\ LocalPage \in Nat /\ LocalPage >= PageSize /\ PinnedCap \in Nat
ASSUME RowsAssumption ==
  /\ {MaxRows, StartRows, MaxFaults} \subseteq Nat /\ StartRows <= MaxRows
  /\ Skipped \subseteq Nat /\ \A s \in Logs : s \subseteq 1..StartRows
ASSUME FaultsAssumption == Faults \subseteq {"drop", "cut", "cut first"}

VARIABLES
  size,           \* rows at the server
  stored, queued, \* rows in the log, and on their way to it
  shown,          \* rows in the buffer
  atEnd,          \* Buffer::history_exhausted
  connected, joined,
  base,           \* gapfill_cutoff: rows older than this connection
  oldest,         \* oldest_fetched, 0 for None
  oldestIngested, \* 0 for None
  exhausted,      \* before_exhausted
  claimed,        \* gapfilled_targets
  flight,         \* in_flight: the direction, or "none"
  suppressed,     \* cleared_display_targets: /clear while it was in flight
  wire,           \* the request, or the page, on its way
  top, from,      \* history: the first BEFORE anchor of the connection, and the
                  \*   newest row stored when it came up
  lost,           \* history: "gap", a page of the gap did not come whole,
                  \*   "cleared", /clear kept the next one from being asked for,
                  \*   "cut", a page of older rows came in part, and "hidden", an
                  \*   empty buffer was taken for one at its end too soon
  left            \* bound: faults and /clears that may still happen

tracked == <<oldest, oldestIngested, exhausted, claimed, flight, suppressed>>
vars == <<size, stored, queued, shown, atEnd, connected, joined, base, tracked, wire, top, from,
          lost, left>>

Ask  == [type : {"ask"}, dir : {"before", "after", "latest"}, anchor : 0..MaxRows,
         first : BOOLEAN]
Page == [type : {"page"}, rows : SUBSET (1..MaxRows), whole : BOOLEAN]

Kept == stored \cup queued

\* What ingest_chathistory_batch stores of a page.
Ingested(rows) == rows \ Skipped

First(n, S) == {r \in S : Cardinality({q \in S : q < r}) < n}
Last(n, S)  == {r \in S : Cardinality({q \in S : q > r}) < n}

Init ==
  /\ size = StartRows
  /\ stored \in Logs /\ queued = {}
  /\ \E n \in 0..LocalPage : shown = Last(n, stored)
  /\ atEnd = FALSE
  /\ connected = FALSE /\ joined = FALSE /\ base = 0
  /\ oldest = 0 /\ oldestIngested = 0 /\ exhausted = FALSE
  /\ claimed = FALSE /\ flight = "none" /\ suppressed = FALSE
  /\ wire = {}
  /\ top = 0 /\ from = 0 /\ lost = {}
  /\ left = MaxFaults

-----------------------------------------------------------------------------
(* The connection, and what is said while it is up or down.                *)

\* IrcEvent::Connected: the state of the requests is fresh, and what is
\* stored by now is what the connection starts from.  The log writer flushes
\* every second, and reconnecting takes longer.
Connect ==
  /\ ~connected /\ queued = {}
  /\ connected' = TRUE /\ joined' = FALSE
  /\ base' = size
  /\ oldest' = 0 /\ oldestIngested' = 0 /\ exhausted' = FALSE
  /\ claimed' = FALSE /\ flight' = "none" /\ suppressed' = FALSE
  /\ top' = 0 /\ from' = (IF stored = {} THEN 0 ELSE Max(stored)) /\ lost' = {}
  /\ UNCHANGED <<size, stored, queued, shown, atEnd, wire, left>>

\* Mutant of Disconnect: an open batch is completed later.
DisconnectKeepsBatches ==
  /\ connected /\ left > 0
  /\ left' = left - 1
  /\ connected' = FALSE /\ joined' = FALSE
  /\ UNCHANGED <<size, stored, queued, shown, atEnd, base, tracked, wire, top, from, lost>>

\* IrcEvent::Disconnected: the batches that are open are dropped.
Disconnect ==
  /\ connected /\ left > 0
  /\ left' = left - 1
  /\ connected' = FALSE /\ joined' = FALSE
  /\ wire' = {}
  /\ UNCHANGED <<size, stored, queued, shown, atEnd, base, tracked, top, from, lost>>

\* The client's own JOIN: from now on what is said reaches it.  (A query needs
\* none, nothing is said to it before.)
Join ==
  /\ connected /\ ~joined
  /\ joined' = TRUE
  /\ UNCHANGED <<size, stored, queued, shown, atEnd, connected, base, tracked, wire, top, from,
                 lost, left>>

\* A row is said: it is shown and logged, or missed.
Say ==
  /\ size < MaxRows
  /\ size' = size + 1
  /\ IF joined THEN shown' = shown \cup {size'} /\ queued' = queued \cup {size'}
               ELSE UNCHANGED <<shown, queued>>
  /\ UNCHANGED <<stored, atEnd, connected, joined, base, tracked, wire, top, from, lost, left>>

\* The log writer's flush.
Flush ==
  /\ queued # {}
  /\ stored' = Kept
  /\ queued' = {}
  /\ UNCHANGED <<size, shown, atEnd, connected, joined, base, tracked, wire, top, from, lost, left>>

-----------------------------------------------------------------------------
(* Requests.                                                               *)

\* request_chathistory_labeled and mark_in_flight: one request at a time.
Request(dir, anchor) ==
  /\ flight' = dir /\ suppressed' = FALSE
  /\ wire' = {[type |-> "ask", dir |-> dir, anchor |-> anchor, first |-> oldest = 0]}

\* The oldest row fetched.  Before there is one: oldest_anchor, of the log,
\* or in_memory_oldest_anchor.
BeforeAnchor ==
  IF oldest # 0 THEN oldest ELSE IF stored # {} THEN Min(stored) ELSE Min(shown)

\* Whether fetch_older_via_chathistory sends, nothing being in flight.
CanFetch == connected /\ ~exhausted /\ (oldest # 0 \/ stored # {} \/ shown # {})

FetchOlder ==
  /\ Request("before", BeforeAnchor)
  /\ top' = IF top = 0 THEN BeforeAnchor ELSE top

\* Mutant of FullyPaginated: a page on its way to the log is not waited for.
PaginatedAtOnce(rows) == TRUE

\* history_fully_paginated: the buffer reaches down to what was fetched.
FullyPaginated(rows) == oldestIngested = 0 \/ rows = {} \/ Min(rows) <= oldestIngested

\* get_messages_paginated_subsecond: the page of the log above the buffer.
OlderPage == Last(LocalPage, {r \in stored : \A s \in shown : r < s})

\* maybe_load_older_chat_backlog, the view being at the top: the next page of
\* the log, and when it is short a page from the server.  When that cannot be
\* either the buffer is at its end, and then only the server is asked.
Scroll ==
  LET page  == IF atEnd THEN {} ELSE OlderPage
      fetch == (atEnd \/ Cardinality(page) < LocalPage) /\ CanFetch
      done  == Cardinality(page) < LocalPage /\ ~CanFetch
  IN  /\ flight = "none" /\ Cardinality(shown) < PinnedCap
      /\ shown' = shown \cup page
      /\ atEnd' = (atEnd \/ (done /\ FullyPaginated(shown')))
      /\ IF fetch THEN FetchOlder ELSE UNCHANGED <<flight, suppressed, wire, top>>
      /\ lost' = IF ~atEnd /\ atEnd' /\ shown' = {} /\ queued # {} THEN lost \cup {"hidden"} ELSE lost
      /\ UNCHANGED <<size, stored, queued, connected, joined, base, oldest, oldestIngested, exhausted,
                     claimed, from, left>>

\* Mutant of GapAnchors: newest_anchor without its cutoff.
GapAnchorsAny == stored

\* newest_anchor takes the newest of these.
GapAnchors == {r \in stored : r <= base}

\* send_connect_gapfill, at the end of NAMES or of the MOTD, each of which may
\* come again.
GapFill ==
  /\ joined /\ ~claimed /\ flight = "none"
  /\ IF GapAnchors = {} THEN Request("latest", 0)
                        ELSE Request("after", Max(GapAnchors))
  /\ claimed' = TRUE
  /\ UNCHANGED <<size, stored, queued, shown, atEnd, connected, joined, base, oldest, oldestIngested,
                 exhausted, top, from, lost, left>>

\* purge_stale_chathistory_requests: a request nobody answers.
StaleTimeout ==
  /\ flight # "none" /\ wire = {}
  /\ flight' = "none"
  /\ lost' = IF flight = "before" THEN lost ELSE lost \cup {"gap"}
  /\ UNCHANGED <<size, stored, queued, shown, atEnd, connected, joined, base, oldest, oldestIngested,
                 exhausted, claimed, suppressed, wire, top, from, left>>

\* cmd_clear: the window is emptied, and what a request in flight brings is not
\* to be shown in it (suppress_pending_display).
Clear ==
  /\ left > 0 /\ (shown # {} \/ flight # "none")
  /\ left' = left - 1
  /\ shown' = {}
  /\ suppressed' = (suppressed \/ flight # "none")
  /\ UNCHANGED <<size, stored, queued, atEnd, connected, joined, base, oldest, oldestIngested,
                 exhausted, claimed, flight, wire, top, from, lost>>

-----------------------------------------------------------------------------
(* The server.                                                             *)

Answer(q) ==
  CASE q.dir = "before" -> Last(PageSize, 1..(q.anchor - 1))
    [] q.dir = "after"  -> First(PageSize, (q.anchor + 1)..size)
    [] q.dir = "latest" -> Last(PageSize, 1..size)

\* The page comes whole, in time order; or it stops short of its end, and the
\* batch times out (purge_expired_batches); or there is none.
Serve ==
  \E q \in wire :
    /\ q.type = "ask"
    /\ \/ /\ wire' = {[type |-> "page", rows |-> Answer(q), whole |-> TRUE]}
          /\ UNCHANGED left
       \/ /\ (IF q.first /\ q.dir = "before" THEN "cut first" ELSE "cut") \in Faults /\ left > 0
          /\ \E n \in 0..Cardinality(Answer(q)) :
               wire' = {[type |-> "page", rows |-> First(n, Answer(q)), whole |-> FALSE]}
          /\ left' = left - 1
       \/ /\ "drop" \in Faults /\ left > 0
          /\ wire' = {}
          /\ left' = left - 1
    /\ UNCHANGED <<size, stored, queued, shown, atEnd, connected, joined, base, tracked, top, from,
                   lost>>

-----------------------------------------------------------------------------
(* Pages.                                                                  *)

\* Mutant of Advances: the rows of a page that was cut count as fetched.
AdvancesAnyway(p) == flight = "before"

\* complete_target: only a page that came whole says how far back the
\* fetching is.
Advances(p) == flight = "before" /\ p.whole

\* complete_target: a whole page that is not full is the last one.
Ends(p) == flight = "before" /\ p.whole /\ Cardinality(p.rows) < PageSize

\* A full page of the gap: there may be more, until the rows are from this
\* connection.
GapHasMore(p) ==
  flight = "after" /\ p.whole /\ Cardinality(p.rows) >= PageSize /\ Max(p.rows) <= base

\* process_completed_batch: it is followed by the next, but not after /clear.
GapGoesOn(p) == GapHasMore(p) /\ ~suppressed

Older(a, b) == IF a = 0 \/ b < a THEN b ELSE a

\* surface_history_page: the rows of the gap take their places in the buffer,
\* unless it was cleared meanwhile.
Spliced(rows) == IF suppressed THEN shown ELSE shown \cup rows

\* What of the history is given up with this page.
GivenUp(p) ==
  {e \in {"gap", "cut", "cleared"} :
     CASE e = "gap" -> ~p.whole /\ flight # "before"
       [] e = "cut" -> ~p.whole /\ flight = "before"
       [] e = "cleared" -> GapHasMore(p) /\ ~GapGoesOn(p)}

\* process_completed_batch of a CHATHISTORY batch, ingest_chathistory_batch
\* and complete_target; the gap's rows are also shown, and its next page is
\* asked for by dispatch_completed_batch.
ReceivePage ==
  \E p \in wire :
    LET talk == Ingested(p.rows)
        gap  == flight \in {"after", "latest"}
    IN  /\ p.type = "page"
        /\ queued' = queued \cup (talk \ stored)
        /\ shown' = IF gap THEN Spliced(talk) ELSE shown
        /\ atEnd' = (atEnd /\ talk = {})
        /\ oldest' = IF Advances(p) /\ p.rows # {} THEN Older(oldest, Min(p.rows)) ELSE oldest
        /\ oldestIngested' = IF ~gap /\ talk # {} THEN Older(oldestIngested, Min(talk))
                                                  ELSE oldestIngested
        /\ exhausted' = (exhausted \/ Ends(p))
        /\ IF GapGoesOn(p) THEN Request("after", Max(p.rows))
                           ELSE flight' = "none" /\ wire' = {} /\ UNCHANGED suppressed
        /\ lost' = lost \cup GivenUp(p)
        /\ UNCHANGED <<size, stored, connected, joined, base, claimed, top, from, left>>

Next ==
  \/ Connect \/ Disconnect \/ Join \/ Say \/ Flush \/ Scroll \/ GapFill \/ StaleTimeout
  \/ Clear \/ Serve \/ ReceivePage

Spec == Init /\ [][Next]_vars

\* The log is flushed, requests are answered or given up, and the client
\* connects again; the user keeps the view at the top.
FairSpec ==
  /\ Spec /\ WF_vars(Flush) /\ WF_vars(Serve) /\ WF_vars(ReceivePage)
  /\ WF_vars(StaleTimeout) /\ WF_vars(Connect) /\ WF_vars(Scroll)

-----------------------------------------------------------------------------
(* Properties.                                                             *)

TypeOK ==
  /\ size \in 0..MaxRows /\ base \in 0..size
  /\ stored \subseteq 1..size /\ queued \subseteq (1..size) \ stored
  /\ shown \subseteq Kept
  /\ {atEnd, connected, joined, exhausted, claimed, suppressed} \subseteq BOOLEAN
  /\ lost \subseteq {"gap", "cleared", "cut", "hidden"}
  /\ {oldest, oldestIngested, top, from} \subseteq 0..size
  /\ flight \in {"none", "before", "after", "latest"}
  /\ wire \subseteq Ask \cup Page /\ Cardinality(wire) <= 1
  /\ wire # {} => flight # "none" /\ connected
  /\ left \in 0..MaxFaults

\* chathistory.rs, complete_target: between the row scrolling up started from
\* and the row it has reached, or the start of the history once that was
\* reached, nothing that was said is missing, unless a page of the gap was
\* lost.
ScrollbackWhole ==
  LET reached == IF exhausted THEN 1 ELSE oldest
  IN  top # 0 /\ reached # 0 /\ "gap" \notin lost => Ingested(reached..top) \subseteq Kept

\* backlog.rs, send_connect_gapfill: once the gap was asked for and no page of
\* it is awaited, everything said between the last row stored before and the
\* connection is there, unless the server lost a page of it or /clear came
\* while a full page of it was on its way: then the next is not asked for, and
\* as the gap counts as claimed it stays open until the client reconnects.
GapFilled ==
  connected /\ claimed /\ from # 0 /\ flight # "after" /\ lost \cap {"gap", "cleared"} = {}
    => Ingested(from..base) \subseteq Kept

\* backlog.rs, history_fully_paginated: who stays at the top gets to see
\* whatever is older than all the client has, unless a page of the gap was
\* lost, part of a page came before the page, or the buffer is full; or it had
\* been emptied by /clear and the log too was empty when the last page was on
\* its way there, which the client takes for the end.
ReachesStart ==
  \A r \in Ingested(1..MaxRows) :
    (Kept # {} /\ \A k \in Kept : r < k)
      ~> (r \in shown \/ lost \cap {"gap", "cut", "hidden"} # {} \/ Cardinality(shown) >= PinnedCap)

=============================================================================
