----------------------------- MODULE ReadMarkers -----------------------------
(***************************************************************************)
(* Read markers kept by the server: src/src/app/read_markers.rs, and the   *)
(* unread rows they clear, src/src/state/read_state.rs.                    *)
(*                                                                         *)
(* The user reads rows here and on other clients of the same account.  The *)
(* client asks for each target's marker, reports what was read here until  *)
(* the server confirms it or refuses it, and shows as unread what lies     *)
(* above the marker.  The server only raises its markers.  One connection, *)
(* FIFO both ways; a row stays with the target it came in, and none is the *)
(* user's own.                                                             *)
(*                                                                         *)
(* Time is left out: the timers of tick_read_markers (1, 5, 10, 20, 30 and *)
(* 45 seconds) only delay, so a tick chooses which of them have run out.   *)
(***************************************************************************)
EXTENDS Integers, Sequences, SequencesExt

CONSTANTS
  Targets,        \* channels and queries with a buffer
  Rows,           \* the server times of the rows each target may hold
  Loaded,         \* those that came with the history
  MaxPending,     \* requests remembered: 128
  MaxBatch,       \* requests sent by one tick: 8
  FailureLimit,   \* INTERNAL_ERRORs after which a request is given up: 3
  MaxWire,        \* bounds: messages on their way in one direction, and
  MaxFaults       \*   refusals, reconnects, requests unanswered for too long

ASSUME RowsAssumption ==
  /\ Rows \in [Targets -> SUBSET (Nat \ {0})] /\ Loaded \in [Targets -> SUBSET (Nat \ {0})]
  /\ \A t \in Targets : Loaded[t] \subseteq Rows[t]
ASSUME LimitsAssumption ==
  /\ {MaxPending, MaxBatch, FailureLimit} \subseteq Nat \ {0}
  /\ {MaxWire, MaxFaults} \subseteq Nat

VARIABLES
  rows,           \* the rows in each buffer
  unread,         \* those that count as unread
  through,        \* ReadActivity::through, 0 for None
  confirmed,      \* -1 not heard yet, 0 the server has no marker
  desired,        \* the mark to report, 0 for none
  rejected,       \* the mark that was refused, 0 for none
  queryRejected,  \* the target is in rejected_queries
  failures,       \* refusals since the last success
  pending,        \* requests without an answer; time 0 asks for the marker
  toServer, toClient,
  marker,         \* the server's markers
  seen,           \* history: the newest row read here
  refused,        \* history: refusals that could be charged to the target
  left            \* bound: faults that may still happen

client == <<rows, unread, through, confirmed, desired, rejected, queryRejected,
            failures, pending>>
vars == <<client, toServer, toClient, marker, seen, refused, left>>

Unheard == -1
Times   == UNION {Rows[t] : t \in Targets}
Request == [target : Targets, time : Times \cup {0}]
Answer  == [type : {"mark"}, target : Targets, time : Times \cup {0}]
Failure == [type : {"fail"}, request : Request, internal : BOOLEAN,
            named : {"target", "time", "nothing"}]

Larger(a, b) == IF a > b THEN a ELSE b
Above(S, m)  == {r \in S : r > m}
None         == [t \in Targets |-> 0]

Init ==
  /\ rows = Loaded /\ unread = rows
  /\ through = None /\ confirmed = [t \in Targets |-> Unheard]
  /\ desired = None /\ rejected = None /\ failures = None
  /\ queryRejected = [t \in Targets |-> FALSE]
  /\ pending = <<>> /\ toServer = <<>> /\ toClient = <<>>
  /\ marker = None
  /\ seen = None /\ refused = None
  /\ left = MaxFaults

-----------------------------------------------------------------------------
(* The tick.                                                               *)

\* Targets of one tick, in the order they are served.
Batches == UNION {{q \in [1..n -> Targets] : \A i, j \in 1..n : i # j => q[i] # q[j]}
                    : n \in 0..MaxBatch}

\* Whether there is something to send for t: a mark to report, or a marker
\* that was never heard of.
Wanted(t, des, rej, qrej) ==
  rej[t] = 0 /\ (des[t] # 0 \/ (~qrej[t] /\ confirmed[t] = Unheard))

\* Mutant of Room: the cap counts what was there before the tick.
RoomBefore(kept, n) == kept < MaxPending

\* No request goes out that could not be remembered.
Room(kept, n) == kept + n <= MaxPending

\* tick_read_markers, for the marks and refusals given: the requests that
\* expired are forgotten, and the targets that are due are sent for, those
\* with a mark to report first.  `late` tells whether it forgets or repeats
\* a request that has no answer yet.
Tick(des, rej, qrej) ==
  \E expired \in 0..Len(pending), batch \in Batches :
    LET requests == [i \in 1..Len(batch) |-> [target |-> batch[i], time |-> des[batch[i]]]]
    IN  /\ \A i \in 1..Len(batch) : Wanted(batch[i], des, rej, qrej)
        /\ \A i, j \in 1..Len(batch) : i < j /\ des[batch[i]] = 0 => des[batch[j]] = 0
        /\ Room(Len(pending) - expired, Len(batch))
        /\ Len(toServer) + Len(batch) <= MaxWire
        /\ LET late == expired > 0 \/ \E i \in DOMAIN requests, k \in DOMAIN pending :
                                        requests[i] = pending[k]
           IN  /\ late => left > 0
               /\ left' = IF late THEN left - 1 ELSE left
        /\ pending' = SubSeq(pending, expired + 1, Len(pending)) \o requests
        /\ toServer' = toServer \o requests

TimerTick ==
  /\ Tick(desired, rejected, queryRejected)
  /\ UNCHANGED <<rows, unread, through, confirmed, desired, rejected, queryRejected, failures,
                 toClient, marker, seen, refused>>

\* A tick that sends for t.
TickSends(t) ==
  /\ TimerTick
  /\ \E i \in (Len(toServer) + 1)..Len(toServer') : toServer'[i].target = t

-----------------------------------------------------------------------------
(* Rows come in and are read.                                              *)

\* record_read_activity: a row at or below the marker is not unread.
Arrive(t, m) ==
  /\ m \in Rows[t] \ rows[t]
  /\ rows' = [rows EXCEPT ![t] = @ \cup {m}]
  /\ unread' = [unread EXCEPT ![t] = IF m <= through[t] THEN @ ELSE @ \cup {m}]
  /\ UNCHANGED <<through, confirmed, desired, rejected, queryRejected, failures, pending,
                 toServer, toClient, marker, seen, refused, left>>

\* Mutant of Cleared: the whole buffer counts as read.
ClearedAll(t, m) == {}

\* clear_visible_read_rows: the rows up to m, as they stand in the buffer.
Cleared(t, m) == Above(unread[t], m)

\* mark_visible_message_read: the rows up to m were seen.  They are unread no
\* more; unless the server refused this mark or a later one it is to be
\* reported, and the tick runs.
Read(t, m) ==
  /\ m \in rows[t]
  /\ seen' = [seen EXCEPT ![t] = Larger(@, m)]
  /\ LET given == rejected[t] >= m
         fresh == IF given THEN desired
                  ELSE [desired EXCEPT ![t] = IF confirmed[t] >= m THEN @ ELSE Larger(@, m)]
         still == IF given THEN rejected ELSE [rejected EXCEPT ![t] = 0]
         stillQ == IF given THEN queryRejected ELSE [queryRejected EXCEPT ![t] = FALSE]
     IN  /\ unread' = [unread EXCEPT ![t] = Cleared(t, m)]
         /\ through' = [through EXCEPT ![t] = IF given THEN @ ELSE Larger(@, m)]
         /\ desired' = fresh /\ rejected' = still /\ queryRejected' = stillQ
         /\ failures' = [failures EXCEPT ![t] = IF ~given /\ queryRejected[t] THEN 0 ELSE @]
         /\ Tick(fresh, still, stillQ)
  /\ UNCHANGED <<rows, confirmed, toClient, marker, refused>>

-----------------------------------------------------------------------------
(* Answers.                                                                *)

\* What a confirmation of v for t answers: requests for the marker, and for
\* marks it covers.
Settled(r, t, v) == r.target = t /\ (r.time = 0 \/ r.time <= v)

\* The requests that wait on after it, in order (retain).
KeepUnsettled(acc, r) ==
  IF Settled(r, acc.target, acc.time) THEN acc ELSE [acc EXCEPT !.rest = Append(@, r)]
Unsettled(t, v) ==
  FoldLeft(KeepUnsettled, [target |-> t, time |-> v, rest |-> <<>>], pending).rest

\* Mutant of Reconciled: the server's word replaces what was read here.
ReconciledToServer(v, mark) == v

\* The mark a first confirmation leaves: what was read here and is still to
\* be reported counts.
Reconciled(v, mark) == Larger(v, mark)

\* Mutant of Remaining: any news from the server settles the mark.
RemainingAnyNews(t, v) == 0

\* What is left to report once the server confirmed v.
Remaining(t, v) == IF v > 0 /\ desired[t] <= v THEN 0 ELSE desired[t]

\* reconcile_server_read_marker counts every row again, once a mark was set;
\* apply_server_read_marker only takes rows away.
Counted(t, again, new) == Above(IF again THEN rows[t] ELSE unread[t], new)

\* handle_read_marker and receive.  The first confirmation of a connection
\* sets the marker, back if need be; a later one can only raise it.
HearMark(t, v) ==
  LET first == (confirmed[t] = Unheard)
      news  == first \/ confirmed[t] < v
      mark  == IF news THEN Remaining(t, v) ELSE desired[t]
      base  == Reconciled(v, mark)
      new   == IF first THEN base ELSE Larger(through[t], v)
  IN  /\ pending' = Unsettled(t, v)
      /\ rejected' = [rejected EXCEPT ![t] = 0]
      /\ queryRejected' = [queryRejected EXCEPT ![t] = FALSE]
      /\ failures' = [failures EXCEPT ![t] = 0]
      /\ desired' = [desired EXCEPT ![t] = mark]
      /\ confirmed' = [confirmed EXCEPT ![t] = IF news THEN v ELSE @]
      /\ IF ~news /\ confirmed[t] # v
           THEN UNCHANGED <<through, unread>>
           ELSE /\ through' = [through EXCEPT ![t] = new]
                /\ unread' = [unread EXCEPT ![t] = Counted(t, first /\ through[t] # 0, new)]
      /\ UNCHANGED rows

\* The requests a FAIL may answer, as far as the client can tell: it names
\* the target or the time of the mark, or has no context at all.
Answers(r, f) ==
  \/ f.named = "nothing"
  \/ f.named = "target" /\ r.target = f.request.target
  \/ f.named = "time" /\ r.time = f.request.time

\* handle_read_marker_failure: the first request that fits is the one that
\* failed; without a context that is the first of all, whatever its target.  An internal error is tried again, up to a limit; anything else
\* gives the mark up, unless a later one is wanted by now.
HearFailure(f) ==
  LET fits == {i \in 1..Len(pending) : Answers(pending[i], f)}
      i    == CHOOSE k \in fits : \A l \in fits : k <= l
      r    == pending[i]
      n    == failures[r.target] + 1
      final == ~f.internal \/ n >= FailureLimit
      dropped == r.time # 0 /\ desired[r.target] <= r.time
  IN  IF fits = {} THEN UNCHANGED client
      ELSE /\ pending' = [k \in 1..(Len(pending) - 1) |-> pending[IF k < i THEN k ELSE k + 1]]
           /\ failures' = [failures EXCEPT ![r.target] = IF n > FailureLimit THEN @ ELSE n]
           /\ desired' = [desired EXCEPT ![r.target] = IF final /\ dropped THEN 0 ELSE @]
           /\ rejected' = [rejected EXCEPT ![r.target] = IF final /\ dropped THEN r.time ELSE @]
           /\ queryRejected' = [queryRejected EXCEPT ![r.target] = @ \/ (final /\ r.time = 0)]
           /\ UNCHANGED <<rows, unread, through, confirmed>>

Receive ==
  /\ toClient # <<>>
  /\ toClient' = Tail(toClient)
  /\ \/ /\ Head(toClient).type = "mark"
        /\ HearMark(Head(toClient).target, Head(toClient).time)
     \/ /\ Head(toClient).type = "fail"
        /\ HearFailure(Head(toClient))
  /\ UNCHANGED <<toServer, marker, seen, refused, left>>

\* Mutant of Reconnect: the markers heard before still count.
ReconnectKeeps ==
  /\ left > 0
  /\ left' = left - 1
  /\ rejected' = None /\ failures' = None
  /\ queryRejected' = [t \in Targets |-> FALSE]
  /\ pending' = <<>> /\ toServer' = <<>> /\ toClient' = <<>>
  /\ UNCHANGED <<rows, unread, through, confirmed, desired, marker, seen, refused>>

\* reconnect_read_markers, on the same network: what was on the way is lost,
\* and every marker has to be heard again.
Reconnect ==
  /\ left > 0
  /\ left' = left - 1
  /\ confirmed' = [t \in Targets |-> Unheard]
  /\ rejected' = None /\ failures' = None
  /\ queryRejected' = [t \in Targets |-> FALSE]
  /\ pending' = <<>> /\ toServer' = <<>> /\ toClient' = <<>>
  /\ UNCHANGED <<rows, unread, through, desired, marker, seen, refused>>

-----------------------------------------------------------------------------
(* The server and the other clients of the account.                        *)

Marked(t) == [type |-> "mark", target |-> t, time |-> marker'[t]]

Grant(r) ==
  /\ marker' = [marker EXCEPT ![r.target] = Larger(@, r.time)]
  /\ toClient' = Append(toClient, Marked(r.target))
  /\ UNCHANGED <<refused, left>>

\* Targets a refusal may be charged to, and how much it counts: an internal
\* error once, any other as many times as end a request.
Concerns(f, t) ==
  \/ f.named = "nothing"
  \/ f.named = "target" /\ f.request.target = t
  \/ f.named = "time" /\ f.request.time \in Rows[t]
Counting(n, f) == IF f.internal /\ n < FailureLimit THEN n + 1 ELSE FailureLimit

Refuse(r) ==
  /\ left > 0
  /\ left' = left - 1
  /\ \E f \in Failure :
       /\ f.request = r /\ (f.named = "time" => r.time # 0)
       /\ toClient' = Append(toClient, f)
       /\ refused' = [t \in Targets |-> IF Concerns(f, t) THEN Counting(refused[t], f) ELSE refused[t]]
  /\ UNCHANGED marker

Serve ==
  /\ toServer # <<>> /\ Len(toClient) < MaxWire
  /\ toServer' = Tail(toServer)
  /\ Grant(Head(toServer)) \/ Refuse(Head(toServer))
  /\ UNCHANGED <<client, seen>>

\* A row is read on another client: the server tells this one.
ReadElsewhere(t, m) ==
  /\ m \in Above(Rows[t], marker[t]) /\ Len(toClient) < MaxWire
  /\ marker' = [marker EXCEPT ![t] = m]
  /\ toClient' = Append(toClient, Marked(t))
  /\ UNCHANGED <<client, toServer, seen, refused, left>>

Next ==
  \/ TimerTick \/ Receive \/ Reconnect \/ Serve
  \/ \E t \in Targets : \E m \in Rows[t] : Arrive(t, m) \/ Read(t, m) \/ ReadElsewhere(t, m)

Spec == Init /\ [][Next]_vars

\* The connection delivers, the server answers, and the tick of every second
\* comes back to each target while there is something to send for it.
\* Strong, because the model's wire may be full in between; the code's
\* channel is unbounded.
FairSpec ==
  /\ Spec /\ WF_vars(Receive) /\ WF_vars(Serve)
  /\ \A t \in Targets : SF_vars(TickSends(t))

-----------------------------------------------------------------------------
(* Properties.                                                             *)

TypeOK ==
  /\ rows \in [Targets -> SUBSET Times] /\ unread \in [Targets -> SUBSET Times]
  /\ \A t \in Targets : unread[t] \subseteq rows[t] /\ rows[t] \subseteq Rows[t]
  /\ through \in [Targets -> Times \cup {0}] /\ desired \in [Targets -> Times \cup {0}]
  /\ confirmed \in [Targets -> Times \cup {0, Unheard}]
  /\ rejected \in [Targets -> Times \cup {0}] /\ failures \in [Targets -> 0..FailureLimit]
  /\ queryRejected \in [Targets -> BOOLEAN]
  /\ pending \in Seq(Request) /\ Len(pending) <= MaxPending
  /\ toServer \in Seq(Request) /\ toClient \in Seq(Answer \cup Failure)
  /\ marker \in [Targets -> Times \cup {0}] /\ seen \in [Targets -> Times \cup {0}]
  /\ refused \in [Targets -> 0..FailureLimit]
  /\ left \in Nat

\* read_state.rs: a row that no longer counts as unread was read, here or on
\* another client, and a row at or below the marker never counts.
UnreadHonest ==
  \A t \in Targets : \A r \in rows[t] :
    IF r \in unread[t] THEN r > through[t] ELSE r <= seen[t] \/ r <= marker[t]

\* read_markers.rs: a mark that is still to be reported lies above what the
\* server confirmed, and stays in force meanwhile, across reconnects too.
MarkStands ==
  \A t \in Targets : desired[t] # 0 => confirmed[t] < desired[t] /\ desired[t] <= through[t]

\* tick_read_markers: what was read here becomes known to the server, again
\* and again as more is read, unless refusals that may be charged to the
\* target (they name it, or the time of one of its rows, or nothing at all)
\* gave it up: one for good, or as many internal errors as the limit.
MarksReach ==
  \A t \in Targets : []<>(marker[t] >= seen[t] \/ refused[t] >= FailureLimit)

\* handle_read_marker: what was read on another client becomes read here,
\* across reconnects, unless such refusals gave the target up.
MarkersHeard ==
  \A t \in Targets : []<>(through[t] >= marker[t] \/ refused[t] >= FailureLimit)

=============================================================================
