------------------------------- MODULE Monitor -------------------------------
(***************************************************************************)
(* The MONITOR target manager of one connection: src/src/irc/monitor.rs,   *)
(* and the handlers of src/src/app/monitor.rs that drive it.               *)
(*                                                                         *)
(* The client holds what the user wants and what the server was last heard *)
(* to have; it changes the server's list a line at a time and reads the    *)
(* list back after every change.  The server, its list and the people on   *)
(* the network are the environment; both directions of the connection are  *)
(* FIFO.  A nick is a number: lists are kept, and packed into lines, in    *)
(* key order.  Case folding, and the account, away, host and name a peer   *)
(* may show besides its presence, are left out.                            *)
(***************************************************************************)
EXTENDS Integers, Sequences, FiniteSets, SequencesExt

CONSTANTS
  Nicks,        \* a set of numbers
  NoList,       \* None, for wanted and confirmed
  MaxTargets,   \* MAX_TARGETS
  LineSize,     \* nicks that fit into one MONITOR line
  Kept,         \* lists a bouncer may have kept from an earlier client
  MaxChanges,   \* bounds: /monitor commands,
  MaxEvents     \*   people coming or going, support withdrawn or offered again
                \*   during a listing, connections lost

ASSUME NicksAssumption ==
  Nicks \subseteq Nat /\ IsFiniteSet(Nicks) /\ Kept \subseteq SUBSET Nicks /\ \A N \in SUBSET Nicks : NoList # N
ASSUME LimitsAssumption == {MaxTargets, LineSize} \subseteq Nat \ {0}

VARIABLES
  created,     \* monitors.contains_key(id): the user has typed /monitor
  mon,         \* the MonitorState
  connected,   \* status = Connected
  advertised,  \* isupport_parsed has MONITOR
  writer,      \* whether the connection's writer task still takes lines
  toServer,    \* commands on their way
  toClient,    \* answers and notifications on their way
  serverList,  \* the server's list for this client
  online,      \* people on the network
  left,        \* bounds: what may still happen
  asked,       \* history: what the user asked for each nick
  refused,     \* history: nicks the server, or the limit on targets, ever refused
  overlapped   \* history: MONITOR was offered anew while a listing was under way

vars == <<created, mon, connected, advertised, writer, toServer, toClient,
          serverList, online, left, asked, refused, overlapped>>
server == <<serverList, online, refused>>

NoSnapshot == [open |-> FALSE, names |-> {}, valid |-> TRUE, expired |-> FALSE]
NoChange   == [op |-> "none", names |-> {}]
Unknown    == [n \in Nicks |-> "unknown"]

\* MonitorState::new
Fresh ==
  [support |-> FALSE, blocked |-> FALSE, wanted |-> NoList, confirmed |-> NoList,
   queued |-> <<>>, submitted |-> NoChange, snapshot |-> NoSnapshot,
   retry |-> FALSE, showList |-> FALSE, askStatus |-> FALSE, peers |-> Unknown]

Init ==
  /\ created = FALSE /\ mon = Fresh
  /\ connected = TRUE /\ advertised = TRUE /\ writer = TRUE
  /\ toServer = <<>> /\ toClient = <<>>
  /\ serverList \in Kept
  /\ online = {}                       \* who is there shows by Flip
  /\ left = [changes |-> MaxChanges, events |-> MaxEvents]
  /\ asked = [n \in Nicks |-> "nothing"] /\ refused = {}
  /\ overlapped = FALSE

-----------------------------------------------------------------------------
(* The manager.                                                            *)

\* Mutant of SetSupported: what was confirmed and heard before is kept.
SetSupportedOnly(m, s) == [m EXCEPT !.support = s, !.blocked = ~s]

\* set_supported: nothing heard under the other answer counts any more.
SetSupported(m, s) ==
  IF m.support = s THEN m
  ELSE [m EXCEPT !.support = s, !.blocked = ~s, !.askStatus = @ \/ s,
                 !.snapshot = NoSnapshot, !.submitted = NoChange, !.retry = FALSE,
                 !.confirmed = NoList, !.peers = Unknown]

\* ensure_monitor, for a connection whose account and server stay the same.
Ensured == SetSupported(mon, advertised)

\* reset_transport: what the user wants stays.
ResetTransport(m) ==
  [m EXCEPT !.askStatus = TRUE, !.submitted = NoChange, !.confirmed = NoList,
            !.snapshot = NoSnapshot, !.retry = FALSE, !.blocked = FALSE, !.peers = Unknown]

\* apply: a change that would exceed the limit is refused as a whole.
Applied(list, change) ==
  CASE change.op = "add"    -> LET all == list \cup change.names
                               IN  IF Cardinality(all) > MaxTargets THEN list ELSE all
    [] change.op = "remove" -> list \ change.names
    [] change.op = "clear"  -> {}

Weight(change) == IF change.op = "clear" THEN 1 ELSE Cardinality(change.names)

\* The two refusals of change: a list, or a queue of changes, that is too long.
TooMany(m, change) ==
  IF m.wanted # NoList
    THEN change.op = "add" /\ Cardinality(m.wanted \cup change.names) > MaxTargets
    ELSE FoldLeft(LAMBDA n, c : n + Weight(c), Weight(change), m.queued) > MaxTargets

\* change: queued until the server's own list is known.
Change(m, change) ==
  IF m.wanted # NoList THEN [m EXCEPT !.wanted = Applied(@, change)]
                       ELSE [m EXCEPT !.queued = Append(@, change)]

Packed(names) == {n \in names : Cardinality({k \in names : k < n}) < LineSize}

\* next_command: "none" when there is nothing to do, or nothing to be done
\* before a listing in flight has ended; `waited`: five seconds since a
\* failed send.
NextCommand(m, waited) ==
  LET removed == m.confirmed \ m.wanted
      added   == m.wanted \ m.confirmed
  IN  IF m.blocked \/ m.snapshot.open \/ (m.retry /\ ~waited) THEN NoChange
      ELSE IF m.confirmed = NoList \/ m.wanted = NoList THEN [op |-> "L", names |-> {}]
      ELSE IF removed # {} THEN [op |-> "-", names |-> Packed(removed)]
      ELSE IF added # {}   THEN [op |-> "+", names |-> Packed(added)]
      ELSE IF m.showList   THEN [op |-> "L", names |-> {}]
      ELSE IF m.askStatus  THEN [op |-> "S", names |-> {}]
      ELSE NoChange

\* Mutant of Sent: a change is taken for done once it is on its way.
SentAndBelieved(m, command, ok) ==
  LET s == [m EXCEPT !.retry = ~ok]
  IN  IF ~ok THEN s
      ELSE CASE command.op = "L" -> [s EXCEPT !.snapshot = [NoSnapshot EXCEPT !.open = TRUE]]
             [] command.op = "S" -> [s EXCEPT !.askStatus = FALSE]
             [] command.op = "+" -> [s EXCEPT !.confirmed = @ \cup command.names]
             [] command.op = "-" -> [s EXCEPT !.confirmed = @ \ command.names]

\* sent: after a change the list has to be read back.
Sent(m, command, ok) ==
  LET s == [m EXCEPT !.retry = ~ok]
  IN  IF ~ok THEN s
      ELSE CASE command.op = "L" -> [s EXCEPT !.snapshot = [NoSnapshot EXCEPT !.open = TRUE]]
             [] command.op = "S" -> [s EXCEPT !.askStatus = FALSE]
             [] command.op \in {"+", "-"} -> [s EXCEPT !.submitted = command, !.confirmed = NoList]

\* Mutant of VerifyChange: an addition the list lacks is tried again.
VerifyRemovalOnly(m, names) ==
  [m EXCEPT !.submitted = NoChange,
            !.blocked = @ \/ (m.submitted.op = "-" /\ m.submitted.names \cap names # {})]

\* verify_change: an addition the list lacks was refused, a removal the list
\* still has was not carried out.
VerifyChange(m, names) ==
  [m EXCEPT !.submitted = NoChange,
            !.wanted = IF m.submitted.op = "+" THEN @ \ (m.submitted.names \ names) ELSE @,
            !.blocked = @ \/ (m.submitted.op = "-" /\ m.submitted.names \cap names # {})]

\* One of the queued changes; the additions the limit does not allow are told.
Adopting(acc, change) ==
  LET list == Applied(acc.list, change)
  IN  [list |-> list,
       over |-> acc.over \cup IF change.op = "add" THEN change.names \ list ELSE {}]

\* The server's own list with the changes queued since.
Adoption(m, names) == FoldLeft(Adopting, [list |-> names, over |-> {}], m.queued)

\* Mutants of Adopted: the first list is not taken over; the queue is kept.
AdoptedAsked(m, names) == [m EXCEPT !.wanted = Adoption(m, {}).list, !.queued = <<>>]
AdoptedQueued(m, names) == [m EXCEPT !.wanted = Adoption(m, names).list]

\* The first list becomes what the user wants.
Adopted(m, names) == [m EXCEPT !.wanted = Adoption(m, names).list, !.queued = <<>>]

\* 732: a list that exceeds the limit is not used.
Listed(m, names) ==
  IF ~m.snapshot.open \/ m.snapshot.expired THEN m
  ELSE IF Cardinality(m.snapshot.names \cup names) > MaxTargets
    THEN [m EXCEPT !.snapshot.valid = FALSE]
  ELSE [m EXCEPT !.snapshot.names = @ \cup names]

\* 733: the list is complete; the first one is adopted.
EndOfList(m) ==
  LET names == m.snapshot.names
      checked == VerifyChange(IF m.wanted = NoList THEN Adopted(m, names) ELSE m, names)
  IN  IF ~m.snapshot.open THEN m
      ELSE IF ~m.snapshot.valid \/ m.snapshot.expired
        THEN [m EXCEPT !.snapshot = NoSnapshot, !.confirmed = NoList, !.blocked = TRUE]
      ELSE [checked EXCEPT
              !.snapshot = NoSnapshot, !.confirmed = names, !.showList = FALSE,
              !.peers = [n \in Nicks |-> IF n \in checked.wanted THEN @[n] ELSE "unknown"]]

\* receive_status: presence of nicks that are not targets is not kept.
ReceiveStatus(m, line) ==
  IF m.wanted = NoList THEN m
  ELSE [m EXCEPT !.peers = [n \in Nicks |-> IF n \in line.names \cap m.wanted
                                              THEN line.kind ELSE @[n]]]

\* receive_full
ReceiveFull(m, line) ==
  [m EXCEPT !.wanted = IF @ = NoList THEN @ ELSE @ \ line.names,
            !.peers = [n \in Nicks |-> IF n \in line.names THEN "unknown" ELSE @[n]]]

\* receive
Receive(m, line) ==
  IF line.kind = "unavailable"
    THEN [m EXCEPT !.blocked = TRUE, !.snapshot = NoSnapshot, !.confirmed = NoList]
  ELSE IF ~m.support \/ line.kind \in {"offered", "withdrawn"} THEN m
  ELSE CASE line.kind \in {"online", "offline"} -> ReceiveStatus(m, line)
         [] line.kind = "list" -> Listed(m, line.names)
         [] line.kind = "end"  -> EndOfList(m)
         [] line.kind = "full" -> ReceiveFull(m, line)

\* Additions queued for the first list that the limit does not allow.
OverLimit(m, line) ==
  IF /\ line.kind = "end" /\ m.support /\ m.wanted = NoList
     /\ m.snapshot.open /\ m.snapshot.valid /\ ~m.snapshot.expired
    THEN Adoption(m, m.snapshot.names).over ELSE {}

-----------------------------------------------------------------------------
(* The client's handlers.                                                  *)

\* One turn of the loop of tick_monitors: <<manager, lines sent>>.
SendOne(ms, waited) ==
  LET command == NextCommand(ms[1], waited)
  IN  IF command = NoChange THEN ms
      ELSE <<Sent(ms[1], command, writer), IF writer THEN Append(ms[2], command) ELSE ms[2]>>

\* tick_monitors on the manager m: at most two lines; a send that fails ends
\* the turn (and sets the retry that keeps the second from being tried).
Ticked(m, expires, waited) ==
  LET e == IF expires THEN [m EXCEPT !.snapshot.expired = TRUE] ELSE m
      once == SendOne(<<e, <<>>>>, waited)
  IN  IF ~connected \/ ~advertised THEN <<e, <<>>>>
      ELSE IF writer THEN SendOne(once, waited) ELSE once

Apply(ticked) == mon' = ticked[1] /\ toServer' = toServer \o ticked[2]

\* `expires`: the listing in flight was asked for 30 seconds ago.
Tick(expires, waited) ==
  /\ created
  /\ expires => Ensured.snapshot.open /\ ~Ensured.snapshot.expired
  /\ Apply(Ticked(Ensured, expires, waited))
  /\ UNCHANGED <<created, connected, advertised, writer, toClient, server, left, asked, overlapped>>

\* /monitor add, remove, clear.
ChangeTargets(change) ==
  /\ left.changes > 0 /\ left' = [left EXCEPT !.changes = @ - 1]
  /\ created' = TRUE
  /\ IF TooMany(Ensured, change)
       THEN mon' = Ensured /\ UNCHANGED <<toServer, asked>>
       ELSE /\ Apply(Ticked(Change(Ensured, change), FALSE, FALSE))
            /\ asked' = [n \in Nicks |->
                 CASE change.op = "add" /\ n \in change.names ->
                        IF asked[n] \in {"nothing", "add"} THEN "add" ELSE "add again"
                   [] (change.op = "remove" /\ n \in change.names) \/ change.op = "clear" -> "remove"
                   [] OTHER -> asked[n]]
  /\ UNCHANGED <<connected, advertised, writer, toClient, server, overlapped>>

\* /monitor list, /monitor status.
Query(field) ==
  /\ left.changes > 0 /\ left' = [left EXCEPT !.changes = @ - 1]
  /\ created' = TRUE
  /\ Apply(Ticked(CASE field = "list"   -> [Ensured EXCEPT !.showList = TRUE]
                    [] field = "status" -> [Ensured EXCEPT !.askStatus = TRUE], FALSE, FALSE))
  /\ UNCHANGED <<connected, advertised, writer, toClient, server, asked, overlapped>>

\* observe_monitor, then the rest of the dispatch (005).
ClientReceive ==
  /\ toClient # <<>>
  /\ LET line == Head(toClient)
     IN  /\ mon' = IF created THEN Receive(Ensured, line) ELSE mon
         /\ advertised' = (line.kind = "offered" \/ (advertised /\ line.kind # "withdrawn"))
         /\ refused' = IF created THEN refused \cup OverLimit(Ensured, line) ELSE refused
  /\ toClient' = Tail(toClient)
  /\ UNCHANGED <<created, connected, writer, toServer, serverList, online, left, asked, overlapped>>

Disconnect ==
  /\ connected /\ left.events > 0 /\ left' = [left EXCEPT !.events = @ - 1]
  /\ connected' = FALSE /\ advertised' = FALSE
  /\ mon' = IF created THEN ResetTransport(mon) ELSE mon
  /\ toServer' = <<>> /\ toClient' = <<>>
  /\ UNCHANGED <<created, writer, server, asked, overlapped>>

\* The next session starts without ISUPPORT; a bouncer kept the list, a plain
\* server did not.
Reconnect ==
  /\ ~connected
  /\ connected' = TRUE /\ writer' = TRUE
  /\ mon' = IF created THEN ResetTransport(mon) ELSE mon
  /\ serverList' \in {serverList, {}}
  /\ toClient' = <<[kind |-> "offered", names |-> {}]>>
  /\ UNCHANGED <<created, advertised, toServer, online, left, asked, refused, overlapped>>

\* What it had not yet written is lost.
WriterDies ==
  /\ connected /\ writer /\ left.events > 0
  /\ writer' = FALSE
  /\ \E n \in 0..Len(toServer) : toServer' = SubSeq(toServer, 1, n)
  /\ UNCHANGED <<created, mon, connected, advertised, toClient, server, left, asked, overlapped>>

-----------------------------------------------------------------------------
(* The server.                                                             *)

\* Whether the last 005 the server sent offers MONITOR.
Offered ==
  LET news == SelectSeq(toClient, LAMBDA line : line.kind \in {"offered", "withdrawn"})
  IN  IF news = <<>> THEN advertised ELSE Last(news).kind = "offered"

Status(names) ==
  LET some(kind, ns) == IF ns = {} THEN <<>> ELSE <<[kind |-> kind, names |-> ns]>>
  IN  some("online", names \cap online) \o some("offline", names \ online)

Listing ==
  Append([i \in 1..Cardinality(serverList) |->
            [kind |-> "list", names |-> {SetToSeq(serverList)[i]}]],
         [kind |-> "end", names |-> {}])

Answer(lines) == toClient' = toClient \o lines

\* The server carries out a line.  Additions may be refused, with 734 or
\* without a word; a server that has no MONITOR at the moment says so.
ServerStep ==
  /\ toServer # <<>>
  /\ toServer' = Tail(toServer)
  /\ LET command == Head(toServer)
     IN  \/ /\ ~Offered /\ Answer(<<[kind |-> "unavailable", names |-> {}]>>)
            /\ UNCHANGED <<serverList, refused>>
         \/ /\ command.op = "L" /\ Answer(Listing)
            /\ UNCHANGED <<serverList, refused>>
         \/ /\ command.op = "S" /\ Answer(Status(serverList))
            /\ UNCHANGED <<serverList, refused>>
         \/ /\ command.op = "-" /\ Answer(<<>>)
            /\ serverList' = serverList \ command.names
            /\ UNCHANGED refused
         \/ /\ command.op = "+"
            /\ \E no \in SUBSET (command.names \ serverList), full \in BOOLEAN :
                 /\ full => no # {}
                 /\ serverList' = serverList \cup (command.names \ no)
                 /\ refused' = refused \cup no
                 /\ Answer(Status(command.names \ no) \o
                           (IF full THEN <<[kind |-> "full", names |-> no]>> ELSE <<>>))
  /\ UNCHANGED <<created, mon, connected, advertised, writer, online, left, asked, overlapped>>

\* Somebody connects or leaves.
Flip(n) ==
  /\ left.events > 0 /\ left' = [left EXCEPT !.events = @ - 1]
  /\ online' = IF n \in online THEN online \ {n} ELSE online \cup {n}
  /\ toClient' = IF n \in serverList /\ connected
       THEN Append(toClient, [kind |-> IF n \in online THEN "offline" ELSE "online", names |-> {n}])
       ELSE toClient
  /\ UNCHANGED <<created, mon, connected, advertised, writer, toServer, serverList, asked, refused, overlapped>>

\* The upstream server's MONITOR comes and goes with a 005; the list stays.
Withdraw ==
  /\ connected /\ Offered /\ left.events > 0
  /\ Answer(<<[kind |-> "withdrawn", names |-> {}]>>)
  /\ left' = [left EXCEPT !.events = @ - 1]
  /\ UNCHANGED <<created, mon, connected, advertised, writer, toServer, server, asked, overlapped>>

\* Whether a listing asked for before is on its way, or the client, which has
\* not heard of the withdrawal, may still ask for one.
ListingUnderway ==
  \/ \E i \in 1..Len(toServer) : toServer[i].op = "L"
  \/ \E i \in 1..Len(toClient) : toClient[i].kind \in {"list", "end"}
WithdrawalSeen ==
  /\ ~advertised
  /\ \A i \in 1..Len(toClient) : toClient[i].kind \notin {"offered", "withdrawn"}

\* The server does not wait for listings; doing so in the middle of one is an
\* event.
Restore ==
  /\ connected /\ ~Offered
  /\ Answer(<<[kind |-> "offered", names |-> {}]>>)
  /\ \/ /\ WithdrawalSeen /\ ~ListingUnderway
        /\ UNCHANGED <<left, overlapped>>
     \/ /\ ~WithdrawalSeen \/ ListingUnderway
        /\ left.events > 0 /\ left' = [left EXCEPT !.events = @ - 1]
        /\ overlapped' = TRUE
  /\ UNCHANGED <<created, mon, connected, advertised, writer, toServer, server, asked>>

Changes ==
  [op : {"add", "remove"}, names : {{n} : n \in Nicks}] \cup {[op |-> "clear", names |-> {}]}

Next ==
  \/ \E expires, waited \in BOOLEAN : Tick(expires, waited)
  \/ \E change \in Changes : ChangeTargets(change)
  \/ \E field \in {"list", "status"} : Query(field)
  \/ ClientReceive \/ ServerStep
  \/ Disconnect \/ Reconnect \/ WriterDies
  \/ \E n \in Nicks : Flip(n)
  \/ Withdraw \/ Restore

Spec == Init /\ [][Next]_vars

\* The one-second tick comes round, what is sent arrives and is answered, and
\* the client reads what it is sent; a connection that was lost is made again.
Fairness ==
  /\ WF_vars(Tick(FALSE, TRUE)) /\ WF_vars(ClientReceive) /\ WF_vars(ServerStep)
  /\ WF_vars(Reconnect)

FairSpec == Spec /\ Fairness

-----------------------------------------------------------------------------
Lines == [op : {"L", "S", "+", "-"}, names : SUBSET Nicks]

TypeOK ==
  /\ {created, connected, advertised, writer} \subseteq BOOLEAN
  /\ {mon.support, mon.blocked, mon.retry, mon.showList, mon.askStatus} \subseteq BOOLEAN
  /\ \A list \in {mon.wanted, mon.confirmed} : list = NoList \/ list \subseteq Nicks
  /\ Range(mon.queued) \subseteq Changes
  /\ mon.wanted # NoList => mon.queued = <<>> /\ Cardinality(mon.wanted) <= MaxTargets
  /\ mon.snapshot.names \subseteq Nicks
  /\ mon.submitted \in Lines \cup {NoChange}
  /\ mon.peers \in [Nicks -> {"unknown", "online", "offline"}]
  /\ Range(toServer) \subseteq Lines
  /\ serverList \cup refused \cup online \subseteq Nicks /\ overlapped \in BOOLEAN

\* The server's list is only believed between the end of one listing and the
\* next change: what is confirmed is what the server has.  (Not so once
\* MONITOR was withdrawn and offered again during a listing: its end is taken
\* for the end of the next one, which may have been asked for after a change.)
ConfirmedCurrent ==
  ~overlapped => (mon.confirmed # NoList => mon.confirmed = serverList)

\* Whatever is queued, in flight or refused, and whenever connections and the
\* support for MONITOR go and come back: a nick the user added last is a
\* target unless it was refused, one the user removed last is not, and one the
\* user never spoke of is not taken off the server's list.  (Except, as above,
\* once a listing was overlapped: verify_change then takes the nick of an
\* addition for refused, because the late list does not have it yet.)
HonoursUser ==
  ~overlapped =>
    /\ mon.wanted # NoList =>
         \A n \in Nicks : /\ asked[n] \in {"add", "add again"} /\ n \notin refused => n \in mon.wanted
                          /\ asked[n] = "remove" => n \notin mon.wanted
    /\ \A i \in 1..Len(toServer) :
         toServer[i].op = "-" => \A n \in toServer[i].names : asked[n] \in {"remove", "add again"}

\* Nothing about anybody's presence is on its way.
Quiet ==
  /\ connected /\ mon.support /\ mon.wanted # NoList
  /\ toServer = <<>> /\ toClient = <<>>

Stale(n) == mon.peers[n] = IF n \in online THEN "offline" ELSE "online"

\* docs/validation/bouncer-monitor.md: reconnects and changes of ISUPPORT leave
\* no stale presence.  (It does not hold of a nick that was removed and added
\* again while a listing was in flight: what is heard of it in between is
\* dropped, and what was heard before stays.)
PresenceCurrent ==
  Quiet => \A n \in mon.wanted \cap serverList : Stale(n) => asked[n] = "add again"

\* Once the user, the network and the support for MONITOR are left alone, the
\* server has the user's targets, unless the manager gave up until the next
\* connection (a list that timed out, a line the server would not take) or was
\* misled by a listing that was overlapped.
Converges ==
  <>[](\/ mon.wanted = serverList
       \/ mon.blocked \/ mon.snapshot.expired \/ ~mon.support \/ ~writer \/ ~created
       \/ overlapped)
=============================================================================
