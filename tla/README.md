# A TLA+ model of repartee

repartee is a terminal IRC client in Rust. One task, `App::run`
(`src/src/app/mod.rs`), owns the state and handles one event at a time: lines
from the servers, keys, the one-second tick, and the results of worker tasks
(translation, URL shrinking, image previews, history, the log writer), which
come back over channels in whatever order they finish. A handler runs to its
end, so what can go wrong lies between handlers: the state a request was made
in is not the state its answer meets. Two places are really concurrent: the
translation limiter, which worker tasks share with the settings handler, and
the log writer.

## Inventory

| Part | State | Operations | Interacts through | What is hard | Correct when |
|---|---|---|---|---|---|
| Translation limiter (`app/translate.rs`) | permits, ceiling, debt | acquire, retune, settle | semaphore shared by worker tasks | a ceiling lowered while permits are out | no permit lost or minted, never wedged, reductions land |
| Reorder queue (`translate/queue.rs`) | entries of a buffer: pending, reserved, resolved | push, reserve, fill, resolve, drain, expire, ceiling | called by routing | rows resolved out of order, limits | rows leave in order, none vanishes |
| Routing and own echoes (`state/events.rs`, `app/translate.rs`) | queue per buffer, decoration records, outgoing lane | incoming line, answer, send, reflection, tick, close, disconnect | provider and shrinker channels, the server's echo | late, lost, duplicated and suppressed echoes, split messages | order, parts together, nothing waits for nothing |
| Redirects (`state/events.rs`) | eras of a nick, departures, messages in flight | rename, quit, deliver | nick and quit events against delayed deliveries | a nick changes hands while a message waits | a private message reaches its recipient or nobody |
| RPE2E trust (`e2e/manager.rs`, `e2e/keyring.rs`) | peers, sessions, recipients, pending requests, warnings | KEYREQ, KEYRSP, REKEY, `/e2e` commands | CTCP dispatch, commands, SQLite | messages from any handle in any order between commands | one key per handle, no row outlives its binding, moves by consent |
| RPE2E gate (`app/e2e_gate.rs`) | none of its own | decide per message | every send path | state unknown yet | fails closed |
| Connections (`irc/mod.rs`, `app/irc.rs`, `app/connection_attempt.rs`) | attempts, registration, writer | connect, cancel, reconnect | transport tasks | events of a cancelled attempt | no event outlives its attempt |
| Batches, labels (`irc/batch.rs`, `irc/labels.rs`) | open batches, label contexts | open, add, end, purge | server lines | nesting against expiry | complete batches once, nothing leaks |
| History (`irc/chathistory.rs`, `app/backlog.rs`, `irc/batch.rs`) | watermarks of what was fetched and stored, the request in flight, end of the buffer | scroll, fill the gap, page, time out | server, log writer, log database, buffer | pages cut or lost, rows said meanwhile, rows queued for the log | no hole, whoever scrolls reaches the start |
| History of a bouncer (`app/history_discovery.rs`, `app/server_*.rs`) | targets to discover, searches | ask, page, retry | server | timeouts against late pages | every target found once |
| Read markers (`app/read_markers.rs`, `state/read_state.rs`) | marker in force, mark to report, what the server confirmed, pending requests, unread rows | arrive, read, tick, confirm, fail, reconnect | server, other clients of the account | confirmations lost, late or of older marks, failures that name too little | only what was read ceases to be unread, every mark reaches the server |
| Typing (`app/typing.rs`) | sources, targets, throttle | activity, submit, tick | terminal and web sessions | several inputs per buffer | a "done" follows every "active" |
| MONITOR (`irc/monitor.rs`, `app/monitor.rs`) | wanted and confirmed list, queued changes, change and listing in flight, presence | change, send, receive, expire, support withdrawn | server, ISUPPORT | late or partial listings, refusals with and without a word | the user's wishes stand, the lists converge, presence is current |
| Netsplits (`irc/netsplit.rs`), flood (`irc/flood.rs`) | windows, groups | event, tick | IRC events | window edges | each event shown once, blocks end |
| Redaction (`state/redaction*.rs`) | registry, archive | redact, replay | history, batches | a replay after eviction | redacted text stays hidden |
| Bouncer (`app/bouncer_children.rs`) | children of an account | reconcile, stop, rename | snapshots | manual actions between snapshots | no unwanted child reconnects |
| Log writer (`storage/writer.rs`) | pending rows | queue, flush, shut down | its own task | failing database | bounded, flushed on shutdown |
| DCC, sessions, web (`dcc/`, `session/`, `web/`) | offers, attached terminals, logins | accept, attach, log in | sockets | expiry against acceptance | one-shot offers, bounded output |
| UI, themes, scripting, configuration | – | – | – | – | not modelled: rendering, parsing, Lua |

`PROJECT.json` lists every part with its status, and every hazard at its line.

## Modules

| Module | Models | State |
|---|---|---|
| `TranslateLimiter` | `TranslateLimiter` of `app/translate.rs` | `total`, `debt`, `target`, the idle `pool`, the FIFO of `waiters`, the step `pc` of each caller |
| `TranslateQueue` | operators for the methods of `TranslateQueue` | none: a queue is a sequence of entries |
| `TranslateRouting` (extends `TranslateQueue`) | the handlers that use the queue, for one buffer | queue and whether it exists, records, provider, lane, reflections under way, rows shown; history: `lost`, `unplaced`, `timedOut`, `crossed` |
| `OrderedTimeline` | what the queue promises | keys shown, keys that hold a place, keys that forfeited it |
| `OutgoingRedirect` | redirects of private messages | who owns a nick, open windows, eras, departures, messages in flight; history: what reached whom |
| `E2eTrust` | the trust tables and who writes them | peers, sessions, recipients, outgoing key, requests, warnings; history: `holders` |
| `Monitor` | the MONITOR target manager of a connection | the manager `mon`, the connection and its writer, both directions of the wire, the server's list, who is online; history: what the user `asked`, what the server `refused`, whether listings `overlapped` |
| `ReadMarkers` | read markers kept by the server and the unread rows they clear | rows and unread rows, marker in force, mark desired, confirmations, pending requests, wire, the server's marker; history: `seen`, `refused` |
| `History` | CHATHISTORY of a buffer of an ordinary connection | whether the client has joined, rows at the server, stored, queued and shown, watermarks, request in flight and whether /clear came since, the page on its way; history: `top`, `from`, `lost` |
| `FoldFacts` | what `FoldLeft` computes for any operator, by induction over the sequence | – |
| `*Proofs` | TLAPS proofs | – |
| `MC*` | symmetry sets for TLC | – |

### TranslateLimiter

A caller asks (`Ask`), is granted a permit by tokio's fair semaphore
(`Granted`, external), and then, in a critical section of its own, claims the
permit for work or forgets it to pay debt (`Claim`, `Forget`). `Retune` moves
the ceiling in one critical section; `Settle` is what a returning permit does.
Between any two of these steps any other task may run. Fairness is weak
fairness of the steps of a caller that holds or was granted a permit and of
the semaphore's grants: tasks are polled, and a translation ends because it
has a timeout. Nobody has to ask or to change the ceiling.

### TranslateQueue, TranslateRouting, OrderedTimeline

An entry is *pending* (its text is with the provider or the shrinker),
*reserved* (a place kept for an own line that the server will echo) or *ready*.
A handler works on a record of the queue and the rows it releases, exactly in
the order of the calls in the code, and ends with `Finish`, which records who
gave up a place, or with `FinishReserving` where the ceiling may take back at
once the place just asked for. Identifiers grow
with arrival (`TakeId`, bounded by `MaxIds`). The provider may answer any
request at any time, or never; the server may reflect a line, in order, or
never; the writer may die. `Elapse` ages everything at once; ages are capped
at the larger of the two timeouts.

`ImplementsTimeline` is step simulation of `OrderedTimeline`: the rows a step
shows are handed to the abstract step as its witness. `OrderKept` is what
follows for the rows of the buffer.

`take_own_echo_decoration` finds the record of a reflection by its text
(`src/src/state/events.rs:909`). When the records of a split send are forgotten
while its lines are still to come (the window was closed, or the cap on records
reached), they take the records of a later send of the same text, which is then
shown with its last part first, although `decorate_own_echo` (`:787`) evicts
whole messages to avoid just that. The sends that crossed so are remembered
(`crossed`), `PartsInOrder` exempts them, and one kind of session types split
texts again and again, so that all others are looked at.

A message of three or more parts can keep several rows parked in its place, one
entry of the queue. When the place is released they are entries of their own,
and nothing holds the queue to `max_queue` before the next line or tick
(`QueueBounded`, a finding). What does hold is `HeldToCeiling`: whenever a line
arrives the queue is cut back to `max_queue`, and never do more than `max_queue`
entries wait for the provider or for an echo; what exceeds it are parked rows.

### OutgoingRedirect

Persons own nicks, rename, quit and join; windows open and close. A message is
written to a nick (meaning its owner at that time) and delivered, redirected
or handed back when its translation arrives. Time is a clock bounded by
`MaxClock`; the timeout of a translation and the life of an era are constants,
so that both orders of the two can be studied.

### E2eTrust

A peer is its key; a handle is the `ident@host` it speaks from. Signatures are
assumed to hold, so a message with key *f* was made by *f*, but any message may
arrive from any handle, any number of times, in any order. One action per
handshake outcome and per command. Abstracted: session keys are real or the
zero-filled placeholder; the rate limiter, autotrust rules and channel modes
are free choices; the queues drained by the dispatcher right after a handler
are part of the handler; a refused REKEY files the warning a refused KEYREQ
does. `holders` records who was given our live key.

### Monitor

One action per handler of `app/monitor.rs` (`/monitor` commands, a received
line, the tick, a connection that goes and comes back) on a record of the
manager, each ending with the loop that sends at most two lines, as in
`tick_monitors`. The server carries out lines in order; it may refuse additions
with 734 or without a word, withdraw MONITOR by a 005 and offer it again, and
keep or forget its list between connections. `asked` and `refused` say what the
user wanted last and what the server ever refused. A nick is a number, because
lists are packed into lines in key order.

A list that exceeds the limit on targets is not used (`valid`), and additions
queued before the first list that the limit does not allow are told to the user
and count as refused (`OverLimit`).

The server may offer MONITOR again at any time. When a listing asked for before
is still under way then, or the client may yet ask for one because it has not
heard of the withdrawal, its end is taken for the end of the next one, which the
client asks for once the offer arrives: nothing in `monitor.rs` tells two
listings apart. What is believed may then be out of date, `verify_change` takes
a late addition for refused, and the lists may stay apart. `overlapped`
remembers that this happened; `ConfirmedCurrent`, `HonoursUser` and `Converges`
speak of runs up to that point, `PresenceCurrent` of all.

### ReadMarkers

Rows are numbered by their time, two targets share the pending list. The timers
of `tick_read_markers` are left out: a tick may send for any targets that want
something, and forget any prefix of the requests, which covers every relation
of the delays. A refusal names the target, the time, or (with three parameters)
nothing at all, and the client takes the first request that fits, whatever its
target (`HearFailure`). `MarkStands` and the others are stated
of what was read here (`seen`) and at the server (`marker`). Met while
modelling: a FAIL is charged to the first request of its target, so that a later
mark may be given up for an earlier one; and `failures` is not reset after a
mark was rejected, so that a newer one gets a single attempt after an internal
error; and a FAIL that names nothing may give up the mark of one target for the
refusal of another. `refused` counts, for each target, the refusals that may be
charged to it (`Concerns`); `MarksReach` and `MarkersHeard` exempt a target only
when these were final or as many as the limit. That a target is so given up by
the refusal of another is the client's guess, pinned by
`unscoped_marker_failure_affects_only_the_first_pending_request`.

### History

The server holds a row for each time; rows of some times are events, which
pages carry and the client does not store. Scrolling up shows a page of the log
and, when it is short, asks for the page before the oldest row fetched; the end
of NAMES or of the MOTD asks for the gap, page by page. A page may be lost or
be cut by the timeout of its batch, the connection may go, and rows go on being
said. Stored rows pass through a queue. `from` and `top` remember where the gap
and the scrolling started. Of a channel the client hears nothing until its own
JOIN, and the gap is asked for after that. `/clear` empties the buffer at any
time; what is in flight is then not shown when it comes, but is stored. Paging
stops when the buffer holds `PinnedCap` rows.

Assumed: an answer comes within the 90 seconds of a request, or never; a cut
page is a prefix in time order; a reconnect (30 s) takes longer than a flush
(1 s); the log writer drops nothing. Met while modelling, and exempted by
`lost`: a page of the gap that is lost or cut is not asked for again on the
same connection; after a page of older rows was cut, the rows that came are
shown, and those the retry brings lie above the top of the buffer's window and
stay hidden until it is loaded again. A `/clear` while a full page of the gap is
in flight ends the chain (`after_limit`, `irc/batch.rs:419`) while the gap stays
claimed, so that the rest of it is not asked for until the client reconnects
("cleared"). A buffer that `/clear` emptied counts as fully paginated
(`history_fully_paginated`), so that with an empty log, and the last page still
queued for it, the buffer is taken for one at its end ("hidden"). The chain of
the gap ends at rows newer than the connection, so that rows said between
`Connected` and the client's JOIN are only there when the last page carried them;
`GapFilled` speaks of the rows older than the connection.

## Runs

| Run | Question | Result |
|---|---|---|
| `limiter` | three callers, ceiling moved three times among 0..3 | holds, with liveness |
| `routing` | a server with echo-message, up to three parts, evictions, ceiling, reconnects; the same text sent again, also in parts; no echo-message, shrinker and local echo; arrivals held to the ceiling, no queue without a waiting entry, entries leave | holds, with liveness; implements the timeline |
| `redirect` | two persons, three nicks, two messages | holds while the recipient is on the network |
| `e2e_trust` | two keys, two handles, all messages and commands, two open warnings | holds |
| `monitor` | two nicks, two commands, two outside events (people, support, disconnects, a dead writer) | holds until listings overlap, with convergence |
| `read_markers` | a target with two rows and one with one, two faults (refusals that name their target or nothing, lost or late requests, disconnects) | holds, with liveness |
| `history` | five to seven rows, pages of two, two faults (lost or cut pages, disconnects, /clear) | holds, with liveness |
| `redirect_quit` | never to a stranger, also after rename and quit | violated |
| `e2e_placeholder` | a placeholder is never trusted | violated |
| `e2e_revoked` | a revoked session is not trusted by a handshake | violated |
| `routing_bound` | the queue never exceeds its ceiling, with messages of three parts | violated |
| `history_partial` | scrolling up leaves no hole when the first page is cut | violated |

The five violations are disagreements of the code with its own comments and
documentation; `findings` in `PROJECT.json` quotes them.

### Bounds

* Limiter: three callers and three changes let a reduction wait behind two
  holders and be overtaken by a raise.
* Routing: a queue of two, three records; six kinds of session, chosen at the
  start: echo-message with messages of up to two parts (three lines) and of up
  to three (two), the shrinker and local echo (three), one text sent again and
  again, in single parts (four) or in two (three), echo-message with the
  shrinker (three). The ceiling, an eviction, and a reflection that meets the
  record of another send all happen within these; a third entry adds no new pair
  of neighbours. At the ceiling `enforce_translate_ceiling` may hand out every
  entry and leave the empty queue, which parks the next line until the tick;
  `NothingParkedIdly` exempts that step and no other. `routing_bound` needs four
  lines, of three parts.
* Redirect: three nicks let one person rename twice while another takes both
  old nicks; eras are capped at two, below the number of
  renames. The history outlives the timeout (`TTL > Timeout`); with a
  `translate.timeout_ms` above the five minutes of `REDIRECT_TTL`, which no
  setting forbids, `RenamesFollowed` fails (`TTL = 2`, `Timeout = 9`).
* Trust: two keys and two handles make moves, swaps and replacements; at most
  two warnings, requests of ours and cached requests are open at a time, which
  covers every pair of them. The proofs cover any number.
* Monitor: a line holds one nick and the list two, so that a change takes
  several lines; two commands and two outside events meet in any order. Lists
  and both directions of the wire are bounded by these. That the limit on
  targets turns an addition down takes a third nick; the proofs cover any number
  of nicks and any limit.
* Read markers: a target with two rows, one of them in its history, and one
  that only asks for its marker; two requests may be pending and two sent in a
  tick, so that the cap is reached; an internal error is tried twice, where the
  code tries three times, so that two faults reach the limit. Two faults
  let a request be repeated and one of the two be refused.
* History: five rows said before the start and two while it runs, the last but
  one stored before or none; pages of two on both sides, so that a gap takes two
  pages and scrolling three, and one row an event. The window holds five rows, so
  that it may fill up and what is left is out of reach. Two faults: a page lost
  or cut, a disconnect or a /clear, in any pair.

### Fairness

`routing` assumes, for `EntriesLeave`, that the clock advances and that the one-second tick
runs when something is due (`select!` of `App::run` polls its interval); not
that a provider answers or a server reflects. The limiter's fairness is above.

`monitor`: the tick comes round, lines are delivered and answered, a connection
that was lost is made again (`check_reconnects`). `read_markers`: the same,
with strong fairness of the tick for each target, because the model's wire is
bounded and may be full when the tick comes, and the code's channel is not.
`history`: the log is flushed every second, requests are answered or given up
after 90 seconds, the client reconnects, and the user keeps scrolling up. Nobody
has to read, to type a command or to say anything, and no fault has to end; the
liveness properties hold for the runs in which the bounded faults are used up.
The safety runs assume none.

`CHECK_DEADLOCK FALSE` is used for `OutgoingRedirect`, whose clock ends, for
`History`, which rests at the top of a full window, for
`Monitor`, which rests when no command was ever typed, and for `ReadMarkers`,
which rests when everything was read and confirmed and nothing is left to arrive.

## Proofs

* `TranslateLimiterProofs`. `IndInv` adds to the properties that waiters are
  exactly the callers that wait, each once; without it the pool and the holders
  cannot be counted together. Conservation (`total = pool + holders`) is an
  equation between a cardinality and a counter, so most of the proof is about
  the cardinality of the set of holders when one caller moves. From it follow
  `NeverWedged` and `StartsWithinCeiling` for any number of callers and any
  sequence of ceilings; `PermitsConserved` and `TypeOK` are parts of it.
* `TranslateRoutingProofs`. The order of the rows of a timeline is not
  inductive; it becomes so with `NothingOvertook`: nothing shown is newer than a
  place still held (`TimelineInvariant`, `TimelineInOrder`). That the routing is
  such a timeline (`RoutingImplementsTimeline`, and as a refinement
  `RoutingRefinesTimeline`) is the longest proof. `RoutingInv` says that a queue
  holds its entries in the order of their ids, and an entry that
  waits has its id to itself (`QueueOK`, in `Shapes`); that a
  place belongs to whoever will still use it, and to nobody else
  (`PlacesOwned`); that a send is as old as its place, so that a send the tick
  gave up on is late when it comes back (`LaneAges`); that records and the lines
  on their way to the server are in step (`InStep`); and that the record of the
  last line of a message is kept while the message has a place (`LastKept`),
  without which an eviction could leave a barrier nobody lifts; and that a row
  in the buffer's hands is there once and is not *due*: its id has been handed
  out, and it waits neither at the shrinker, nor in translation, nor on its way
  back from the server (`RowsInv`).
  Every helper that handlers are composed of is shown to be *sound* for a
  working record: the queue stays in order, and the rows that leave are older
  than those that stay; and it is shown which rows it adds: those it was given
  (`Gained`) or none (`Carried`), and none in two places. `HandlerKeeps` turns a
  chain of sound helpers that ends with `Close`, and whose new rows were due
  before the step and are not after it (`Comes`), into a step of the timeline
  that keeps the invariant; one lemma per action applies it.
  `NothingLeftBehind` is a part of the invariant, `OrderKept` follows from the
  refinement, `RowsOnce` from `RowsInv`, and `NoRowVanishes` from the steps.
  All of it holds for any set of
  sessions, any ceiling, cap on records, timeout, number of ids and of parts.
  Assumed: no message needs more lines than records are kept (`OWN_ECHO_MAX`),
  as otherwise a message evicts its own records.
  Met while proving: the ceiling may take back the place of the very line that
  asked for it, when the queue is full of rows that are ready behind a barrier;
  the echo of that line is then shown where it arrives
  (`enforce_translate_ceiling` in `build_outgoing_translate`). The properties
  exempt it as they exempt every place the ceiling takes.
* `E2eTrustProofs`. `TrustInv` needs `RowsBound` for `OneKeyPerHandle` (an
  accepted request is not classified again), `AbsentUnbound` for `RowsBound`
  (a forgotten key that comes back must not inherit rows), and `RowsBound` for
  `RecipientsCurrent` (a rotated key is sent only to recipients with a peer
  row). Each action is shown to leave every table *fine*: a row is empty, or
  old at a handle that was not cleared, or about the key now bound there.
  `MovesByConsent` follows from the same lemmas. Two more properties
  follow step by step: the warnings a step takes away are all about one handle
  (`OneDecisionAtATime`), and a key whose move awaits an answer is not deleted
  with its handle (`MovingKeysSurvive`). Which warnings a filter leaves is a
  fold over the queue (`Only`, `OnlyFacts`), so the first rests on `FoldFacts`;
  the bound on the queue of warnings is `NoticesOK`.
  Assumptions: the model values for "none" are not keys or handles.

* `ReadMarkersProofs`. `UnreadHonest` and `MarkStands` become inductive with
  `MarksFounded` (a mark on its way to the client is one the server has reached,
  in both directions of the wire) and with the marker in force being covered by
  what was read here or is at the server. `TypeOK` adds that the queue of
  requests without an answer keeps within its cap, also where an answer takes
  out what it settles and keeps the rest (`Unsettled`, a fold). Timers, delays and the number of
  targets, rows and faults are arbitrary.
* `HistoryProofs`. The invariant has three sides: the gap (`GapSide`: whatever
  is in the log at the start of a connection lies below the rows of that
  connection, until the gap is asked for), the older rows (`OldSide`: while
  nothing older was fetched, what is there has no hole below the row scrolling
  started from, because that row may be chosen again) and the page on its way
  (`PageSound`: a whole page has no hole between it and its anchor, nor, for the
  newest rows, between it and what was said since, because it is asked for after
  the JOIN). /clear only ever empties the buffer and ends the chain. That pages
  are contiguous, and complete when they are short, is proved of `First` and
  `Last` for sets of any size. Assumption: `NeverCutFirst`, without which
  `ScrollbackWhole` is false (`history_partial`); `TypeOK` needs none.

* `FoldFacts`. A loop over a sequence is a fold in the models. This module has
  one parameter, the operator that is folded. It writes out the recursive
  function that `FoldLeft` stands for (`Folded`), so that a proof that unfolds
  `FoldLeft` meets the same term, and shows, by induction over the
  length, what the fold of an empty and of an extended sequence is, and that a
  fold keeps what every turn keeps (`FoldInduct`, with a set of values for each
  position). The proof modules instantiate it for the operators of their loops.
* `OutgoingRedirectProofs`. `EraInv` says that an era ends after it begins, in the
  past, and before the next era of its nick begins; `ErasDisjoint` and `TypeOK`
  follow for any number of nicks, persons and messages. `RedirectInv` adds that
  whoever has not left answers to the nick their conversation now goes on under
  (`HomesOwned`), that a send without an era is newer than every era of its
  nick (`SendsPlaced`), and that each send has a mark of its own under that nick,
  in order (`MarkersKept`, an injection from sends to marks).
  `RenamesFollowed` needs two assumptions: a translation times out
  before an era is forgotten (`Timeout < TTL`), and the cap of
  `REDIRECT_ERAS_MAX` (16) eras of a nick never drops one that is newer than a
  message in translation (`[]RoomForEras`). The code counts on both and enforces
  neither. Met while proving: without the second, a send whose era was dropped
  clears the mark of another conversation under its own nick, so that a later
  rename of that nick may leave no era.
* `MonitorProofs`. `ListInv` ties what the client believes of the server's list
  to the list and to what is on its way in both directions: a list that is
  believed is the server's, and no change is on its way (`Believed`); a listing that
  is awaited is the last thing asked for, and ends with what the server has then
  (`Awaited`); a listing nobody waits for keeps the manager from asking for
  another (`Abandoned`). `ConfirmedCurrent` follows. `HonourInv` adds, for each
  nick, what became of the user's last wish: it is wanted, or will be with
  whatever list the server turns out to have (`Wishes`), and an addition that was
  submitted is still to be carried out before the listing that tells how it went,
  or it is in the server's list, or it was refused (`Fate`). `HonoursUser` follows.
  Both invariants are stated, and kept, as long as no listing was overlapped; the
  step that overlaps one is the only one that may break them (`OverlapStays`).
  Nothing is assumed; `TypeOK` and `PresenceCurrent` hold afterwards too.
  `PresenceInv` is about presence alone: of each
  nick in the server's list, the last line on its way that speaks of it tells
  the truth (`Truthful`); a target of which nothing is on its way is shown as it
  is, and of a nick that is not a target nothing is shown, unless the user has
  removed it before (`Known`); without a list, support or a connection nothing
  is shown at all (`Blank`). The exception of `PresenceCurrent`, a nick that was
  removed and added again, is the only one the proof needs.

Only model-checked: liveness; of the routing, whether rows stay parked, the
parts of a message stand together once shown, and the queue is held to its
ceiling as lines arrive (`NothingParkedIdly`, `PartsWhole`, `HeldToCeiling`), and
its `TypeOK`, of which `Shapes` is the part the proof needs.

## Not modelled

In the modelled parts: translation policy and language detection; several
buffers at once (queues are independent); the own and peer contexts of private
RPE2E conversations and legacy contexts; REKEY replay and the grace of the
previous key; import and export of keyrings; failing SQL statements; a peer row
with status Revoked (no command writes one); folding of nicks and targets and
the metadata of MONITOR peers; a connection that changes its account; rows that
move between buffers, and the identity of own rows, in the read markers;
bouncers that own the history, searches and the limit of 10,000 pages of a gap
in the history. The parts listed as
`not_modelled` in `PROJECT.json` are planned or out of reach for the reason
given there.

## Plan

1. `E2eRekey`: key generations, REKEY nonces, the previous key's grace, and
   `E2eGate`: the send gate failing closed, composed with `E2eTrust`.
2. `Connection`: attempts, registration, reconnect; `Batches` and `Labels`,
   under `History`.
3. `HistoryDiscovery` and `Typing`: request, answer and timeout protocols with
   convergence as liveness.
4. `LogWriter` (behind the queue of `History`), `Redaction`, `BouncerChildren`,
   `Netsplit`, `Flood`, `Dcc`, `Session`, `WebAuth`.
5. Proofs: `PartsWhole` and `HeldToCeiling` of the routing; the bounds of the
   modules of 4.

Abstract specifications worth stating: a convergent list for MONITOR, a
register merged from several clients for read markers, a bounded log for the
writer.
