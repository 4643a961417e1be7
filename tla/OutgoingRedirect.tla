--------------------------- MODULE OutgoingRedirect ---------------------------
(***************************************************************************)
(* Private messages that are still being translated while the people they  *)
(* are for change nicks: the redirect eras, departures and in-flight       *)
(* markers of src/src/state/events.rs, and the verdict of                  *)
(* src/src/app/translate.rs on a send that comes back.                     *)
(*                                                                         *)
(* A query's buffer id is the nick of its peer.  Instants are the values   *)
(* of `clock`; a handler runs at an instant of its own.  The client sees   *)
(* every NICK and QUIT of the people it writes to, in order.               *)
(***************************************************************************)
EXTENDS Integers, Sequences, FiniteSets, SequencesExt

CONSTANTS Nicks, Persons,
          NoOne,      \* nobody answers to the nick
          TTL,        \* REDIRECT_TTL
          MaxEras,    \* REDIRECT_ERAS_MAX
          Timeout,    \* translate.timeout_ms
          MaxSends,   \* bound: sends in translation at once
          MaxClock    \* bound: handlers run

ASSUME NoOneAssumption == NoOne \notin Persons
ASSUME TimesAssumption == {TTL, MaxEras, Timeout} \subseteq Nat \ {0}
ASSUME BoundsAssumption == {MaxSends, MaxClock} \subseteq Nat

VARIABLES owner,       \* who answers to each nick
          windows,     \* nicks with a query buffer
          redirects,   \* buffer_redirects: the eras of each id, oldest first
          departures,  \* query_departures: when the peer of an id last left
          inFlight,    \* outgoing_in_flight: dispatch times noted per id
          sends,       \* sends in translation, in submission order
          sent,        \* history: sends that went out
          clock

vars == <<owner, windows, redirects, departures, inFlight, sends, sent, clock>>

Never == -1
Times == 0..MaxClock

Init ==
  /\ owner \in [Nicks -> Persons \cup {NoOne}]
  /\ \A m, n \in Nicks : owner[m] = owner[n] /\ owner[m] # NoOne => m = n
  /\ windows \in SUBSET Nicks
  /\ redirects = [n \in Nicks |-> <<>>]
  /\ departures = [n \in Nicks |-> Never]
  /\ inFlight = [n \in Nicks |-> <<>>]
  /\ sends = <<>>
  /\ sent = {}
  /\ clock = 0

Age(t) == clock - t

\* Time passes from handler to handler.  The lane bounds the provider's call
\* by what is left of the budget, so a send is back when that runs out.
Pass ==
  /\ clock < MaxClock /\ clock' = clock + 1
  /\ \A i \in 1..Len(sends) : Age(sends[i].at) <= Timeout

-----------------------------------------------------------------------------
\* has_outgoing_in_flight, with the age the NICK and QUIT handlers use
HasOutgoingInFlight(n) == \E t \in Range(inFlight[n]) : Age(t) < TTL

\* Mutant of EraAt: the newest era, whenever the send was dispatched.
NewestEra(n, at) == Len(redirects[n])

\* The era of `n` that was running at instant `at` (0: none): the first one.
EraAt(n, at) ==
  SelectInSeq(redirects[n], LAMBDA era :
    Age(era.ended) < TTL /\ era.started <= at /\ at <= era.ended)

\* redirected_buffer_id.  started = Never stands for None: it precedes every
\* instant and gives no floor.
RedirectedBufferId(n, at) ==
  LET eras == redirects[n]
  IN  IF eras # <<>> /\ EraAt(n, at) # 0
        THEN [to |-> "moved", id |-> eras[EraAt(n, at)].target]
      ELSE IF Age(at) >= TTL \/ (eras # <<>> /\ at < eras[1].started)
        THEN [to |-> "unknown", id |-> n]
      ELSE [to |-> "stays", id |-> n]

\* Redirects into `old` follow the buffer to `new`.
Repointed(old, new) ==
  [n \in Nicks |-> [i \in 1..Len(redirects[n]) |->
     IF redirects[n][i].target = old THEN [redirects[n][i] EXCEPT !.target = new]
                                     ELSE redirects[n][i]]]

\* Mutant of StartOf: every era reaches back to the beginning.
NoStart(eras) == Never

\* An era starts where the previous one of the same id ended.
StartOf(eras) == IF eras = <<>> THEN Never ELSE Last(eras).ended

\* Mutant of Capped: only age removes an era.
Uncapped(eras) == eras

Capped(eras) ==
  IF Len(eras) > MaxEras THEN SubSeq(eras, Len(eras) - MaxEras + 1, Len(eras)) ELSE eras

\* retain: eras that ended too long ago are dropped.
Retain(kept, era) == IF Age(era.ended) < TTL THEN Append(kept, era) ELSE kept
Retained(eras) == FoldLeft(Retain, <<>>, eras)

\* rekey_buffer_state, of `old` # `new`: redirects into `old` are repointed,
\* a new era is closed, the oldest and the expired ones are dropped.
RekeyRedirects(old, new) ==
  LET repointed == Repointed(old, new)
      closed    == Append(repointed[old], [target |-> new, started |-> StartOf(repointed[old]),
                                           ended |-> clock])
  IN  [n \in Nicks |-> Retained(IF n = old THEN Capped(closed) ELSE repointed[n])]

RekeyInFlight(old, new) ==
  [inFlight EXCEPT ![old] = <<>>, ![new] = @ \o inFlight[old]]

RekeyBufferState(old, new) ==
  /\ redirects' = RekeyRedirects(old, new)
  /\ inFlight' = RekeyInFlight(old, new)

-----------------------------------------------------------------------------
\* The user writes to whoever answers to `n`; a window is not needed
\* (build_outgoing_translate, note_outgoing_dispatch).
Submit(n) ==
  /\ Pass
  /\ owner[n] # NoOne /\ Len(sends) < MaxSends
  /\ sends' = Append(sends, [nick |-> n, at |-> clock, for |-> owner[n], left |-> FALSE])
  /\ inFlight' = [inFlight EXCEPT ![n] = Append(@, clock)]
  /\ UNCHANGED <<owner, windows, redirects, departures, sent>>

\* redirect_outgoing_deliver: the nick to send to, or NoOne to refuse.
RedirectOutgoingDeliver(send) ==
  LET r == RedirectedBufferId(send.nick, send.at)
  IN  IF departures[send.nick] # Never /\ departures[send.nick] >= send.at THEN NoOne
      ELSE IF r.to = "stays" THEN send.nick
      ELSE IF r.to = "moved" /\ r.id \in windows THEN r.id
      ELSE NoOne

\* apply_translate_deliver: the marker is cleared where it lives now, then the
\* send goes out or its text is handed back.
Deliver ==
  /\ Pass
  /\ sends # <<>>
  /\ LET send   == Head(sends)
         marker == RedirectedBufferId(send.nick, send.at).id
         target == RedirectOutgoingDeliver(send)
     IN  /\ inFlight' = [inFlight EXCEPT ![marker] = IF @ = <<>> THEN @ ELSE Tail(@)]
         /\ sent' = IF target = NoOne \/ Age(send.at) >= Timeout THEN sent
                    ELSE sent \cup {[for |-> send.for, reached |-> owner[target],
                                     left |-> send.left]}
  /\ sends' = Tail(sends)
  /\ UNCHANGED <<owner, windows, redirects, departures>>

\* handle_nick_change -> rename_query_buffers
NickChange(old, new) ==
  /\ Pass
  /\ owner[old] # NoOne /\ owner[new] = NoOne
  /\ owner' = [owner EXCEPT ![old] = NoOne, ![new] = owner[old]]
  /\ windows' = IF old \in windows THEN (windows \ {old}) \cup {new} ELSE windows
  /\ IF old \in windows \/ HasOutgoingInFlight(old)
       THEN RekeyBufferState(old, new)
       ELSE UNCHANGED <<redirects, inFlight>>
  /\ UNCHANGED <<departures, sends, sent>>

\* handle_quit, note_query_departure
Quit(n) ==
  /\ Pass
  /\ owner[n] # NoOne
  /\ owner' = [owner EXCEPT ![n] = NoOne]
  /\ departures' = IF ~HasOutgoingInFlight(n) THEN departures
                   ELSE [m \in Nicks |-> IF m = n THEN clock
                                         ELSE IF Age(departures[m]) < TTL THEN departures[m]
                                         ELSE Never]
  /\ sends' = [i \in 1..Len(sends) |->
                 [sends[i] EXCEPT !.left = @ \/ sends[i].for = owner[n]]]
  /\ UNCHANGED <<windows, redirects, inFlight, sent>>

\* Somebody who is not on the network takes a free nick.
Join(p, n) ==
  /\ Pass
  /\ owner[n] = NoOne /\ \A m \in Nicks : owner[m] # p
  /\ owner' = [owner EXCEPT ![n] = p]
  /\ UNCHANGED <<windows, redirects, departures, inFlight, sends, sent>>

\* remove_buffer leaves the markers and the eras alone.
CloseWindow(n) ==
  /\ Pass
  /\ n \in windows /\ windows' = windows \ {n}
  /\ UNCHANGED <<owner, redirects, departures, inFlight, sends, sent>>

OpenWindow(n) ==
  /\ Pass
  /\ n \notin windows /\ windows' = windows \cup {n}
  /\ UNCHANGED <<owner, redirects, departures, inFlight, sends, sent>>

Elapse == Pass /\ UNCHANGED <<owner, windows, redirects, departures, inFlight, sends, sent>>

Next ==
  \/ \E n \in Nicks : Submit(n) \/ Quit(n) \/ CloseWindow(n) \/ OpenWindow(n)
  \/ \E m, n \in Nicks : NickChange(m, n)
  \/ \E p \in Persons, n \in Nicks : Join(p, n)
  \/ Deliver
  \/ Elapse

Spec == Init /\ [][Next]_vars

-----------------------------------------------------------------------------
Era == [target : Nicks, started : Times \cup {Never}, ended : Times]

TypeOK ==
  /\ owner \in [Nicks -> Persons \cup {NoOne}]
  /\ windows \subseteq Nicks
  /\ redirects \in [Nicks -> Seq(Era)]
  /\ \A n \in Nicks : Len(redirects[n]) <= MaxEras
  /\ departures \in [Nicks -> Times \cup {Never}]
  /\ inFlight \in [Nicks -> Seq(Times)]
  /\ sends \in Seq([nick : Nicks, at : Times, for : Persons, left : BOOLEAN])
  /\ sent \subseteq [for : Persons, reached : Persons \cup {NoOne}, left : BOOLEAN]
  /\ clock \in Times

\* redirect_outgoing_deliver: a private message reaches the person it was
\* written to or nobody, however the nicks move while it is translated.
NeverToAStranger == \A s \in sent : s.reached \in {s.for, NoOne}

\* The same for a person who only changes nick.
RenamesFollowed == \A s \in sent : ~s.left => s.reached = s.for

\* The eras of one id do not overlap: each instant belongs to one occupant.
ErasDisjoint ==
  \A n \in Nicks : \A i, j \in 1..Len(redirects[n]) :
    i < j => redirects[n][i].ended <= redirects[n][j].started
=============================================================================
