---------------------------- MODULE MonitorProofs ----------------------------
(***************************************************************************)
(* The MONITOR manager believes a list only while it is the server's,      *)
(* wants what the user asked for, shows nobody other than they are, and    *)
(* keeps to its limit, for any number of nicks, targets, commands and      *)
(* disturbances.                                                           *)
(***************************************************************************)
EXTENDS Monitor, FiniteSetTheorems, TLAPS

F == INSTANCE FoldFacts WITH Op <- Adopting

-----------------------------------------------------------------------------
(* Types.                                                                  *)

MaybeLists == (SUBSET Nicks) \cup {NoList}
Snapshots == [open : BOOLEAN, names : SUBSET Nicks, valid : BOOLEAN, expired : BOOLEAN]

Managers ==
  [support : BOOLEAN, blocked : BOOLEAN, wanted : MaybeLists, confirmed : MaybeLists,
   queued : Seq(Changes), submitted : Lines \cup {NoChange}, snapshot : Snapshots,
   retry : BOOLEAN, showList : BOOLEAN, askStatus : BOOLEAN,
   peers : [Nicks -> {"unknown", "online", "offline"}]]

Answers ==
  [kind : {"offered", "withdrawn", "unavailable", "online", "offline", "list", "end", "full"},
   names : SUBSET Nicks]

\* A manager keeps to the limit, and has no queue once it has a list.
Proper(m) ==
  /\ m \in Managers
  /\ Cardinality(m.snapshot.names) <= MaxTargets
  /\ m.wanted # NoList => m.queued = <<>> /\ Cardinality(m.wanted) <= MaxTargets

Typed ==
  /\ {created, connected, advertised, writer} \subseteq BOOLEAN
  /\ Proper(mon)
  /\ toServer \in Seq(Lines) /\ toClient \in Seq(Answers)
  /\ {serverList, refused, online} \subseteq SUBSET Nicks

-----------------------------------------------------------------------------
(* What is on its way: `up` to the server, `down` to the client.           *)

Asks(up)       == \E i \in 1..Len(up) : up[i].op = "L"
Edits(up)      == \E i \in 1..Len(up) : up[i].op \in {"+", "-"}
Listings(down) == \E i \in 1..Len(down) : down[i].kind \in {"list", "end"}
Named(down)    == UNION {down[i].names : i \in {j \in 1..Len(down) : down[j].kind = "list"}}

\* Support that is offered again is news, and nothing asked for before is
\* still on its way.
OffersFresh(up, down, adv) ==
  \A i \in 1..Len(down) : down[i].kind = "offered" =>
    /\ ~adv /\ ~Asks(up) /\ ~Listings(down)
    /\ \A j \in 1..Len(down) : down[j].kind = "offered" => j = i

Offline == ~connected => ~advertised /\ toServer = <<>> /\ toClient = <<>>

\* Without support nothing is believed or awaited.
Unsupported(m) == ~m.support => ~m.snapshot.open /\ m.confirmed = NoList

\* A listing nobody waits for keeps the manager from asking for another.
Abandoned(m, up, down, adv) ==
  adv /\ ~m.snapshot.open /\ (Asks(up) \/ Listings(down)) => m.support /\ m.blocked

\* A listing that is awaited is the last thing that was asked for; what has
\* come of it and what is on its way are the server's list.
Awaited(m, up, down, list) ==
  m.snapshot.open =>
    /\ \A i \in 1..Len(up) : up[i].op = "L" =>
         i = Len(up) /\ ~Listings(down) /\ m.snapshot.names = {}
    /\ \A i \in 1..Len(down) : down[i].kind = "end" =>
         /\ up = <<>>
         /\ \A j \in 1..Len(down) : down[j].kind = "list" => j < i
         /\ \A j \in 1..Len(down) : down[j].kind = "end" => j = i
         /\ m.snapshot.valid /\ ~m.snapshot.expired =>
              m.snapshot.names \cup Named(down) = list
    /\ Listings(down) => \E i \in 1..Len(down) : down[i].kind = "end"

\* A list that is believed is the server's, and nothing on its way changes it.
Believed(m, up, list) == m.confirmed # NoList => m.confirmed = list /\ ~Edits(up)

InStep(m, up, down, list, adv) ==
  /\ Unsupported(m) /\ Abandoned(m, up, down, adv)
  /\ Awaited(m, up, down, list) /\ Believed(m, up, list)

ListInv ==
  /\ Typed
  /\ ~created => mon = Fresh
  /\ OffersFresh(toServer, toClient, advertised) /\ Offline
  /\ InStep(mon, toServer, toClient, serverList, advertised)

-----------------------------------------------------------------------------
(* Every operator of the manager keeps to its type and to the limit.       *)

\* Sets of nicks are finite; leaving some out does not make a set larger.
LEMMA Smaller ==
  ASSUME NEW A \in SUBSET Nicks, NEW B \in SUBSET A
  PROVE  Cardinality(A) \in Nat /\ Cardinality(B) <= Cardinality(A)
<1>1. IsFiniteSet(A)
  BY NicksAssumption, FS_Subset
<1> QED BY <1>1, FS_Subset, FS_CardinalityType

\* NoList is not a list of nicks, and the empty list is short enough.
LEMMA NoListFacts ==
  /\ \A N \in SUBSET Nicks : N # NoList
  /\ MaxTargets \in Nat /\ MaxTargets > 0 /\ Cardinality({}) = 0
BY NicksAssumption, LimitsAssumption, FS_EmptySet

LEMMA TypeFacts ==
  /\ NoSnapshot \in Snapshots /\ NoList \in MaybeLists /\ SUBSET Nicks \subseteq MaybeLists
  /\ Unknown \in [Nicks -> {"unknown", "online", "offline"}]
  /\ Cardinality(NoSnapshot.names) = 0 /\ ~NoSnapshot.open
BY NoListFacts DEF NoSnapshot, Snapshots, MaybeLists, Unknown

LEMMA FreshProper == Proper(Fresh)
BY NoListFacts, TypeFacts DEF Proper, Managers, Fresh

LEMMA SetSupportedProper ==
  ASSUME NEW m, Proper(m), NEW s \in BOOLEAN
  PROVE  Proper(SetSupported(m, s))
<1> DEFINE r == SetSupported(m, s)
<1>1. m \in Managers
  BY DEF Proper
<1>2. r \in Managers
  BY <1>1, TypeFacts DEF Managers, SetSupported
<1>3. r.wanted = m.wanted /\ r.queued = m.queued /\ r.snapshot \in {m.snapshot, NoSnapshot}
  BY <1>1 DEF Managers, SetSupported
<1> QED BY <1>2, <1>3, NoListFacts, TypeFacts DEF Proper

LEMMA ResetProper ==
  ASSUME NEW m, Proper(m)
  PROVE  Proper(ResetTransport(m))
<1> DEFINE r == ResetTransport(m)
<1>1. m \in Managers
  BY DEF Proper
<1>2. r \in Managers
  BY <1>1, TypeFacts DEF Managers, ResetTransport
<1>3. r.wanted = m.wanted /\ r.queued = m.queued /\ r.snapshot = NoSnapshot
  BY <1>1 DEF Managers, ResetTransport
<1> QED BY <1>2, <1>3, NoListFacts, TypeFacts DEF Proper

\* Applying a change keeps a list within the limit.
LEMMA AppliedKeeps ==
  ASSUME NEW list \in SUBSET Nicks, Cardinality(list) <= MaxTargets, NEW change \in Changes
  PROVE  /\ Applied(list, change) \in SUBSET Nicks
         /\ Cardinality(Applied(list, change)) <= MaxTargets
<1>1. change.op \in {"add", "remove", "clear"} /\ change.names \in SUBSET Nicks
  BY DEF Changes
<1>2. list \ change.names \in SUBSET list /\ list \cup change.names \in SUBSET Nicks
  BY <1>1
<1>3. Cardinality(list \ change.names) <= MaxTargets
  BY <1>2, Smaller, NoListFacts
<1>4. Cardinality(list \cup change.names) \in Nat
  BY <1>2, Smaller
<1> QED BY <1>1, <1>2, <1>3, <1>4, NoListFacts DEF Applied

\* Whatever is queued, what is adopted keeps within the limit.
LEMMA AdoptionKeeps ==
  ASSUME NEW m, m.queued \in Seq(Changes),
         NEW names \in SUBSET Nicks, Cardinality(names) <= MaxTargets
  PROVE  /\ Adoption(m, names).list \in SUBSET Nicks
         /\ Cardinality(Adoption(m, names).list) <= MaxTargets
         /\ Adoption(m, names).over \in SUBSET Nicks
<1> DEFINE base == [list |-> names, over |-> {}]
           G == {a \in [list : SUBSET Nicks, over : SUBSET Nicks] :
                   Cardinality(a.list) <= MaxTargets}
<1>1. Adoption(m, names) = F!Folded(base, m.queued)
  BY DEF Adoption, FoldLeft, MapThenFoldSet, Max, F!Folded, F!Iter, F!Greatest
<1>2. base \in G
  OBVIOUS
<1>3. ASSUME NEW a \in G, NEW i \in 1..Len(m.queued)
      PROVE  Adopting(a, m.queued[i]) \in G
  <2>1. m.queued[i] \in Changes /\ m.queued[i].names \in SUBSET Nicks
    BY DEF Changes
  <2>2. /\ Applied(a.list, m.queued[i]) \in SUBSET Nicks
        /\ Cardinality(Applied(a.list, m.queued[i])) <= MaxTargets
    BY <2>1, AppliedKeeps
  <2> QED BY <2>1, <2>2 DEF Adopting
<1>4. F!Folded(base, m.queued) \in G
  <2> HIDE DEF G, base
  <2> QED BY <1>2, <1>3, F!FoldKeeps
<1> QED BY <1>1, <1>4

\* What is adopted, and what is turned down, are nicks.
LEMMA AdoptionNicks ==
  ASSUME NEW m, m.queued \in Seq(Changes), NEW names \in SUBSET Nicks
  PROVE  Adoption(m, names).list \in SUBSET Nicks /\ Adoption(m, names).over \in SUBSET Nicks
<1> DEFINE base == [list |-> names, over |-> {}]
           G == [list : SUBSET Nicks, over : SUBSET Nicks]
<1>1. Adoption(m, names) = F!Folded(base, m.queued)
  BY DEF Adoption, FoldLeft, MapThenFoldSet, Max, F!Folded, F!Iter, F!Greatest
<1>2. base \in G
  OBVIOUS
<1>3. ASSUME NEW a \in G, NEW i \in 1..Len(m.queued)
      PROVE  Adopting(a, m.queued[i]) \in G
  <2>1. /\ m.queued[i].op \in {"add", "remove", "clear"}
        /\ m.queued[i].names \in SUBSET Nicks
    BY DEF Changes
  <2>2. Applied(a.list, m.queued[i]) \in SUBSET Nicks
    BY <2>1 DEF Applied
  <2> QED BY <2>1, <2>2 DEF Adopting
<1>4. F!Folded(base, m.queued) \in G
  <2> HIDE DEF G, base
  <2> QED BY <1>2, <1>3, F!FoldKeeps
<1> QED BY <1>1, <1>4

LEMMA ChangeProper ==
  ASSUME NEW m, Proper(m), NEW change \in Changes
  PROVE  Proper(Change(m, change))
<1>1. CASE m.wanted # NoList
  <2>1. m.wanted \in SUBSET Nicks /\ Cardinality(m.wanted) <= MaxTargets
    <3>1. m.wanted \in MaybeLists
      BY DEF Proper, Managers
    <3> QED BY <1>1, <3>1 DEF Proper, MaybeLists
  <2>2. /\ Applied(m.wanted, change) \in SUBSET Nicks
        /\ Cardinality(Applied(m.wanted, change)) <= MaxTargets
    BY <2>1, AppliedKeeps
  <2> QED BY <1>1, <2>2, TypeFacts DEF Proper, Managers, Change
<1>2. CASE m.wanted = NoList
  <2>1. m.queued \in Seq(Changes)
    BY DEF Proper, Managers
  <2>2. Append(m.queued, change) \in Seq(Changes)
    BY <2>1
  <2> QED BY <1>2, <2>2 DEF Proper, Managers, Change
<1> QED BY <1>1, <1>2
\* The fields of a manager.
LEMMA Fields ==
  ASSUME NEW m, Proper(m)
  PROVE  /\ m.wanted \in MaybeLists /\ m.confirmed \in MaybeLists /\ m.queued \in Seq(Changes)
         /\ m.submitted \in Lines \cup {NoChange} /\ m.snapshot \in Snapshots
         /\ m.snapshot.names \in SUBSET Nicks /\ m.support \in BOOLEAN
BY DEF Proper, Managers, Snapshots

LEMMA NextCommandType ==
  ASSUME NEW m, Proper(m), NEW waited \in BOOLEAN
  PROVE  NextCommand(m, waited) \in Lines \cup {NoChange}
<1>1. \A names \in SUBSET Nicks : Packed(names) \in SUBSET Nicks
  BY DEF Packed
<1>2. CASE m.confirmed = NoList \/ m.wanted = NoList
  BY <1>2 DEF NextCommand, Lines
<1>3. CASE ~(m.confirmed = NoList \/ m.wanted = NoList)
  <2>1. m.confirmed \ m.wanted \in SUBSET Nicks /\ m.wanted \ m.confirmed \in SUBSET Nicks
    BY <1>3, Fields DEF MaybeLists
  <2>2. /\ Packed(m.confirmed \ m.wanted) \in SUBSET Nicks
        /\ Packed(m.wanted \ m.confirmed) \in SUBSET Nicks
    BY <2>1, <1>1
  <2> QED BY <2>2 DEF NextCommand, Lines
<1> QED BY <1>2, <1>3

LEMMA SentProper ==
  ASSUME NEW m, Proper(m), NEW command \in Lines, NEW ok \in BOOLEAN
  PROVE  Proper(Sent(m, command, ok))
<1> DEFINE r == Sent(m, command, ok)
           opened == [NoSnapshot EXCEPT !.open = TRUE]
<1>1. m \in Managers
  BY DEF Proper
<1>2. opened \in Snapshots /\ Cardinality(opened.names) = 0
  BY NoListFacts DEF NoSnapshot, Snapshots
<1>3. command.op \in {"L", "S", "+", "-"}
  BY DEF Lines
<1> HIDE DEF opened
<1>4. r \in Managers
  BY <1>1, <1>2, <1>3, TypeFacts DEF Managers, Sent, opened
<1>5. r.wanted = m.wanted /\ r.queued = m.queued /\ r.snapshot \in {m.snapshot, opened}
  BY <1>1, <1>3 DEF Managers, Sent, opened
<1> QED BY <1>4, <1>5, <1>2, NoListFacts DEF Proper

\* A manager that has adopted a list, whether it just has or long ago.
LEMMA VerifyProper ==
  ASSUME NEW m, Proper(m), m.wanted # NoList, NEW names
  PROVE  Proper(VerifyChange(m, names)) /\ VerifyChange(m, names).wanted # NoList
<1> DEFINE r == VerifyChange(m, names)
<1>1. m \in Managers
  BY DEF Proper
<1>2. m.wanted \in SUBSET Nicks /\ Cardinality(m.wanted) <= MaxTargets
  BY Fields DEF Proper, MaybeLists
<1>3. /\ r.wanted \in SUBSET m.wanted
      /\ r.queued = m.queued /\ r.snapshot = m.snapshot
  BY <1>1 DEF Managers, VerifyChange
<1>4. r.wanted \in SUBSET Nicks /\ Cardinality(r.wanted) <= MaxTargets /\ r.wanted # NoList
  BY <1>2, <1>3, Smaller, NoListFacts
<1>5. r \in Managers
  <2>1. r = [m EXCEPT !.submitted = NoChange, !.wanted = r.wanted, !.blocked = r.blocked]
    BY <1>1 DEF VerifyChange, Managers
  <2>2. r.blocked \in BOOLEAN
    BY <1>1 DEF VerifyChange, Managers
  <2> HIDE DEF r
  <2> QED BY <1>1, <1>4, <2>1, <2>2, TypeFacts DEF Managers
<1> QED BY <1>3, <1>4, <1>5 DEF Proper

LEMMA AdoptedProper ==
  ASSUME NEW m, Proper(m)
  PROVE  LET r == Adopted(m, m.snapshot.names)
         IN  Proper(r) /\ r.wanted # NoList
<1> DEFINE r == Adopted(m, m.snapshot.names)
           list == Adoption(m, m.snapshot.names).list
<1>1. m \in Managers
  BY DEF Proper
<1>2. list \in SUBSET Nicks /\ Cardinality(list) <= MaxTargets
  BY AdoptionKeeps, Fields DEF Proper
<1>3. r.wanted = list /\ r.queued = <<>> /\ r.snapshot = m.snapshot
  BY <1>1 DEF Managers, Adopted
<1>4. r \in Managers
  <2>1. r = [m EXCEPT !.wanted = list, !.queued = <<>>] /\ <<>> \in Seq(Changes)
    BY DEF Adopted
  <2>2. list \in MaybeLists
    BY <1>2 DEF MaybeLists
  <2> HIDE DEF list, r
  <2> QED BY <1>1, <2>1, <2>2 DEF Managers
<1> QED BY <1>2, <1>3, <1>4, NoListFacts DEF Proper

LEMMA EndOfListProper ==
  ASSUME NEW m, Proper(m)
  PROVE  Proper(EndOfList(m))
<1> DEFINE names == m.snapshot.names
           base == IF m.wanted = NoList THEN Adopted(m, names) ELSE m
           checked == VerifyChange(base, names)
           peers == [n \in Nicks |-> IF n \in checked.wanted THEN checked.peers[n] ELSE "unknown"]
           given == [m EXCEPT !.snapshot = NoSnapshot, !.confirmed = NoList, !.blocked = TRUE]
           taken == [checked EXCEPT !.snapshot = NoSnapshot, !.confirmed = names,
                                    !.showList = FALSE, !.peers = peers]
<1>1. Proper(checked)
  BY AdoptedProper, VerifyProper
<1>2. names \in SUBSET Nicks
  BY Fields
<1>3. EndOfList(m) \in {m, given, taken}
  BY DEF EndOfList
<1>4. Proper(given)
  <2>1. m \in Managers
    BY DEF Proper
  <2>2. given \in Managers
    BY <2>1, TypeFacts DEF Managers
  <2>3. given.wanted = m.wanted /\ given.queued = m.queued /\ given.snapshot = NoSnapshot
    BY <2>1 DEF Managers
  <2> QED BY <2>2, <2>3, NoListFacts, TypeFacts DEF Proper
<1>5. Proper(taken)
  <2>1. checked \in Managers
    BY <1>1 DEF Proper
  <2> HIDE DEF checked, names
  <2>2. checked.peers \in [Nicks -> {"unknown", "online", "offline"}]
    BY <2>1 DEF Managers
  <2>3. peers \in [Nicks -> {"unknown", "online", "offline"}]
    BY <2>2
  <2> HIDE DEF peers
  <2>4. taken \in Managers
    BY <1>2, <2>1, <2>3, TypeFacts DEF Managers
  <2>5. /\ taken.wanted = checked.wanted /\ taken.queued = checked.queued
        /\ taken.snapshot = NoSnapshot
    BY <2>1 DEF Managers
  <2> QED BY <1>1, <2>4, <2>5, NoListFacts, TypeFacts DEF Proper
<1> QED BY <1>3, <1>4, <1>5
LEMMA ListedProper ==
  ASSUME NEW m, Proper(m), NEW names \in SUBSET Nicks
  PROVE  Proper(Listed(m, names))
<1> DEFINE all == m.snapshot.names \cup names
           unused == [m EXCEPT !.snapshot.valid = FALSE]
           taken == [m EXCEPT !.snapshot.names = @ \cup names]
<1>1. m \in Managers /\ m.snapshot \in Snapshots
  BY Fields DEF Proper
<1>2. all \in SUBSET Nicks /\ Cardinality(all) \in Nat
  BY Fields, Smaller
<1>3. /\ Listed(m, names) \in {m, unused, taken}
      /\ Listed(m, names) = taken => Cardinality(all) <= MaxTargets \/ taken \in {m, unused}
  BY <1>2, NoListFacts DEF Listed
<1>4. Proper(unused)
  <2>1. unused \in Managers
    BY <1>1 DEF Managers, Snapshots
  <2>2. /\ unused.wanted = m.wanted /\ unused.queued = m.queued
        /\ unused.snapshot.names = m.snapshot.names
    BY <1>1 DEF Managers, Snapshots
  <2> QED BY <2>1, <2>2 DEF Proper
<1>5. ASSUME Cardinality(all) <= MaxTargets PROVE Proper(taken)
  <2>1. taken \in Managers
    BY <1>1, <1>2 DEF Managers, Snapshots
  <2>2. /\ taken.wanted = m.wanted /\ taken.queued = m.queued
        /\ taken.snapshot.names = all
    BY <1>1 DEF Managers, Snapshots
  <2> QED BY <1>5, <2>1, <2>2 DEF Proper
<1> QED BY <1>3, <1>4, <1>5

\* Only the presence of a manager's nicks differs, or it has fewer targets.
LEMMA NarrowedProper ==
  ASSUME NEW m, Proper(m), NEW r \in Managers, r.queued = m.queued, r.snapshot = m.snapshot,
         \/ r.wanted = m.wanted
         \/ m.wanted # NoList /\ r.wanted \in SUBSET m.wanted
  PROVE  Proper(r)
<1>1. ASSUME m.wanted # NoList, r.wanted \in SUBSET m.wanted
      PROVE  m.wanted \in SUBSET Nicks /\ Cardinality(r.wanted) <= MaxTargets
  <2>1. m.wanted \in SUBSET Nicks /\ Cardinality(m.wanted) <= MaxTargets
    BY <1>1, Fields DEF MaybeLists, Proper
  <2>2. Cardinality(m.wanted) \in Nat /\ Cardinality(r.wanted) <= Cardinality(m.wanted)
    BY <2>1, <1>1, Smaller
  <2>3. Cardinality(r.wanted) \in Nat
    BY <2>1, <1>1, Smaller
  <2> QED BY <2>1, <2>2, <2>3, NoListFacts
<1> QED BY <1>1, NoListFacts DEF Proper

LEMMA ReceiveProper ==
  ASSUME NEW m, Proper(m), NEW line \in Answers
  PROVE  Proper(Receive(m, line))
<1> DEFINE closed == [m EXCEPT !.blocked = TRUE, !.snapshot = NoSnapshot, !.confirmed = NoList]
<1>1. m \in Managers /\ line.names \in SUBSET Nicks /\ m.wanted \in MaybeLists
      /\ m.peers \in [Nicks -> {"unknown", "online", "offline"}]
  BY Fields DEF Proper, Answers, Managers
<1>2. Proper(closed)
  <2>1. closed \in Managers
    BY <1>1, TypeFacts DEF Managers
  <2>2. closed.wanted = m.wanted /\ closed.queued = m.queued /\ closed.snapshot = NoSnapshot
    BY <1>1 DEF Managers
  <2> QED BY <2>1, <2>2, NoListFacts, TypeFacts DEF Proper
<1>3. ASSUME line.kind \in {"online", "offline"} PROVE Proper(ReceiveStatus(m, line))
  <2> DEFINE peers == [n \in Nicks |-> IF n \in line.names \cap m.wanted THEN line.kind ELSE m.peers[n]]
             r == [m EXCEPT !.peers = peers]
  <2>1. peers \in [Nicks -> {"unknown", "online", "offline"}]
    BY <1>1, <1>3
  <2> HIDE DEF peers
  <2>2. r \in Managers /\ r.wanted = m.wanted /\ r.queued = m.queued /\ r.snapshot = m.snapshot
    BY <2>1, <1>1 DEF Managers
  <2> HIDE DEF r
  <2>3. Proper(r)
    BY <2>2, NarrowedProper
  <2>4. ReceiveStatus(m, line) \in {m, r}
    BY DEF ReceiveStatus, r, peers
  <2> QED BY <2>3, <2>4
<1>4. ASSUME line.kind = "full" PROVE Proper(ReceiveFull(m, line))
  <2> DEFINE peers == [n \in Nicks |-> IF n \in line.names THEN "unknown" ELSE m.peers[n]]
             wanted == IF m.wanted = NoList THEN m.wanted ELSE m.wanted \ line.names
             r == [m EXCEPT !.wanted = wanted, !.peers = peers]
  <2>1. peers \in [Nicks -> {"unknown", "online", "offline"}]
    BY <1>1
  <2>2. wanted \in MaybeLists /\ (m.wanted # NoList => wanted \in SUBSET m.wanted)
        /\ (m.wanted = NoList => wanted = m.wanted)
    BY <1>1 DEF MaybeLists
  <2> HIDE DEF peers, wanted
  <2>3. r \in Managers /\ r.wanted = wanted /\ r.queued = m.queued /\ r.snapshot = m.snapshot
    BY <2>1, <2>2, <1>1 DEF Managers
  <2> HIDE DEF r
  <2>4. Proper(r)
    BY <2>2, <2>3, NarrowedProper
  <2>5. ReceiveFull(m, line) = r
    BY DEF ReceiveFull, r, peers, wanted
  <2> QED BY <2>4, <2>5
<1>5. Proper(Listed(m, line.names)) /\ Proper(EndOfList(m))
  BY <1>1, ListedProper, EndOfListProper
<1> HIDE DEF closed
<1> QED BY <1>2, <1>3, <1>4, <1>5 DEF Receive, Answers, closed
-----------------------------------------------------------------------------
(* The client's side keeps in step.                                        *)

\* What InStep looks at of a manager.
Outlook(m) == <<m.support, m.blocked, m.snapshot, m.confirmed>>

LEMMA SameOutlook ==
  ASSUME NEW m, NEW r, Outlook(r) = Outlook(m),
         NEW up, NEW down, NEW list, NEW adv, InStep(m, up, down, list, adv)
  PROVE  InStep(r, up, down, list, adv)
BY DEF Outlook, InStep, Unsupported, Abandoned, Awaited, Believed

\* ensure_monitor: support that is back finds nothing left of an old listing.
LEMMA SupportInStep ==
  ASSUME NEW m, Proper(m), NEW up, NEW down, NEW list, NEW adv \in BOOLEAN,
         InStep(m, up, down, list, adv)
  PROVE  /\ InStep(SetSupported(m, adv), up, down, list, adv)
         /\ SetSupported(m, adv).support = adv
<1> DEFINE r == SetSupported(m, adv)
<1>1. m \in Managers
  BY DEF Proper
<1>2. r = m \/ (r.support = adv /\ r.snapshot = NoSnapshot /\ r.confirmed = NoList)
  BY <1>1 DEF SetSupported, Managers
<1>3. r.support = adv
  BY <1>1 DEF SetSupported, Managers
<1>4. CASE r # m
  <2>1. m.support = ~adv
    BY <1>1, <1>4 DEF SetSupported, Managers
  <2>2. adv => ~(Asks(up) \/ Listings(down))
    BY <2>1 DEF InStep, Unsupported, Abandoned
  <2>3. ~NoSnapshot.open
    BY TypeFacts
  <2> HIDE DEF r
  <2>4. InStep(r, up, down, list, adv)
    BY <1>2, <1>3, <1>4, <2>2, <2>3 DEF InStep, Unsupported, Abandoned, Awaited, Believed
  <2> QED BY <2>4, <1>3 DEF r
<1> QED BY <1>3, <1>4

\* A transport that starts afresh.
LEMMA ResetInStep ==
  ASSUME NEW m, Proper(m), NEW down, ~Listings(down), NEW list, NEW adv
  PROVE  InStep(ResetTransport(m), <<>>, down, list, adv) /\ InStep(Fresh, <<>>, down, list, adv)
<1>1. m \in Managers
  BY DEF Proper
<1>2. ResetTransport(m).snapshot = NoSnapshot /\ ResetTransport(m).confirmed = NoList
  BY <1>1 DEF ResetTransport, Managers
<1>3. Fresh.snapshot = NoSnapshot /\ Fresh.confirmed = NoList
  BY DEF Fresh
<1>4. ~Asks(<<>>)
  BY DEF Asks
<1> QED BY <1>2, <1>3, <1>4, TypeFacts DEF InStep, Unsupported, Abandoned, Awaited, Believed

\* What was asked for before, and one line more.
LEMMA Appended ==
  ASSUME NEW up \in Seq(Lines), NEW command \in Lines
  PROVE  LET more == Append(up, command)
         IN  /\ Len(more) = Len(up) + 1 /\ more[Len(up) + 1] = command
             /\ \A i \in 1..Len(up) : more[i] = up[i]
             /\ Asks(more) <=> Asks(up) \/ command.op = "L"
             /\ Edits(more) <=> Edits(up) \/ command.op \in {"+", "-"}
<1> DEFINE more == Append(up, command)
<1>1. /\ Len(more) = Len(up) + 1 /\ Len(up) \in Nat /\ more[Len(up) + 1] = command
      /\ \A i \in 1..Len(up) : more[i] = up[i]
  OBVIOUS
<1> HIDE DEF more
<1>2. \A i \in 1..Len(more) : i \in 1..Len(up) \/ i = Len(up) + 1
  BY <1>1
<1>3. Len(up) + 1 \in 1..Len(more) /\ 1..Len(up) \subseteq 1..Len(more)
  BY <1>1
<1>4. Asks(more) <=> Asks(up) \/ command.op = "L"
  BY <1>1, <1>2, <1>3 DEF Asks
<1>5. Edits(more) <=> Edits(up) \/ command.op \in {"+", "-"}
  BY <1>1, <1>2, <1>3 DEF Edits
<1> QED BY <1>1, <1>4, <1>5 DEF more

\* A line is only sent while no listing is under way: then a listing asked
\* for is the last of the lines, and a change ends what was believed.
LEMMA SentInStep ==
  ASSUME NEW m, Proper(m), m.support, NEW up \in Seq(Lines), NEW down \in Seq(Answers),
         NEW list, InStep(m, up, down, list, TRUE), NEW waited \in BOOLEAN, NEW ok \in BOOLEAN,
         NextCommand(m, waited) # NoChange
  PROVE  LET r == Sent(m, NextCommand(m, waited), ok)
         IN  /\ r.support
             /\ InStep(r, IF ok THEN Append(up, NextCommand(m, waited)) ELSE up, down, list, TRUE)
<1> DEFINE command == NextCommand(m, waited)
           r == Sent(m, command, ok)
           more == Append(up, command)
           opened == [NoSnapshot EXCEPT !.open = TRUE]
<1>1. m \in Managers /\ command \in Lines
  BY NextCommandType DEF Proper
<1>2. ~m.blocked /\ ~m.snapshot.open
  BY DEF NextCommand
<1>3. ~Asks(up) /\ ~Listings(down)
  BY <1>2 DEF InStep, Abandoned
<1>4. command.op \in {"L", "S", "+", "-"}
  BY <1>1 DEF Lines
<1>5. opened.open /\ opened.names = {}
  BY DEF NoSnapshot
<1> HIDE DEF command, opened
<1>6. r.support /\ r.blocked = m.blocked
  BY <1>1, <1>4 DEF Managers, Sent
<1>7. CASE ~ok
  <2>1. Outlook(r) = Outlook(m)
    BY <1>1, <1>7 DEF Outlook, Sent, Managers
  <2> QED BY <1>6, <1>7, <2>1, SameOutlook DEF command
<1>8. CASE ok
  <2>1. /\ Len(more) = Len(up) + 1 /\ \A i \in 1..Len(up) : more[i] = up[i]
        /\ Asks(more) <=> Asks(up) \/ command.op = "L"
        /\ Edits(more) <=> Edits(up) \/ command.op \in {"+", "-"}
    BY <1>1, Appended
  <2>2. \A i \in 1..Len(more) : more[i].op = "L" => i = Len(more)
    <3>1. \A i \in 1..Len(more) : i \in 1..Len(up) \/ i = Len(more)
      BY <2>1
    <3> QED BY <3>1, <2>1, <1>3 DEF Asks
  <2>3. \A i \in 1..Len(down) : down[i].kind \notin {"list", "end"}
    BY <1>3 DEF Listings
  <2> HIDE DEF more
  <2>4. InStep(r, more, down, list, TRUE)
    <3>1. CASE command.op = "L"
      <4>1. r.snapshot = opened /\ r.confirmed = m.confirmed
        BY <1>1, <1>8, <3>1 DEF Managers, Sent, opened
      <4>2. Awaited(r, more, down, list)
        BY <4>1, <1>3, <1>5, <2>2, <2>3 DEF Awaited
      <4>3. Believed(r, more, list)
        BY <4>1, <2>1, <3>1 DEF InStep, Believed
      <4> QED BY <4>1, <4>2, <4>3, <1>5, <1>6 DEF InStep, Unsupported, Abandoned
    <3>2. CASE command.op = "S"
      <4>1. r.snapshot = m.snapshot /\ r.confirmed = m.confirmed
        BY <1>1, <1>8, <3>2 DEF Managers, Sent
      <4> QED BY <4>1, <2>1, <3>2, <1>2, <1>3, <1>6
              DEF InStep, Unsupported, Abandoned, Awaited, Believed
    <3>3. CASE command.op \in {"+", "-"}
      <4>1. r.snapshot = m.snapshot /\ r.confirmed = NoList
        BY <1>1, <1>8, <3>3 DEF Managers, Sent
      <4> QED BY <4>1, <2>1, <3>3, <1>2, <1>3, <1>6
              DEF InStep, Unsupported, Abandoned, Awaited, Believed
    <3> QED BY <1>4, <3>1, <3>2, <3>3
  <2> QED BY <1>6, <1>8, <2>4 DEF command, more
<1> QED BY <1>7, <1>8
LEMMA ConcatAppend ==
  ASSUME NEW up \in Seq(Lines), NEW lines \in Seq(Lines), NEW command \in Lines
  PROVE  up \o Append(lines, command) = Append(up \o lines, command)
<1> DEFINE a == up \o Append(lines, command)
           b == Append(up \o lines, command)
<1>1. a \in Seq(Lines) /\ b \in Seq(Lines) /\ Len(a) = Len(b)
  OBVIOUS
<1>2. \A i \in 1..Len(a) : a[i] = b[i]
  OBVIOUS
<1> HIDE DEF a, b
<1>3. a = b
  BY <1>1, <1>2
<1> QED BY <1>3 DEF a, b

\* A manager with the lines it has sent in this turn, in step.
Turn(t) ==
  /\ t[1].support /\ Proper(t[1]) /\ t[2] \in Seq(Lines)
  /\ InStep(t[1], toServer \o t[2], toClient, serverList, TRUE)

LEMMA SendOneInStep ==
  ASSUME Typed, NEW m, NEW lines, Turn(<<m, lines>>), NEW waited \in BOOLEAN
  PROVE  LET s == SendOne(<<m, lines>>, waited) IN s = <<s[1], s[2]>> /\ Turn(s)
<1> DEFINE command == NextCommand(m, waited)
           s == SendOne(<<m, lines>>, waited)
           sent == Sent(m, command, writer)
           more == IF writer THEN Append(lines, command) ELSE lines
<1>1. Proper(m) /\ m.support /\ lines \in Seq(Lines) /\ writer \in BOOLEAN
      /\ InStep(m, toServer \o lines, toClient, serverList, TRUE)
      /\ toServer \in Seq(Lines) /\ toClient \in Seq(Answers)
  BY DEF Turn, Typed
<1>2. CASE command = NoChange
  BY <1>2 DEF SendOne
<1>3. CASE command # NoChange
  <2>1. command \in Lines
    BY <1>1, <1>3, NextCommandType
  <2>2. s = <<sent, more>>
    BY <1>3 DEF SendOne
  <2>3. Proper(sent)
    BY <1>1, <2>1, SentProper
  <2>4. toServer \o lines \in Seq(Lines)
    BY <1>1
  <2>5. /\ sent.support
        /\ InStep(sent, IF writer THEN Append(toServer \o lines, command) ELSE toServer \o lines,
                  toClient, serverList, TRUE)
    BY <1>1, <1>3, <2>4, SentInStep
  <2> HIDE DEF command, sent
  <2>6. /\ more \in Seq(Lines)
        /\ toServer \o more = IF writer THEN Append(toServer \o lines, command)
                                        ELSE toServer \o lines
    <3>1. toServer \o Append(lines, command) = Append(toServer \o lines, command)
      BY <1>1, <2>1, ConcatAppend
    <3>2. Append(lines, command) \in Seq(Lines)
      BY <1>1, <2>1
    <3> QED BY <1>1, <3>1, <3>2
  <2>7. Turn(<<sent, more>>)
    BY <2>3, <2>5, <2>6 DEF Turn
  <2> HIDE DEF s
  <2>8. s = <<s[1], s[2]>> /\ Turn(s)
    BY <2>2, <2>7
  <2> QED BY <2>8 DEF s
<1> QED BY <1>2, <1>3

\* tick_monitors, called on a manager that knows whether there is support.
LEMMA TickedInStep ==
  ASSUME Typed, NEW m, Proper(m), m.support = advertised,
         InStep(m, toServer, toClient, serverList, advertised),
         NEW expires \in BOOLEAN, NEW waited \in BOOLEAN
  PROVE  LET t == Ticked(m, expires, waited)
         IN  /\ Proper(t[1]) /\ t[2] \in Seq(Lines)
             /\ InStep(t[1], toServer \o t[2], toClient, serverList, advertised)
             /\ t[2] = <<>> \/ (connected /\ advertised)
<1> DEFINE e == IF expires THEN [m EXCEPT !.snapshot.expired = TRUE] ELSE m
           once == SendOne(<<e, <<>>>>, waited)
           t == Ticked(m, expires, waited)
<1>1. m \in Managers /\ m.snapshot \in Snapshots
  BY Fields DEF Proper
<1>2. Proper(e) /\ e.support = m.support
  <2>1. e \in Managers
    BY <1>1 DEF Managers, Snapshots
  <2>2. /\ e.wanted = m.wanted /\ e.queued = m.queued /\ e.support = m.support
        /\ e.snapshot.names = m.snapshot.names
    BY <1>1 DEF Managers, Snapshots
  <2> HIDE DEF e
  <2> QED BY <2>1, <2>2 DEF Proper
<1>3. InStep(e, toServer, toClient, serverList, advertised)
  <2>1. /\ e.support = m.support /\ e.confirmed = m.confirmed /\ e.blocked = m.blocked
        /\ e.snapshot.open = m.snapshot.open /\ e.snapshot.names = m.snapshot.names
        /\ e.snapshot.valid = m.snapshot.valid
        /\ m.snapshot.expired => e.snapshot.expired
    BY <1>1 DEF Managers, Snapshots
  <2> HIDE DEF e
  <2> QED BY <2>1 DEF InStep, Unsupported, Abandoned, Awaited, Believed
<1>4. toServer \o <<>> = toServer /\ <<>> \in Seq(Lines) /\ toServer \in Seq(Lines)
  BY DEF Typed
<1> HIDE DEF e
<1>5. CASE ~connected \/ ~advertised
  <2>1. t = <<e, <<>>>>
    BY <1>5 DEF Ticked, e
  <2> QED BY <1>2, <1>3, <1>4, <2>1
<1>6. CASE connected /\ advertised
  <2>1. Turn(<<e, <<>>>>)
    BY <1>2, <1>3, <1>4, <1>6 DEF Turn
  <2>2. once = <<once[1], once[2]>> /\ Turn(once)
    BY <2>1, SendOneInStep
  <2> DEFINE twice == SendOne(once, waited)
  <2> HIDE DEF once
  <2>3. Turn(twice)
    <3>1. Turn(<<once[1], once[2]>>)
      BY <2>2
    <3>2. Turn(SendOne(<<once[1], once[2]>>, waited))
      BY <3>1, SendOneInStep
    <3> QED BY <3>2, <2>2
  <2>4. t \in {once, twice}
    BY <1>6 DEF Ticked, once, e
  <2> HIDE DEF twice, t
  <2>5. Turn(t)
    BY <2>2, <2>3, <2>4
  <2>6. Proper(t[1]) /\ t[2] \in Seq(Lines)
        /\ InStep(t[1], toServer \o t[2], toClient, serverList, advertised)
    BY <2>5, <1>6 DEF Turn
  <2> QED BY <1>6, <2>6 DEF t
<1> QED BY <1>5, <1>6 DEF Typed
\* What is left once the first answer is read.
LEMMA TailFacts ==
  ASSUME NEW down \in Seq(Answers), down # <<>>
  PROVE  LET rest == Tail(down)
         IN  /\ rest \in Seq(Answers) /\ Head(down) \in Answers /\ Head(down) = down[1]
             /\ Len(rest) + 1 = Len(down) /\ Len(rest) \in Nat
             /\ \A i \in 1..Len(rest) : rest[i] = down[i + 1] /\ i + 1 \in 1..Len(down)
             /\ \A i \in 1..Len(down) : i = 1 \/ (i - 1 \in 1..Len(rest) /\ down[i] = rest[i - 1])
             /\ Listings(down) <=> Listings(rest) \/ down[1].kind \in {"list", "end"}
             /\ Named(down) = Named(rest) \cup (IF down[1].kind = "list" THEN down[1].names ELSE {})
<1> DEFINE rest == Tail(down)
<1>1. /\ rest \in Seq(Answers) /\ Head(down) \in Answers /\ Head(down) = down[1]
      /\ Len(rest) + 1 = Len(down) /\ Len(rest) \in Nat
      /\ \A i \in 1..Len(rest) : rest[i] = down[i + 1]
  OBVIOUS
<1> HIDE DEF rest
<1>2. \A i \in 1..Len(rest) : rest[i] = down[i + 1] /\ i + 1 \in 1..Len(down)
  BY <1>1
<1>3. \A i \in 1..Len(down) : i = 1 \/ (i - 1 \in 1..Len(rest) /\ down[i] = rest[i - 1])
  BY <1>1
<1>4. 1 \in 1..Len(down)
  BY <1>1
<1>5. Listings(down) <=> Listings(rest) \/ down[1].kind \in {"list", "end"}
  BY <1>2, <1>3, <1>4 DEF Listings
<1>6. Named(down) = Named(rest) \cup (IF down[1].kind = "list" THEN down[1].names ELSE {})
  <2>1. ASSUME NEW n \in Named(down)
        PROVE  n \in Named(rest) \/ (down[1].kind = "list" /\ n \in down[1].names)
    <3>1. PICK i \in 1..Len(down) : down[i].kind = "list" /\ n \in down[i].names
      BY <2>1 DEF Named
    <3>2. CASE i = 1
      BY <3>1, <3>2
    <3>3. CASE i # 1
      <4>1. i - 1 \in 1..Len(rest) /\ down[i] = rest[i - 1]
        BY <1>3, <3>3
      <4> QED BY <3>1, <4>1 DEF Named
    <3> QED BY <3>2, <3>3
  <2>2. ASSUME NEW n \in Named(rest) PROVE n \in Named(down)
    <3>1. PICK i \in 1..Len(rest) : rest[i].kind = "list" /\ n \in rest[i].names
      BY <2>2 DEF Named
    <3>2. rest[i] = down[i + 1] /\ i + 1 \in 1..Len(down)
      BY <1>2
    <3> QED BY <3>1, <3>2 DEF Named
  <2>3. down[1].kind = "list" => down[1].names \subseteq Named(down)
    BY <1>4 DEF Named
  <2> QED BY <2>1, <2>2, <2>3
<1> QED BY <1>1, <1>2, <1>3, <1>5, <1>6 DEF rest

\* An answer that is none of a listing's, or that nobody waits for, changes
\* nothing of the rest.
LEMMA PassedInStep ==
  ASSUME NEW m, NEW up, NEW down \in Seq(Answers), down # <<>>, NEW list,
         NEW adv \in BOOLEAN, NEW adv2 \in BOOLEAN, adv2 => adv,
         InStep(m, up, down, list, adv),
         down[1].kind \notin {"list", "end"} \/ ~m.snapshot.open
  PROVE  InStep(m, up, Tail(down), list, adv2)
<1> DEFINE rest == Tail(down)
<1>1. /\ Len(rest) + 1 = Len(down) /\ Len(rest) \in Nat
      /\ \A i \in 1..Len(rest) : rest[i] = down[i + 1] /\ i + 1 \in 1..Len(down)
      /\ \A i \in 1..Len(down) : i = 1 \/ (i - 1 \in 1..Len(rest) /\ down[i] = rest[i - 1])
      /\ Listings(down) <=> Listings(rest) \/ down[1].kind \in {"list", "end"}
      /\ Named(down) = Named(rest) \cup (IF down[1].kind = "list" THEN down[1].names ELSE {})
  BY TailFacts
<1> HIDE DEF rest
<1>2. Unsupported(m) /\ Believed(m, up, list) /\ Abandoned(m, up, rest, adv2)
  BY <1>1 DEF InStep, Abandoned
<1>3. ASSUME m.snapshot.open PROVE Awaited(m, up, rest, list)
  <2>1. Named(down) = Named(rest) /\ (Listings(down) <=> Listings(rest))
    BY <1>1, <1>3
  <2>2. Awaited(m, up, down, list)
    BY DEF InStep
  <2>3. \A i \in 1..Len(up) : up[i].op = "L" =>
          i = Len(up) /\ ~Listings(rest) /\ m.snapshot.names = {}
    BY <1>3, <2>1, <2>2 DEF Awaited
  <2>4. ASSUME NEW i \in 1..Len(rest), rest[i].kind = "end"
        PROVE  /\ up = <<>>
               /\ \A j \in 1..Len(rest) : rest[j].kind = "list" => j < i
               /\ \A j \in 1..Len(rest) : rest[j].kind = "end" => j = i
               /\ m.snapshot.valid /\ ~m.snapshot.expired =>
                    m.snapshot.names \cup Named(rest) = list
    <3>1. i + 1 \in 1..Len(down) /\ down[i + 1].kind = "end"
      BY <1>1, <2>4
    <3>2. /\ up = <<>>
          /\ \A j \in 1..Len(down) : down[j].kind = "list" => j < i + 1
          /\ \A j \in 1..Len(down) : down[j].kind = "end" => j = i + 1
          /\ m.snapshot.valid /\ ~m.snapshot.expired =>
               m.snapshot.names \cup Named(down) = list
      BY <1>3, <2>2, <3>1 DEF Awaited
    <3>3. ASSUME NEW j \in 1..Len(rest)
          PROVE  (rest[j].kind = "list" => j < i) /\ (rest[j].kind = "end" => j = i)
      <4>1. rest[j] = down[j + 1] /\ j + 1 \in 1..Len(down)
        BY <1>1
      <4> QED BY <4>1, <3>2
    <3> QED BY <2>1, <3>2, <3>3
  <2>5. ASSUME Listings(rest) PROVE \E i \in 1..Len(rest) : rest[i].kind = "end"
    <3>1. PICK i \in 1..Len(down) : down[i].kind = "end"
      BY <1>3, <2>1, <2>2, <2>5 DEF Awaited
    <3>2. i # 1
      BY <1>3, <3>1
    <3> QED BY <1>1, <3>1, <3>2
  <2> QED BY <2>3, <2>4, <2>5 DEF Awaited
<1>4. Awaited(m, up, rest, list)
  BY <1>3 DEF Awaited
<1> QED BY <1>2, <1>4 DEF InStep, rest
\* 732: what is named moves from the answers on their way to the snapshot.
LEMMA ListedInStep ==
  ASSUME NEW m, Proper(m), NEW up, NEW down \in Seq(Answers), down # <<>>, NEW list,
         NEW adv \in BOOLEAN, InStep(m, up, down, list, adv),
         down[1].kind = "list", m.snapshot.open
  PROVE  InStep(Listed(m, down[1].names), up, Tail(down), list, adv)
<1> DEFINE rest == Tail(down)
           names == down[1].names
           r == Listed(m, names)
<1>1. /\ Len(rest) + 1 = Len(down) /\ Len(rest) \in Nat
      /\ \A i \in 1..Len(rest) : rest[i] = down[i + 1] /\ i + 1 \in 1..Len(down)
      /\ \A i \in 1..Len(down) : i = 1 \/ (i - 1 \in 1..Len(rest) /\ down[i] = rest[i - 1])
      /\ Listings(down) /\ Named(down) = Named(rest) \cup names
  BY TailFacts
<1>2. m \in Managers /\ m.snapshot \in Snapshots
  BY Fields DEF Proper
<1>3. /\ r.support = m.support /\ r.confirmed = m.confirmed /\ r.snapshot.open
      /\ r.snapshot.valid /\ ~r.snapshot.expired =>
           /\ m.snapshot.valid /\ ~m.snapshot.expired
           /\ r.snapshot.names = m.snapshot.names \cup names
  BY <1>2 DEF Managers, Snapshots, Listed
<1> HIDE DEF rest, names, r
<1>4. Awaited(m, up, down, list)
  BY DEF InStep
<1>5. \A i \in 1..Len(up) : up[i].op # "L"
  BY <1>1, <1>4 DEF Awaited
<1>6. ASSUME NEW i \in 1..Len(rest), rest[i].kind = "end"
      PROVE  /\ up = <<>>
             /\ \A j \in 1..Len(rest) : rest[j].kind = "list" => j < i
             /\ \A j \in 1..Len(rest) : rest[j].kind = "end" => j = i
             /\ r.snapshot.valid /\ ~r.snapshot.expired =>
                  r.snapshot.names \cup Named(rest) = list
  <2>1. i + 1 \in 1..Len(down) /\ down[i + 1].kind = "end"
    BY <1>1, <1>6
  <2>2. /\ up = <<>>
        /\ \A j \in 1..Len(down) : down[j].kind = "list" => j < i + 1
        /\ \A j \in 1..Len(down) : down[j].kind = "end" => j = i + 1
        /\ m.snapshot.valid /\ ~m.snapshot.expired =>
             m.snapshot.names \cup Named(down) = list
    BY <1>4, <2>1 DEF Awaited
  <2>3. ASSUME NEW j \in 1..Len(rest)
        PROVE  (rest[j].kind = "list" => j < i) /\ (rest[j].kind = "end" => j = i)
    <3>1. rest[j] = down[j + 1] /\ j + 1 \in 1..Len(down)
      BY <1>1
    <3> QED BY <3>1, <2>2
  <2> QED BY <1>1, <1>3, <2>2, <2>3
<1>7. \E i \in 1..Len(rest) : rest[i].kind = "end"
  <2>1. PICK i \in 1..Len(down) : down[i].kind = "end"
    BY <1>1, <1>4 DEF Awaited
  <2> QED BY <1>1, <2>1
<1>8. Awaited(r, up, rest, list)
  BY <1>5, <1>6, <1>7 DEF Awaited
<1>9. Unsupported(r) /\ Abandoned(r, up, rest, adv) /\ Believed(r, up, list)
  BY <1>3 DEF InStep, Unsupported, Abandoned, Believed
<1> QED BY <1>8, <1>9 DEF InStep, r, rest, names

\* 733: nothing else is on its way, and what was named is the server's list.
LEMMA EndOfListInStep ==
  ASSUME NEW m, Proper(m), NEW up, NEW down \in Seq(Answers), down # <<>>, NEW list,
         NEW adv \in BOOLEAN, InStep(m, up, down, list, adv), m.support,
         down[1].kind = "end", m.snapshot.open
  PROVE  InStep(EndOfList(m), up, Tail(down), list, adv)
<1> DEFINE rest == Tail(down)
           r == EndOfList(m)
<1>1. /\ Len(rest) + 1 = Len(down) /\ Len(rest) \in Nat
      /\ \A i \in 1..Len(rest) : rest[i] = down[i + 1] /\ i + 1 \in 1..Len(down)
      /\ Named(down) = Named(rest) /\ 1 \in 1..Len(down)
  <2>1. /\ Len(rest) + 1 = Len(down) /\ Len(rest) \in Nat
        /\ \A i \in 1..Len(rest) : rest[i] = down[i + 1] /\ i + 1 \in 1..Len(down)
        /\ Named(down) = Named(rest) \cup (IF down[1].kind = "list" THEN down[1].names ELSE {})
    BY TailFacts
  <2> HIDE DEF rest
  <2>2. Named(down) = Named(rest)
    BY <2>1
  <2>3. 1 \in 1..Len(down)
    BY <2>1
  <2> QED BY <2>1, <2>2, <2>3
<1>2. m \in Managers /\ m.snapshot \in Snapshots /\ Proper(r)
  BY Fields, EndOfListProper DEF Proper
<1>3. r.support /\ r.snapshot = NoSnapshot /\ r.confirmed \in {NoList, m.snapshot.names}
      /\ (r.confirmed = NoList \/ (m.snapshot.valid /\ ~m.snapshot.expired))
  <2> DEFINE names == m.snapshot.names
             base == IF m.wanted = NoList THEN Adopted(m, names) ELSE m
             checked == VerifyChange(base, names)
  <2>1. base \in Managers /\ base.support = m.support
    <3>1. Proper(base)
      BY AdoptedProper
    <3>2. Adopted(m, names).support = m.support
      BY <1>2 DEF Adopted, Managers
    <3> QED BY <3>1, <3>2 DEF Proper
  <2>2. checked \in Managers /\ checked.support = m.support
    <3>1. Proper(checked)
      BY AdoptedProper, VerifyProper
    <3>2. checked.support = base.support
      BY <2>1 DEF VerifyChange, Managers
    <3> QED BY <3>1, <3>2, <2>1 DEF Proper
  <2> DEFINE peers == [n \in Nicks |-> IF n \in checked.wanted THEN checked.peers[n] ELSE "unknown"]
             given == [m EXCEPT !.snapshot = NoSnapshot, !.confirmed = NoList, !.blocked = TRUE]
             taken == [checked EXCEPT !.snapshot = NoSnapshot, !.confirmed = names,
                                      !.showList = FALSE, !.peers = peers]
  <2>3. r = IF ~m.snapshot.valid \/ m.snapshot.expired THEN given ELSE taken
    BY DEF EndOfList
  <2>4. given.support = m.support /\ given.snapshot = NoSnapshot /\ given.confirmed = NoList
    BY <1>2 DEF Managers
  <2> HIDE DEF checked, peers, names
  <2>5. taken.support = m.support /\ taken.snapshot = NoSnapshot /\ taken.confirmed = names
    BY <2>2 DEF Managers
  <2> HIDE DEF r, given, taken
  <2>6. r.support /\ r.snapshot = NoSnapshot /\ r.confirmed \in {NoList, names}
        /\ (r.confirmed = NoList \/ (m.snapshot.valid /\ ~m.snapshot.expired))
    BY <2>3, <2>4, <2>5
  <2> QED BY <2>6 DEF r, names
<1> HIDE DEF rest, r
<1>4. /\ up = <<>>
      /\ \A j \in 1..Len(down) : down[j].kind = "list" => j < 1
      /\ \A j \in 1..Len(down) : down[j].kind = "end" => j = 1
      /\ m.snapshot.valid /\ ~m.snapshot.expired => m.snapshot.names \cup Named(down) = list
  BY <1>1 DEF InStep, Awaited
<1>5. ~Listings(rest)
  <2>1. \A i \in 1..Len(rest) : rest[i].kind \notin {"list", "end"}
    BY <1>1, <1>4
  <2> QED BY <2>1 DEF Listings
<1>6. Named(down) = {}
  BY <1>1, <1>4 DEF Named
<1>7. ~Asks(up) /\ ~Edits(up)
  BY <1>4 DEF Asks, Edits
<1>8. r.confirmed = NoList \/ r.confirmed = list
  BY <1>3, <1>4, <1>6
<1> QED BY <1>3, <1>5, <1>7, <1>8, TypeFacts
        DEF InStep, Unsupported, Abandoned, Awaited, Believed, r, rest
\* A 005: nothing asked for under the support there was before is left.
LEMMA OfferInStep ==
  ASSUME NEW m, ~m.support, NEW up, NEW down \in Seq(Answers), down # <<>>, NEW list,
         NEW adv, InStep(m, up, down, list, adv), OffersFresh(up, down, adv),
         down[1].kind = "offered"
  PROVE  InStep(m, up, Tail(down), list, TRUE)
<1>1. 1 \in 1..Len(down)
  OBVIOUS
<1>2. ~Asks(up) /\ ~Listings(down)
  BY <1>1 DEF OffersFresh
<1>3. ~Listings(Tail(down))
  BY <1>2, TailFacts
<1> QED BY <1>2, <1>3 DEF InStep, Unsupported, Abandoned, Awaited, Believed

Heard(line, adv) == line.kind = "offered" \/ (adv /\ line.kind # "withdrawn")

LEMMA OffersPassed ==
  ASSUME NEW up, NEW down \in Seq(Answers), down # <<>>, NEW adv \in BOOLEAN,
         OffersFresh(up, down, adv)
  PROVE  OffersFresh(up, Tail(down), Heard(down[1], adv))
<1> DEFINE rest == Tail(down)
<1>1. /\ Len(rest) + 1 = Len(down) /\ Len(rest) \in Nat
      /\ \A i \in 1..Len(rest) : rest[i] = down[i + 1] /\ i + 1 \in 1..Len(down)
      /\ Listings(rest) => Listings(down)
  BY TailFacts
<1>2. 1 \in 1..Len(down)
  OBVIOUS
<1> HIDE DEF rest
<1>3. ASSUME NEW i \in 1..Len(rest), rest[i].kind = "offered"
      PROVE  /\ ~Heard(down[1], adv) /\ ~Asks(up) /\ ~Listings(rest)
             /\ \A j \in 1..Len(rest) : rest[j].kind = "offered" => j = i
  <2>1. i + 1 \in 1..Len(down) /\ down[i + 1].kind = "offered"
    BY <1>1, <1>3
  <2>2. /\ ~adv /\ ~Asks(up) /\ ~Listings(down)
        /\ \A j \in 1..Len(down) : down[j].kind = "offered" => j = i + 1
    BY <2>1 DEF OffersFresh
  <2>3. ~Heard(down[1], adv)
    BY <1>2, <2>2 DEF Heard
  <2>4. ASSUME NEW j \in 1..Len(rest), rest[j].kind = "offered" PROVE j = i
    <3>1. rest[j] = down[j + 1] /\ j + 1 \in 1..Len(down)
      BY <1>1
    <3> QED BY <3>1, <2>2, <2>4
  <2> QED BY <1>1, <2>2, <2>3, <2>4
<1> QED BY <1>3 DEF OffersFresh, rest

\* observe_monitor, on a manager that knows whether there is support.
LEMMA ReceiveInStep ==
  ASSUME NEW m, Proper(m), NEW up, NEW down \in Seq(Answers), down # <<>>, NEW list,
         NEW adv \in BOOLEAN, m.support = adv, InStep(m, up, down, list, adv),
         OffersFresh(up, down, adv)
  PROVE  InStep(Receive(m, down[1]), up, Tail(down), list, Heard(down[1], adv))
<1> DEFINE line == down[1]
           adv2 == Heard(line, adv)
<1>1. m \in Managers /\ line \in Answers /\ line = Head(down)
  BY TailFacts DEF Proper
<1>2. /\ line.kind \in {"offered", "withdrawn", "unavailable", "online", "offline", "list", "end", "full"}
      /\ adv2 \in BOOLEAN
  BY <1>1 DEF Answers, Heard
<1>3. line.kind # "offered" => (adv2 => adv)
  BY DEF Heard
<1> HIDE DEF line
<1>4. CASE line.kind = "unavailable"
  <2> DEFINE closed == [m EXCEPT !.blocked = TRUE, !.snapshot = NoSnapshot, !.confirmed = NoList]
  <2>1. Receive(m, line) = closed
    BY <1>4 DEF Receive
  <2>2. /\ closed.support = m.support /\ closed.blocked /\ closed.snapshot = NoSnapshot
        /\ closed.confirmed = NoList
    BY <1>1 DEF Managers
  <2>3. adv2 => closed.support
    BY <1>3, <1>4, <2>2
  <2> HIDE DEF closed, adv2
  <2>4. InStep(closed, up, Tail(down), list, adv2)
    BY <2>2, <2>3, TypeFacts DEF InStep, Unsupported, Abandoned, Awaited, Believed
  <2> QED BY <2>1, <2>4 DEF line, adv2
<1>5. CASE line.kind = "offered"
  <2>1. Receive(m, line) = m /\ adv2 = TRUE
    BY <1>5 DEF Receive, Heard
  <2>2. ~adv
    <3>1. 1 \in 1..Len(down)
      OBVIOUS
    <3> QED BY <3>1, <1>5 DEF OffersFresh, line
  <2>3. InStep(m, up, Tail(down), list, TRUE)
    BY <1>5, <2>2, OfferInStep DEF line
  <2> QED BY <2>1, <2>3 DEF line
<1>6. ASSUME line.kind # "offered", line.kind \notin {"list", "end"} \/ ~m.snapshot.open
      PROVE  InStep(m, up, Tail(down), list, adv2)
  <2>1. line.kind \notin {"list", "end"} \/ ~m.snapshot.open
    BY <1>6
  <2>2. adv2 => adv
    BY <1>3, <1>6
  <2> HIDE DEF adv2
  <2> QED BY <2>1, <2>2, <1>2, PassedInStep DEF line
<1>7. ASSUME line.kind \notin {"offered", "unavailable"},
             Outlook(Receive(m, line)) = Outlook(m),
             line.kind \notin {"list", "end"} \/ ~m.snapshot.open
      PROVE  InStep(Receive(m, line), up, Tail(down), list, adv2)
  <2>1. InStep(m, up, Tail(down), list, adv2)
    BY <1>6, <1>7
  <2> HIDE DEF adv2
  <2> QED BY <2>1, <1>7, SameOutlook
<1>8. CASE line.kind = "withdrawn" \/ (~m.support /\ line.kind \notin {"offered", "unavailable"})
  <2>1. Receive(m, line) = m
    BY <1>8 DEF Receive
  <2>2. line.kind \notin {"list", "end"} \/ ~m.snapshot.open
    BY <1>8 DEF InStep, Unsupported
  <2> QED BY <2>1, <2>2, <1>7, <1>8 DEF line
<1>9. CASE m.support /\ line.kind \in {"online", "offline", "full"}
  <2>1. Receive(m, line) \in {ReceiveStatus(m, line), ReceiveFull(m, line)}
    BY <1>9 DEF Receive
  <2>2. Outlook(ReceiveStatus(m, line)) = Outlook(m) /\ Outlook(ReceiveFull(m, line)) = Outlook(m)
    BY <1>1 DEF Outlook, ReceiveStatus, ReceiveFull, Managers
  <2> QED BY <2>1, <2>2, <1>7, <1>9 DEF line
<1>10. CASE m.support /\ line.kind \in {"list", "end"} /\ ~m.snapshot.open
  <2>1. Receive(m, line) = m
    BY <1>10 DEF Receive, Listed, EndOfList
  <2> QED BY <2>1, <1>7, <1>10 DEF line
<1>11. CASE m.support /\ line.kind \in {"list", "end"} /\ m.snapshot.open
  <2>1. adv2 = adv
    BY <1>11 DEF Heard
  <2>2. Receive(m, line) = IF line.kind = "list" THEN Listed(m, line.names) ELSE EndOfList(m)
    BY <1>11 DEF Receive
  <2>3. InStep(Receive(m, line), up, Tail(down), list, adv)
    BY <1>11, <2>2, ListedInStep, EndOfListInStep DEF line
  <2> QED BY <2>1, <2>3 DEF line
<1>12. m.support \in BOOLEAN
  BY <1>1 DEF Managers
<1> QED BY <1>2, <1>4, <1>5, <1>8, <1>9, <1>10, <1>11, <1>12 DEF line
-----------------------------------------------------------------------------
(* The server's side keeps in step.                                        *)

\* Answers that are none of a listing's.
Aside(lines) == \A i \in 1..Len(lines) : lines[i].kind \notin {"list", "end"}
Offers(lines) == \E i \in 1..Len(lines) : lines[i].kind = "offered"

LEMMA ConcatFacts ==
  ASSUME NEW down \in Seq(Answers), NEW extra \in Seq(Answers)
  PROVE  LET all == down \o extra
         IN  /\ all \in Seq(Answers) /\ Len(all) = Len(down) + Len(extra)
             /\ Len(down) \in Nat /\ Len(extra) \in Nat
             /\ \A i \in 1..Len(down) : all[i] = down[i] /\ i \in 1..Len(all)
             /\ \A i \in 1..Len(extra) :
                  all[Len(down) + i] = extra[i] /\ Len(down) + i \in 1..Len(all)
             /\ \A i \in 1..Len(all) : i \in 1..Len(down) \/ i - Len(down) \in 1..Len(extra)
OBVIOUS

LEMMA AsideFacts ==
  ASSUME NEW down \in Seq(Answers), NEW extra \in Seq(Answers), Aside(extra)
  PROVE  LET all == down \o extra
         IN  /\ Listings(all) <=> Listings(down)
             /\ Named(all) = Named(down)
             /\ \A i \in 1..Len(all) : all[i].kind \in {"list", "end"} =>
                  i \in 1..Len(down) /\ all[i] = down[i]
             /\ \A i \in 1..Len(down) : all[i] = down[i] /\ i \in 1..Len(all)
<1> DEFINE all == down \o extra
<1>1. /\ Len(all) = Len(down) + Len(extra) /\ Len(down) \in Nat /\ Len(extra) \in Nat
      /\ \A i \in 1..Len(down) : all[i] = down[i] /\ i \in 1..Len(all)
      /\ \A i \in 1..Len(extra) : all[Len(down) + i] = extra[i]
      /\ \A i \in 1..Len(all) : i \in 1..Len(down) \/ i - Len(down) \in 1..Len(extra)
  BY ConcatFacts
<1> HIDE DEF all
<1>2. ASSUME NEW i \in 1..Len(all), all[i].kind \in {"list", "end"}
      PROVE  i \in 1..Len(down) /\ all[i] = down[i]
  <2>1. CASE i - Len(down) \in 1..Len(extra)
    <3>1. all[Len(down) + (i - Len(down))] = extra[i - Len(down)]
      BY <1>1, <2>1
    <3>2. Len(down) + (i - Len(down)) = i
      BY <1>1
    <3> QED BY <3>1, <3>2, <2>1, <1>2 DEF Aside
  <2> QED BY <1>1, <2>1
<1>3. Listings(all) <=> Listings(down)
  BY <1>1, <1>2 DEF Listings
<1>4. Named(all) = Named(down)
  <2>1. ASSUME NEW n \in Named(all) PROVE n \in Named(down)
    <3>1. PICK i \in 1..Len(all) : all[i].kind = "list" /\ n \in all[i].names
      BY <2>1 DEF Named
    <3>2. i \in 1..Len(down) /\ all[i] = down[i]
      BY <1>2, <3>1
    <3> QED BY <3>1, <3>2 DEF Named
  <2>2. ASSUME NEW n \in Named(down) PROVE n \in Named(all)
    <3>1. PICK i \in 1..Len(down) : down[i].kind = "list" /\ n \in down[i].names
      BY <2>2 DEF Named
    <3>2. all[i] = down[i] /\ i \in 1..Len(all)
      BY <1>1
    <3> QED BY <3>1, <3>2 DEF Named
  <2> QED BY <2>1, <2>2
<1> QED BY <1>1, <1>2, <1>3, <1>4 DEF all

LEMMA AsideInStep ==
  ASSUME NEW m, NEW up, NEW down \in Seq(Answers), NEW extra \in Seq(Answers), Aside(extra),
         NEW list, NEW adv, InStep(m, up, down, list, adv)
  PROVE  InStep(m, up, down \o extra, list, adv)
<1> DEFINE all == down \o extra
<1>1. /\ Listings(all) <=> Listings(down)
      /\ Named(all) = Named(down)
      /\ \A i \in 1..Len(all) : all[i].kind \in {"list", "end"} =>
           i \in 1..Len(down) /\ all[i] = down[i]
      /\ \A i \in 1..Len(down) : all[i] = down[i] /\ i \in 1..Len(all)
  BY AsideFacts
<1> HIDE DEF all
<1>2. Unsupported(m) /\ Abandoned(m, up, all, adv) /\ Believed(m, up, list)
  BY <1>1 DEF InStep, Abandoned
<1>3. Awaited(m, up, all, list)
  BY <1>1 DEF InStep, Awaited
<1> QED BY <1>2, <1>3 DEF InStep, all

\* Only one offer of support is on its way, and only while there is none.
LEMMA OffersAside ==
  ASSUME NEW up, NEW down \in Seq(Answers), NEW extra \in Seq(Answers), Aside(extra),
         ~Offers(extra), NEW adv, OffersFresh(up, down, adv)
  PROVE  OffersFresh(up, down \o extra, adv)
<1> DEFINE all == down \o extra
<1>1. /\ Len(all) = Len(down) + Len(extra) /\ Len(down) \in Nat /\ Len(extra) \in Nat
      /\ \A i \in 1..Len(down) : all[i] = down[i] /\ i \in 1..Len(all)
      /\ \A i \in 1..Len(extra) : all[Len(down) + i] = extra[i]
      /\ \A i \in 1..Len(all) : i \in 1..Len(down) \/ i - Len(down) \in 1..Len(extra)
  BY ConcatFacts
<1>2. Listings(all) <=> Listings(down)
  BY AsideFacts
<1> HIDE DEF all
<1>3. ASSUME NEW i \in 1..Len(all), all[i].kind = "offered"
      PROVE  i \in 1..Len(down) /\ all[i] = down[i]
  <2>1. CASE i - Len(down) \in 1..Len(extra)
    <3>1. all[Len(down) + (i - Len(down))] = extra[i - Len(down)]
      BY <1>1, <2>1
    <3>2. Len(down) + (i - Len(down)) = i
      BY <1>1
    <3> QED BY <3>1, <3>2, <2>1, <1>3 DEF Offers
  <2> QED BY <1>1, <2>1
<1> QED BY <1>2, <1>3 DEF OffersFresh, all

\* The first of the lines is taken up by the server.
LEMMA UpFacts ==
  ASSUME NEW up \in Seq(Lines), up # <<>>
  PROVE  LET rest == Tail(up)
         IN  /\ rest \in Seq(Lines) /\ Head(up) \in Lines /\ Head(up) = up[1] /\ 1 \in 1..Len(up)
             /\ Len(rest) + 1 = Len(up) /\ Len(rest) \in Nat
             /\ \A i \in 1..Len(rest) : rest[i] = up[i + 1] /\ i + 1 \in 1..Len(up)
             /\ Asks(rest) => Asks(up)
             /\ Edits(rest) => Edits(up)
<1> DEFINE rest == Tail(up)
<1>1. /\ rest \in Seq(Lines) /\ Head(up) \in Lines /\ Head(up) = up[1] /\ 1 \in 1..Len(up)
      /\ Len(rest) + 1 = Len(up) /\ Len(rest) \in Nat
      /\ \A i \in 1..Len(rest) : rest[i] = up[i + 1]
  OBVIOUS
<1> HIDE DEF rest
<1>2. \A i \in 1..Len(rest) : rest[i] = up[i + 1] /\ i + 1 \in 1..Len(up)
  BY <1>1
<1>3. (Asks(rest) => Asks(up)) /\ (Edits(rest) => Edits(up))
  BY <1>2 DEF Asks, Edits
<1> QED BY <1>1, <1>2, <1>3 DEF rest

\* A line other than a listing that is carried out may change the list only
\* while the list is not believed.
LEMMA TakenInStep ==
  ASSUME NEW m, NEW up \in Seq(Lines), up # <<>>, NEW down \in Seq(Answers),
         NEW list, NEW list2, list2 = list \/ up[1].op \in {"+", "-"},
         NEW adv, InStep(m, up, down, list, adv)
  PROVE  InStep(m, Tail(up), down, list2, adv)
<1> DEFINE rest == Tail(up)
<1>1. /\ 1 \in 1..Len(up) /\ Len(rest) + 1 = Len(up) /\ Len(rest) \in Nat
      /\ \A i \in 1..Len(rest) : rest[i] = up[i + 1] /\ i + 1 \in 1..Len(up)
      /\ Asks(rest) => Asks(up)
      /\ Edits(rest) => Edits(up)
  BY UpFacts
<1> HIDE DEF rest
<1>2. Unsupported(m) /\ Abandoned(m, rest, down, adv)
  BY <1>1 DEF InStep, Abandoned
<1>3. Believed(m, rest, list2)
  BY <1>1 DEF InStep, Believed, Edits
<1>4. ASSUME m.snapshot.open PROVE Awaited(m, rest, down, list2)
  <2>1. \A i \in 1..Len(down) : down[i].kind # "end"
    BY <1>4 DEF InStep, Awaited
  <2>2. ~Listings(down)
    BY <1>4, <2>1 DEF InStep, Awaited
  <2>3. \A i \in 1..Len(rest) : rest[i].op = "L" => i = Len(rest) /\ m.snapshot.names = {}
    BY <1>1, <1>4 DEF InStep, Awaited
  <2> QED BY <2>1, <2>2, <2>3 DEF Awaited
<1> QED BY <1>2, <1>3, <1>4 DEF InStep, Awaited, rest
\* A listing names the server's list, and then says that it is complete.
LEMMA ListingFacts ==
  ASSUME serverList \in SUBSET Nicks
  PROVE  /\ Listing \in Seq(Answers) /\ Len(Listing) \in Nat \ {0}
         /\ Listing[Len(Listing)].kind = "end"
         /\ \A i \in 1..Len(Listing) : i < Len(Listing) => Listing[i].kind = "list"
         /\ Named(Listing) = serverList
<1> DEFINE n == Cardinality(serverList)
           f == SetToSeq(serverList)
           names == [i \in 1..n |-> [kind |-> "list", names |-> {f[i]}]]
           last == [kind |-> "end", names |-> {}]
<1>1. IsFiniteSet(serverList) /\ n \in Nat /\ ExistsBijection(1..n, serverList)
  BY NicksAssumption, FS_Subset, FS_CardinalityType
<1>2. \E g \in [1..n -> serverList] : IsInjective(g)
  BY <1>1 DEF ExistsBijection, Bijection, Injection
<1>3. f \in [1..n -> serverList] /\ IsInjective(f)
  BY <1>2 DEF SetToSeq
<1>4. f \in Surjection(1..n, serverList)
  <2>1. f \in Injection(1..n, serverList)
    BY <1>3 DEF Injection
  <2>2. Cardinality(1..n) = n
    BY <1>1, FS_Interval
  <2> HIDE DEF f, n
  <2> QED BY <1>1, <2>1, <2>2, FS_Injection DEF n
<1>5. \A k \in serverList : \E i \in 1..n : f[i] = k
  BY <1>4 DEF Surjection
<1>6. last \in Answers /\ \A i \in 1..n : [kind |-> "list", names |-> {f[i]}] \in Answers
  BY <1>3 DEF Answers
<1> HIDE DEF f, n
<1>7. names \in Seq(Answers) /\ Len(names) = n
  BY <1>1, <1>6
<1>8. Listing = Append(names, last)
  BY DEF Listing, f, n
<1> HIDE DEF last
<1>9. /\ Listing \in Seq(Answers) /\ Len(Listing) = n + 1 /\ Listing[n + 1] = last
      /\ \A i \in 1..n : Listing[i] = names[i]
  BY <1>1, <1>6, <1>7, <1>8
<1>10. last.kind = "end"
  BY DEF last
<1>11. \A i \in 1..n : Listing[i].kind = "list" /\ Listing[i].names = {f[i]}
  <2>1. SUFFICES ASSUME NEW i \in 1..n
                 PROVE  Listing[i].kind = "list" /\ Listing[i].names = {f[i]}
    OBVIOUS
  <2>2. Listing[i] = [kind |-> "list", names |-> {f[i]}]
    BY <1>9
  <2> HIDE DEF names
  <2> QED BY <2>2
<1> HIDE DEF names
<1>12. Named(Listing) = serverList
  <2>1. {j \in 1..Len(Listing) : Listing[j].kind = "list"} = 1..n
    BY <1>1, <1>9, <1>10, <1>11
  <2>2. ASSUME NEW k \in Named(Listing) PROVE k \in serverList
    <3>1. PICK i \in 1..n : k \in Listing[i].names
      BY <2>1, <2>2 DEF Named
    <3> QED BY <3>1, <1>3, <1>11
  <2>3. ASSUME NEW k \in serverList PROVE k \in Named(Listing)
    <3>1. PICK i \in 1..n : f[i] = k
      BY <1>5, <2>3
    <3> QED BY <3>1, <2>1, <1>11 DEF Named
  <2> QED BY <2>2, <2>3
<1>13. \A i \in 1..Len(Listing) : i < Len(Listing) => i \in 1..n
  BY <1>1, <1>9
<1> QED BY <1>1, <1>9, <1>10, <1>11, <1>12, <1>13

\* A listing that is carried out while it is awaited is what is awaited;
\* otherwise it is one that was abandoned.
LEMMA ListingInStep ==
  ASSUME Typed, NEW m, NEW adv, InStep(m, toServer, toClient, serverList, adv),
         OffersFresh(toServer, toClient, adv), toServer # <<>>, Head(toServer).op = "L"
  PROVE  /\ InStep(m, Tail(toServer), toClient \o Listing, serverList, adv)
         /\ OffersFresh(Tail(toServer), toClient \o Listing, adv)
<1> DEFINE all == toClient \o Listing
           rest == Tail(toServer)
           c == Len(toClient)
           l == Len(Listing)
<1>1. toServer \in Seq(Lines) /\ toClient \in Seq(Answers) /\ serverList \in SUBSET Nicks
  BY DEF Typed
<1>2. /\ Listing \in Seq(Answers) /\ l \in Nat \ {0}
      /\ Listing[l].kind = "end"
      /\ \A i \in 1..l : i < l => Listing[i].kind = "list"
      /\ Named(Listing) = serverList
  BY <1>1, ListingFacts
<1>3. /\ Len(all) = c + l /\ c \in Nat
      /\ \A i \in 1..c : all[i] = toClient[i] /\ i \in 1..Len(all)
      /\ \A i \in 1..l : all[c + i] = Listing[i] /\ c + i \in 1..Len(all)
      /\ \A i \in 1..Len(all) : i \in 1..c \/ i - c \in 1..l
  BY <1>1, <1>2, ConcatFacts
<1>4. /\ Head(toServer) = toServer[1] /\ 1 \in 1..Len(toServer)
      /\ Len(rest) + 1 = Len(toServer) /\ Len(rest) \in Nat
      /\ Asks(rest) => Asks(toServer)
      /\ Edits(rest) => Edits(toServer)
      /\ rest \in Seq(Lines)
  BY <1>1, UpFacts
<1>5. Asks(toServer)
  BY <1>4 DEF Asks
<1> HIDE DEF all, rest, c, l
<1>6. \A i \in 1..Len(all) : i \notin 1..c => all[i] = Listing[i - c]
  <2>1. ASSUME NEW i \in 1..Len(all), i \notin 1..c PROVE all[i] = Listing[i - c]
    <3>1. i - c \in 1..l /\ c + (i - c) = i
      BY <1>3, <2>1
    <3> QED BY <3>1, <1>3
  <2> QED BY <2>1
<1>7. OffersFresh(rest, all, adv)
  <2>1. \A i \in 1..c : toClient[i].kind # "offered"
    BY <1>5 DEF OffersFresh, c
  <2>2. \A i \in 1..l : Listing[i].kind # "offered"
    BY <1>2
  <2>3. \A i \in 1..Len(all) : all[i].kind # "offered"
    BY <1>3, <1>6, <2>1, <2>2
  <2> QED BY <2>3 DEF OffersFresh
<1>8. Unsupported(m) /\ Believed(m, rest, serverList) /\ Abandoned(m, rest, all, adv)
  BY <1>4, <1>5 DEF InStep, Believed, Abandoned
<1>9. ASSUME m.snapshot.open PROVE Awaited(m, rest, all, serverList)
  <2>1. 1 = Len(toServer) /\ ~Listings(toClient) /\ m.snapshot.names = {}
    BY <1>4, <1>9 DEF InStep, Awaited
  <2>2. rest = <<>>
    BY <2>1, <1>4
  <2>3. \A i \in 1..c : toClient[i].kind \notin {"list", "end"}
    BY <2>1 DEF Listings, c
  <2>4. /\ c + l \in 1..Len(all) /\ all[c + l].kind = "end"
        /\ \A i \in 1..Len(all) : (all[i].kind = "end" => i = c + l)
                                /\ (all[i].kind = "list" => i < c + l)
    <3>1. c + l \in 1..Len(all) /\ all[c + l].kind = "end"
      BY <1>2, <1>3
    <3>2. ASSUME NEW i \in 1..Len(all)
          PROVE  (all[i].kind = "end" => i = c + l) /\ (all[i].kind = "list" => i < c + l)
      <4>1. CASE i \in 1..c
        BY <4>1, <2>3, <1>3
      <4>2. CASE i \notin 1..c
        <5>1. i - c \in 1..l /\ all[i] = Listing[i - c]
          BY <4>2, <1>3, <1>6
        <5>2. CASE i - c < l
          BY <5>1, <5>2, <1>2, <1>3
        <5>3. CASE i - c = l
          BY <5>1, <5>3, <1>2, <1>3
        <5> QED BY <5>1, <5>2, <5>3, <1>2, <1>3
      <4> QED BY <4>1, <4>2
    <3> QED BY <3>1, <3>2
  <2>5. Named(all) = serverList
    <3>1. ASSUME NEW n \in Named(all) PROVE n \in Named(Listing)
      <4>1. PICK i \in 1..Len(all) : all[i].kind = "list" /\ n \in all[i].names
        BY <3>1 DEF Named
      <4>2. i - c \in 1..l /\ all[i] = Listing[i - c]
        BY <4>1, <1>3, <1>6, <2>3
      <4> QED BY <4>1, <4>2 DEF Named, l
    <3>2. ASSUME NEW n \in Named(Listing) PROVE n \in Named(all)
      <4>1. PICK i \in 1..l : Listing[i].kind = "list" /\ n \in Listing[i].names
        BY <3>2 DEF Named, l
      <4>2. all[c + i] = Listing[i] /\ c + i \in 1..Len(all)
        BY <1>3
      <4> QED BY <4>1, <4>2 DEF Named
    <3> QED BY <3>1, <3>2, <1>2
  <2>6. \A i \in 1..Len(rest) : rest[i].op # "L"
    BY <2>2
  <2> QED BY <2>1, <2>2, <2>4, <2>5, <2>6 DEF Awaited
<1> QED BY <1>7, <1>8, <1>9 DEF InStep, Awaited, all, rest
-----------------------------------------------------------------------------
(* Every step keeps in step.                                               *)

LEMMA EmptyFacts ==
  /\ <<>> \in Seq(Lines) /\ <<>> \in Seq(Answers)
  /\ ~Asks(<<>>) /\ ~Edits(<<>>) /\ ~Listings(<<>>)
  /\ \A up, adv : OffersFresh(up, <<>>, adv)
<1>1. Len(<<>>) = 0 /\ 1..0 = {}
  OBVIOUS
<1> QED BY <1>1 DEF Asks, Edits, Listings, OffersFresh

LEMMA ListInit == Init => ListInv
<1> SUFFICES ASSUME Init PROVE ListInv
  OBVIOUS
<1>1. Typed
  BY NicksAssumption, FreshProper, EmptyFacts DEF Init, Typed
<1>2. InStep(Fresh, <<>>, <<>>, serverList, advertised)
  BY FreshProper, EmptyFacts, ResetInStep
<1>3. mon = Fresh /\ toServer = <<>> /\ toClient = <<>> /\ connected = TRUE
  BY DEF Init
<1> QED BY <1>1, <1>2, <1>3, EmptyFacts DEF ListInv, Offline

\* ensure_monitor comes first in every handler.
LEMMA EnsuredInStep ==
  ASSUME ListInv
  PROVE  /\ Proper(Ensured) /\ Ensured.support = advertised
         /\ InStep(Ensured, toServer, toClient, serverList, advertised)
BY SetSupportedProper, SupportInStep DEF ListInv, Typed, Ensured

\* The end of a handler: whatever it has done, tick_monitors.
LEMMA TurnKeeps ==
  ASSUME ListInv, NEW m, Proper(m), m.support = advertised,
         InStep(m, toServer, toClient, serverList, advertised),
         NEW expires \in BOOLEAN, NEW waited \in BOOLEAN,
         Apply(Ticked(m, expires, waited)), created' = TRUE,
         UNCHANGED <<connected, advertised, writer, toClient, serverList, refused, online>>
  PROVE  ListInv'
<1> DEFINE t == Ticked(m, expires, waited)
<1>1. Typed
  BY DEF ListInv
<1>2. /\ Proper(t[1]) /\ t[2] \in Seq(Lines)
      /\ InStep(t[1], toServer \o t[2], toClient, serverList, advertised)
      /\ t[2] = <<>> \/ (connected /\ advertised)
  BY <1>1, TickedInStep
<1>3. mon' = t[1] /\ toServer' = toServer \o t[2]
  BY DEF Apply
<1> HIDE DEF t
<1>4. toServer' \in Seq(Lines) /\ (t[2] = <<>> => toServer' = toServer)
  BY <1>1, <1>2, <1>3 DEF Typed
<1>5. Typed'
  BY <1>1, <1>2, <1>3, <1>4 DEF Typed
<1>6. OffersFresh(toServer', toClient, advertised)
  <2>1. OffersFresh(toServer, toClient, advertised)
    BY DEF ListInv
  <2>2. CASE advertised
    <3>1. \A i \in 1..Len(toClient) : toClient[i].kind # "offered"
      BY <2>1, <2>2 DEF OffersFresh
    <3> QED BY <3>1 DEF OffersFresh
  <2>3. CASE ~advertised
    BY <2>1, <2>3, <1>2, <1>4
  <2> QED BY <2>2, <2>3
<1>7. Offline'
  BY <1>2, <1>4 DEF ListInv, Offline
<1>8. InStep(mon', toServer', toClient, serverList, advertised)
  BY <1>2, <1>3
<1> QED BY <1>5, <1>6, <1>7, <1>8 DEF ListInv

LEMMA TickKeeps ==
  ASSUME ListInv, NEW expires \in BOOLEAN, NEW waited \in BOOLEAN, Tick(expires, waited)
  PROVE  ListInv'
<1>1. /\ created' = TRUE /\ Apply(Ticked(Ensured, expires, waited))
      /\ UNCHANGED <<connected, advertised, writer, toClient, serverList, refused, online>>
  BY DEF Tick, server, ListInv, Typed
<1> QED BY <1>1, EnsuredInStep, TurnKeeps

\* A manager that differs in what InStep does not look at.
LEMMA AlteredInStep ==
  ASSUME NEW m, m.support = advertised, NEW r, Proper(r), Outlook(r) = Outlook(m),
         InStep(m, toServer, toClient, serverList, advertised)
  PROVE  /\ Proper(r) /\ r.support = advertised
         /\ InStep(r, toServer, toClient, serverList, advertised)
<1>1. InStep(r, toServer, toClient, serverList, advertised)
  BY SameOutlook
<1> QED BY <1>1 DEF Outlook

LEMMA ChangeTargetsKeeps ==
  ASSUME ListInv, NEW change \in Changes, ChangeTargets(change)
  PROVE  ListInv'
<1>1. created' = TRUE
      /\ UNCHANGED <<connected, advertised, writer, toClient, serverList, refused, online>>
  BY DEF ChangeTargets, server
<1>2. CASE TooMany(Ensured, change)
  <2>1. mon' = Ensured /\ toServer' = toServer
    BY <1>2 DEF ChangeTargets
  <2>2. Typed'
    BY <1>1, <2>1, EnsuredInStep DEF ListInv, Typed
  <2>3. OffersFresh(toServer, toClient, advertised) /\ Offline'
    BY <1>1, <2>1 DEF ListInv, Offline
  <2> QED BY <1>1, <2>1, <2>2, <2>3, EnsuredInStep DEF ListInv
<1>3. CASE ~TooMany(Ensured, change)
  <2> DEFINE r == Change(Ensured, change)
  <2>1. Apply(Ticked(r, FALSE, FALSE))
    BY <1>3 DEF ChangeTargets
  <2>2. Proper(r) /\ Ensured \in Managers
    BY EnsuredInStep, ChangeProper DEF Proper
  <2>3. Outlook(r) = Outlook(Ensured)
    BY <2>2 DEF Outlook, Change, Managers
  <2> HIDE DEF r
  <2>4. /\ Proper(r) /\ r.support = advertised
        /\ InStep(r, toServer, toClient, serverList, advertised)
    BY <2>2, <2>3, EnsuredInStep, AlteredInStep
  <2> QED BY <1>1, <2>1, <2>4, TurnKeeps
<1> QED BY <1>2, <1>3

LEMMA QueryKeeps ==
  ASSUME ListInv, NEW field \in {"list", "status"}, Query(field)
  PROVE  ListInv'
<1> DEFINE r == IF field = "list" THEN [Ensured EXCEPT !.showList = TRUE]
                                   ELSE [Ensured EXCEPT !.askStatus = TRUE]
<1>1. created' = TRUE /\ Apply(Ticked(r, FALSE, FALSE))
      /\ UNCHANGED <<connected, advertised, writer, toClient, serverList, refused, online>>
  BY DEF Query, server
<1>2. Ensured \in Managers /\ Proper(Ensured)
  BY EnsuredInStep DEF Proper
<1>3. /\ r \in Managers /\ r.wanted = Ensured.wanted /\ r.queued = Ensured.queued
      /\ r.snapshot = Ensured.snapshot /\ Outlook(r) = Outlook(Ensured)
  BY <1>2 DEF Managers, Outlook
<1> HIDE DEF r
<1>4. Proper(r)
  BY <1>2, <1>3, NarrowedProper
<1>5. /\ Proper(r) /\ r.support = advertised
      /\ InStep(r, toServer, toClient, serverList, advertised)
  BY <1>3, <1>4, EnsuredInStep, AlteredInStep
<1> QED BY <1>1, <1>5, TurnKeeps
LEMMA ClientReceiveKeeps ==
  ASSUME ListInv, ClientReceive
  PROVE  ListInv'
<1> DEFINE line == Head(toClient)
           m == IF created THEN Ensured ELSE mon
           r == IF created THEN Receive(Ensured, line) ELSE mon
<1>1. /\ toClient # <<>> /\ toClient' = Tail(toClient) /\ mon' = r
      /\ advertised' = Heard(line, advertised)
      /\ refused' = IF created THEN refused \cup OverLimit(Ensured, line) ELSE refused
      /\ UNCHANGED <<created, connected, writer, toServer, serverList, online>>
  BY DEF ClientReceive, Heard
<1>2. /\ toServer \in Seq(Lines) /\ toClient \in Seq(Answers) /\ serverList \in SUBSET Nicks
      /\ advertised \in BOOLEAN /\ refused \in SUBSET Nicks /\ Proper(mon) /\ created \in BOOLEAN
  BY DEF ListInv, Typed
<1>3. /\ Tail(toClient) \in Seq(Answers) /\ line \in Answers /\ line = toClient[1]
  BY <1>1, <1>2, TailFacts
<1>4. OffersFresh(toServer, Tail(toClient), Heard(line, advertised))
  <2>1. OffersFresh(toServer, toClient, advertised)
    BY DEF ListInv
  <2>2. OffersFresh(toServer, Tail(toClient), Heard(toClient[1], advertised))
    BY <1>1, <1>2, <2>1, OffersPassed
  <2> QED BY <1>3, <2>2
<1>5. Heard(line, advertised) \in BOOLEAN
  BY DEF Heard
<1>6. Proper(r) /\ InStep(r, toServer, Tail(toClient), serverList, Heard(line, advertised))
  <2> HIDE DEF line
  <2>1. CASE created
    <3>1. Proper(Receive(Ensured, line))
      BY <1>3, EnsuredInStep, ReceiveProper
    <3>2. InStep(Receive(Ensured, toClient[1]), toServer, Tail(toClient), serverList,
                 Heard(toClient[1], advertised))
      BY <1>1, <1>2, EnsuredInStep, ReceiveInStep DEF ListInv
    <3> QED BY <1>3, <2>1, <3>1, <3>2
  <2>2. CASE ~created
    <3>1. mon = Fresh /\ ~mon.support /\ ~mon.snapshot.open
      BY <2>2, TypeFacts DEF ListInv, Fresh
    <3>2. InStep(mon, toServer, toClient, serverList, advertised)
      BY DEF ListInv
    <3>3. CASE line.kind = "offered"
      <4>1. Heard(line, advertised) = TRUE
        BY <3>3 DEF Heard
      <4>2. InStep(mon, toServer, Tail(toClient), serverList, TRUE)
        BY <1>1, <1>2, <1>3, <3>1, <3>2, <3>3, OfferInStep DEF ListInv
      <4> QED BY <1>2, <2>2, <4>1, <4>2
    <3>4. CASE line.kind # "offered"
      <4>1. Heard(line, advertised) => advertised
        BY <3>4 DEF Heard
      <4> DEFINE adv2 == Heard(line, advertised)
      <4> HIDE DEF adv2
      <4>2. adv2 \in BOOLEAN /\ (adv2 => advertised)
        BY <4>1, <1>5 DEF adv2
      <4>3. InStep(mon, toServer, Tail(toClient), serverList, adv2)
        BY <1>1, <1>2, <3>1, <3>2, <4>2, PassedInStep
      <4> QED BY <1>2, <2>2, <4>3 DEF adv2
    <3> QED BY <3>3, <3>4
  <2> QED BY <1>2, <2>1, <2>2
<1>7. refused' \in SUBSET Nicks
  <2>1. OverLimit(Ensured, line) \in SUBSET Nicks
    <3>1. /\ Ensured.queued \in Seq(Changes) /\ Ensured.snapshot.names \in SUBSET Nicks
          /\ Cardinality(Ensured.snapshot.names) <= MaxTargets
      BY EnsuredInStep, Fields DEF Proper
    <3>2. Adoption(Ensured, Ensured.snapshot.names).over \in SUBSET Nicks
      BY <3>1, AdoptionKeeps
    <3> QED BY <3>2 DEF OverLimit
  <2> QED BY <1>1, <1>2, <2>1
<1>8. ~created => r = Fresh
  BY DEF ListInv
<1> HIDE DEF r, line
<1>9. Typed'
  BY <1>1, <1>2, <1>3, <1>5, <1>6, <1>7 DEF ListInv, Typed
<1>10. Offline'
  <2>1. connected => connected'
    BY <1>1
  <2>2. ~connected => FALSE
    BY <1>1 DEF ListInv, Offline
  <2> QED BY <2>1, <2>2 DEF Offline
<1> QED BY <1>1, <1>4, <1>6, <1>8, <1>9, <1>10 DEF ListInv

\* What the server answers to anything but a listing.
LEMMA StatusFacts ==
  ASSUME NEW names \in SUBSET Nicks
  PROVE  /\ Status(names) \in Seq(Answers) /\ Aside(Status(names)) /\ ~Offers(Status(names))
         /\ \A i \in 1..Len(Status(names)) : Status(names)[i].kind \in {"online", "offline"}
<1> DEFINE on == names \cap online
           off == names \ online
           some(kind, ns) == IF ns = {} THEN <<>> ELSE <<[kind |-> kind, names |-> ns]>>
<1>1. on \in SUBSET Nicks /\ off \in SUBSET Nicks
  OBVIOUS
<1>2. Status(names) = some("online", on) \o some("offline", off)
  BY DEF Status
<1> HIDE DEF on, off
<1>3. some("online", on) \in Seq(Answers) /\ some("offline", off) \in Seq(Answers)
  <2>1. [kind |-> "online", names |-> on] \in Answers /\ [kind |-> "offline", names |-> off] \in Answers
    BY <1>1 DEF Answers
  <2>2. \A a \in Answers : <<a>> \in Seq(Answers)
    OBVIOUS
  <2>3. <<[kind |-> "online", names |-> on]>> \in Seq(Answers)
    BY <2>1, <2>2
  <2>4. <<[kind |-> "offline", names |-> off]>> \in Seq(Answers)
    BY <2>1, <2>2
  <2> QED BY <2>3, <2>4, EmptyFacts
<1>4. \A i \in 1..Len(some("online", on)) : some("online", on)[i].kind = "online"
  OBVIOUS
<1>5. \A i \in 1..Len(some("offline", off)) : some("offline", off)[i].kind = "offline"
  OBVIOUS
<1> HIDE DEF some
<1>6. /\ Status(names) \in Seq(Answers)
      /\ \A i \in 1..Len(Status(names)) : Status(names)[i].kind \in {"online", "offline"}
  BY <1>2, <1>3, <1>4, <1>5
<1> QED BY <1>6 DEF Aside, Offers

\* A step of the server that answers nothing of a listing.
LEMMA AnsweredKeeps ==
  ASSUME ListInv, toServer # <<>>, NEW extra \in Seq(Answers), Aside(extra), ~Offers(extra),
         serverList' \in SUBSET Nicks, refused' \in SUBSET Nicks,
         serverList' = serverList \/ Head(toServer).op \in {"+", "-"},
         toServer' = Tail(toServer), toClient' = toClient \o extra,
         UNCHANGED <<created, mon, connected, advertised, writer, online>>
  PROVE  ListInv'
<1>1. toServer \in Seq(Lines) /\ toClient \in Seq(Answers)
  BY DEF ListInv, Typed
<1>2. /\ Head(toServer) = toServer[1] /\ Tail(toServer) \in Seq(Lines)
      /\ Asks(Tail(toServer)) => Asks(toServer)
  BY <1>1, UpFacts
<1>3. InStep(mon, Tail(toServer), toClient, serverList', advertised)
  BY <1>1, <1>2, TakenInStep DEF ListInv
<1>4. InStep(mon, Tail(toServer), toClient \o extra, serverList', advertised)
  BY <1>1, <1>3, AsideInStep
<1>5. OffersFresh(Tail(toServer), toClient \o extra, advertised)
  <2>1. OffersFresh(Tail(toServer), toClient, advertised)
    BY <1>2 DEF ListInv, OffersFresh
  <2> QED BY <1>1, <2>1, OffersAside
<1>6. toClient' \in Seq(Answers)
  BY <1>1, ConcatFacts
<1>7. Typed'
  BY <1>2, <1>6 DEF ListInv, Typed
<1>8. Offline'
  BY DEF ListInv, Offline
<1> QED BY <1>4, <1>5, <1>7, <1>8 DEF ListInv
LEMMA ServerStepKeeps ==
  ASSUME ListInv, ServerStep
  PROVE  ListInv'
<1> DEFINE command == Head(toServer)
<1>1. /\ toServer # <<>> /\ toServer' = Tail(toServer)
      /\ UNCHANGED <<created, mon, connected, advertised, writer, online, left, asked>>
  BY DEF ServerStep
<1>2. /\ toServer \in Seq(Lines) /\ toClient \in Seq(Answers)
      /\ serverList \in SUBSET Nicks /\ refused \in SUBSET Nicks
  BY DEF ListInv, Typed
<1>3. command \in Lines /\ command.names \in SUBSET Nicks
  <2>1. command \in Lines
    BY <1>1, <1>2, UpFacts
  <2> HIDE DEF command
  <2> QED BY <2>1 DEF Lines
<1> HIDE DEF command
<1>4. CASE Answer(<<[kind |-> "unavailable", names |-> {}]>>) /\ UNCHANGED <<serverList, refused>>
  <2> DEFINE extra == <<[kind |-> "unavailable", names |-> {}]>>
  <2>1. [kind |-> "unavailable", names |-> {}] \in Answers
    BY DEF Answers
  <2>2. extra \in Seq(Answers) /\ Aside(extra) /\ ~Offers(extra)
    <3>1. Len(extra) = 1 /\ extra[1].kind = "unavailable"
      OBVIOUS
    <3>2. extra \in Seq(Answers)
      BY <2>1
    <3> HIDE DEF extra
    <3> QED BY <3>1, <3>2 DEF Aside, Offers
  <2>3. toClient' = toClient \o extra
    BY <1>4 DEF Answer
  <2> HIDE DEF extra
  <2> QED BY <1>1, <1>2, <1>4, <2>2, <2>3, AnsweredKeeps
<1>5. CASE command.op = "L" /\ Answer(Listing) /\ UNCHANGED <<serverList, refused>>
  <2>1. toClient' = toClient \o Listing
    BY <1>5 DEF Answer
  <2>2. /\ InStep(mon, Tail(toServer), toClient \o Listing, serverList, advertised)
        /\ OffersFresh(Tail(toServer), toClient \o Listing, advertised)
    BY <1>1, <1>5, ListingInStep DEF ListInv, command
  <2>3. toClient' \in Seq(Answers) /\ toServer' \in Seq(Lines)
    BY <1>1, <1>2, <2>1, ConcatFacts, ListingFacts, UpFacts
  <2>4. Typed'
    BY <1>1, <1>5, <2>3 DEF ListInv, Typed
  <2>5. Offline'
    BY <1>1 DEF ListInv, Offline
  <2> QED BY <1>1, <1>5, <2>1, <2>2, <2>4, <2>5 DEF ListInv
<1>6. CASE command.op = "S" /\ Answer(Status(serverList)) /\ UNCHANGED <<serverList, refused>>
  <2>1. toClient' = toClient \o Status(serverList)
    BY <1>6 DEF Answer
  <2>2. /\ Status(serverList) \in Seq(Answers) /\ Aside(Status(serverList))
        /\ ~Offers(Status(serverList))
    BY <1>2, StatusFacts
  <2> QED BY <1>1, <1>2, <1>6, <2>1, <2>2, AnsweredKeeps
<1>7. CASE /\ command.op = "-" /\ Answer(<<>>) /\ serverList' = serverList \ command.names
           /\ UNCHANGED refused
  <2>1. toClient' = toClient \o <<>>
    BY <1>7 DEF Answer
  <2>2. Aside(<<>>) /\ ~Offers(<<>>)
    BY DEF Aside, Offers
  <2>3. serverList' \in SUBSET Nicks /\ refused' \in SUBSET Nicks /\ Head(toServer).op = "-"
    BY <1>2, <1>7 DEF command
  <2> QED BY <1>1, <2>1, <2>2, <2>3, EmptyFacts, AnsweredKeeps
<1>8. ASSUME command.op = "+",
             NEW no \in SUBSET (command.names \ serverList), NEW full \in BOOLEAN,
             serverList' = serverList \cup (command.names \ no), refused' = refused \cup no,
             Answer(Status(command.names \ no) \o
                    (IF full THEN <<[kind |-> "full", names |-> no]>> ELSE <<>>))
      PROVE  ListInv'
  <2> DEFINE said == Status(command.names \ no)
             told == IF full THEN <<[kind |-> "full", names |-> no]>> ELSE <<>>
             extra == said \o told
  <2>1. toClient' = toClient \o extra
    BY <1>8 DEF Answer
  <2>2. said \in Seq(Answers) /\ Aside(said) /\ ~Offers(said)
    BY <1>3, StatusFacts
  <2>3. told \in Seq(Answers) /\ \A i \in 1..Len(told) : told[i].kind = "full"
    <3>1. [kind |-> "full", names |-> no] \in Answers
      BY <1>3 DEF Answers
    <3>2. <<[kind |-> "full", names |-> no]>> \in Seq(Answers)
      BY <3>1
    <3> QED BY <3>2, EmptyFacts
  <2> HIDE DEF said, told
  <2>4. /\ extra \in Seq(Answers) /\ Len(extra) = Len(said) + Len(told)
        /\ Len(said) \in Nat /\ Len(told) \in Nat
        /\ \A i \in 1..Len(said) : extra[i] = said[i]
        /\ \A i \in 1..Len(told) : extra[Len(said) + i] = told[i]
        /\ \A i \in 1..Len(extra) : i \in 1..Len(said) \/ i - Len(said) \in 1..Len(told)
    BY <2>2, <2>3, ConcatFacts
  <2> HIDE DEF extra
  <2>5. \A i \in 1..Len(extra) : extra[i].kind \notin {"list", "end", "offered"}
    <3>1. SUFFICES ASSUME NEW i \in 1..Len(extra)
                   PROVE  extra[i].kind \notin {"list", "end", "offered"}
      OBVIOUS
    <3>2. CASE i \in 1..Len(said)
      BY <3>2, <2>2, <2>4 DEF Aside, Offers
    <3>3. CASE i - Len(said) \in 1..Len(told)
      <4>1. extra[Len(said) + (i - Len(said))] = told[i - Len(said)]
        BY <2>4, <3>3
      <4>2. Len(said) + (i - Len(said)) = i
        BY <2>4
      <4> QED BY <4>1, <4>2, <3>3, <2>3
    <3> QED BY <3>2, <3>3, <2>4
  <2>6. Aside(extra) /\ ~Offers(extra)
    BY <2>5 DEF Aside, Offers
  <2>7. serverList' \in SUBSET Nicks /\ refused' \in SUBSET Nicks /\ Head(toServer).op = "+"
    BY <1>2, <1>3, <1>8 DEF command
  <2> QED BY <1>1, <2>1, <2>4, <2>6, <2>7, AnsweredKeeps
<1> QED BY <1>4, <1>5, <1>6, <1>7, <1>8 DEF ServerStep, command
LEMMA DisconnectKeeps ==
  ASSUME ListInv, Disconnect
  PROVE  ListInv'
<1> DEFINE r == IF created THEN ResetTransport(mon) ELSE mon
<1>1. /\ mon' = r /\ connected' = FALSE /\ advertised' = FALSE
      /\ toServer' = <<>> /\ toClient' = <<>>
      /\ UNCHANGED <<created, writer, serverList, online, refused>>
  BY DEF Disconnect, server
<1>2. Proper(mon) /\ (~created => mon = Fresh) /\ Proper(r)
  <2>1. Proper(mon) /\ (~created => mon = Fresh)
    BY DEF ListInv, Typed
  <2> QED BY <2>1, ResetProper
<1>3. InStep(r, <<>>, <<>>, serverList, FALSE)
  <2>1. /\ InStep(ResetTransport(mon), <<>>, <<>>, serverList, FALSE)
        /\ InStep(Fresh, <<>>, <<>>, serverList, FALSE)
    BY <1>2, EmptyFacts, ResetInStep
  <2> QED BY <1>2, <2>1
<1>4. ~created => r = Fresh
  BY <1>2
<1> HIDE DEF r
<1>5. Typed'
  BY <1>1, <1>2, EmptyFacts DEF ListInv, Typed
<1> QED BY <1>1, <1>3, <1>4, <1>5, EmptyFacts DEF ListInv, Offline

LEMMA ReconnectKeeps ==
  ASSUME ListInv, Reconnect
  PROVE  ListInv'
<1> DEFINE r == IF created THEN ResetTransport(mon) ELSE mon
           offer == <<[kind |-> "offered", names |-> {}]>>
<1>1. /\ ~connected /\ connected' = TRUE /\ writer' = TRUE /\ mon' = r
      /\ serverList' \in {serverList, {}} /\ toClient' = offer
      /\ UNCHANGED <<created, advertised, toServer, online, refused>>
  BY DEF Reconnect
<1>2. toServer = <<>> /\ ~advertised
  BY <1>1 DEF ListInv, Offline
<1>3. Proper(mon) /\ (~created => mon = Fresh) /\ Proper(r)
  <2>1. Proper(mon) /\ (~created => mon = Fresh)
    BY DEF ListInv, Typed
  <2> QED BY <2>1, ResetProper
<1>4. /\ offer \in Seq(Answers) /\ ~Listings(offer)
      /\ OffersFresh(<<>>, offer, FALSE)
  <2>1. [kind |-> "offered", names |-> {}] \in Answers
    BY DEF Answers
  <2>2. offer \in Seq(Answers) /\ Len(offer) = 1 /\ offer[1].kind = "offered"
    BY <2>1
  <2> HIDE DEF offer
  <2>3. ~Listings(offer)
    BY <2>2 DEF Listings
  <2> QED BY <2>2, <2>3, EmptyFacts DEF OffersFresh
<1> HIDE DEF offer
<1>5. InStep(r, <<>>, offer, serverList', FALSE)
  <2>1. /\ InStep(ResetTransport(mon), <<>>, offer, serverList', FALSE)
        /\ InStep(Fresh, <<>>, offer, serverList', FALSE)
    BY <1>3, <1>4, ResetInStep
  <2> QED BY <1>3, <2>1
<1>6. ~created => r = Fresh
  BY <1>3
<1> HIDE DEF r
<1>7. serverList' \in SUBSET Nicks
  BY <1>1 DEF ListInv, Typed
<1>8. Typed'
  BY <1>1, <1>3, <1>4, <1>7 DEF ListInv, Typed
<1>9. advertised' = FALSE
  BY <1>1, <1>2 DEF ListInv, Typed
<1> QED BY <1>1, <1>2, <1>4, <1>5, <1>6, <1>8, <1>9 DEF ListInv, Offline

\* Of the lines on their way the server only gets the first ones.
LEMMA WriterDiesKeeps ==
  ASSUME ListInv, WriterDies
  PROVE  ListInv'
<1>1. /\ connected /\ writer' = FALSE
      /\ UNCHANGED <<created, mon, connected, advertised, toClient, serverList, online, refused>>
  BY DEF WriterDies, server
<1>2. PICK n \in 0..Len(toServer) : toServer' = SubSeq(toServer, 1, n)
  BY DEF WriterDies
<1>3. toServer \in Seq(Lines) /\ Len(toServer) \in Nat
  BY DEF ListInv, Typed
<1>4. /\ toServer' \in Seq(Lines) /\ Len(toServer') = n
      /\ \A i \in 1..n : toServer'[i] = toServer[i] /\ i \in 1..Len(toServer)
  <2> DEFINE up == SubSeq(toServer, 1, n)
  <2>1. /\ up \in Seq(Lines) /\ Len(up) = n
        /\ \A i \in 1..n : up[i] = toServer[i]
    BY <1>3
  <2>2. \A i \in 1..n : i \in 1..Len(toServer)
    BY <1>3
  <2> QED BY <1>2, <2>1, <2>2
<1>5. (Asks(toServer') => Asks(toServer)) /\ (Edits(toServer') => Edits(toServer))
  BY <1>4 DEF Asks, Edits
<1>6. toServer = <<>> => toServer' = <<>>
  BY <1>3, <1>4
<1>7. InStep(mon, toServer', toClient, serverList, advertised)
  <2>1. InStep(mon, toServer, toClient, serverList, advertised)
    BY DEF ListInv
  <2>2. Unsupported(mon) /\ Abandoned(mon, toServer', toClient, advertised)
        /\ Believed(mon, toServer', serverList)
    BY <1>5, <2>1 DEF InStep, Abandoned, Believed
  <2>3. ASSUME mon.snapshot.open PROVE Awaited(mon, toServer', toClient, serverList)
    <3>1. Awaited(mon, toServer, toClient, serverList)
      BY <2>1 DEF InStep
    <3>2. ASSUME NEW i \in 1..Len(toServer'), toServer'[i].op = "L"
          PROVE  i = Len(toServer') /\ ~Listings(toClient) /\ mon.snapshot.names = {}
      <4>1. i \in 1..Len(toServer) /\ toServer[i].op = "L"
        BY <1>4, <3>2
      <4>2. i = Len(toServer) /\ ~Listings(toClient) /\ mon.snapshot.names = {}
        BY <2>3, <3>1, <4>1 DEF Awaited
      <4> QED BY <4>2, <1>3, <1>4, <3>2
    <3> QED BY <2>3, <3>1, <3>2, <1>6 DEF Awaited
  <2> QED BY <2>2, <2>3 DEF InStep, Awaited
<1>8. OffersFresh(toServer', toClient, advertised)
  BY <1>5 DEF ListInv, OffersFresh
<1>9. Typed'
  BY <1>1, <1>4 DEF ListInv, Typed
<1>10. Offline'
  BY <1>1 DEF Offline
<1> QED BY <1>1, <1>7, <1>8, <1>9, <1>10 DEF ListInv

\* The server says something by itself that is none of a listing's.
LEMMA ToldKeeps ==
  ASSUME ListInv, connected, NEW extra \in Seq(Answers), Aside(extra),
         OffersFresh(toServer, toClient \o extra, advertised),
         toClient' = toClient \o extra, online' \in SUBSET Nicks,
         UNCHANGED <<created, mon, connected, advertised, writer, toServer, serverList, refused>>
  PROVE  ListInv'
<1>1. toClient \in Seq(Answers)
  BY DEF ListInv, Typed
<1>2. InStep(mon, toServer, toClient \o extra, serverList, advertised)
  BY <1>1, AsideInStep DEF ListInv
<1>3. toClient' \in Seq(Answers)
  BY <1>1, ConcatFacts
<1>4. Typed'
  BY <1>3 DEF ListInv, Typed
<1>5. Offline'
  BY DEF Offline
<1> QED BY <1>2, <1>4, <1>5 DEF ListInv

LEMMA OneAnswer ==
  ASSUME NEW a \in Answers, a.kind \notin {"list", "end"}
  PROVE  /\ <<a>> \in Seq(Answers) /\ Aside(<<a>>)
         /\ a.kind # "offered" => ~Offers(<<a>>)
<1>1. Len(<<a>>) = 1 /\ <<a>>[1] = a /\ <<a>> \in Seq(Answers)
  OBVIOUS
<1> QED BY <1>1 DEF Aside, Offers

LEMMA FlipKeeps ==
  ASSUME ListInv, NEW n \in Nicks, Flip(n)
  PROVE  ListInv'
<1> DEFINE a == [kind |-> IF n \in online THEN "offline" ELSE "online", names |-> {n}]
<1>1. UNCHANGED <<created, mon, connected, advertised, writer, toServer, serverList, refused>>
      /\ online' \in SUBSET Nicks
  <2>1. online \in SUBSET Nicks
    BY DEF ListInv, Typed
  <2> QED BY <2>1 DEF Flip
<1>2. toClient' = IF n \in serverList /\ connected THEN Append(toClient, a) ELSE toClient
  BY DEF Flip
<1>3. a \in Answers /\ a.kind \in {"online", "offline"}
  BY DEF Answers
<1>4. toClient \in Seq(Answers)
  BY DEF ListInv, Typed
<1> HIDE DEF a
<1>5. CASE n \in serverList /\ connected
  <2>1. toClient' = toClient \o <<a>>
    BY <1>2, <1>3, <1>4, <1>5
  <2>2. <<a>> \in Seq(Answers) /\ Aside(<<a>>) /\ ~Offers(<<a>>)
    BY <1>3, OneAnswer
  <2>3. OffersFresh(toServer, toClient \o <<a>>, advertised)
    BY <1>4, <2>2, OffersAside DEF ListInv
  <2> QED BY <1>1, <1>5, <2>1, <2>2, <2>3, ToldKeeps
<1>6. CASE ~(n \in serverList /\ connected)
  <2>1. toClient' = toClient
    BY <1>2, <1>6
  <2>2. Typed'
    BY <1>1, <2>1 DEF ListInv, Typed
  <2>3. Offline'
    BY <1>1, <2>1 DEF ListInv, Offline
  <2> QED BY <1>1, <2>1, <2>2, <2>3 DEF ListInv
<1> QED BY <1>5, <1>6

LEMMA WithdrawKeeps ==
  ASSUME ListInv, Withdraw
  PROVE  ListInv'
<1> DEFINE a == [kind |-> "withdrawn", names |-> {}]
<1>1. /\ connected /\ toClient' = toClient \o <<a>>
      /\ UNCHANGED <<created, mon, connected, advertised, writer, toServer, serverList, refused, online>>
  BY DEF Withdraw, Answer, server
<1>2. a \in Answers /\ a.kind = "withdrawn"
  BY DEF Answers
<1>3. toClient \in Seq(Answers) /\ online' \in SUBSET Nicks
  BY <1>1 DEF ListInv, Typed
<1> HIDE DEF a
<1>4. <<a>> \in Seq(Answers) /\ Aside(<<a>>) /\ ~Offers(<<a>>)
  BY <1>2, OneAnswer
<1>5. OffersFresh(toServer, toClient \o <<a>>, advertised)
  BY <1>3, <1>4, OffersAside DEF ListInv
<1> QED BY <1>1, <1>3, <1>4, <1>5, ToldKeeps

\* Support that comes back when no listing is under way: a listing asked for
\* under the support that was withdrawn has been answered or refused before.
LEMMA RestoreKeeps ==
  ASSUME ListInv, ~overlapped', Restore
  PROVE  ListInv'
<1> DEFINE a == [kind |-> "offered", names |-> {}]
           all == toClient \o <<a>>
<1>1. /\ connected /\ toClient' = all
      /\ WithdrawalSeen /\ ~ListingUnderway
      /\ UNCHANGED <<created, mon, connected, advertised, writer, toServer, serverList, refused, online>>
  BY DEF Restore, Answer, server
<1>2. a \in Answers /\ a.kind = "offered"
  BY DEF Answers
<1>3. toClient \in Seq(Answers) /\ online' \in SUBSET Nicks
  BY <1>1 DEF ListInv, Typed
<1> HIDE DEF a
<1>4. <<a>> \in Seq(Answers) /\ Aside(<<a>>)
  BY <1>2, OneAnswer
<1>5. ~advertised /\ ~Asks(toServer) /\ ~Listings(toClient)
  BY <1>1 DEF WithdrawalSeen, ListingUnderway, Asks, Listings
<1>6. ~Listings(all)
  BY <1>3, <1>4, <1>5, AsideFacts
<1>7. \A i \in 1..Len(all) : all[i].kind = "offered" => i = Len(toClient) + 1
  <2>1. /\ Len(all) = Len(toClient) + 1 /\ Len(toClient) \in Nat
        /\ \A i \in 1..Len(toClient) : all[i] = toClient[i]
    BY <1>2, <1>3, <1>4
  <2> HIDE DEF all
  <2>2. \A i \in 1..Len(toClient) : toClient[i].kind # "offered"
    BY <1>1 DEF WithdrawalSeen
  <2>3. \A i \in 1..Len(all) : i \in 1..Len(toClient) \/ i = Len(toClient) + 1
    BY <2>1
  <2> QED BY <2>1, <2>2, <2>3
<1>8. OffersFresh(toServer, all, advertised)
  BY <1>5, <1>6, <1>7 DEF OffersFresh
<1> QED BY <1>1, <1>3, <1>4, <1>8, ToldKeeps

-----------------------------------------------------------------------------
(* The theorems.                                                           *)

\* Whether a listing was ever overlapped is remembered.
LEMMA OverlapStays ==
  ASSUME [Next]_vars
  PROVE  overlapped' = overlapped \/ overlapped' = TRUE
<1>1. CASE \E expires, waited \in BOOLEAN : Tick(expires, waited)
  BY <1>1 DEF Tick
<1>2. CASE \E change \in Changes : ChangeTargets(change)
  BY <1>2 DEF ChangeTargets
<1>3. CASE \E field \in {"list", "status"} : Query(field)
  BY <1>3 DEF Query
<1>4. CASE ClientReceive
  BY <1>4 DEF ClientReceive
<1>5. CASE ServerStep
  BY <1>5 DEF ServerStep
<1>6. CASE Disconnect \/ Reconnect \/ WriterDies
  BY <1>6 DEF Disconnect, Reconnect, WriterDies
<1>7. CASE \E n \in Nicks : Flip(n)
  BY <1>7 DEF Flip
<1>8. CASE Withdraw \/ Restore
  BY <1>8 DEF Withdraw, Restore
<1>9. CASE UNCHANGED vars
  BY <1>9 DEF vars
<1> QED BY <1>1, <1>2, <1>3, <1>4, <1>5, <1>6, <1>7, <1>8, <1>9 DEF Next

LEMMA ListStep ==
  ASSUME ListInv, [Next]_vars, ~overlapped'
  PROVE  ListInv'
<1>1. CASE \E expires, waited \in BOOLEAN : Tick(expires, waited)
  BY <1>1, TickKeeps
<1>2. CASE \E change \in Changes : ChangeTargets(change)
  BY <1>2, ChangeTargetsKeeps
<1>3. CASE \E field \in {"list", "status"} : Query(field)
  BY <1>3, QueryKeeps
<1>4. CASE ClientReceive
  BY <1>4, ClientReceiveKeeps
<1>5. CASE ServerStep
  BY <1>5, ServerStepKeeps
<1>6. CASE Disconnect
  BY <1>6, DisconnectKeeps
<1>7. CASE Reconnect
  BY <1>7, ReconnectKeeps
<1>8. CASE WriterDies
  BY <1>8, WriterDiesKeeps
<1>9. CASE \E n \in Nicks : Flip(n)
  BY <1>9, FlipKeeps
<1>10. CASE Withdraw
  BY <1>10, WithdrawKeeps
<1>11. CASE Restore
  BY <1>11, RestoreKeeps
<1>12. CASE UNCHANGED vars
  <2>1. UNCHANGED <<created, mon, connected, advertised, writer, toServer, toClient,
                    serverList, online, refused>>
    BY <1>12 DEF vars
  <2>2. Typed' /\ Offline'
    BY <2>1 DEF ListInv, Typed, Offline
  <2> QED BY <2>1, <2>2 DEF ListInv
<1> QED BY <1>1, <1>2, <1>3, <1>4, <1>5, <1>6, <1>7, <1>8, <1>9, <1>10, <1>11, <1>12 DEF Next

\* One turn of the loop keeps to the types, whatever is on its way.
LEMMA SendOneProper ==
  ASSUME NEW t, Proper(t[1]), t[2] \in Seq(Lines), writer \in BOOLEAN, NEW waited \in BOOLEAN
  PROVE  Proper(SendOne(t, waited)[1]) /\ SendOne(t, waited)[2] \in Seq(Lines)
<1> DEFINE command == NextCommand(t[1], waited)
           sent == Sent(t[1], command, writer)
           more == IF writer THEN Append(t[2], command) ELSE t[2]
<1>1. CASE command = NoChange
  BY <1>1 DEF SendOne
<1>2. CASE command # NoChange
  <2>1. command \in Lines
    BY <1>2, NextCommandType
  <2>2. Proper(sent) /\ SendOne(t, waited) = <<sent, more>>
    BY <1>2, <2>1, SentProper DEF SendOne
  <2> HIDE DEF command, sent
  <2>3. more \in Seq(Lines)
    BY <2>1
  <2> QED BY <2>2, <2>3
<1> QED BY <1>1, <1>2

LEMMA TickedProper ==
  ASSUME NEW m, Proper(m), writer \in BOOLEAN, NEW expires \in BOOLEAN, NEW waited \in BOOLEAN
  PROVE  Proper(Ticked(m, expires, waited)[1]) /\ Ticked(m, expires, waited)[2] \in Seq(Lines)
<1> DEFINE e == IF expires THEN [m EXCEPT !.snapshot.expired = TRUE] ELSE m
           none == <<e, <<>>>>
           once == SendOne(none, waited)
           twice == SendOne(once, waited)
<1>1. Proper(e)
  <2>1. m \in Managers /\ m.snapshot \in Snapshots
    BY Fields DEF Proper
  <2>2. e \in Managers
    BY <2>1 DEF Managers, Snapshots
  <2>3. /\ e.wanted = m.wanted /\ e.queued = m.queued
        /\ e.snapshot.names = m.snapshot.names
    BY <2>1 DEF Managers, Snapshots
  <2> HIDE DEF e
  <2> QED BY <2>2, <2>3 DEF Proper
<1>2. Proper(none[1]) /\ none[2] \in Seq(Lines)
  BY <1>1, EmptyFacts
<1> HIDE DEF none
<1>3. Proper(once[1]) /\ once[2] \in Seq(Lines)
  BY <1>2, SendOneProper
<1> HIDE DEF once
<1>4. Proper(twice[1]) /\ twice[2] \in Seq(Lines)
  BY <1>3, SendOneProper
<1>5. Ticked(m, expires, waited) \in {none, once, twice}
  BY DEF Ticked, none, once
<1> QED BY <1>2, <1>3, <1>4, <1>5

LEMMA TypedStep ==
  Typed /\ [Next]_vars => Typed'
<1> SUFFICES ASSUME Typed, [Next]_vars PROVE Typed'
  OBVIOUS
<1> USE DEF Typed
<1>1. Proper(Ensured) /\ toServer \in Seq(Lines) /\ toClient \in Seq(Answers)
  BY SetSupportedProper DEF Ensured
<1>2. ASSUME NEW m, Proper(m), NEW expires \in BOOLEAN, NEW waited \in BOOLEAN,
             Apply(Ticked(m, expires, waited))
      PROVE  Proper(mon') /\ toServer' \in Seq(Lines)
  <2>1. /\ Proper(Ticked(m, expires, waited)[1])
        /\ Ticked(m, expires, waited)[2] \in Seq(Lines)
    BY <1>2, TickedProper
  <2> QED BY <1>1, <1>2, <2>1 DEF Apply
<1>3. ASSUME NEW expires \in BOOLEAN, NEW waited \in BOOLEAN, Tick(expires, waited)
      PROVE  Typed'
  <2>1. Proper(mon') /\ toServer' \in Seq(Lines)
    BY <1>1, <1>2, <1>3 DEF Tick
  <2> QED BY <1>3, <2>1 DEF Tick, server
<1>4. ASSUME NEW change \in Changes, ChangeTargets(change) PROVE Typed'
  <2>1. Proper(Change(Ensured, change))
    BY <1>1, ChangeProper
  <2>2. Proper(mon') /\ toServer' \in Seq(Lines)
    BY <1>1, <1>2, <1>4, <2>1 DEF ChangeTargets
  <2> QED BY <1>4, <2>2 DEF ChangeTargets, server
<1>5. ASSUME NEW field \in {"list", "status"}, Query(field) PROVE Typed'
  <2> DEFINE r == IF field = "list" THEN [Ensured EXCEPT !.showList = TRUE]
                                     ELSE [Ensured EXCEPT !.askStatus = TRUE]
  <2>1. Apply(Ticked(r, FALSE, FALSE))
    BY <1>5 DEF Query
  <2>2. Ensured \in Managers
    BY <1>1 DEF Proper
  <2>3. /\ r \in Managers /\ r.wanted = Ensured.wanted /\ r.queued = Ensured.queued
        /\ r.snapshot = Ensured.snapshot
    BY <2>2 DEF Managers
  <2> HIDE DEF r
  <2>4. Proper(r)
    BY <1>1, <2>3, NarrowedProper
  <2>5. Proper(mon') /\ toServer' \in Seq(Lines)
    BY <1>2, <2>1, <2>4
  <2> QED BY <1>5, <2>5 DEF Query, server
<1>6. ASSUME ClientReceive PROVE Typed'
  <2>1. Head(toClient) \in Answers /\ toClient' \in Seq(Answers)
    BY <1>1, <1>6, TailFacts DEF ClientReceive
  <2>2. Proper(Receive(Ensured, Head(toClient)))
    BY <1>1, <2>1, ReceiveProper
  <2>3. Adoption(Ensured, Ensured.snapshot.names).over \in SUBSET Nicks
    BY <1>1, Fields, AdoptionKeeps DEF Proper
  <2>4. OverLimit(Ensured, Head(toClient)) \in SUBSET Nicks
    BY <2>3 DEF OverLimit
  <2>5. Proper(mon') /\ refused' \in SUBSET Nicks
    BY <1>6, <2>2, <2>4 DEF ClientReceive
  <2>6. advertised' \in BOOLEAN
    BY <1>6 DEF ClientReceive
  <2> QED BY <1>6, <2>1, <2>5, <2>6 DEF ClientReceive
<1>7. ASSUME ServerStep PROVE Typed'
  <2>1. toServer # <<>> /\ toServer' = Tail(toServer)
        /\ UNCHANGED <<created, mon, connected, advertised, writer, online>>
    BY <1>7 DEF ServerStep
  <2>2. Tail(toServer) \in Seq(Lines) /\ Head(toServer) \in Lines
    BY <1>1, <2>1, UpFacts
  <2>3. Head(toServer).names \in SUBSET Nicks
    BY <2>2 DEF Lines
  <2>4. serverList' \in SUBSET Nicks /\ refused' \in SUBSET Nicks
    BY <1>7, <2>3 DEF ServerStep
  <2>5. \A names \in SUBSET Nicks : Status(names) \in Seq(Answers)
    BY StatusFacts
  <2>6. \E extra \in Seq(Answers) : toClient' = toClient \o extra
    <3>1. \A kind \in {"unavailable", "full"}, names \in SUBSET Nicks :
            <<[kind |-> kind, names |-> names]>> \in Seq(Answers)
      <4>1. \A kind \in {"unavailable", "full"}, names \in SUBSET Nicks :
              [kind |-> kind, names |-> names] \in Answers
        BY DEF Answers
      <4> QED BY <4>1
    <3>2. Listing \in Seq(Answers) /\ <<>> \in Seq(Answers)
      BY ListingFacts, EmptyFacts
    <3>3. CASE Head(toServer).op = "+" /\
              \E no \in SUBSET (Head(toServer).names \ serverList), full \in BOOLEAN :
                Answer(Status(Head(toServer).names \ no) \o
                       (IF full THEN <<[kind |-> "full", names |-> no]>> ELSE <<>>))
      <4>1. PICK no \in SUBSET (Head(toServer).names \ serverList), full \in BOOLEAN :
                Answer(Status(Head(toServer).names \ no) \o
                       (IF full THEN <<[kind |-> "full", names |-> no]>> ELSE <<>>))
        BY <3>3
      <4> DEFINE told == IF full THEN <<[kind |-> "full", names |-> no]>> ELSE <<>>
                 said == Status(Head(toServer).names \ no)
      <4>2. told \in Seq(Answers) /\ said \in Seq(Answers)
        BY <2>3, <2>5, <3>1, <3>2
      <4>3. said \o told \in Seq(Answers)
        <5> HIDE DEF said, told
        <5> QED BY <4>2
      <4> QED BY <4>1, <4>3 DEF Answer
    <3>4. CASE \/ Answer(<<[kind |-> "unavailable", names |-> {}]>>) \/ Answer(Listing)
              \/ Answer(Status(serverList)) \/ Answer(<<>>)
      <4>1. <<[kind |-> "unavailable", names |-> {}]>> \in Seq(Answers)
        BY <3>1
      <4> QED BY <3>2, <3>4, <4>1, <2>5 DEF Answer
    <3> QED BY <1>7, <3>3, <3>4 DEF ServerStep
  <2>7. toClient' \in Seq(Answers)
    BY <1>1, <2>6, ConcatFacts
  <2> QED BY <2>1, <2>2, <2>4, <2>7
<1>8. ASSUME Disconnect \/ Reconnect PROVE Typed'
  <2>1. Proper(mon')
    BY <1>8, ResetProper DEF Disconnect, Reconnect
  <2>2. [kind |-> "offered", names |-> {}] \in Answers
    BY DEF Answers
  <2>3. <<[kind |-> "offered", names |-> {}]>> \in Seq(Answers)
    BY <2>2
  <2>4. toClient' \in Seq(Answers) /\ toServer' \in Seq(Lines)
    BY <1>1, <1>8, <2>3, EmptyFacts DEF Disconnect, Reconnect
  <2> QED BY <1>8, <2>1, <2>4 DEF Disconnect, Reconnect, server
<1>9. ASSUME WriterDies PROVE Typed'
  <2>1. toServer' \in Seq(Lines)
    BY <1>1, <1>9 DEF WriterDies
  <2> QED BY <1>9, <2>1 DEF WriterDies, server
<1>10. ASSUME NEW n \in Nicks, Flip(n) PROVE Typed'
  <2> DEFINE a == [kind |-> IF n \in online THEN "offline" ELSE "online", names |-> {n}]
  <2>1. a \in Answers
    BY DEF Answers
  <2>2. toClient' \in {Append(toClient, a), toClient}
    BY <1>10 DEF Flip
  <2> HIDE DEF a
  <2>3. toClient' \in Seq(Answers)
    BY <1>1, <2>1, <2>2
  <2> QED BY <1>10, <2>3 DEF Flip
<1>11. ASSUME Withdraw \/ Restore PROVE Typed'
  <2>1. PICK kind \in {"offered", "withdrawn"} : toClient' = toClient \o <<[kind |-> kind, names |-> {}]>>
    BY <1>11 DEF Withdraw, Restore, Answer
  <2>2. [kind |-> kind, names |-> {}] \in Answers
    BY DEF Answers
  <2>3. <<[kind |-> kind, names |-> {}]>> \in Seq(Answers)
    BY <2>2
  <2>4. toClient' \in Seq(Answers)
    BY <1>1, <2>1, <2>3, ConcatFacts
  <2> QED BY <1>11, <2>4 DEF Withdraw, Restore, server
<1>12. CASE UNCHANGED vars
  BY <1>12 DEF vars
<1> QED BY <1>3, <1>4, <1>5, <1>6, <1>7, <1>8, <1>9, <1>10, <1>11, <1>12 DEF Next

\* Whatever the server does, the manager keeps to its types and to the limit:
\* neither a list it is sent nor what was queued makes it want more.
THEOREM MonitorTypeOK == Spec => []TypeOK
<1>1. Init => Typed
  BY ListInit DEF ListInv
<1>2. Typed /\ overlapped \in BOOLEAN => TypeOK
  <2> SUFFICES ASSUME Typed, overlapped \in BOOLEAN PROVE TypeOK
    OBVIOUS
  <2>1. mon \in Managers /\ Proper(mon)
    BY DEF Typed, Proper
  <2>2. /\ {mon.support, mon.blocked, mon.retry, mon.showList, mon.askStatus} \subseteq BOOLEAN
        /\ mon.peers \in [Nicks -> {"unknown", "online", "offline"}]
        /\ mon.queued \in Seq(Changes)
    BY <2>1 DEF Managers
  <2>3. \A list \in {mon.wanted, mon.confirmed} : list = NoList \/ list \subseteq Nicks
    BY <2>1, Fields DEF MaybeLists
  <2>4. mon.wanted # NoList => mon.queued = <<>> /\ Cardinality(mon.wanted) <= MaxTargets
    BY <2>1 DEF Proper
  <2>5. mon.snapshot.names \subseteq Nicks /\ mon.submitted \in Lines \cup {NoChange}
    BY <2>1, Fields
  <2>6. Range(mon.queued) \subseteq Changes
    BY <2>2 DEF Range
  <2>7. Range(toServer) \subseteq Lines
    BY DEF Typed, Range
  <2>8. serverList \cup refused \cup online \subseteq Nicks
        /\ {created, connected, advertised, writer} \subseteq BOOLEAN
    BY DEF Typed
  <2> QED BY <2>2, <2>3, <2>4, <2>5, <2>6, <2>7, <2>8 DEF TypeOK
<1>3. Init => overlapped \in BOOLEAN
  BY DEF Init
<1>4. overlapped \in BOOLEAN /\ [Next]_vars => (overlapped \in BOOLEAN)'
  BY OverlapStays
<1> QED BY <1>1, <1>2, <1>3, <1>4, TypedStep, PTL DEF Spec

\* The client and the server keep in step about the list, however commands,
\* ticks, answers, notifications, lost connections, a writer that dies and
\* support that comes and goes interleave, until a listing is overlapped.
THEOREM MonitorInStep == Spec => [](~overlapped => ListInv)
<1>1. Init => (~overlapped => ListInv)
  BY ListInit
<1>2. (~overlapped => ListInv) /\ [Next]_vars => (~overlapped => ListInv)'
  BY ListStep, OverlapStays
<1> QED BY <1>1, <1>2, PTL DEF Spec

\* The server's list is only believed between the end of one listing and the
\* next change: what is confirmed is what the server has, until MONITOR comes
\* back during a listing.
THEOREM MonitorConfirmedCurrent == Spec => []ConfirmedCurrent
<1>1. (~overlapped => ListInv) => ConfirmedCurrent
  BY DEF ListInv, InStep, Believed, ConfirmedCurrent
<1> QED BY <1>1, MonitorInStep, PTL

-----------------------------------------------------------------------------
(* What the user asked for is what the manager wants.                      *)

Asked == [Nicks -> {"nothing", "add", "add again", "remove"}]
Nothing == [n \in Nicks |-> "nothing"]

\* A list that has what was added last, unless it was turned down, and has not
\* what was removed last.
Heeds(list, over, ask) ==
  \A n \in Nicks : /\ ask[n] \in {"add", "add again"} => n \in list \cup over
                   /\ ask[n] = "remove" => n \notin list

\* A list that has whatever of `names` nobody ever asked to remove.
Spares(names, list, ask) == \A n \in names : ask[n] \in {"nothing", "add"} => n \in list

\* What is wanted, or will be, whatever list the server turns out to have.
Wishes(m, ask, ref) ==
  /\ m.wanted # NoList => Heeds(m.wanted, ref, ask)
  /\ m.wanted = NoList => \A names \in SUBSET Nicks :
       LET a == Adoption(m, names) IN Heeds(a.list, a.over, ask) /\ Spares(names, a.list, ask)

Changing(up, op) == UNION {up[i].names : i \in {j \in 1..Len(up) : up[j].op = op}}

\* The server has, and is told to take up, nothing that is unwanted without
\* the user having said so; it is told to drop only what he said.
Spared(m, up, list, ask) ==
  /\ m.wanted # NoList => Spares(list \cup Changing(up, "+"), m.wanted, ask)
  /\ \A n \in Changing(up, "-") : ask[n] \in {"remove", "add again"}

\* One change is on its way at a time; what is refused is not in the list, and
\* nothing on its way brings it there.
OneEdit(up) == \A i, j \in 1..Len(up) : up[i].op \in {"+", "-"} /\ up[j].op \in {"+", "-"} => i = j

Refusals(m, up, down, list, ref) ==
  /\ OneEdit(up)
  /\ \A i \in 1..Len(down) : down[i].kind = "full" =>
       /\ down[i].names \subseteq ref \ list
       /\ m.confirmed = NoList /\ \A j \in 1..Len(up) : up[j].op # "+"
       /\ m.snapshot.open => \A j \in 1..Len(down) : down[j].kind = "end" => i < j

\* The change that was submitted is still to be carried out, before the listing
\* that tells how it went; or the server had no MONITOR when it came.
Pending(m, up, down) ==
  /\ ~Listings(down)
  /\ \E i \in 1..Len(up) : up[i] = m.submitted /\ \A j \in 1..Len(up) : up[j].op = "L" => i < j

Declined(down) ==
  \E i \in 1..Len(down) :
    down[i].kind = "unavailable" /\ \A j \in 1..Len(down) : down[j].kind \in {"list", "end"} => i < j

\* When a listing ends while it is awaited, the addition submitted before has
\* been carried out: what the list lacks was refused.
Fate(m, up, down, list, ref, wr) ==
  \/ Pending(m, up, down)
  \/ m.blocked /\ ~m.snapshot.open
  \/ /\ ~Edits(up)
     /\ \/ m.submitted.names \subseteq list \cup ref
        \/ ~Asks(up) /\ ~Listings(down) /\ ~wr
        \/ Declined(down)

Submission(m, up, down, list, ref, wr) ==
  m.submitted # NoChange =>
    /\ m.confirmed = NoList
    /\ m.submitted.op = "+" => Fate(m, up, down, list, ref, wr)

Loyal(m, up, down, list, ask, ref, wr) ==
  /\ Wishes(m, ask, ref) /\ Spared(m, up, list, ask)
  /\ Refusals(m, up, down, list, ref) /\ Submission(m, up, down, list, ref, wr)

HonourInv ==
  /\ ListInv
  /\ asked \in Asked /\ (~created => asked = Nothing)
  /\ Loyal(mon, toServer, toClient, serverList, asked, refused, writer)

-----------------------------------------------------------------------------
(* Changes that are applied, or queued, are heeded.                        *)

\* The new demand, after a change.
Asking(ask, change) ==
  [n \in Nicks |->
     CASE change.op = "add" /\ n \in change.names ->
            IF ask[n] \in {"nothing", "add"} THEN "add" ELSE "add again"
       [] (change.op = "remove" /\ n \in change.names) \/ change.op = "clear" -> "remove"
       [] OTHER -> ask[n]]

LEMMA AskingFacts ==
  ASSUME NEW ask \in Asked, NEW change \in Changes
  PROVE  /\ Asking(ask, change) \in Asked
         /\ \A n \in Nicks :
              /\ change.op = "add" /\ n \in change.names =>
                   Asking(ask, change)[n] = IF ask[n] \in {"nothing", "add"} THEN "add" ELSE "add again"
              /\ change.op = "remove" /\ n \in change.names => Asking(ask, change)[n] = "remove"
              /\ change.op = "clear" => Asking(ask, change)[n] = "remove"
              /\ change.op # "clear" /\ n \notin change.names => Asking(ask, change)[n] = ask[n]
<1>1. change.op \in {"add", "remove", "clear"}
  BY DEF Changes
<1>2. ASSUME NEW n \in Nicks
      PROVE  /\ change.op = "add" /\ n \in change.names =>
                   Asking(ask, change)[n] = IF ask[n] \in {"nothing", "add"} THEN "add" ELSE "add again"
             /\ change.op = "remove" /\ n \in change.names => Asking(ask, change)[n] = "remove"
             /\ change.op = "clear" => Asking(ask, change)[n] = "remove"
             /\ change.op # "clear" /\ n \notin change.names => Asking(ask, change)[n] = ask[n]
             /\ Asking(ask, change)[n] \in {"nothing", "add", "add again", "remove"}
  BY <1>1 DEF Asking, Asked
<1>3. Asking(ask, change) \in Asked
  <2>1. Asking(ask, change) = [n \in Nicks |-> Asking(ask, change)[n]]
    BY DEF Asking
  <2> QED BY <2>1, <1>2 DEF Asked
<1> QED BY <1>2, <1>3

\* A change within the limit is heeded by the list it is applied to.
LEMMA AppliedHeeds ==
  ASSUME NEW list \in SUBSET Nicks, NEW over, NEW ask \in Asked, NEW change \in Changes,
         Heeds(list, over, ask),
         change.op = "add" => Cardinality(list \cup change.names) <= MaxTargets
  PROVE  /\ Heeds(Applied(list, change), over, Asking(ask, change))
         /\ \A names \in SUBSET Nicks :
              Spares(names, list, ask) => Spares(names, Applied(list, change), Asking(ask, change))
<1> DEFINE ask2 == Asking(ask, change)
           list2 == Applied(list, change)
<1>1. change.op \in {"add", "remove", "clear"}
  BY DEF Changes
<1>2. list2 = CASE change.op = "add" -> list \cup change.names
                [] change.op = "remove" -> list \ change.names
                [] change.op = "clear" -> {}
  <2>1. Cardinality(list \cup change.names) \in Nat
    <3>1. list \cup change.names \in SUBSET Nicks
      BY DEF Changes
    <3> QED BY <3>1, Smaller
  <2> QED BY <1>1, <2>1, NoListFacts DEF Applied
<1>3. \A n \in Nicks :
        /\ change.op = "add" /\ n \in change.names =>
             ask2[n] = IF ask[n] \in {"nothing", "add"} THEN "add" ELSE "add again"
        /\ change.op = "remove" /\ n \in change.names => ask2[n] = "remove"
        /\ change.op = "clear" => ask2[n] = "remove"
        /\ change.op # "clear" /\ n \notin change.names => ask2[n] = ask[n]
  BY AskingFacts
<1> HIDE DEF ask2, list2
<1>4. Heeds(list2, over, ask2)
  BY <1>1, <1>2, <1>3 DEF Heeds
<1>5. ASSUME NEW names \in SUBSET Nicks, Spares(names, list, ask) PROVE Spares(names, list2, ask2)
  <2>1. CASE change.op = "add"
    BY <2>1, <1>2, <1>3, <1>5 DEF Spares
  <2>2. CASE change.op = "remove"
    BY <2>2, <1>2, <1>3, <1>5 DEF Spares
  <2>3. CASE change.op = "clear"
    BY <2>3, <1>3 DEF Spares
  <2> QED BY <1>1, <2>1, <2>2, <2>3
<1> QED BY <1>4, <1>5 DEF ask2, list2

\* A change that is queued is heeded once the queue is adopted.
LEMMA AdoptingHeeds ==
  ASSUME NEW a, a.list \in SUBSET Nicks, a.over \in SUBSET Nicks,
         NEW ask \in Asked, NEW change \in Changes, NEW names \in SUBSET Nicks,
         Heeds(a.list, a.over, ask), Spares(names, a.list, ask)
  PROVE  LET b == Adopting(a, change)
         IN  /\ Heeds(b.list, b.over, Asking(ask, change))
             /\ Spares(names, b.list, Asking(ask, change))
<1> DEFINE ask2 == Asking(ask, change)
           b == Adopting(a, change)
<1>1. change.op \in {"add", "remove", "clear"}
  BY DEF Changes
<1>2. CASE change.op = "add" => Cardinality(a.list \cup change.names) <= MaxTargets
  <2>1. /\ Heeds(Applied(a.list, change), a.over, ask2)
        /\ Spares(names, Applied(a.list, change), ask2)
    BY <1>2, AppliedHeeds
  <2>2. b.list = Applied(a.list, change) /\ a.over \subseteq b.over
    BY DEF Adopting
  <2> QED BY <2>1, <2>2 DEF Heeds
<1>3. CASE change.op = "add" /\ ~(Cardinality(a.list \cup change.names) <= MaxTargets)
  <2>1. Cardinality(a.list \cup change.names) > MaxTargets
    <3>1. a.list \cup change.names \in SUBSET Nicks
      BY DEF Changes
    <3>2. Cardinality(a.list \cup change.names) \in Nat
      BY <3>1, Smaller
    <3> QED BY <1>3, <3>2, NoListFacts
  <2>2. Applied(a.list, change) = a.list
    BY <1>3, <2>1 DEF Applied
  <2>3. b.list = a.list /\ b.over = a.over \cup (change.names \ a.list)
    BY <1>3, <2>2 DEF Adopting
  <2>4. \A n \in Nicks :
          /\ n \in change.names =>
               ask2[n] = IF ask[n] \in {"nothing", "add"} THEN "add" ELSE "add again"
          /\ n \notin change.names => ask2[n] = ask[n]
    <3>1. \A n \in Nicks :
            /\ change.op = "add" /\ n \in change.names =>
                 ask2[n] = IF ask[n] \in {"nothing", "add"} THEN "add" ELSE "add again"
            /\ change.op # "clear" /\ n \notin change.names => ask2[n] = ask[n]
      BY AskingFacts
    <3> HIDE DEF ask2
    <3> QED BY <1>3, <3>1
  <2> HIDE DEF ask2, b
  <2>5. Heeds(b.list, b.over, ask2)
    BY <2>3, <2>4 DEF Heeds
  <2>6. Spares(names, b.list, ask2)
    BY <2>3, <2>4 DEF Spares
  <2> QED BY <2>5, <2>6 DEF ask2, b
<1> QED BY <1>2, <1>3

LEMMA AdoptionFolds ==
  ASSUME NEW m, NEW r, NEW names, NEW change \in Changes, m.queued \in Seq(Changes)
  PROVE  /\ m.queued = <<>> => Adoption(m, names) = [list |-> names, over |-> {}]
         /\ r.queued = m.queued => Adoption(r, names) = Adoption(m, names)
         /\ r.queued = Append(m.queued, change) => Adoption(r, names) = Adopting(Adoption(m, names), change)
<1> DEFINE base == [list |-> names, over |-> {}]
<1>1. Adoption(m, names) = F!Folded(base, m.queued) /\ Adoption(r, names) = F!Folded(base, r.queued)
  BY DEF Adoption, FoldLeft, MapThenFoldSet, Max, F!Folded, F!Iter, F!Greatest
<1> HIDE DEF base
<1>2. F!Folded(base, <<>>) = base
  BY F!FoldEmpty
<1>3. F!Folded(base, Append(m.queued, change)) = Adopting(F!Folded(base, m.queued), change)
  BY F!FoldAppend
<1> QED BY <1>1, <1>2, <1>3 DEF base
-----------------------------------------------------------------------------
(* The client's side stays loyal to what the user asked for.               *)

\* What Loyal looks at of a manager.
Stance(m) == <<m.wanted, m.queued, m.submitted, m.confirmed, m.blocked, m.snapshot.open>>

LEMMA SameStance ==
  ASSUME NEW m, NEW r, Stance(r) = Stance(m),
         NEW up, NEW down, NEW list, NEW ask, NEW ref, NEW wr,
         Loyal(m, up, down, list, ask, ref, wr)
  PROVE  Loyal(r, up, down, list, ask, ref, wr)
<1>1. /\ r.wanted = m.wanted /\ r.queued = m.queued /\ r.submitted = m.submitted
      /\ r.confirmed = m.confirmed /\ r.blocked = m.blocked /\ r.snapshot.open = m.snapshot.open
  BY DEF Stance
<1>2. \A names : Adoption(r, names) = Adoption(m, names)
  BY <1>1 DEF Adoption
<1>3. Wishes(r, ask, ref)
  BY <1>1, <1>2 DEF Loyal, Wishes
<1>4. Spared(r, up, list, ask)
  BY <1>1 DEF Loyal, Spared
<1>5. Refusals(r, up, down, list, ref)
  BY <1>1 DEF Loyal, Refusals
<1>6. Submission(r, up, down, list, ref, wr)
  BY <1>1 DEF Loyal, Submission, Fate, Pending
<1> QED BY <1>3, <1>4, <1>5, <1>6 DEF Loyal

\* A manager that forgets what it submitted and waits for no listing.
LEMMA ForgetfulLoyal ==
  ASSUME NEW m, NEW r, r.wanted = m.wanted, r.queued = m.queued,
         r.submitted = NoChange, r.confirmed = NoList, ~r.snapshot.open,
         NEW up, NEW down, NEW list, NEW ask, NEW ref, NEW wr,
         Loyal(m, up, down, list, ask, ref, wr)
  PROVE  Loyal(r, up, down, list, ask, ref, wr)
<1>1. \A names : Adoption(r, names) = Adoption(m, names)
  BY DEF Adoption
<1>2. Wishes(r, ask, ref)
  BY <1>1 DEF Loyal, Wishes
<1>3. Spared(r, up, list, ask)
  BY DEF Loyal, Spared
<1>4. Refusals(r, up, down, list, ref)
  BY DEF Loyal, Refusals
<1>5. Submission(r, up, down, list, ref, wr)
  BY DEF Submission
<1> QED BY <1>2, <1>3, <1>4, <1>5 DEF Loyal

LEMMA SupportLoyal ==
  ASSUME NEW m, Proper(m), NEW s \in BOOLEAN,
         NEW up, NEW down, NEW list, NEW ask, NEW ref, NEW wr,
         Loyal(m, up, down, list, ask, ref, wr)
  PROVE  Loyal(SetSupported(m, s), up, down, list, ask, ref, wr)
<1> DEFINE r == SetSupported(m, s)
<1>1. m \in Managers
  BY DEF Proper
<1>2. r = m \/ (/\ r.wanted = m.wanted /\ r.queued = m.queued /\ r.submitted = NoChange
                /\ r.confirmed = NoList /\ r.snapshot = NoSnapshot)
  BY <1>1 DEF SetSupported, Managers
<1> HIDE DEF r
<1>3. Loyal(r, up, down, list, ask, ref, wr)
  <2>1. CASE r = m
    BY <2>1
  <2>2. CASE r # m
    <3>1. /\ r.wanted = m.wanted /\ r.queued = m.queued /\ r.submitted = NoChange
          /\ r.confirmed = NoList /\ ~r.snapshot.open
      BY <1>2, <2>2, TypeFacts
    <3> QED BY <3>1, ForgetfulLoyal
  <2> QED BY <2>1, <2>2
<1> QED BY <1>3 DEF r

LEMMA ChangingAppended ==
  ASSUME NEW up \in Seq(Lines), NEW command \in Lines, NEW op
  PROVE  Changing(Append(up, command), op)
           = Changing(up, op) \cup (IF command.op = op THEN command.names ELSE {})
<1> DEFINE more == Append(up, command)
<1>1. /\ Len(more) = Len(up) + 1 /\ Len(up) \in Nat /\ more[Len(up) + 1] = command
      /\ \A i \in 1..Len(up) : more[i] = up[i]
  OBVIOUS
<1> HIDE DEF more
<1>2. /\ \A i \in 1..Len(more) : i \in 1..Len(up) \/ i = Len(up) + 1
      /\ 1..Len(up) \subseteq 1..Len(more) /\ Len(up) + 1 \in 1..Len(more)
  BY <1>1
<1>3. ASSUME NEW n \in Changing(more, op)
      PROVE  n \in Changing(up, op) \cup (IF command.op = op THEN command.names ELSE {})
  <2>1. PICK i \in 1..Len(more) : more[i].op = op /\ n \in more[i].names
    BY <1>3 DEF Changing
  <2>2. CASE i \in 1..Len(up)
    <3>1. up[i].op = op /\ n \in up[i].names
      BY <1>1, <2>1, <2>2
    <3> QED BY <2>2, <3>1 DEF Changing
  <2>3. CASE i = Len(up) + 1
    BY <1>1, <2>1, <2>3
  <2> QED BY <1>2, <2>2, <2>3
<1>4. ASSUME NEW n \in Changing(up, op) PROVE n \in Changing(more, op)
  <2>1. PICK i \in 1..Len(up) : up[i].op = op /\ n \in up[i].names
    BY <1>4 DEF Changing
  <2>2. more[i] = up[i] /\ i \in 1..Len(more)
    BY <1>1, <1>2
  <2> QED BY <2>1, <2>2 DEF Changing
<1>5. command.op = op => command.names \subseteq Changing(more, op)
  BY <1>1, <1>2 DEF Changing
<1>6. Changing(more, op) = Changing(up, op) \cup (IF command.op = op THEN command.names ELSE {})
  BY <1>3, <1>4, <1>5
<1> QED BY <1>6 DEF more

\* What next_command may have sent, and when.
LEMMA CommandFacts ==
  ASSUME NEW m, Proper(m), NEW waited \in BOOLEAN, NextCommand(m, waited) # NoChange
  PROVE  LET command == NextCommand(m, waited)
         IN  /\ ~m.blocked /\ ~m.snapshot.open /\ command.op \in {"L", "S", "+", "-"}
             /\ command.op # "L" => m.confirmed # NoList /\ m.wanted # NoList
             /\ command.op = "+" => command.names \subseteq m.wanted
             /\ command.op = "-" => command.names \subseteq m.confirmed \ m.wanted
<1> DEFINE removed == Packed(m.confirmed \ m.wanted)
           added == Packed(m.wanted \ m.confirmed)
<1>1. removed \subseteq m.confirmed \ m.wanted /\ added \subseteq m.wanted \ m.confirmed
  BY DEF Packed
<1> HIDE DEF removed, added
<1>2. /\ ~m.blocked /\ ~m.snapshot.open
      /\ \/ NextCommand(m, waited) = [op |-> "L", names |-> {}]
         \/ /\ m.confirmed # NoList /\ m.wanted # NoList
            /\ NextCommand(m, waited) \in {[op |-> "-", names |-> removed], [op |-> "+", names |-> added],
                                          [op |-> "S", names |-> {}]}
  BY DEF NextCommand, removed, added
<1> QED BY <1>1, <1>2
LEMMA SentLoyal ==
  ASSUME NEW m, Proper(m), m.support, NEW up \in Seq(Lines), NEW down \in Seq(Answers),
         NEW list, NEW ask \in Asked, NEW ref, NEW wr \in BOOLEAN, NEW waited \in BOOLEAN,
         InStep(m, up, down, list, TRUE), Loyal(m, up, down, list, ask, ref, wr),
         NextCommand(m, waited) # NoChange
  PROVE  Loyal(Sent(m, NextCommand(m, waited), wr),
               IF wr THEN Append(up, NextCommand(m, waited)) ELSE up, down, list, ask, ref, wr)
<1> DEFINE command == NextCommand(m, waited)
           r == Sent(m, command, wr)
           more == Append(up, command)
           opened == [NoSnapshot EXCEPT !.open = TRUE]
<1>1. m \in Managers /\ command \in Lines
  BY NextCommandType DEF Proper
<1>2. /\ ~m.blocked /\ ~m.snapshot.open /\ command.op \in {"L", "S", "+", "-"}
      /\ command.op # "L" => m.confirmed # NoList /\ m.wanted # NoList
      /\ command.op = "+" => command.names \subseteq m.wanted
      /\ command.op = "-" => command.names \subseteq m.confirmed \ m.wanted
  BY CommandFacts
<1>3. ~Asks(up) /\ ~Listings(down)
  BY <1>2 DEF InStep, Abandoned
<1>4. opened.open
  BY DEF NoSnapshot
<1>5. command # NoChange
  OBVIOUS
<1> HIDE DEF command, opened
<1>6. CASE ~wr
  <2>1. Stance(r) = Stance(m)
    BY <1>1, <1>6 DEF Stance, Sent, Managers
  <2> HIDE DEF r
  <2>2. Loyal(r, up, down, list, ask, ref, wr)
    BY <2>1, SameStance
  <2> QED BY <1>6, <2>2 DEF command, r
<1>7. CASE wr
  <2>1. /\ Len(more) = Len(up) + 1 /\ Len(up) \in Nat /\ more[Len(up) + 1] = command
        /\ \A i \in 1..Len(up) : more[i] = up[i]
        /\ Edits(more) <=> Edits(up) \/ command.op \in {"+", "-"}
    BY <1>1, Appended
  <2>2. /\ Changing(more, "+") = Changing(up, "+") \cup (IF command.op = "+" THEN command.names ELSE {})
        /\ Changing(more, "-") = Changing(up, "-") \cup (IF command.op = "-" THEN command.names ELSE {})
    BY <1>1, ChangingAppended
  <2> HIDE DEF more
  <2>3. \A i \in 1..Len(more) : (i \in 1..Len(up) /\ more[i] = up[i]) \/ (i = Len(up) + 1 /\ more[i] = command)
    BY <2>1
  <2>4. \A i \in 1..Len(down) : down[i].kind \notin {"list", "end"}
    BY <1>3 DEF Listings
  <2>5. /\ r.wanted = m.wanted /\ r.queued = m.queued /\ r.blocked = m.blocked
        /\ command.op = "L" => r.submitted = m.submitted /\ r.confirmed = m.confirmed /\ r.snapshot.open
        /\ command.op = "S" => r.submitted = m.submitted /\ r.confirmed = m.confirmed /\ ~r.snapshot.open
        /\ command.op \in {"+", "-"} => r.submitted = command /\ r.confirmed = NoList /\ ~r.snapshot.open
    <3>1. command.op = "L" => r.snapshot = opened
      BY <1>1, <1>7 DEF Managers, Sent, opened
    <3>2. command.op # "L" => r.snapshot = m.snapshot
      BY <1>1, <1>2, <1>7 DEF Managers, Sent
    <3>3. /\ r.wanted = m.wanted /\ r.queued = m.queued /\ r.blocked = m.blocked
          /\ command.op \in {"L", "S"} => r.submitted = m.submitted /\ r.confirmed = m.confirmed
          /\ command.op \in {"+", "-"} => r.submitted = command /\ r.confirmed = NoList
      BY <1>1, <1>2, <1>7 DEF Managers, Sent
    <3> HIDE DEF r
    <3> QED BY <1>2, <1>4, <3>1, <3>2, <3>3
  <2> HIDE DEF r
  <2>6. Wishes(r, ask, ref)
    <3>1. \A names : Adoption(r, names) = Adoption(m, names)
      BY <2>5 DEF Adoption
    <3> QED BY <2>5, <3>1 DEF Loyal, Wishes
  <2>7. Spared(r, more, list, ask)
    <3>1. CASE command.op \in {"L", "S"}
      BY <2>2, <2>5, <3>1 DEF Loyal, Spared
    <3>2. CASE command.op = "+"
      BY <2>2, <2>5, <3>2, <1>2 DEF Loyal, Spared, Spares
    <3>3. CASE command.op = "-"
      <4>1. m.confirmed = list /\ Spares(list, m.wanted, ask)
        BY <3>3, <1>2 DEF InStep, Believed, Loyal, Spared, Spares
      <4>2. command.names \in SUBSET Nicks
        BY <1>1 DEF Lines
      <4>3. \A n \in command.names : ask[n] \in {"remove", "add again"}
        BY <4>1, <4>2, <3>3, <1>2 DEF Spares, Asked
      <4>4. \A n \in Changing(more, "-") : ask[n] \in {"remove", "add again"}
        BY <2>2, <3>3, <4>3 DEF Loyal, Spared
      <4>5. Changing(more, "+") = Changing(up, "+")
        BY <2>2, <3>3
      <4> QED BY <2>5, <4>4, <4>5 DEF Loyal, Spared
    <3> QED BY <1>2, <3>1, <3>2, <3>3
  <2>8. Refusals(r, more, down, list, ref)
    <3>1. OneEdit(more)
      <4>1. CASE command.op \in {"L", "S"}
        BY <2>3, <4>1 DEF Loyal, Refusals, OneEdit
      <4>2. CASE command.op \in {"+", "-"}
        <5>1. ~Edits(up)
          BY <4>2, <1>2 DEF InStep, Believed
        <5> QED BY <5>1, <2>3 DEF Edits, OneEdit
      <4> QED BY <1>2, <4>1, <4>2
    <3>2. CASE command.op = "L"
      <4>1. \A i \in 1..Len(down) : down[i].kind = "full" =>
              /\ down[i].names \subseteq ref \ list
              /\ r.confirmed = NoList /\ \A j \in 1..Len(more) : more[j].op # "+"
        BY <2>3, <2>5, <3>2 DEF Loyal, Refusals
      <4> QED BY <2>4, <3>1, <4>1 DEF Refusals
    <3>3. CASE command.op # "L"
      <4>1. \A i \in 1..Len(down) : down[i].kind # "full"
        BY <3>3, <1>2 DEF Loyal, Refusals
      <4> QED BY <3>1, <4>1 DEF Refusals
    <3> QED BY <3>2, <3>3
  <2>9. Submission(r, more, down, list, ref, wr)
    <3>1. CASE command.op = "L"
      <4>1. SUFFICES ASSUME r.submitted # NoChange, r.submitted.op = "+"
                     PROVE  Fate(r, more, down, list, ref, wr)
        BY <2>5, <3>1 DEF Loyal, Submission
      <4>2. Fate(m, up, down, list, ref, wr)
        BY <2>5, <3>1, <4>1 DEF Loyal, Submission
      <4>3. CASE Pending(m, up, down)
        <5>1. PICK i \in 1..Len(up) : up[i] = m.submitted
          BY <4>3 DEF Pending
        <5>2. i \in 1..Len(more) /\ more[i] = r.submitted
          BY <5>1, <2>1, <2>5, <3>1
        <5>3. \A j \in 1..Len(more) : more[j].op = "L" => i < j
          BY <5>1, <2>1, <2>3, <1>3 DEF Asks
        <5>4. Pending(r, more, down)
          BY <5>2, <5>3, <1>3 DEF Pending
        <5> QED BY <5>4 DEF Fate
      <4>4. CASE ~Pending(m, up, down)
        <5>1. ~Edits(more)
          BY <4>2, <4>4, <2>1, <3>1, <1>2 DEF Fate
        <5>2. m.submitted.names \subseteq list \cup ref \/ Declined(down)
          BY <4>2, <4>4, <1>2, <1>7 DEF Fate
        <5> QED BY <5>1, <5>2, <2>5, <3>1 DEF Fate
      <4> QED BY <4>3, <4>4
    <3>2. CASE command.op = "S"
      <4>1. m.submitted = NoChange
        BY <3>2, <1>2 DEF Loyal, Submission
      <4> QED BY <4>1, <2>5, <3>2 DEF Submission
    <3>3. CASE command.op \in {"+", "-"}
      <4>1. Len(up) + 1 \in 1..Len(more) /\ more[Len(up) + 1] = command
        BY <2>1
      <4>2. \A j \in 1..Len(more) : more[j].op # "L"
        BY <2>3, <3>3, <1>3 DEF Asks
      <4>3. Pending(r, more, down)
        BY <4>1, <4>2, <2>5, <3>3, <1>3 DEF Pending
      <4> QED BY <4>3, <2>5, <3>3 DEF Submission, Fate
    <3> QED BY <1>2, <3>1, <3>2, <3>3
  <2>10. Loyal(r, more, down, list, ask, ref, wr)
    BY <2>6, <2>7, <2>8, <2>9 DEF Loyal
  <2> QED BY <1>7, <2>10 DEF command, r, more
<1> QED BY <1>6, <1>7
LEMMA SendOneLoyal ==
  ASSUME Typed, NEW m, NEW lines, Turn(<<m, lines>>), NEW waited \in BOOLEAN, NEW ask \in Asked,
         Loyal(m, toServer \o lines, toClient, serverList, ask, refused, writer)
  PROVE  LET s == SendOne(<<m, lines>>, waited)
         IN  Loyal(s[1], toServer \o s[2], toClient, serverList, ask, refused, writer)
<1> DEFINE command == NextCommand(m, waited)
           s == SendOne(<<m, lines>>, waited)
           sent == Sent(m, command, writer)
           more == IF writer THEN Append(lines, command) ELSE lines
<1>1. Proper(m) /\ m.support /\ lines \in Seq(Lines) /\ writer \in BOOLEAN
      /\ InStep(m, toServer \o lines, toClient, serverList, TRUE)
      /\ toServer \in Seq(Lines) /\ toClient \in Seq(Answers)
  BY DEF Turn, Typed
<1>2. CASE command = NoChange
  BY <1>2 DEF SendOne
<1>3. CASE command # NoChange
  <2>1. command \in Lines
    BY <1>1, <1>3, NextCommandType
  <2>2. s = <<sent, more>>
    BY <1>3 DEF SendOne
  <2>3. toServer \o lines \in Seq(Lines)
    BY <1>1
  <2>4. Loyal(sent, IF writer THEN Append(toServer \o lines, command) ELSE toServer \o lines,
              toClient, serverList, ask, refused, writer)
    BY <1>1, <1>3, <2>3, SentLoyal
  <2>5. toServer \o Append(lines, command) = Append(toServer \o lines, command)
    BY <1>1, <2>1, ConcatAppend
  <2> HIDE DEF command, sent
  <2>6. toServer \o more = IF writer THEN Append(toServer \o lines, command)
                                     ELSE toServer \o lines
    BY <2>5
  <2>7. Loyal(sent, toServer \o more, toClient, serverList, ask, refused, writer)
    BY <2>4, <2>6
  <2> HIDE DEF s
  <2>8. Loyal(s[1], toServer \o s[2], toClient, serverList, ask, refused, writer)
    BY <2>2, <2>7
  <2> QED BY <2>8 DEF s
<1> QED BY <1>2, <1>3

LEMMA TickedLoyal ==
  ASSUME Typed, NEW m, Proper(m), m.support = advertised,
         InStep(m, toServer, toClient, serverList, advertised), NEW ask \in Asked,
         Loyal(m, toServer, toClient, serverList, ask, refused, writer),
         NEW expires \in BOOLEAN, NEW waited \in BOOLEAN
  PROVE  LET t == Ticked(m, expires, waited)
         IN  Loyal(t[1], toServer \o t[2], toClient, serverList, ask, refused, writer)
<1> DEFINE e == IF expires THEN [m EXCEPT !.snapshot.expired = TRUE] ELSE m
           once == SendOne(<<e, <<>>>>, waited)
           t == Ticked(m, expires, waited)
<1>1. m \in Managers /\ m.snapshot \in Snapshots
  BY Fields DEF Proper
<1>2. Proper(e) /\ e.support = m.support /\ Stance(e) = Stance(m)
  <2>1. e \in Managers
    BY <1>1 DEF Managers, Snapshots
  <2>2. /\ e.wanted = m.wanted /\ e.queued = m.queued /\ e.support = m.support
        /\ e.snapshot.names = m.snapshot.names /\ e.submitted = m.submitted
        /\ e.confirmed = m.confirmed /\ e.blocked = m.blocked
        /\ e.snapshot.open = m.snapshot.open
    BY <1>1 DEF Managers, Snapshots
  <2> HIDE DEF e
  <2> QED BY <2>1, <2>2 DEF Proper, Stance
<1>3. InStep(e, toServer, toClient, serverList, advertised)
  <2>1. /\ e.support = m.support /\ e.confirmed = m.confirmed /\ e.blocked = m.blocked
        /\ e.snapshot.open = m.snapshot.open /\ e.snapshot.names = m.snapshot.names
        /\ e.snapshot.valid = m.snapshot.valid
        /\ m.snapshot.expired => e.snapshot.expired
    BY <1>1 DEF Managers, Snapshots
  <2> HIDE DEF e
  <2> QED BY <2>1 DEF InStep, Unsupported, Abandoned, Awaited, Believed
<1>4. toServer \o <<>> = toServer /\ <<>> \in Seq(Lines) /\ toServer \in Seq(Lines)
  BY DEF Typed
<1> HIDE DEF e
<1>5. Loyal(e, toServer \o <<>>, toClient, serverList, ask, refused, writer)
  BY <1>2, <1>4, SameStance
<1>6. CASE ~connected \/ ~advertised
  <2>1. t = <<e, <<>>>>
    BY <1>6 DEF Ticked, e
  <2> QED BY <1>5, <2>1
<1>7. CASE connected /\ advertised
  <2>1. Turn(<<e, <<>>>>)
    BY <1>2, <1>3, <1>4, <1>7 DEF Turn
  <2>2. /\ once = <<once[1], once[2]>> /\ Turn(once)
        /\ Loyal(once[1], toServer \o once[2], toClient, serverList, ask, refused, writer)
    BY <2>1, <1>5, SendOneInStep, SendOneLoyal
  <2> DEFINE twice == SendOne(once, waited)
  <2> HIDE DEF once
  <2>3. Loyal(twice[1], toServer \o twice[2], toClient, serverList, ask, refused, writer)
    <3>1. Turn(<<once[1], once[2]>>)
      BY <2>2
    <3> DEFINE again == SendOne(<<once[1], once[2]>>, waited)
    <3>2. Loyal(again[1], toServer \o again[2], toClient, serverList, ask, refused, writer)
      BY <3>1, <2>2, SendOneLoyal
    <3>3. again = twice
      BY <2>2
    <3> HIDE DEF again, twice
    <3> QED BY <3>2, <3>3
  <2>4. t \in {once, twice}
    BY <1>7 DEF Ticked, once, e
  <2> HIDE DEF twice, t
  <2>5. Loyal(t[1], toServer \o t[2], toClient, serverList, ask, refused, writer)
    BY <2>2, <2>3, <2>4
  <2> QED BY <2>5 DEF t
<1> QED BY <1>6, <1>7 DEF Typed

LEMMA EnsuredLoyal ==
  ASSUME HonourInv
  PROVE  Loyal(Ensured, toServer, toClient, serverList, asked, refused, writer)
BY SupportLoyal DEF HonourInv, ListInv, Typed, Ensured

\* The end of a handler that leaves the manager loyal to what is asked now.
LEMMA TurnLoyal ==
  ASSUME ListInv, ListInv', NEW m, Proper(m), m.support = advertised,
         InStep(m, toServer, toClient, serverList, advertised),
         NEW expires \in BOOLEAN, NEW waited \in BOOLEAN,
         Apply(Ticked(m, expires, waited)), created',
         UNCHANGED <<toClient, serverList, refused, writer>>,
         asked' \in Asked, Loyal(m, toServer, toClient, serverList, asked', refused, writer)
  PROVE  HonourInv'
<1> DEFINE t == Ticked(m, expires, waited)
<1>1. Loyal(t[1], toServer \o t[2], toClient, serverList, asked', refused, writer)
  BY TickedLoyal DEF ListInv
<1>2. mon' = t[1] /\ toServer' = toServer \o t[2]
  BY DEF Apply
<1> HIDE DEF t
<1> QED BY <1>1, <1>2 DEF HonourInv

LEMMA TickHonours ==
  ASSUME HonourInv, ListInv', NEW expires \in BOOLEAN, NEW waited \in BOOLEAN,
         Tick(expires, waited)
  PROVE  HonourInv'
<1>1. /\ created' /\ Apply(Ticked(Ensured, expires, waited))
      /\ UNCHANGED <<toClient, serverList, refused, writer, asked>>
  BY DEF Tick, server
<1>2. ListInv /\ asked' \in Asked
  BY <1>1 DEF HonourInv
<1>3. Loyal(Ensured, toServer, toClient, serverList, asked', refused, writer)
  BY <1>1, EnsuredLoyal
<1> QED BY <1>1, <1>2, <1>3, EnsuredInStep, TurnLoyal

LEMMA QueryHonours ==
  ASSUME HonourInv, ListInv', NEW field \in {"list", "status"}, Query(field)
  PROVE  HonourInv'
<1> DEFINE r == IF field = "list" THEN [Ensured EXCEPT !.showList = TRUE]
                                   ELSE [Ensured EXCEPT !.askStatus = TRUE]
<1>1. /\ created' /\ Apply(Ticked(r, FALSE, FALSE))
      /\ UNCHANGED <<toClient, serverList, refused, writer, asked>>
  BY DEF Query, server
<1>2. ListInv /\ asked' \in Asked
  BY <1>1 DEF HonourInv
<1>3. Ensured \in Managers /\ Proper(Ensured)
  BY <1>2, EnsuredInStep DEF Proper
<1>4. /\ r \in Managers /\ r.wanted = Ensured.wanted /\ r.queued = Ensured.queued
      /\ r.snapshot = Ensured.snapshot /\ Outlook(r) = Outlook(Ensured)
      /\ Stance(r) = Stance(Ensured)
  BY <1>3 DEF Managers, Outlook, Stance
<1> HIDE DEF r
<1>5. Proper(r)
  BY <1>3, <1>4, NarrowedProper
<1>6. /\ Proper(r) /\ r.support = advertised
      /\ InStep(r, toServer, toClient, serverList, advertised)
  BY <1>2, <1>4, <1>5, EnsuredInStep, AlteredInStep
<1>7. Loyal(r, toServer, toClient, serverList, asked', refused, writer)
  BY <1>1, <1>4, EnsuredLoyal, SameStance
<1> QED BY <1>1, <1>2, <1>6, <1>7, TurnLoyal

\* /monitor add, remove, clear: the demand and the list, or the queue, change
\* together.
LEMMA ChangeLoyal ==
  ASSUME NEW m, Proper(m), NEW change \in Changes, ~TooMany(m, change),
         NEW up, NEW down, NEW list \in SUBSET Nicks, NEW ask \in Asked, NEW ref, NEW wr,
         up \in Seq(Lines), Loyal(m, up, down, list, ask, ref, wr)
  PROVE  Loyal(Change(m, change), up, down, list, Asking(ask, change), ref, wr)
<1> DEFINE r == Change(m, change)
           ask2 == Asking(ask, change)
<1>1. m \in Managers
  BY DEF Proper
<1>2. /\ r.submitted = m.submitted /\ r.confirmed = m.confirmed /\ r.blocked = m.blocked
      /\ r.snapshot = m.snapshot
  BY <1>1 DEF Managers, Change
<1>3. ASSUME m.wanted # NoList
      PROVE  /\ r.wanted # NoList /\ Heeds(r.wanted, ref, ask2)
             /\ Spares(list \cup Changing(up, "+"), r.wanted, ask2)
  <2>1. m.wanted \in SUBSET Nicks /\ Cardinality(m.wanted) <= MaxTargets
    BY <1>3, Fields DEF Proper, MaybeLists
  <2>2. r.wanted = Applied(m.wanted, change)
    BY <1>1, <1>3 DEF Managers, Change
  <2>3. change.op = "add" => Cardinality(m.wanted \cup change.names) <= MaxTargets
    <3>1. m.wanted \cup change.names \in SUBSET Nicks
      BY <2>1 DEF Changes
    <3>2. Cardinality(m.wanted \cup change.names) \in Nat
      BY <3>1, Smaller
    <3>3. ~(change.op = "add" /\ Cardinality(m.wanted \cup change.names) > MaxTargets)
      BY <1>3, Zenon DEF TooMany
    <3> QED BY <3>2, <3>3, NoListFacts
  <2>4. Heeds(m.wanted, ref, ask) /\ Spares(list \cup Changing(up, "+"), m.wanted, ask)
    BY <1>3 DEF Loyal, Wishes, Spared
  <2>5. list \cup Changing(up, "+") \in SUBSET Nicks
    <3>1. \A i \in 1..Len(up) : up[i].names \in SUBSET Nicks
      <4>1. \A i \in 1..Len(up) : up[i] \in Lines
        OBVIOUS
      <4> QED BY <4>1 DEF Lines
    <3> QED BY <3>1 DEF Changing
  <2>6. /\ Heeds(Applied(m.wanted, change), ref, ask2)
        /\ Spares(list \cup Changing(up, "+"), Applied(m.wanted, change), ask2)
    BY <2>1, <2>3, <2>4, <2>5, AppliedHeeds
  <2>7. Applied(m.wanted, change) # NoList
    BY <2>1, AppliedKeeps, NoListFacts
  <2> QED BY <2>2, <2>6, <2>7
<1>4. ASSUME m.wanted = NoList, NEW names \in SUBSET Nicks
      PROVE  /\ r.wanted = NoList
             /\ Heeds(Adoption(r, names).list, Adoption(r, names).over, ask2)
             /\ Spares(names, Adoption(r, names).list, ask2)
  <2>1. r.wanted = NoList /\ r.queued = Append(m.queued, change) /\ m.queued \in Seq(Changes)
    BY <1>1, <1>4 DEF Managers, Change
  <2>2. Adoption(r, names) = Adopting(Adoption(m, names), change)
    BY <2>1, AdoptionFolds
  <2>3. Adoption(m, names).list \in SUBSET Nicks /\ Adoption(m, names).over \in SUBSET Nicks
    BY <2>1, AdoptionNicks
  <2>4. /\ Heeds(Adoption(m, names).list, Adoption(m, names).over, ask)
        /\ Spares(names, Adoption(m, names).list, ask)
    BY <1>4 DEF Loyal, Wishes
  <2>5. /\ Heeds(Adopting(Adoption(m, names), change).list, Adopting(Adoption(m, names), change).over, ask2)
        /\ Spares(names, Adopting(Adoption(m, names), change).list, ask2)
    BY <2>3, <2>4, AdoptingHeeds
  <2> QED BY <2>1, <2>2, <2>5
<1>5. \A n \in Nicks : ask[n] \in {"remove", "add again"} => ask2[n] \in {"remove", "add again"}
  <2>1. \A n \in Nicks :
          /\ change.op = "add" /\ n \in change.names =>
               ask2[n] = IF ask[n] \in {"nothing", "add"} THEN "add" ELSE "add again"
          /\ change.op = "remove" /\ n \in change.names => ask2[n] = "remove"
          /\ change.op = "clear" => ask2[n] = "remove"
          /\ change.op # "clear" /\ n \notin change.names => ask2[n] = ask[n]
    BY AskingFacts
  <2>2. change.op \in {"add", "remove", "clear"}
    BY DEF Changes
  <2> HIDE DEF ask2
  <2> QED BY <2>1, <2>2
<1>6. Changing(up, "-") \in SUBSET Nicks
  <2>1. \A i \in 1..Len(up) : up[i] \in Lines
    OBVIOUS
  <2> QED BY <2>1 DEF Lines, Changing
<1> HIDE DEF r, ask2
<1>7. Wishes(r, ask2, ref)
  BY <1>3, <1>4 DEF Wishes
<1>8. Spared(r, up, list, ask2)
  <2>1. r.wanted # NoList => Spares(list \cup Changing(up, "+"), r.wanted, ask2)
    BY <1>3, <1>4
  <2>2. \A n \in Changing(up, "-") : ask2[n] \in {"remove", "add again"}
    BY <1>5, <1>6 DEF Loyal, Spared
  <2> QED BY <2>1, <2>2 DEF Spared
<1>9. Refusals(r, up, down, list, ref)
  BY <1>2 DEF Loyal, Refusals
<1>10. Submission(r, up, down, list, ref, wr)
  BY <1>2 DEF Loyal, Submission, Fate, Pending
<1> QED BY <1>7, <1>8, <1>9, <1>10 DEF Loyal, r, ask2

LEMMA ChangeTargetsHonours ==
  ASSUME HonourInv, ListInv', NEW change \in Changes, ChangeTargets(change)
  PROVE  HonourInv'
<1>1. created' /\ UNCHANGED <<toClient, serverList, refused, writer>> /\ ListInv /\ asked \in Asked
  BY DEF ChangeTargets, server, HonourInv
<1>2. CASE TooMany(Ensured, change)
  <2>1. mon' = Ensured /\ toServer' = toServer /\ asked' = asked
    BY <1>2 DEF ChangeTargets
  <2> QED BY <1>1, <2>1, EnsuredLoyal DEF HonourInv
<1>3. CASE ~TooMany(Ensured, change)
  <2> DEFINE r == Change(Ensured, change)
  <2>1. Apply(Ticked(r, FALSE, FALSE)) /\ asked' = Asking(asked, change)
    BY <1>3 DEF ChangeTargets, Asking
  <2>2. Proper(r) /\ Proper(Ensured) /\ Ensured \in Managers
    BY <1>1, EnsuredInStep, ChangeProper DEF Proper
  <2>3. Outlook(r) = Outlook(Ensured)
    BY <2>2 DEF Outlook, Change, Managers
  <2>4. Loyal(r, toServer, toClient, serverList, Asking(asked, change), refused, writer)
    BY <1>1, <1>3, <2>2, EnsuredLoyal, ChangeLoyal DEF ListInv, Typed
  <2> HIDE DEF r
  <2>5. /\ Proper(r) /\ r.support = advertised
        /\ InStep(r, toServer, toClient, serverList, advertised)
    BY <1>1, <2>2, <2>3, EnsuredInStep, AlteredInStep
  <2>6. asked' \in Asked
    BY <1>1, <2>1, AskingFacts
  <2>7. Loyal(r, toServer, toClient, serverList, asked', refused, writer)
    BY <2>1, <2>4
  <2> QED BY <1>1, <2>1, <2>5, <2>6, <2>7, TurnLoyal
<1> QED BY <1>2, <1>3
\* An answer that is read, unless it says that the server has no MONITOR: the
\* rest is as it was.
LEMMA PassedLoyal ==
  ASSUME NEW m, NEW up, NEW down \in Seq(Answers), down # <<>>, down[1].kind # "unavailable",
         NEW list, NEW ask, NEW ref, NEW wr, Loyal(m, up, down, list, ask, ref, wr)
  PROVE  Loyal(m, up, Tail(down), list, ask, ref, wr)
<1> DEFINE rest == Tail(down)
<1>1. /\ Len(rest) + 1 = Len(down) /\ Len(rest) \in Nat
      /\ \A i \in 1..Len(rest) : rest[i] = down[i + 1] /\ i + 1 \in 1..Len(down)
      /\ \A i \in 1..Len(down) : i = 1 \/ (i - 1 \in 1..Len(rest) /\ down[i] = rest[i - 1])
      /\ Listings(rest) => Listings(down)
  BY TailFacts
<1> HIDE DEF rest
<1>2. Refusals(m, up, rest, list, ref)
  <2>1. Refusals(m, up, down, list, ref)
    BY DEF Loyal
  <2>2. ASSUME NEW i \in 1..Len(rest), rest[i].kind = "full"
        PROVE  /\ rest[i].names \subseteq ref \ list
               /\ m.confirmed = NoList /\ \A j \in 1..Len(up) : up[j].op # "+"
               /\ m.snapshot.open => \A j \in 1..Len(rest) : rest[j].kind = "end" => i < j
    <3>1. i + 1 \in 1..Len(down) /\ down[i + 1] = rest[i] /\ down[i + 1].kind = "full"
      BY <1>1, <2>2
    <3>2. /\ rest[i].names \subseteq ref \ list
          /\ m.confirmed = NoList /\ \A j \in 1..Len(up) : up[j].op # "+"
          /\ m.snapshot.open => \A j \in 1..Len(down) : down[j].kind = "end" => i + 1 < j
      BY <2>1, <3>1 DEF Refusals
    <3>3. ASSUME m.snapshot.open, NEW j \in 1..Len(rest), rest[j].kind = "end" PROVE i < j
      <4>1. j + 1 \in 1..Len(down) /\ down[j + 1].kind = "end"
        BY <1>1, <3>3
      <4>2. i + 1 < j + 1
        BY <3>2, <3>3, <4>1
      <4> QED BY <4>2
    <3> QED BY <3>2, <3>3
  <2> QED BY <2>1, <2>2 DEF Refusals
<1>3. Pending(m, up, down) => Pending(m, up, rest)
  BY <1>1 DEF Pending
<1>4. Declined(down) => Declined(rest)
  <2>1. SUFFICES ASSUME Declined(down) PROVE Declined(rest)
    OBVIOUS
  <2>2. PICK i \in 1..Len(down) : down[i].kind = "unavailable" /\
          \A j \in 1..Len(down) : down[j].kind \in {"list", "end"} => i < j
    BY <2>1 DEF Declined
  <2>3. i - 1 \in 1..Len(rest) /\ rest[i - 1].kind = "unavailable"
    BY <1>1, <2>2
  <2>4. ASSUME NEW j \in 1..Len(rest), rest[j].kind \in {"list", "end"} PROVE i - 1 < j
    <3>1. j + 1 \in 1..Len(down) /\ down[j + 1].kind \in {"list", "end"}
      BY <1>1, <2>4
    <3> QED BY <3>1, <2>2
  <2> QED BY <2>3, <2>4 DEF Declined
<1>5. Submission(m, up, rest, list, ref, wr)
  BY <1>1, <1>3, <1>4 DEF Loyal, Submission, Fate
<1> QED BY <1>2, <1>5 DEF Loyal, rest

\* A manager that has given up until the transport or the support changes.
LEMMA ClosedLoyal ==
  ASSUME NEW m, NEW r, r.wanted = m.wanted, r.queued = m.queued,
         r.blocked, r.confirmed = NoList, ~r.snapshot.open,
         NEW up, NEW down \in Seq(Answers), down # <<>>,
         NEW list, NEW ask, NEW ref, NEW wr, Loyal(m, up, down, list, ask, ref, wr)
  PROVE  Loyal(r, up, Tail(down), list, ask, ref, wr)
<1> DEFINE rest == Tail(down)
<1>1. \A i \in 1..Len(rest) : rest[i] = down[i + 1] /\ i + 1 \in 1..Len(down)
  BY TailFacts
<1> HIDE DEF rest
<1>2. \A names : Adoption(r, names) = Adoption(m, names)
  BY DEF Adoption
<1>3. Wishes(r, ask, ref)
  BY <1>2 DEF Loyal, Wishes
<1>4. Spared(r, up, list, ask)
  BY DEF Loyal, Spared
<1>5. Refusals(r, up, rest, list, ref)
  <2>1. Refusals(m, up, down, list, ref)
    BY DEF Loyal
  <2> QED BY <1>1, <2>1 DEF Refusals
<1>6. Submission(r, up, rest, list, ref, wr)
  BY DEF Submission, Fate
<1> QED BY <1>3, <1>4, <1>5, <1>6 DEF Loyal, rest

\* 734: what the server refused is no longer wanted.
LEMMA FullLoyal ==
  ASSUME NEW m, Proper(m), NEW up, NEW down \in Seq(Answers), down # <<>>,
         down[1].kind = "full", NEW list, NEW ask, NEW ref, NEW wr,
         Loyal(m, up, down, list, ask, ref, wr)
  PROVE  Loyal(ReceiveFull(m, down[1]), up, Tail(down), list, ask, ref, wr)
<1> DEFINE names == down[1].names
           r == ReceiveFull(m, down[1])
           rest == Tail(down)
<1>1. m \in Managers /\ m.wanted \in MaybeLists
  BY Fields DEF Proper
<1>2. 1 \in 1..Len(down)
  OBVIOUS
<1>3. names \subseteq ref \ list /\ \A j \in 1..Len(up) : up[j].op # "+"
  BY <1>2 DEF Loyal, Refusals
<1>4. /\ r.queued = m.queued /\ r.submitted = m.submitted /\ r.confirmed = m.confirmed
      /\ r.blocked = m.blocked /\ r.snapshot = m.snapshot
      /\ r.wanted = IF m.wanted = NoList THEN m.wanted ELSE m.wanted \ names
  BY <1>1 DEF Managers, ReceiveFull
<1>5. m.wanted # NoList => m.wanted \ names # NoList
  BY <1>1, NoListFacts DEF MaybeLists
<1>6. Loyal(m, up, rest, list, ask, ref, wr)
  BY PassedLoyal
<1> HIDE DEF r, rest, names
<1>7. Wishes(r, ask, ref)
  <2>1. \A ns : Adoption(r, ns) = Adoption(m, ns)
    BY <1>4 DEF Adoption
  <2>2. m.wanted # NoList => Heeds(m.wanted \ names, ref, ask)
    BY <1>3, <1>6 DEF Loyal, Wishes, Heeds
  <2> QED BY <1>4, <1>5, <1>6, <2>1, <2>2 DEF Loyal, Wishes
<1>8. Spared(r, up, list, ask)
  <2>1. Changing(up, "+") = {}
    BY <1>3 DEF Changing
  <2>2. m.wanted # NoList => Spares(list \cup Changing(up, "+"), m.wanted \ names, ask)
    BY <1>3, <1>6, <2>1 DEF Loyal, Spared, Spares
  <2> QED BY <1>4, <1>5, <1>6, <2>2 DEF Loyal, Spared
<1>9. Refusals(r, up, rest, list, ref)
  BY <1>4, <1>6 DEF Loyal, Refusals
<1>10. Submission(r, up, rest, list, ref, wr)
  BY <1>4, <1>6 DEF Loyal, Submission, Fate, Pending
<1> QED BY <1>7, <1>8, <1>9, <1>10 DEF Loyal, r, rest
\* The manager at the end of a listing that it takes.
LEMMA TakenList ==
  ASSUME NEW m, Proper(m), m.snapshot.open, m.snapshot.valid, ~m.snapshot.expired
  PROVE  LET names == m.snapshot.names
             base == IF m.wanted = NoList THEN Adoption(m, names).list ELSE m.wanted
             r == EndOfList(m)
         IN  /\ base \in SUBSET Nicks /\ r.wanted # NoList
             /\ r.wanted = IF m.submitted.op = "+" THEN base \ (m.submitted.names \ names) ELSE base
             /\ r.submitted = NoChange /\ r.confirmed = names /\ ~r.snapshot.open
<1> DEFINE names == m.snapshot.names
           base == IF m.wanted = NoList THEN Adoption(m, names).list ELSE m.wanted
           before == IF m.wanted = NoList THEN Adopted(m, names) ELSE m
           checked == VerifyChange(before, names)
           peers == [n \in Nicks |-> IF n \in checked.wanted THEN checked.peers[n] ELSE "unknown"]
           taken == [checked EXCEPT !.snapshot = NoSnapshot, !.confirmed = names,
                                    !.showList = FALSE, !.peers = peers]
           r == EndOfList(m)
<1>1. m \in Managers
  BY DEF Proper
<1>2. Proper(before) /\ before \in Managers /\ before.wanted # NoList
  <2>1. Proper(before) /\ before.wanted # NoList
    BY AdoptedProper
  <2> QED BY <2>1 DEF Proper
<1>3. before.wanted = base /\ before.submitted = m.submitted
  <2>1. CASE m.wanted = NoList
    BY <1>1, <2>1 DEF Adopted, Managers
  <2>2. CASE m.wanted # NoList
    BY <2>2
  <2> QED BY <2>1, <2>2
<1>4. base \in SUBSET Nicks
  <2>1. before.wanted \in MaybeLists
    BY <1>2, Fields
  <2> HIDE DEF before, base
  <2> QED BY <2>1, <1>2, <1>3 DEF MaybeLists
<1>5. Proper(checked) /\ checked.wanted # NoList
  BY <1>2, VerifyProper
<1>6. checked \in Managers
  BY <1>5 DEF Proper
<1>7. /\ checked.submitted = NoChange
      /\ checked.wanted = IF m.submitted.op = "+" THEN base \ (m.submitted.names \ names) ELSE base
  <2> HIDE DEF before, base
  <2> QED BY <1>2, <1>3 DEF VerifyChange, Managers
<1>8. r = taken
  BY DEF EndOfList
<1> HIDE DEF checked, peers, names, base, before
<1>9. /\ taken.snapshot = NoSnapshot /\ taken.confirmed = names
      /\ taken.wanted = checked.wanted /\ taken.submitted = checked.submitted
  BY <1>6 DEF Managers
<1> HIDE DEF taken, r
<1>10. /\ base \in SUBSET Nicks /\ r.wanted # NoList
       /\ r.wanted = IF m.submitted.op = "+" THEN base \ (m.submitted.names \ names) ELSE base
       /\ r.submitted = NoChange /\ r.confirmed = names /\ ~r.snapshot.open
  BY <1>4, <1>5, <1>7, <1>8, <1>9, TypeFacts
<1> QED BY <1>10 DEF r, names, base

\* 733, awaited: what the list lacks of the last addition was refused.
LEMMA EndLoyal ==
  ASSUME NEW m, Proper(m), m.snapshot.open, NEW up, NEW down \in Seq(Answers), down # <<>>,
         down[1].kind = "end", NEW list \in SUBSET Nicks, NEW adv, InStep(m, up, down, list, adv),
         NEW ask \in Asked, NEW ref, NEW wr, Loyal(m, up, down, list, ask, ref, wr)
  PROVE  LET adopts == m.wanted = NoList /\ m.snapshot.valid /\ ~m.snapshot.expired
             over == IF adopts THEN Adoption(m, m.snapshot.names).over ELSE {}
         IN  Loyal(EndOfList(m), up, Tail(down), list, ask, ref \cup over, wr)
<1> DEFINE names == m.snapshot.names
           r == EndOfList(m)
           rest == Tail(down)
           adopts == m.wanted = NoList /\ m.snapshot.valid /\ ~m.snapshot.expired
           over == IF adopts THEN Adoption(m, names).over ELSE {}
           ref2 == ref \cup over
<1>1. m \in Managers
  BY DEF Proper
<1>2. CASE ~m.snapshot.valid \/ m.snapshot.expired
  <2>1. r = [m EXCEPT !.snapshot = NoSnapshot, !.confirmed = NoList, !.blocked = TRUE]
    BY <1>2 DEF EndOfList
  <2>2. /\ r.wanted = m.wanted /\ r.queued = m.queued /\ r.blocked
        /\ r.confirmed = NoList /\ ~r.snapshot.open
    BY <1>1, <2>1, TypeFacts DEF Managers
  <2>3. ref2 = ref
    BY <1>2
  <2> HIDE DEF r, ref2
  <2>4. Loyal(r, up, rest, list, ask, ref, wr)
    BY <2>2, ClosedLoyal
  <2>5. Loyal(r, up, rest, list, ask, ref2, wr)
    BY <2>3, <2>4
  <2> QED BY <2>5 DEF r, ref2
<1>3. CASE m.snapshot.valid /\ ~m.snapshot.expired
  <2> DEFINE base == IF m.wanted = NoList THEN Adoption(m, names).list ELSE m.wanted
  <2>1. /\ base \in SUBSET Nicks /\ r.wanted # NoList
        /\ r.wanted = IF m.submitted.op = "+" THEN base \ (m.submitted.names \ names) ELSE base
        /\ r.submitted = NoChange /\ r.confirmed = names /\ ~r.snapshot.open
    BY <1>3, TakenList
  <2>2. 1 \in 1..Len(down)
    OBVIOUS
  <2>3. /\ up = <<>> /\ names \cup Named(down) = list
        /\ \A j \in 1..Len(down) : down[j].kind # "list"
    <3>1. /\ up = <<>> /\ names \cup Named(down) = list
          /\ \A j \in 1..Len(down) : down[j].kind = "list" => j < 1
      BY <1>3, <2>2 DEF InStep, Awaited
    <3> QED BY <3>1
  <2>4. names = list
    BY <2>3 DEF Named
  <2>5. Heeds(base, ref2, ask) /\ Spares(list, base, ask)
    <3>1. CASE m.wanted = NoList
      <4>1. /\ Heeds(Adoption(m, names).list, Adoption(m, names).over, ask)
            /\ Spares(names, Adoption(m, names).list, ask)
        BY <3>1, <2>4 DEF Loyal, Wishes
      <4>2. base = Adoption(m, names).list /\ ref2 = ref \cup Adoption(m, names).over
        BY <3>1, <1>3
      <4> HIDE DEF base, ref2, names
      <4> QED BY <4>1, <4>2, <2>4 DEF Heeds
    <3>2. CASE m.wanted # NoList
      <4>1. Heeds(m.wanted, ref, ask) /\ Spares(list, m.wanted, ask)
        BY <3>2 DEF Loyal, Wishes, Spared, Spares
      <4>2. base = m.wanted /\ ref2 = ref
        BY <3>2
      <4> HIDE DEF base, ref2
      <4> QED BY <4>1, <4>2
    <3> QED BY <3>1, <3>2
  <2>6. m.submitted.op = "+" => m.submitted.names \subseteq list \cup ref
    <3>1. SUFFICES ASSUME m.submitted.op = "+" PROVE m.submitted.names \subseteq list \cup ref
      OBVIOUS
    <3>2. Fate(m, up, down, list, ref, wr)
      BY <3>1 DEF Loyal, Submission, NoChange
    <3>3. Listings(down) /\ ~Declined(down)
      BY <2>2 DEF Listings, Declined
    <3> QED BY <3>2, <3>3 DEF Fate, Pending
  <2>7. ref \subseteq ref2
    OBVIOUS
  <2> HIDE DEF base, r, ref2, names
  <2>8. Wishes(r, ask, ref2)
    <3>1. Heeds(r.wanted, ref2, ask)
      BY <2>1, <2>4, <2>5, <2>6, <2>7 DEF Heeds
    <3> QED BY <3>1, <2>1 DEF Wishes
  <2>9. Spared(r, up, list, ask)
    <3>1. Changing(up, "+") = {} /\ Changing(up, "-") = {}
      BY <2>3 DEF Changing
    <3>2. Spares(list, r.wanted, ask)
      BY <2>1, <2>4, <2>5 DEF Spares
    <3> QED BY <3>1, <3>2 DEF Spared
  <2>10. Refusals(r, up, rest, list, ref2)
    <3>1. \A i \in 1..Len(down) : down[i].kind # "full"
      <4>1. ASSUME NEW i \in 1..Len(down), down[i].kind = "full" PROVE FALSE
        <5>1. i < 1
          BY <4>1, <2>2 DEF Loyal, Refusals
        <5> QED BY <5>1
      <4> QED BY <4>1
    <3>2. \A i \in 1..Len(rest) : rest[i] = down[i + 1] /\ i + 1 \in 1..Len(down)
      BY TailFacts
    <3> HIDE DEF rest
    <3>3. \A i \in 1..Len(rest) : rest[i].kind # "full"
      BY <3>1, <3>2
    <3> QED BY <3>3 DEF Loyal, Refusals
  <2>11. Submission(r, up, rest, list, ref2, wr)
    BY <2>1 DEF Submission
  <2>12. Loyal(r, up, rest, list, ask, ref2, wr)
    BY <2>8, <2>9, <2>10, <2>11 DEF Loyal
  <2> QED BY <2>12 DEF r, ref2, names
<1>4. m.snapshot.valid \in BOOLEAN /\ m.snapshot.expired \in BOOLEAN
  BY <1>1 DEF Managers, Snapshots
<1> QED BY <1>2, <1>3, <1>4
\* Whatever the client reads.
LEMMA ReceiveLoyal ==
  ASSUME NEW m, Proper(m), NEW up, NEW down \in Seq(Answers), down # <<>>,
         NEW list \in SUBSET Nicks, NEW adv, InStep(m, up, down, list, adv),
         NEW ask \in Asked, NEW ref, NEW wr, Loyal(m, up, down, list, ask, ref, wr)
  PROVE  Loyal(Receive(m, down[1]), up, Tail(down), list, ask, ref \cup OverLimit(m, down[1]), wr)
<1> DEFINE line == down[1]
           r == Receive(m, line)
           rest == Tail(down)
           ref2 == ref \cup OverLimit(m, line)
<1>1. m \in Managers /\ line \in Answers
  BY TailFacts DEF Proper
<1>2. line.kind \in {"offered", "withdrawn", "unavailable", "online", "offline", "list", "end", "full"}
      /\ m.support \in BOOLEAN /\ m.snapshot \in Snapshots
  BY <1>1 DEF Answers, Managers
<1>3. line.kind # "end" \/ ~m.support \/ ~m.snapshot.open => ref2 = ref
  BY DEF OverLimit
<1>4. line.kind # "unavailable" => Loyal(m, up, rest, list, ask, ref, wr)
  BY PassedLoyal
<1>5. CASE line.kind = "unavailable"
  <2>1. r = [m EXCEPT !.blocked = TRUE, !.snapshot = NoSnapshot, !.confirmed = NoList]
    BY <1>5 DEF Receive
  <2>2. /\ r.wanted = m.wanted /\ r.queued = m.queued /\ r.blocked
        /\ r.confirmed = NoList /\ ~r.snapshot.open
    BY <1>1, <2>1, TypeFacts DEF Managers
  <2>3. ref2 = ref
    BY <1>3, <1>5
  <2> HIDE DEF r, ref2
  <2>4. Loyal(r, up, rest, list, ask, ref, wr)
    BY <2>2, ClosedLoyal
  <2>5. Loyal(r, up, rest, list, ask, ref2, wr)
    BY <2>3, <2>4
  <2> QED BY <2>5 DEF r, ref2
<1>6. ASSUME line.kind # "unavailable", ref2 = ref, Stance(r) = Stance(m)
      PROVE  Loyal(r, up, rest, list, ask, ref2, wr)
  <2>1. Loyal(m, up, rest, list, ask, ref, wr)
    BY <1>4, <1>6
  <2> HIDE DEF r, ref2, rest
  <2>2. Loyal(r, up, rest, list, ask, ref, wr)
    BY <2>1, <1>6, SameStance
  <2> QED BY <2>2, <1>6
<1>7. CASE line.kind # "unavailable" /\ (~m.support \/ line.kind \in {"offered", "withdrawn"})
  <2>1. r = m
    BY <1>7 DEF Receive
  <2>2. ref2 = ref
    BY <1>3, <1>7
  <2> HIDE DEF r, ref2
  <2>3. Loyal(r, up, rest, list, ask, ref2, wr)
    BY <2>1, <2>2, <1>6, <1>7
  <2> QED BY <2>3 DEF r, ref2
<1>8. CASE m.support /\ line.kind \in {"online", "offline"}
  <2>1. r = ReceiveStatus(m, line)
    BY <1>8 DEF Receive
  <2>2. Stance(r) = Stance(m)
    BY <1>1, <2>1 DEF ReceiveStatus, Stance, Managers
  <2>3. ref2 = ref
    BY <1>3, <1>8
  <2> HIDE DEF r, ref2
  <2>4. Loyal(r, up, rest, list, ask, ref2, wr)
    BY <2>2, <2>3, <1>6, <1>8
  <2> QED BY <2>4 DEF r, ref2
<1>9. CASE m.support /\ line.kind = "list"
  <2>1. r = Listed(m, line.names)
    BY <1>9 DEF Receive
  <2>2. Stance(r) = Stance(m)
    BY <1>1, <1>2, <2>1 DEF Listed, Stance, Managers, Snapshots
  <2>3. ref2 = ref
    BY <1>3, <1>9
  <2> HIDE DEF r, ref2
  <2>4. Loyal(r, up, rest, list, ask, ref2, wr)
    BY <2>2, <2>3, <1>6, <1>9
  <2> QED BY <2>4 DEF r, ref2
<1>10. CASE m.support /\ line.kind = "full"
  <2>1. r = ReceiveFull(m, line)
    BY <1>10 DEF Receive
  <2>2. ref2 = ref
    BY <1>3, <1>10
  <2>3. Loyal(ReceiveFull(m, line), up, rest, list, ask, ref, wr)
    BY <1>10, FullLoyal
  <2> HIDE DEF r, ref2
  <2>4. Loyal(r, up, rest, list, ask, ref2, wr)
    BY <2>1, <2>2, <2>3
  <2> QED BY <2>4 DEF r, ref2
<1>11. CASE m.support /\ line.kind = "end" /\ ~m.snapshot.open
  <2>1. r = m
    BY <1>11 DEF Receive, EndOfList
  <2>2. ref2 = ref
    BY <1>3, <1>11
  <2> HIDE DEF r, ref2
  <2>3. Loyal(r, up, rest, list, ask, ref2, wr)
    BY <2>1, <2>2, <1>6, <1>11
  <2> QED BY <2>3 DEF r, ref2
<1>12. CASE m.support /\ line.kind = "end" /\ m.snapshot.open
  <2> DEFINE adopts == m.wanted = NoList /\ m.snapshot.valid /\ ~m.snapshot.expired
             over == IF adopts THEN Adoption(m, m.snapshot.names).over ELSE {}
  <2>1. r = EndOfList(m)
    BY <1>12 DEF Receive
  <2>2. OverLimit(m, line) = over
    BY <1>12 DEF OverLimit
  <2>3. Loyal(EndOfList(m), up, rest, list, ask, ref \cup over, wr)
    BY <1>12, EndLoyal
  <2> HIDE DEF r, over, rest
  <2> QED BY <2>1, <2>2, <2>3 DEF r, rest
<1> QED BY <1>2, <1>5, <1>7, <1>8, <1>9, <1>10, <1>11, <1>12

LEMMA ClientReceiveHonours ==
  ASSUME HonourInv, ListInv', ClientReceive
  PROVE  HonourInv'
<1> DEFINE line == toClient[1]
           rest == Tail(toClient)
<1>1. toServer \in Seq(Lines) /\ toClient \in Seq(Answers) /\ serverList \in SUBSET Nicks
  BY DEF HonourInv, ListInv, Typed
<1>2. /\ toClient # <<>> /\ toClient' = rest /\ Head(toClient) = line
      /\ mon' = IF created THEN Receive(Ensured, line) ELSE mon
      /\ refused' = IF created THEN refused \cup OverLimit(Ensured, line) ELSE refused
      /\ UNCHANGED <<created, writer, toServer, serverList, asked>>
  BY <1>1 DEF ClientReceive
<1>3. asked \in Asked /\ (~created => asked = Nothing) /\ ListInv
      /\ Loyal(mon, toServer, toClient, serverList, asked, refused, writer)
  BY DEF HonourInv
<1>4. CASE created
  <2>1. Loyal(Ensured, toServer, toClient, serverList, asked, refused, writer)
    BY EnsuredLoyal
  <2>2. Loyal(Receive(Ensured, line), toServer, rest, serverList, asked,
              refused \cup OverLimit(Ensured, line), writer)
    BY <1>1, <1>2, <1>3, <2>1, EnsuredInStep, ReceiveLoyal
  <2> HIDE DEF line, rest
  <2> QED BY <1>2, <1>3, <1>4, <2>2 DEF HonourInv
<1>5. CASE ~created
  <2>1. mon = Fresh
    BY <1>3, <1>5 DEF ListInv
  <2>2. mon.submitted = NoChange /\ mon.confirmed = NoList /\ ~mon.snapshot.open
    BY <2>1, TypeFacts DEF Fresh
  <2>3. \A i \in 1..Len(rest) : rest[i] = toClient[i + 1] /\ i + 1 \in 1..Len(toClient)
    BY <1>1, <1>2, TailFacts
  <2> HIDE DEF rest, line
  <2>4. Refusals(mon, toServer, rest, serverList, refused)
    BY <1>3, <2>2, <2>3 DEF Loyal, Refusals
  <2>5. Submission(mon, toServer, rest, serverList, refused, writer)
    BY <2>2 DEF Submission
  <2>6. Loyal(mon, toServer, rest, serverList, asked, refused, writer)
    BY <1>3, <2>4, <2>5 DEF Loyal
  <2> QED BY <1>2, <1>3, <1>5, <2>6 DEF HonourInv
<1> QED BY <1>4, <1>5
-----------------------------------------------------------------------------
(* The server's side.                                                      *)

\* What is left of the lines once the first is taken.
LEMMA RestFacts ==
  ASSUME NEW up \in Seq(Lines), up # <<>>
  PROVE  LET rest == Tail(up)
         IN  /\ \A op : Changing(rest, op) \subseteq Changing(up, op)
             /\ up[1].names \subseteq Changing(up, up[1].op)
             /\ OneEdit(up) => OneEdit(rest) /\ (up[1].op \in {"+", "-"} => ~Edits(rest))
             /\ \A i \in 1..Len(up) : i = 1 \/ (i - 1 \in 1..Len(rest) /\ up[i] = rest[i - 1])
<1> DEFINE rest == Tail(up)
<1>1. /\ 1 \in 1..Len(up) /\ Len(rest) + 1 = Len(up) /\ Len(rest) \in Nat
      /\ \A i \in 1..Len(rest) : rest[i] = up[i + 1] /\ i + 1 \in 1..Len(up)
  BY UpFacts
<1>2. \A i \in 1..Len(up) : i = 1 \/ (i - 1 \in 1..Len(rest) /\ up[i] = rest[i - 1])
  <2> SUFFICES ASSUME NEW i \in 1..Len(up), i # 1
               PROVE  i - 1 \in 1..Len(rest) /\ up[i] = rest[i - 1]
    OBVIOUS
  <2> HIDE DEF rest
  <2>1. i - 1 \in 1..Len(rest)
    BY <1>1
  <2>2. rest[i - 1] = up[(i - 1) + 1]
    BY <1>1, <2>1
  <2> QED BY <2>1, <2>2
<1> HIDE DEF rest
<1>3. ASSUME NEW op, NEW n \in Changing(rest, op) PROVE n \in Changing(up, op)
  <2>1. PICK i \in 1..Len(rest) : rest[i].op = op /\ n \in rest[i].names
    BY <1>3 DEF Changing
  <2>2. i + 1 \in 1..Len(up) /\ up[i + 1].op = op /\ n \in up[i + 1].names
    BY <1>1, <2>1
  <2> QED BY <2>2 DEF Changing
<1>4. up[1].names \subseteq Changing(up, up[1].op)
  BY <1>1 DEF Changing
<1>5. ASSUME OneEdit(up) PROVE OneEdit(rest) /\ (up[1].op \in {"+", "-"} => ~Edits(rest))
  <2>1. ASSUME NEW i \in 1..Len(rest), NEW j \in 1..Len(rest),
               rest[i].op \in {"+", "-"}, rest[j].op \in {"+", "-"}
        PROVE  i = j
    <3>1. i + 1 = j + 1
      BY <1>1, <1>5, <2>1 DEF OneEdit
    <3> QED BY <3>1
  <2>2. ASSUME up[1].op \in {"+", "-"}, Edits(rest) PROVE FALSE
    <3>1. PICK i \in 1..Len(rest) : rest[i].op \in {"+", "-"}
      BY <2>2 DEF Edits
    <3>2. i + 1 \in 1..Len(up) /\ up[i + 1].op \in {"+", "-"}
      BY <1>1, <3>1
    <3>3. 1 = i + 1
      BY <1>1, <1>5, <2>2, <3>2 DEF OneEdit
    <3> QED BY <3>3
  <2> QED BY <2>1, <2>2 DEF OneEdit
<1>6. \A op : Changing(rest, op) \subseteq Changing(up, op)
  BY <1>3
<1> QED BY <1>2, <1>4, <1>5, <1>6 DEF rest

\* A line that is not the addition submitted last, and adds nothing.
LEMMA TakenLoyal ==
  ASSUME NEW m, NEW up \in Seq(Lines), up # <<>>, NEW down,
         ~(up[1].op = "+" /\ up[1] = m.submitted),
         NEW list, NEW list2 \in SUBSET list, list2 = list \/ up[1].op \in {"+", "-"},
         NEW ask, NEW ref, NEW wr, Loyal(m, up, down, list, ask, ref, wr)
  PROVE  Loyal(m, Tail(up), down, list2, ask, ref, wr)
<1> DEFINE rest == Tail(up)
<1>1. /\ 1 \in 1..Len(up) /\ Len(rest) + 1 = Len(up) /\ Len(rest) \in Nat
      /\ \A i \in 1..Len(rest) : rest[i] = up[i + 1] /\ i + 1 \in 1..Len(up)
      /\ Asks(rest) => Asks(up)
      /\ Edits(rest) => Edits(up)
  BY UpFacts
<1>2. /\ \A op : Changing(rest, op) \subseteq Changing(up, op)
      /\ OneEdit(up) => OneEdit(rest)
      /\ \A i \in 1..Len(up) : i = 1 \/ (i - 1 \in 1..Len(rest) /\ up[i] = rest[i - 1])
  BY RestFacts
<1> HIDE DEF rest
<1>3. Wishes(m, ask, ref)
  BY DEF Loyal
<1>4. Spared(m, rest, list2, ask)
  BY <1>2 DEF Loyal, Spared, Spares
<1>5. Refusals(m, rest, down, list2, ref)
  BY <1>1, <1>2 DEF Loyal, Refusals
<1>6. ASSUME m.submitted.op = "+", Pending(m, up, down) PROVE Pending(m, rest, down)
  <2>1. PICK i \in 1..Len(up) : up[i] = m.submitted /\ \A j \in 1..Len(up) : up[j].op = "L" => i < j
    BY <1>6 DEF Pending
  <2>2. i # 1
    BY <1>6, <2>1
  <2>3. i - 1 \in 1..Len(rest) /\ rest[i - 1] = m.submitted
    BY <1>2, <2>1, <2>2
  <2>4. ASSUME NEW j \in 1..Len(rest), rest[j].op = "L" PROVE i - 1 < j
    <3>1. j + 1 \in 1..Len(up) /\ up[j + 1].op = "L"
      BY <1>1, <2>4
    <3> QED BY <3>1, <2>1
  <2> QED BY <1>6, <2>3, <2>4 DEF Pending
<1>7. ASSUME ~Edits(up) PROVE ~Edits(rest) /\ list2 = list
  BY <1>1, <1>7 DEF Edits
<1>8. Submission(m, rest, down, list2, ref, wr)
  BY <1>1, <1>6, <1>7 DEF Loyal, Submission, Fate
<1> QED BY <1>3, <1>4, <1>5, <1>8 DEF Loyal, rest

\* Answers that are neither a listing's nor a refusal.
Plain(lines) == \A i \in 1..Len(lines) : lines[i].kind \notin {"list", "end", "full"}

LEMMA MoreFacts ==
  ASSUME NEW down \in Seq(Answers), NEW extra \in Seq(Answers)
  PROVE  LET all == down \o extra
         IN  /\ Len(all) = Len(down) + Len(extra) /\ Len(down) \in Nat /\ Len(extra) \in Nat
             /\ \A i \in 1..Len(down) : all[i] = down[i] /\ i \in 1..Len(all)
             /\ \A i \in 1..Len(all) :
                  \/ i \in 1..Len(down) /\ all[i] = down[i]
                  \/ i > Len(down) /\ i - Len(down) \in 1..Len(extra) /\ all[i] = extra[i - Len(down)]
             /\ Declined(down) => Declined(all)
<1> DEFINE all == down \o extra
<1>1. /\ Len(all) = Len(down) + Len(extra) /\ Len(down) \in Nat /\ Len(extra) \in Nat
      /\ \A i \in 1..Len(down) : all[i] = down[i] /\ i \in 1..Len(all)
      /\ \A i \in 1..Len(extra) : all[Len(down) + i] = extra[i]
      /\ \A i \in 1..Len(all) : i \in 1..Len(down) \/ i - Len(down) \in 1..Len(extra)
  BY ConcatFacts
<1> HIDE DEF all
<1>2. ASSUME NEW i \in 1..Len(all)
      PROVE  \/ i \in 1..Len(down) /\ all[i] = down[i]
             \/ i > Len(down) /\ i - Len(down) \in 1..Len(extra) /\ all[i] = extra[i - Len(down)]
  <2>1. CASE i - Len(down) \in 1..Len(extra)
    <3>1. all[Len(down) + (i - Len(down))] = extra[i - Len(down)]
      BY <1>1, <2>1
    <3>2. Len(down) + (i - Len(down)) = i /\ i > Len(down)
      BY <1>1, <2>1
    <3> QED BY <3>1, <3>2, <2>1
  <2> QED BY <1>1, <2>1
<1>3. ASSUME Declined(down) PROVE Declined(all)
  <2>1. PICK i \in 1..Len(down) : down[i].kind = "unavailable" /\
          \A j \in 1..Len(down) : down[j].kind \in {"list", "end"} => i < j
    BY <1>3 DEF Declined
  <2>2. i \in 1..Len(all) /\ all[i].kind = "unavailable"
    BY <1>1, <2>1
  <2>3. ASSUME NEW j \in 1..Len(all), all[j].kind \in {"list", "end"} PROVE i < j
    <3>1. CASE j \in 1..Len(down) /\ all[j] = down[j]
      BY <2>1, <2>3, <3>1
    <3>2. CASE j > Len(down)
      BY <1>1, <3>2
    <3> QED BY <1>2, <3>1, <3>2
  <2> QED BY <2>2, <2>3 DEF Declined
<1> QED BY <1>1, <1>2, <1>3 DEF all

LEMMA ToldLoyal ==
  ASSUME NEW m, NEW up, NEW down \in Seq(Answers), NEW extra \in Seq(Answers), Plain(extra),
         NEW list, NEW ask, NEW ref, NEW wr, Loyal(m, up, down, list, ask, ref, wr)
  PROVE  Loyal(m, up, down \o extra, list, ask, ref, wr)
<1> DEFINE all == down \o extra
<1>1. /\ Len(all) = Len(down) + Len(extra) /\ Len(down) \in Nat /\ Len(extra) \in Nat
      /\ \A i \in 1..Len(down) : all[i] = down[i] /\ i \in 1..Len(all)
      /\ \A i \in 1..Len(all) :
           \/ i \in 1..Len(down) /\ all[i] = down[i]
           \/ i > Len(down) /\ i - Len(down) \in 1..Len(extra) /\ all[i] = extra[i - Len(down)]
      /\ Declined(down) => Declined(all)
  BY MoreFacts
<1> HIDE DEF all
<1>2. \A i \in 1..Len(all) : all[i].kind \in {"list", "end", "full"} =>
        i \in 1..Len(down) /\ all[i] = down[i]
  BY <1>1 DEF Plain
<1>3. Listings(all) => Listings(down)
  BY <1>2 DEF Listings
<1>4. Refusals(m, up, all, list, ref)
  BY <1>2 DEF Loyal, Refusals
<1>5. Submission(m, up, all, list, ref, wr)
  BY <1>1, <1>3 DEF Loyal, Submission, Fate, Pending
<1> QED BY <1>4, <1>5 DEF Loyal, all

\* The server has no MONITOR at the moment.
LEMMA DeclinedLoyal ==
  ASSUME NEW m, NEW up \in Seq(Lines), up # <<>>, NEW down \in Seq(Answers),
         NEW a \in Answers, a.kind = "unavailable",
         NEW list, NEW ask, NEW ref, NEW wr, Loyal(m, up, down, list, ask, ref, wr)
  PROVE  Loyal(m, Tail(up), down \o <<a>>, list, ask, ref, wr)
<1> DEFINE rest == Tail(up)
           extra == <<a>>
           all == down \o extra
<1>1. extra \in Seq(Answers) /\ Len(extra) = 1 /\ extra[1] = a
  OBVIOUS
<1> HIDE DEF extra
<1>2. Plain(extra)
  BY <1>1 DEF Plain
<1>3. CASE ~(up[1].op = "+" /\ up[1] = m.submitted)
  <2>1. Loyal(m, rest, down, list, ask, ref, wr)
    BY <1>3, TakenLoyal
  <2> HIDE DEF rest
  <2>2. Loyal(m, rest, down \o extra, list, ask, ref, wr)
    BY <1>1, <1>2, <2>1, ToldLoyal
  <2> QED BY <2>2 DEF rest, extra
<1>4. CASE up[1].op = "+" /\ up[1] = m.submitted
  <2>1. /\ \A op : Changing(rest, op) \subseteq Changing(up, op)
        /\ OneEdit(up) => OneEdit(rest) /\ (up[1].op \in {"+", "-"} => ~Edits(rest))
    BY RestFacts
  <2>2. /\ Len(rest) \in Nat /\ \A i \in 1..Len(rest) : rest[i] = up[i + 1] /\ i + 1 \in 1..Len(up)
        /\ 1 \in 1..Len(up)
    BY UpFacts
  <2> HIDE DEF rest
  <2>3. Loyal(m, up, all, list, ask, ref, wr)
    BY <1>1, <1>2, ToldLoyal
  <2>4. Len(all) = Len(down) + 1 /\ Len(down) \in Nat /\ all[Len(down) + 1] = a
        /\ \A i \in 1..Len(down) : all[i] = down[i]
    <3>1. /\ Len(all) = Len(down) + Len(extra) /\ Len(down) \in Nat
          /\ \A i \in 1..Len(down) : all[i] = down[i]
          /\ \A i \in 1..Len(extra) : all[Len(down) + i] = extra[i]
      BY <1>1, ConcatFacts
    <3> HIDE DEF all
    <3> QED BY <1>1, <3>1
  <2> HIDE DEF all
  <2>5. Spared(m, rest, list, ask)
    BY <2>1, <2>3 DEF Loyal, Spared, Spares
  <2>6. Refusals(m, rest, all, list, ref)
    BY <2>1, <2>2, <2>3 DEF Loyal, Refusals
  <2>7. m.submitted # NoChange
    BY <1>4 DEF NoChange
  <2>8. Pending(m, up, down) => Fate(m, rest, all, list, ref, wr)
    <3>1. SUFFICES ASSUME ~Listings(down) PROVE Fate(m, rest, all, list, ref, wr)
      BY DEF Pending
    <3>2. \A j \in 1..Len(all) : all[j].kind \notin {"list", "end"}
      <4>1. \A j \in 1..Len(all) : j \in 1..Len(down) \/ j = Len(down) + 1
        BY <2>4
      <4> QED BY <2>4, <3>1, <4>1 DEF Listings
    <3>3. Declined(all)
      BY <2>4, <3>2 DEF Declined
    <3>4. ~Edits(rest)
      BY <1>4, <2>1, <2>3 DEF Loyal, Refusals
    <3> QED BY <3>3, <3>4 DEF Fate
  <2>9. m.blocked /\ ~m.snapshot.open => Fate(m, rest, all, list, ref, wr)
    BY DEF Fate
  <2>10. Edits(up)
    BY <1>4, <2>2 DEF Edits
  <2>11. Fate(m, rest, all, list, ref, wr)
    BY <1>4, <2>7, <2>8, <2>9, <2>10 DEF Loyal, Submission, Fate
  <2>12. Submission(m, rest, all, list, ref, wr)
    BY <2>3, <2>11 DEF Loyal, Submission
  <2>13. Loyal(m, rest, all, list, ask, ref, wr)
    BY <2>3, <2>5, <2>6, <2>12 DEF Loyal
  <2> QED BY <2>13 DEF rest, all, extra
<1> QED BY <1>3, <1>4

\* The server lists what it has.
LEMMA ListingLoyal ==
  ASSUME NEW m, NEW up \in Seq(Lines), up # <<>>, up[1].op = "L", NEW down \in Seq(Answers),
         NEW extra \in Seq(Answers), \A i \in 1..Len(extra) : extra[i].kind \in {"list", "end"},
         NEW list, NEW ask, NEW ref, NEW wr, Loyal(m, up, down, list, ask, ref, wr)
  PROVE  Loyal(m, Tail(up), down \o extra, list, ask, ref, wr)
<1> DEFINE rest == Tail(up)
           all == down \o extra
<1>1. /\ Len(all) = Len(down) + Len(extra) /\ Len(down) \in Nat /\ Len(extra) \in Nat
      /\ \A i \in 1..Len(down) : all[i] = down[i] /\ i \in 1..Len(all)
      /\ \A i \in 1..Len(all) :
           \/ i \in 1..Len(down) /\ all[i] = down[i]
           \/ i > Len(down) /\ i - Len(down) \in 1..Len(extra) /\ all[i] = extra[i - Len(down)]
      /\ Declined(down) => Declined(all)
  BY MoreFacts
<1>2. Loyal(m, rest, down, list, ask, ref, wr)
  BY TakenLoyal
<1>3. 1 \in 1..Len(up) /\ (Edits(rest) => Edits(up))
  BY UpFacts
<1> HIDE DEF all, rest
<1>4. \A i \in 1..Len(all) : all[i].kind \notin {"list", "end"} =>
        i \in 1..Len(down) /\ all[i] = down[i]
  BY <1>1
<1>5. ASSUME NEW i \in 1..Len(all), all[i].kind = "full"
      PROVE  /\ all[i].names \subseteq ref \ list
             /\ m.confirmed = NoList /\ \A j \in 1..Len(rest) : rest[j].op # "+"
             /\ m.snapshot.open => \A j \in 1..Len(all) : all[j].kind = "end" => i < j
  <2>1. i \in 1..Len(down) /\ all[i] = down[i]
    BY <1>4, <1>5
  <2>2. /\ all[i].names \subseteq ref \ list
        /\ m.confirmed = NoList /\ \A j \in 1..Len(rest) : rest[j].op # "+"
        /\ m.snapshot.open => \A j \in 1..Len(down) : down[j].kind = "end" => i < j
    BY <1>2, <1>5, <2>1 DEF Loyal, Refusals
  <2>3. ASSUME m.snapshot.open, NEW j \in 1..Len(all), all[j].kind = "end" PROVE i < j
    <3>1. CASE j \in 1..Len(down) /\ all[j] = down[j]
      BY <2>2, <2>3, <3>1
    <3>2. CASE j > Len(down)
      BY <1>1, <2>1, <3>2
    <3> QED BY <1>1, <3>1, <3>2
  <2> QED BY <2>2, <2>3
<1>6. Refusals(m, rest, all, list, ref)
  BY <1>2, <1>5 DEF Loyal, Refusals
<1>7. ~Pending(m, up, down)
  <2>1. ASSUME NEW i \in 1..Len(up), \A j \in 1..Len(up) : up[j].op = "L" => i < j PROVE FALSE
    <3>1. i < 1
      BY <1>3, <2>1
    <3> QED BY <3>1
  <2> QED BY <2>1 DEF Pending
<1>8. Asks(up)
  BY <1>3 DEF Asks
<1>9. Submission(m, rest, all, list, ref, wr)
  BY <1>1, <1>3, <1>7, <1>8 DEF Loyal, Submission, Fate
<1> QED BY <1>2, <1>6, <1>9 DEF Loyal, rest, all

\* The server takes some of an addition up, and refuses the others.
LEMMA AddedLoyal ==
  ASSUME NEW m, NEW up \in Seq(Lines), up # <<>>, up[1].op = "+", NEW down,
         NEW list, NEW no \in SUBSET (up[1].names \ list),
         NEW ask, NEW ref, NEW wr, Loyal(m, up, down, list, ask, ref, wr)
  PROVE  /\ Loyal(m, Tail(up), down, list \cup (up[1].names \ no), ask, ref \cup no, wr)
         /\ \A i \in 1..Len(down) : down[i].kind # "full"
<1> DEFINE rest == Tail(up)
           names == up[1].names
           list2 == list \cup (names \ no)
           ref2 == ref \cup no
<1>1. /\ \A op : Changing(rest, op) \subseteq Changing(up, op)
      /\ names \subseteq Changing(up, "+")
      /\ OneEdit(up) => OneEdit(rest) /\ (up[1].op \in {"+", "-"} => ~Edits(rest))
  BY RestFacts
<1>2. 1 \in 1..Len(up)
  BY UpFacts
<1>3. OneEdit(up) /\ OneEdit(rest) /\ ~Edits(rest)
  BY <1>1 DEF Loyal, Refusals
<1> HIDE DEF rest
<1>4. \A i \in 1..Len(down) : down[i].kind # "full"
  BY <1>2 DEF Loyal, Refusals
<1>5. Wishes(m, ask, ref2)
  <2>1. m.wanted # NoList => Heeds(m.wanted, ref2, ask)
    BY DEF Loyal, Wishes, Heeds
  <2> QED BY <2>1 DEF Loyal, Wishes
<1>6. Spared(m, rest, list2, ask)
  BY <1>1 DEF Loyal, Spared, Spares
<1>7. Refusals(m, rest, down, list2, ref2)
  BY <1>3, <1>4 DEF Refusals
<1>8. ASSUME m.submitted.op = "+", Pending(m, up, down) PROVE m.submitted.names \subseteq list2 \cup ref2
  <2>1. PICK i \in 1..Len(up) : up[i] = m.submitted
    BY <1>8 DEF Pending
  <2>2. i = 1
    BY <1>2, <1>3, <1>8, <2>1 DEF OneEdit
  <2> QED BY <2>1, <2>2
<1>9. Edits(up)
  BY <1>2 DEF Edits
<1> HIDE DEF list2, ref2
<1>10. Submission(m, rest, down, list2, ref2, wr)
  BY <1>3, <1>8, <1>9 DEF Loyal, Submission, Fate
<1> QED BY <1>4, <1>5, <1>6, <1>7, <1>10 DEF Loyal, rest, list2, ref2

\* 734: the server tells what it refused.
LEMMA RefusedLoyal ==
  ASSUME NEW m, m.confirmed = NoList, NEW up, \A j \in 1..Len(up) : up[j].op # "+",
         NEW down \in Seq(Answers), \A i \in 1..Len(down) : down[i].kind # "full",
         m.snapshot.open => \A i \in 1..Len(down) : down[i].kind # "end",
         NEW list, NEW ask, NEW ref, NEW wr, Loyal(m, up, down, list, ask, ref, wr),
         NEW a \in Answers, a.kind = "full", a.names \subseteq ref \ list
  PROVE  Loyal(m, up, down \o <<a>>, list, ask, ref, wr)
<1> DEFINE extra == <<a>>
           all == down \o extra
<1>1. extra \in Seq(Answers) /\ Len(extra) = 1 /\ extra[1] = a
  OBVIOUS
<1> HIDE DEF extra
<1>2. /\ \A i \in 1..Len(all) :
           \/ i \in 1..Len(down) /\ all[i] = down[i]
           \/ i > Len(down) /\ i - Len(down) \in 1..Len(extra) /\ all[i] = extra[i - Len(down)]
      /\ Declined(down) => Declined(all)
      /\ Len(down) \in Nat /\ Len(all) \in Nat
  BY <1>1, MoreFacts
<1> HIDE DEF all
<1>3. \A i \in 1..Len(all) : (i \in 1..Len(down) /\ all[i] = down[i]) \/ all[i] = a
  <2> SUFFICES ASSUME NEW i \in 1..Len(all), i - Len(down) \in 1..Len(extra),
                      all[i] = extra[i - Len(down)]
               PROVE  all[i] = a
    BY <1>2
  <2>1. i - Len(down) = 1
    BY <1>1, <1>2
  <2> QED BY <1>1, <2>1
<1>4. Listings(all) => Listings(down)
  BY <1>3 DEF Listings
<1>5. m.snapshot.open => \A j \in 1..Len(all) : all[j].kind # "end"
  BY <1>3
<1>6. Refusals(m, up, all, list, ref)
  BY <1>3, <1>5 DEF Loyal, Refusals
<1>7. Submission(m, up, all, list, ref, wr)
  BY <1>2, <1>4 DEF Loyal, Submission, Fate, Pending
<1> QED BY <1>6, <1>7 DEF Loyal, all, extra
LEMMA ServerStepHonours ==
  ASSUME HonourInv, ListInv', ServerStep
  PROVE  HonourInv'
<1> DEFINE command == toServer[1]
           rest == Tail(toServer)
<1>1. /\ toServer \in Seq(Lines) /\ toClient \in Seq(Answers)
      /\ serverList \in SUBSET Nicks /\ refused \in SUBSET Nicks
  BY DEF HonourInv, ListInv, Typed
<1>2. /\ toServer # <<>> /\ toServer' = rest /\ Head(toServer) = command
      /\ UNCHANGED <<created, mon, writer, asked>>
  BY <1>1 DEF ServerStep
<1>3. command.names \in SUBSET Nicks
  <2>1. command \in Lines
    BY <1>1, <1>2, UpFacts
  <2> HIDE DEF command
  <2> QED BY <2>1 DEF Lines
<1>4. Loyal(mon, toServer, toClient, serverList, asked, refused, writer)
  BY DEF HonourInv
<1>5. ASSUME Loyal(mon, rest, toClient', serverList', asked, refused', writer)
      PROVE  HonourInv'
  <2> HIDE DEF rest
  <2>1. Loyal(mon, rest, toClient', serverList', asked, refused', writer)
    BY <1>5
  <2> QED BY <1>2, <2>1 DEF HonourInv
<1>6. CASE Answer(<<[kind |-> "unavailable", names |-> {}]>>) /\ UNCHANGED <<serverList, refused>>
  <2> DEFINE a == [kind |-> "unavailable", names |-> {}]
  <2>1. a \in Answers /\ a.kind = "unavailable"
    BY DEF Answers
  <2>2. toClient' = toClient \o <<a>>
    BY <1>6 DEF Answer
  <2> HIDE DEF a, rest
  <2>3. Loyal(mon, Tail(toServer), toClient \o <<a>>, serverList, asked, refused, writer)
    BY <1>1, <1>2, <1>4, <2>1, DeclinedLoyal
  <2> QED BY <1>5, <1>6, <2>2, <2>3 DEF rest
<1>7. CASE command.op = "L" /\ Answer(Listing) /\ UNCHANGED <<serverList, refused>>
  <2>1. toClient' = toClient \o Listing
    BY <1>7 DEF Answer
  <2>2. Listing \in Seq(Answers) /\ \A i \in 1..Len(Listing) : Listing[i].kind \in {"list", "end"}
    <3>1. /\ Listing \in Seq(Answers) /\ Len(Listing) \in Nat \ {0}
          /\ Listing[Len(Listing)].kind = "end"
          /\ \A i \in 1..Len(Listing) : i < Len(Listing) => Listing[i].kind = "list"
      BY <1>1, ListingFacts
    <3>2. \A i \in 1..Len(Listing) : i < Len(Listing) \/ i = Len(Listing)
      BY <3>1
    <3> QED BY <3>1, <3>2
  <2>3. Loyal(mon, Tail(toServer), toClient \o Listing, serverList, asked, refused, writer)
    BY <1>1, <1>2, <1>4, <1>7, <2>2, ListingLoyal
  <2> QED BY <1>5, <1>7, <2>1, <2>3
<1>8. CASE command.op = "S" /\ Answer(Status(serverList)) /\ UNCHANGED <<serverList, refused>>
  <2>1. toClient' = toClient \o Status(serverList)
    BY <1>8 DEF Answer
  <2>2. Status(serverList) \in Seq(Answers) /\ Plain(Status(serverList))
    BY <1>1, StatusFacts DEF Plain
  <2>3. Loyal(mon, Tail(toServer), toClient, serverList, asked, refused, writer)
    BY <1>1, <1>2, <1>4, <1>8, TakenLoyal
  <2>4. Loyal(mon, Tail(toServer), toClient \o Status(serverList), serverList, asked, refused, writer)
    BY <1>1, <2>2, <2>3, ToldLoyal
  <2> QED BY <1>5, <1>8, <2>1, <2>4
<1>9. CASE /\ command.op = "-" /\ Answer(<<>>) /\ serverList' = serverList \ command.names
           /\ UNCHANGED refused
  <2>1. toClient' = toClient
    BY <1>1, <1>9 DEF Answer
  <2>2. serverList' \in SUBSET serverList
    BY <1>9
  <2>3. Loyal(mon, Tail(toServer), toClient, serverList', asked, refused, writer)
    BY <1>1, <1>2, <1>4, <1>9, <2>2, TakenLoyal
  <2> QED BY <1>5, <1>9, <2>1, <2>3
<1>10. ASSUME command.op = "+",
              NEW no \in SUBSET (command.names \ serverList), NEW full \in BOOLEAN,
              serverList' = serverList \cup (command.names \ no), refused' = refused \cup no,
              Answer(Status(command.names \ no) \o
                     (IF full THEN <<[kind |-> "full", names |-> no]>> ELSE <<>>))
       PROVE  HonourInv'
  <2> DEFINE said == Status(command.names \ no)
             a == [kind |-> "full", names |-> no]
             told == IF full THEN <<a>> ELSE <<>>
             list2 == serverList \cup (command.names \ no)
             ref2 == refused \cup no
             down == toClient \o said
  <2>1. toClient' = toClient \o (said \o told)
    BY <1>10 DEF Answer
  <2>2. /\ said \in Seq(Answers) /\ Plain(said)
        /\ \A i \in 1..Len(said) : said[i].kind \in {"online", "offline"}
    BY <1>3, StatusFacts DEF Plain
  <2>3. a \in Answers /\ a.kind = "full" /\ a.names = no
    BY <1>3 DEF Answers
  <2>4. /\ Loyal(mon, rest, toClient, list2, asked, ref2, writer)
        /\ \A i \in 1..Len(toClient) : toClient[i].kind # "full"
    BY <1>1, <1>2, <1>4, <1>10, AddedLoyal
  <2>5. no \subseteq ref2 \ list2
    BY <1>10
  <2>6. Edits(toServer)
    <3>1. 1 \in 1..Len(toServer)
      BY <1>1, <1>2
    <3> QED BY <3>1, <1>10 DEF Edits
  <2>7. mon.confirmed = NoList
    BY <2>6 DEF HonourInv, ListInv, InStep, Believed
  <2>8. mon.snapshot.open => \A i \in 1..Len(toClient) : toClient[i].kind # "end"
    BY <1>2 DEF HonourInv, ListInv, InStep, Awaited
  <2>9. \A j \in 1..Len(rest) : rest[j].op # "+"
    <3>1. OneEdit(toServer) => (toServer[1].op \in {"+", "-"} => ~Edits(rest))
      BY <1>1, <1>2, RestFacts
    <3> QED BY <1>4, <1>10, <3>1 DEF Loyal, Refusals, Edits
  <2> HIDE DEF said, a, rest
  <2>10. Loyal(mon, rest, down, list2, asked, ref2, writer)
    BY <1>1, <2>2, <2>4, ToldLoyal
  <2>11. /\ down \in Seq(Answers) /\ Len(toClient) \in Nat
         /\ \A i \in 1..Len(down) :
              \/ i \in 1..Len(toClient) /\ down[i] = toClient[i]
              \/ i - Len(toClient) \in 1..Len(said) /\ down[i] = said[i - Len(toClient)]
    BY <1>1, <2>2, MoreFacts
  <2> HIDE DEF down, list2, ref2
  <2>12. \A i \in 1..Len(down) : down[i].kind # "full"
    BY <2>2, <2>4, <2>11
  <2>13. mon.snapshot.open => \A i \in 1..Len(down) : down[i].kind # "end"
    BY <2>2, <2>8, <2>11
  <2>14. Loyal(mon, rest, down \o <<a>>, list2, asked, ref2, writer)
    BY <2>3, <2>5, <2>7, <2>9, <2>10, <2>11, <2>12, <2>13, RefusedLoyal
  <2>15. Loyal(mon, rest, down \o told, list2, asked, ref2, writer)
    <3>1. CASE full
      BY <3>1, <2>14
    <3>2. CASE ~full
      <4>1. down \o told = down
        BY <3>2, <2>11
      <4> QED BY <4>1, <2>10
    <3> QED BY <3>1, <3>2
  <2>16. toClient' = down \o told
    <3>1. told \in Seq(Answers)
      <4>1. <<a>> \in Seq(Answers)
        BY <2>3
      <4> QED BY <4>1, EmptyFacts
    <3> HIDE DEF told
    <3>2. toClient \o (said \o told) = (toClient \o said) \o told
      BY <1>1, <2>2, <3>1
    <3> QED BY <2>1, <3>2 DEF down, told
  <2>17. serverList' = list2 /\ refused' = ref2
    BY <1>10 DEF list2, ref2
  <2> HIDE DEF told
  <2> QED BY <1>5, <2>15, <2>16, <2>17 DEF rest
<1> QED BY <1>2, <1>6, <1>7, <1>8, <1>9, <1>10 DEF ServerStep

-----------------------------------------------------------------------------
(* The network.                                                            *)

\* A new session: nothing asked for in the last one is still on its way.
LEMMA RenewedLoyal ==
  ASSUME NEW m, NEW r, r.wanted = m.wanted, r.queued = m.queued,
         r.submitted = NoChange, r.confirmed = NoList, ~r.snapshot.open,
         NEW up, NEW down, NEW down2, \A i \in 1..Len(down2) : down2[i].kind # "full",
         NEW list, NEW list2 \in SUBSET list, NEW ask, NEW ref, NEW wr, NEW wr2,
         Loyal(m, up, down, list, ask, ref, wr)
  PROVE  Loyal(r, <<>>, down2, list2, ask, ref, wr2)
<1>1. \A names : Adoption(r, names) = Adoption(m, names)
  BY DEF Adoption
<1>2. Len(<<>>) = 0 /\ 1..0 = {}
  OBVIOUS
<1>3. Wishes(r, ask, ref)
  BY <1>1 DEF Loyal, Wishes
<1>4. Changing(<<>>, "+") = {} /\ Changing(<<>>, "-") = {}
  BY <1>2 DEF Changing
<1>5. Spared(r, <<>>, list2, ask)
  BY <1>4 DEF Loyal, Spared, Spares
<1>6. Refusals(r, <<>>, down2, list2, ref)
  BY <1>2 DEF Refusals, OneEdit
<1>7. Submission(r, <<>>, down2, list2, ref, wr2)
  BY DEF Submission
<1> QED BY <1>3, <1>5, <1>6, <1>7 DEF Loyal

LEMMA ResetFacts ==
  ASSUME HonourInv
  PROVE  LET r == IF created THEN ResetTransport(mon) ELSE mon
         IN  /\ r.wanted = mon.wanted /\ r.queued = mon.queued
             /\ r.submitted = NoChange /\ r.confirmed = NoList /\ ~r.snapshot.open
<1>1. mon \in Managers /\ (~created => mon = Fresh)
  BY DEF HonourInv, ListInv, Typed, Proper
<1>2. /\ ResetTransport(mon).wanted = mon.wanted /\ ResetTransport(mon).queued = mon.queued
      /\ ResetTransport(mon).submitted = NoChange /\ ResetTransport(mon).confirmed = NoList
      /\ ResetTransport(mon).snapshot = NoSnapshot
  BY <1>1 DEF ResetTransport, Managers
<1>3. Fresh.submitted = NoChange /\ Fresh.confirmed = NoList /\ Fresh.snapshot = NoSnapshot
  BY DEF Fresh
<1> QED BY <1>1, <1>2, <1>3, TypeFacts

LEMMA DisconnectHonours ==
  ASSUME HonourInv, ListInv', Disconnect
  PROVE  HonourInv'
<1> DEFINE r == IF created THEN ResetTransport(mon) ELSE mon
<1>1. /\ mon' = r /\ toServer' = <<>> /\ toClient' = <<>>
      /\ UNCHANGED <<created, writer, serverList, refused, asked>>
  BY DEF Disconnect, server
<1>2. /\ r.wanted = mon.wanted /\ r.queued = mon.queued
      /\ r.submitted = NoChange /\ r.confirmed = NoList /\ ~r.snapshot.open
  BY ResetFacts
<1> HIDE DEF r
<1>3. \A i \in 1..Len(<<>>) : <<>>[i].kind # "full"
  OBVIOUS
<1>4. Loyal(mon, toServer, toClient, serverList, asked, refused, writer)
  BY DEF HonourInv
<1>5. Loyal(r, <<>>, <<>>, serverList, asked, refused, writer)
  BY <1>2, <1>3, <1>4, RenewedLoyal
<1> QED BY <1>1, <1>5 DEF HonourInv

LEMMA ReconnectHonours ==
  ASSUME HonourInv, ListInv', Reconnect
  PROVE  HonourInv'
<1> DEFINE r == IF created THEN ResetTransport(mon) ELSE mon
           offer == <<[kind |-> "offered", names |-> {}]>>
<1>1. /\ ~connected /\ mon' = r /\ toClient' = offer /\ serverList' \in SUBSET serverList
      /\ UNCHANGED <<created, toServer, refused, asked>>
  BY DEF Reconnect
<1>2. /\ r.wanted = mon.wanted /\ r.queued = mon.queued
      /\ r.submitted = NoChange /\ r.confirmed = NoList /\ ~r.snapshot.open
  BY ResetFacts
<1>3. \A i \in 1..Len(offer) : offer[i].kind # "full"
  OBVIOUS
<1> HIDE DEF r, offer
<1>4. Loyal(mon, toServer, toClient, serverList, asked, refused, writer)
  BY DEF HonourInv
<1>5. toServer = <<>>
  BY <1>1 DEF HonourInv, ListInv, Offline
<1>6. Loyal(r, <<>>, offer, serverList', asked, refused, writer')
  BY <1>1, <1>2, <1>3, <1>4, RenewedLoyal
<1> QED BY <1>1, <1>5, <1>6 DEF HonourInv

\* The connection takes nothing more: the last lines are lost, with what was
\* to be read back.
LEMMA CutLoyal ==
  ASSUME NEW m, NEW up \in Seq(Lines), NEW n \in 0..Len(up), NEW down,
         NEW list, NEW ask, NEW ref, NEW wr, Loyal(m, up, down, list, ask, ref, wr)
  PROVE  Loyal(m, SubSeq(up, 1, n), down, list, ask, ref, FALSE)
<1> DEFINE kept == SubSeq(up, 1, n)
<1>1. /\ Len(kept) = n /\ Len(up) \in Nat /\ n \in Nat
      /\ \A i \in 1..n : kept[i] = up[i]
  OBVIOUS
<1> HIDE DEF kept
<1>2. \A i \in 1..Len(kept) : kept[i] = up[i] /\ i \in 1..Len(up)
  BY <1>1
<1>3. \A op : Changing(kept, op) \subseteq Changing(up, op)
  <2> SUFFICES ASSUME NEW op, NEW k \in Changing(kept, op) PROVE k \in Changing(up, op)
    OBVIOUS
  <2>1. PICK i \in 1..Len(kept) : kept[i].op = op /\ k \in kept[i].names
    BY DEF Changing
  <2>2. i \in 1..Len(up) /\ up[i].op = op /\ k \in up[i].names
    BY <1>2, <2>1
  <2> QED BY <2>2 DEF Changing
<1>4. (Asks(kept) => Asks(up)) /\ (Edits(kept) => Edits(up)) /\ (OneEdit(up) => OneEdit(kept))
  BY <1>2 DEF Asks, Edits, OneEdit
<1>5. Spared(m, kept, list, ask)
  BY <1>3 DEF Loyal, Spared, Spares
<1>6. Refusals(m, kept, down, list, ref)
  BY <1>2, <1>4 DEF Loyal, Refusals
<1>7. ASSUME m.submitted.op = "+", Pending(m, up, down) PROVE Fate(m, kept, down, list, ref, FALSE)
  <2>1. PICK i \in 1..Len(up) : up[i] = m.submitted /\ \A j \in 1..Len(up) : up[j].op = "L" => i < j
    BY <1>7 DEF Pending
  <2>2. CASE i \in 1..Len(kept)
    BY <1>2, <1>7, <2>1, <2>2 DEF Fate, Pending
  <2>3. CASE i \notin 1..Len(kept)
    <3>1. ~Edits(kept)
      <4>1. ASSUME NEW j \in 1..Len(kept), kept[j].op \in {"+", "-"} PROVE FALSE
        <5>1. j = i
          BY <1>2, <1>7, <2>1, <4>1 DEF Loyal, Refusals, OneEdit
        <5> QED BY <5>1, <4>1, <2>3
      <4> QED BY <4>1 DEF Edits
    <3>2. ~Asks(kept)
      <4>1. ASSUME NEW j \in 1..Len(kept), kept[j].op = "L" PROVE FALSE
        <5>1. i < j
          BY <1>2, <2>1, <4>1
        <5> QED BY <5>1, <1>1, <2>3
      <4> QED BY <4>1 DEF Asks
    <3> QED BY <3>1, <3>2, <1>7 DEF Fate, Pending
  <2> QED BY <2>2, <2>3
<1>8. Submission(m, kept, down, list, ref, FALSE)
  BY <1>4, <1>7 DEF Loyal, Submission, Fate
<1> QED BY <1>5, <1>6, <1>8 DEF Loyal, kept

LEMMA WriterDiesHonours ==
  ASSUME HonourInv, ListInv', WriterDies
  PROVE  HonourInv'
<1>1. /\ writer' = FALSE
      /\ UNCHANGED <<created, mon, toClient, serverList, refused, asked>>
  BY DEF WriterDies, server
<1>2. PICK n \in 0..Len(toServer) : toServer' = SubSeq(toServer, 1, n)
  BY DEF WriterDies
<1>3. toServer \in Seq(Lines)
  BY DEF HonourInv, ListInv, Typed
<1>4. Loyal(mon, SubSeq(toServer, 1, n), toClient, serverList, asked, refused, FALSE)
  BY <1>3, CutLoyal DEF HonourInv
<1>5. Loyal(mon', toServer', toClient', serverList', asked', refused', writer')
  BY <1>1, <1>2, <1>4
<1> QED BY <1>1, <1>5 DEF HonourInv

\* The server says something by itself.
LEMMA ToldHonours ==
  ASSUME HonourInv, ListInv', NEW a \in Answers, a.kind \notin {"list", "end", "full"},
         toClient' \in {toClient, toClient \o <<a>>},
         UNCHANGED <<created, mon, writer, toServer, serverList, asked, refused>>
  PROVE  HonourInv'
<1>1. toClient \in Seq(Answers)
  BY DEF HonourInv, ListInv, Typed
<1>2. <<a>> \in Seq(Answers) /\ Plain(<<a>>)
  <2>1. Len(<<a>>) = 1 /\ <<a>>[1] = a /\ <<a>> \in Seq(Answers)
    OBVIOUS
  <2> QED BY <2>1 DEF Plain
<1>3. Loyal(mon, toServer, toClient \o <<a>>, serverList, asked, refused, writer)
  BY <1>1, <1>2, ToldLoyal DEF HonourInv
<1>4. Loyal(mon, toServer, toClient', serverList, asked, refused, writer)
  BY <1>3 DEF HonourInv
<1> QED BY <1>4 DEF HonourInv

LEMMA FlipHonours ==
  ASSUME HonourInv, ListInv', NEW n \in Nicks, Flip(n)
  PROVE  HonourInv'
<1> DEFINE a == [kind |-> IF n \in online THEN "offline" ELSE "online", names |-> {n}]
<1>1. a \in Answers /\ a.kind \in {"online", "offline"}
  BY DEF Answers
<1>2. toClient \in Seq(Answers)
  BY DEF HonourInv, ListInv, Typed
<1>3. toClient' \in {toClient, Append(toClient, a)}
      /\ UNCHANGED <<created, mon, writer, toServer, serverList, asked, refused>>
  BY DEF Flip
<1> HIDE DEF a
<1>4. toClient' \in {toClient, toClient \o <<a>>}
  <2>1. Append(toClient, a) = toClient \o <<a>>
    BY <1>1, <1>2
  <2> QED BY <1>3, <2>1
<1> QED BY <1>1, <1>3, <1>4, ToldHonours

LEMMA SupportHonours ==
  ASSUME HonourInv, ListInv', Withdraw \/ Restore
  PROVE  HonourInv'
<1> DEFINE off == [kind |-> "withdrawn", names |-> {}]
           on == [kind |-> "offered", names |-> {}]
<1>1. off \in Answers /\ off.kind = "withdrawn" /\ on \in Answers /\ on.kind = "offered"
  BY DEF Answers
<1>2. /\ toClient' = toClient \o <<off>> \/ toClient' = toClient \o <<on>>
      /\ UNCHANGED <<created, mon, writer, toServer, serverList, asked, refused>>
  BY DEF Withdraw, Restore, Answer, server
<1> HIDE DEF off, on
<1> QED BY <1>1, <1>2, ToldHonours

LEMMA HonourInit == Init => HonourInv
<1> SUFFICES ASSUME Init PROVE HonourInv
  OBVIOUS
<1>1. /\ mon = Fresh /\ toServer = <<>> /\ toClient = <<>> /\ asked = Nothing /\ refused = {}
      /\ ListInv
  BY ListInit DEF Init, Nothing
<1>2. \A n \in Nicks : Nothing[n] = "nothing"
  BY DEF Nothing
<1>3. Nothing \in Asked
  BY DEF Nothing, Asked
<1>4. /\ Fresh.wanted = NoList /\ Fresh.queued = <<>> /\ Fresh.submitted = NoChange
      /\ <<>> \in Seq(Changes)
  BY DEF Fresh
<1>5. ASSUME NEW names \in SUBSET Nicks
      PROVE  LET a == Adoption(Fresh, names)
             IN  Heeds(a.list, a.over, Nothing) /\ Spares(names, a.list, Nothing)
  <2> DEFINE clear == [op |-> "clear", names |-> {}]
  <2>1. clear \in Changes
    BY DEF Changes
  <2> HIDE DEF clear
  <2>2. Adoption(Fresh, names) = [list |-> names, over |-> {}]
    BY <1>4, <2>1, AdoptionFolds
  <2>3. Adoption(Fresh, names).list = names
    BY <2>2
  <2>4. Heeds(Adoption(Fresh, names).list, Adoption(Fresh, names).over, Nothing)
    BY <1>2 DEF Heeds
  <2>5. Spares(names, Adoption(Fresh, names).list, Nothing)
    BY <2>3 DEF Spares
  <2> QED BY <2>4, <2>5
<1>6. Wishes(Fresh, Nothing, {})
  BY <1>4, <1>5 DEF Wishes
<1>7. Len(<<>>) = 0 /\ 1..0 = {}
  OBVIOUS
<1>8. Spared(Fresh, <<>>, serverList, Nothing)
  BY <1>4, <1>7 DEF Spared, Changing
<1>9. Refusals(Fresh, <<>>, <<>>, serverList, {})
  BY <1>7 DEF Refusals, OneEdit
<1>10. Submission(Fresh, <<>>, <<>>, serverList, {}, writer)
  BY <1>4 DEF Submission
<1>11. Loyal(mon, toServer, toClient, serverList, asked, refused, writer)
  BY <1>1, <1>6, <1>8, <1>9, <1>10 DEF Loyal
<1> QED BY <1>1, <1>3, <1>11 DEF HonourInv

LEMMA HonourStep ==
  ASSUME HonourInv, [Next]_vars, ~overlapped'
  PROVE  HonourInv'
<1>1. ListInv'
  BY ListStep DEF HonourInv
<1>2. CASE \E expires, waited \in BOOLEAN : Tick(expires, waited)
  BY <1>1, <1>2, TickHonours
<1>3. CASE \E change \in Changes : ChangeTargets(change)
  BY <1>1, <1>3, ChangeTargetsHonours
<1>4. CASE \E field \in {"list", "status"} : Query(field)
  BY <1>1, <1>4, QueryHonours
<1>5. CASE ClientReceive
  BY <1>1, <1>5, ClientReceiveHonours
<1>6. CASE ServerStep
  BY <1>1, <1>6, ServerStepHonours
<1>7. CASE Disconnect
  BY <1>1, <1>7, DisconnectHonours
<1>8. CASE Reconnect
  BY <1>1, <1>8, ReconnectHonours
<1>9. CASE WriterDies
  BY <1>1, <1>9, WriterDiesHonours
<1>10. CASE \E n \in Nicks : Flip(n)
  BY <1>1, <1>10, FlipHonours
<1>11. CASE Withdraw \/ Restore
  BY <1>1, <1>11, SupportHonours
<1>12. CASE UNCHANGED vars
  BY <1>1, <1>12 DEF vars, HonourInv
<1> QED BY <1>2, <1>3, <1>4, <1>5, <1>6, <1>7, <1>8, <1>9, <1>10, <1>11, <1>12 DEF Next

\* What the user asked for, what is queued, wanted, submitted, on its way,
\* refused and listed agree, however the two sides interleave and whatever is
\* lost, refused or withdrawn, until MONITOR comes back during a listing.
THEOREM MonitorHonour == Spec => [](~overlapped => HonourInv)
<1>1. Init => (~overlapped => HonourInv)
  BY HonourInit
<1>2. (~overlapped => HonourInv) /\ [Next]_vars => (~overlapped => HonourInv)'
  BY HonourStep, OverlapStays
<1> QED BY <1>1, <1>2, PTL DEF Spec

\* Until MONITOR comes back during a listing: a nick the user added last is a
\* target unless it was refused, one the user removed last is not, and one the
\* user never spoke of is not taken off the server's list.
THEOREM MonitorHonoursUser == Spec => []HonoursUser
<1>1. (~overlapped => HonourInv) => HonoursUser
  <2>0. CASE overlapped
    BY <2>0 DEF HonoursUser
  <2> SUFFICES ASSUME HonourInv PROVE HonoursUser
    BY <2>0
  <2>1. mon.wanted # NoList => Heeds(mon.wanted, refused, asked)
    BY DEF HonourInv, Loyal, Wishes
  <2>2. \A n \in Changing(toServer, "-") : asked[n] \in {"remove", "add again"}
    BY DEF HonourInv, Loyal, Spared
  <2>3. \A i \in 1..Len(toServer) : toServer[i].op = "-" =>
          toServer[i].names \subseteq Changing(toServer, "-")
    BY DEF Changing
  <2> QED BY <2>1, <2>2, <2>3 DEF HonoursUser, Heeds
<1> QED BY <1>1, MonitorHonour, PTL
-----------------------------------------------------------------------------
(* What is shown of a nick is what the server last said of it.             *)

Tells(line, n) == line.kind \in {"online", "offline"} /\ n \in line.names
Told(down, n)  == \E i \in 1..Len(down) : Tells(down[i], n)
Word(on, n)    == IF n \in on THEN "online" ELSE "offline"

\* Every line tells the truth; the last one that speaks of n does.
Honest(down, on) == \A i \in 1..Len(down), n \in Nicks : Tells(down[i], n) => down[i].kind = Word(on, n)
Truthful(down, on, n) ==
  \A i \in 1..Len(down) : Tells(down[i], n) =>
    down[i].kind = Word(on, n) \/ \E j \in 1..Len(down) : j > i /\ Tells(down[j], n)

\* A target the server has, and of which nothing is on its way, is shown as it
\* is; nothing is shown of a nick that is not a target, unless the user removed
\* it, or removed it and added it again.
Known(m, down, list, on, ask, n) ==
  m.wanted # NoList =>
    IF n \in m.wanted
      THEN n \in list /\ ~Told(down, n) /\ ask[n] # "add again" =>
             m.peers[n] \in {"unknown", Word(on, n)}
      ELSE m.peers[n] = "unknown" \/ ask[n] \in {"remove", "add again"}

\* Without a list, support or a connection nothing is shown.
Blank(m, con) == m.wanted = NoList \/ ~m.support \/ ~con => m.peers = Unknown

Shown(m, down, list, on, ask, con) ==
  /\ Blank(m, con)
  /\ \A n \in Nicks : Known(m, down, list, on, ask, n)

PresenceInv ==
  /\ Typed /\ asked \in Asked
  /\ ~created => mon = Fresh
  /\ Offline
  /\ \A n \in serverList : Truthful(toClient, online, n)
  /\ Shown(mon, toClient, serverList, online, asked, connected)

LEMMA NothingTold == \A n : ~Told(<<>>, n)
<1>1. Len(<<>>) = 0 /\ 1..0 = {}
  OBVIOUS
<1> QED BY <1>1 DEF Told

LEMMA UnknownShown ==
  ASSUME NEW m, m.peers = Unknown
  PROVE  \A down, list, on, ask, con : Shown(m, down, list, on, ask, con)
BY DEF Shown, Blank, Known, Unknown

\* What of a manager is about presence.
Picture(m) == <<m.support, m.wanted, m.peers>>

LEMMA SamePicture ==
  ASSUME NEW m, NEW r, Picture(r) = Picture(m), NEW down, NEW list, NEW on, NEW ask, NEW con,
         Shown(m, down, list, on, ask, con)
  PROVE  Shown(r, down, list, on, ask, con)
BY DEF Picture, Shown, Blank, Known

LEMMA SendOnePicture ==
  ASSUME NEW t, Proper(t[1]), writer \in BOOLEAN, NEW waited \in BOOLEAN
  PROVE  Picture(SendOne(t, waited)[1]) = Picture(t[1])
<1> DEFINE command == NextCommand(t[1], waited)
           sent == Sent(t[1], command, writer)
<1>1. CASE command = NoChange
  BY <1>1 DEF SendOne
<1>2. CASE command # NoChange
  <2>1. command \in Lines /\ t[1] \in Managers
    BY <1>2, NextCommandType DEF Proper
  <2>2. SendOne(t, waited)[1] = sent
    BY <1>2 DEF SendOne
  <2>3. command.op \in {"L", "S", "+", "-"}
    BY <2>1 DEF Lines
  <2> HIDE DEF command
  <2>4. sent.support = t[1].support /\ sent.wanted = t[1].wanted /\ sent.peers = t[1].peers
    BY <2>1, <2>3 DEF Managers, Sent
  <2> QED BY <2>2, <2>4 DEF Picture
<1> QED BY <1>1, <1>2

\* Lines are sent; what is shown stays.  Nothing is sent without a connection.
LEMMA TickedPicture ==
  ASSUME NEW m, Proper(m), writer \in BOOLEAN, NEW expires \in BOOLEAN, NEW waited \in BOOLEAN
  PROVE  LET t == Ticked(m, expires, waited)
         IN  Picture(t[1]) = Picture(m) /\ (~connected => t[2] = <<>>)
<1> DEFINE e == IF expires THEN [m EXCEPT !.snapshot.expired = TRUE] ELSE m
           none == <<e, <<>>>>
           once == SendOne(none, waited)
           twice == SendOne(once, waited)
           t == Ticked(m, expires, waited)
<1>1. Proper(e) /\ Picture(e) = Picture(m)
  <2>1. m \in Managers /\ m.snapshot \in Snapshots
    BY Fields DEF Proper
  <2>2. e \in Managers
    BY <2>1 DEF Managers, Snapshots
  <2>3. /\ e.wanted = m.wanted /\ e.queued = m.queued /\ e.snapshot.names = m.snapshot.names
        /\ e.support = m.support /\ e.peers = m.peers
    BY <2>1 DEF Managers, Snapshots
  <2> HIDE DEF e
  <2> QED BY <2>2, <2>3 DEF Proper, Picture
<1>2. Proper(none[1]) /\ none[2] \in Seq(Lines) /\ Picture(none[1]) = Picture(m)
  BY <1>1, EmptyFacts
<1>3. ~connected => t = none
  BY DEF Ticked
<1>4. none[2] = <<>>
  OBVIOUS
<1>5. t \in {none, once, twice}
  BY DEF Ticked
<1> HIDE DEF none, t
<1>6. Proper(once[1]) /\ once[2] \in Seq(Lines) /\ Picture(once[1]) = Picture(m)
  BY <1>2, SendOneProper, SendOnePicture
<1> HIDE DEF once
<1>7. Picture(twice[1]) = Picture(m)
  BY <1>6, SendOnePicture
<1> HIDE DEF twice
<1>8. Picture(t[1]) = Picture(m) /\ (~connected => t[2] = <<>>)
  BY <1>2, <1>3, <1>4, <1>5, <1>6, <1>7
<1> QED BY <1>8 DEF t

\* ensure_monitor: support that was withdrawn, or is back, shows nothing.
LEMMA EnsuredShown ==
  ASSUME PresenceInv
  PROVE  Proper(Ensured) /\ Shown(Ensured, toClient, serverList, online, asked, connected)
<1>1. Proper(mon) /\ mon \in Managers /\ advertised \in BOOLEAN
  BY DEF PresenceInv, Typed, Proper
<1>2. Proper(Ensured)
  BY <1>1, SetSupportedProper DEF Ensured
<1>3. Ensured = mon \/ Ensured.peers = Unknown
  BY <1>1 DEF Ensured, SetSupported, Managers
<1>4. Shown(mon, toClient, serverList, online, asked, connected)
  BY DEF PresenceInv
<1> QED BY <1>2, <1>3, <1>4, UnknownShown

\* The end of a handler that sends.
LEMMA TurnShown ==
  ASSUME PresenceInv, Typed', NEW m, Proper(m), NEW ask \in Asked,
         Shown(m, toClient, serverList, online, ask, connected),
         NEW expires \in BOOLEAN, NEW waited \in BOOLEAN,
         Apply(Ticked(m, expires, waited)), created', asked' = ask,
         UNCHANGED <<connected, advertised, toClient, serverList, online>>
  PROVE  PresenceInv'
<1> DEFINE t == Ticked(m, expires, waited)
<1>1. writer \in BOOLEAN /\ toServer \in Seq(Lines)
  BY DEF PresenceInv, Typed
<1>2. Picture(t[1]) = Picture(m) /\ (~connected => t[2] = <<>>)
  BY <1>1, TickedPicture
<1>3. mon' = t[1] /\ toServer' = toServer \o t[2]
  BY DEF Apply
<1> HIDE DEF t
<1>4. Shown(mon', toClient, serverList, online, ask, connected)
  BY <1>2, <1>3, SamePicture
<1>5. Offline'
  <2>1. ASSUME ~connected PROVE toServer' = <<>>
    <3>1. toServer = <<>> /\ t[2] = <<>>
      BY <2>1, <1>2 DEF PresenceInv, Offline
    <3> QED BY <1>3, <3>1
  <2> QED BY <2>1 DEF PresenceInv, Offline
<1> QED BY <1>4, <1>5 DEF PresenceInv

LEMMA TickShown ==
  ASSUME PresenceInv, Typed', NEW expires \in BOOLEAN, NEW waited \in BOOLEAN, Tick(expires, waited)
  PROVE  PresenceInv'
<1>1. /\ created' /\ Apply(Ticked(Ensured, expires, waited)) /\ asked' = asked
      /\ UNCHANGED <<connected, advertised, toClient, serverList, online>>
  BY DEF Tick, server
<1>2. asked \in Asked
  BY DEF PresenceInv
<1> QED BY <1>1, <1>2, EnsuredShown, TurnShown

LEMMA QueryShown ==
  ASSUME PresenceInv, Typed', NEW field \in {"list", "status"}, Query(field)
  PROVE  PresenceInv'
<1> DEFINE r == IF field = "list" THEN [Ensured EXCEPT !.showList = TRUE]
                                   ELSE [Ensured EXCEPT !.askStatus = TRUE]
<1>1. /\ created' /\ Apply(Ticked(r, FALSE, FALSE)) /\ asked' = asked
      /\ UNCHANGED <<connected, advertised, toClient, serverList, online>>
  BY DEF Query, server
<1>2. Proper(Ensured) /\ Ensured \in Managers
      /\ Shown(Ensured, toClient, serverList, online, asked, connected)
  BY EnsuredShown DEF Proper
<1>3. /\ r \in Managers /\ r.wanted = Ensured.wanted /\ r.queued = Ensured.queued
      /\ r.snapshot = Ensured.snapshot /\ r.support = Ensured.support /\ r.peers = Ensured.peers
  BY <1>2 DEF Managers
<1> HIDE DEF r
<1>4. Proper(r)
  BY <1>2, <1>3, NarrowedProper
<1>5. Shown(r, toClient, serverList, online, asked, connected)
  BY <1>2, <1>3, SamePicture DEF Picture
<1>6. asked \in Asked
  BY DEF PresenceInv
<1> QED BY <1>1, <1>4, <1>5, <1>6, TurnShown

\* A nick that becomes a target was never shown, or was removed before.
LEMMA ChangeShown ==
  ASSUME NEW m, Proper(m), NEW change \in Changes, NEW ask \in Asked,
         NEW down, NEW list, NEW on, NEW con, Shown(m, down, list, on, ask, con)
  PROVE  Shown(Change(m, change), down, list, on, Asking(ask, change), con)
<1> DEFINE r == Change(m, change)
           new == Asking(ask, change)
<1>1. m \in Managers /\ m.wanted \in MaybeLists
  BY Fields DEF Proper
<1>2. CASE m.wanted = NoList
  <2>1. r.wanted = m.wanted /\ r.peers = m.peers
    BY <1>1, <1>2 DEF Managers, Change
  <2>2. r.peers = Unknown
    BY <1>2, <2>1 DEF Shown, Blank
  <2> QED BY <2>2, UnknownShown
<1>3. CASE m.wanted # NoList
  <2>1. /\ r.wanted = Applied(m.wanted, change) /\ r.peers = m.peers /\ r.support = m.support
    BY <1>1, <1>3 DEF Managers, Change
  <2>2. m.wanted \in SUBSET Nicks /\ Cardinality(m.wanted) <= MaxTargets
    BY <1>1, <1>3 DEF MaybeLists, Proper
  <2>3. r.wanted # NoList
    BY <2>1, <2>2, AppliedKeeps, NoListFacts
  <2> HIDE DEF r
  <2>4. Blank(r, con)
    BY <1>3, <2>1, <2>3 DEF Shown, Blank
  <2>5. ASSUME NEW n \in Nicks PROVE Known(r, down, list, on, new, n)
    <3>1. Known(m, down, list, on, ask, n)
      BY DEF Shown
    <3>2. /\ change.op = "add" /\ n \in change.names =>
               new[n] = IF ask[n] \in {"nothing", "add"} THEN "add" ELSE "add again"
          /\ change.op = "remove" /\ n \in change.names => new[n] = "remove"
          /\ change.op = "clear" => new[n] = "remove"
          /\ change.op # "clear" /\ n \notin change.names => new[n] = ask[n]
      BY AskingFacts
    <3>3. ask[n] \in {"nothing", "add", "add again", "remove"} /\ change.op \in {"add", "remove", "clear"}
      <4>1. ask[n] \in {"nothing", "add", "add again", "remove"}
        BY DEF Asked
      <4>2. change.op \in {"add", "remove", "clear"}
        BY DEF Changes
      <4> QED BY <4>1, <4>2
    <3> HIDE DEF new
    <3>4. CASE change.op = "add"
      <4>1. r.wanted \in {m.wanted, m.wanted \cup change.names}
        BY <2>1, <3>4 DEF Applied
      <4>2. CASE n \in change.names
        BY <1>3, <2>1, <3>1, <3>2, <3>3, <3>4, <4>1, <4>2 DEF Known
      <4>3. CASE n \notin change.names
        BY <1>3, <2>1, <3>1, <3>2, <3>4, <4>1, <4>3 DEF Known
      <4> QED BY <4>2, <4>3
    <3>5. CASE change.op = "remove"
      <4>1. r.wanted = m.wanted \ change.names
        BY <2>1, <3>5 DEF Applied
      <4> QED BY <1>3, <2>1, <3>1, <3>2, <3>5, <4>1 DEF Known
    <3>6. CASE change.op = "clear"
      <4>1. r.wanted = {}
        BY <2>1, <3>6 DEF Applied
      <4> QED BY <3>2, <3>6, <4>1 DEF Known
    <3> QED BY <3>3, <3>4, <3>5, <3>6
  <2>6. Shown(r, down, list, on, new, con)
    BY <2>4, <2>5 DEF Shown
  <2> QED BY <2>6 DEF r
<1> QED BY <1>2, <1>3

LEMMA ChangeTargetsShown ==
  ASSUME PresenceInv, Typed', NEW change \in Changes, ChangeTargets(change)
  PROVE  PresenceInv'
<1>1. Proper(Ensured) /\ Shown(Ensured, toClient, serverList, online, asked, connected)
  BY EnsuredShown
<1>2. created' /\ UNCHANGED <<connected, advertised, toClient, serverList, online>>
  BY DEF ChangeTargets, server
<1>3. asked \in Asked
  BY DEF PresenceInv
<1>4. CASE TooMany(Ensured, change)
  <2>1. mon' = Ensured /\ toServer' = toServer /\ asked' = asked
    BY <1>4 DEF ChangeTargets
  <2>2. Offline'
    BY <1>2, <2>1 DEF PresenceInv, Offline
  <2> QED BY <1>1, <1>2, <2>1, <2>2 DEF PresenceInv
<1>5. CASE ~TooMany(Ensured, change)
  <2>1. Apply(Ticked(Change(Ensured, change), FALSE, FALSE)) /\ asked' = Asking(asked, change)
    BY <1>5 DEF ChangeTargets, Asking
  <2>2. Proper(Change(Ensured, change)) /\ Asking(asked, change) \in Asked
    BY <1>1, <1>3, ChangeProper, AskingFacts
  <2>3. Shown(Change(Ensured, change), toClient, serverList, online, Asking(asked, change), connected)
    BY <1>1, <1>3, ChangeShown
  <2> QED BY <1>2, <2>1, <2>2, <2>3, TurnShown
<1> QED BY <1>4, <1>5

\* The first line is read; whoever it does not speak of is spoken of by the rest.
LEMMA PassedFacts ==
  ASSUME NEW down \in Seq(Answers), down # <<>>, NEW n, NEW on
  PROVE  LET rest == Tail(down)
             line == Head(down)
         IN  /\ Told(down, n) <=> Tells(line, n) \/ Told(rest, n)
             /\ Truthful(down, on, n) =>
                  /\ Truthful(rest, on, n)
                  /\ Tells(line, n) /\ ~Told(rest, n) => line.kind = Word(on, n)
<1> DEFINE rest == Tail(down)
           line == Head(down)
<1>1. /\ line = down[1] /\ Len(rest) + 1 = Len(down) /\ Len(rest) \in Nat
      /\ \A i \in 1..Len(rest) : rest[i] = down[i + 1] /\ i + 1 \in 1..Len(down)
      /\ \A i \in 1..Len(down) : i = 1 \/ (i - 1 \in 1..Len(rest) /\ down[i] = rest[i - 1])
  BY TailFacts
<1> HIDE DEF rest, line
<1>2. 1 \in 1..Len(down)
  BY <1>1
<1>3. Told(down, n) <=> Tells(line, n) \/ Told(rest, n)
  <2>1. ASSUME Told(down, n) PROVE Tells(line, n) \/ Told(rest, n)
    <3>1. PICK i \in 1..Len(down) : Tells(down[i], n)
      BY <2>1 DEF Told
    <3>2. i = 1 \/ (i - 1 \in 1..Len(rest) /\ down[i] = rest[i - 1])
      BY <1>1
    <3> QED BY <1>1, <3>1, <3>2 DEF Told
  <2>2. ASSUME Told(rest, n) PROVE Told(down, n)
    BY <1>1, <2>2 DEF Told
  <2>3. ASSUME Tells(line, n) PROVE Told(down, n)
    BY <1>1, <1>2, <2>3 DEF Told
  <2> QED BY <2>1, <2>2, <2>3
<1>4. ASSUME Truthful(down, on, n) PROVE Truthful(rest, on, n)
  <2> SUFFICES ASSUME NEW i \in 1..Len(rest), Tells(rest[i], n), rest[i].kind # Word(on, n)
               PROVE  \E j \in 1..Len(rest) : j > i /\ Tells(rest[j], n)
    BY DEF Truthful
  <2>1. i + 1 \in 1..Len(down) /\ Tells(down[i + 1], n) /\ down[i + 1].kind # Word(on, n)
    BY <1>1
  <2>2. PICK j \in 1..Len(down) : j > i + 1 /\ Tells(down[j], n)
    BY <1>4, <2>1 DEF Truthful
  <2>3. j - 1 \in 1..Len(rest) /\ down[j] = rest[j - 1]
    BY <1>1, <2>2
  <2> QED BY <2>2, <2>3
<1>5. ASSUME Truthful(down, on, n), Tells(line, n), ~Told(rest, n) PROVE line.kind = Word(on, n)
  <2> SUFFICES ASSUME line.kind # Word(on, n) PROVE FALSE
    OBVIOUS
  <2>1. PICK j \in 1..Len(down) : j > 1 /\ Tells(down[j], n)
    BY <1>1, <1>2, <1>5 DEF Truthful
  <2>2. j - 1 \in 1..Len(rest) /\ down[j] = rest[j - 1]
    BY <1>1, <2>1
  <2> QED BY <1>5, <2>1, <2>2 DEF Told
<1> QED BY <1>3, <1>4, <1>5 DEF rest, line

\* 733: presence is kept of the targets alone.
LEMMA EndShown ==
  ASSUME NEW m, Proper(m), NEW down, NEW list, NEW on, NEW ask, NEW con,
         Shown(m, down, list, on, ask, con)
  PROVE  Shown(EndOfList(m), down, list, on, ask, con)
<1> DEFINE names == m.snapshot.names
           base == IF m.wanted = NoList THEN Adopted(m, names) ELSE m
           checked == VerifyChange(base, names)
           peers == [n \in Nicks |-> IF n \in checked.wanted THEN checked.peers[n] ELSE "unknown"]
           given == [m EXCEPT !.snapshot = NoSnapshot, !.confirmed = NoList, !.blocked = TRUE]
           taken == [checked EXCEPT !.snapshot = NoSnapshot, !.confirmed = names,
                                    !.showList = FALSE, !.peers = peers]
<1>1. m \in Managers
  BY DEF Proper
<1>2. EndOfList(m) \in {m, given, taken}
  BY DEF EndOfList
<1>3. Picture(given) = Picture(m)
  BY <1>1 DEF Managers, Picture
<1>4. base \in Managers /\ base.peers = m.peers /\ base.support = m.support
      /\ base.wanted # NoList /\ (m.wanted # NoList => base = m)
  <2>1. Proper(Adopted(m, names)) /\ Adopted(m, names).wanted # NoList
    BY AdoptedProper
  <2>2. Adopted(m, names).peers = m.peers /\ Adopted(m, names).support = m.support
    BY <1>1 DEF Managers, Adopted
  <2> QED BY <1>1, <2>1, <2>2 DEF Proper
<1>5. Proper(base)
  BY AdoptedProper
<1> HIDE DEF base
<1>6. /\ checked \in Managers /\ checked.peers = m.peers /\ checked.support = m.support
      /\ checked.wanted # NoList /\ checked.wanted \subseteq base.wanted
  <2>1. Proper(checked) /\ checked.wanted # NoList
    BY <1>4, <1>5, VerifyProper
  <2>2. checked.peers = base.peers /\ checked.support = base.support
        /\ checked.wanted \subseteq base.wanted
    BY <1>4 DEF Managers, VerifyChange
  <2> QED BY <1>4, <2>1, <2>2 DEF Proper
<1> HIDE DEF checked
<1>7. taken.wanted = checked.wanted /\ taken.support = m.support /\ taken.peers = peers
  BY <1>6 DEF Managers
<1> HIDE DEF taken
<1>8. m.peers \in [Nicks -> {"unknown", "online", "offline"}]
  BY <1>1 DEF Managers
<1>9. m.peers = Unknown => taken.peers = Unknown
  BY <1>6, <1>7 DEF Unknown
<1>10. Shown(taken, down, list, on, ask, con)
  <2>1. CASE m.wanted = NoList
    <3>1. m.peers = Unknown
      BY <2>1 DEF Shown, Blank
    <3> QED BY <1>9, <3>1, UnknownShown
  <2>2. CASE m.wanted # NoList
    <3>1. Blank(taken, con)
      BY <1>6, <1>7, <1>9, <2>2 DEF Shown, Blank
    <3>2. ASSUME NEW n \in Nicks PROVE Known(taken, down, list, on, ask, n)
      <4>1. Known(m, down, list, on, ask, n)
        BY DEF Shown
      <4>2. taken.peers[n] = IF n \in taken.wanted THEN m.peers[n] ELSE "unknown"
        BY <1>6, <1>7
      <4>3. n \in taken.wanted => n \in m.wanted
        BY <1>4, <1>6, <1>7, <2>2
      <4> QED BY <2>2, <4>1, <4>2, <4>3 DEF Known
    <3> QED BY <3>1, <3>2 DEF Shown
  <2> QED BY <2>1, <2>2
<1>11. Shown(given, down, list, on, ask, con)
  BY <1>3, SamePicture
<1> HIDE DEF given
<1> QED BY <1>2, <1>10, <1>11

\* A line that tells nothing of n leaves what is known of n, if the manager does.
LEMMA AsideKnown ==
  ASSUME NEW down \in Seq(Answers), down # <<>>, NEW n, ~Tells(Head(down), n),
         NEW m, NEW list, NEW on, NEW ask, Known(m, down, list, on, ask, n)
  PROVE  Known(m, Tail(down), list, on, ask, n)
<1>1. Told(down, n) <=> Told(Tail(down), n)
  BY PassedFacts
<1> QED BY <1>1 DEF Known

\* 730, 731: the last word on a target is what is shown of it.
LEMMA StatusShown ==
  ASSUME NEW m, Proper(m), NEW down \in Seq(Answers), down # <<>>,
         Head(down).kind \in {"online", "offline"},
         NEW list, NEW on, NEW ask, NEW con, m.support, con,
         Shown(m, down, list, on, ask, con),
         \A n \in Nicks : n \in list => Truthful(down, on, n)
  PROVE  Shown(ReceiveStatus(m, Head(down)), Tail(down), list, on, ask, con)
<1> DEFINE line == Head(down)
           peers == [n \in Nicks |-> IF n \in line.names \cap m.wanted THEN line.kind ELSE m.peers[n]]
           r == ReceiveStatus(m, line)
<1>1. m \in Managers
  BY DEF Proper
<1>2. CASE m.wanted = NoList
  <2>1. r = m /\ m.peers = Unknown
    BY <1>2 DEF ReceiveStatus, Shown, Blank
  <2> QED BY <2>1, UnknownShown
<1>3. CASE m.wanted # NoList
  <2>1. r = [m EXCEPT !.peers = peers]
    BY <1>3 DEF ReceiveStatus
  <2> HIDE DEF r
  <2>2. r.wanted = m.wanted /\ r.support = m.support /\ r.peers = peers
    BY <1>1, <2>1 DEF Managers
  <2>3. Blank(r, con)
    BY <1>3, <2>2 DEF Blank
  <2>4. ASSUME NEW n \in Nicks PROVE Known(r, Tail(down), list, on, ask, n)
    <3>1. /\ Told(down, n) <=> Tells(line, n) \/ Told(Tail(down), n)
          /\ Truthful(down, on, n) =>
               (Tells(line, n) /\ ~Told(Tail(down), n) => line.kind = Word(on, n))
      BY PassedFacts
    <3>2. Known(m, down, list, on, ask, n) /\ (n \in list => Truthful(down, on, n))
      BY DEF Shown
    <3>3. r.peers[n] = IF n \in line.names \cap m.wanted THEN line.kind ELSE m.peers[n]
      BY <2>2
    <3>4. Tells(line, n) <=> n \in line.names
      BY DEF Tells
    <3> HIDE DEF line, peers
    <3>5. CASE n \in m.wanted /\ n \in line.names
      BY <2>2, <3>1, <3>2, <3>3, <3>4, <3>5 DEF Known
    <3>6. CASE n \in m.wanted /\ n \notin line.names
      BY <2>2, <3>1, <3>2, <3>3, <3>4, <3>6 DEF Known
    <3>7. CASE n \notin m.wanted
      BY <1>3, <2>2, <3>2, <3>3, <3>7 DEF Known
    <3> QED BY <3>5, <3>6, <3>7
  <2>5. Shown(r, Tail(down), list, on, ask, con)
    BY <2>3, <2>4 DEF Shown
  <2> QED BY <2>5 DEF r
<1> QED BY <1>2, <1>3

\* 734: nothing is shown of the nicks that are targets no more.
LEMMA FullShown ==
  ASSUME NEW m, Proper(m), NEW line, NEW down, NEW list, NEW on, NEW ask, NEW con,
         Shown(m, down, list, on, ask, con)
  PROVE  Shown(ReceiveFull(m, line), down, list, on, ask, con)
<1> DEFINE peers == [n \in Nicks |-> IF n \in line.names THEN "unknown" ELSE m.peers[n]]
           wanted == IF m.wanted = NoList THEN m.wanted ELSE m.wanted \ line.names
           r == [m EXCEPT !.wanted = wanted, !.peers = peers]
<1>1. m \in Managers /\ m.wanted \in MaybeLists
  BY Fields DEF Proper
<1>2. ReceiveFull(m, line) = r
  BY DEF ReceiveFull
<1>3. r.wanted = wanted /\ r.support = m.support /\ r.peers = peers
  BY <1>1 DEF Managers
<1> HIDE DEF r
<1>4. m.peers = Unknown => r.peers = Unknown
  BY <1>3 DEF Unknown
<1>5. CASE m.wanted = NoList
  <2>1. m.peers = Unknown
    BY <1>5 DEF Shown, Blank
  <2> QED BY <1>2, <1>4, <2>1, UnknownShown
<1>6. CASE m.wanted # NoList
  <2>1. r.wanted = m.wanted \ line.names
    BY <1>3, <1>6
  <2>2. r.wanted # NoList
    BY <1>1, <1>6, <2>1, NoListFacts DEF MaybeLists
  <2>3. Blank(r, con)
    BY <1>3, <1>4, <1>6, <2>2 DEF Shown, Blank
  <2>4. ASSUME NEW n \in Nicks PROVE Known(r, down, list, on, ask, n)
    <3>1. Known(m, down, list, on, ask, n)
      BY DEF Shown
    <3>2. r.peers[n] = IF n \in line.names THEN "unknown" ELSE m.peers[n]
      BY <1>3
    <3> QED BY <1>6, <2>1, <3>1, <3>2 DEF Known
  <2>5. Shown(r, down, list, on, ask, con)
    BY <2>3, <2>4 DEF Shown
  <2> QED BY <1>2, <2>5
<1> QED BY <1>5, <1>6

LEMMA ReceiveShown ==
  ASSUME NEW m, Proper(m), NEW down \in Seq(Answers), down # <<>>,
         NEW list, NEW on, NEW ask, NEW con, con,
         Shown(m, down, list, on, ask, con),
         \A n \in Nicks : n \in list => Truthful(down, on, n)
  PROVE  Shown(Receive(m, Head(down)), Tail(down), list, on, ask, con)
<1> DEFINE line == Head(down)
           r == Receive(m, line)
<1>1. m \in Managers /\ m.support \in BOOLEAN /\ m.snapshot \in Snapshots
  BY Fields DEF Proper
<1>2. line \in Answers
  BY TailFacts
<1>3. line.kind \in {"offered", "withdrawn", "unavailable", "online", "offline", "list", "end", "full"}
  BY <1>2 DEF Answers
<1>4. ASSUME line.kind \notin {"online", "offline"}
      PROVE  Shown(m, Tail(down), list, on, ask, con)
  <2>1. ASSUME NEW n \in Nicks PROVE Known(m, Tail(down), list, on, ask, n)
    <3>1. ~Tells(line, n) /\ Known(m, down, list, on, ask, n)
      BY <1>4 DEF Tells, Shown
    <3> QED BY <3>1, AsideKnown
  <2> QED BY <2>1 DEF Shown
<1> HIDE DEF line
<1>5. CASE line.kind = "unavailable"
  <2>1. Picture(r) = Picture(m)
    BY <1>1, <1>5 DEF Receive, Managers, Picture
  <2>2. Shown(m, Tail(down), list, on, ask, con)
    BY <1>4, <1>5
  <2> HIDE DEF r
  <2>3. Shown(r, Tail(down), list, on, ask, con)
    BY <2>1, <2>2, SamePicture
  <2> QED BY <2>3 DEF r, line
<1>6. CASE line.kind # "unavailable" /\ ~m.support
  <2>1. r = m /\ m.peers = Unknown
    BY <1>6 DEF Receive, Shown, Blank
  <2> QED BY <2>1, UnknownShown DEF line
<1>7. CASE m.support /\ line.kind \in {"offered", "withdrawn"}
  <2>1. r = m
    BY <1>7 DEF Receive
  <2> QED BY <1>4, <1>7, <2>1 DEF line
<1>8. CASE m.support /\ line.kind \in {"online", "offline"}
  <2>1. r = ReceiveStatus(m, line)
    BY <1>8 DEF Receive
  <2>2. Shown(ReceiveStatus(m, line), Tail(down), list, on, ask, con)
    BY <1>8, StatusShown DEF line
  <2> QED BY <2>1, <2>2 DEF line
<1>9. CASE m.support /\ line.kind = "list"
  <2>1. r = Listed(m, line.names)
    BY <1>9 DEF Receive
  <2>2. Picture(Listed(m, line.names)) = Picture(m)
    BY <1>1 DEF Listed, Managers, Snapshots, Picture
  <2>3. Shown(m, Tail(down), list, on, ask, con)
    BY <1>4, <1>9
  <2> HIDE DEF r
  <2>4. Picture(r) = Picture(m)
    BY <2>1, <2>2
  <2>5. Shown(r, Tail(down), list, on, ask, con)
    BY <2>3, <2>4, SamePicture
  <2> QED BY <2>5 DEF r, line
<1>10. CASE m.support /\ line.kind = "end"
  <2>1. r = EndOfList(m)
    BY <1>10 DEF Receive
  <2>2. Shown(m, Tail(down), list, on, ask, con)
    BY <1>4, <1>10
  <2>3. Shown(EndOfList(m), Tail(down), list, on, ask, con)
    BY <2>2, EndShown
  <2> QED BY <2>1, <2>3 DEF line
<1>11. CASE m.support /\ line.kind = "full"
  <2>1. r = ReceiveFull(m, line)
    BY <1>11 DEF Receive
  <2>2. Shown(m, Tail(down), list, on, ask, con)
    BY <1>4, <1>11
  <2>3. Shown(ReceiveFull(m, line), Tail(down), list, on, ask, con)
    BY <2>2, FullShown
  <2> QED BY <2>1, <2>3 DEF line
<1> QED BY <1>1, <1>3, <1>5, <1>6, <1>7, <1>8, <1>9, <1>10, <1>11

LEMMA ClientReceiveShown ==
  ASSUME PresenceInv, Typed', ClientReceive
  PROVE  PresenceInv'
<1>1. /\ toClient # <<>> /\ toClient' = Tail(toClient)
      /\ mon' = IF created THEN Receive(Ensured, Head(toClient)) ELSE mon
      /\ UNCHANGED <<created, connected, toServer, serverList, online, asked>>
  BY DEF ClientReceive
<1>2. connected /\ toClient \in Seq(Answers) /\ serverList \in SUBSET Nicks
      /\ connected \in BOOLEAN
  BY <1>1 DEF PresenceInv, Offline, Typed
<1>3. \A n \in Nicks : n \in serverList => Truthful(toClient, online, n)
  BY DEF PresenceInv
<1>4. \A n \in serverList : Truthful(toClient', online, n)
  BY <1>1, <1>2, <1>3, PassedFacts
<1>5. CASE created
  <2>1. Proper(Ensured) /\ Shown(Ensured, toClient, serverList, online, asked, connected)
    BY EnsuredShown
  <2>2. Shown(Receive(Ensured, Head(toClient)), Tail(toClient), serverList, online, asked, connected)
    BY <1>1, <1>2, <1>3, <2>1, ReceiveShown
  <2>3. Shown(mon', toClient', serverList, online, asked, connected)
    BY <1>1, <1>5, <2>2
  <2> QED BY <1>1, <1>2, <1>4, <1>5, <2>3 DEF PresenceInv, Offline
<1>6. CASE ~created
  <2>1. mon = Fresh /\ mon.peers = Unknown
    BY <1>6 DEF PresenceInv, Fresh
  <2>2. Shown(mon', toClient', serverList, online, asked, connected)
    BY <1>1, <1>6, <2>1, UnknownShown
  <2> QED BY <1>1, <1>2, <1>4, <1>6, <2>1, <2>2 DEF PresenceInv, Offline
<1> QED BY <1>5, <1>6

\* Honest lines that speak of whoever the others do not tell the truth about.
LEMMA SaidFacts ==
  ASSUME NEW down \in Seq(Answers), NEW extra \in Seq(Answers), NEW n \in Nicks, NEW on
  PROVE  /\ Told(down \o extra, n) <=> Told(down, n) \/ Told(extra, n)
         /\ Honest(extra, on) /\ (Truthful(down, on, n) \/ Told(extra, n)) =>
              Truthful(down \o extra, on, n)
<1> DEFINE all == down \o extra
<1>1. /\ Len(all) = Len(down) + Len(extra) /\ Len(down) \in Nat /\ Len(extra) \in Nat
      /\ \A i \in 1..Len(down) : all[i] = down[i] /\ i \in 1..Len(all)
      /\ \A i \in 1..Len(extra) :
           all[Len(down) + i] = extra[i] /\ Len(down) + i \in 1..Len(all)
      /\ \A i \in 1..Len(all) : i \in 1..Len(down) \/ i - Len(down) \in 1..Len(extra)
  BY ConcatFacts
<1> HIDE DEF all
<1>2. ASSUME NEW i \in 1..Len(all), i \notin 1..Len(down)
      PROVE  i - Len(down) \in 1..Len(extra) /\ all[i] = extra[i - Len(down)]
  <2>1. i - Len(down) \in 1..Len(extra)
    BY <1>1, <1>2
  <2>2. Len(down) + (i - Len(down)) = i
    BY <1>1
  <2> QED BY <1>1, <2>1, <2>2
<1>3. Told(all, n) <=> Told(down, n) \/ Told(extra, n)
  <2>1. ASSUME Told(all, n) PROVE Told(down, n) \/ Told(extra, n)
    <3>1. PICK i \in 1..Len(all) : Tells(all[i], n)
      BY <2>1 DEF Told
    <3> QED BY <1>1, <1>2, <3>1 DEF Told
  <2>2. ASSUME Told(down, n) PROVE Told(all, n)
    BY <1>1, <2>2 DEF Told
  <2>3. ASSUME Told(extra, n) PROVE Told(all, n)
    BY <1>1, <2>3 DEF Told
  <2> QED BY <2>1, <2>2, <2>3
<1>4. ASSUME Honest(extra, on), Truthful(down, on, n) \/ Told(extra, n)
      PROVE  Truthful(all, on, n)
  <2> SUFFICES ASSUME NEW i \in 1..Len(all), Tells(all[i], n), all[i].kind # Word(on, n)
               PROVE  \E j \in 1..Len(all) : j > i /\ Tells(all[j], n)
    BY DEF Truthful
  <2>1. i \in 1..Len(down)
    BY <1>2, <1>4 DEF Honest
  <2>2. Tells(down[i], n) /\ down[i].kind # Word(on, n)
    BY <1>1, <2>1
  <2>3. CASE Told(extra, n)
    <3>1. PICK j \in 1..Len(extra) : Tells(extra[j], n)
      BY <2>3 DEF Told
    <3>2. Len(down) + j \in 1..Len(all) /\ all[Len(down) + j] = extra[j] /\ Len(down) + j > i
      BY <1>1, <2>1
    <3> QED BY <3>1, <3>2
  <2>4. CASE Truthful(down, on, n)
    <3>1. PICK j \in 1..Len(down) : j > i /\ Tells(down[j], n)
      BY <2>1, <2>2, <2>4 DEF Truthful
    <3>2. all[j] = down[j] /\ j \in 1..Len(all)
      BY <1>1
    <3> QED BY <3>1, <3>2
  <2> QED BY <1>4, <2>3, <2>4
<1> QED BY <1>3, <1>4 DEF all

LEMMA HonestConcat ==
  ASSUME NEW down \in Seq(Answers), NEW extra \in Seq(Answers), NEW on,
         Honest(down, on), Honest(extra, on)
  PROVE  Honest(down \o extra, on)
<1> DEFINE all == down \o extra
<1>1. /\ Len(all) = Len(down) + Len(extra) /\ Len(down) \in Nat /\ Len(extra) \in Nat
      /\ \A i \in 1..Len(down) : all[i] = down[i]
      /\ \A i \in 1..Len(extra) : all[Len(down) + i] = extra[i]
      /\ \A i \in 1..Len(all) : i \in 1..Len(down) \/ i - Len(down) \in 1..Len(extra)
  BY ConcatFacts
<1> HIDE DEF all
<1>2. ASSUME NEW i \in 1..Len(all), NEW n \in Nicks, Tells(all[i], n)
      PROVE  all[i].kind = Word(on, n)
  <2>1. CASE i \in 1..Len(down)
    BY <1>1, <1>2, <2>1 DEF Honest
  <2>2. CASE i - Len(down) \in 1..Len(extra)
    <3>1. Len(down) + (i - Len(down)) = i
      BY <1>1
    <3>2. all[i] = extra[i - Len(down)]
      BY <1>1, <2>2, <3>1
    <3> QED BY <1>2, <2>2, <3>2 DEF Honest
  <2> QED BY <1>1, <2>1, <2>2
<1> QED BY <1>2 DEF Honest, all

\* The server says something: of each nick it has, the truth, unless nothing
\* about it has changed.
LEMMA SaidShown ==
  ASSUME PresenceInv, Typed', connected, NEW extra \in Seq(Answers), Honest(extra, online'),
         \A n \in serverList' :
            \/ Told(extra, n)
            \/ n \in serverList /\ Word(online', n) = Word(online, n),
         toClient' = toClient \o extra,
         UNCHANGED <<created, mon, connected, advertised, asked>>
  PROVE  PresenceInv'
<1>1. toClient \in Seq(Answers) /\ serverList' \in SUBSET Nicks
  BY DEF PresenceInv, Typed
<1>2. \A n \in Nicks : Told(toClient', n) <=> Told(toClient, n) \/ Told(extra, n)
  BY <1>1, SaidFacts
<1>3. ASSUME NEW n \in serverList' PROVE Truthful(toClient', online', n)
  <2>1. CASE Told(extra, n)
    BY <1>1, <2>1, SaidFacts
  <2>2. CASE n \in serverList /\ Word(online', n) = Word(online, n)
    <3>1. Truthful(toClient, online, n)
      BY <2>2 DEF PresenceInv
    <3>2. Truthful(toClient, online', n)
      BY <2>2, <3>1 DEF Truthful
    <3> QED BY <1>1, <3>2, SaidFacts
  <2> QED BY <2>1, <2>2
<1>4. ASSUME NEW n \in Nicks PROVE Known(mon, toClient', serverList', online', asked, n)
  <2>1. Known(mon, toClient, serverList, online, asked, n)
    BY DEF PresenceInv, Shown
  <2>2. n \in serverList' /\ ~Told(toClient', n) =>
          n \in serverList /\ ~Told(toClient, n) /\ Word(online', n) = Word(online, n)
    BY <1>2
  <2> QED BY <2>1, <2>2 DEF Known
<1>5. Shown(mon', toClient', serverList', online', asked', connected')
  BY <1>4 DEF PresenceInv, Shown
<1>6. Offline'
  BY DEF Offline
<1> QED BY <1>3, <1>5, <1>6 DEF PresenceInv

\* Lines that are not about presence are honest.
LEMMA MuteHonest ==
  ASSUME NEW lines, \A i \in 1..Len(lines) : lines[i].kind \notin {"online", "offline"}
  PROVE  \A on : Honest(lines, on)
BY DEF Honest, Tells

\* A status tells the truth of every nick it is about.
LEMMA StatusHonest ==
  ASSUME NEW names \in SUBSET Nicks
  PROVE  Honest(Status(names), online) /\ \A n \in names : Told(Status(names), n)
<1> DEFINE on == names \cap online
           off == names \ online
           some(kind, ns) == IF ns = {} THEN <<>> ELSE <<[kind |-> kind, names |-> ns]>>
           a == some("online", on)
           b == some("offline", off)
<1>1. Status(names) = a \o b
  BY DEF Status
<1>2. on \in SUBSET Nicks /\ off \in SUBSET Nicks
  OBVIOUS
<1>3. \A n \in Nicks : (n \in on => Word(online, n) = "online") /\ (n \in off => Word(online, n) = "offline")
  BY DEF Word
<1>4. \A n \in names : n \in on \/ n \in off
  OBVIOUS
<1> HIDE DEF on, off
<1>5. ASSUME NEW kind \in {"online", "offline"}, NEW ns \in SUBSET Nicks,
             \A n \in ns : Word(online, n) = kind
      PROVE  /\ some(kind, ns) \in Seq(Answers) /\ Honest(some(kind, ns), online)
             /\ \A n \in ns : Told(some(kind, ns), n)
  <2> DEFINE line == [kind |-> kind, names |-> ns]
  <2>1. line \in Answers /\ line.kind = kind /\ line.names = ns
    BY DEF Answers
  <2> HIDE DEF line
  <2>2. CASE ns = {}
    <3>1. some(kind, ns) = <<>>
      BY <2>2
    <3>2. <<>> \in Seq(Answers) /\ Honest(<<>>, online)
      BY EmptyFacts DEF Honest
    <3> QED BY <2>2, <3>1, <3>2
  <2>3. CASE ns # {}
    <3>1. some(kind, ns) = <<line>>
      BY <2>3 DEF line
    <3>2. <<line>> \in Seq(Answers) /\ Len(<<line>>) = 1 /\ <<line>>[1] = line
      BY <2>1
    <3>3. Honest(<<line>>, online)
      BY <1>5, <2>1, <3>2 DEF Honest, Tells
    <3>4. \A n \in ns : Told(<<line>>, n)
      BY <2>1, <3>2 DEF Told, Tells
    <3> QED BY <3>1, <3>2, <3>3, <3>4
  <2> QED BY <2>2, <2>3
<1>6. /\ a \in Seq(Answers) /\ Honest(a, online) /\ \A n \in on : Told(a, n)
      /\ b \in Seq(Answers) /\ Honest(b, online) /\ \A n \in off : Told(b, n)
  <2>1. (\A n \in on : Word(online, n) = "online") /\ (\A n \in off : Word(online, n) = "offline")
    BY <1>2, <1>3
  <2> HIDE DEF some
  <2> QED BY <1>2, <1>5, <2>1
<1> HIDE DEF a, b, some
<1>7. Honest(a \o b, online)
  BY <1>6, HonestConcat
<1>8. \A n \in names : Told(a \o b, n)
  BY <1>4, <1>6, SaidFacts
<1> QED BY <1>1, <1>7, <1>8

LEMMA ServerStepShown ==
  ASSUME PresenceInv, Typed', ServerStep
  PROVE  PresenceInv'
<1> DEFINE command == Head(toServer)
           refusal == <<[kind |-> "unavailable", names |-> {}]>>
<1>1. toServer # <<>> /\ UNCHANGED <<created, mon, connected, advertised, online, asked>>
  BY DEF ServerStep
<1>2. /\ toServer \in Seq(Lines) /\ serverList \in SUBSET Nicks /\ connected \in BOOLEAN
      /\ online \in SUBSET Nicks
  BY DEF PresenceInv, Typed
<1>3. connected
  BY <1>1, <1>2 DEF PresenceInv, Offline
<1>4. command.names \in SUBSET Nicks
  <2>1. command \in Lines
    BY <1>1, <1>2, UpFacts
  <2> HIDE DEF command
  <2> QED BY <2>1 DEF Lines
<1>5. ASSUME NEW extra \in Seq(Answers), Honest(extra, online), Answer(extra),
             \A n \in serverList' : Told(extra, n) \/ n \in serverList
      PROVE  PresenceInv'
  <2>1. toClient' = toClient \o extra /\ Honest(extra, online')
        /\ \A n \in serverList' : \/ Told(extra, n)
                                  \/ n \in serverList /\ Word(online', n) = Word(online, n)
    BY <1>1, <1>5 DEF Answer
  <2> QED BY <1>1, <1>3, <2>1, SaidShown
<1>6. CASE Answer(refusal) /\ serverList' = serverList
  <2>1. refusal \in Seq(Answers) /\ \A i \in 1..Len(refusal) : refusal[i].kind = "unavailable"
    <3>1. [kind |-> "unavailable", names |-> {}] \in Answers
      BY DEF Answers
    <3> QED BY <3>1
  <2> HIDE DEF refusal
  <2> QED BY <1>5, <1>6, <2>1, MuteHonest
<1>7. CASE Answer(Listing) /\ serverList' = serverList
  <2>1. /\ Listing \in Seq(Answers) /\ Len(Listing) \in Nat \ {0}
        /\ Listing[Len(Listing)].kind = "end"
        /\ \A i \in 1..Len(Listing) : i < Len(Listing) => Listing[i].kind = "list"
    BY <1>2, ListingFacts
  <2>2. \A i \in 1..Len(Listing) : Listing[i].kind \in {"list", "end"}
    BY <2>1
  <2>3. Honest(Listing, online)
    BY <2>2, MuteHonest
  <2> QED BY <1>5, <1>7, <2>1, <2>3
<1>8. CASE Answer(Status(serverList)) /\ serverList' = serverList
  BY <1>2, <1>5, <1>8, StatusFacts, StatusHonest
<1>9. CASE Answer(<<>>) /\ serverList' = serverList \ command.names
  <2>1. <<>> \in Seq(Answers) /\ Honest(<<>>, online)
    BY EmptyFacts DEF Honest
  <2> QED BY <1>5, <1>9, <2>1
<1>10. ASSUME NEW no \in SUBSET (command.names \ serverList), NEW full \in BOOLEAN,
              serverList' = serverList \cup (command.names \ no),
              Answer(Status(command.names \ no) \o
                     (IF full THEN <<[kind |-> "full", names |-> no]>> ELSE <<>>))
       PROVE  PresenceInv'
  <2> DEFINE added == command.names \ no
             said == Status(added)
             told == IF full THEN <<[kind |-> "full", names |-> no]>> ELSE <<>>
  <2>1. added \in SUBSET Nicks /\ no \in SUBSET Nicks
    BY <1>4, <1>10
  <2>2. /\ told \in Seq(Answers) /\ \A i \in 1..Len(told) : told[i].kind = "full"
    <3>1. [kind |-> "full", names |-> no] \in Answers
      BY <2>1 DEF Answers
    <3> QED BY <3>1, EmptyFacts
  <2>3. Answer(said \o told) /\ serverList' = serverList \cup added
    BY <1>10
  <2> HIDE DEF added, told
  <2>4. said \in Seq(Answers) /\ Honest(said, online) /\ \A n \in added : Told(said, n)
    BY <2>1, StatusFacts, StatusHonest
  <2>5. Honest(told, online)
    BY <2>2, MuteHonest
  <2> HIDE DEF said
  <2>6. said \o told \in Seq(Answers) /\ Honest(said \o told, online)
    BY <2>2, <2>4, <2>5, ConcatFacts, HonestConcat
  <2>7. \A n \in added : Told(said \o told, n)
    BY <2>1, <2>2, <2>4, SaidFacts
  <2> QED BY <1>5, <2>3, <2>6, <2>7
<1>11. \/ Answer(refusal) /\ serverList' = serverList
       \/ Answer(Listing) /\ serverList' = serverList
       \/ Answer(Status(serverList)) /\ serverList' = serverList
       \/ Answer(<<>>) /\ serverList' = serverList \ command.names
       \/ \E no \in SUBSET (command.names \ serverList), full \in BOOLEAN :
             /\ serverList' = serverList \cup (command.names \ no)
             /\ Answer(Status(command.names \ no) \o
                       (IF full THEN <<[kind |-> "full", names |-> no]>> ELSE <<>>))
  BY DEF ServerStep
<1> QED BY <1>6, <1>7, <1>8, <1>9, <1>10, <1>11

LEMMA FlipShown ==
  ASSUME PresenceInv, Typed', NEW n \in Nicks, Flip(n)
  PROVE  PresenceInv'
<1> DEFINE a == [kind |-> IF n \in online THEN "offline" ELSE "online", names |-> {n}]
<1>1. /\ UNCHANGED <<created, mon, connected, advertised, toServer, serverList, asked>>
      /\ online' = IF n \in online THEN online \ {n} ELSE online \cup {n}
      /\ toClient' = IF n \in serverList /\ connected THEN Append(toClient, a) ELSE toClient
  BY DEF Flip
<1>2. toClient \in Seq(Answers) /\ connected \in BOOLEAN
  BY DEF PresenceInv, Typed
<1>3. a \in Answers /\ a.kind = Word(online', n) /\ a.names = {n} /\ a.kind \in {"online", "offline"}
  BY <1>1 DEF Answers, Word
<1>4. \A k \in Nicks : k # n => Word(online', k) = Word(online, k)
  BY <1>1 DEF Word
<1> HIDE DEF a
<1>5. CASE ~connected
  <2>1. toClient = <<>> /\ mon.peers = Unknown /\ toClient' = <<>>
    BY <1>1, <1>5 DEF PresenceInv, Offline, Shown, Blank
  <2>2. Shown(mon', toClient', serverList', online', asked', connected')
    BY <1>1, <2>1, UnknownShown
  <2>3. \A k \in serverList' : Truthful(toClient', online', k)
    BY <2>1 DEF Truthful
  <2> QED BY <1>1, <2>1, <2>2, <2>3 DEF PresenceInv, Offline
<1>6. CASE connected /\ n \in serverList
  <2>1. <<a>> \in Seq(Answers) /\ Len(<<a>>) = 1 /\ <<a>>[1] = a /\ toClient' = toClient \o <<a>>
    BY <1>1, <1>2, <1>3, <1>6
  <2>2. Honest(<<a>>, online') /\ Told(<<a>>, n)
    BY <1>3, <2>1 DEF Honest, Told, Tells
  <2>3. \A k \in serverList' : \/ Told(<<a>>, k)
                               \/ k \in serverList /\ Word(online', k) = Word(online, k)
    <3>1. serverList \in SUBSET Nicks
      BY DEF PresenceInv, Typed
    <3> QED BY <1>1, <1>4, <2>2, <3>1
  <2> QED BY <1>1, <1>6, <2>1, <2>2, <2>3, SaidShown
<1>7. CASE connected /\ n \notin serverList
  <2>1. toClient' = toClient \o <<>> /\ <<>> \in Seq(Answers) /\ Honest(<<>>, online')
    BY <1>1, <1>2, <1>7, EmptyFacts DEF Honest
  <2>2. \A k \in serverList' : k \in serverList /\ Word(online', k) = Word(online, k)
    <3>1. serverList \in SUBSET Nicks
      BY DEF PresenceInv, Typed
    <3> QED BY <1>1, <1>4, <1>7, <3>1
  <2> QED BY <1>1, <1>7, <2>1, <2>2, SaidShown
<1> QED BY <1>2, <1>5, <1>6, <1>7

LEMMA OfferShown ==
  ASSUME PresenceInv, Typed', Withdraw \/ Restore
  PROVE  PresenceInv'
<1>1. /\ connected
      /\ UNCHANGED <<created, mon, connected, advertised, serverList, online, asked>>
  BY DEF Withdraw, Restore, server
<1>2. PICK kind \in {"offered", "withdrawn"} : toClient' = toClient \o <<[kind |-> kind, names |-> {}]>>
  BY DEF Withdraw, Restore, Answer
<1> DEFINE extra == <<[kind |-> kind, names |-> {}]>>
<1>3. extra \in Seq(Answers) /\ \A i \in 1..Len(extra) : extra[i].kind \notin {"online", "offline"}
  <2>1. [kind |-> kind, names |-> {}] \in Answers
    BY DEF Answers
  <2> QED BY <2>1
<1>4. toClient' = toClient \o extra
  BY <1>2
<1> HIDE DEF extra
<1>5. Honest(extra, online')
  BY <1>3, MuteHonest
<1>6. \A n \in serverList' : n \in serverList /\ Word(online', n) = Word(online, n)
  BY <1>1
<1> QED BY <1>1, <1>3, <1>4, <1>5, <1>6, SaidShown

\* A lost connection takes all that was shown with it.
LEMMA RenewedShown ==
  ASSUME PresenceInv, Typed', Disconnect \/ Reconnect
  PROVE  PresenceInv'
<1>1. /\ mon' = IF created THEN ResetTransport(mon) ELSE mon
      /\ created' = created /\ asked' = asked
  BY DEF Disconnect, Reconnect
<1>2. mon \in Managers
  BY DEF PresenceInv, Typed, Proper
<1>3. ~created => mon = Fresh
  BY DEF PresenceInv
<1>4. mon'.peers = Unknown
  BY <1>1, <1>2, <1>3 DEF ResetTransport, Fresh, Managers
<1>5. \A i \in 1..Len(toClient') : toClient'[i].kind \notin {"online", "offline"}
  <2> DEFINE offer == <<[kind |-> "offered", names |-> {}]>>
  <2>1. toClient' = <<>> \/ toClient' = offer
    BY DEF Disconnect, Reconnect
  <2>2. Len(offer) = 1 /\ offer[1].kind = "offered" /\ Len(<<>>) = 0
    OBVIOUS
  <2> HIDE DEF offer
  <2> QED BY <2>1, <2>2
<1>6. \A n \in serverList' : Truthful(toClient', online', n)
  BY <1>5 DEF Truthful, Tells
<1>7. Shown(mon', toClient', serverList', online', asked', connected')
  BY <1>4, UnknownShown
<1>8. Offline'
  BY DEF Disconnect, Reconnect, Offline
<1> QED BY <1>1, <1>3, <1>6, <1>7, <1>8 DEF PresenceInv

LEMMA PresenceInit == Init => PresenceInv
<1> SUFFICES ASSUME Init PROVE PresenceInv
  OBVIOUS
<1>1. Typed
  BY NicksAssumption, FreshProper, EmptyFacts DEF Init, Typed
<1>2. mon = Fresh /\ mon.peers = Unknown /\ toClient = <<>> /\ connected
      /\ asked = [n \in Nicks |-> "nothing"]
  BY DEF Init, Fresh
<1>3. asked \in Asked
  BY <1>2 DEF Asked
<1>4. \A n \in serverList : Truthful(toClient, online, n)
  BY <1>2 DEF Truthful
<1>5. Shown(mon, toClient, serverList, online, asked, connected)
  BY <1>2, UnknownShown
<1> QED BY <1>1, <1>2, <1>3, <1>4, <1>5 DEF PresenceInv, Offline

LEMMA PresenceStep ==
  PresenceInv /\ [Next]_vars => PresenceInv'
<1> SUFFICES ASSUME PresenceInv, [Next]_vars PROVE PresenceInv'
  OBVIOUS
<1>1. Typed'
  BY TypedStep DEF PresenceInv
<1>2. ASSUME WriterDies PROVE PresenceInv'
  <2>1. /\ connected
        /\ UNCHANGED <<created, mon, connected, advertised, toClient, serverList, online, asked>>
    BY <1>2 DEF WriterDies, server
  <2> QED BY <1>1, <2>1 DEF PresenceInv, Offline
<1>3. CASE UNCHANGED vars
  BY <1>1, <1>3 DEF vars, PresenceInv, Offline
<1> QED
  BY <1>1, <1>2, <1>3, TickShown, ChangeTargetsShown, QueryShown, ClientReceiveShown,
     ServerStepShown, RenewedShown, FlipShown, OfferShown DEF Next

\* docs/validation/bouncer-monitor.md: reconnects and changes of ISUPPORT leave
\* no stale presence, however additions, removals, listings, notifications and
\* lost connections interleave.
THEOREM MonitorPresenceCurrent == Spec => []PresenceCurrent
<1>1. PresenceInv => PresenceCurrent
  <2> SUFFICES ASSUME PresenceInv, Quiet, NEW n \in mon.wanted \cap serverList, Stale(n),
                      asked[n] # "add again"
               PROVE  FALSE
    BY DEF PresenceCurrent
  <2>1. mon.wanted # NoList /\ n \in Nicks /\ n \in mon.wanted
    BY DEF Quiet, PresenceInv, Typed
  <2>2. toClient = <<>>
    BY DEF Quiet
  <2>3. ~Told(toClient, n)
    BY <2>2, NothingTold
  <2>4. mon.peers[n] \in {"unknown", Word(online, n)}
    BY <2>1, <2>3 DEF PresenceInv, Shown, Known
  <2> QED BY <2>4 DEF Stale, Word
<1> QED BY <1>1, PresenceInit, PresenceStep, PTL DEF Spec
=============================================================================
