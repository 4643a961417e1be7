------------------------ MODULE OutgoingRedirectProofs ------------------------
(***************************************************************************)
(* A private message that is translated while people change nicks reaches  *)
(* the person it was written to: the invariants of OutgoingRedirect, for   *)
(* any number of nicks, people, sends and eras.                            *)
(***************************************************************************)
EXTENDS OutgoingRedirect, FiniteSets, TLAPS

F == INSTANCE FoldFacts WITH Op <- Retain

-----------------------------------------------------------------------------
\* The era is about the instant `at`, however long ago it ended.
Covers(era, at) == era.started <= at /\ at <= era.ended

CoveredBy(eras, at) == {i \in 1..Len(eras) : Covers(eras[i], at)}

\* The nick under which the conversation of a send goes on, by these eras.
HomeBy(eras, nick, at) ==
  IF CoveredBy(eras, at) = {} THEN nick
  ELSE eras[CHOOSE i \in CoveredBy(eras, at) : TRUE].target

Home(send) == HomeBy(redirects[send.nick], send.nick, send.at)

\* Eras of an id end before the next begins, and all of them in the past.
Ordered(eras, now) ==
  /\ \A i \in 1..Len(eras) : eras[i].started <= eras[i].ended /\ eras[i].ended < now
  /\ \A i, j \in 1..Len(eras) : i < j => eras[i].ended <= eras[j].started

ErasOrdered == \A n \in Nicks : Ordered(redirects[n], clock)

\* Two people never answer to one nick, nor one person to two.
OneNickEach ==
  \A m, n \in Nicks : owner[m] = owner[n] /\ owner[m] # NoOne => m = n

\* A send was dispatched at an instant of its own, in the past; if no era is
\* about that instant, every era of its nick is older.
SendsPlaced ==
  \A i \in 1..Len(sends) :
    /\ sends[i].at < clock
    /\ \A n \in Nicks : \A k \in 1..Len(redirects[n]) : redirects[n][k].ended # sends[i].at
    /\ CoveredBy(redirects[sends[i].nick], sends[i].at) = {} =>
         \A k \in 1..Len(redirects[sends[i].nick]) :
           redirects[sends[i].nick][k].ended < sends[i].at

\* Whoever has not left answers to the nick their conversations are under.
HomesOwned ==
  \A i \in 1..Len(sends) : ~sends[i].left => owner[Home(sends[i])] = sends[i].for

\* Each send has a marker of its own under its nick.  Markers of people who
\* left come first, and a marker of somebody present is their send's, in order.
MarkerOf(slot) ==
  /\ \A i \in 1..Len(sends) :
       /\ slot[i] \in 1..Len(inFlight[Home(sends[i])])
       /\ ~sends[i].left => inFlight[Home(sends[i])][slot[i]] = sends[i].at
  /\ \A i, j \in 1..Len(sends) :
       i # j /\ Home(sends[i]) = Home(sends[j]) =>
         /\ slot[i] # slot[j]
         /\ ~sends[j].left /\ (sends[i].left \/ i < j) => slot[i] < slot[j]

MarkersKept == \E slot \in [1..Len(sends) -> Nat \ {0}] : MarkerOf(slot)

EraInv == TypeOK /\ ErasOrdered

RedirectInv ==
  EraInv /\ OneNickEach /\ SendsPlaced /\ HomesOwned /\ MarkersKept /\ RenamesFollowed

\* The era that the cap would forget next is older than every send that is
\* still in translation from its nick.
RoomForEras ==
  \A n \in Nicks : Len(redirects[n]) < MaxEras
    \/ \A i \in 1..Len(sends) : sends[i].nick = n => redirects[n][1].ended < sends[i].at

-----------------------------------------------------------------------------
(* What the operators on eras do.                                          *)

\* Instants and eras are made of integers.
LEMMA EraFacts ==
  /\ Times \subseteq Int /\ Never \in Int
  /\ \A era \in Era : era.target \in Nicks /\ era.started \in Int /\ era.ended \in Int
BY BoundsAssumption DEF Era, Times, Never

\* `retain` as a fold of this module's lemmas.
LEMMA RetainedFolded ==
  ASSUME NEW s
  PROVE  Retained(s) = F!Folded(<<>>, s)
BY DEF Retained, FoldLeft, MapThenFoldSet, Max, F!Folded, F!Iter, F!Greatest

\* `retain` keeps eras that are recent, in their order, and no others.
LEMMA RetainedFacts ==
  ASSUME NEW s \in Seq(Era), clock \in Times
  PROVE  /\ Retained(s) \in Seq(Era) /\ Len(Retained(s)) <= Len(s)
         /\ \A j \in 1..Len(Retained(s)) : \E i \in 1..Len(s) : Retained(s)[j] = s[i]
         /\ \A i \in 1..Len(s) : Age(s[i].ended) < TTL =>
              \E j \in 1..Len(Retained(s)) : Retained(s)[j] = s[i]
         /\ \A j1, j2 \in 1..Len(Retained(s)) : j1 < j2 =>
              \E i1, i2 \in 1..Len(s) : i1 < i2 /\ Retained(s)[j1] = s[i1] /\ Retained(s)[j2] = s[i2]
<1> DEFINE Good(k, a) ==
      /\ Len(a) <= k
      /\ \A j \in 1..Len(a) : \E i \in 1..k : a[j] = s[i]
      /\ \A i \in 1..k : Age(s[i].ended) < TTL => \E j \in 1..Len(a) : a[j] = s[i]
      /\ \A j1, j2 \in 1..Len(a) : j1 < j2 =>
           \E i1, i2 \in 1..k : i1 < i2 /\ a[j1] = s[i1] /\ a[j2] = s[i2]
    G == [k \in 0..Len(s) |-> {a \in Seq(Era) : Good(k, a)}]
<1>1. Len(s) \in Nat
  OBVIOUS
<1>2. <<>> \in G[0]
  <2>1. Good(0, <<>>)
    OBVIOUS
  <2> QED BY <2>1, <1>1
<1>3. ASSUME NEW k \in 1..Len(s), NEW a \in G[k - 1]
      PROVE  Retain(a, s[k]) \in G[k]
  <2>1. k - 1 \in 0..Len(s) /\ k \in 0..Len(s) /\ s[k] \in Era
    BY <1>1
  <2>2. a \in Seq(Era) /\ Good(k - 1, a)
    <3> HIDE DEF Good
    <3> QED BY <2>1, <1>3
  <2>3. CASE Age(s[k].ended) < TTL
    <3> DEFINE b == Append(a, s[k])
    <3>1. /\ b \in Seq(Era) /\ Len(b) = Len(a) + 1 /\ b[Len(a) + 1] = s[k]
          /\ \A j \in 1..Len(a) : b[j] = a[j]
      BY <2>1, <2>2
    <3>2. Retain(a, s[k]) = b
      BY <2>3 DEF Retain
    <3> HIDE DEF b
    <3>3. Len(b) <= k /\ \A j \in 1..Len(b) : \E i \in 1..k : b[j] = s[i]
      <4>1. Len(b) <= k
        BY <3>1, <2>2
      <4>2. ASSUME NEW j \in 1..Len(b) PROVE \E i \in 1..k : b[j] = s[i]
        <5>1. CASE j = Len(a) + 1
          BY <5>1, <3>1
        <5>2. CASE j # Len(a) + 1
          <6>1. j \in 1..Len(a)
            BY <5>2, <3>1, <2>2
          <6>2. PICK i \in 1..(k - 1) : a[j] = s[i]
            BY <6>1, <2>2
          <6> QED BY <6>1, <6>2, <3>1
        <5> QED BY <5>1, <5>2
      <4> QED BY <4>1, <4>2
    <3>4. \A i \in 1..k : Age(s[i].ended) < TTL => \E j \in 1..Len(b) : b[j] = s[i]
      <4> SUFFICES ASSUME NEW i \in 1..k, Age(s[i].ended) < TTL
                   PROVE  \E j \in 1..Len(b) : b[j] = s[i]
        OBVIOUS
      <4>1. CASE i = k
        BY <4>1, <3>1, <2>2
      <4>2. CASE i # k
        <5>1. i \in 1..(k - 1)
          BY <4>2
        <5>2. PICK j \in 1..Len(a) : a[j] = s[i]
          BY <5>1, <2>2
        <5> QED BY <5>2, <3>1, <2>2
      <4> QED BY <4>1, <4>2
    <3>5. \A j1, j2 \in 1..Len(b) : j1 < j2 =>
            \E i1, i2 \in 1..k : i1 < i2 /\ b[j1] = s[i1] /\ b[j2] = s[i2]
      <4> SUFFICES ASSUME NEW j1 \in 1..Len(b), NEW j2 \in 1..Len(b), j1 < j2
                   PROVE  \E i1, i2 \in 1..k : i1 < i2 /\ b[j1] = s[i1] /\ b[j2] = s[i2]
        OBVIOUS
      <4>1. CASE j2 = Len(a) + 1
        <5>1. j1 \in 1..Len(a)
          BY <4>1, <3>1, <2>2
        <5>2. PICK i1 \in 1..(k - 1) : a[j1] = s[i1]
          BY <5>1, <2>2
        <5>3. i1 \in 1..k /\ k \in 1..k /\ i1 < k
          BY <5>2
        <5> QED BY <5>1, <5>2, <5>3, <4>1, <3>1
      <4>2. CASE j2 # Len(a) + 1
        <5>1. j1 \in 1..Len(a) /\ j2 \in 1..Len(a)
          BY <4>2, <3>1, <2>2
        <5>2. PICK i1 \in 1..(k - 1), i2 \in 1..(k - 1) :
                     i1 < i2 /\ a[j1] = s[i1] /\ a[j2] = s[i2]
          BY <5>1, <2>2
        <5>3. i1 \in 1..k /\ i2 \in 1..k
          OBVIOUS
        <5> QED BY <5>1, <5>2, <5>3, <3>1
      <4> QED BY <4>1, <4>2
    <3>6. Good(k, b)
      BY <3>3, <3>4, <3>5
    <3> HIDE DEF Good
    <3> QED BY <3>1, <3>2, <3>6, <2>1
  <2>4. CASE ~(Age(s[k].ended) < TTL)
    <3>1. Retain(a, s[k]) = a
      BY <2>4 DEF Retain
    <3>2. Good(k, a)
      <4>1. Len(a) <= k /\ \A j \in 1..Len(a) : \E i \in 1..k : a[j] = s[i]
        BY <2>2
      <4>2. \A i \in 1..k : Age(s[i].ended) < TTL => i \in 1..(k - 1)
        BY <2>4
      <4>3. \A i \in 1..k : Age(s[i].ended) < TTL => \E j \in 1..Len(a) : a[j] = s[i]
        BY <4>2, <2>2
      <4>4. \A i \in 1..(k - 1) : i \in 1..k
        OBVIOUS
      <4> QED BY <4>1, <4>3, <4>4, <2>2
    <3> HIDE DEF Good
    <3> QED BY <3>1, <3>2, <2>1, <2>2
  <2> QED BY <2>3, <2>4
<1>4. F!Folded(<<>>, s) \in G[Len(s)]
  <2> HIDE DEF G
  <2> QED BY <1>2, <1>3, F!FoldInduct
<1>5. Retained(s) \in Seq(Era) /\ Good(Len(s), Retained(s))
  <2> HIDE DEF Good
  <2> QED BY <1>4, <1>1, RetainedFolded
<1> QED BY <1>5

\* `retain` keeps eras in order.
LEMMA RetainedOrdered ==
  ASSUME NEW s \in Seq(Era), clock \in Times, NEW now \in Int, Ordered(s, now)
  PROVE  Ordered(Retained(s), now)
<1> DEFINE r == Retained(s)
<1>1. /\ \A j \in 1..Len(r) : \E i \in 1..Len(s) : r[j] = s[i]
      /\ \A j1, j2 \in 1..Len(r) : j1 < j2 =>
           \E i1, i2 \in 1..Len(s) : i1 < i2 /\ r[j1] = s[i1] /\ r[j2] = s[i2]
  BY RetainedFacts
<1> HIDE DEF r
<1>2. \A j \in 1..Len(r) : r[j].started <= r[j].ended /\ r[j].ended < now
  BY <1>1 DEF Ordered
<1>3. ASSUME NEW j1 \in 1..Len(r), NEW j2 \in 1..Len(r), j1 < j2
      PROVE  r[j1].ended <= r[j2].started
  <2>1. PICK i1 \in 1..Len(s), i2 \in 1..Len(s) : i1 < i2 /\ r[j1] = s[i1] /\ r[j2] = s[i2]
    BY <1>1, <1>3
  <2> QED BY <2>1 DEF Ordered
<1> QED BY <1>2, <1>3 DEF Ordered, r

\* Repointing changes targets only.
LEMMA RepointedFacts ==
  ASSUME TypeOK, NEW old \in Nicks, NEW new \in Nicks, NEW n \in Nicks
  PROVE  /\ Repointed(old, new)[n] \in Seq(Era)
         /\ Len(Repointed(old, new)[n]) = Len(redirects[n])
         /\ \A i \in 1..Len(redirects[n]) :
              /\ Repointed(old, new)[n][i].started = redirects[n][i].started
              /\ Repointed(old, new)[n][i].ended = redirects[n][i].ended
              /\ Repointed(old, new)[n][i].target =
                   IF redirects[n][i].target = old THEN new ELSE redirects[n][i].target
<1> DEFINE r == redirects[n]
           e(i) == IF r[i].target = old THEN [r[i] EXCEPT !.target = new] ELSE r[i]
<1>1. r \in Seq(Era) /\ Len(r) \in Nat /\ \A i \in 1..Len(r) : r[i] \in Era
  BY DEF TypeOK
<1>2. Repointed(old, new)[n] = [i \in 1..Len(r) |-> e(i)]
  BY DEF Repointed
<1>3. ASSUME NEW i \in 1..Len(r)
      PROVE  /\ e(i) \in Era /\ e(i).started = r[i].started /\ e(i).ended = r[i].ended
             /\ e(i).target = IF r[i].target = old THEN new ELSE r[i].target
  BY <1>1 DEF Era
<1> HIDE DEF e
<1> QED BY <1>1, <1>2, <1>3

\* The list of `old` after its era was closed, before the cap.
Closed(old, new) ==
  Append(Repointed(old, new)[old],
         [target |-> new, started |-> StartOf(Repointed(old, new)[old]), ended |-> clock])

LEMMA ClosedFacts ==
  ASSUME TypeOK, ErasOrdered, NEW old \in Nicks, NEW new \in Nicks
  PROVE  /\ Closed(old, new) \in Seq(Era)
         /\ Len(Closed(old, new)) = Len(redirects[old]) + 1
         /\ \A i \in 1..Len(redirects[old]) : Closed(old, new)[i] = Repointed(old, new)[old][i]
         /\ Closed(old, new)[Len(redirects[old]) + 1].target = new
         /\ Closed(old, new)[Len(redirects[old]) + 1].ended = clock
         /\ Closed(old, new)[Len(redirects[old]) + 1].started =
              IF redirects[old] = <<>> THEN Never ELSE redirects[old][Len(redirects[old])].ended
         /\ Ordered(Closed(old, new), clock + 1)
<1> DEFINE p == Repointed(old, new)[old]
           r == redirects[old]
           L == Len(r)
           era == [target |-> new, started |-> StartOf(p), ended |-> clock]
<1>1. /\ r \in Seq(Era) /\ L \in Nat /\ clock \in Times /\ clock \in Int
      /\ \A i \in 1..L : r[i] \in Era /\ r[i].started \in Int /\ r[i].ended \in Int
  <2>1. r \in Seq(Era) /\ clock \in Times
    BY DEF TypeOK
  <2> QED BY <2>1, EraFacts
<1>2. /\ p \in Seq(Era) /\ Len(p) = L
      /\ \A i \in 1..L : p[i].started = r[i].started /\ p[i].ended = r[i].ended
  BY RepointedFacts
<1>3. StartOf(p) = IF r = <<>> THEN Never ELSE r[L].ended
  <2>1. p = <<>> <=> r = <<>>
    BY <1>1, <1>2
  <2>2. CASE r = <<>>
    BY <2>1, <2>2 DEF StartOf
  <2>3. CASE r # <<>>
    <3>1. L \in 1..L /\ Last(p) = p[L]
      BY <2>3, <1>1, <1>2 DEF Last
    <3> QED BY <2>1, <2>3, <3>1, <1>2 DEF StartOf
  <2> QED BY <2>2, <2>3
<1>4. era \in Era
  <2>1. r # <<>> => L \in 1..L
    BY <1>1
  <2>2. StartOf(p) \in Times \cup {Never}
    BY <2>1, <1>1, <1>3 DEF Era
  <2> QED BY <2>2, <1>1 DEF Era
<1>5. /\ Closed(old, new) = Append(p, era)
      /\ Closed(old, new) \in Seq(Era) /\ Len(Closed(old, new)) = L + 1
      /\ Closed(old, new)[L + 1] = era
      /\ \A i \in 1..L : Closed(old, new)[i] = p[i]
  BY <1>1, <1>2, <1>4 DEF Closed
<1>6. Ordered(r, clock)
  BY DEF ErasOrdered
<1>7. Ordered(Closed(old, new), clock + 1)
  <2> DEFINE c == Closed(old, new)
  <2>1. ASSUME NEW i \in 1..L
        PROVE  c[i].started = r[i].started /\ c[i].ended = r[i].ended
    BY <1>2, <1>5
  <2>2. era.started <= era.ended /\ \A i \in 1..L : r[i].ended <= era.started
    <3>1. CASE r = <<>>
      BY <3>1, <1>1, <1>3 DEF Never, Times
    <3>2. CASE r # <<>>
      <4>1. L \in 1..L
        BY <3>2, <1>1
      <4>2. r[L].ended < clock
        BY <4>1, <1>6 DEF Ordered
      <4>3. ASSUME NEW i \in 1..L PROVE r[i].ended <= r[L].ended
        <5>1. CASE i = L
          BY <5>1, <1>1
        <5>2. CASE i # L
          <6>1. i < L
            BY <5>2, <1>1
          <6>2. r[i].ended <= r[L].started /\ r[L].started <= r[L].ended
            BY <6>1, <4>1, <1>6 DEF Ordered
          <6> QED BY <6>2, <4>1, <1>1
        <5> QED BY <5>1, <5>2
      <4> QED BY <3>2, <4>1, <4>2, <4>3, <1>1, <1>3
    <3> QED BY <3>1, <3>2
  <2>3. \A i \in 1..(L + 1) : c[i].started <= c[i].ended /\ c[i].ended < clock + 1
    <3> SUFFICES ASSUME NEW i \in 1..(L + 1)
                 PROVE  c[i].started <= c[i].ended /\ c[i].ended < clock + 1
      OBVIOUS
    <3>1. CASE i = L + 1
      BY <3>1, <1>1, <1>5, <2>2
    <3>2. CASE i # L + 1
      <4>1. i \in 1..L
        BY <3>2, <1>1
      <4> QED BY <4>1, <2>1, <1>1, <1>6 DEF Ordered
    <3> QED BY <3>1, <3>2
  <2>4. \A i, j \in 1..(L + 1) : i < j => c[i].ended <= c[j].started
    <3> SUFFICES ASSUME NEW i \in 1..(L + 1), NEW j \in 1..(L + 1), i < j
                 PROVE  c[i].ended <= c[j].started
      OBVIOUS
    <3>1. i \in 1..L
      BY <1>1
    <3>2. CASE j = L + 1
      BY <3>1, <3>2, <1>5, <2>1, <2>2
    <3>3. CASE j # L + 1
      <4>1. L \in Nat
        BY <1>1
      <4>2. j \in 1..L
        BY <3>3, <4>1
      <4> QED BY <3>1, <4>2, <2>1, <1>6 DEF Ordered
    <3> QED BY <3>2, <3>3
  <2> HIDE DEF c
  <2> QED BY <1>5, <2>3, <2>4 DEF Ordered, c
<1> QED BY <1>3, <1>5, <1>7

\* The cap drops eras from the front, and no more than it must.
LEMMA CappedFacts ==
  ASSUME NEW s \in Seq(Era), NEW now \in Int, Ordered(s, now), Len(s) <= MaxEras + 1
  PROVE  /\ Capped(s) \in Seq(Era) /\ Len(Capped(s)) <= MaxEras
         /\ Ordered(Capped(s), now)
         /\ Len(s) <= MaxEras => Capped(s) = s
         /\ Len(s) = MaxEras + 1 =>
              /\ Len(Capped(s)) = MaxEras
              /\ \A i \in 1..MaxEras : Capped(s)[i] = s[i + 1]
<1>1. MaxEras \in Nat /\ MaxEras >= 1 /\ Len(s) \in Nat
  BY TimesAssumption
<1>2. CASE Len(s) <= MaxEras
  BY <1>1, <1>2 DEF Capped
<1>3. CASE Len(s) = MaxEras + 1
  <2> DEFINE c == SubSeq(s, 2, MaxEras + 1)
  <2>1. Capped(s) = c
    BY <1>1, <1>3 DEF Capped
  <2>2. c \in Seq(Era) /\ Len(c) = MaxEras /\ \A i \in 1..MaxEras : c[i] = s[i + 1]
    BY <1>1, <1>3
  <2> HIDE DEF c
  <2>3. Ordered(c, now)
    <3>1. \A i \in 1..MaxEras : i + 1 \in 1..Len(s)
      BY <1>1, <1>3
    <3>2. \A i \in 1..Len(c) : c[i].started <= c[i].ended /\ c[i].ended < now
      BY <3>1, <2>2 DEF Ordered
    <3>3. ASSUME NEW i \in 1..Len(c), NEW j \in 1..Len(c), i < j
          PROVE  c[i].ended <= c[j].started
      <4>1. i + 1 \in 1..Len(s) /\ j + 1 \in 1..Len(s) /\ i + 1 < j + 1
        BY <3>1, <3>3, <2>2
      <4> QED BY <4>1, <2>2 DEF Ordered
    <3> QED BY <3>2, <3>3 DEF Ordered
  <2> QED BY <1>1, <1>3, <2>1, <2>2, <2>3
<1> QED BY <1>1, <1>2, <1>3

\* What rekey_buffer_state is given to retain from, per nick.
Source(old, new, n) == IF n = old THEN Capped(Closed(old, new)) ELSE Repointed(old, new)[n]

LEMMA SourceFacts ==
  ASSUME TypeOK, ErasOrdered, NEW old \in Nicks, NEW new \in Nicks, NEW n \in Nicks
  PROVE  /\ Source(old, new, n) \in Seq(Era) /\ Len(Source(old, new, n)) <= MaxEras
         /\ Ordered(Source(old, new, n), clock + 1)
         /\ RekeyRedirects(old, new)[n] = Retained(Source(old, new, n))
<1>1. RekeyRedirects(old, new)[n] = Retained(Source(old, new, n))
  BY DEF RekeyRedirects, Source, Closed
<1>2. clock \in Int /\ Len(redirects[n]) \in Nat /\ Len(redirects[n]) <= MaxEras
  BY BoundsAssumption DEF TypeOK, Times
<1>3. CASE n = old
  <2> DEFINE c == Closed(old, new)
  <2>1. c \in Seq(Era) /\ Len(c) <= MaxEras + 1 /\ Ordered(c, clock + 1)
    BY <1>2, <1>3, ClosedFacts, TimesAssumption
  <2>2. Capped(c) \in Seq(Era) /\ Len(Capped(c)) <= MaxEras /\ Ordered(Capped(c), clock + 1)
    <3> HIDE DEF c
    <3> QED BY <2>1, <1>2, CappedFacts
  <2> QED BY <1>1, <1>3, <2>2 DEF Source
<1>4. CASE n # old
  <2> DEFINE p == Repointed(old, new)[n]
             r == redirects[n]
  <2>1. /\ p \in Seq(Era) /\ Len(p) = Len(r)
        /\ \A i \in 1..Len(r) : p[i].started = r[i].started /\ p[i].ended = r[i].ended
    BY RepointedFacts
  <2>2. Ordered(r, clock) /\ \A i \in 1..Len(r) : r[i].ended \in Int
    <3>1. r \in Seq(Era) /\ Ordered(r, clock)
      BY DEF ErasOrdered, TypeOK
    <3> QED BY <3>1, EraFacts
  <2>3. Ordered(p, clock + 1)
    <3> HIDE DEF p, r
    <3> QED BY <2>1, <2>2, <1>2 DEF Ordered
  <2> QED BY <1>1, <1>2, <1>4, <2>1, <2>3 DEF Source
<1> QED BY <1>3, <1>4

\* Every non-empty set of positions has a least one.
LEMMA MinInside ==
  ASSUME NEW k \in Nat, NEW s \in SUBSET (1..k), s # {}
  PROVE  Min(s) \in s /\ \A x \in s : Min(s) <= x
<1> DEFINE S == {n \in Nat : \A t \in SUBSET (1..n) : t # {} => \E x \in t : \A y \in t : x <= y}
<1>1. 0 \in S
  <2>1. \A t \in SUBSET (1..0) : t = {}
    OBVIOUS
  <2> QED BY <2>1
<1>2. ASSUME NEW n \in Nat, n \in S PROVE n + 1 \in S
  <2>1. SUFFICES ASSUME NEW t \in SUBSET (1..(n + 1)), t # {}
                 PROVE  \E x \in t : \A y \in t : x <= y
    OBVIOUS
  <2>2. CASE t \cap (1..n) = {}
    <3>1. \A y \in t : y \notin 1..n /\ (y \in 1..n \/ y = n + 1)
      BY <2>2
    <3>2. \A y \in t : y = n + 1
      BY <3>1
    <3>3. PICK x \in t : TRUE
      BY <2>1
    <3>4. x = n + 1 /\ n + 1 <= n + 1
      BY <3>2, <3>3
    <3>5. \A y \in t : x <= y
      BY <3>2, <3>4
    <3> QED BY <3>5
  <2>3. CASE t \cap (1..n) # {}
    <3>1. PICK x \in t \cap (1..n) : \A y \in t \cap (1..n) : x <= y
      BY <2>3, <1>2
    <3>2. \A y \in t : y \in 1..n \/ y = n + 1
      OBVIOUS
    <3> QED BY <3>1, <3>2
  <2> QED BY <2>2, <2>3
<1>3. Nat \subseteq S
  <2> HIDE DEF S
  <2> QED BY <1>1, <1>2, F!NatSetInduction
<1>4. \E x \in s : \A y \in s : x <= y
  BY <1>3
<1> QED BY <1>4 DEF Min

-----------------------------------------------------------------------------
(* Types, and the order of the eras.                                       *)

SendType == [nick : Nicks, at : Times, for : Persons, left : BOOLEAN]
SentType == [for : Persons, reached : Persons \cup {NoOne}, left : BOOLEAN]

\* The initial states satisfy the types and have no eras.
LEMMA EraInvInit == Init => EraInv
<1> SUFFICES ASSUME Init PROVE EraInv
  OBVIOUS
<1>1. /\ redirects \in [Nicks -> Seq(Era)] /\ inFlight \in [Nicks -> Seq(Times)]
      /\ departures \in [Nicks -> Times \cup {Never}]
      /\ sends \in Seq(SendType) /\ sent \subseteq SentType
      /\ \A n \in Nicks : redirects[n] = <<>>
  BY DEF Init
<1>2. clock \in Times
  BY BoundsAssumption DEF Init, Times
<1>3. \A n \in Nicks : Len(redirects[n]) <= MaxEras
  BY <1>1, TimesAssumption
<1>4. ErasOrdered
  BY <1>1 DEF ErasOrdered, Ordered
<1> QED BY <1>1, <1>2, <1>3, <1>4 DEF EraInv, TypeOK, Init, SendType, SentType

\* Time passes one instant at a time.
LEMMA PassFacts ==
  ASSUME clock \in Times, Pass
  PROVE  clock' \in Times /\ clock' = clock + 1 /\ clock \in Int
BY BoundsAssumption DEF Pass, Times

\* Eras that stay as they are stay in order.
LEMMA ErasOrderedKept ==
  ASSUME TypeOK, ErasOrdered, Pass, redirects' = redirects
  PROVE  ErasOrdered'
<1>1. clock' = clock + 1 /\ clock \in Int
  BY PassFacts DEF TypeOK
<1>2. ASSUME NEW n \in Nicks PROVE Ordered(redirects'[n], clock')
  <2> DEFINE r == redirects[n]
  <2>1. r \in Seq(Era) /\ Ordered(r, clock)
    BY DEF TypeOK, ErasOrdered
  <2>2. \A i \in 1..Len(r) : r[i].ended \in Int
    BY <2>1, EraFacts
  <2> HIDE DEF r
  <2>3. Ordered(r, clock')
    BY <2>1, <2>2, <1>1 DEF Ordered
  <2> QED BY <2>3 DEF r
<1> QED BY <1>2 DEF ErasOrdered

\* No handler breaks a type or the order of the eras.
LEMMA EraInvNext == EraInv /\ [Next]_vars => EraInv'
<1> SUFFICES ASSUME EraInv, [Next]_vars PROVE EraInv'
  OBVIOUS
<1> USE DEF EraInv
<1>0. TypeOK /\ ErasOrdered /\ sends \in Seq(SendType) /\ sent \subseteq SentType
      /\ Len(sends) \in Nat /\ \A i \in 1..Len(sends) : sends[i] \in SendType
  <2>1. TypeOK /\ ErasOrdered /\ sends \in Seq(SendType) /\ sent \subseteq SentType
    BY DEF TypeOK, SendType, SentType
  <2> HIDE DEF EraInv
  <2> QED BY <2>1
<1>1. ASSUME NEW n \in Nicks, Submit(n) PROVE EraInv'
  <2>1. Pass /\ clock \in Times
    BY <1>1 DEF Submit, TypeOK
  <2>2. clock' \in Times
    BY <2>1, PassFacts
  <2>3. [nick |-> n, at |-> clock, for |-> owner[n], left |-> FALSE] \in SendType
    BY <1>1, <2>1 DEF Submit, TypeOK, SendType
  <2>4. sends' \in Seq(SendType)
    BY <1>0, <1>1, <2>3 DEF Submit
  <2>5. inFlight' \in [Nicks -> Seq(Times)]
    <3>1. Append(inFlight[n], clock) \in Seq(Times)
      BY <2>1 DEF TypeOK
    <3> QED BY <3>1, <1>1 DEF Submit, TypeOK
  <2>6. ErasOrdered'
    BY <1>0, <1>1, <2>1, ErasOrderedKept DEF Submit
  <2> QED BY <1>1, <2>2, <2>4, <2>5, <2>6 DEF Submit, TypeOK, SendType
<1>2. ASSUME NEW n \in Nicks, Quit(n) PROVE EraInv'
  <2>1. Pass /\ clock \in Times
    BY <1>2 DEF Quit, TypeOK
  <2>2. clock' \in Times
    BY <2>1, PassFacts
  <2>3. sends' \in Seq(SendType)
    <3> DEFINE e(i) == [sends[i] EXCEPT !.left = @ \/ sends[i].for = owner[n]]
    <3>1. \A i \in 1..Len(sends) : e(i) \in SendType
      BY <1>0 DEF SendType
    <3>2. sends' = [i \in 1..Len(sends) |-> e(i)]
      BY <1>2 DEF Quit
    <3> HIDE DEF e
    <3> QED BY <1>0, <3>1, <3>2
  <2>4. departures' \in [Nicks -> Times \cup {Never}]
    BY <1>2, <2>1 DEF Quit, TypeOK
  <2>5. owner' \in [Nicks -> Persons \cup {NoOne}]
    BY <1>2 DEF Quit, TypeOK
  <2>6. ErasOrdered'
    BY <1>0, <1>2, <2>1, ErasOrderedKept DEF Quit
  <2> QED BY <1>2, <2>2, <2>3, <2>4, <2>5, <2>6 DEF Quit, TypeOK, SendType
<1>3. ASSUME NEW n \in Nicks, CloseWindow(n) \/ OpenWindow(n) PROVE EraInv'
  <2>1. Pass /\ clock \in Times
    BY <1>3 DEF CloseWindow, OpenWindow, TypeOK
  <2>2. clock' \in Times
    BY <2>1, PassFacts
  <2>3. ErasOrdered'
    BY <1>0, <1>3, <2>1, ErasOrderedKept DEF CloseWindow, OpenWindow
  <2> QED BY <1>3, <2>2, <2>3 DEF CloseWindow, OpenWindow, TypeOK
<1>4. ASSUME NEW old \in Nicks, NEW new \in Nicks, NickChange(old, new) PROVE EraInv'
  <2>1. Pass /\ clock \in Times
    BY <1>4 DEF NickChange, TypeOK
  <2>2. clock' \in Times /\ clock' = clock + 1 /\ clock \in Int
    BY <2>1, PassFacts
  <2>3. owner' \in [Nicks -> Persons \cup {NoOne}] /\ windows' \subseteq Nicks
    BY <1>4 DEF NickChange, TypeOK
  <2>4. CASE old \in windows \/ HasOutgoingInFlight(old)
    <3>1. redirects' = RekeyRedirects(old, new) /\ inFlight' = RekeyInFlight(old, new)
      BY <1>4, <2>4 DEF NickChange, RekeyBufferState
    <3>2. ASSUME NEW n \in Nicks
          PROVE  /\ redirects'[n] \in Seq(Era) /\ Len(redirects'[n]) <= MaxEras
                 /\ Ordered(redirects'[n], clock')
      <4> DEFINE src == Source(old, new, n)
      <4>1. /\ src \in Seq(Era) /\ Len(src) <= MaxEras /\ Ordered(src, clock + 1)
            /\ RekeyRedirects(old, new)[n] = Retained(src)
        BY <1>0, SourceFacts
      <4> HIDE DEF src
      <4>2. Retained(src) \in Seq(Era) /\ Len(Retained(src)) <= Len(src)
        BY <4>1, <2>1, RetainedFacts
      <4>3. Ordered(Retained(src), clock + 1)
        BY <4>1, <2>1, <2>2, RetainedOrdered
      <4>4. Len(Retained(src)) <= MaxEras
        BY <4>1, <4>2, TimesAssumption
      <4> QED BY <3>1, <4>1, <4>2, <4>3, <4>4, <2>2
    <3>3. redirects' \in [Nicks -> Seq(Era)]
      <4>1. redirects' = [n \in Nicks |-> redirects'[n]]
        BY <3>1 DEF RekeyRedirects
      <4> QED BY <3>2, <4>1
    <3>4. inFlight' \in [Nicks -> Seq(Times)]
      <4>1. inFlight[new] \o inFlight[old] \in Seq(Times) /\ <<>> \in Seq(Times)
        BY DEF TypeOK
      <4> QED BY <3>1, <4>1 DEF RekeyInFlight, TypeOK
    <3>5. ErasOrdered'
      BY <3>2 DEF ErasOrdered
    <3> QED BY <1>4, <2>2, <2>3, <3>2, <3>3, <3>4, <3>5 DEF NickChange, TypeOK
  <2>5. CASE ~(old \in windows \/ HasOutgoingInFlight(old))
    <3>1. redirects' = redirects /\ inFlight' = inFlight
      BY <1>4, <2>5 DEF NickChange
    <3>2. ErasOrdered'
      BY <1>0, <2>1, <3>1, ErasOrderedKept
    <3> QED BY <1>4, <2>2, <2>3, <3>1, <3>2 DEF NickChange, TypeOK
  <2> QED BY <2>4, <2>5
<1>5. ASSUME NEW p \in Persons, NEW n \in Nicks, Join(p, n) PROVE EraInv'
  <2>1. Pass /\ clock \in Times
    BY <1>5 DEF Join, TypeOK
  <2>2. clock' \in Times
    BY <2>1, PassFacts
  <2>3. ErasOrdered'
    BY <1>0, <1>5, <2>1, ErasOrderedKept DEF Join
  <2> QED BY <1>5, <2>2, <2>3 DEF Join, TypeOK
<1>6. ASSUME Deliver PROVE EraInv'
  <2> DEFINE send == Head(sends)
             r == RedirectedBufferId(send.nick, send.at)
             target == RedirectOutgoingDeliver(send)
  <2>1. Pass /\ clock \in Times /\ sends # <<>>
    BY <1>6 DEF Deliver, TypeOK
  <2>2. clock' \in Times
    BY <2>1, PassFacts
  <2>3. send \in SendType /\ send.nick \in Nicks /\ send.for \in Persons /\ send.left \in BOOLEAN
    BY <1>0, <2>1 DEF SendType
  <2>4. sends' \in Seq(SendType)
    BY <1>0, <1>6, <2>1 DEF Deliver
  <2>5. r.id \in Nicks
    <3>1. redirects[send.nick] \in Seq(Era)
      BY <2>3 DEF TypeOK
    <3>2. EraAt(send.nick, send.at) # 0 => EraAt(send.nick, send.at) \in 1..Len(redirects[send.nick])
      <4> DEFINE I == {i \in 1..Len(redirects[send.nick]) :
                         /\ Age(redirects[send.nick][i].ended) < TTL
                         /\ redirects[send.nick][i].started <= send.at
                         /\ send.at <= redirects[send.nick][i].ended}
      <4>1. EraAt(send.nick, send.at) = IF I # {} THEN Min(I) ELSE 0
        BY DEF EraAt, SelectInSeq
      <4>2. I \in SUBSET (1..Len(redirects[send.nick])) /\ Len(redirects[send.nick]) \in Nat
        BY <3>1
      <4>3. ASSUME I # {} PROVE Min(I) \in 1..Len(redirects[send.nick])
        <5> HIDE DEF I, send
        <5> QED BY <4>2, <4>3, MinInside
      <4> QED BY <4>1, <4>3
    <3> QED BY <2>3, <3>1, <3>2, EraFacts DEF RedirectedBufferId
  <2>6. inFlight' \in [Nicks -> Seq(Times)]
    <3>1. inFlight' = [inFlight EXCEPT ![r.id] = IF @ = <<>> THEN @ ELSE Tail(@)]
      BY <1>6 DEF Deliver
    <3>2. (IF inFlight[r.id] = <<>> THEN inFlight[r.id] ELSE Tail(inFlight[r.id])) \in Seq(Times)
      BY <2>5 DEF TypeOK
    <3> HIDE DEF r
    <3> QED BY <3>1, <3>2 DEF TypeOK
  <2>7. sent' \subseteq SentType
    <3>1. target # NoOne => target \in Nicks
      BY <2>3, <2>5 DEF RedirectOutgoingDeliver
    <3>2. sent' = IF target = NoOne \/ Age(send.at) >= Timeout THEN sent
                  ELSE sent \cup {[for |-> send.for, reached |-> owner[target], left |-> send.left]}
      BY <1>6 DEF Deliver
    <3>3. target # NoOne =>
            [for |-> send.for, reached |-> owner[target], left |-> send.left] \in SentType
      <4> HIDE DEF target, send
      <4> QED BY <2>3, <3>1 DEF SentType, TypeOK
    <3> HIDE DEF target, send
    <3> QED BY <1>0, <3>2, <3>3
  <2>8. ErasOrdered'
    BY <1>0, <1>6, <2>1, ErasOrderedKept DEF Deliver
  <2> QED BY <1>6, <2>2, <2>4, <2>6, <2>7, <2>8 DEF Deliver, TypeOK, SendType, SentType
<1>7. ASSUME Elapse PROVE EraInv'
  <2>1. Pass /\ clock \in Times
    BY <1>7 DEF Elapse, TypeOK
  <2>2. clock' \in Times
    BY <2>1, PassFacts
  <2>3. ErasOrdered'
    BY <1>0, <1>7, <2>1, ErasOrderedKept DEF Elapse
  <2> QED BY <1>7, <2>2, <2>3 DEF Elapse, TypeOK
<1>8. ASSUME UNCHANGED vars PROVE EraInv'
  BY <1>8 DEF vars, TypeOK, ErasOrdered, Ordered
<1> QED BY <1>1, <1>2, <1>3, <1>4, <1>5, <1>6, <1>7, <1>8 DEF Next

\* The eras of OutgoingRedirect: every reachable state is well typed, and the
\* eras of an id stand in order (rekey_buffer_state).
THEOREM RedirectEras == Spec => []EraInv
<1>1. Init => EraInv
  BY EraInvInit
<1>2. EraInv /\ [Next]_vars => EraInv'
  BY EraInvNext
<1> QED BY <1>1, <1>2, PTL DEF Spec

\* The eras of one id do not overlap: an instant belongs to one occupant of a
\* nick, however often it changes hands and whatever the cap and the timeout
\* drop (rekey_buffer_state).
THEOREM RedirectErasDisjoint == Spec => []ErasDisjoint
<1>1. EraInv => ErasDisjoint
  BY DEF EraInv, ErasOrdered, Ordered, ErasDisjoint
<1> QED BY <1>1, RedirectEras, PTL

\* Every reachable state is well typed (the tables of AppState).
THEOREM RedirectTypeOK == Spec => []TypeOK
<1>1. EraInv => TypeOK
  BY DEF EraInv
<1> QED BY <1>1, RedirectEras, PTL

-----------------------------------------------------------------------------
(* Where a conversation goes on.                                           *)

\* An instant that is not a boundary belongs to one era, which says where the
\* conversation went.
LEMMA HomeUnique ==
  ASSUME NEW eras \in Seq(Era), NEW now, Ordered(eras, now), NEW at \in Int,
         \A k \in 1..Len(eras) : eras[k].ended # at,
         NEW nick, NEW i \in CoveredBy(eras, at)
  PROVE  CoveredBy(eras, at) = {i} /\ HomeBy(eras, nick, at) = eras[i].target
<1>1. \A k \in 1..Len(eras) : eras[k].started \in Int /\ eras[k].ended \in Int
  BY EraFacts
<1>2. ASSUME NEW j \in CoveredBy(eras, at), NEW k \in CoveredBy(eras, at), j < k
      PROVE  FALSE
  <2>1. /\ j \in 1..Len(eras) /\ k \in 1..Len(eras)
        /\ at <= eras[j].ended /\ eras[k].started <= at
    BY DEF CoveredBy, Covers
  <2>2. eras[j].ended <= eras[k].started
    BY <2>1, <1>2 DEF Ordered
  <2> QED BY <2>1, <2>2, <1>1
<1>3. \A j, k \in CoveredBy(eras, at) : j \in Int /\ k \in Int
  BY DEF CoveredBy
<1>4. CoveredBy(eras, at) = {i}
  BY <1>2, <1>3
<1> QED BY <1>4 DEF HomeBy

\* Every send is typed, and its own list of eras is in order.
LEMMA SendFacts ==
  ASSUME TypeOK, ErasOrdered, NEW i \in 1..Len(sends)
  PROVE  /\ sends[i].nick \in Nicks /\ sends[i].at \in Times /\ sends[i].at \in Int
         /\ sends[i].for \in Persons /\ sends[i].left \in BOOLEAN
         /\ redirects[sends[i].nick] \in Seq(Era)
         /\ Ordered(redirects[sends[i].nick], clock)
         /\ Home(sends[i]) \in Nicks
<1>1. sends \in Seq(SendType)
  BY DEF TypeOK, SendType
<1>2. sends[i] \in SendType
  BY <1>1
<1>3. /\ sends[i].nick \in Nicks /\ sends[i].at \in Times
      /\ sends[i].for \in Persons /\ sends[i].left \in BOOLEAN
  BY <1>2 DEF SendType
<1> DEFINE eras == redirects[sends[i].nick]
<1>4. eras \in Seq(Era) /\ Ordered(eras, clock)
  BY <1>3 DEF TypeOK, ErasOrdered
<1>5. Home(sends[i]) \in Nicks
  <2>1. \A k \in CoveredBy(eras, sends[i].at) : eras[k].target \in Nicks
    BY <1>4, EraFacts DEF CoveredBy
  <2> QED BY <2>1, <1>3 DEF Home, HomeBy
<1> QED BY <1>3, <1>4, <1>5, EraFacts

\* While the history outlives the sends, redirected_buffer_id finds the nick a
\* conversation goes on under, and says whether it moved.
LEMMA ResolveHome ==
  ASSUME TypeOK, ErasOrdered, SendsPlaced, Pass, Timeout < TTL, NEW i \in 1..Len(sends)
  PROVE  LET r == RedirectedBufferId(sends[i].nick, sends[i].at)
         IN  r.id = Home(sends[i]) /\ r.to \in {"moved", "stays", "unknown"}
<1> DEFINE n == sends[i].nick
           at == sends[i].at
           eras == redirects[n]
           I == {k \in 1..Len(eras) : Age(eras[k].ended) < TTL /\ Covers(eras[k], at)}
<1>1. n \in Nicks /\ at \in Int /\ eras \in Seq(Era) /\ Ordered(eras, clock)
  BY SendFacts
<1>2. clock \in Int /\ Age(at) <= Timeout /\ Timeout \in Int /\ TTL \in Int
  BY EraFacts, TimesAssumption DEF TypeOK, Pass
<1>3. I = CoveredBy(eras, at)
  <2>1. ASSUME NEW k \in 1..Len(eras), Covers(eras[k], at) PROVE Age(eras[k].ended) < TTL
    <3>1. eras[k].ended \in Int /\ at <= eras[k].ended
      BY <1>1, <2>1, EraFacts DEF Covers
    <3> QED BY <3>1, <1>1, <1>2 DEF Age
  <2> QED BY <2>1 DEF CoveredBy
<1>4. EraAt(n, at) = IF I # {} THEN Min(I) ELSE 0
  BY DEF EraAt, SelectInSeq, Covers
<1>5. CASE CoveredBy(eras, at) = {}
  <2>1. EraAt(n, at) = 0 /\ Home(sends[i]) = n
    BY <1>3, <1>4, <1>5 DEF Home, HomeBy
  <2> QED BY <2>1 DEF RedirectedBufferId
<1>6. CASE CoveredBy(eras, at) # {}
  <2>1. Len(eras) \in Nat /\ I \in SUBSET (1..Len(eras)) /\ I # {}
    BY <1>1, <1>3, <1>6
  <2>2. Min(I) \in CoveredBy(eras, at)
    <3> HIDE DEF I
    <3> QED BY <2>1, <1>3, MinInside
  <2>3. Home(sends[i]) = eras[Min(I)].target
    <3>1. \A k \in 1..Len(eras) : eras[k].ended # at
      BY <1>1 DEF SendsPlaced
    <3> HIDE DEF I
    <3> QED BY <1>1, <2>2, <3>1, HomeUnique DEF Home
  <2>4. EraAt(n, at) = Min(I) /\ Min(I) # 0 /\ eras # <<>>
    <3> HIDE DEF I
    <3> QED BY <2>1, <2>2, <1>1, <1>4 DEF CoveredBy
  <2> HIDE DEF I, n, at
  <2>5. RedirectedBufferId(n, at) = [to |-> "moved", id |-> eras[EraAt(n, at)].target]
    BY <2>4 DEF RedirectedBufferId
  <2> QED BY <2>3, <2>4, <2>5 DEF n, at
<1> QED BY <1>5, <1>6

\* What rekey_buffer_state has in hand before it retains: the eras of before,
\* repointed, and the one it closes; the cap costs at most the oldest one.
LEMMA SourceElements ==
  ASSUME TypeOK, ErasOrdered, NEW old \in Nicks, NEW new \in Nicks, NEW n \in Nicks
  PROVE  /\ \A j \in 1..Len(Source(old, new, n)) :
              \/ \E k \in 1..Len(redirects[n]) : Source(old, new, n)[j] = Repointed(old, new)[n][k]
              \/ n = old /\ Source(old, new, n)[j] = Closed(old, new)[Len(redirects[n]) + 1]
         /\ \A k \in 1..Len(redirects[n]) : n # old \/ Len(redirects[n]) < MaxEras \/ k # 1 =>
              \E j \in 1..Len(Source(old, new, n)) :
                Source(old, new, n)[j] = Repointed(old, new)[n][k]
         /\ n = old => \E j \in 1..Len(Source(old, new, n)) :
              Source(old, new, n)[j] = Closed(old, new)[Len(redirects[n]) + 1]
<1> DEFINE before == Repointed(old, new)[n]
           L == Len(redirects[n])
           c == Closed(old, new)
<1>1. L \in Nat /\ L <= MaxEras /\ Len(before) = L /\ MaxEras \in Nat /\ MaxEras >= 1
  BY RepointedFacts, TimesAssumption DEF TypeOK
<1>2. CASE n # old
  <2>1. Source(old, new, n) = before
    BY <1>2 DEF Source
  <2> QED BY <1>1, <1>2, <2>1
<1>3. CASE n = old
  <2>1. /\ c \in Seq(Era) /\ Len(c) = L + 1 /\ Ordered(c, clock + 1) /\ clock + 1 \in Int
        /\ \A k \in 1..L : c[k] = before[k]
    BY <1>3, ClosedFacts, EraFacts DEF TypeOK
  <2>2. Source(old, new, n) = Capped(c)
    BY <1>3 DEF Source
  <2> HIDE DEF c, before, L
  <2>3. CASE L < MaxEras
    <3>1. Capped(c) = c
      BY <2>1, <2>3, <1>1, CappedFacts
    <3>2. \A j \in 1..(L + 1) : j \in 1..L \/ j = L + 1
      BY <1>1
    <3>3. L + 1 \in 1..(L + 1) /\ \A k \in 1..L : k \in 1..(L + 1)
      BY <1>1
    <3>4. Len(Capped(c)) = L + 1 /\ Source(old, new, n) = c
      BY <3>1, <2>1, <2>2
    <3>5. \A j \in 1..(L + 1) : (\E k \in 1..L : c[j] = before[k]) \/ c[j] = c[L + 1]
      BY <3>2, <2>1
    <3>6. \A k \in 1..L : \E j \in 1..(L + 1) : c[j] = before[k]
      BY <3>3, <2>1
    <3>7. /\ \A j \in 1..Len(Source(old, new, n)) :
               (\E k \in 1..L : Source(old, new, n)[j] = before[k]) \/ Source(old, new, n)[j] = c[L + 1]
          /\ \A k \in 1..L : \E j \in 1..Len(Source(old, new, n)) : Source(old, new, n)[j] = before[k]
          /\ \E j \in 1..Len(Source(old, new, n)) : Source(old, new, n)[j] = c[L + 1]
      <4> DEFINE s == Source(old, new, n)
      <4>1. Len(s) = L + 1 /\ s = c
        BY <3>4, <2>1
      <4> HIDE DEF s
      <4>2. \A j \in 1..Len(s) : (\E k \in 1..L : s[j] = before[k]) \/ s[j] = c[L + 1]
        BY <4>1, <3>5
      <4>3. \A k \in 1..L : \E j \in 1..Len(s) : s[j] = before[k]
        BY <4>1, <3>6
      <4>4. \E j \in 1..Len(s) : s[j] = c[L + 1]
        BY <4>1, <3>3
      <4> QED BY <4>2, <4>3, <4>4 DEF s
    <3> QED BY <3>7, <1>3, Zenon DEF c, before, L
  <2>4. CASE L = MaxEras
    <3>1. Len(Capped(c)) = L /\ \A i \in 1..L : Capped(c)[i] = c[i + 1]
      BY <2>1, <2>4, <1>1, CappedFacts
    <3>2. \A i \in 1..L : i + 1 \in 1..L \/ i + 1 = L + 1
      BY <1>1
    <3>3. \A i \in 1..L : (\E k \in 1..L : Capped(c)[i] = before[k]) \/ Capped(c)[i] = c[L + 1]
      BY <3>1, <3>2, <2>1
    <3>4. L \in 1..L /\ Capped(c)[L] = c[L + 1]
      BY <3>1, <1>1, <2>4
    <3>5. ASSUME NEW k \in 1..L, k # 1 PROVE \E j \in 1..L : Capped(c)[j] = before[k]
      <4>1. k - 1 \in 1..L /\ (k - 1) + 1 = k
        BY <3>5, <1>1
      <4> QED BY <4>1, <3>1, <2>1
    <3>6. \A k \in 1..L : n # old \/ L < MaxEras \/ k # 1 =>
            \E j \in 1..L : Capped(c)[j] = before[k]
      BY <3>5, <1>1, <1>3, <2>4
    <3>7. \E j \in 1..L : Capped(c)[j] = c[L + 1]
      BY <3>4
    <3>8. Len(Source(old, new, n)) = L /\ Source(old, new, n) = Capped(c)
      BY <3>1, <2>2
    <3>9. /\ \A j \in 1..Len(Source(old, new, n)) :
               (\E k \in 1..L : Source(old, new, n)[j] = before[k]) \/ Source(old, new, n)[j] = c[L + 1]
          /\ \A k \in 1..L : n # old \/ L < MaxEras \/ k # 1 =>
               \E j \in 1..Len(Source(old, new, n)) : Source(old, new, n)[j] = before[k]
          /\ \E j \in 1..Len(Source(old, new, n)) : Source(old, new, n)[j] = c[L + 1]
      <4> DEFINE s == Source(old, new, n)
      <4>1. Len(s) = L /\ s = Capped(c)
        BY <3>8
      <4> HIDE DEF s
      <4>2. \A j \in 1..Len(s) : (\E k \in 1..L : s[j] = before[k]) \/ s[j] = c[L + 1]
        BY <4>1, <3>3
      <4>3. \A k \in 1..L : n # old \/ L < MaxEras \/ k # 1 =>
              \E j \in 1..Len(s) : s[j] = before[k]
        BY <4>1, <3>6
      <4>4. \E j \in 1..Len(s) : s[j] = c[L + 1]
        BY <4>1, <3>7
      <4> QED BY <4>2, <4>3, <4>4 DEF s
    <3> QED BY <3>9, <1>3, Zenon DEF c, before, L
  <2> QED BY <2>3, <2>4, <1>1
<1> QED BY <1>2, <1>3

\* A rename moves the conversations that were under the old nick, and no
\* others, if the cap forgets no era that a send may need (rekey_buffer_state).
LEMMA RekeyHome ==
  ASSUME EraInv, SendsPlaced, RoomForEras, Pass, Timeout < TTL,
         NEW old \in Nicks, NEW new \in Nicks, NEW i \in 1..Len(sends),
         redirects' = RekeyRedirects(old, new)
  PROVE  LET n == sends[i].nick
             at == sends[i].at
         IN  /\ HomeBy(redirects'[n], n, at) = IF Home(sends[i]) = old THEN new ELSE Home(sends[i])
             /\ \A m \in Nicks : \A k \in 1..Len(redirects'[m]) : redirects'[m][k].ended # at
             /\ CoveredBy(redirects'[n], at) = {} =>
                  \A k \in 1..Len(redirects'[n]) : redirects'[n][k].ended < at
<1> DEFINE n == sends[i].nick
           at == sends[i].at
           h == Home(sends[i])
<1>0. TypeOK /\ ErasOrdered
  BY DEF EraInv
<1>1. /\ n \in Nicks /\ at \in Int /\ clock \in Int /\ clock \in Times /\ at < clock
      /\ Age(at) <= Timeout /\ Timeout \in Int /\ TTL \in Int
  <2>1. n \in Nicks /\ at \in Int
    BY <1>0, SendFacts
  <2>2. clock \in Times /\ clock \in Int /\ Timeout \in Int /\ TTL \in Int
    BY <1>0, EraFacts, TimesAssumption DEF TypeOK
  <2>3. at < clock /\ Age(at) <= Timeout
    BY DEF Pass, SendsPlaced
  <2> QED BY <2>1, <2>2, <2>3
<1> HIDE DEF n, at
<1>2. ASSUME NEW m \in Nicks
      PROVE  LET src == Source(old, new, m)
                 r == redirects'[m]
             IN  /\ src \in Seq(Era) /\ r \in Seq(Era) /\ Ordered(r, clock + 1)
                 /\ \A j \in 1..Len(r) : \E k \in 1..Len(src) : r[j] = src[k]
                 /\ \A k \in 1..Len(src) : Age(src[k].ended) < TTL =>
                      \E j \in 1..Len(r) : r[j] = src[k]
  <2> DEFINE src == Source(old, new, m)
  <2>1. src \in Seq(Era) /\ Ordered(src, clock + 1) /\ redirects'[m] = Retained(src)
    BY <1>0, SourceFacts
  <2> HIDE DEF src
  <2>2. /\ Retained(src) \in Seq(Era)
        /\ \A j \in 1..Len(Retained(src)) : \E k \in 1..Len(src) : Retained(src)[j] = src[k]
        /\ \A k \in 1..Len(src) : Age(src[k].ended) < TTL =>
             \E j \in 1..Len(Retained(src)) : Retained(src)[j] = src[k]
    BY <2>1, <1>1, RetainedFacts
  <2>3. Ordered(Retained(src), clock + 1)
    BY <2>1, <1>1, RetainedOrdered
  <2> QED BY <2>1, <2>2, <2>3 DEF src
\* An era that is kept ended where an era of before did, or now.
<1>3. ASSUME NEW m \in Nicks, NEW j \in 1..Len(redirects'[m])
      PROVE  \/ \E k \in 1..Len(redirects[m]) :
                  /\ redirects'[m][j].started = redirects[m][k].started
                  /\ redirects'[m][j].ended = redirects[m][k].ended
             \/ m = old /\ redirects'[m][j].ended = clock
  <2> DEFINE src == Source(old, new, m)
  <2>1. PICK k \in 1..Len(src) : redirects'[m][j] = src[k]
    BY <1>2
  <2>2. \/ \E l \in 1..Len(redirects[m]) : src[k] = Repointed(old, new)[m][l]
        \/ m = old /\ src[k] = Closed(old, new)[Len(redirects[m]) + 1]
    <3> HIDE DEF n, at, h
    <3>1. \A e \in 1..Len(Source(old, new, m)) :
              \/ \E l \in 1..Len(redirects[m]) : Source(old, new, m)[e] = Repointed(old, new)[m][l]
              \/ m = old /\ Source(old, new, m)[e] = Closed(old, new)[Len(redirects[m]) + 1]
      BY <1>0, SourceElements, Zenon
    <3> QED BY <3>1
  <2>3. CASE \E l \in 1..Len(redirects[m]) : src[k] = Repointed(old, new)[m][l]
    BY <1>0, <2>1, <2>3, RepointedFacts
  <2>4. CASE m = old /\ src[k] = Closed(old, new)[Len(redirects[m]) + 1]
    BY <1>0, <2>1, <2>4, ClosedFacts
  <2> QED BY <2>2, <2>3, <2>4
<1>4. \A m \in Nicks : \A k \in 1..Len(redirects'[m]) : redirects'[m][k].ended # at
  <2> SUFFICES ASSUME NEW m \in Nicks, NEW k \in 1..Len(redirects'[m])
               PROVE  redirects'[m][k].ended # at
    OBVIOUS
  <2>1. \A l \in 1..Len(redirects[m]) : redirects[m][l].ended # at
    BY DEF SendsPlaced, at
  <2>2. clock # at
    BY <1>1
  <2>3. \/ \E l \in 1..Len(redirects[m]) : redirects'[m][k].ended = redirects[m][l].ended
        \/ redirects'[m][k].ended = clock
    BY <1>3
  <2> QED BY <2>1, <2>2, <2>3
<1> DEFINE eras == redirects[n]
           r == redirects'[n]
<1>5. eras \in Seq(Era) /\ Ordered(eras, clock) /\ h \in Nicks
      /\ \A k \in 1..Len(eras) : eras[k].ended # at
  BY <1>0, SendFacts DEF n, at, SendsPlaced
<1>6. h = HomeBy(eras, n, at)
  BY DEF Home, n, at
<1>7. r \in Seq(Era) /\ Ordered(r, clock + 1) /\ \A k \in 1..Len(r) : r[k].ended # at
  BY <1>1, <1>2, <1>4
<1>8. \A k \in 1..Len(eras) : eras[k].started \in Int /\ eras[k].ended \in Int
  BY <1>5, EraFacts
\* An era about the send is still there, repointed.
<1>9. ASSUME NEW k \in CoveredBy(eras, at)
      PROVE  \E j \in CoveredBy(r, at) :
               r[j].target = IF eras[k].target = old THEN new ELSE eras[k].target
  <2> DEFINE src == Source(old, new, n)
             e == Repointed(old, new)[n][k]
  <2>1. k \in 1..Len(eras) /\ eras[k].started <= at /\ at <= eras[k].ended
    BY DEF CoveredBy, Covers
  <2>2. /\ e.started = eras[k].started /\ e.ended = eras[k].ended
        /\ e.target = IF eras[k].target = old THEN new ELSE eras[k].target
    BY <1>0, <1>1, <2>1, RepointedFacts
  <2>3. Len(eras) < MaxEras \/ k # 1
    <3>1. Len(eras) < MaxEras \/ eras[1].ended < at
      BY <1>1 DEF RoomForEras, n, at
    <3>2. eras[1].ended < at => k # 1
      BY <2>1, <1>8, <1>1
    <3> QED BY <3>1, <3>2
  <2>4. PICK l \in 1..Len(src) : src[l] = e
    <3>1. \A q \in 1..Len(redirects[n]) : n # old \/ Len(redirects[n]) < MaxEras \/ q # 1 =>
            \E j \in 1..Len(Source(old, new, n)) :
              Source(old, new, n)[j] = Repointed(old, new)[n][q]
      BY <1>0, <1>1, SourceElements, Zenon
    <3> QED BY <3>1, <2>1, <2>3
  <2>5. Age(e.ended) < TTL
    BY <2>1, <2>2, <1>8, <1>1 DEF Age
  <2>6. PICK j \in 1..Len(r) : r[j] = e
    <3> HIDE DEF e, src, eras
    <3> QED BY <2>4, <2>5, <1>1, <1>2 DEF src
  <2>7. j \in CoveredBy(r, at)
    <3> HIDE DEF e, r, eras
    <3> QED BY <2>1, <2>2, <2>6 DEF CoveredBy, Covers
  <2> HIDE DEF r
  <2> QED BY <2>2, <2>6, <2>7
<1>10. CASE CoveredBy(eras, at) # {}
  <2>1. PICK k \in CoveredBy(eras, at) : TRUE
    BY <1>10
  <2>2. PICK j \in CoveredBy(r, at) :
               r[j].target = IF eras[k].target = old THEN new ELSE eras[k].target
    BY <1>9
  <2> HIDE DEF r, eras, h
  <2>3. h = eras[k].target
    BY <1>1, <1>5, <1>6, HomeUnique
  <2>4. HomeBy(r, n, at) = r[j].target
    BY <1>1, <1>7, HomeUnique
  <2>5. CoveredBy(r, at) # {}
    BY <2>2
  <2> QED BY <2>2, <2>3, <2>4, <2>5, <1>4 DEF r, h, n, at
<1>11. CASE CoveredBy(eras, at) = {} /\ n = old
  <2> DEFINE src == Source(old, new, n)
             e == Closed(old, new)[Len(eras) + 1]
  <2>1. h = old
    BY <1>6, <1>11 DEF HomeBy
  <2>2. /\ e.target = new /\ e.ended = clock
        /\ e.started = IF eras = <<>> THEN Never ELSE eras[Len(eras)].ended
    BY <1>0, <1>11, ClosedFacts
  <2>3. e.started <= at
    <3>1. CASE eras = <<>>
      <4>1. at >= 0
        BY <1>0, SendFacts DEF at, Times
      <4> QED BY <4>1, <3>1, <2>2, <1>1 DEF Never
    <3>2. CASE eras # <<>>
      <4>1. Len(eras) \in 1..Len(eras)
        BY <3>2, <1>5
      <4>2. eras[Len(eras)].ended < at
        BY <4>1, <1>11 DEF SendsPlaced, n, at
      <4> QED BY <3>2, <4>1, <4>2, <2>2, <1>1, <1>8
    <3> QED BY <3>1, <3>2
  <2>4. PICK l \in 1..Len(src) : src[l] = e
    <3>1. old = old => \E j \in 1..Len(Source(old, new, old)) :
            Source(old, new, old)[j] = Closed(old, new)[Len(redirects[old]) + 1]
      BY <1>0, SourceElements, Zenon
    <3>2. n = old
      BY <1>11
    <3> QED BY <3>1, <3>2
  <2>5. Age(e.ended) < TTL
    BY <2>2, <1>1, TimesAssumption DEF Age
  <2>6. PICK j \in 1..Len(r) : r[j] = e
    <3> HIDE DEF e, src, eras
    <3> QED BY <2>4, <2>5, <1>1, <1>2 DEF src
  <2>7. j \in CoveredBy(r, at)
    <3> HIDE DEF e, r, eras
    <3> QED BY <2>2, <2>3, <2>6, <1>1 DEF CoveredBy, Covers
  <2> HIDE DEF r, eras, h
  <2>8. HomeBy(r, n, at) = new
    BY <1>1, <1>7, <2>2, <2>6, <2>7, HomeUnique
  <2>9. CoveredBy(r, at) # {}
    BY <2>7
  <2> QED BY <2>1, <2>8, <2>9, <1>4 DEF r, h, n, at
<1>12. CASE CoveredBy(eras, at) = {} /\ n # old
  <2>1. h = n
    BY <1>6, <1>12 DEF HomeBy
  <2>2. ASSUME NEW j \in 1..Len(r)
        PROVE  \E k \in 1..Len(eras) : r[j].started = eras[k].started /\ r[j].ended = eras[k].ended
    BY <1>1, <1>3, <1>12
  <2>3. \A k \in 1..Len(eras) : eras[k].ended < at
    BY <1>12 DEF SendsPlaced, n, at
  <2> HIDE DEF r, eras, h
  <2>4. \A j \in 1..Len(r) : r[j].ended < at
    BY <2>2, <2>3
  <2>5. CoveredBy(r, at) = {}
    <3>1. \A k \in 1..Len(eras) : ~Covers(eras[k], at)
      BY <1>12 DEF CoveredBy
    <3> QED BY <3>1, <2>2 DEF CoveredBy, Covers
  <2>6. HomeBy(r, n, at) = n
    BY <2>5 DEF HomeBy
  <2> QED BY <2>1, <2>4, <2>6, <1>4, <1>12 DEF r, h, n, at
<1> QED BY <1>10, <1>11, <1>12

-----------------------------------------------------------------------------
(* Each handler keeps the invariant.                                       *)

\* All but the types and the order of the eras.
People == OneNickEach /\ SendsPlaced /\ HomesOwned /\ MarkersKept /\ RenamesFollowed

\* A handler that leaves eras, markers and sends alone, and takes no nick away
\* from somebody who is written to.
LEMMA QuietStep ==
  ASSUME RedirectInv, clock' \in Int, clock' >= clock, OneNickEach',
         UNCHANGED <<redirects, inFlight, sends, sent>>,
         \A i \in 1..Len(sends) : ~sends[i].left => owner'[Home(sends[i])] = owner[Home(sends[i])]
  PROVE  People'
<1>1. /\ TypeOK /\ ErasOrdered /\ SendsPlaced /\ HomesOwned /\ MarkersKept /\ RenamesFollowed
      /\ clock \in Int
  BY EraFacts DEF RedirectInv, EraInv, TypeOK
<1>2. SendsPlaced'
  <2>1. \A i \in 1..Len(sends) : sends[i].at \in Int
    BY <1>1, SendFacts
  <2>2. \A i \in 1..Len(sends) : sends[i].at < clock'
    BY <1>1, <2>1 DEF SendsPlaced
  <2> QED BY <1>1, <2>2 DEF SendsPlaced
<1>3. HomesOwned'
  BY <1>1 DEF HomesOwned, Home
<1>4. MarkersKept'
  BY <1>1 DEF MarkersKept, MarkerOf, Home
<1>5. RenamesFollowed'
  BY <1>1 DEF RenamesFollowed
<1> QED BY <1>2, <1>3, <1>4, <1>5 DEF People

\* A new send is under the nick it is addressed to, and its marker is the last.
LEMMA SubmitStep ==
  ASSUME RedirectInv, NEW n \in Nicks, Submit(n)
  PROVE  People'
<1> DEFINE L == Len(sends)
           new == [nick |-> n, at |-> clock, for |-> owner[n], left |-> FALSE]
<1>1. /\ TypeOK /\ ErasOrdered /\ OneNickEach /\ SendsPlaced /\ HomesOwned /\ MarkersKept
      /\ RenamesFollowed /\ Pass
  BY DEF RedirectInv, EraInv, Submit
<1>2. clock' = clock + 1 /\ clock \in Int /\ clock \in Times
  BY <1>1, PassFacts DEF TypeOK
<1>3. /\ L \in Nat /\ Len(sends') = L + 1 /\ sends'[L + 1] = new
      /\ \A i \in 1..L : sends'[i] = sends[i]
      /\ \A i \in 1..(L + 1) : i \in 1..L \/ i = L + 1
  BY <1>1 DEF Submit, TypeOK
<1>4. \A i \in 1..L : sends[i].at \in Int /\ Home(sends[i]) \in Nicks
  BY <1>1, SendFacts
<1>5. /\ redirects' = redirects /\ owner' = owner /\ sent' = sent
      /\ inFlight' = [inFlight EXCEPT ![n] = Append(@, clock)]
  BY DEF Submit
<1>6. \A m \in Nicks : \A k \in 1..Len(redirects[m]) :
        redirects[m][k].ended \in Int /\ redirects[m][k].ended < clock
  <2> SUFFICES ASSUME NEW m \in Nicks, NEW k \in 1..Len(redirects[m])
               PROVE  redirects[m][k].ended \in Int /\ redirects[m][k].ended < clock
    OBVIOUS
  <2>1. redirects[m] \in Seq(Era) /\ Ordered(redirects[m], clock)
    BY <1>1 DEF TypeOK, ErasOrdered
  <2> QED BY <2>1, EraFacts DEF Ordered
<1>7. CoveredBy(redirects[n], clock) = {} /\ HomeBy(redirects[n], n, clock) = n
  BY <1>2, <1>6 DEF CoveredBy, Covers, HomeBy
<1>8. SendsPlaced'
  <2> SUFFICES ASSUME NEW i \in 1..(L + 1)
               PROVE  /\ sends'[i].at < clock'
                      /\ \A m \in Nicks : \A k \in 1..Len(redirects[m]) :
                           redirects[m][k].ended # sends'[i].at
                      /\ CoveredBy(redirects[sends'[i].nick], sends'[i].at) = {} =>
                           \A k \in 1..Len(redirects[sends'[i].nick]) :
                             redirects[sends'[i].nick][k].ended < sends'[i].at
    BY <1>3, <1>5 DEF SendsPlaced
  <2>1. CASE i = L + 1
    <3>1. sends'[i].nick = n /\ sends'[i].at = clock
      BY <2>1, <1>3
    <3>2. clock < clock' /\ \A m \in Nicks : \A k \in 1..Len(redirects[m]) : redirects[m][k].ended # clock
      BY <1>2, <1>6
    <3> QED BY <3>1, <3>2, <1>6
  <2>2. CASE i \in 1..L
    <3>1. sends[i].at < clock'
      BY <2>2, <1>1, <1>2, <1>4 DEF SendsPlaced
    <3> QED BY <2>2, <3>1, <1>1, <1>3 DEF SendsPlaced
  <2> QED BY <2>1, <2>2, <1>3
<1> DEFINE home(i) == HomeBy(redirects[sends'[i].nick], sends'[i].nick, sends'[i].at)
<1>9. home(L + 1) = n /\ \A i \in 1..L : home(i) = Home(sends[i])
  BY <1>3, <1>7 DEF Home
<1>10. HomesOwned'
  <2>1. ASSUME NEW i \in 1..(L + 1), ~sends'[i].left PROVE owner[home(i)] = sends'[i].for
    <3>1. CASE i = L + 1
      BY <3>1, <1>3, <1>9
    <3>2. CASE i \in 1..L
      <4> HIDE DEF home
      <4> QED BY <2>1, <3>2, <1>1, <1>3, <1>9 DEF HomesOwned
    <3> QED BY <3>1, <3>2, <1>3
  <2> QED BY <2>1, <1>3, <1>5 DEF HomesOwned, Home
<1>11. MarkersKept'
  <2>1. PICK slot \in [1..L -> Nat \ {0}] : MarkerOf(slot)
    BY <1>1 DEF MarkersKept
  <2> DEFINE last == Len(inFlight[n]) + 1
  <2>2. inFlight[n] \in Seq(Times) /\ last \in Nat \ {0}
    BY <1>1 DEF TypeOK
  <2>3. PICK more \in [1..(L + 1) -> Nat \ {0}] :
          more[L + 1] = last /\ \A i \in 1..L : more[i] = slot[i]
    <3> DEFINE m == [i \in 1..(L + 1) |-> IF i = L + 1 THEN last ELSE slot[i]]
    <3>1. m \in [1..(L + 1) -> Nat \ {0}] /\ m[L + 1] = last /\ \A i \in 1..L : m[i] = slot[i]
      BY <2>2, <1>3
    <3> QED BY <3>1
  <2>4. /\ Len(inFlight'[n]) = last /\ inFlight'[n][last] = clock
        /\ \A k \in 1..Len(inFlight[n]) : k \in 1..last /\ inFlight'[n][k] = inFlight[n][k]
        /\ \A m \in Nicks : m # n => inFlight'[m] = inFlight[m]
    BY <1>1, <1>2, <1>5, <2>2 DEF TypeOK
  <2> HIDE DEF home, last
  <2>5. ASSUME NEW i \in 1..(L + 1)
        PROVE  /\ more[i] \in 1..Len(inFlight'[home(i)])
               /\ ~sends'[i].left => inFlight'[home(i)][more[i]] = sends'[i].at
    <3>1. CASE i = L + 1
      BY <3>1, <2>2, <2>3, <2>4, <1>3, <1>9
    <3>2. CASE i \in 1..L
      <4>1. /\ slot[i] \in 1..Len(inFlight[home(i)])
            /\ ~sends[i].left => inFlight[home(i)][slot[i]] = sends[i].at
            /\ home(i) \in Nicks
        BY <3>2, <2>1, <1>4, <1>9 DEF MarkerOf
      <4>2. CASE home(i) = n
        BY <3>2, <4>1, <4>2, <2>3, <2>4, <1>3
      <4>3. CASE home(i) # n
        BY <3>2, <4>1, <4>3, <2>3, <2>4, <1>3
      <4> QED BY <4>2, <4>3
    <3> QED BY <3>1, <3>2, <1>3
  <2>6. ASSUME NEW i \in 1..(L + 1), NEW j \in 1..(L + 1), i # j, home(i) = home(j)
        PROVE  /\ more[i] # more[j]
               /\ ~sends'[j].left /\ (sends'[i].left \/ i < j) => more[i] < more[j]
    <3>1. CASE i \in 1..L /\ j \in 1..L
      BY <2>6, <3>1, <2>1, <2>3, <1>3, <1>9 DEF MarkerOf
    <3>2. CASE i \in 1..L /\ j = L + 1
      <4>1. slot[i] \in 1..Len(inFlight[n])
        BY <2>6, <3>2, <2>1, <1>9 DEF MarkerOf
      <4> QED BY <4>1, <3>2, <2>3, <2>2 DEF last
    <3>3. CASE i = L + 1 /\ j \in 1..L
      <4>1. slot[j] \in 1..Len(inFlight[n])
        BY <2>6, <3>3, <2>1, <1>9 DEF MarkerOf
      <4>2. more[i] # more[j]
        BY <4>1, <3>3, <2>3, <2>2 DEF last
      <4>3. ~sends'[i].left /\ ~(i < j)
        BY <3>3, <1>3
      <4> QED BY <4>2, <4>3
    <3> QED BY <2>6, <3>1, <3>2, <3>3, <1>3
  <2>7. MarkerOf(more)'
    BY <2>5, <2>6, <1>3, <1>5 DEF MarkerOf, Home, home
  <2> QED BY <2>3, <2>7, <1>3 DEF MarkersKept
<1>12. OneNickEach' /\ RenamesFollowed'
  BY <1>1, <1>5 DEF OneNickEach, RenamesFollowed
<1> QED BY <1>8, <1>10, <1>11, <1>12 DEF People

\* The oldest send comes back: the marker cleared first in its buffer is its
\* own, or that of somebody who left, whose send then has the spare one.
LEMMA DeliverStep ==
  ASSUME RedirectInv, Timeout < TTL, Deliver
  PROVE  People'
<1> DEFINE send == Head(sends)
           L == Len(sends)
           r == RedirectedBufferId(send.nick, send.at)
           target == RedirectOutgoingDeliver(send)
           h == Home(send)
<1>1. /\ TypeOK /\ ErasOrdered /\ OneNickEach /\ SendsPlaced /\ HomesOwned /\ MarkersKept
      /\ RenamesFollowed /\ Pass /\ sends # <<>>
  BY DEF RedirectInv, EraInv, Deliver
<1>2. clock' = clock + 1 /\ clock \in Int
  BY <1>1, PassFacts DEF TypeOK
<1>3. /\ L \in Nat /\ L >= 1 /\ 1 \in 1..L /\ send = sends[1] /\ Len(sends') = L - 1
      /\ \A i \in 1..(L - 1) : i + 1 \in 1..L /\ sends'[i] = sends[i + 1]
  BY <1>1 DEF Deliver, TypeOK
<1>4. \A i \in 1..L : sends[i].at \in Int /\ Home(sends[i]) \in Nicks
  BY <1>1, SendFacts
<1>5. r.id = h /\ h \in Nicks
  BY <1>1, <1>3, <1>4, ResolveHome
<1>6. /\ redirects' = redirects /\ owner' = owner
      /\ inFlight' = [inFlight EXCEPT ![r.id] = IF @ = <<>> THEN @ ELSE Tail(@)]
      /\ sent' = IF target = NoOne \/ Age(send.at) >= Timeout THEN sent
                 ELSE sent \cup {[for |-> send.for, reached |-> owner[target], left |-> send.left]}
  BY DEF Deliver
<1>7. RenamesFollowed'
  <2>1. ASSUME target # NoOne, ~send.left PROVE owner[target] = send.for
    <3>1. target = h
      <4>1. r.to = "stays" => r.id = send.nick
        BY DEF RedirectedBufferId
      <4>2. target = r.id
        BY <2>1, <4>1 DEF RedirectOutgoingDeliver
      <4> QED BY <4>2, <1>5
    <3> QED BY <2>1, <3>1, <1>1, <1>3 DEF HomesOwned
  <2> HIDE DEF target, send
  <2>2. RenamesFollowed /\ (target # NoOne /\ ~send.left => owner[target] = send.for)
    BY <1>1, <2>1
  <2> QED BY <2>2, <1>6 DEF RenamesFollowed
<1> HIDE DEF r, target, send, h
<1>8. SendsPlaced'
  <2> SUFFICES ASSUME NEW i \in 1..(L - 1)
               PROVE  /\ sends'[i].at < clock'
                      /\ \A m \in Nicks : \A k \in 1..Len(redirects[m]) :
                           redirects[m][k].ended # sends'[i].at
                      /\ CoveredBy(redirects[sends'[i].nick], sends'[i].at) = {} =>
                           \A k \in 1..Len(redirects[sends'[i].nick]) :
                             redirects[sends'[i].nick][k].ended < sends'[i].at
    BY <1>3, <1>6 DEF SendsPlaced
  <2>1. i + 1 \in 1..L /\ sends'[i] = sends[i + 1]
    BY <1>3
  <2>2. sends[i + 1].at < clock'
    BY <2>1, <1>1, <1>2, <1>4 DEF SendsPlaced
  <2> QED BY <2>1, <2>2, <1>1 DEF SendsPlaced
<1> DEFINE home(i) == HomeBy(redirects[sends'[i].nick], sends'[i].nick, sends'[i].at)
<1>9. \A i \in 1..(L - 1) : home(i) = Home(sends[i + 1]) /\ home(i) \in Nicks
  BY <1>3, <1>4 DEF Home
<1>10. HomesOwned'
  <2>1. ASSUME NEW i \in 1..(L - 1), ~sends'[i].left PROVE owner[home(i)] = sends'[i].for
    <3> HIDE DEF home
    <3> QED BY <2>1, <1>1, <1>3, <1>9 DEF HomesOwned
  <2> QED BY <2>1, <1>3, <1>6 DEF HomesOwned, Home
<1>11. MarkersKept'
  <2>1. PICK slot \in [1..L -> Nat \ {0}] : MarkerOf(slot)
    BY <1>1 DEF MarkersKept
  <2>2. /\ h = Home(sends[1])
        /\ slot[1] \in 1..Len(inFlight[h]) /\ inFlight[h] \in Seq(Times)
    BY <2>1, <1>1, <1>3, <1>5 DEF MarkerOf, h, TypeOK
  <2>3. /\ Len(inFlight'[h]) = Len(inFlight[h]) - 1
        /\ \A k \in 1..(Len(inFlight[h]) - 1) : inFlight'[h][k] = inFlight[h][k + 1]
        /\ \A m \in Nicks : m # h => inFlight'[m] = inFlight[m]
    <3>1. inFlight[h] # <<>> /\ inFlight \in [Nicks -> Seq(Times)]
      BY <2>2, <1>1 DEF TypeOK
    <3>2. inFlight'[h] = Tail(inFlight[h]) /\ \A m \in Nicks : m # h => inFlight'[m] = inFlight[m]
      BY <3>1, <1>5, <1>6
    <3> QED BY <3>1, <3>2, <2>2
  \* whoever had the marker that is cleared takes the one of the send
  <2>4. PICK less \in [1..(L - 1) -> Nat \ {0}] :
          \A i \in 1..(L - 1) :
            less[i] = IF home(i) # h THEN slot[i + 1]
                      ELSE IF slot[i + 1] = 1 THEN slot[1] - 1 ELSE slot[i + 1] - 1
    <3> DEFINE s(i) == IF home(i) # h THEN slot[i + 1]
                       ELSE IF slot[i + 1] = 1 THEN slot[1] - 1 ELSE slot[i + 1] - 1
    <3>1. ASSUME NEW i \in 1..(L - 1) PROVE s(i) \in Nat \ {0}
      <4>1. i + 1 \in 1..L /\ i + 1 # 1 /\ 1 \in 1..L
        BY <1>3
      <4>2. slot[i + 1] \in Nat \ {0} /\ slot[1] \in Nat \ {0}
        BY <4>1
      <4>3. home(i) = h => slot[i + 1] # slot[1]
        <5> HIDE DEF home
        <5> QED BY <4>1, <2>1, <2>2, <1>9 DEF MarkerOf
      <4> HIDE DEF home
      <4> QED BY <4>2, <4>3
    <3> HIDE DEF s
    <3>2. [i \in 1..(L - 1) |-> s(i)] \in [1..(L - 1) -> Nat \ {0}]
      BY <3>1
    <3>3. \A i \in 1..(L - 1) : [k \in 1..(L - 1) |-> s(k)][i] = s(i)
      OBVIOUS
    <3> QED BY <3>2, <3>3 DEF s
  <2> HIDE DEF home
  \* what is known of a send that stays behind, at its old position
  <2>5. ASSUME NEW i \in 1..(L - 1)
        PROVE  /\ i + 1 \in 1..L /\ i + 1 # 1 /\ 1 < i + 1
               /\ home(i) = Home(sends[i + 1]) /\ home(i) \in Nicks /\ sends'[i] = sends[i + 1]
               /\ slot[i + 1] \in 1..Len(inFlight[home(i)])
               /\ ~sends'[i].left => inFlight[home(i)][slot[i + 1]] = sends'[i].at
               /\ home(i) = h => slot[i + 1] # slot[1]
               /\ home(i) = h /\ ~sends'[i].left => slot[1] < slot[i + 1]
    <3>1. i + 1 \in 1..L /\ i + 1 # 1 /\ 1 < i + 1 /\ sends'[i] = sends[i + 1]
      BY <1>3
    <3>2. home(i) = Home(sends[i + 1]) /\ home(i) \in Nicks
      BY <1>9
    <3> QED BY <3>1, <3>2, <1>3, <2>1, <2>2 DEF MarkerOf
  <2>6. ASSUME NEW i \in 1..(L - 1)
        PROVE  /\ less[i] \in 1..Len(inFlight'[home(i)])
               /\ ~sends'[i].left => inFlight'[home(i)][less[i]] = sends'[i].at
    <3>1. CASE home(i) # h
      BY <3>1, <2>3, <2>4, <2>5
    <3>2. CASE home(i) = h /\ slot[i + 1] = 1
      <4>1. sends'[i].left
        BY <3>2, <2>2, <2>5
      <4>2. less[i] = slot[1] - 1 /\ slot[1] # 1
        BY <3>2, <2>4, <2>5
      <4> QED BY <3>2, <4>1, <4>2, <2>2, <2>3
    <3>3. CASE home(i) = h /\ slot[i + 1] # 1
      <4>1. less[i] = slot[i + 1] - 1 /\ slot[i + 1] \in 1..Len(inFlight[h])
        BY <3>3, <2>4, <2>5
      <4>2. less[i] \in 1..(Len(inFlight[h]) - 1) /\ less[i] + 1 = slot[i + 1]
        BY <3>3, <4>1, <2>2
      <4>3. inFlight'[h][less[i]] = inFlight[h][slot[i + 1]]
        BY <4>2, <2>3
      <4> QED BY <3>3, <4>2, <4>3, <2>3, <2>5
    <3> QED BY <3>1, <3>2, <3>3
  <2>7. ASSUME NEW i \in 1..(L - 1), NEW j \in 1..(L - 1), i # j, home(i) = home(j)
        PROVE  /\ less[i] # less[j]
               /\ ~sends'[j].left /\ (sends'[i].left \/ i < j) => less[i] < less[j]
    <3>1. /\ slot[i + 1] # slot[j + 1]
          /\ ~sends'[j].left /\ (sends'[i].left \/ i < j) => slot[i + 1] < slot[j + 1]
      <4>1. /\ i + 1 \in 1..L /\ j + 1 \in 1..L /\ i + 1 # j + 1 /\ (i < j => i + 1 < j + 1)
            /\ Home(sends[i + 1]) = Home(sends[j + 1])
            /\ sends'[i] = sends[i + 1] /\ sends'[j] = sends[j + 1]
        BY <2>5, <2>7
      <4> QED BY <4>1, <2>1 DEF MarkerOf
    <3>2. /\ slot[1] \in Nat /\ slot[i + 1] \in Nat /\ slot[j + 1] \in Nat
          /\ slot[1] >= 1 /\ slot[i + 1] >= 1 /\ slot[j + 1] >= 1
      <4>1. i + 1 \in 1..L /\ j + 1 \in 1..L /\ 1 \in 1..L
        BY <2>5, <1>3
      <4>2. slot[1] \in Nat \ {0} /\ slot[i + 1] \in Nat \ {0} /\ slot[j + 1] \in Nat \ {0}
        BY <4>1
      <4> QED BY <4>2
    <3>3. CASE home(i) # h
      BY <2>7, <3>1, <3>3, <2>4
    <3>4. CASE home(i) = h
      <4>1. /\ less[i] = IF slot[i + 1] = 1 THEN slot[1] - 1 ELSE slot[i + 1] - 1
            /\ less[j] = IF slot[j + 1] = 1 THEN slot[1] - 1 ELSE slot[j + 1] - 1
        BY <2>4, <2>7, <3>4
      <4>2. /\ slot[i + 1] # slot[1] /\ slot[j + 1] # slot[1]
            /\ ~sends'[j].left => slot[1] < slot[j + 1]
        BY <2>5, <2>7, <3>4
      <4>3. less[i] # less[j]
        BY <4>1, <4>2, <3>1, <3>2
      <4>4. ~sends'[j].left => less[j] = slot[j + 1] - 1 /\ slot[1] - 1 < less[j]
        BY <4>1, <4>2, <3>2
      <4>5. ~sends'[j].left /\ (sends'[i].left \/ i < j) => less[i] < less[j]
        BY <4>1, <4>4, <3>1, <3>2
      <4> QED BY <4>3, <4>5
    <3> QED BY <3>3, <3>4
  <2>8. MarkerOf(less)'
    BY <2>6, <2>7, <1>3, <1>6 DEF MarkerOf, Home, home
  <2> QED BY <2>8, <1>3 DEF MarkersKept
<1>12. OneNickEach'
  BY <1>1, <1>6 DEF OneNickEach
<1> QED BY <1>7, <1>8, <1>10, <1>11, <1>12 DEF People

\* Whoever leaves takes their conversations out of the promise.
LEMMA QuitStep ==
  ASSUME RedirectInv, NEW n \in Nicks, Quit(n)
  PROVE  People'
<1> DEFINE L == Len(sends)
<1>1. /\ TypeOK /\ ErasOrdered /\ OneNickEach /\ SendsPlaced /\ HomesOwned /\ MarkersKept
      /\ RenamesFollowed /\ Pass
  BY DEF RedirectInv, EraInv, Quit
<1>2. clock' = clock + 1 /\ clock \in Int
  BY <1>1, PassFacts DEF TypeOK
<1>3. /\ redirects' = redirects /\ inFlight' = inFlight /\ sent' = sent
      /\ owner[n] # NoOne /\ owner' = [owner EXCEPT ![n] = NoOne]
  BY DEF Quit
<1>4. \A i \in 1..L : /\ sends[i].at \in Int /\ Home(sends[i]) \in Nicks
                      /\ sends[i].for \in Persons /\ sends[i].for # NoOne
  BY <1>1, SendFacts, NoOneAssumption
<1>5. /\ L \in Nat /\ Len(sends') = L
      /\ \A i \in 1..L : /\ sends'[i].nick = sends[i].nick /\ sends'[i].at = sends[i].at
                         /\ sends'[i].for = sends[i].for
                         /\ sends'[i].left <=> sends[i].left \/ sends[i].for = owner[n]
  <2>1. sends \in Seq(SendType) /\ L \in Nat /\ \A i \in 1..L : sends[i] \in SendType
    <3>1. sends \in Seq(SendType)
      BY <1>1 DEF TypeOK, SendType
    <3> QED BY <3>1
  <2>2. sends' = [i \in 1..L |-> [sends[i] EXCEPT !.left = @ \/ sends[i].for = owner[n]]]
    BY DEF Quit
  <2>3. ASSUME NEW i \in 1..L
        PROVE  /\ sends'[i].nick = sends[i].nick /\ sends'[i].at = sends[i].at
               /\ sends'[i].for = sends[i].for
               /\ sends'[i].left <=> sends[i].left \/ sends[i].for = owner[n]
    BY <2>1, <2>2 DEF SendType
  <2>4. Len(sends') = L
    BY <2>1, <2>2
  <2> QED BY <2>1, <2>3, <2>4
<1>6. SendsPlaced'
  <2>1. \A i \in 1..L : sends[i].at < clock'
    BY <1>1, <1>2, <1>4 DEF SendsPlaced
  <2> QED BY <2>1, <1>1, <1>3, <1>5 DEF SendsPlaced
<1> DEFINE home(i) == HomeBy(redirects[sends'[i].nick], sends'[i].nick, sends'[i].at)
<1>7. \A i \in 1..L : home(i) = Home(sends[i])
  BY <1>5 DEF Home
<1>8. HomesOwned'
  <2>1. ASSUME NEW i \in 1..L, ~sends'[i].left PROVE owner'[home(i)] = sends'[i].for
    <3>1. ~sends[i].left /\ sends[i].for # owner[n] /\ owner[Home(sends[i])] = sends[i].for
      BY <2>1, <1>1, <1>5 DEF HomesOwned
    <3>2. Home(sends[i]) # n
      BY <3>1
    <3> HIDE DEF home
    <3> QED BY <3>1, <3>2, <1>1, <1>3, <1>4, <1>5, <1>7 DEF TypeOK
  <2> QED BY <2>1, <1>3, <1>5 DEF HomesOwned, Home
<1>9. MarkersKept'
  <2>1. PICK slot \in [1..L -> Nat \ {0}] : MarkerOf(slot)
    BY <1>1 DEF MarkersKept
  <2> HIDE DEF home
  <2>2. ASSUME NEW i \in 1..L, NEW j \in 1..L, i # j, home(i) = home(j)
        PROVE  /\ slot[i] # slot[j]
               /\ ~sends'[j].left /\ (sends'[i].left \/ i < j) => slot[i] < slot[j]
    <3>1. Home(sends[i]) = Home(sends[j])
      BY <2>2, <1>7
    <3>2. ASSUME ~sends'[j].left, sends'[i].left PROVE sends[i].left
      <4>1. ~sends[j].left /\ sends[j].for # owner[n] /\ owner[Home(sends[j])] = sends[j].for
        BY <3>2, <1>1, <1>5 DEF HomesOwned
      <4>2. ~sends[i].left => owner[Home(sends[i])] = sends[i].for /\ sends[i].for = owner[n]
        BY <3>2, <1>1, <1>5 DEF HomesOwned
      <4> QED BY <3>1, <4>1, <4>2
    <3>3. ~sends'[j].left => ~sends[j].left
      BY <1>5
    <3> QED BY <2>2, <3>1, <3>2, <3>3, <2>1 DEF MarkerOf
  <2>3. ASSUME NEW i \in 1..L
        PROVE  /\ slot[i] \in 1..Len(inFlight[home(i)])
               /\ ~sends'[i].left => inFlight[home(i)][slot[i]] = sends'[i].at
    BY <2>1, <1>5, <1>7 DEF MarkerOf
  <2>4. MarkerOf(slot)'
    BY <2>2, <2>3, <1>3, <1>5 DEF MarkerOf, Home, home
  <2> QED BY <2>4, <1>5 DEF MarkersKept
<1>10. OneNickEach' /\ RenamesFollowed'
  BY <1>1, <1>3 DEF OneNickEach, RenamesFollowed, TypeOK
<1> QED BY <1>6, <1>8, <1>9, <1>10 DEF People

\* A rename carries the conversations of whoever changes nick with them.  If it
\* does not rekey, nobody is written to under that nick: a marker would be fresh.
LEMMA NickChangeStep ==
  ASSUME RedirectInv, RoomForEras, Timeout < TTL,
         NEW old \in Nicks, NEW new \in Nicks, NickChange(old, new)
  PROVE  People'
<1> DEFINE L == Len(sends)
           who == owner[old]
<1>1. /\ TypeOK /\ ErasOrdered /\ OneNickEach /\ SendsPlaced /\ HomesOwned /\ MarkersKept
      /\ RenamesFollowed /\ EraInv /\ Pass
  BY DEF RedirectInv, EraInv, NickChange
<1>2. clock' = clock + 1 /\ clock \in Int
  BY <1>1, PassFacts DEF TypeOK
<1>3. /\ owner' = [owner EXCEPT ![old] = NoOne, ![new] = who] /\ who # NoOne
      /\ owner[new] = NoOne /\ old # new /\ sends' = sends /\ sent' = sent
  BY DEF NickChange
<1>4. \A i \in 1..L : /\ sends[i].at \in Int /\ Home(sends[i]) \in Nicks
                      /\ sends[i].for \in Persons /\ sends[i].for # NoOne
  BY <1>1, SendFacts, NoOneAssumption
<1>5. /\ owner'[old] = NoOne /\ owner'[new] = who
      /\ \A n \in Nicks : n # old /\ n # new => owner'[n] = owner[n]
  BY <1>1, <1>3 DEF TypeOK
<1>6. OneNickEach'
  BY <1>1, <1>3, <1>5 DEF OneNickEach
\* Of somebody present, the nick is taken, so it is not the new one.
<1>7. \A i \in 1..L : ~sends[i].left => owner[Home(sends[i])] = sends[i].for /\ Home(sends[i]) # new
  BY <1>1, <1>3, <1>4 DEF HomesOwned
<1>8. CASE ~(old \in windows \/ HasOutgoingInFlight(old))
  <2>1. redirects' = redirects /\ inFlight' = inFlight
    BY <1>8 DEF NickChange
  <2>2. ASSUME NEW i \in 1..L, ~sends[i].left PROVE Home(sends[i]) # old
    <3> SUFFICES ASSUME Home(sends[i]) = old PROVE FALSE
      OBVIOUS
    <3>1. PICK slot \in [1..L -> Nat \ {0}] : MarkerOf(slot)
      BY <1>1 DEF MarkersKept
    <3>2. slot[i] \in 1..Len(inFlight[old]) /\ inFlight[old][slot[i]] = sends[i].at
      BY <2>2, <3>1 DEF MarkerOf
    <3>3. sends[i].at \in Range(inFlight[old])
      <4>1. inFlight[old] \in Seq(Times)
        BY <1>1 DEF TypeOK
      <4>2. slot[i] \in DOMAIN inFlight[old]
        BY <3>2, <4>1
      <4> QED BY <3>2, <4>2 DEF Range
    <3>4. Age(sends[i].at) < TTL
      <4>1. Age(sends[i].at) <= Timeout /\ Age(sends[i].at) \in Int
        BY <1>1, <1>2, <1>4 DEF Pass, Age
      <4> QED BY <4>1, TimesAssumption
    <3> QED BY <1>8, <3>3, <3>4 DEF HasOutgoingInFlight
  <2>3. \A i \in 1..L : ~sends[i].left => owner'[Home(sends[i])] = owner[Home(sends[i])]
    BY <1>4, <1>5, <1>7, <2>2
  <2>4. UNCHANGED <<redirects, inFlight, sends, sent>> /\ clock' \in Int /\ clock' >= clock
    BY <1>2, <1>3, <2>1
  <2> QED BY <1>6, <2>3, <2>4, QuietStep
<1>9. CASE old \in windows \/ HasOutgoingInFlight(old)
  <2>1. redirects' = RekeyRedirects(old, new) /\ inFlight' = RekeyInFlight(old, new)
    BY <1>9 DEF NickChange, RekeyBufferState
  <2> DEFINE home(i) == HomeBy(redirects'[sends[i].nick], sends[i].nick, sends[i].at)
  <2>2. ASSUME NEW i \in 1..L
        PROVE  /\ home(i) = IF Home(sends[i]) = old THEN new ELSE Home(sends[i])
               /\ \A m \in Nicks : \A k \in 1..Len(redirects'[m]) : redirects'[m][k].ended # sends[i].at
               /\ CoveredBy(redirects'[sends[i].nick], sends[i].at) = {} =>
                    \A k \in 1..Len(redirects'[sends[i].nick]) :
                      redirects'[sends[i].nick][k].ended < sends[i].at
    BY <1>1, <2>1, RekeyHome
  <2>3. SendsPlaced'
    <3>1. \A i \in 1..L : sends[i].at < clock'
      BY <1>1, <1>2, <1>4 DEF SendsPlaced
    <3> HIDE DEF home
    <3> QED BY <1>3, <2>2, <3>1 DEF SendsPlaced
  <2> HIDE DEF home
  <2>4. HomesOwned'
    <3>1. ASSUME NEW i \in 1..L, ~sends[i].left PROVE owner'[home(i)] = sends[i].for
      <4>1. CASE Home(sends[i]) = old
        BY <3>1, <4>1, <1>5, <1>7, <2>2
      <4>2. CASE Home(sends[i]) # old
        BY <3>1, <4>2, <1>4, <1>5, <1>7, <2>2
      <4> QED BY <4>1, <4>2
    <3> QED BY <3>1, <1>3 DEF HomesOwned, Home, home
  <2>5. MarkersKept'
    <3>1. PICK slot \in [1..L -> Nat \ {0}] : MarkerOf(slot)
      BY <1>1 DEF MarkersKept
    <3> DEFINE N == Len(inFlight[new])
    <3>2. inFlight[new] \in Seq(Times) /\ inFlight[old] \in Seq(Times) /\ N \in Nat
      BY <1>1 DEF TypeOK
    <3>3. /\ inFlight'[new] = inFlight[new] \o inFlight[old]
          /\ \A m \in Nicks : m # old /\ m # new => inFlight'[m] = inFlight[m]
      BY <1>1, <1>3, <2>1 DEF RekeyInFlight, TypeOK
    <3>4. /\ Len(inFlight'[new]) = N + Len(inFlight[old])
          /\ \A k \in 1..N : k \in 1..Len(inFlight'[new]) /\ inFlight'[new][k] = inFlight[new][k]
          /\ \A k \in 1..Len(inFlight[old]) :
               k + N \in 1..Len(inFlight'[new]) /\ inFlight'[new][k + N] = inFlight[old][k]
      <4> DEFINE a == inFlight[new]
                 b == inFlight[old]
                 c == inFlight'[new]
      <4>1. a \in Seq(Times) /\ b \in Seq(Times) /\ c = a \o b
        BY <3>2, <3>3
      <4> HIDE DEF a, b, c
      <4>2. Len(c) = Len(a) + Len(b) /\ Len(a) \in Nat /\ Len(b) \in Nat
        BY <4>1
      <4>3. \A k \in 1..Len(a) : c[k] = a[k]
        BY <4>1
      <4>4. ASSUME NEW k \in 1..Len(b)
            PROVE  k + Len(a) \in 1..Len(c) /\ c[k + Len(a)] = b[k]
        <5>1. k + Len(a) \in 1..(Len(a) + Len(b)) /\ ~(k + Len(a) <= Len(a))
              /\ (k + Len(a)) - Len(a) = k
          BY <4>2
        <5> QED BY <4>1, <4>2, <5>1
      <4>5. \A k \in 1..Len(a) : k \in 1..Len(c)
        BY <4>2
      <4> QED BY <4>2, <4>3, <4>4, <4>5 DEF a, b, c
    <3>5. PICK moved \in [1..L -> Nat \ {0}] :
            \A i \in 1..L : moved[i] = IF Home(sends[i]) = old THEN slot[i] + N ELSE slot[i]
      <4> DEFINE s(i) == IF Home(sends[i]) = old THEN slot[i] + N ELSE slot[i]
      <4>1. \A i \in 1..L : s(i) \in Nat \ {0}
        BY <3>2
      <4> HIDE DEF s
      <4>2. [i \in 1..L |-> s(i)] \in [1..L -> Nat \ {0}]
        BY <4>1
      <4>3. \A i \in 1..L : [k \in 1..L |-> s(k)][i] = s(i)
        OBVIOUS
      <4> QED BY <4>2, <4>3 DEF s
    <3>6. ASSUME NEW i \in 1..L
          PROVE  /\ moved[i] \in 1..Len(inFlight'[home(i)])
                 /\ ~sends[i].left => inFlight'[home(i)][moved[i]] = sends[i].at
      <4>1. /\ slot[i] \in 1..Len(inFlight[Home(sends[i])])
            /\ ~sends[i].left => inFlight[Home(sends[i])][slot[i]] = sends[i].at
        BY <3>1 DEF MarkerOf
      <4>2. CASE Home(sends[i]) = old
        BY <4>1, <4>2, <2>2, <3>4, <3>5
      <4>3. CASE Home(sends[i]) = new
        BY <4>1, <4>3, <1>3, <2>2, <3>4, <3>5
      <4>4. CASE Home(sends[i]) # old /\ Home(sends[i]) # new
        BY <4>1, <4>4, <1>4, <2>2, <3>3, <3>5
      <4> QED BY <4>2, <4>3, <4>4
    <3>7. ASSUME NEW i \in 1..L, NEW j \in 1..L, i # j, home(i) = home(j)
          PROVE  /\ moved[i] # moved[j]
                 /\ ~sends[j].left /\ (sends[i].left \/ i < j) => moved[i] < moved[j]
      <4>1. /\ slot[i] \in 1..Len(inFlight[Home(sends[i])])
            /\ slot[j] \in 1..Len(inFlight[Home(sends[j])])
        BY <3>1 DEF MarkerOf
      <4>2. CASE Home(sends[i]) = Home(sends[j])
        <5>1. /\ slot[i] # slot[j]
              /\ ~sends[j].left /\ (sends[i].left \/ i < j) => slot[i] < slot[j]
          BY <3>1, <3>7, <4>2 DEF MarkerOf
        <5>2. slot[i] \in Nat /\ slot[j] \in Nat
          OBVIOUS
        <5>3. \/ moved[i] = slot[i] /\ moved[j] = slot[j]
              \/ moved[i] = slot[i] + N /\ moved[j] = slot[j] + N
          BY <4>2, <3>5
        <5> QED BY <5>1, <5>2, <5>3, <3>2
      <4>3. CASE Home(sends[i]) = old /\ Home(sends[j]) # old
        <5>1. Home(sends[j]) = new /\ sends[j].left
          BY <3>7, <4>3, <1>4, <1>7, <2>2
        <5>2. slot[j] \in 1..N /\ moved[j] = slot[j] /\ moved[i] = slot[i] + N
          BY <4>1, <4>3, <5>1, <3>5
        <5> QED BY <5>1, <5>2, <3>2
      <4>4. CASE Home(sends[j]) = old /\ Home(sends[i]) # old
        <5>1. Home(sends[i]) = new
          BY <3>7, <4>4, <2>2
        <5>2. slot[i] \in 1..N /\ moved[i] = slot[i] /\ moved[j] = slot[j] + N
          BY <4>1, <4>4, <5>1, <3>5
        <5> QED BY <5>2, <3>2
      <4>5. CASE Home(sends[i]) # old /\ Home(sends[j]) # old
        <5>1. Home(sends[i]) = Home(sends[j])
          BY <3>7, <4>5, <2>2
        <5> QED BY <5>1, <4>2
      <4> QED BY <4>2, <4>3, <4>4, <4>5
    <3>8. MarkerOf(moved)'
      BY <3>6, <3>7, <1>3 DEF MarkerOf, Home, home
    <3> QED BY <3>8, <1>3 DEF MarkersKept
  <2>6. RenamesFollowed'
    BY <1>1, <1>3 DEF RenamesFollowed
  <2> QED BY <1>6, <2>3, <2>4, <2>5, <2>6 DEF People
<1> QED BY <1>8, <1>9

\* The initial states satisfy the invariant: nothing was sent yet.
LEMMA RedirectInvInit == Init => RedirectInv
<1> SUFFICES ASSUME Init PROVE RedirectInv
  OBVIOUS
<1>1. EraInv
  BY EraInvInit
<1>2. Len(sends) = 0 /\ sent = {}
  BY DEF Init
<1>3. OneNickEach
  BY DEF Init, OneNickEach
<1>4. SendsPlaced /\ HomesOwned /\ RenamesFollowed
  BY <1>2 DEF SendsPlaced, HomesOwned, RenamesFollowed
<1>5. MarkersKept
  <2>1. [i \in 1..Len(sends) |-> 1] \in [1..Len(sends) -> Nat \ {0}]
    OBVIOUS
  <2>2. \A slot : MarkerOf(slot)
    BY <1>2 DEF MarkerOf
  <2> QED BY <2>1, <2>2 DEF MarkersKept
<1> QED BY <1>1, <1>3, <1>4, <1>5 DEF RedirectInv

\* Every handler keeps the invariant while the cap has room.
LEMMA RedirectInvNext ==
  ASSUME RedirectInv, RoomForEras, Timeout < TTL, [Next]_vars
  PROVE  RedirectInv'
<1>1. EraInv'
  BY EraInvNext DEF RedirectInv
<1>2. OneNickEach /\ TypeOK /\ HomesOwned
  BY DEF RedirectInv, EraInv
<1>3. People'
  <2>1. ASSUME NEW n \in Nicks, Submit(n) PROVE People'
    BY <2>1, SubmitStep
  <2>2. ASSUME NEW n \in Nicks, Quit(n) PROVE People'
    BY <2>2, QuitStep
  <2>3. ASSUME NEW n \in Nicks, CloseWindow(n) \/ OpenWindow(n) PROVE People'
    <3>1. clock' = clock + 1 /\ clock \in Int
      BY <2>3, <1>2, PassFacts DEF CloseWindow, OpenWindow, TypeOK
    <3>2. UNCHANGED <<owner, redirects, inFlight, sends, sent>>
      BY <2>3 DEF CloseWindow, OpenWindow
    <3>3. OneNickEach'
      BY <1>2, <3>2 DEF OneNickEach
    <3> QED BY <3>1, <3>2, <3>3, QuietStep
  <2>4. ASSUME NEW old \in Nicks, NEW new \in Nicks, NickChange(old, new) PROVE People'
    BY <2>4, NickChangeStep
  <2>5. ASSUME NEW p \in Persons, NEW n \in Nicks, Join(p, n) PROVE People'
    <3>1. clock' = clock + 1 /\ clock \in Int
      BY <2>5, <1>2, PassFacts DEF Join, TypeOK
    <3>2. UNCHANGED <<redirects, inFlight, sends, sent>>
      BY <2>5 DEF Join
    <3>3. /\ owner' = [owner EXCEPT ![n] = p] /\ owner[n] = NoOne
          /\ \A m \in Nicks : owner[m] # p
      BY <2>5 DEF Join
    <3>4. OneNickEach'
      BY <1>2, <3>3 DEF OneNickEach, TypeOK
    <3>5. ASSUME NEW i \in 1..Len(sends), ~sends[i].left
          PROVE  owner'[Home(sends[i])] = owner[Home(sends[i])]
      <4>1. owner[Home(sends[i])] = sends[i].for
        BY <3>5, <1>2 DEF HomesOwned
      <4>2. sends[i].for # NoOne /\ Home(sends[i]) \in Nicks
        BY <1>2, SendFacts, NoOneAssumption DEF RedirectInv, EraInv
      <4> QED BY <4>1, <4>2, <3>3, <1>2 DEF TypeOK
    <3> QED BY <3>1, <3>2, <3>4, <3>5, QuietStep
  <2>6. ASSUME Deliver PROVE People'
    BY <2>6, DeliverStep
  <2>7. ASSUME Elapse \/ UNCHANGED vars PROVE People'
    <3>1. clock' \in Int /\ clock' >= clock
      <4>1. CASE Elapse
        BY <4>1, <1>2, PassFacts DEF Elapse, TypeOK
      <4>2. CASE UNCHANGED vars
        BY <4>2, <1>2, EraFacts DEF vars, TypeOK
      <4> QED BY <2>7, <4>1, <4>2
    <3>2. UNCHANGED <<owner, redirects, inFlight, sends, sent>>
      BY <2>7 DEF Elapse, vars
    <3>3. OneNickEach'
      BY <1>2, <3>2 DEF OneNickEach
    <3> QED BY <3>1, <3>2, <3>3, QuietStep
  <2> QED BY <2>1, <2>2, <2>3, <2>4, <2>5, <2>6, <2>7 DEF Next
<1> QED BY <1>1, <1>3 DEF RedirectInv, People

\* apply_translate_deliver sends a private message to the person it was written
\* to, through any number of nick changes on either side, if that person does
\* not quit: while the eras are remembered for longer than a send may take, and
\* the cap of eras forgets none that is newer than a send in translation.
THEOREM RedirectFollows ==
  ASSUME Timeout < TTL
  PROVE  Spec /\ []RoomForEras => []RenamesFollowed
<1>1. Init => RedirectInv
  BY RedirectInvInit
<1>2. RedirectInv /\ RoomForEras /\ [Next]_vars => RedirectInv'
  BY RedirectInvNext
<1>3. RedirectInv => RenamesFollowed
  BY DEF RedirectInv
<1> QED BY <1>1, <1>2, <1>3, PTL DEF Spec
=============================================================================
