---------------------------- MODULE HistoryProofs ----------------------------
(***************************************************************************)
(* What the paging and the gap filling of History guarantee for pages of   *)
(* any size, any number of rows and any number of faults.                  *)
(***************************************************************************)
EXTENDS History, FiniteSetTheorems, WellFoundedInduction, TLAPS

-----------------------------------------------------------------------------
(* Sets of rows.                                                           *)

LEMMA Least ==
  ASSUME NEW n \in Nat, NEW S \in SUBSET (0..n), S # {}
  PROVE  Min(S) \in S /\ \A y \in S : Min(S) <= y
<1> DEFINE Cone(x) == 0..x
           T == {Cone(x) : x \in S}
           R == StrictSubsetOrdering(0..n)
<1>1. IsWellFoundedOn(R, SUBSET (0..n))
  <2>1. IsFiniteSet(0..n)
    BY FS_Interval
  <2>2. QED
    BY <2>1, FS_StrictSubsetOrderingWellFounded, FS_FiniteSubsetsOfFinite
<1>2. T \subseteq SUBSET (0..n) /\ T # {}
  <2>1. \A x \in S : Cone(x) \in SUBSET (0..n)
    OBVIOUS
  <2>2. QED
    BY <2>1
<1>3. PICK t \in T : \A u \in T : ~ (<<u, t>> \in R)
  <2> HIDE DEF T, R
  <2>1. QED
    BY <1>1, <1>2, WFMin
<1>4. PICK x \in S : t = Cone(x)
  OBVIOUS
<1>5. ASSUME NEW y \in S, ~ (x <= y) PROVE FALSE
  <2>1. Cone(y) \in T /\ Cone(y) \subseteq Cone(x) /\ x \in Cone(x) \ Cone(y)
    BY <1>5
  <2>2. <<Cone(y), t>> \in R
    BY <1>2, <1>4, <2>1 DEF StrictSubsetOrdering
  <2>3. QED
    BY <1>3, <2>1, <2>2
<1>6. QED
  BY <1>5 DEF Min

LEMMA Greatest ==
  ASSUME NEW n \in Nat, NEW S \in SUBSET (0..n), S # {}
  PROVE  Max(S) \in S /\ \A y \in S : y <= Max(S)
<1> DEFINE Cone(x) == x..n
           T == {Cone(x) : x \in S}
           R == StrictSubsetOrdering(0..n)
<1>1. IsWellFoundedOn(R, SUBSET (0..n))
  <2>1. IsFiniteSet(0..n)
    BY FS_Interval
  <2>2. QED
    BY <2>1, FS_StrictSubsetOrderingWellFounded, FS_FiniteSubsetsOfFinite
<1>2. T \subseteq SUBSET (0..n) /\ T # {}
  <2>1. \A x \in S : Cone(x) \in SUBSET (0..n)
    OBVIOUS
  <2>2. QED
    BY <2>1
<1>3. PICK t \in T : \A u \in T : ~ (<<u, t>> \in R)
  <2> HIDE DEF T, R
  <2>1. QED
    BY <1>1, <1>2, WFMin
<1>4. PICK x \in S : t = Cone(x)
  OBVIOUS
<1>5. ASSUME NEW y \in S, ~ (y <= x) PROVE FALSE
  <2>1. Cone(y) \in T /\ Cone(y) \subseteq Cone(x) /\ x \in Cone(x) \ Cone(y)
    BY <1>5
  <2>2. <<Cone(y), t>> \in R
    BY <1>2, <1>4, <2>1 DEF StrictSubsetOrdering
  <2>3. QED
    BY <1>3, <2>1, <2>2
<1>6. QED
  BY <1>5 DEF Max

\* Of two sets of rows below (above) a row, the one of the higher (lower) row
\* is the larger.
LEMMA Counts ==
  ASSUME NEW n \in Nat, NEW S \in SUBSET (0..n), NEW A \in SUBSET S, NEW B \in SUBSET A
  PROVE  /\ IsFiniteSet(A) /\ Cardinality(A) \in Nat
         /\ Cardinality(B) \in Nat /\ Cardinality(B) <= Cardinality(A)
<1>1. IsFiniteSet(0..n)
  BY FS_Interval
<1>2. IsFiniteSet(A)
  BY <1>1, FS_Subset
<1>3. IsFiniteSet(B)
  BY <1>2, FS_Subset
<1>4. QED
  BY <1>2, <1>3, FS_Subset, FS_CardinalityType

\* With a row a page of the newest rows holds every newer one; when it is not
\* full it holds all.
LEMMA LastPage ==
  ASSUME NEW n \in Nat, NEW S \in SUBSET (0..n), NEW k \in Nat
  PROVE  /\ Last(k, S) \subseteq S
         /\ \A r \in Last(k, S), q \in S : q >= r => q \in Last(k, S)
         /\ Cardinality(Last(k, S)) < k => Last(k, S) = S
<1> DEFINE Newer(r) == {q \in S : q > r}
           P == Last(k, S)
<1>1. \A r : r \in P <=> r \in S /\ Cardinality(Newer(r)) < k
  BY DEF Last
<1>2. \A r, q : q \in Newer(r) <=> q \in S /\ q > r
  OBVIOUS
<1> HIDE DEF Newer, P
<1>0. \A x \in S : x \in Nat
  OBVIOUS
<1>3. ASSUME NEW r \in P, NEW q \in S, q >= r PROVE q \in P
  <2>1. Newer(q) \subseteq Newer(r) /\ Newer(r) \subseteq S
    <3>1. ASSUME NEW z \in Newer(q) PROVE z \in Newer(r)
      <4>1. z \in S /\ z > q
        BY <1>2, <3>1
      <4>2. r \in S
        BY <1>1
      <4>3. r \in Nat /\ q \in Nat /\ z \in Nat
        BY <1>0, <4>1, <4>2
      <4>4. z > r
        BY <1>3, <4>1, <4>3
      <4>5. QED
        BY <1>2, <4>1, <4>4
    <3>2. QED
      BY <1>2, <3>1
  <2>2. Cardinality(Newer(q)) <= Cardinality(Newer(r)) /\ Cardinality(Newer(q)) \in Nat
        /\ Cardinality(Newer(r)) \in Nat
    BY <2>1, Counts
  <2>3. QED
    BY <1>1, <1>3, <2>2
<1>4. ASSUME Cardinality(P) < k, NEW x \in S \ P PROVE FALSE
  <2> DEFINE M == S \ P
             m == Max(M)
  <2>1. m \in M /\ \A y \in M : y <= m
    BY <1>4, Greatest
  <2> HIDE DEF m
  <2>2. Newer(m) \subseteq P /\ P \subseteq S
    <3>1. ASSUME NEW z \in Newer(m) PROVE z \in P
      <4>1. z \in S /\ z > m
        BY <1>2, <3>1
      <4>2. QED
        BY <1>0, <2>1, <4>1
    <3>2. QED
      BY <1>1, <3>1
  <2>3. Cardinality(Newer(m)) <= Cardinality(P) /\ Cardinality(Newer(m)) \in Nat
        /\ Cardinality(P) \in Nat
    BY <2>2, Counts
  <2>4. QED
    BY <1>1, <1>4, <2>1, <2>3
<1>5. QED
  BY <1>1, <1>3, <1>4 DEF P

\* With a row a page of the oldest rows holds every older one; when it is not
\* full it holds all.
LEMMA FirstPage ==
  ASSUME NEW n \in Nat, NEW S \in SUBSET (0..n), NEW k \in Nat
  PROVE  /\ First(k, S) \subseteq S
         /\ \A r \in First(k, S), q \in S : q <= r => q \in First(k, S)
         /\ Cardinality(First(k, S)) < k => First(k, S) = S
<1> DEFINE Below(r) == {q \in S : q < r}
           P == First(k, S)
<1>1. \A r : r \in P <=> r \in S /\ Cardinality(Below(r)) < k
  BY DEF First
<1>2. \A r, q : q \in Below(r) <=> q \in S /\ q < r
  OBVIOUS
<1> HIDE DEF Below, P
<1>0. \A x \in S : x \in Nat
  OBVIOUS
<1>3. ASSUME NEW r \in P, NEW q \in S, q <= r PROVE q \in P
  <2>1. Below(q) \subseteq Below(r) /\ Below(r) \subseteq S
    <3>1. ASSUME NEW z \in Below(q) PROVE z \in Below(r)
      <4>1. z \in S /\ z < q
        BY <1>2, <3>1
      <4>2. r \in S
        BY <1>1
      <4>3. r \in Nat /\ q \in Nat /\ z \in Nat
        BY <1>0, <4>1, <4>2
      <4>4. z < r
        BY <1>3, <4>1, <4>3
      <4>5. QED
        BY <1>2, <4>1, <4>4
    <3>2. QED
      BY <1>2, <3>1
  <2>2. Cardinality(Below(q)) <= Cardinality(Below(r)) /\ Cardinality(Below(q)) \in Nat
        /\ Cardinality(Below(r)) \in Nat
    BY <2>1, Counts
  <2>3. QED
    BY <1>1, <1>3, <2>2
<1>4. ASSUME Cardinality(P) < k, NEW x \in S \ P PROVE FALSE
  <2> DEFINE M == S \ P
             m == Min(M)
  <2>1. m \in M /\ \A y \in M : m <= y
    BY <1>4, Least
  <2> HIDE DEF m
  <2>2. Below(m) \subseteq P /\ P \subseteq S
    <3>1. ASSUME NEW z \in Below(m) PROVE z \in P
      <4>1. z \in S /\ z < m
        BY <1>2, <3>1
      <4>2. QED
        BY <1>0, <2>1, <4>1
    <3>2. QED
      BY <1>1, <3>1
  <2>3. Cardinality(Below(m)) <= Cardinality(P) /\ Cardinality(Below(m)) \in Nat
        /\ Cardinality(P) \in Nat
    BY <2>2, Counts
  <2>4. QED
    BY <1>1, <1>4, <2>1, <2>3
<1>5. QED
  BY <1>1, <1>3, <1>4 DEF P

-----------------------------------------------------------------------------
(* The inductive invariant.                                                *)

\* The server never cuts the first page of older rows (see HistoryPartial).
NeverCutFirst == "cut first" \notin Faults

\* Whatever is to be stored from row a to row b is.
There(a, b) == \A q \in a..b : q \in Skipped \/ q \in Kept

Numbers ==
  /\ size \in Nat /\ base \in 0..size
  /\ stored \subseteq 1..size /\ queued \subseteq 1..size /\ shown \subseteq Kept
  /\ oldest \in 0..size /\ top \in 0..size /\ from \in 0..size
  /\ from # 0 => from \in stored /\ from <= base
  /\ oldest # 0 \/ exhausted => top # 0
  /\ wire # {} => connected /\ flight \in {"before", "after", "latest"}
  /\ joined => connected
  /\ connected \in BOOLEAN /\ claimed \in BOOLEAN /\ exhausted \in BOOLEAN

\* The gap is whole unless it was not yet asked for, or is being filled, or was
\* given up.
GapSide ==
  /\ flight \in {"after", "latest"} => claimed /\ joined
  /\ from # 0 =>
       /\ flight # "latest"
       /\ ~claimed => \A r \in Kept : r <= from \/ r > base
       /\ claimed /\ flight # "after" /\ lost \cap {"gap", "cleared"} = {} => There(from, base)

\* While nothing older was fetched, what is there has no hole below the row
\* scrolling up started from; a client that had nothing has nothing until it
\* has joined.
OldSide ==
  /\ from # 0 /\ oldest # 0 => oldest <= from
  /\ from # 0 /\ oldest = 0 => /\ \A r \in queued : r > from
                               /\ top # 0 => \A r \in Kept : r >= top
  /\ from = 0 /\ oldest = 0 => /\ flight # "after"
                               /\ ~claimed => \A r \in Kept : r > base
                               /\ "gap" \notin lost => \A r \in Kept : There(r, size)
  /\ from = 0 /\ ~joined => Kept = {} /\ oldest = 0 /\ wire = {}

Fetched ==
  top # 0 /\ "gap" \notin lost
    => (oldest # 0 => There(oldest, top)) /\ (exhausted => There(1, top))

\* What is between the anchor a of a request and what it continues is there.
BeforeFrom(a) ==
  /\ a \in 1..size
  /\ from # 0 => a <= from
  /\ oldest # 0 => a = oldest
  /\ "gap" \notin lost => There(a, top)

AfterFrom(a) ==
  /\ a \in 0..size
  /\ from # 0 => from <= a /\ ("gap" \notin lost => There(from, a))

AskSound(w) ==
  /\ w.dir = flight
  /\ flight = "before" => top # 0 /\ BeforeFrom(w.anchor) /\ (w.first \/ oldest # 0)
  /\ flight = "after" => AfterFrom(w.anchor)

\* A page that came whole has no hole between its rows and its anchor, and
\* holds all there is when it is not full; a page of the gap has no hole
\* either when it was cut.
BeforePage(w) ==
  /\ top # 0
  /\ from # 0 => \A r \in w.rows : r < from
  /\ ~w.whole => oldest # 0
  /\ w.whole => \E a \in 1..size :
       /\ BeforeFrom(a)
       /\ \A r \in w.rows : r < a /\ r..(a - 1) \subseteq w.rows
       /\ Cardinality(w.rows) < PageSize => 1..(a - 1) \subseteq w.rows

AfterPage(w) ==
  \E a \in 0..size :
    /\ AfterFrom(a)
    /\ \A r \in w.rows : r > a /\ (a + 1)..r \subseteq w.rows
    /\ w.whole /\ Cardinality(w.rows) < PageSize => (a + 1)..base \subseteq w.rows

\* The page of the newest rows: what was said since has reached the client.
NewestPage(w) ==
  \A r \in w.rows : \A q \in r..size : q \in w.rows \/ q \in Skipped \/ q \in Kept

PageSound(w) ==
  /\ w.rows \subseteq 1..size
  /\ flight = "before" => BeforePage(w)
  /\ flight = "after" => AfterPage(w)
  /\ flight = "latest" /\ w.whole => NewestPage(w)

WireSound ==
  \A w \in wire : \/ w.type = "ask" /\ AskSound(w)
                  \/ w.type = "page" /\ PageSound(w)

IndInv == Numbers /\ Fetched /\ (connected => GapSide /\ OldSide) /\ WireSound

\* What ReceivePage does with the page p.
Taken(p) ==
  LET talk == Ingested(p.rows)
      gap  == flight \in {"after", "latest"}
  IN  /\ queued' = queued \cup (talk \ stored)
      /\ shown' = IF gap THEN Spliced(talk) ELSE shown
      /\ oldest' = IF Advances(p) /\ p.rows # {} THEN Older(oldest, Min(p.rows)) ELSE oldest
      /\ exhausted' = (exhausted \/ Ends(p))
      /\ IF GapGoesOn(p) THEN Request("after", Max(p.rows))
                         ELSE flight' = "none" /\ wire' = {} /\ UNCHANGED suppressed
      /\ lost' = lost \cup GivenUp(p)
      /\ UNCHANGED <<size, stored, connected, joined, base, claimed, top, from>>

-----------------------------------------------------------------------------
(* The steps.                                                              *)

LEMMA InitIndInv == Init => IndInv
<1> SUFFICES ASSUME Init PROVE IndInv
  OBVIOUS
<1>1. stored \subseteq 1..size /\ size \in Nat
  BY RowsAssumption DEF Init
<1>2. shown \subseteq stored
  BY DEF Init, Last
<1>3. /\ queued = {} /\ base = 0 /\ oldest = 0 /\ top = 0 /\ from = 0 /\ wire = {}
      /\ connected = FALSE /\ joined = FALSE /\ claimed = FALSE /\ exhausted = FALSE
  BY DEF Init
<1>4. /\ ~connected /\ ~joined /\ ~exhausted
      /\ connected \in BOOLEAN /\ claimed \in BOOLEAN /\ exhausted \in BOOLEAN
  BY <1>3
<1>5. Numbers
  BY <1>1, <1>2, <1>3, <1>4 DEF Numbers, Kept
<1>6. QED
  BY <1>3, <1>4, <1>5 DEF IndInv, Fetched, WireSound

\* More rows, said or stored, leave a request or page on its way sound.
LEMMA WireStays ==
  ASSUME Numbers, WireSound, UNCHANGED <<wire, flight, oldest, top, from, base, lost>>,
         size' \in Nat, size <= size', Kept \subseteq Kept',
         wire # {} /\ flight = "latest" => \A q \in (size + 1)..size' : q \in Kept'
  PROVE  WireSound'
<1>1. ASSUME NEW a, NEW b, There(a, b) PROVE There(a, b)'
  BY <1>1 DEF There
<1>2. \A a : BeforeFrom(a) => BeforeFrom(a)'
  BY <1>1 DEF BeforeFrom, Numbers
<1>3. \A a : AfterFrom(a) => AfterFrom(a)'
  BY <1>1 DEF AfterFrom, Numbers
<1>4. ASSUME NEW w \in wire, w.type = "ask", AskSound(w) PROVE AskSound(w)'
  BY <1>2, <1>3, <1>4 DEF AskSound
<1>5. ASSUME NEW w \in wire, w.type = "page", PageSound(w) PROVE PageSound(w)'
  <2>1. w.rows \subseteq 1..size'
    BY <1>5 DEF PageSound, Numbers
  <2>2. ASSUME flight = "before" PROVE BeforePage(w)'
    <3>1. BeforePage(w)
      BY <1>5, <2>2 DEF PageSound
    <3>2. 1..size \subseteq 1..size'
      BY DEF Numbers
    <3>3. QED
      BY <1>2, <3>1, <3>2 DEF BeforePage
  <2>3. ASSUME flight = "after" PROVE AfterPage(w)'
    <3>1. AfterPage(w)
      BY <1>5, <2>3 DEF PageSound
    <3>2. 0..size \subseteq 0..size'
      BY DEF Numbers
    <3>3. QED
      BY <1>3, <3>1, <3>2 DEF AfterPage
  <2>4. ASSUME flight = "latest", w.whole PROVE NewestPage(w)'
    <3>1. NewestPage(w) /\ w.rows \subseteq 1..size
      BY <1>5, <2>4 DEF PageSound
    <3> SUFFICES ASSUME NEW r \in w.rows, NEW q \in r..size'
                 PROVE  q \in w.rows \/ q \in Skipped \/ q \in Kept'
      BY DEF NewestPage
    <3>2. r \in Nat /\ size \in Nat /\ (q \in r..size \/ q \in (size + 1)..size')
      BY <3>1 DEF Numbers
    <3>3. CASE q \in r..size
      BY <3>1, <3>3 DEF NewestPage
    <3>4. CASE q \in (size + 1)..size'
      BY <2>4, <3>4
    <3>5. QED
      BY <3>2, <3>3, <3>4
  <2>5. QED
    BY <1>5, <2>1, <2>2, <2>3, <2>4 DEF PageSound
<1>6. QED
  BY <1>4, <1>5 DEF WireSound

LEMMA ConnectKeeps == IndInv /\ Connect => IndInv'
<1> SUFFICES ASSUME IndInv, Connect PROVE IndInv'
  OBVIOUS
<1>1. wire = {} /\ wire' = {}
  BY DEF IndInv, Numbers, Connect
<1>2. stored' = stored /\ queued' = {} /\ Kept' = stored /\ size' = size /\ base' = size
  BY DEF Connect, Kept
<1>3. stored # {} => from' \in stored /\ \A r \in stored : r <= from'
  <2>1. stored \in SUBSET (0..size)
    BY DEF IndInv, Numbers
  <2>2. QED
    BY <2>1, Greatest DEF Connect, IndInv, Numbers
<1>4. stored = {} => from' = 0
  BY DEF Connect
<1>5. Numbers'
  <2>1. /\ shown' = shown /\ oldest' = 0 /\ top' = 0 /\ exhausted' = FALSE
        /\ connected' = TRUE /\ joined' = FALSE /\ claimed' = FALSE
    BY DEF Connect
  <2>2. shown \subseteq stored /\ stored \subseteq 1..size /\ size \in Nat
    BY DEF IndInv, Numbers, Connect, Kept
  <2>3. from' \in 0..size /\ (from' # 0 => from' \in stored /\ from' <= size)
    <3>1. CASE stored = {}
      BY <1>4, <2>2, <3>1
    <3>2. CASE stored # {}
      <4>1. from' \in 1..size
        BY <1>3, <2>2, <3>2
      <4>2. QED
        BY <1>3, <2>2, <3>2, <4>1
    <3>3. QED
      BY <3>1, <3>2
  <2>4. /\ ~exhausted' /\ ~joined' /\ connected'
        /\ connected' \in BOOLEAN /\ claimed' \in BOOLEAN /\ exhausted' \in BOOLEAN
    BY <2>1
  <2>5. QED
    BY <1>1, <1>2, <2>1, <2>2, <2>3, <2>4 DEF Numbers
<1>6. Fetched' /\ WireSound'
  BY <1>1 DEF Fetched, WireSound, Connect
<1>7. GapSide'
  BY <1>2, <1>3, <1>4, <1>5 DEF GapSide, Connect, Numbers
<1>8. OldSide'
  BY <1>2, <1>3, <1>4, <1>5 DEF OldSide, Connect, Numbers
<1>9. QED
  BY <1>5, <1>6, <1>7, <1>8 DEF IndInv

LEMMA DisconnectKeeps == IndInv /\ Disconnect => IndInv'
<1> SUFFICES ASSUME IndInv, Disconnect PROVE IndInv'
  OBVIOUS
<1>1. /\ Kept' = Kept
      /\ UNCHANGED <<size, base, stored, queued, shown, oldest, top, from, lost, exhausted,
                     claimed>>
  BY DEF Disconnect, tracked, Kept
<1>2. wire' = {} /\ connected' = FALSE /\ ~joined'
  BY DEF Disconnect
<1>3. Numbers'
  BY <1>1, <1>2 DEF IndInv, Numbers
<1>4. Fetched'
  BY <1>1 DEF IndInv, Fetched, There
<1>5. QED
  BY <1>2, <1>3, <1>4 DEF IndInv, WireSound

LEMMA SayKeeps == IndInv /\ Say => IndInv'
<1> SUFFICES ASSUME IndInv, Say PROVE IndInv'
  OBVIOUS
<1>1. /\ size' = size + 1 /\ stored' = stored
      /\ UNCHANGED <<base, oldest, top, from, lost, exhausted, claimed, flight, wire, connected,
                     joined>>
  BY DEF Say, tracked
<1>2. IF joined THEN shown' = shown \cup {size'} /\ Kept' = Kept \cup {size'}
                     /\ queued' = queued \cup {size'}
                ELSE shown' = shown /\ Kept' = Kept /\ queued' = queued
  BY <1>1 DEF Say, Kept
<1>3. Kept \subseteq Kept' /\ size \in Nat /\ Kept \subseteq 1..size
  BY <1>2 DEF IndInv, Numbers, Kept
<1>4. Numbers'
  <2>1. Numbers /\ 1..size \subseteq 1..size' /\ 0..size \subseteq 0..size' /\ size' \in 1..size'
    BY <1>1, <1>3 DEF IndInv
  <2>2. shown' \subseteq Kept' /\ queued' \subseteq 1..size'
    BY <1>2, <2>1 DEF Numbers
  <2>3. size' \in Nat /\ base \in 0..size' /\ oldest \in 0..size' /\ top \in 0..size'
        /\ from \in 0..size' /\ stored \subseteq 1..size'
    BY <1>1, <1>3, <2>1 DEF Numbers
  <2>4. QED
    BY <1>1, <2>1, <2>2, <2>3 DEF Numbers
<1>5. Fetched'
  BY <1>1, <1>3 DEF IndInv, Fetched, There
<1>6. WireSound'
  <2>1. wire # {} /\ flight = "latest" => joined
    BY DEF IndInv, Numbers, GapSide
  <2>2. wire # {} /\ flight = "latest" => \A q \in (size + 1)..size' : q \in Kept'
    BY <1>1, <1>2, <1>3, <2>1
  <2>3. QED
    BY <1>1, <1>3, <2>2, WireStays DEF IndInv
<1>7. ASSUME connected PROVE GapSide'
  BY <1>1, <1>2, <1>3, <1>7 DEF IndInv, GapSide, Numbers, There
<1>8. ASSUME connected PROVE OldSide'
  <2>1. CASE joined
    <3>1. OldSide /\ Kept' = Kept \cup {size + 1} /\ queued' = queued \cup {size + 1}
      BY <1>1, <1>2, <1>8, <2>1 DEF IndInv
    <3>2. ASSUME from = 0, oldest = 0, "gap" \notin lost, NEW r \in Kept'
          PROVE  There(r, size)'
      BY <1>1, <1>3, <3>1, <3>2 DEF OldSide, There
    <3>3. QED
      BY <1>1, <1>3, <2>1, <3>1, <3>2 DEF IndInv, OldSide, Numbers
  <2>2. CASE ~joined
    <3>1. OldSide /\ Kept' = Kept /\ queued' = queued /\ (from = 0 => Kept = {})
      BY <1>1, <1>2, <1>8, <2>2 DEF IndInv, OldSide
    <3>2. QED
      BY <1>1, <3>1 DEF OldSide
  <2>3. QED
    BY <2>1, <2>2
<1>9. QED
  BY <1>1, <1>4, <1>5, <1>6, <1>7, <1>8 DEF IndInv

LEMMA FlushKeeps == IndInv /\ Flush => IndInv'
<1> SUFFICES ASSUME IndInv, Flush PROVE IndInv'
  OBVIOUS
<1>1. /\ stored' = Kept /\ queued' = {} /\ Kept' = Kept
      /\ UNCHANGED <<size, base, shown, oldest, top, from, lost, exhausted, claimed,
                     flight, wire, connected, joined>>
  BY DEF Flush, tracked, Kept
<1>2. Numbers'
  BY <1>1 DEF IndInv, Numbers, Kept
<1>3. Fetched' /\ (connected' => GapSide' /\ OldSide')
  BY <1>1 DEF IndInv, Fetched, GapSide, OldSide, There
<1>4. WireSound'
  BY <1>1, WireStays DEF IndInv, Numbers
<1>5. QED
  BY <1>2, <1>3, <1>4 DEF IndInv

LEMMA JoinKeeps == IndInv /\ Join => IndInv'
<1> SUFFICES ASSUME IndInv, Join PROVE IndInv'
  OBVIOUS
<1>1. /\ Kept' = Kept /\ connected /\ joined'
      /\ UNCHANGED <<size, stored, queued, shown, base, oldest, top, from, lost, exhausted, claimed,
                     flight, wire, connected>>
  BY DEF Join, tracked, Kept
<1>2. Numbers' /\ Fetched'
  BY <1>1 DEF IndInv, Numbers, Fetched, There
<1>3. connected' => GapSide' /\ OldSide'
  BY <1>1 DEF IndInv, GapSide, OldSide, There
<1>4. WireSound'
  BY <1>1, WireStays DEF IndInv, Numbers
<1>5. QED
  BY <1>2, <1>3, <1>4 DEF IndInv

LEMMA ClearKeeps == IndInv /\ Clear => IndInv'
<1> SUFFICES ASSUME IndInv, Clear PROVE IndInv'
  OBVIOUS
<1>1. /\ Kept' = Kept /\ shown' = {}
      /\ UNCHANGED <<size, stored, queued, base, oldest, top, from, lost, exhausted, claimed,
                     flight, wire, connected, joined>>
  BY DEF Clear, Kept
<1>2. Numbers' /\ Fetched'
  BY <1>1 DEF IndInv, Numbers, Fetched, There
<1>3. connected' => GapSide' /\ OldSide'
  BY <1>1 DEF IndInv, GapSide, OldSide, There
<1>4. WireSound'
  BY <1>1, WireStays DEF IndInv, Numbers
<1>5. QED
  BY <1>2, <1>3, <1>4 DEF IndInv

\* A request for older rows continues what is there.
LEMMA AnchorGood ==
  ASSUME IndInv, CanFetch, FetchOlder
  PROVE  /\ top' # 0 /\ top' \in 0..size
         /\ BeforeAnchor \in 1..size
         /\ from # 0 => BeforeAnchor <= from
         /\ oldest # 0 => BeforeAnchor = oldest /\ top' = top
         /\ "gap" \notin lost => There(BeforeAnchor, top')
         /\ from # 0 /\ oldest = 0 => \A r \in Kept : r >= top'
<1> DEFINE a == BeforeAnchor
<1>1. connected /\ top' = (IF top = 0 THEN a ELSE top) /\ Kept \subseteq 1..size /\ size \in Nat
  BY DEF CanFetch, FetchOlder, IndInv, Numbers, Kept
<1>2. CASE oldest # 0
  <2>1. a = oldest /\ top # 0 /\ top' = top
    BY <1>1, <1>2 DEF BeforeAnchor, IndInv, Numbers
  <2>2. QED
    BY <1>1, <1>2, <2>1 DEF IndInv, Numbers, Fetched, OldSide
<1>3. CASE oldest = 0
  <2>1. a \in Kept /\ \A r \in stored : a <= r
    <3>1. CASE stored # {}
      <4>1. stored \in SUBSET (0..size)
        BY DEF IndInv, Numbers
      <4>2. QED
        BY <1>1, <1>3, <3>1, <4>1, Least DEF BeforeAnchor, Kept
    <3>2. CASE stored = {}
      <4>1. shown \in SUBSET (0..size) /\ shown # {}
        BY <1>1, <1>3, <3>2 DEF IndInv, Numbers, CanFetch
      <4>2. Min(shown) \in shown
        BY <1>1, <4>1, Least
      <4>3. QED
        BY <1>3, <3>2, <4>2 DEF BeforeAnchor, IndInv, Numbers
    <3>3. QED
      BY <3>1, <3>2
  <2>2. a \in 1..size
    BY <1>1, <2>1
  <2> HIDE DEF a
  <2>3. CASE from # 0
    <3>1. a <= from
      BY <2>1, <2>3 DEF IndInv, Numbers
    <3>2. \A r \in Kept : r >= a
      BY <1>1, <1>3, <2>1, <2>2, <2>3, <3>1 DEF IndInv, OldSide, Numbers, Kept
    <3>3. \A r \in Kept : r >= top'
      BY <1>1, <1>3, <2>3, <3>2 DEF IndInv, OldSide
    <3>4. There(a, top')
      BY <1>1, <2>1, <2>2, <3>3 DEF IndInv, Numbers, There
    <3>5. QED
      BY <1>1, <1>3, <2>2, <2>3, <3>1, <3>3, <3>4 DEF IndInv, Numbers, a
  <2>4. CASE from = 0
    <3>1. "gap" \notin lost => There(a, size)
      BY <1>1, <1>3, <2>1, <2>4 DEF IndInv, OldSide
    <3>2. top' \in 0..size /\ top' # 0
      BY <1>1, <2>2 DEF IndInv, Numbers
    <3>3. "gap" \notin lost => There(a, top')
      BY <1>1, <2>2, <3>1, <3>2 DEF There
    <3>4. QED
      BY <1>3, <2>2, <2>4, <3>2, <3>3 DEF a
  <2>5. QED
    BY <2>3, <2>4
<1>4. QED
  BY <1>2, <1>3

LEMMA ScrollKeeps == IndInv /\ Scroll => IndInv'
<1> SUFFICES ASSUME IndInv, Scroll PROVE IndInv'
  OBVIOUS
<1>1. /\ Kept' = Kept /\ flight = "none" /\ wire = {}
      /\ ("gap" \in lost' <=> "gap" \in lost) /\ ("cleared" \in lost' <=> "cleared" \in lost)
      /\ UNCHANGED <<size, base, stored, queued, oldest, from, exhausted, claimed, connected, joined>>
  BY DEF Scroll, Kept, IndInv, Numbers
<1>2. shown' \subseteq Kept
  BY DEF Scroll, OlderPage, Last, Kept, IndInv, Numbers
<1>3. CASE UNCHANGED <<flight, wire, top>>
  <2>1. Numbers'
    BY <1>1, <1>2, <1>3 DEF IndInv, Numbers
  <2>2. Fetched' /\ (connected' => GapSide' /\ OldSide')
    BY <1>1, <1>3 DEF IndInv, Fetched, GapSide, OldSide, There
  <2>3. QED
    BY <1>1, <1>3, <2>1, <2>2 DEF IndInv, WireSound
<1>4. CASE CanFetch /\ FetchOlder
  <2>1. /\ flight' = "before" /\ connected
        /\ wire' = {[type |-> "ask", dir |-> "before", anchor |-> BeforeAnchor,
                     first |-> oldest = 0]}
    BY <1>4 DEF FetchOlder, Request, CanFetch
  <2>2. /\ top' # 0 /\ top' \in 0..size
        /\ BeforeAnchor \in 1..size
        /\ from # 0 => BeforeAnchor <= from
        /\ oldest # 0 => BeforeAnchor = oldest /\ top' = top
        /\ "gap" \notin lost => There(BeforeAnchor, top')
        /\ from # 0 /\ oldest = 0 => \A r \in Kept : r >= top'
    BY <1>4, AnchorGood
  <2>3. Numbers'
    BY <1>1, <1>2, <2>1, <2>2 DEF IndInv, Numbers
  <2>4. ~exhausted
    BY <1>4 DEF CanFetch
  <2>5. Fetched'
    BY <1>1, <2>2, <2>4 DEF IndInv, Fetched, There
  <2>6. GapSide'
    BY <1>1, <2>1 DEF IndInv, GapSide, There
  <2>7. OldSide'
    <3>1. from # 0 \/ joined
      BY <1>4, <2>1 DEF CanFetch, IndInv, Numbers, OldSide, Kept
    <3>2. QED
      BY <1>1, <2>1, <2>2, <3>1 DEF IndInv, OldSide, There
  <2>8. WireSound'
    <3>1. PICK a : a = BeforeAnchor
      OBVIOUS
    <3>2. PICK w : w = [type |-> "ask", dir |-> "before", anchor |-> a, first |-> oldest = 0]
      OBVIOUS
    <3>3. /\ wire' = {w} /\ w.type = "ask" /\ w.dir = flight' /\ w.anchor = a
          /\ w.first \/ oldest # 0
      BY <2>1, <3>1, <3>2
    <3>4. BeforeFrom(a)'
      BY <1>1, <2>2, <3>1 DEF BeforeFrom, There
    <3>5. AskSound(w)'
      BY <1>1, <2>1, <2>2, <3>3, <3>4 DEF AskSound
    <3>6. QED
      BY <3>3, <3>5 DEF WireSound
  <2>9. QED
    BY <2>3, <2>5, <2>6, <2>7, <2>8 DEF IndInv
<1>5. QED
  BY <1>3, <1>4 DEF Scroll

LEMMA GapFillKeeps == IndInv /\ GapFill => IndInv'
<1> SUFFICES ASSUME IndInv, GapFill PROVE IndInv'
  OBVIOUS
<1>1. /\ Kept' = Kept /\ flight = "none" /\ joined /\ connected /\ ~claimed /\ claimed'
      /\ UNCHANGED <<size, base, stored, queued, shown, oldest, top, from, lost, exhausted,
                     connected, joined>>
  BY DEF GapFill, Kept, IndInv, Numbers
<1>2. GapSide /\ OldSide /\ Numbers
  BY <1>1 DEF IndInv
<1>3. PICK a, w : /\ w = [type |-> "ask", dir |-> flight', anchor |-> a, first |-> oldest = 0]
                  /\ wire' = {w}
                  /\ \/ flight' = "latest" /\ GapAnchors = {}
                     \/ flight' = "after" /\ GapAnchors # {} /\ a = Max(GapAnchors)
  BY DEF GapFill, Request
<1>4. w.type = "ask" /\ w.dir = flight' /\ w.anchor = a /\ flight' \in {"after", "latest"}
  BY <1>3
<1>5. from # 0 => from \in GapAnchors
  BY <1>2 DEF GapAnchors, Numbers
<1>6. flight' = "after" => a \in GapAnchors /\ a \in 0..size /\ \A r \in GapAnchors : r <= a
  <2>1. stored \subseteq 1..size /\ size \in Nat /\ GapAnchors \subseteq stored
    BY <1>2 DEF GapAnchors, Numbers
  <2>2. GapAnchors \in SUBSET (0..size) /\ size \in Nat
    BY <2>1
  <2>3. QED
    BY <1>3, <2>2, Greatest
<1>7. Numbers'
  BY <1>1, <1>2, <1>3, <1>4 DEF Numbers
<1>8. Fetched'
  BY <1>1 DEF IndInv, Fetched, There
<1>9. GapSide'
  BY <1>1, <1>2, <1>3, <1>4, <1>5 DEF GapSide
<1>10. OldSide'
  <2>1. flight' = "after" /\ from = 0 => oldest # 0
    BY <1>1, <1>2, <1>6 DEF OldSide, GapAnchors, Numbers, Kept
  <2>2. QED
    BY <1>1, <1>2, <2>1 DEF OldSide, There
<1>11. AskSound(w)'
  <2>1. flight' = "after" => AfterFrom(a)'
    <3> SUFFICES ASSUME flight' = "after" PROVE AfterFrom(a)'
      OBVIOUS
    <3>1. from # 0 => a = from
      BY <1>1, <1>2, <1>5, <1>6 DEF GapSide, GapAnchors, Kept, Numbers
    <3>2. QED
      BY <1>1, <1>2, <1>6, <3>1 DEF AfterFrom, There, Numbers, Kept
  <2>2. QED
    BY <1>3, <1>4, <2>1 DEF AskSound
<1>12. QED
  BY <1>3, <1>4, <1>7, <1>8, <1>9, <1>10, <1>11 DEF IndInv, WireSound

LEMMA StaleKeeps == IndInv /\ StaleTimeout => IndInv'
<1> SUFFICES ASSUME IndInv, StaleTimeout PROVE IndInv'
  OBVIOUS
<1>1. /\ Kept' = Kept /\ flight' = "none" /\ wire' = {} /\ wire = {} /\ lost \subseteq lost'
      /\ flight # "before" => "gap" \in lost'
      /\ UNCHANGED <<size, base, stored, queued, shown, oldest, top, from, exhausted, claimed,
                     connected, joined>>
  BY DEF StaleTimeout, Kept
<1>2. Numbers'
  BY <1>1 DEF IndInv, Numbers
<1>3. Fetched'
  BY <1>1 DEF IndInv, Fetched, There
<1>4. ASSUME connected PROVE GapSide' /\ OldSide'
  BY <1>1, <1>4 DEF IndInv, GapSide, OldSide, There
<1>5. QED
  BY <1>1, <1>2, <1>3, <1>4 DEF IndInv, WireSound

\* The answer to a request for older rows.
LEMMA OlderAnswer ==
  ASSUME IndInv, NEW q \in wire, q.type = "ask", flight = "before", NEW p, p.type = "page",
         \/ p.whole /\ p.rows = Answer(q)
         \/ ~p.whole /\ oldest # 0 /\ \E n : p.rows = First(n, Answer(q))
  PROVE  PageSound(p)
<1>1. AskSound(q) /\ Numbers
  BY DEF IndInv, WireSound
<1> DEFINE a == q.anchor
           R == 1..(a - 1)
<1>2. top # 0 /\ BeforeFrom(a) /\ Answer(q) = Last(PageSize, R)
  BY <1>1 DEF AskSound, Answer
<1>3. a \in 1..size /\ R \in SUBSET (0..size) /\ size \in Nat /\ PageSize \in Nat
  BY <1>1, <1>2, PageAssumption DEF BeforeFrom, Numbers
<1> HIDE DEF a
<1>4. /\ Last(PageSize, R) \subseteq R
      /\ \A r \in Last(PageSize, R), x \in R : x >= r => x \in Last(PageSize, R)
      /\ Cardinality(Last(PageSize, R)) < PageSize => Last(PageSize, R) = R
  <2> HIDE DEF R
  <2>1. QED
    BY <1>3, LastPage
<1>5. p.rows \subseteq R
  BY <1>2, <1>4 DEF First
<1>6. p.rows \subseteq 1..size /\ \A r \in p.rows : r < a
  BY <1>3, <1>5
<1>7. from # 0 => \A r \in p.rows : r < from
  BY <1>2, <1>3, <1>6 DEF BeforeFrom, IndInv, Numbers
<1>8. ASSUME p.whole PROVE \A r \in p.rows : r..(a - 1) \subseteq p.rows
  BY <1>2, <1>3, <1>4, <1>8
<1>9. ASSUME p.whole, Cardinality(p.rows) < PageSize PROVE 1..(a - 1) \subseteq p.rows
  BY <1>2, <1>4, <1>9
<1>10. BeforePage(p)
  BY <1>2, <1>3, <1>6, <1>7, <1>8, <1>9 DEF BeforePage
<1>11. QED
  BY <1>6, <1>10 DEF PageSound

\* The answer to a request for the gap.
LEMMA NewerAnswer ==
  ASSUME IndInv, NEW q \in wire, q.type = "ask", flight = "after", NEW p, p.type = "page",
         \/ p.whole /\ p.rows = Answer(q)
         \/ ~p.whole /\ \E n \in Nat : p.rows = First(n, Answer(q))
  PROVE  PageSound(p)
<1>1. AskSound(q) /\ Numbers
  BY DEF IndInv, WireSound
<1> DEFINE a == q.anchor
           R == (a + 1)..size
           A == First(PageSize, R)
<1>2. AfterFrom(a) /\ Answer(q) = A
  BY <1>1 DEF AskSound, Answer
<1>3. a \in 0..size /\ R \in SUBSET (0..size) /\ size \in Nat /\ PageSize \in Nat
  BY <1>1, <1>2, PageAssumption DEF AfterFrom, Numbers
<1> HIDE DEF a
<1>4. /\ A \subseteq R
      /\ \A r \in A, x \in R : x <= r => x \in A
      /\ Cardinality(A) < PageSize => A = R
  <2> HIDE DEF R
  <2>1. QED
    BY <1>3, FirstPage
<1>5. A \in SUBSET (0..size)
  BY <1>3, <1>4
<1> HIDE DEF A
<1>6. p.rows \subseteq A /\ \A r \in p.rows, x \in A : x <= r => x \in p.rows
  <2>1. CASE p.whole
    BY <1>2, <1>4, <2>1
  <2>2. CASE ~p.whole
    <3>1. PICK n \in Nat : p.rows = First(n, A)
      BY <1>2, <2>2
    <3>2. QED
      BY <1>3, <1>5, <3>1, FirstPage
  <2>3. QED
    BY <2>1, <2>2
<1>7. p.rows \subseteq 1..size /\ \A r \in p.rows : r > a
  <2>1. p.rows \subseteq R
    BY <1>4, <1>6
  <2>2. QED
    BY <1>3, <2>1
<1>8. \A r \in p.rows : (a + 1)..r \subseteq p.rows
  <2>1. TAKE r \in p.rows
  <2>2. ASSUME NEW x \in (a + 1)..r PROVE x \in p.rows
    <3>1. r \in A /\ r \in R /\ x \in R /\ x <= r
      BY <1>3, <1>4, <1>6, <1>7
    <3>2. QED
      BY <1>4, <1>6, <3>1
  <2>3. QED
    BY <2>2
<1>9. ASSUME p.whole, Cardinality(p.rows) < PageSize PROVE (a + 1)..base \subseteq p.rows
  BY <1>1, <1>2, <1>3, <1>4, <1>9 DEF Numbers
<1>10. AfterPage(p)
  BY <1>2, <1>3, <1>7, <1>8, <1>9 DEF AfterPage
<1>11. QED
  BY <1>7, <1>10 DEF PageSound

LEMMA LatestAnswer ==
  ASSUME IndInv, NEW q \in wire, q.type = "ask", flight = "latest", NEW p, p.type = "page",
         \/ p.whole /\ p.rows = Answer(q)
         \/ ~p.whole /\ \E n : p.rows = First(n, Answer(q))
  PROVE  PageSound(p)
<1>1. AskSound(q) /\ Numbers
  BY DEF IndInv, WireSound
<1> DEFINE R == 1..size
<1>2. Answer(q) = Last(PageSize, R)
  BY <1>1 DEF AskSound, Answer
<1>3. R \in SUBSET (0..size) /\ size \in Nat /\ PageSize \in Nat
  BY <1>1, PageAssumption DEF Numbers
<1>4. /\ Last(PageSize, R) \subseteq R
      /\ \A r \in Last(PageSize, R), x \in R : x >= r => x \in Last(PageSize, R)
  <2> HIDE DEF R
  <2>1. QED
    BY <1>3, LastPage
<1>5. p.rows \subseteq 1..size
  BY <1>2, <1>4 DEF First
<1>6. p.whole => NewestPage(p)
  <2>1. p.whole => \A r \in p.rows : r..size \subseteq p.rows
    BY <1>1, <1>2, <1>3, <1>4, <1>5 DEF Numbers
  <2>2. QED
    BY <2>1 DEF NewestPage
<1>7. QED
  BY <1>5, <1>6 DEF PageSound

LEMMA ServeKeeps == NeverCutFirst /\ IndInv /\ Serve => IndInv'
<1> SUFFICES ASSUME NeverCutFirst, IndInv, Serve PROVE IndInv'
  OBVIOUS
<1>1. UNCHANGED <<size, stored, queued, shown, base, oldest, top, from, lost, exhausted, claimed,
                  connected, joined, flight, Kept>>
  BY DEF Serve, tracked, Kept
<1>2. PICK q \in wire :
        /\ q.type = "ask"
        /\ \/ wire' = {[type |-> "page", rows |-> Answer(q), whole |-> TRUE]}
           \/ /\ ~(q.first /\ q.dir = "before")
              /\ \E n \in 0..Cardinality(Answer(q)) :
                   wire' = {[type |-> "page", rows |-> First(n, Answer(q)), whole |-> FALSE]}
           \/ wire' = {}
  BY DEF Serve, NeverCutFirst
<1>3. AskSound(q) /\ Numbers
  BY <1>2 DEF IndInv, WireSound
<1>4. Cardinality(Answer(q)) \in Nat
  <2>1. Answer(q) \subseteq 0..size
    BY <1>3 DEF Answer, First, Last, AskSound, BeforeFrom, AfterFrom, Numbers
  <2>2. QED
    BY <1>3, <2>1, Counts DEF Numbers
<1>5. Numbers'
  BY <1>1, <1>2, <1>3 DEF Numbers
<1>6. Fetched' /\ (connected' => GapSide' /\ OldSide')
  BY <1>1 DEF IndInv, Fetched, GapSide, OldSide, There
<1>7. ASSUME NEW p, wire' = {p}, p.type = "page",
             \/ p.whole /\ p.rows = Answer(q)
             \/ /\ ~p.whole /\ ~(q.first /\ q.dir = "before")
                /\ \E n \in Nat : p.rows = First(n, Answer(q))
      PROVE  PageSound(p)'
  <2>1. flight = "before" => PageSound(p)
    BY <1>2, <1>3, <1>7, OlderAnswer DEF AskSound
  <2>2. flight = "after" => PageSound(p)
    BY <1>2, <1>7, NewerAnswer
  <2>3. flight = "latest" => PageSound(p)
    BY <1>2, <1>7, LatestAnswer
  <2>4. PageSound(p)
    BY <1>2, <1>3, <2>1, <2>2, <2>3 DEF Numbers
  <2>5. QED
    BY <1>1, <2>4 DEF PageSound, BeforePage, AfterPage, NewestPage, BeforeFrom, AfterFrom, There
<1>8. WireSound'
  <2>1. CASE wire' = {[type |-> "page", rows |-> Answer(q), whole |-> TRUE]}
    <3>1. PICK p : p = [type |-> "page", rows |-> Answer(q), whole |-> TRUE]
      OBVIOUS
    <3>2. wire' = {p} /\ p.type = "page"
      BY <2>1, <3>1
    <3>3. PageSound(p)'
      BY <1>7, <3>1, <3>2
    <3>4. QED
      BY <3>2, <3>3 DEF WireSound
  <2>2. ASSUME ~(q.first /\ q.dir = "before"), NEW n \in 0..Cardinality(Answer(q)),
               wire' = {[type |-> "page", rows |-> First(n, Answer(q)), whole |-> FALSE]}
        PROVE  WireSound'
    <3>1. PICK p : p = [type |-> "page", rows |-> First(n, Answer(q)), whole |-> FALSE]
      OBVIOUS
    <3>2. n \in Nat
      BY <1>4
    <3>3. wire' = {p} /\ p.type = "page"
      BY <2>2, <3>1
    <3>4. PageSound(p)'
      BY <1>7, <2>2, <3>1, <3>2, <3>3
    <3>5. QED
      BY <3>3, <3>4 DEF WireSound
  <2>3. CASE wire' = {}
    BY <2>3 DEF WireSound
  <2>4. QED
    BY <1>2, <2>1, <2>2, <2>3
<1>9. QED
  BY <1>5, <1>6, <1>8 DEF IndInv

\* A page of older rows.
LEMMA OlderPageKeeps ==
  ASSUME IndInv, NEW p \in wire, p.type = "page", flight = "before", Taken(p)
  PROVE  IndInv'
<1> DEFINE talk == Ingested(p.rows)
<1>1. /\ UNCHANGED <<size, stored, shown, base, top, from, claimed, connected, joined>>
      /\ flight' = "none" /\ wire' = {} /\ connected
      /\ queued' = queued \cup (talk \ stored) /\ Kept' = Kept \cup talk
      /\ oldest' = IF p.whole /\ p.rows # {} THEN Older(oldest, Min(p.rows)) ELSE oldest
      /\ exhausted' = (exhausted \/ (p.whole /\ Cardinality(p.rows) < PageSize))
      /\ lost \subseteq lost' /\ ("gap" \in lost' <=> "gap" \in lost)
  BY DEF Taken, Advances, Ends, GapHasMore, GapGoesOn, GivenUp, Kept, IndInv, Numbers
<1>2. Numbers /\ Fetched /\ GapSide /\ OldSide /\ PageSound(p) /\ BeforePage(p)
  BY <1>1 DEF IndInv, WireSound, PageSound
<1>3. /\ talk \subseteq p.rows /\ p.rows \subseteq 1..size /\ size \in Nat
      /\ \A r \in p.rows : r \in Skipped \/ r \in Kept'
  BY <1>1, <1>2 DEF PageSound, Ingested, Numbers
<1>4. ASSUME NEW a, NEW b, There(a, b) PROVE There(a, b)'
  BY <1>1, <1>4 DEF There
<1>5. ASSUME p.whole
      PROVE  \E a \in 1..size :
               /\ BeforeFrom(a)
               /\ \A r \in p.rows : r < a /\ r..(a - 1) \subseteq p.rows
               /\ Cardinality(p.rows) < PageSize => 1..(a - 1) \subseteq p.rows
  BY <1>2, <1>5 DEF BeforePage
<1>6. ASSUME p.whole, p.rows # {}
      PROVE  /\ oldest' = Min(p.rows) /\ oldest' \in p.rows /\ oldest' \in 1..size
             /\ from # 0 => oldest' < from
             /\ "gap" \notin lost => There(oldest, top)'
  <2>1. Min(p.rows) \in p.rows /\ \A r \in p.rows : Min(p.rows) <= r
    <3>1. p.rows \in SUBSET (0..size)
      BY <1>3
    <3>2. QED
      BY <1>3, <1>6, <3>1, Least
  <2>2. PICK a \in 1..size :
          /\ BeforeFrom(a)
          /\ \A r \in p.rows : r < a /\ r..(a - 1) \subseteq p.rows
    BY <1>5, <1>6
  <2>3. PICK m : m = Min(p.rows)
    OBVIOUS
  <2>4. m \in 1..size /\ m \in p.rows /\ m < a
    BY <1>3, <2>1, <2>2, <2>3
  <2>5. oldest' = m
    BY <1>1, <1>2, <1>6, <2>2, <2>3, <2>4 DEF Older, BeforeFrom, Numbers
  <2>6. "gap" \notin lost => There(m, top)'
    <3> SUFFICES ASSUME "gap" \notin lost, NEW q \in m..top PROVE q \in Skipped \/ q \in Kept'
      BY <1>1 DEF There
    <3>1. top \in Int
      BY <1>2 DEF Numbers
    <3>2. CASE q < a
      <4>1. q \in m..(a - 1)
        BY <2>4, <3>1, <3>2
      <4>2. QED
        BY <1>3, <2>2, <2>4, <4>1
    <3>3. CASE q >= a
      <4>1. There(a, top)
        BY <2>2 DEF BeforeFrom
      <4>2. q \in a..top
        BY <2>4, <3>1, <3>3
      <4>3. QED
        BY <1>1, <4>1, <4>2 DEF There
    <3>4. QED
      BY <2>4, <3>1, <3>2, <3>3
  <2>7. QED
    BY <1>2, <1>3, <2>3, <2>4, <2>5, <2>6 DEF BeforePage, There
<1>7. ASSUME p.whole, Cardinality(p.rows) < PageSize, "gap" \notin lost
      PROVE  There(1, top)'
  <2>1. PICK a \in 1..size : BeforeFrom(a) /\ 1..(a - 1) \subseteq p.rows
    BY <1>5, <1>7
  <2>2. There(a, top)
    BY <1>7, <2>1 DEF BeforeFrom
  <2>3. top \in Int
    BY <1>2 DEF Numbers
  <2>4. ASSUME NEW q \in 1..top PROVE q \in Skipped \/ q \in Kept'
    <3>1. CASE q < a
      <4>1. q \in 1..(a - 1)
        BY <2>3, <3>1
      <4>2. QED
        BY <1>3, <2>1, <4>1
    <3>2. CASE q >= a
      <4>1. q \in a..top
        BY <2>3, <3>2
      <4>2. QED
        BY <1>1, <2>2, <4>1 DEF There
    <3>3. QED
      BY <2>3, <3>1, <3>2
  <2>5. QED
    BY <1>1, <2>4 DEF There
<1>8. (p.whole /\ p.rows # {}) \/ oldest' = oldest
  BY <1>1
<1> HIDE DEF talk
<1>9. Numbers'
  <2>1. queued' \subseteq 1..size /\ shown \subseteq Kept'
    BY <1>1, <1>2, <1>3 DEF Numbers
  <2>2. oldest' \in 0..size
    BY <1>2, <1>6, <1>8 DEF Numbers
  <2>3. QED
    BY <1>1, <1>2, <2>1, <2>2 DEF Numbers, BeforePage
<1>10. Fetched'
  <2>1. ASSUME top # 0, "gap" \notin lost, oldest' # 0 PROVE There(oldest, top)'
    <3>1. CASE p.whole /\ p.rows # {}
      BY <1>6, <2>1, <3>1
    <3>2. CASE oldest' = oldest
      BY <1>1, <1>2, <2>1, <3>2 DEF Fetched, There
    <3>3. QED
      BY <1>8, <3>1, <3>2
  <2>2. ASSUME top # 0, "gap" \notin lost, exhausted' PROVE There(1, top)'
    <3>1. CASE exhausted
      BY <1>1, <1>2, <2>2, <3>1 DEF Fetched, There
    <3>2. CASE ~exhausted
      BY <1>1, <1>7, <2>2, <3>2
    <3>3. QED
      BY <3>1, <3>2
  <2>3. QED
    BY <1>1, <2>1, <2>2 DEF Fetched
<1>11. GapSide'
  <2>1. from # 0 /\ ~claimed => \A r \in Kept' : r <= from \/ r > base
    BY <1>1, <1>2, <1>3 DEF GapSide, BeforePage, Numbers
  <2>2. QED
    BY <1>1, <1>2, <2>1 DEF GapSide, There
<1>12. OldSide'
  <2>1. CASE oldest' # 0
    BY <1>1, <1>2, <1>6, <1>8, <2>1 DEF OldSide, Numbers
  <2>2. CASE oldest' = 0
    <3>1. oldest = 0 /\ p.rows = {}
      BY <1>1, <1>2, <1>6, <1>8, <2>2 DEF BeforePage
    <3>2. Kept' = Kept /\ queued' = queued
      BY <1>1, <1>3, <3>1
    <3>3. QED
      BY <1>1, <1>2, <2>2, <3>1, <3>2 DEF OldSide, There
  <2>3. QED
    BY <2>1, <2>2
<1>13. QED
  BY <1>1, <1>9, <1>10, <1>11, <1>12 DEF IndInv, WireSound

\* A page of the gap.
LEMMA NewerPageKeeps ==
  ASSUME IndInv, NEW p \in wire, p.type = "page", flight # "before", Taken(p)
  PROVE  IndInv'
<1> DEFINE talk == Ingested(p.rows)
<1>1. Numbers /\ Fetched /\ connected /\ GapSide /\ OldSide /\ PageSound(p)
  BY DEF IndInv, Numbers, WireSound
<1>2. flight \in {"after", "latest"}
  BY <1>1 DEF Numbers
<1>3. /\ UNCHANGED <<size, stored, base, oldest, top, from, claimed, connected, joined, exhausted>>
      /\ queued' = queued \cup (talk \ stored) /\ Kept' = Kept \cup talk
      /\ shown' \in {shown, shown \cup talk}
      /\ IF GapGoesOn(p) THEN Request("after", Max(p.rows)) ELSE flight' = "none" /\ wire' = {}
      /\ lost \subseteq lost' /\ (p.whole \/ "gap" \in lost')
      /\ p.whole /\ GapHasMore(p) /\ ~GapGoesOn(p) => "cleared" \in lost'
  <2>1. ~Advances(p) /\ ~Ends(p)
    BY <1>2 DEF Advances, Ends
  <2>2. exhausted' = exhausted /\ oldest' = oldest
    BY <1>1, <2>1 DEF Taken, Numbers
  <2>3. /\ lost \subseteq lost' /\ (p.whole \/ "gap" \in lost')
        /\ p.whole /\ GapHasMore(p) /\ ~GapGoesOn(p) => "cleared" \in lost'
    <3>1. lost' = lost \cup GivenUp(p)
      BY DEF Taken
    <3>2. ~p.whole => "gap" \in GivenUp(p)
      BY <1>2 DEF GivenUp
    <3>3. p.whole /\ GapHasMore(p) /\ ~GapGoesOn(p) => "cleared" \in GivenUp(p)
      BY DEF GivenUp
    <3>4. QED
      BY <3>1, <3>2, <3>3
  <2>4. QED
    BY <1>2, <2>2, <2>3 DEF Taken, Spliced, Kept
<1>4. /\ talk \subseteq p.rows /\ p.rows \subseteq 1..size /\ size \in Nat
      /\ \A r \in p.rows : r \in Skipped \/ r \in Kept'
  BY <1>1, <1>3 DEF PageSound, Ingested, Numbers
<1> HIDE DEF talk
<1>5. ASSUME GapGoesOn(p)
      PROVE  /\ flight = "after" /\ p.whole /\ flight' = "after"
             /\ Max(p.rows) \in p.rows /\ \A r \in p.rows : r <= Max(p.rows)
             /\ wire' = {[type |-> "ask", dir |-> "after", anchor |-> Max(p.rows),
                          first |-> oldest = 0]}
  <2>1. Cardinality(p.rows) >= PageSize /\ PageSize > 0 /\ p.whole /\ flight = "after"
    BY <1>5, PageAssumption DEF GapGoesOn, GapHasMore
  <2>2. p.rows # {}
    <3>1. Cardinality({}) = 0 /\ PageSize \in Nat \ {0}
      BY FS_EmptySet, PageAssumption
    <3>2. QED
      BY <2>1, <3>1
  <2>3. p.rows \in SUBSET (0..size)
    BY <1>4
  <2>4. QED
    BY <1>3, <1>4, <1>5, <2>1, <2>2, <2>3, Greatest DEF Request
<1>6. Numbers'
  <2>1. queued' \subseteq 1..size /\ shown' \subseteq Kept'
    BY <1>1, <1>3, <1>4 DEF Numbers
  <2>2. wire' # {} => flight' = "after"
    BY <1>3, <1>5
  <2>3. QED
    BY <1>1, <1>3, <2>1, <2>2 DEF Numbers
<1>7. Fetched'
  BY <1>1, <1>3 DEF Fetched, There
<1>8. ASSUME from # 0, "gap" \notin lost', NEW b \in 0..size,
             \/ b \in p.rows
             \/ ~GapHasMore(p) /\ b = base
      PROVE  There(from, b)'
  <2>1. p.whole /\ flight = "after" /\ "gap" \notin lost
    BY <1>1, <1>2, <1>3, <1>8 DEF GapSide
  <2>2. PICK a \in 0..size :
          /\ AfterFrom(a)
          /\ \A r \in p.rows : r > a /\ (a + 1)..r \subseteq p.rows
          /\ p.whole /\ Cardinality(p.rows) < PageSize => (a + 1)..base \subseteq p.rows
    BY <1>1, <2>1 DEF PageSound, AfterPage
  <2>3. There(from, a)
    BY <1>8, <2>1, <2>2 DEF AfterFrom
  <2>4. (a + 1)..b \subseteq p.rows
    <3>1. CASE b \in p.rows
      BY <2>2, <3>1
    <3>2. CASE ~GapHasMore(p) /\ b = base
      <4>1. CASE Cardinality(p.rows) < PageSize
        BY <2>1, <2>2, <3>2, <4>1
      <4>2. CASE ~(Cardinality(p.rows) < PageSize)
        <5>1. p.rows \in SUBSET (0..size) /\ size \in Nat
          BY <1>4
        <5>2. Cardinality(p.rows) \in Nat
          BY <5>1, Counts
        <5>3. Cardinality(p.rows) >= PageSize /\ PageSize > 0
          BY <4>2, <5>2, PageAssumption
        <5>4. p.rows # {}
          <6>1. Cardinality({}) = 0 /\ PageSize \in Nat \ {0}
            BY FS_EmptySet, PageAssumption
          <6>2. QED
            BY <5>3, <6>1
        <5>5. Max(p.rows) \in p.rows
          BY <5>1, <5>4, Greatest
        <5>6. ~(Max(p.rows) <= base)
          BY <2>1, <3>2, <5>3 DEF GapHasMore
        <5>7. PICK r \in p.rows : ~(r <= base)
          BY <5>5, <5>6
        <5>8. r \in Nat /\ base \in Nat
          BY <1>1, <1>4, <5>7 DEF Numbers
        <5>9. (a + 1)..r \subseteq p.rows /\ (a + 1)..base \subseteq (a + 1)..r
          BY <2>2, <5>7, <5>8
        <5>10. QED
          BY <3>2, <5>9
      <4>3. QED
        BY <4>1, <4>2
    <3>3. QED
      BY <1>8, <3>1, <3>2
  <2>5. ASSUME NEW q \in from..b PROVE q \in Skipped \/ q \in Kept'
    <3>1. from \in Nat
      BY <1>1 DEF Numbers
    <3>2. CASE q <= a
      <4>1. q \in from..a
        BY <3>1, <3>2
      <4>2. QED
        BY <1>3, <2>3, <4>1 DEF There
    <3>3. CASE q > a
      <4>1. q \in (a + 1)..b
        BY <3>1, <3>3
      <4>2. QED
        BY <1>4, <2>4, <4>1
    <3>4. QED
      BY <3>1, <3>2, <3>3
  <2>6. QED
    BY <1>3, <2>5 DEF There
<1>9. GapSide'
  <2>1. claimed /\ joined
    BY <1>1, <1>2 DEF GapSide
  <2>2. flight' # "latest"
    BY <1>3, <1>5
  <2>3. from # 0 /\ flight' # "after" /\ lost' \cap {"gap", "cleared"} = {} => There(from, base)'
    <3> SUFFICES ASSUME from # 0, flight' # "after", lost' \cap {"gap", "cleared"} = {}
                 PROVE  There(from, base)'
      OBVIOUS
    <3>1. PICK b : b = base
      OBVIOUS
    <3>2. There(from, b)'
      BY <1>1, <1>3, <1>5, <1>8, <3>1 DEF Numbers
    <3>3. QED
      BY <1>3, <3>1, <3>2
  <2>4. QED
    BY <1>1, <1>3, <2>1, <2>2, <2>3 DEF GapSide
<1>10. OldSide'
  <2>1. ASSUME from # 0 PROVE \A r \in p.rows : r > from
    <3>1. flight = "after"
      BY <1>1, <1>2, <2>1 DEF GapSide
    <3>2. PICK a \in 0..size : AfterFrom(a) /\ \A r \in p.rows : r > a
      BY <1>1, <3>1 DEF PageSound, AfterPage
    <3>3. QED
      BY <1>1, <1>4, <2>1, <3>2 DEF AfterFrom, Numbers
  <2>2. ASSUME from # 0, oldest = 0, top # 0 PROVE \A r \in Kept' : r >= top
    <3>1. from \in Kept /\ from >= top
      BY <1>1, <2>2 DEF Numbers, OldSide, Kept
    <3>2. QED
      <4>1. ASSUME NEW r \in p.rows PROVE r >= top
        <5>1. r > from /\ r \in Nat /\ from \in Nat /\ top \in Nat
          BY <1>1, <1>4, <2>1, <2>2 DEF Numbers
        <5>2. QED
          BY <3>1, <5>1
      <4>2. QED
        BY <1>1, <1>3, <1>4, <2>2, <4>1 DEF OldSide
  <2>3. ASSUME from = 0, oldest = 0 PROVE flight = "latest" /\ flight' = "none"
    BY <1>1, <1>2, <1>3, <1>5, <2>3 DEF OldSide
  <2>4. ASSUME from = 0, oldest = 0, "gap" \notin lost', NEW r \in Kept' PROVE There(r, size)'
    <3>1. "gap" \notin lost /\ p.whole
      BY <1>3, <2>4
    <3>2. CASE r \in Kept
      BY <1>1, <1>3, <2>4, <3>1, <3>2 DEF OldSide, There
    <3>3. CASE r \in p.rows
      <4>1. NewestPage(p)
        BY <1>1, <2>3, <2>4, <3>1 DEF PageSound
      <4>2. \A q \in r..size : q \in Skipped \/ q \in Kept'
        BY <1>3, <1>4, <3>3, <4>1 DEF NewestPage
      <4>3. QED
        BY <1>3, <4>2 DEF There
    <3>4. QED
      BY <1>3, <1>4, <2>4, <3>2, <3>3
  <2>5. from # 0 /\ oldest # 0 => oldest <= from
    BY <1>1 DEF OldSide
  <2>6. from # 0 /\ oldest = 0 => \A r \in queued' : r > from
    BY <1>1, <1>3, <1>4, <2>1 DEF OldSide
  <2>7. claimed /\ joined
    BY <1>1, <1>2 DEF GapSide
  <2>8. QED
    BY <1>3, <2>2, <2>3, <2>4, <2>5, <2>6, <2>7 DEF OldSide
<1>11. WireSound'
  <2>1. CASE GapGoesOn(p)
    <3>1. PICK a, w : /\ a = Max(p.rows)
                      /\ w = [type |-> "ask", dir |-> "after", anchor |-> a, first |-> oldest = 0]
      OBVIOUS
    <3>2. wire' = {w} /\ w.type = "ask" /\ w.dir = "after" /\ w.anchor = a /\ flight' = "after"
      BY <1>5, <2>1, <3>1
    <3>3. a \in p.rows /\ a \in 0..size
      BY <1>4, <1>5, <2>1, <3>1
    <3>4. from # 0 => from <= a
      <4> SUFFICES ASSUME from # 0 PROVE from <= a
        OBVIOUS
      <4>1. PICK b \in 0..size : AfterFrom(b) /\ \A r \in p.rows : r > b
        BY <1>1, <1>5, <2>1 DEF PageSound, AfterPage
      <4>2. QED
        BY <1>1, <3>3, <4>1 DEF AfterFrom, Numbers
    <3>5. AfterFrom(a)'
      BY <1>3, <1>8, <3>3, <3>4 DEF AfterFrom
    <3>6. QED
      BY <3>2, <3>5 DEF WireSound, AskSound
  <2>2. CASE ~GapGoesOn(p)
    BY <1>3, <2>2 DEF WireSound
  <2>3. QED
    BY <2>1, <2>2
<1>12. QED
  BY <1>6, <1>7, <1>9, <1>10, <1>11 DEF IndInv

LEMMA ReceiveKeeps == IndInv /\ ReceivePage => IndInv'
<1>1. ASSUME IndInv, ReceivePage PROVE IndInv'
  <2>1. PICK p \in wire : p.type = "page" /\ Taken(p)
    BY <1>1 DEF ReceivePage, Taken
  <2>2. QED
    BY <1>1, <2>1, OlderPageKeeps, NewerPageKeeps
<1>2. QED
  BY <1>1

LEMMA StepIndInv == NeverCutFirst /\ IndInv /\ [Next]_vars => IndInv'
<1> SUFFICES ASSUME NeverCutFirst, IndInv, [Next]_vars PROVE IndInv'
  OBVIOUS
<1>1. CASE UNCHANGED vars
  BY <1>1 DEF vars, tracked, IndInv, Numbers, Fetched, GapSide, OldSide, WireSound, AskSound,
              PageSound, BeforePage, AfterPage, NewestPage, BeforeFrom, AfterFrom, There, Kept
<1>2. CASE Next
  BY <1>2, ConnectKeeps, DisconnectKeeps, JoinKeeps, ClearKeeps, SayKeeps, FlushKeeps, ScrollKeeps, GapFillKeeps,
     StaleKeeps, ServeKeeps, ReceiveKeeps DEF Next
<1>3. QED
  BY <1>1, <1>2

-----------------------------------------------------------------------------
(* What the tables hold, whatever the server cuts.                         *)

RowsOK ==
  /\ size \in 0..MaxRows /\ base \in 0..size
  /\ stored \subseteq 1..size /\ queued \subseteq (1..size) \ stored /\ shown \subseteq Kept
  /\ oldest \in 0..size /\ oldestIngested \in 0..size /\ top \in 0..size /\ from \in 0..size

FlagsOK ==
  /\ atEnd \in BOOLEAN /\ connected \in BOOLEAN /\ joined \in BOOLEAN /\ exhausted \in BOOLEAN
  /\ claimed \in BOOLEAN /\ suppressed \in BOOLEAN /\ (joined => connected)

\* At most one request or page is on its way, for a request the tracker knows
\* of, and neither names a row the server has not.
FlightOK ==
  /\ lost \subseteq {"gap", "cleared", "cut", "hidden"} /\ left \in 0..MaxFaults
  /\ flight \in {"none", "before", "after", "latest"}
  /\ wire \subseteq Ask \cup Page
  /\ \A v, w \in wire : v = w
  /\ wire # {} => flight # "none" /\ connected
  /\ \A w \in wire : /\ w.type = "page" => w.rows \subseteq 1..size
                     /\ w.type = "ask" => w.anchor \in 0..size

TypeInv == RowsOK /\ FlagsOK /\ FlightOK

\* The oldest, or newest, of a set of rows there are.
LEMMA RowBounds ==
  ASSUME NEW n \in Nat, NEW S \in SUBSET (1..n), S # {}
  PROVE  Min(S) \in S /\ Max(S) \in S /\ Min(S) \in 1..n /\ Max(S) \in 1..n
<1>1. S \in SUBSET (0..n)
  OBVIOUS
<1>2. QED
  BY <1>1, Least, Greatest

LEMMA OneRequest ==
  ASSUME NEW dir \in {"before", "after", "latest"}, NEW anchor \in 0..size, RowsOK,
         Request(dir, anchor)
  PROVE  /\ flight' = dir /\ wire' # {} /\ wire' \subseteq Ask \cup Page
         /\ \A v, w \in wire' : v = w
         /\ \A w \in wire' : w.type = "ask" /\ w.anchor \in 0..size
<1>0. anchor \in 0..MaxRows
  BY RowsAssumption DEF RowsOK
<1>1. [type |-> "ask", dir |-> dir, anchor |-> anchor, first |-> oldest = 0] \in Ask
  BY <1>0 DEF Ask
<1>2. QED
  BY <1>1 DEF Request

LEMMA AnchorRow == RowsOK /\ CanFetch => BeforeAnchor \in 0..size
<1> SUFFICES ASSUME RowsOK, CanFetch PROVE BeforeAnchor \in 0..size
  OBVIOUS
<1>1. size \in Nat /\ shown \subseteq 1..size /\ stored \subseteq 1..size /\ oldest \in 0..size
  BY RowsAssumption DEF RowsOK, Kept
<1>2. stored # {} => Min(stored) \in 1..size
  BY <1>1, RowBounds
<1>3. shown # {} => Min(shown) \in 1..size
  BY <1>1, RowBounds
<1>4. QED
  BY <1>1, <1>2, <1>3 DEF CanFetch, BeforeAnchor

LEMMA InitTypeInv == Init => TypeInv
<1> SUFFICES ASSUME Init PROVE TypeInv
  OBVIOUS
<1>1. stored \subseteq 1..size /\ size \in 0..MaxRows /\ MaxFaults \in Nat
  BY RowsAssumption DEF Init
<1>2. shown \subseteq stored /\ queued = {}
  BY DEF Init, Last
<1>3. RowsOK
  BY <1>1, <1>2 DEF Init, RowsOK, Kept
<1>4. FlagsOK
  BY DEF Init, FlagsOK
<1>5. FlightOK
  BY <1>1 DEF Init, FlightOK
<1>6. QED
  BY <1>3, <1>4, <1>5 DEF TypeInv

\* Connecting, what is said and what is flushed.
LEMMA TalkTypes ==
  ASSUME TypeInv, Connect \/ Disconnect \/ Join \/ Say \/ Flush
  PROVE  TypeInv'
<1>1. CASE Connect
  <2>1. stored # {} => Max(stored) \in 1..size
    BY RowsAssumption, RowBounds DEF TypeInv, RowsOK
  <2>2. RowsOK'
    BY <1>1, <2>1, RowsAssumption DEF Connect, TypeInv, RowsOK, Kept
  <2>3. FlagsOK'
    BY <1>1 DEF Connect, TypeInv, FlagsOK
  <2>4. FlightOK'
    BY <1>1 DEF Connect, TypeInv, FlightOK
  <2>5. QED
    BY <2>2, <2>3, <2>4 DEF TypeInv
<1>2. CASE Disconnect
  <2>1. RowsOK'
    BY <1>2 DEF Disconnect, tracked, TypeInv, RowsOK, Kept
  <2>2. FlagsOK'
    BY <1>2 DEF Disconnect, tracked, TypeInv, FlagsOK
  <2>3. FlightOK'
    BY <1>2, RowsAssumption DEF Disconnect, tracked, TypeInv, FlightOK
  <2>4. QED
    BY <2>1, <2>2, <2>3 DEF TypeInv
<1>3. CASE Say
  <2>1. size' = size + 1 /\ size' \in 0..MaxRows /\ size \in Nat
    BY <1>3, RowsAssumption DEF Say, TypeInv, RowsOK
  <2>2. 1..size \subseteq 1..size' /\ size' \in 1..size' /\ size' \notin 1..size
        /\ 0..size \subseteq 0..size'
    BY <2>1
  <2>3. \/ shown' = shown \cup {size'} /\ queued' = queued \cup {size'}
        \/ shown' = shown /\ queued' = queued
    BY <1>3 DEF Say
  <2>4. RowsOK'
    BY <1>3, <2>1, <2>2, <2>3 DEF Say, tracked, TypeInv, RowsOK, Kept
  <2>5. FlagsOK'
    BY <1>3 DEF Say, tracked, TypeInv, FlagsOK
  <2>6. FlightOK'
    BY <1>3, <2>2 DEF Say, tracked, TypeInv, FlightOK
  <2>7. QED
    BY <2>4, <2>5, <2>6 DEF TypeInv
<1>4. CASE Flush
  <2>1. RowsOK'
    BY <1>4 DEF Flush, tracked, TypeInv, RowsOK, Kept
  <2>2. FlagsOK'
    BY <1>4 DEF Flush, tracked, TypeInv, FlagsOK
  <2>3. FlightOK'
    BY <1>4 DEF Flush, tracked, TypeInv, FlightOK
  <2>4. QED
    BY <2>1, <2>2, <2>3 DEF TypeInv
<1>5. CASE Join
  BY <1>5 DEF Join, tracked, TypeInv, RowsOK, FlagsOK, FlightOK, Kept
<1>6. QED
  BY <1>1, <1>2, <1>3, <1>4, <1>5

\* Requests.
LEMMA RequestTypes ==
  ASSUME TypeInv, Scroll \/ GapFill \/ StaleTimeout \/ Clear
  PROVE  TypeInv'
<1> USE RowsAssumption
<1>0. 0..size \subseteq 0..MaxRows /\ size \in Nat /\ 0 \in 0..size
  BY DEF TypeInv, RowsOK
<1>1. CASE Scroll
  <2>1. PICK page \in SUBSET stored : shown' = shown \cup page
    <3>1. OlderPage \subseteq stored
      BY DEF OlderPage, Last
    <3>2. QED
      BY <1>1, <3>1 DEF Scroll
  <2>2. \/ CanFetch /\ FetchOlder
        \/ UNCHANGED <<flight, suppressed, wire, top>>
    BY <1>1 DEF Scroll
  <2>3. CanFetch => connected /\ BeforeAnchor \in 0..size
    BY AnchorRow DEF TypeInv, CanFetch
  <2>4. top' \in 0..size
    BY <2>2, <2>3 DEF FetchOlder, TypeInv, RowsOK
  <2>5. RowsOK'
    BY <1>1, <2>1, <2>4 DEF Scroll, TypeInv, RowsOK, Kept
  <2>6. FlagsOK'
    <3>1. atEnd' \in BOOLEAN
      BY <1>1, Zenon DEF Scroll
    <3>2. suppressed' \in BOOLEAN
      BY <1>1 DEF Scroll, FetchOlder, Request, TypeInv, FlagsOK
    <3>3. QED
      BY <1>1, <3>1, <3>2 DEF Scroll, TypeInv, FlagsOK
  <2>7. FlightOK'
    <3>1. UNCHANGED <<size, left, connected>> /\ lost' \in {lost, lost \cup {"hidden"}}
      BY <1>1 DEF Scroll
    <3>2. CASE CanFetch /\ FetchOlder
      <4>1. Request("before", BeforeAnchor) /\ BeforeAnchor \in 0..size /\ connected
        BY <2>3, <3>2 DEF FetchOlder
      <4>2. QED
        BY <3>1, <4>1, OneRequest DEF TypeInv, FlightOK
    <3>3. CASE UNCHANGED <<flight, suppressed, wire, top>>
      BY <3>1, <3>3 DEF TypeInv, FlightOK
    <3>4. QED
      BY <2>2, <3>2, <3>3
  <2>8. QED
    BY <2>5, <2>6, <2>7 DEF TypeInv
<1>2. CASE GapFill
  <2>1. GapAnchors # {} => Max(GapAnchors) \in 0..size
    <3>1. GapAnchors \subseteq 1..size
      BY DEF GapAnchors, TypeInv, RowsOK
    <3>2. QED
      BY <1>0, <3>1, RowBounds
  <2>2. \/ Request("latest", 0)
        \/ GapAnchors # {} /\ Request("after", Max(GapAnchors))
    BY <1>2 DEF GapFill
  <2>3. RowsOK'
    BY <1>2 DEF GapFill, TypeInv, RowsOK, Kept
  <2>4. FlagsOK'
    BY <1>2 DEF GapFill, Request, TypeInv, FlagsOK
  <2>5. connected /\ UNCHANGED <<size, lost, left, connected>>
    BY <1>2 DEF GapFill, TypeInv, FlagsOK
  <2>6. /\ flight' \in {"after", "latest"} /\ wire' \subseteq Ask \cup Page
        /\ \A v, w \in wire' : v = w
        /\ \A w \in wire' : w.type = "ask" /\ w.anchor \in 0..size
    BY <1>0, <2>1, <2>2, OneRequest DEF TypeInv
  <2>7. FlightOK'
    BY <2>5, <2>6 DEF TypeInv, FlightOK
  <2>8. QED
    BY <2>3, <2>4, <2>7 DEF TypeInv
<1>3. CASE StaleTimeout
  <2>1. RowsOK'
    BY <1>3 DEF StaleTimeout, TypeInv, RowsOK, Kept
  <2>2. FlagsOK'
    BY <1>3 DEF StaleTimeout, TypeInv, FlagsOK
  <2>3. FlightOK'
    BY <1>3 DEF StaleTimeout, TypeInv, FlightOK
  <2>4. QED
    BY <2>1, <2>2, <2>3 DEF TypeInv
<1>4. CASE Clear
  <2>1. RowsOK'
    BY <1>4 DEF Clear, TypeInv, RowsOK, Kept
  <2>2. suppressed' \in BOOLEAN
    BY <1>4, Zenon DEF Clear
  <2>3. FlagsOK'
    BY <1>4, <2>2 DEF Clear, TypeInv, FlagsOK
  <2>4. FlightOK'
    BY <1>4 DEF Clear, TypeInv, FlightOK
  <2>5. QED
    BY <2>1, <2>3, <2>4 DEF TypeInv
<1>5. QED
  BY <1>1, <1>2, <1>3, <1>4

\* The server.
LEMMA ServeTypes ==
  ASSUME TypeInv, Serve
  PROVE  TypeInv'
<1>1. PICK q \in wire : q.type = "ask" /\ Serve
  BY DEF Serve
<1>2. q \in Ask /\ q.anchor \in 0..MaxRows
  BY <1>1 DEF TypeInv, FlightOK, Ask, Page
<1>3. RowsOK' /\ FlagsOK' /\ UNCHANGED <<size, flight, lost, connected>>
  <2>1. RowsOK' /\ UNCHANGED <<size, flight, lost, connected>>
    BY DEF Serve, tracked, TypeInv, RowsOK, Kept
  <2>2. UNCHANGED <<atEnd, connected, joined, exhausted, claimed, suppressed>>
    BY DEF Serve, tracked
  <2>3. FlagsOK'
    BY <2>2 DEF TypeInv, FlagsOK
  <2>4. QED
    BY <2>1, <2>3
<1>4. left' \in 0..MaxFaults
  <2>1. left' = left \/ (left > 0 /\ left' = left - 1)
    BY DEF Serve
  <2>2. left \in 0..MaxFaults /\ MaxFaults \in Nat
    BY RowsAssumption DEF TypeInv, FlightOK
  <2>3. QED
    BY <2>1, <2>2
<1>5. \A v \in wire : v = q
  BY DEF TypeInv, FlightOK
<1>6. q.anchor \in 0..size /\ size \in 0..MaxRows
  BY <1>1 DEF TypeInv, FlightOK, RowsOK
<1>7. Answer(q) \subseteq 1..size
  <2>1. 1..(q.anchor - 1) \subseteq 1..size /\ (q.anchor + 1)..size \subseteq 1..size
    BY <1>6, RowsAssumption
  <2>2. q.dir \in {"before", "after", "latest"}
    BY <1>2 DEF Ask
  <2>3. \A n, S : First(n, S) \subseteq S /\ Last(n, S) \subseteq S
    BY DEF First, Last
  <2>4. QED
    BY <2>1, <2>2, <2>3 DEF Answer
<1>8. ASSUME NEW rows \in SUBSET (1..size), NEW whole \in BOOLEAN,
             wire' = {[type |-> "page", rows |-> rows, whole |-> whole]}
      PROVE  FlightOK'
  <2>1. rows \subseteq 1..MaxRows
    BY <1>6, RowsAssumption
  <2>2. [type |-> "page", rows |-> rows, whole |-> whole] \in Page
    BY <2>1 DEF Page
  <2>3. flight # "none" /\ connected
    BY <1>1 DEF TypeInv, FlightOK
  <2> DEFINE page == [type |-> "page", rows |-> rows, whole |-> whole]
  <2>4. page \in Page /\ page.type = "page" /\ page.rows \subseteq 1..size
    BY <2>2
  <2>5. wire' = {page}
    BY <1>8
  <2> HIDE DEF page
  <2>6. /\ wire' \subseteq Ask \cup Page /\ \A v, w \in wire' : v = w
        /\ \A w \in wire' : w.type = "page" /\ w.rows \subseteq 1..size
    BY <2>4, <2>5
  <2>7. /\ lost' \subseteq {"gap", "cleared", "cut", "hidden"} /\ flight' # "none" /\ connected'
        /\ flight' \in {"none", "before", "after", "latest"} /\ size' = size
    BY <1>3, <2>3 DEF TypeInv, FlightOK
  <2>8. QED
    BY <1>4, <2>6, <2>7 DEF FlightOK
<1>9. \A n : First(n, Answer(q)) \in SUBSET (1..size)
  BY <1>7 DEF First
<1>10. \/ wire' = {}
       \/ \E rows \in SUBSET (1..size), whole \in BOOLEAN :
            wire' = {[type |-> "page", rows |-> rows, whole |-> whole]}
  <2>1. PICK r \in wire :
          \/ wire' = {[type |-> "page", rows |-> Answer(r), whole |-> TRUE]}
          \/ \E n : wire' = {[type |-> "page", rows |-> First(n, Answer(r)), whole |-> FALSE]}
          \/ wire' = {}
    BY DEF Serve
  <2>2. r = q
    BY <1>5
  <2>3. QED
    BY <1>7, <1>9, <2>1, <2>2
<1>11. ASSUME wire' = {} PROVE FlightOK'
  BY <1>3, <1>4, <1>11 DEF TypeInv, FlightOK
<1>12. QED
  BY <1>3, <1>8, <1>10, <1>11 DEF TypeInv

\* Pages.
LEMMA ReceiveTypes ==
  ASSUME TypeInv, ReceivePage
  PROVE  TypeInv'
<1> USE RowsAssumption
<1>1. PICK p \in wire : p.type = "page" /\ Taken(p) /\ UNCHANGED left
                     /\ atEnd' = (atEnd /\ Ingested(p.rows) = {})
                     /\ (\/ oldestIngested' = oldestIngested
                         \/ /\ Ingested(p.rows) # {}
                            /\ oldestIngested' = Older(oldestIngested, Min(Ingested(p.rows))))
  BY DEF ReceivePage, Taken
<1> DEFINE talk == Ingested(p.rows)
<1>2. /\ p.rows \subseteq 1..size /\ size \in Nat /\ connected
      /\ talk \subseteq 1..size /\ talk \subseteq p.rows
  BY <1>1 DEF TypeInv, RowsOK, FlightOK, Ingested
<1>3. /\ p.rows # {} => Min(p.rows) \in 1..size /\ Max(p.rows) \in 1..size
      /\ talk # {} => Min(talk) \in 1..size
  <2> HIDE DEF talk
  <2>1. QED
    BY <1>2, RowBounds
<1>4. /\ queued' = queued \cup (talk \ stored)
      /\ shown' = shown \/ shown' = shown \cup talk
      /\ UNCHANGED <<size, stored, connected, joined, base, claimed, top, from>>
  BY <1>1 DEF Taken, Spliced
<1>5. oldest' \in 0..size /\ oldestIngested' \in 0..size
  <2>1. oldest' = oldest \/ (p.rows # {} /\ oldest' = Older(oldest, Min(p.rows)))
    BY <1>1 DEF Taken
  <2>2. QED
    BY <1>1, <1>2, <1>3, <2>1 DEF Older, TypeInv, RowsOK
<1>6. RowsOK'
  <2> HIDE DEF talk
  <2>1. queued' \subseteq (1..size) \ stored
    BY <1>2, <1>4 DEF TypeInv, RowsOK
  <2>2. shown' \subseteq stored \cup queued'
    BY <1>4 DEF TypeInv, RowsOK, Kept
  <2>3. QED
    BY <1>4, <1>5, <2>1, <2>2 DEF TypeInv, RowsOK, Kept
<1>7. FlagsOK'
  <2>1. atEnd' \in BOOLEAN
    BY <1>1, Zenon
  <2>2. exhausted' \in BOOLEAN
    BY <1>1, Zenon DEF Taken
  <2>3. suppressed' \in BOOLEAN
    BY <1>1 DEF Taken, Request, TypeInv, FlagsOK
  <2>4. QED
    BY <1>4, <2>1, <2>2, <2>3 DEF TypeInv, FlagsOK
<1>8. FlightOK'
  <2>1. lost' \subseteq {"gap", "cleared", "cut", "hidden"}
    BY <1>1 DEF Taken, GivenUp, TypeInv, FlightOK
  <2>2. CASE flight' = "none" /\ wire' = {}
    BY <1>1, <1>4, <2>1, <2>2 DEF TypeInv, FlightOK
  <2>3. CASE GapGoesOn(p) /\ Request("after", Max(p.rows))
    <3>1. p.rows # {}
      <4>1. Cardinality({}) = 0
        BY FS_EmptySet
      <4>2. Cardinality(p.rows) >= PageSize
        BY <2>3 DEF GapGoesOn, GapHasMore
      <4>3. p.rows = {} => Cardinality(p.rows) = 0
        BY <4>1
      <4>4. QED
        BY <4>2, <4>3, PageAssumption
    <3>2. Max(p.rows) \in 0..size
      BY <1>2, <1>3, <3>1
    <3>3. QED
      BY <1>1, <1>2, <1>4, <2>1, <2>3, <3>2, OneRequest DEF TypeInv, FlightOK
  <2>4. QED
    BY <1>1, <2>2, <2>3 DEF Taken
<1>9. QED
  BY <1>6, <1>7, <1>8 DEF TypeInv

LEMMA StepTypeInv == TypeInv /\ [Next]_vars => TypeInv'
<1> SUFFICES ASSUME TypeInv, [Next]_vars PROVE TypeInv'
  OBVIOUS
<1>1. CASE UNCHANGED vars
  BY <1>1 DEF vars, tracked, TypeInv, RowsOK, FlagsOK, FlightOK, Kept
<1>2. CASE Next
  BY <1>2, TalkTypes, RequestTypes, ServeTypes, ReceiveTypes DEF Next
<1>3. QED
  BY <1>1, <1>2

-----------------------------------------------------------------------------
(* Theorems.                                                               *)

\* chathistory.rs and backlog.rs: whatever pages are lost or cut, what was
\* fetched, what is queued for the log and the anchors of the next requests
\* fit together, as long as the first page of older rows is not cut.
THEOREM HistoryInvariant == NeverCutFirst /\ Spec => []IndInv
<1> SUFFICES ASSUME NeverCutFirst PROVE Spec => []IndInv
  OBVIOUS
<1>1. IndInv /\ [Next]_vars => IndInv'
  BY StepIndInv
<1>2. QED
  BY <1>1, InitIndInv, PTL DEF Spec

\* complete_target: from the row scrolling up started from down to the row it
\* has reached nothing is missing, unless a page of the gap was lost.
THEOREM HistoryScrollbackWhole == NeverCutFirst /\ Spec => []ScrollbackWhole
<1>1. IndInv => ScrollbackWhole
  BY DEF IndInv, Fetched, There, ScrollbackWhole, Ingested
<1>2. QED
  BY <1>1, HistoryInvariant, PTL

\* send_connect_gapfill: once the gap was asked for and no page of it is
\* awaited, it is filled, unless a page of it was lost or /clear came while a
\* full page of it was on its way.
THEOREM HistoryGapFilled == NeverCutFirst /\ Spec => []GapFilled
<1>1. IndInv => GapFilled
  <2> SUFFICES ASSUME IndInv, connected, claimed, from # 0, flight # "after",
                      lost \cap {"gap", "cleared"} = {}
               PROVE  Ingested(from..base) \subseteq Kept
    BY DEF GapFilled
  <2>1. There(from, base)
    BY DEF IndInv, GapSide
  <2>2. QED
    BY <2>1 DEF There, Ingested
<1>2. QED
  BY <1>1, HistoryInvariant, PTL

\* No two requests or pages are on their way at a time, and none without the
\* tracker knowing of it (mark_in_flight); a row that is queued is not in the
\* log, and no anchor names a row there is not.
THEOREM HistoryTypeOK == Spec => []TypeOK
<1>1. TypeInv /\ [Next]_vars => TypeInv'
  BY StepTypeInv
<1>2. TypeInv => TypeOK
  <2>1. ASSUME TypeInv PROVE Cardinality(wire) <= 1
    <3>1. CASE wire = {}
      BY <3>1, FS_EmptySet
    <3>2. CASE \E w : w \in wire
      <4>0. PICK w : w \in wire
        BY <3>2
      <4>1. wire = {w}
        BY <2>1, <4>0 DEF TypeInv, FlightOK
      <4>2. Cardinality({w}) = 1
        BY FS_Singleton
      <4>3. QED
        BY <4>1, <4>2
    <3>3. QED
      BY <3>1, <3>2
  <2>2. TypeInv => {atEnd, connected, joined, exhausted, claimed, suppressed} \subseteq BOOLEAN
    BY Zenon DEF TypeInv, FlagsOK
  <2>3. QED
    BY <2>1, <2>2 DEF TypeInv, RowsOK, FlightOK, TypeOK
<1>3. QED
  BY <1>1, <1>2, InitTypeInv, PTL DEF Spec

=============================================================================
