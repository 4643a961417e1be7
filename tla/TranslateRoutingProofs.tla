----------------------- MODULE TranslateRoutingProofs -----------------------
(***************************************************************************)
(* For every session, every ceiling and every timeout: what the handlers   *)
(* of TranslateRouting do to a buffer is what OrderedTimeline promises, so *)
(* its rows stand in order; no place in the queue and no record of a send  *)
(* is left behind; and no row of the buffer is dropped or shown twice.     *)
(*                                                                         *)
(* The proof goes bottom-up: filters and splices of sequences, what each   *)
(* operation of the queue keeps, what each helper does to a buffer in the  *)
(* hands of a handler (Sound) and to the rows in it (Carried, Gained), the *)
(* records of sent lines, the inductive invariant RoutingInv, the end of a *)
(* handler (HandlerKeeps), one lemma per action, and the theorems.         *)
(***************************************************************************)
EXTENDS TranslateRouting, FiniteSetTheorems, TLAPS

\* The loops of the model: what FoldLeft computes for them.
GiveUps  == INSTANCE FoldFacts WITH Op <- GiveUpOne
Resolves == INSTANCE FoldFacts WITH Op <- Resolve
Inserts  == INSTANCE FoldFacts WITH Op <- InsertRow
Abandons == INSTANCE FoldFacts WITH Op <- ReleaseEchoSlotAndDrain
Files    == INSTANCE FoldFacts WITH Op <- DecorateOwnEcho

-----------------------------------------------------------------------------
(* Filters.                                                                *)

\* Positions of a set up to one of them are counted by that one.
LEMMA Counted ==
  ASSUME NEW n \in Nat, NEW at \in SUBSET (1..n), NEW i \in Nat
  PROVE  /\ IsFiniteSet(at) /\ Cardinality(at) \in 0..n
         /\ IsFiniteSet({j \in at : j <= i})
         /\ Cardinality({j \in at : j <= i}) \in 0..Cardinality(at)
         /\ \A k \in at : i < k =>
              Cardinality({j \in at : j <= i}) < Cardinality({j \in at : j <= k})
<1>0. \A j \in at : j \in Nat /\ j <= n
  OBVIOUS
<1>1. IsFiniteSet(1..n) /\ Cardinality(1..n) = n
  BY FS_Interval
<1>2. IsFiniteSet(at) /\ Cardinality(at) <= n /\ Cardinality(at) \in Nat
  BY <1>1, FS_Subset, FS_CardinalityType
<1> DEFINE low == {j \in at : j <= i}
<1>3. IsFiniteSet(low) /\ Cardinality(low) <= Cardinality(at) /\ Cardinality(low) \in Nat
  BY <1>2, FS_Subset, FS_CardinalityType
<1>4. ASSUME NEW k \in at, i < k PROVE Cardinality(low) < Cardinality({j \in at : j <= k})
  <2> DEFINE up == {j \in at : j <= k}
  <2>1. IsFiniteSet(up) /\ Cardinality(up) \in Nat
    BY <1>2, FS_Subset, FS_CardinalityType
  <2>0. k \in Nat /\ \A j \in at : j <= i => j <= k
    BY <1>0, <1>4
  <2>2. low \subseteq up /\ k \in up /\ k \notin low
    <3>1. \A j \in low : j \in up
      BY <2>0
    <3>2. k <= k /\ ~(k <= i)
      BY <2>0, <1>4
    <3> QED BY <3>1, <3>2
  <2>3. Cardinality(low) <= Cardinality(up)
    BY <2>1, <2>2, FS_Subset
  <2>4. low # up
    BY <2>2
  <2>5. Cardinality(low) # Cardinality(up)
    BY <2>1, <2>2, <2>4, FS_Subset
  <2> QED BY <2>1, <2>3, <2>5, <1>3
<1> QED BY <1>2, <1>3, <1>4

\* Every count up to the size of the set is reached at one of its positions.
LEMMA NthExists ==
  ASSUME NEW n \in Nat, NEW at \in SUBSET (1..n)
  PROVE  \A k \in 1..Cardinality(at) : \E i \in at : Cardinality({j \in at : j <= i}) = k
<1> DEFINE Reached(s) == \A k \in 1..Cardinality(s) : \E i \in s : Cardinality({j \in s : j <= i}) = k
           S == {m \in Nat : \A s \in SUBSET (1..m) : Reached(s)}
<1>1. 0 \in S
  <2>1. \A s \in SUBSET (1..0) : s = {}
    OBVIOUS
  <2>2. \A s \in SUBSET (1..0) : Cardinality(s) = 0
    BY <2>1, FS_EmptySet
  <2> QED BY <2>2
<1>2. ASSUME NEW m \in Nat, m \in S PROVE m + 1 \in S
  <2> SUFFICES ASSUME NEW s \in SUBSET (1..(m + 1)) PROVE Reached(s)
    OBVIOUS
  <2> DEFINE t == s \ {m + 1}
  <2>1. t \in SUBSET (1..m)
    OBVIOUS
  <2>2. Reached(t)
    BY <1>2, <2>1
  <2>3. CASE m + 1 \notin s
    <3>1. t = s
      BY <2>3
    <3> QED BY <2>2, <3>1, Zenon
  <2>4. CASE m + 1 \in s
    <3>1. IsFiniteSet(t) /\ Cardinality(t) \in Nat
      <4>1. IsFiniteSet(t) /\ Cardinality(t) \in 0..m
        BY <2>1, Counted
      <4> QED BY <4>1
    <3>2. Cardinality(s) = Cardinality(t) + 1
      <4>1. s = t \cup {m + 1} /\ m + 1 \notin t
        BY <2>4
      <4>2. Cardinality(t \cup {m + 1}) = Cardinality(t) + 1
        BY <3>1, <4>1, FS_AddElement
      <4> QED BY <4>1, <4>2
    <3>3. \A i \in t : {j \in s : j <= i} = {j \in t : j <= i}
      BY <2>1
    <3>4. {j \in s : j <= m + 1} = s
      <4>1. \A j \in s : j <= m + 1
        OBVIOUS
      <4> QED BY <4>1
    <3> SUFFICES ASSUME NEW k \in 1..Cardinality(s)
                 PROVE  \E i \in s : Cardinality({j \in s : j <= i}) = k
      OBVIOUS
    <3>5. CASE k = Cardinality(s)
      BY <2>4, <3>4, <3>5
    <3>6. CASE k # Cardinality(s)
      <4>1. k \in 1..Cardinality(t)
        BY <3>1, <3>2, <3>6
      <4>2. PICK i \in t : Cardinality({j \in t : j <= i}) = k
        BY <2>2, <4>1
      <4> QED BY <4>2, <3>3
    <3> QED BY <3>5, <3>6
  <2> QED BY <2>3, <2>4
<1>3. Nat \subseteq S
  <2> HIDE DEF S
  <2> QED BY <1>1, <1>2, GiveUps!NatSetInduction
<1> QED BY <1>3

\* The members at some positions, in order and complete.
LEMMA PickedFacts ==
  ASSUME NEW T, NEW s \in Seq(T), NEW at \in SUBSET (1..Len(s))
  PROVE  /\ Picked(s, at) \in Seq(T)
         /\ Len(Picked(s, at)) = Cardinality(at) /\ Cardinality(at) \in 0..Len(s)
         /\ \A k \in 1..Cardinality(at) : Nth(at, k) \in at /\ Picked(s, at)[k] = s[Nth(at, k)]
         /\ \A k, l \in 1..Cardinality(at) : k < l => Nth(at, k) < Nth(at, l)
         /\ \A i \in at : \E k \in 1..Cardinality(at) : Nth(at, k) = i
<1> DEFINE n == Len(s)
           Count(i) == Cardinality({j \in at : j <= i})
<1>1. n \in Nat /\ \A i \in at : i \in Nat /\ i \in 1..Len(s)
  OBVIOUS
<1>2. \A i \in Nat : /\ Cardinality(at) \in 0..n /\ Count(i) \in 0..Cardinality(at)
                     /\ \A k \in at : i < k => Count(i) < Count(k)
  BY <1>1, Counted
<1>3. \A k \in 1..Cardinality(at) : \E i \in at : Count(i) = k
  BY <1>1, NthExists
<1>4. Cardinality(at) \in 0..n
  BY <1>2
<1>5. \A k \in 1..Cardinality(at) : Nth(at, k) \in at /\ Count(Nth(at, k)) = k
  BY <1>3 DEF Nth
<1>6. ASSUME NEW k \in 1..Cardinality(at), NEW l \in 1..Cardinality(at), k < l
      PROVE  Nth(at, k) < Nth(at, l)
  <2> HIDE DEF Count
  <2>1. Nth(at, k) \in Nat /\ Nth(at, l) \in Nat
    BY <1>1, <1>5
  <2>2. Nth(at, l) # Nth(at, k)
    BY <1>5, <1>6
  <2>3. CASE Nth(at, l) < Nth(at, k)
    <3>1. Count(Nth(at, l)) < Count(Nth(at, k))
      BY <2>1, <2>3, <1>2, <1>5
    <3> QED BY <3>1, <1>5, <1>6
  <2> QED BY <2>1, <2>2, <2>3
<1>7. ASSUME NEW i \in at PROVE \E k \in 1..Cardinality(at) : Nth(at, k) = i
  <2> HIDE DEF Count
  <2> DEFINE k == Count(i)
  <2>1. i \in Nat /\ 0 \in Nat /\ 0 < i
    OBVIOUS
  <2>2. Count(0) < k /\ k \in 0..Cardinality(at) /\ Count(0) \in 0..Cardinality(at)
    BY <2>1, <1>2
  <2>3. k \in 1..Cardinality(at)
    BY <2>2, <1>4
  <2>4. Nth(at, k) \in at /\ Count(Nth(at, k)) = Count(i)
    BY <2>3, <1>5
  <2>5. ~(Nth(at, k) < i) /\ ~(i < Nth(at, k))
    <3>1. Nth(at, k) < i => Count(Nth(at, k)) < Count(i)
      BY <2>4, <1>1, <1>2
    <3>2. i < Nth(at, k) => Count(i) < Count(Nth(at, k))
      BY <2>1, <2>4, <1>2
    <3>3. Count(i) \in Nat
      BY <2>2, <1>4
    <3> QED BY <3>1, <3>2, <3>3, <2>4
  <2>6. Nth(at, k) = i
    <3>1. Nth(at, k) \in Nat /\ i \in Nat
      BY <2>4, <1>1
    <3> HIDE DEF k
    <3> QED BY <3>1, <2>5
  <2> QED BY <2>3, <2>6
<1>8. Picked(s, at) \in Seq(T) /\ Len(Picked(s, at)) = Cardinality(at)
      /\ \A k \in 1..Cardinality(at) : Picked(s, at)[k] = s[Nth(at, k)]
  <2>0. \A i \in 1..Len(s) : s[i] \in T
    OBVIOUS
  <2>1. \A k \in 1..Cardinality(at) : s[Nth(at, k)] \in T
    BY <2>0, <1>1, <1>5
  <2> QED BY <2>1, <1>4 DEF Picked
<1> QED BY <1>4, <1>5, <1>6, <1>7, <1>8

-----------------------------------------------------------------------------
(* Sequences that are cut and put together.                                *)

\* What `\o` returns.
LEMMA Joined ==
  ASSUME NEW T, NEW s \in Seq(T), NEW t \in Seq(T)
  PROVE  /\ s \o t \in Seq(T) /\ Len(s \o t) = Len(s) + Len(t)
         /\ \A i \in 1..Len(s) : (s \o t)[i] = s[i]
         /\ \A i \in 1..Len(t) : (s \o t)[Len(s) + i] = t[i]
         /\ \A i \in 1..Len(s \o t) :
              \/ i \in 1..Len(s) /\ (s \o t)[i] = s[i]
              \/ i - Len(s) \in 1..Len(t) /\ i > Len(s) /\ (s \o t)[i] = t[i - Len(s)]
OBVIOUS

LEMMA LessThen ==
  ASSUME NEW x \in Nat, NEW y \in Nat, NEW z \in Nat, x <= y, x # y, y <= z
  PROVE  x < z
OBVIOUS

LEMMA NotBoth ==
  ASSUME NEW x \in Nat, NEW y \in Nat, x <= y, y < x
  PROVE  FALSE
OBVIOUS

\* Members, first members, and positions moved by what is put in front.
LEMMA MemberIn ==
  ASSUME NEW T, NEW s \in Seq(T), NEW k \in 1..Len(s)
  PROVE  s[k] \in T
OBVIOUS

LEMMA FirstIn ==
  ASSUME NEW T, NEW s \in Seq(T), NEW n \in 0..Len(s)
  PROVE  SubSeq(s, 1, n) \in Seq(T)
OBVIOUS

LEMMA MovedOn ==
  ASSUME NEW a \in Nat, NEW m \in Nat, NEW b \in Nat, NEW n \in Nat, a < b, NEW k \in b..n
  PROVE  a + m + k - b + 1 \in 1..(a + m + n - b + 1)
OBVIOUS

LEMMA MovedBehind ==
  ASSUME NEW a \in Nat, NEW m \in Nat, NEW i \in Nat, NEW j \in Nat, i < j, i > a + m
  PROVE  /\ j > a + m /\ j \notin 1..a /\ j - a \notin 1..m
         /\ \A b \in Nat : i - a - m + b - 1 < j - a - m + b - 1
OBVIOUS

\* A middle part put between the first `a` and the last members of s.
Spliced(s, a, mid, b) == SubSeq(s, 1, a) \o mid \o SubSeq(s, b, Len(s))

\* r has the first `a` members of s, then mid, then the members of s from b on.
HasParts(r, s, a, mid, b) ==
  /\ Len(r) = a + Len(mid) + Len(s) - b + 1
  /\ \A i \in 1..a : r[i] = s[i]
  /\ \A i \in 1..Len(mid) : r[a + i] = mid[i]
  /\ \A i \in b..Len(s) : r[a + Len(mid) + i - b + 1] = s[i]

\* A spliced sequence has its parts, whole and in order.
LEMMA SplicedFacts ==
  ASSUME NEW T, NEW s \in Seq(T), NEW mid \in Seq(T),
         NEW a \in 0..Len(s), NEW b \in (a + 1)..(Len(s) + 1)
  PROVE  /\ Spliced(s, a, mid, b) \in Seq(T)
         /\ HasParts(Spliced(s, a, mid, b), s, a, mid, b)
<1> DEFINE front == SubSeq(s, 1, a)
           back == SubSeq(s, b, Len(s))
<1>1. /\ front \in Seq(T) /\ Len(front) = a /\ \A i \in 1..a : front[i] = s[i]
      /\ back \in Seq(T) /\ Len(back) = Len(s) - b + 1
      /\ \A i \in 1..(Len(s) - b + 1) : back[i] = s[b + i - 1]
  OBVIOUS
<1>2. Spliced(s, a, mid, b) = (front \o mid) \o back
  BY DEF Spliced
<1> HIDE DEF front, back
<1>2a. front \in Seq(T) /\ back \in Seq(T)
  BY <1>1
<1>3. /\ front \o mid \in Seq(T) /\ Len(front \o mid) = Len(front) + Len(mid)
      /\ \A i \in 1..Len(front) : (front \o mid)[i] = front[i]
      /\ \A i \in 1..Len(mid) : (front \o mid)[Len(front) + i] = mid[i]
  BY <1>2a, Joined
<1> DEFINE fm == front \o mid
           n == a + Len(mid)
<1>4. fm \in Seq(T) /\ Len(fm) = n /\ n \in Nat /\ a \in Nat /\ Len(mid) \in Nat
      /\ (\A i \in 1..a : fm[i] = s[i])
      /\ (\A i \in 1..Len(mid) : fm[a + i] = mid[i])
  <2>1. a \in Nat /\ Len(mid) \in Nat /\ n \in Nat
    OBVIOUS
  <2>2. fm \in Seq(T) /\ Len(fm) = n
    BY <1>1, <1>3
  <2>3. \A i \in 1..a : fm[i] = s[i]
    BY <1>1, <1>3
  <2>4. \A i \in 1..Len(mid) : fm[a + i] = mid[i]
    BY <1>1, <1>3
  <2> QED BY <2>1, <2>2, <2>3, <2>4
<1> DEFINE r == fm \o back
<1> HIDE DEF fm
<1>4a. fm \in Seq(T)
  BY <1>4
<1>5a. /\ r \in Seq(T) /\ Len(r) = Len(fm) + Len(back)
       /\ \A i \in 1..Len(fm) : r[i] = fm[i]
       /\ \A i \in 1..Len(back) : r[Len(fm) + i] = back[i]
  BY <1>2a, <1>4a, Joined
<1> HIDE DEF r, n
<1>5. r \in Seq(T) /\ Len(r) = n + (Len(s) - b + 1)
      /\ (\A i \in 1..n : r[i] = fm[i])
      /\ (\A i \in 1..(Len(s) - b + 1) : r[n + i] = back[i])
  BY <1>1, <1>4, <1>5a
<1>6. \A i \in 1..a : r[i] = s[i]
  BY <1>4, <1>5 DEF n
<1>7. ASSUME NEW i \in 1..Len(mid) PROVE r[a + i] = mid[i]
  <2>1. a + i \in 1..n
    BY <1>4 DEF n
  <2>2. r[a + i] = fm[a + i] /\ fm[a + i] = mid[i]
    BY <2>1, <1>4, <1>5
  <2> QED BY <2>2
<1>8. ASSUME NEW i \in b..Len(s) PROVE r[a + Len(mid) + i - b + 1] = s[i]
  <2> DEFINE j == i - b + 1
  <2>1. j \in 1..(Len(s) - b + 1) /\ b + j - 1 = i /\ a + Len(mid) + i - b + 1 = n + j
    BY <1>4 DEF n
  <2>2. r[n + j] = back[j] /\ back[j] = s[b + j - 1]
    BY <2>1, <1>1, <1>5
  <2> QED BY <2>1, <2>2
<1>9. Spliced(s, a, mid, b) = r
  BY <1>2 DEF fm, r
<1>10. Len(r) = a + Len(mid) + Len(s) - b + 1
  BY <1>4, <1>5 DEF n
<1>11. r \in Seq(T) /\ HasParts(r, s, a, mid, b)
  BY <1>5, <1>6, <1>7, <1>8, <1>10 DEF HasParts
<1> QED BY <1>9, <1>11

\* Where a member of the result is from.
FromParts(r, s, a, mid, b, i) ==
  \/ i \in 1..a /\ r[i] = s[i]
  \/ i - a \in 1..Len(mid) /\ r[i] = mid[i - a]
  \/ i - a - Len(mid) + b - 1 \in b..Len(s) /\ i > a + Len(mid)
     /\ r[i] = s[i - a - Len(mid) + b - 1]

\* A member of a spliced sequence comes from one of its parts.
LEMMA SplicedFrom ==
  ASSUME NEW T, NEW s \in Seq(T), NEW mid \in Seq(T),
         NEW a \in 0..Len(s), NEW b \in (a + 1)..(Len(s) + 1),
         NEW i \in 1..Len(Spliced(s, a, mid, b))
  PROVE  FromParts(Spliced(s, a, mid, b), s, a, mid, b, i)
<1> DEFINE r == Spliced(s, a, mid, b)
<1>0. r \in Seq(T) /\ HasParts(r, s, a, mid, b)
  BY SplicedFacts
<1>1. /\ r \in Seq(T) /\ Len(r) = a + Len(mid) + Len(s) - b + 1
      /\ \A k \in 1..a : r[k] = s[k]
      /\ \A k \in 1..Len(mid) : r[a + k] = mid[k]
      /\ \A k \in b..Len(s) : r[a + Len(mid) + k - b + 1] = s[k]
  BY <1>0 DEF HasParts
<1> HIDE DEF r
<1>2. a \in Nat /\ b \in Nat /\ Len(s) \in Nat /\ Len(mid) \in Nat /\ i \in Nat
      /\ i \in 1..(a + Len(mid) + Len(s) - b + 1)
  <2>1. a \in Nat /\ b \in Nat /\ Len(s) \in Nat /\ Len(mid) \in Nat
    OBVIOUS
  <2>2. i \in 1..Len(r)
    BY DEF r
  <2>3. i \in 1..(a + Len(mid) + Len(s) - b + 1)
    BY <1>1, <2>2
  <2> QED BY <2>1, <2>3
<1>3. CASE i <= a
  BY <1>1, <1>2, <1>3 DEF FromParts, r
<1>4. CASE a < i /\ i <= a + Len(mid)
  <2>1. i - a \in 1..Len(mid) /\ a + (i - a) = i
    BY <1>2, <1>4
  <2> QED BY <2>1, <1>1 DEF FromParts, r
<1>5. CASE a + Len(mid) < i
  <2> DEFINE k == i - a - Len(mid) + b - 1
  <2>1. k \in b..Len(s) /\ a + Len(mid) + k - b + 1 = i
    BY <1>2, <1>5
  <2> QED BY <2>1, <1>1, <1>5 DEF FromParts, r
<1>6. FromParts(r, s, a, mid, b, i)
  BY <1>2, <1>3, <1>4, <1>5 DEF r
<1> QED BY <1>6 DEF r

\* The first position that passes a test.
LEMMA FirstAt ==
  ASSUME NEW n \in Nat, NEW at \in SUBSET (1..n), at # {}
  PROVE  Min(at) \in at /\ \A i \in at : Min(at) <= i
<1> DEFINE S == {m \in Nat : \A t \in SUBSET Nat : (\E x \in t : x <= m) => \E x \in t : \A y \in t : x <= y}
<1>1. 0 \in S
  OBVIOUS
<1>2. ASSUME NEW m \in Nat, m \in S PROVE m + 1 \in S
  <2> SUFFICES ASSUME NEW t \in SUBSET Nat, NEW z \in t, z <= m + 1
               PROVE  \E x \in t : \A y \in t : x <= y
    OBVIOUS
  <2>0. \A x \in t : x \in Nat
    OBVIOUS
  <2>1. CASE \E x \in t : x <= m
    BY <1>2, <2>1
  <2>2. CASE \A x \in t : ~(x <= m)
    <3>1. \A y \in t : z <= y
      BY <2>0, <2>2
    <3> QED BY <3>1
  <2> QED BY <2>1, <2>2
<1>3. Nat \subseteq S
  <2> HIDE DEF S
  <2> QED BY <1>1, <1>2, GiveUps!NatSetInduction
<1>4. PICK z \in at : TRUE
  OBVIOUS
<1>5. at \in SUBSET Nat /\ z \in Nat /\ z <= z
  OBVIOUS
<1>6. \E x \in at : \A y \in at : x <= y
  BY <1>3, <1>5
<1> QED BY <1>6 DEF Min

\* Two members of the result, in order, come from two places in order.
PairParts(r, s, a, mid, b, i, j) ==
  \/ \E k, l \in (1..a) \cup (b..Len(s)) : k < l /\ r[i] = s[k] /\ r[j] = s[l]
  \/ \E k \in 1..a, l \in 1..Len(mid) : r[i] = s[k] /\ r[j] = mid[l]
  \/ \E k \in 1..Len(mid), l \in b..Len(s) : r[i] = mid[k] /\ r[j] = s[l]
  \/ \E k, l \in 1..Len(mid) : k < l /\ r[i] = mid[k] /\ r[j] = mid[l]

\* Two members of a spliced sequence come from its parts in order.
LEMMA SplicedPair ==
  ASSUME NEW T, NEW s \in Seq(T), NEW mid \in Seq(T),
         NEW a \in 0..Len(s), NEW b \in (a + 1)..(Len(s) + 1),
         NEW i \in 1..Len(Spliced(s, a, mid, b)), NEW j \in 1..Len(Spliced(s, a, mid, b)), i < j
  PROVE  PairParts(Spliced(s, a, mid, b), s, a, mid, b, i, j)
<1> DEFINE r == Spliced(s, a, mid, b)
<1>0. FromParts(r, s, a, mid, b, i) /\ FromParts(r, s, a, mid, b, j)
  BY SplicedFrom
<1>1. \/ i \in 1..a /\ r[i] = s[i]
      \/ i - a \in 1..Len(mid) /\ r[i] = mid[i - a]
      \/ i - a - Len(mid) + b - 1 \in b..Len(s) /\ i > a + Len(mid)
         /\ r[i] = s[i - a - Len(mid) + b - 1]
  BY <1>0 DEF FromParts
<1>2. \/ j \in 1..a /\ r[j] = s[j]
      \/ j - a \in 1..Len(mid) /\ r[j] = mid[j - a]
      \/ j - a - Len(mid) + b - 1 \in b..Len(s) /\ j > a + Len(mid)
         /\ r[j] = s[j - a - Len(mid) + b - 1]
  BY <1>0 DEF FromParts
<1>3. a \in Nat /\ b \in Nat /\ Len(s) \in Nat /\ Len(mid) \in Nat /\ a < b /\ b <= Len(s) + 1
  OBVIOUS
<1>4. r \in Seq(T) /\ Len(r) \in Nat /\ i \in Nat /\ j \in Nat
  BY SplicedFacts
<1> HIDE DEF PairParts
<1>5. CASE i \in 1..a /\ r[i] = s[i]
  <2>1. CASE j \in 1..a /\ r[j] = s[j]
    BY <1>5, <2>1 DEF PairParts
  <2>2. CASE j - a \in 1..Len(mid) /\ r[j] = mid[j - a]
    BY <1>5, <2>2 DEF PairParts
  <2>3. CASE j - a - Len(mid) + b - 1 \in b..Len(s) /\ j > a + Len(mid)
             /\ r[j] = s[j - a - Len(mid) + b - 1]
    <3> DEFINE l == j - a - Len(mid) + b - 1
    <3>1. l \in b..Len(s) /\ i < l
      BY <1>3, <1>4, <1>5, <2>3
    <3> QED BY <1>5, <2>3, <3>1 DEF PairParts
  <2> QED BY <1>2, <2>1, <2>2, <2>3
<1>6. CASE i - a \in 1..Len(mid) /\ r[i] = mid[i - a]
  <2>1. CASE j \in 1..a /\ r[j] = s[j]
    BY <1>3, <1>4, <1>6, <2>1
  <2>2. CASE j - a \in 1..Len(mid) /\ r[j] = mid[j - a]
    <3>1. i - a < j - a
      BY <1>3, <1>4
    <3> QED BY <1>6, <2>2, <3>1 DEF PairParts
  <2>3. CASE j - a - Len(mid) + b - 1 \in b..Len(s) /\ j > a + Len(mid)
             /\ r[j] = s[j - a - Len(mid) + b - 1]
    BY <1>6, <2>3 DEF PairParts
  <2> QED BY <1>2, <2>1, <2>2, <2>3
<1>7. CASE /\ i - a - Len(mid) + b - 1 \in b..Len(s) /\ i > a + Len(mid)
           /\ r[i] = s[i - a - Len(mid) + b - 1]
  <2>1. ~(j \in 1..a) /\ ~(j - a \in 1..Len(mid))
    <3>1. i > a + Len(mid)
      BY <1>7
    <3> QED BY <3>1, <1>3, <1>4, MovedBehind
  <2>2. /\ j - a - Len(mid) + b - 1 \in b..Len(s) /\ j > a + Len(mid)
        /\ r[j] = s[j - a - Len(mid) + b - 1]
    BY <1>2, <2>1
  <2>3. i - a - Len(mid) + b - 1 < j - a - Len(mid) + b - 1
    <3>1. i > a + Len(mid)
      BY <1>7
    <3> QED BY <3>1, <1>3, <1>4, MovedBehind
  <2> QED BY <1>7, <2>2, <2>3 DEF PairParts
<1>8. PairParts(r, s, a, mid, b, i, j)
  BY <1>1, <1>5, <1>6, <1>7
<1> QED BY <1>8 DEF r

-----------------------------------------------------------------------------
(* Queues.                                                                 *)

\* Rows and entries, with keys without bound.
AnyRow == [key : Nat, src : Nat, part : Nat]
Entry  == [id : Nat, kind : {"pending", "reserved", "ready"}, rows : Seq(AnyRow), age : Nat]

\* The rows of an entry are under its id; all but a reservation have one.
Proper(e) ==
  /\ \A k \in 1..Len(e.rows) : e.rows[k].key = e.id
  /\ e.kind # "reserved" => Len(e.rows) = 1

\* Entries stand in the order of their ids, and one that waits has its id to
\* itself.
Sorted(q) ==
  \A i, j \in 1..Len(q) : i < j =>
    /\ q[i].id <= q[j].id
    /\ q[i].id = q[j].id => ~IsWaiting(q[i]) /\ ~IsWaiting(q[j])

\* What every operation of the queue keeps.
QueueOK(q) == q \in Seq(Entry) /\ (\A i \in 1..Len(q) : Proper(q[i])) /\ Sorted(q)

IdsIn(q) == {q[i].id : i \in 1..Len(q)}

\* The places that wait.
Place(e)  == [id |-> e.id, kind |-> e.kind, age |-> e.age]
Places(q) == {Place(q[i]) : i \in {j \in 1..Len(q) : IsWaiting(q[j])}}

\* The rows that an entry, or a queue, holds.
RowsAt(e) == {e.rows[k] : k \in 1..Len(e.rows)}
RowsIn(q) == UNION {RowsAt(q[i]) : i \in 1..Len(q)}

\* No row stands twice in a sequence, nor in a queue.
NoTwice(s) == \A k, l \in 1..Len(s) : k < l => s[k] # s[l]
QueueOnce(q) ==
  /\ \A i \in 1..Len(q) : NoTwice(q[i].rows)
  /\ \A i, j \in 1..Len(q) : i < j => RowsAt(q[i]) \cap RowsAt(q[j]) = {}

\* What an entry of a queue is made of.
LEMMA EntryFacts ==
  ASSUME NEW q \in Seq(Entry), NEW i \in 1..Len(q)
  PROVE  /\ q[i] \in Entry /\ q[i].id \in Nat /\ q[i].rows \in Seq(AnyRow)
         /\ Len(q[i].rows) \in Nat /\ q[i].age \in Nat
         /\ q[i].kind \in {"pending", "reserved", "ready"}
         /\ \A k \in 1..Len(q[i].rows) : q[i].rows[k] \in AnyRow
<1>1. q[i] \in Entry
  OBVIOUS
<1>2. q[i].rows \in Seq(AnyRow)
  BY <1>1 DEF Entry
<1>3. \A k \in 1..Len(q[i].rows) : q[i].rows[k] \in AnyRow
  BY <1>2, MemberIn
<1> QED BY <1>1, <1>2, <1>3 DEF Entry

\* A row that is cleared for delivery under an id.
ClearedAs(e, id) ==
  e \in Entry /\ e.id = id /\ e.kind = "ready" /\ Len(e.rows) = 1 /\ e.rows[1].key = id

\* It is an entry in order, with no row twice.
LEMMA ClearedProper ==
  ASSUME NEW e, NEW id, ClearedAs(e, id)
  PROVE  Proper(e) /\ NoTwice(e.rows)
<1>1. e.id = id /\ Len(e.rows) = 1 /\ e.rows[1].key = id
  BY DEF ClearedAs
<1>2. 1..Len(e.rows) = {1}
  BY <1>1
<1> QED BY <1>1, <1>2 DEF Proper, NoTwice

\* A ready entry is cleared and holds its row.
LEMMA ReadyFacts ==
  ASSUME NEW id \in Nat, NEW row \in AnyRow, row.key = id
  PROVE  ClearedAs(Ready(id, row), id) /\ RowsAt(Ready(id, row)) = {row}
<1>1. Ready(id, row) \in Entry /\ Len(Ready(id, row).rows) = 1 /\ Ready(id, row).rows[1] = row
  BY DEF Ready, Entry
<1> QED BY <1>1 DEF ClearedAs, RowsAt, Ready

\* The entries before a and from b on stay, with rows between them.
Kept(q, a, b) == (1..a) \cup (b..Len(q))

\* The rows of `mid` are distinct, and none of them stays beside it.
MidOnce(q, a, mid, b) ==
  /\ \A k, l \in 1..Len(mid) : k < l => RowsAt(mid[k]) \cap RowsAt(mid[l]) = {}
  /\ \A i \in Kept(q, a, b), k \in 1..Len(mid) : RowsAt(q[i]) \cap RowsAt(mid[k]) = {}

\* r is q with `mid` in the place of the entries between a and b.
StaysSound(r, q, a, mid, b) ==
  /\ QueueOK(r)
  /\ IdsIn(r) \subseteq IdsIn(q) \cup {mid[k].id : k \in 1..Len(mid)}
  /\ Places(r) = {Place(q[i]) : i \in {j \in Kept(q, a, b) : IsWaiting(q[j])}}
  /\ RowsIn(r) = (UNION {RowsAt(q[i]) : i \in Kept(q, a, b)}) \cup RowsIn(mid)
  /\ QueueOnce(q) /\ MidOnce(q, a, mid, b) => QueueOnce(r)

\* Cleared rows put where their id belongs, in the place of nothing or of an
\* entry that waited there.
LEMMA SpliceOK ==
  ASSUME NEW q, QueueOK(q), NEW id \in Nat, NEW mid \in Seq(Entry),
         \A k \in 1..Len(mid) : ClearedAs(mid[k], id),
         NEW a \in 0..Len(q), NEW b \in (a + 1)..(Len(q) + 1),
         \A i \in 1..a : q[i].id <= id, \A i \in b..Len(q) : id <= q[i].id,
         \A i \in Kept(q, a, b) : q[i].id = id => ~IsWaiting(q[i])
  PROVE  StaysSound(Spliced(q, a, mid, b), q, a, mid, b)
<1> DEFINE r == Spliced(q, a, mid, b)
           kept == Kept(q, a, b)
<1>0. kept = (1..a) \cup (b..Len(q))
  BY DEF Kept
<1>1. q \in Seq(Entry) /\ (\A i \in 1..Len(q) : Proper(q[i])) /\ Sorted(q)
  BY DEF QueueOK
<1>2. a \in Nat /\ b \in Nat /\ Len(q) \in Nat /\ a < b /\ kept \subseteq 1..Len(q)
  BY <1>0, <1>1
<1>3. r \in Seq(Entry) /\ HasParts(r, q, a, mid, b)
  BY <1>1, SplicedFacts
<1>4. \A i \in 1..Len(r) : (\E k \in kept : r[i] = q[k]) \/ (\E k \in 1..Len(mid) : r[i] = mid[k])
  <2> SUFFICES ASSUME NEW i \in 1..Len(r)
               PROVE  (\E k \in kept : r[i] = q[k]) \/ (\E k \in 1..Len(mid) : r[i] = mid[k])
    OBVIOUS
  <2>0. FromParts(r, q, a, mid, b, i)
    BY <1>1, SplicedFrom
  <2>1. \/ i \in 1..a /\ r[i] = q[i]
        \/ i - a \in 1..Len(mid) /\ r[i] = mid[i - a]
        \/ i - a - Len(mid) + b - 1 \in b..Len(q) /\ i > a + Len(mid)
           /\ r[i] = q[i - a - Len(mid) + b - 1]
    BY <2>0 DEF FromParts
  <2> HIDE DEF r
  <2> QED BY <2>1, <1>0
<1>5. /\ \A k \in kept : \E i \in 1..Len(r) : r[i] = q[k]
      /\ \A k \in 1..Len(mid) : \E i \in 1..Len(r) : r[i] = mid[k]
  <2> HIDE DEF r
  <2>0. Len(r) = a + Len(mid) + Len(q) - b + 1 /\ Len(mid) \in Nat
    BY <1>3 DEF HasParts
  <2>1. ASSUME NEW k \in 1..a PROVE \E i \in 1..Len(r) : r[i] = q[k]
    <3>1. k \in 1..Len(r)
      BY <2>0, <1>2
    <3> QED BY <3>1, <1>3 DEF HasParts
  <2>2. ASSUME NEW k \in b..Len(q) PROVE \E i \in 1..Len(r) : r[i] = q[k]
    <3>1. a + Len(mid) + k - b + 1 \in 1..(a + Len(mid) + Len(q) - b + 1)
      BY <2>0, <1>2, MovedOn
    <3>2. a + Len(mid) + k - b + 1 \in 1..Len(r)
      BY <2>0, <3>1
    <3> QED BY <3>2, <1>3 DEF HasParts
  <2>3. ASSUME NEW k \in 1..Len(mid) PROVE \E i \in 1..Len(r) : r[i] = mid[k]
    <3>1. a + k \in 1..Len(r)
      BY <2>0, <1>2
    <3> QED BY <3>1, <1>3 DEF HasParts
  <2> QED BY <2>1, <2>2, <2>3, <1>0
<1>6. \A i \in 1..Len(r) : Proper(r[i])
  <2>1. \A k \in 1..Len(mid) : Proper(mid[k])
    <3> SUFFICES ASSUME NEW k \in 1..Len(mid) PROVE Proper(mid[k])
      OBVIOUS
    <3>1. ClearedAs(mid[k], id)
      OBVIOUS
    <3> QED BY <3>1, ClearedProper
  <2> HIDE DEF r
  <2> QED BY <2>1, <1>1, <1>2, <1>4
<1>7. Sorted(r)
  <2> SUFFICES ASSUME NEW i \in 1..Len(r), NEW j \in 1..Len(r), i < j
               PROVE  /\ r[i].id <= r[j].id
                      /\ r[i].id = r[j].id => ~IsWaiting(r[i]) /\ ~IsWaiting(r[j])
    BY DEF Sorted
  <2>0. PairParts(r, q, a, mid, b, i, j)
    BY <1>1, SplicedPair
  <2>1. \/ \E k, l \in kept : k < l /\ r[i] = q[k] /\ r[j] = q[l]
        \/ \E k \in 1..a, l \in 1..Len(mid) : r[i] = q[k] /\ r[j] = mid[l]
        \/ \E k \in 1..Len(mid), l \in b..Len(q) : r[i] = mid[k] /\ r[j] = q[l]
        \/ \E k, l \in 1..Len(mid) : k < l /\ r[i] = mid[k] /\ r[j] = mid[l]
    BY <2>0, <1>0 DEF PairParts
  <2> HIDE DEF r
  <2>2. \A k \in 1..Len(mid) : mid[k].id = id /\ ~IsWaiting(mid[k])
    BY DEF ClearedAs, IsWaiting
  <2>3. CASE \E k, l \in kept : k < l /\ r[i] = q[k] /\ r[j] = q[l]
    BY <2>3, <1>1, <1>2 DEF Sorted
  <2>4. CASE \E k \in 1..a, l \in 1..Len(mid) : r[i] = q[k] /\ r[j] = mid[l]
    BY <2>4, <2>2 DEF Kept
  <2>5. CASE \E k \in 1..Len(mid), l \in b..Len(q) : r[i] = mid[k] /\ r[j] = q[l]
    BY <2>5, <2>2 DEF Kept
  <2>6. CASE \E k, l \in 1..Len(mid) : k < l /\ r[i] = mid[k] /\ r[j] = mid[l]
    <3>1. PICK k \in 1..Len(mid), l \in 1..Len(mid) : r[i] = mid[k] /\ r[j] = mid[l]
      BY <2>6
    <3>2. r[i].id = id /\ r[j].id = id /\ ~IsWaiting(r[i]) /\ ~IsWaiting(r[j]) /\ id <= id
      BY <3>1, <2>2
    <3> QED BY <3>2
  <2> QED BY <2>1, <2>3, <2>4, <2>5, <2>6
<1> HIDE DEF r
<1>8. IdsIn(r) \subseteq IdsIn(q) \cup {mid[k].id : k \in 1..Len(mid)}
  BY <1>2, <1>4 DEF IdsIn
<1>9. Places(r) = {Place(q[i]) : i \in {j \in kept : IsWaiting(q[j])}}
  <2>1. \A k \in 1..Len(mid) : ~IsWaiting(mid[k])
    BY DEF ClearedAs, IsWaiting
  <2> HIDE DEF kept
  <2>2. ASSUME NEW i \in 1..Len(r), IsWaiting(r[i])
        PROVE  Place(r[i]) \in {Place(q[k]) : k \in {j \in kept : IsWaiting(q[j])}}
    <3>1. PICK k \in kept : r[i] = q[k]
      BY <1>4, <2>1, <2>2
    <3>2. k \in {j \in kept : IsWaiting(q[j])}
      BY <2>2, <3>1
    <3> QED BY <3>1, <3>2
  <2>3. ASSUME NEW k \in kept, IsWaiting(q[k]) PROVE Place(q[k]) \in Places(r)
    <3>1. PICK i \in 1..Len(r) : r[i] = q[k]
      BY <1>5
    <3> QED BY <3>1, <2>3 DEF Places
  <2> QED BY <2>2, <2>3 DEF Places
<1>10. RowsIn(r) = (UNION {RowsAt(q[i]) : i \in kept}) \cup RowsIn(mid)
  <2> HIDE DEF kept
  <2>1. ASSUME NEW x \in RowsIn(r) PROVE x \in (UNION {RowsAt(q[i]) : i \in kept}) \cup RowsIn(mid)
    <3>1. PICK i \in 1..Len(r) : x \in RowsAt(r[i])
      BY <2>1 DEF RowsIn
    <3>2. CASE \E k \in kept : r[i] = q[k]
      BY <3>1, <3>2
    <3>3. CASE \E k \in 1..Len(mid) : r[i] = mid[k]
      <4>1. PICK k \in 1..Len(mid) : r[i] = mid[k]
        BY <3>3
      <4>2. RowsAt(mid[k]) \in {RowsAt(mid[l]) : l \in 1..Len(mid)}
        OBVIOUS
      <4>3. x \in RowsAt(mid[k])
        BY <3>1, <4>1
      <4>4. x \in RowsIn(mid)
        BY <4>2, <4>3 DEF RowsIn
      <4> QED BY <4>4
    <3> QED BY <1>4, <3>2, <3>3
  <2>2. ASSUME NEW k \in kept, NEW x \in RowsAt(q[k]) PROVE x \in RowsIn(r)
    BY <1>5, <2>2 DEF RowsIn
  <2>3. ASSUME NEW k \in 1..Len(mid), NEW x \in RowsAt(mid[k]) PROVE x \in RowsIn(r)
    <3>1. PICK i \in 1..Len(r) : r[i] = mid[k]
      BY <1>5
    <3> QED BY <3>1, <2>3 DEF RowsIn
  <2>4. \A x \in RowsIn(mid) : x \in RowsIn(r)
    BY <2>3 DEF RowsIn
  <2>5. \A x \in UNION {RowsAt(q[i]) : i \in kept} : x \in RowsIn(r)
    BY <2>2
    <2> QED BY <2>1, <2>4, <2>5
<1>11. QueueOK(r)
  BY <1>3, <1>6, <1>7 DEF QueueOK
<1>12. ASSUME QueueOnce(q), MidOnce(q, a, mid, b) PROVE QueueOnce(r)
  <2>1. ASSUME NEW i \in 1..Len(r) PROVE NoTwice(r[i].rows)
    <3>1. \A k \in 1..Len(mid) : NoTwice(mid[k].rows)
      BY ClearedProper
    <3>2. \A k \in kept : NoTwice(q[k].rows)
      BY <1>2, <1>12 DEF QueueOnce
    <3> QED BY <3>1, <3>2, <1>4
  <2>2. ASSUME NEW i \in 1..Len(r), NEW j \in 1..Len(r), i < j
        PROVE  RowsAt(r[i]) \cap RowsAt(r[j]) = {}
    <3>0. PairParts(r, q, a, mid, b, i, j)
      BY <2>2, <1>1, SplicedPair DEF r
    <3>1. \/ \E k, l \in kept : k < l /\ r[i] = q[k] /\ r[j] = q[l]
          \/ \E k \in kept, l \in 1..Len(mid) : r[i] = q[k] /\ r[j] = mid[l]
          \/ \E k \in 1..Len(mid), l \in kept : r[i] = mid[k] /\ r[j] = q[l]
          \/ \E k, l \in 1..Len(mid) : k < l /\ r[i] = mid[k] /\ r[j] = mid[l]
      BY <3>0, <1>0 DEF PairParts
    <3> HIDE DEF kept
    <3>2. \A k, l \in kept : k < l => RowsAt(q[k]) \cap RowsAt(q[l]) = {}
      BY <1>2, <1>12 DEF QueueOnce
    <3>3. \A k \in kept, l \in 1..Len(mid) : RowsAt(q[k]) \cap RowsAt(mid[l]) = {}
      BY <1>12 DEF MidOnce, kept
    <3>4. \A k, l \in 1..Len(mid) : k < l => RowsAt(mid[k]) \cap RowsAt(mid[l]) = {}
      BY <1>12 DEF MidOnce
    <3>5. CASE \E k, l \in kept : k < l /\ r[i] = q[k] /\ r[j] = q[l]
      BY <3>2, <3>5
    <3>6. CASE \E k \in kept, l \in 1..Len(mid) : r[i] = q[k] /\ r[j] = mid[l]
      BY <3>3, <3>6
    <3>7. CASE \E k \in 1..Len(mid), l \in kept : r[i] = mid[k] /\ r[j] = q[l]
      BY <3>3, <3>7
    <3>8. CASE \E k, l \in 1..Len(mid) : k < l /\ r[i] = mid[k] /\ r[j] = mid[l]
      BY <3>4, <3>8
    <3> QED BY <3>1, <3>5, <3>6, <3>7, <3>8
  <2> QED BY <2>1, <2>2 DEF QueueOnce
<1> QED BY <1>8, <1>9, <1>10, <1>11, <1>12 DEF r, StaysSound

\* The reservation of an id, if there is one.
LEMMA ReservationFacts ==
  ASSUME NEW q \in Seq(Entry), NEW id
  PROVE  /\ ReservationAt(q, id) \in 0..Len(q)
         /\ ReservationAt(q, id) = 0 => \A j \in 1..Len(q) : ~(q[j].id = id /\ q[j].kind = "reserved")
         /\ ReservationAt(q, id) # 0 => q[ReservationAt(q, id)].id = id /\ q[ReservationAt(q, id)].kind = "reserved"
<1> DEFINE at == {i \in 1..Len(q) : q[i].id = id /\ q[i].kind = "reserved"}
<1>1. ReservationAt(q, id) = IF at # {} THEN Min(at) ELSE 0
  BY DEF ReservationAt, SelectInSeq
<1>2. Len(q) \in Nat /\ at \in SUBSET (1..Len(q))
  OBVIOUS
<1>3. at # {} => Min(at) \in at
  BY <1>2, FirstAt
<1> QED BY <1>1, <1>2, <1>3

\* The first entry of an id, if there is one.
FirstOf(q, id) == SelectInSeq(q, LAMBDA e : e.id = id)

\* The lookup by id (`position` in queue.rs) finds the entry if there is one.
LEMMA FirstOfFacts ==
  ASSUME NEW q \in Seq(Entry), NEW id
  PROVE  /\ FirstOf(q, id) \in 0..Len(q)
         /\ FirstOf(q, id) = 0 => \A j \in 1..Len(q) : q[j].id # id
         /\ FirstOf(q, id) # 0 => q[FirstOf(q, id)].id = id
<1> DEFINE at == {i \in 1..Len(q) : q[i].id = id}
<1>1. FirstOf(q, id) = IF at # {} THEN Min(at) ELSE 0
  BY DEF FirstOf, SelectInSeq
<1>2. Len(q) \in Nat /\ at \in SUBSET (1..Len(q))
  OBVIOUS
<1>3. at # {} => Min(at) \in at
  BY <1>2, FirstAt
<1> QED BY <1>1, <1>2, <1>3

\* The rows that end a reservation, under its id.
Cleared(id, rows) == [i \in 1..Len(rows) |-> Ready(id, rows[i])]

\* The ready entries that take the place of a filled reservation.
LEMMA ClearedFacts ==
  ASSUME NEW id \in Nat, NEW rows \in Seq(AnyRow), \A k \in 1..Len(rows) : rows[k].key = id
  PROVE  /\ Cleared(id, rows) \in Seq(Entry) /\ Len(Cleared(id, rows)) = Len(rows)
         /\ \A k \in 1..Len(rows) : ClearedAs(Cleared(id, rows)[k], id)
                                    /\ RowsAt(Cleared(id, rows)[k]) = {rows[k]}
         /\ RowsIn(Cleared(id, rows)) = {rows[k] : k \in 1..Len(rows)}
<1> DEFINE c == Cleared(id, rows)
<1>1. \A k \in 1..Len(rows) : rows[k] \in AnyRow
  OBVIOUS
<1>2. \A k \in 1..Len(rows) : ClearedAs(Ready(id, rows[k]), id) /\ RowsAt(Ready(id, rows[k])) = {rows[k]}
  BY <1>1, ReadyFacts
<1>3. \A k \in 1..Len(rows) : Ready(id, rows[k]) \in Entry
  BY <1>2 DEF ClearedAs
<1>4. c \in Seq(Entry) /\ Len(c) = Len(rows) /\ \A k \in 1..Len(rows) : c[k] = Ready(id, rows[k])
  BY <1>3 DEF Cleared
<1> HIDE DEF c
<1>5. RowsIn(c) = {rows[k] : k \in 1..Len(rows)}
  <2>1. \A k \in 1..Len(rows) : RowsAt(c[k]) = {rows[k]}
    BY <1>2, <1>4
  <2>2. ASSUME NEW x \in RowsIn(c) PROVE x \in {rows[k] : k \in 1..Len(rows)}
    <3>1. PICK k \in 1..Len(c) : x \in RowsAt(c[k])
      BY DEF RowsIn
    <3>2. k \in 1..Len(rows) /\ x = rows[k]
      BY <3>1, <2>1, <1>4
    <3> QED BY <3>2
  <2>3. ASSUME NEW k \in 1..Len(rows) PROVE rows[k] \in RowsIn(c)
    <3>1. rows[k] \in RowsAt(c[k]) /\ k \in 1..Len(c)
      BY <2>1, <1>4
    <3> QED BY <3>1 DEF RowsIn
  <2> QED BY <2>2, <2>3
<1> QED BY <1>2, <1>4, <1>5 DEF c

\* What keeps the place of every entry, and makes none wait, keeps the order.
LEMMA PointwiseOK ==
  ASSUME NEW q, QueueOK(q), NEW r \in Seq(Entry), Len(r) = Len(q),
         \A i \in 1..Len(q) : /\ r[i].id = q[i].id /\ Proper(r[i])
                              /\ IsWaiting(r[i]) => IsWaiting(q[i])
  PROVE  QueueOK(r) /\ IdsIn(r) = IdsIn(q)
BY DEF QueueOK, Sorted, IdsIn

\* fill_reserved_with and release_reserved: the place ends, nothing else does.
LEMMA FillFacts ==
  ASSUME NEW q, QueueOK(q), NEW id \in Nat, NEW rows \in Seq(AnyRow),
         \A k \in 1..Len(rows) : rows[k].key = id
  PROVE  LET r == FillReservedWith(q, id, rows)
         IN  /\ QueueOK(r) /\ IdsIn(r) \subseteq IdsIn(q)
             /\ Places(r) = {p \in Places(q) : ~(p.id = id /\ p.kind = "reserved")}
             /\ RowsIn(r) = RowsIn(q) \cup IF HoldsReservation(q, id)
                                             THEN {rows[k] : k \in 1..Len(rows)} ELSE {}
             /\ QueueOnce(q) /\ NoTwice(rows) /\ RowsIn(q) \cap {rows[k] : k \in 1..Len(rows)} = {}
                  => QueueOnce(r)
<1> DEFINE r == FillReservedWith(q, id, rows)
           p == ReservationAt(q, id)
           all == q[p].rows \o rows
<1>1. q \in Seq(Entry) /\ (\A i \in 1..Len(q) : Proper(q[i])) /\ Sorted(q) /\ Len(q) \in Nat
  BY DEF QueueOK
<1>2. /\ p \in 0..Len(q)
      /\ p = 0 => \A j \in 1..Len(q) : ~(q[j].id = id /\ q[j].kind = "reserved")
      /\ p # 0 => q[p].id = id /\ q[p].kind = "reserved"
  BY <1>1, ReservationFacts
<1> HIDE DEF p
<1>3. CASE p = 0
  <2>1. r = q /\ ~HoldsReservation(q, id)
    BY <1>3 DEF FillReservedWith, HoldsReservation, p
  <2>2. \A x \in Places(q) : ~(x.id = id /\ x.kind = "reserved")
    BY <1>2, <1>3 DEF Places, Place
  <2> QED BY <2>1, <2>2
<1>4. CASE p # 0
  <2>1. p \in 1..Len(q)
    BY <1>2, <1>4
  <2>2. q[p].rows \in Seq(AnyRow) /\ \A k \in 1..Len(q[p].rows) : q[p].rows[k].key = id
    <3>1. q[p].rows \in Seq(AnyRow)
      BY <1>1, <2>1, EntryFacts
    <3> QED BY <3>1, <1>1, <1>2, <1>4, <2>1 DEF Proper
  <2>3. all \in Seq(AnyRow) /\ Len(all) = Len(q[p].rows) + Len(rows)
        /\ (\A k \in 1..Len(all) : \/ k \in 1..Len(q[p].rows) /\ all[k] = q[p].rows[k]
                                   \/ k - Len(q[p].rows) \in 1..Len(rows) /\ k > Len(q[p].rows)
                                      /\ all[k] = rows[k - Len(q[p].rows)])
        /\ (\A k \in 1..Len(q[p].rows) : all[k] = q[p].rows[k])
        /\ (\A k \in 1..Len(rows) : all[Len(q[p].rows) + k] = rows[k])
    BY <2>2, Joined
  <2>4. \A k \in 1..Len(all) : all[k].key = id
    <3> HIDE DEF all
    <3> SUFFICES ASSUME NEW k \in 1..Len(all) PROVE all[k].key = id
      OBVIOUS
    <3>1. CASE k \in 1..Len(q[p].rows) /\ all[k] = q[p].rows[k]
      BY <3>1, <2>2
    <3>2. CASE k - Len(q[p].rows) \in 1..Len(rows) /\ all[k] = rows[k - Len(q[p].rows)]
      BY <3>2
    <3> QED BY <2>3, <3>1, <3>2
  <2>5. {all[k] : k \in 1..Len(all)} = RowsAt(q[p]) \cup {rows[k] : k \in 1..Len(rows)}
    <3> HIDE DEF all
    <3>1. ASSUME NEW k \in 1..Len(rows) PROVE Len(q[p].rows) + k \in 1..Len(all)
      BY <2>2, <2>3
    <3>2. ASSUME NEW k \in 1..Len(q[p].rows) PROVE k \in 1..Len(all)
      BY <2>2, <2>3
    <3>3. \A k \in 1..Len(all) : all[k] \in RowsAt(q[p]) \cup {rows[l] : l \in 1..Len(rows)}
      BY <2>3, Zenon DEF RowsAt
    <3>4. ASSUME NEW x \in RowsAt(q[p]) PROVE x \in {all[k] : k \in 1..Len(all)}
      <4>1. PICK k \in 1..Len(q[p].rows) : x = q[p].rows[k]
        BY Zenon DEF RowsAt
      <4>2. k \in 1..Len(all) /\ all[k] = x
        BY <2>3, <3>2, <4>1
      <4> QED BY <4>2, Zenon
    <3>5. ASSUME NEW k \in 1..Len(rows) PROVE rows[k] \in {all[l] : l \in 1..Len(all)}
      <4>1. all[Len(q[p].rows) + k] = rows[k]
        BY <2>3
      <4> QED BY <3>1, <4>1, Zenon
    <3> QED BY <3>3, <3>4, <3>5
  <2> HIDE DEF all
  <2> DEFINE mid == Cleared(id, all)
             a == p - 1
             b == p + 1
             kept == Kept(q, a, b)
  <2>6. mid \in Seq(Entry) /\ (\A k \in 1..Len(mid) : ClearedAs(mid[k], id))
        /\ RowsIn(mid) = {all[k] : k \in 1..Len(all)}
    BY <2>3, <2>4, ClearedFacts
  <2>7. r = Spliced(q, a, mid, b)
    BY <1>4, Zenon DEF FillReservedWith, Spliced, Cleared, p, all
  <2> HIDE DEF mid, r
  <2>8. /\ a \in 0..Len(q) /\ b \in (a + 1)..(Len(q) + 1) /\ p \notin kept /\ kept \cup {p} = 1..Len(q)
    BY <2>1, <1>1 DEF Kept
  <2>9. IsWaiting(q[p]) /\ q[p].id = id
    BY <1>2, <1>4 DEF IsWaiting
  <2>10. /\ \A i \in 1..a : q[i].id <= id
         /\ \A i \in b..Len(q) : id <= q[i].id
         /\ \A i \in kept : q[i].id # id
    <3>1. ASSUME NEW i \in 1..a PROVE q[i].id <= id /\ q[i].id # id
      <4>1. i \in 1..Len(q) /\ i < p
        BY <2>1, <1>1
      <4> QED BY <4>1, <2>1, <2>9, <1>1 DEF Sorted
    <3>2. ASSUME NEW i \in b..Len(q) PROVE id <= q[i].id /\ q[i].id # id
      <4>1. i \in 1..Len(q) /\ p < i
        BY <2>1, <1>1
      <4> QED BY <4>1, <2>1, <2>9, <1>1 DEF Sorted
    <3> QED BY <3>1, <3>2 DEF Kept
  <2> HIDE DEF a, b
  <2>11a. \A i \in Kept(q, a, b) : q[i].id = id => ~IsWaiting(q[i])
    BY <2>10
  <2>11b. StaysSound(Spliced(q, a, mid, b), q, a, mid, b)
    BY <2>6, <2>8, <2>10, <2>11a, SpliceOK
  <2>11. /\ QueueOK(r)
         /\ IdsIn(r) \subseteq IdsIn(q) \cup {mid[k].id : k \in 1..Len(mid)}
         /\ Places(r) = {Place(q[i]) : i \in {j \in kept : IsWaiting(q[j])}}
         /\ RowsIn(r) = (UNION {RowsAt(q[i]) : i \in kept}) \cup RowsIn(mid)
         /\ QueueOnce(q) /\ MidOnce(q, a, mid, b) => QueueOnce(r)
    BY <2>7, <2>11b DEF StaysSound
  <2> HIDE DEF kept
  <2>12. IdsIn(r) \subseteq IdsIn(q)
    <3>1. id \in IdsIn(q)
      BY <2>1, <2>9 DEF IdsIn
    <3>2. \A k \in 1..Len(mid) : mid[k].id = id
      BY <2>6 DEF ClearedAs
    <3> QED BY <3>1, <3>2, <2>11
  <2>13. Places(r) = {x \in Places(q) : ~(x.id = id /\ x.kind = "reserved")}
    <3>1. ASSUME NEW x \in Places(r) PROVE x \in Places(q) /\ x.id # id
      <4>1. PICK i \in kept : IsWaiting(q[i]) /\ x = Place(q[i])
        BY <2>11
      <4> QED BY <4>1, <2>8, <2>10 DEF Places, Place
    <3>2. ASSUME NEW x \in Places(q), ~(x.id = id /\ x.kind = "reserved") PROVE x \in Places(r)
      <4>1. PICK i \in 1..Len(q) : IsWaiting(q[i]) /\ x = Place(q[i])
        BY DEF Places
      <4>2. i # p
        BY <4>1, <3>2, <1>2, <1>4 DEF Place
      <4> QED BY <4>1, <4>2, <2>8, <2>11
    <3> QED BY <3>1, <3>2
  <2>14. RowsIn(r) = RowsIn(q) \cup {rows[k] : k \in 1..Len(rows)}
    <3>1. RowsIn(q) = (UNION {RowsAt(q[i]) : i \in kept}) \cup RowsAt(q[p])
      BY <2>8 DEF RowsIn
    <3> QED BY <3>1, <2>5, <2>6, <2>11
  <2>15. HoldsReservation(q, id)
    BY <1>4 DEF HoldsReservation, p
  <2>16. ASSUME QueueOnce(q), NoTwice(rows), RowsIn(q) \cap {rows[k] : k \in 1..Len(rows)} = {}
         PROVE  QueueOnce(r)
    <3>1. RowsAt(q[p]) \subseteq RowsIn(q) /\ NoTwice(q[p].rows)
      BY <2>1, <2>16 DEF RowsIn, QueueOnce
    <3>2. ASSUME NEW k \in 1..Len(all), NEW l \in 1..Len(all), k < l PROVE all[k] # all[l]
      <4>1. CASE k \in 1..Len(q[p].rows) /\ l \in 1..Len(q[p].rows)
        BY <4>1, <3>1, <3>2, <2>3 DEF NoTwice
      <4>2. CASE k \in 1..Len(q[p].rows) /\ l - Len(q[p].rows) \in 1..Len(rows)
                 /\ all[l] = rows[l - Len(q[p].rows)]
        <5>1. all[k] \in RowsIn(q)
          BY <4>2, <3>1, <2>3 DEF RowsAt
        <5> QED BY <5>1, <4>2, <2>16
      <4>3. CASE /\ k - Len(q[p].rows) \in 1..Len(rows) /\ all[k] = rows[k - Len(q[p].rows)]
                 /\ l - Len(q[p].rows) \in 1..Len(rows) /\ all[l] = rows[l - Len(q[p].rows)]
        <5>1. k - Len(q[p].rows) < l - Len(q[p].rows)
          BY <2>2, <2>3, <3>2
        <5> QED BY <5>1, <4>3, <2>16 DEF NoTwice
      <4>4. k > Len(q[p].rows) => ~(l \in 1..Len(q[p].rows))
        BY <2>2, <2>3, <3>2
      <4> QED BY <4>1, <4>2, <4>3, <4>4, <2>3
    <3>3. \A k \in 1..Len(mid) : k \in 1..Len(all) /\ RowsAt(mid[k]) = {all[k]}
      BY <2>3, <2>4, ClearedFacts DEF mid
    <3>4. \A k, l \in 1..Len(mid) : k < l => RowsAt(mid[k]) \cap RowsAt(mid[l]) = {}
      BY <3>2, <3>3
    <3>5. ASSUME NEW i \in kept, NEW k \in 1..Len(mid) PROVE RowsAt(q[i]) \cap RowsAt(mid[k]) = {}
      <4>1. i \in 1..Len(q) /\ i # p
        BY <2>8
      <4>2. RowsAt(q[i]) \cap RowsAt(q[p]) = {}
        <5>1. i < p \/ p < i
          BY <4>1, <2>1, <1>1
        <5>2. \A k1, k2 \in 1..Len(q) : k1 < k2 => RowsAt(q[k1]) \cap RowsAt(q[k2]) = {}
          BY <2>16 DEF QueueOnce
        <5>3. i < p => RowsAt(q[i]) \cap RowsAt(q[p]) = {}
          BY <5>2, <4>1, <2>1
        <5>4. p < i => RowsAt(q[p]) \cap RowsAt(q[i]) = {}
          BY <5>2, <4>1, <2>1
        <5> QED BY <5>1, <5>3, <5>4
      <4>3. RowsAt(q[i]) \subseteq RowsIn(q)
        BY <4>1 DEF RowsIn
      <4>4. all[k] \in RowsAt(q[p]) \cup {rows[l] : l \in 1..Len(rows)}
        BY <3>3, <2>5
      <4> QED BY <4>2, <4>3, <4>4, <3>3, <2>16
    <3>6. MidOnce(q, a, mid, b)
      BY <3>4, <3>5 DEF MidOnce, kept
    <3> QED BY <3>6, <2>11, <2>16
  <2> QED BY <2>11, <2>12, <2>13, <2>14, <2>15, <2>16 DEF r
<1> QED BY <1>3, <1>4

\* resolve: the first entry of an id no longer waits for the provider.
LEMMA ResolveFacts ==
  ASSUME NEW q, QueueOK(q), NEW id \in Nat
  PROVE  LET r == Resolve(q, id)
         IN  /\ QueueOK(r) /\ IdsIn(r) = IdsIn(q)
             /\ Places(r) = {p \in Places(q) : ~(p.id = id /\ p.kind = "pending")}
             /\ RowsIn(r) = RowsIn(q) /\ (QueueOnce(q) => QueueOnce(r))
<1> DEFINE r == Resolve(q, id)
           p == FirstOf(q, id)
<1>1. q \in Seq(Entry) /\ (\A i \in 1..Len(q) : Proper(q[i])) /\ Sorted(q) /\ Len(q) \in Nat
  BY DEF QueueOK
<1>2. /\ p \in 0..Len(q)
      /\ p = 0 => \A j \in 1..Len(q) : q[j].id # id
      /\ p # 0 => q[p].id = id
  BY <1>1, FirstOfFacts
<1>3. r = IF p = 0 \/ q[p].kind # "pending" THEN q ELSE [q EXCEPT ![p] = Ready(id, q[p].rows[1])]
  BY DEF Resolve, FirstOf
<1> HIDE DEF p, r
<1>4. CASE p = 0 \/ q[p].kind # "pending"
  <2>1. \A i \in 1..Len(q) : q[i].id = id => q[i].kind # "pending"
    <3> SUFFICES ASSUME NEW i \in 1..Len(q), q[i].id = id, q[i].kind = "pending" PROVE FALSE
      OBVIOUS
    <3>1. p # 0 /\ i # p /\ p \in 1..Len(q) /\ i \in Nat /\ p \in Nat
      BY <1>1, <1>2, <1>4
    <3>2. q[p].id = q[i].id
      BY <3>1, <1>2
    <3>3. IsWaiting(q[i])
      BY DEF IsWaiting
    <3> QED BY <3>1, <3>2, <3>3, <1>1 DEF Sorted
  <2>2. \A x \in Places(q) : ~(x.id = id /\ x.kind = "pending")
    BY <2>1 DEF Places, Place
  <2>3. r = q
    BY <1>3, <1>4
  <2> QED BY <2>2, <2>3 DEF r
<1>5. CASE p # 0 /\ q[p].kind = "pending"
  <2>1. p \in 1..Len(q) /\ q[p].id = id /\ IsWaiting(q[p])
    BY <1>2, <1>5 DEF IsWaiting
  <2>2. q[p].rows \in Seq(AnyRow) /\ Len(q[p].rows) = 1 /\ q[p].rows[1] \in AnyRow /\ q[p].rows[1].key = id
    <3>1. q[p].rows \in Seq(AnyRow) /\ Len(q[p].rows) = 1 /\ \A k \in 1..Len(q[p].rows) : q[p].rows[k].key = id
      BY <1>1, <1>5, <2>1, EntryFacts DEF Proper
    <3> QED BY <3>1
  <2> DEFINE row == q[p].rows[1]
             new == Ready(id, row)
  <2>2a. row \in AnyRow /\ row.key = id
    BY <2>2
  <2>3. ClearedAs(new, id) /\ RowsAt(new) = {q[p].rows[1]} /\ RowsAt(q[p]) = {q[p].rows[1]}
    <3>0. RowsAt(q[p]) = {q[p].rows[1]}
      BY <2>2 DEF RowsAt
    <3> HIDE DEF row
    <3>1. ClearedAs(new, id) /\ RowsAt(new) = {row}
      BY <2>2a, ReadyFacts
    <3> QED BY <3>0, <3>1 DEF row
  <2>4. new \in Entry /\ Proper(new) /\ new.id = id /\ ~IsWaiting(new)
    BY <2>3 DEF ClearedAs, Proper, IsWaiting
  <2> HIDE DEF new
  <2>5. r = [q EXCEPT ![p] = new]
    BY <1>3, <1>5 DEF new
  <2>6. r \in Seq(Entry) /\ Len(r) = Len(q) /\ r[p] = new
        /\ \A i \in 1..Len(q) : i # p => r[i] = q[i]
    BY <2>1, <2>4, <2>5, <1>1
  <2>7. \A i \in 1..Len(q) : r[i].id = q[i].id /\ Proper(r[i]) /\ (IsWaiting(r[i]) => IsWaiting(q[i]))
    BY <2>1, <2>4, <2>6, <1>1
  <2>8. QueueOK(r) /\ IdsIn(r) = IdsIn(q)
    BY <2>6, <2>7, PointwiseOK
  <2>9. Places(r) = {x \in Places(q) : ~(x.id = id /\ x.kind = "pending")}
    <3>1. ASSUME NEW i \in 1..Len(q), IsWaiting(r[i]) PROVE Place(r[i]) \in Places(q) /\ Place(r[i]).id # id
      <4>1. i # p /\ r[i] = q[i]
        BY <2>4, <2>6, <3>1
      <4>2. q[i].id # id
        BY <4>1, <3>1, <2>1, <1>1 DEF Sorted
      <4> QED BY <4>1, <4>2, <3>1 DEF Places, Place
    <3>2. ASSUME NEW i \in 1..Len(q), IsWaiting(q[i]), ~(q[i].id = id /\ q[i].kind = "pending")
          PROVE  Place(q[i]) \in Places(r)
      <4>1. i # p /\ r[i] = q[i] /\ i \in 1..Len(r)
        BY <2>1, <2>6, <3>2, <1>5
      <4> QED BY <4>1, <3>2 DEF Places
    <3>3. \A x \in Places(r) : x \in Places(q) /\ x.id # id
      BY <3>1, <2>6 DEF Places
    <3>4. \A x \in Places(q) : ~(x.id = id /\ x.kind = "pending") => x \in Places(r)
      <4> SUFFICES ASSUME NEW x \in Places(q), ~(x.id = id /\ x.kind = "pending") PROVE x \in Places(r)
        OBVIOUS
      <4>1. PICK i \in 1..Len(q) : IsWaiting(q[i]) /\ x = Place(q[i])
        BY DEF Places
      <4>2. ~(q[i].id = id /\ q[i].kind = "pending")
        BY <4>1 DEF Place
      <4> QED BY <4>1, <4>2, <3>2
    <3> QED BY <3>3, <3>4
  <2>10. RowsIn(r) = RowsIn(q)
    <3>1. \A i \in 1..Len(q) : RowsAt(r[i]) = RowsAt(q[i])
      BY <2>3, <2>6 DEF new
    <3> QED BY <3>1, <2>6 DEF RowsIn
  <2>11. ASSUME QueueOnce(q) PROVE QueueOnce(r)
    <3>1. \A i \in 1..Len(q) : RowsAt(r[i]) = RowsAt(q[i])
      BY <2>3, <2>6 DEF new
    <3>2. NoTwice(new.rows)
      BY <2>3 DEF ClearedAs, NoTwice
    <3>3. \A i \in 1..Len(q) : NoTwice(r[i].rows)
      BY <3>2, <2>6, <2>11 DEF QueueOnce
    <3> QED BY <3>1, <3>3, <2>6, <2>11 DEF QueueOnce
  <2> QED BY <2>8, <2>9, <2>10, <2>11 DEF r
<1> QED BY <1>4, <1>5

\* insert_resolved_in_order: behind what is older.
LEMMA InsertFacts ==
  ASSUME NEW q, QueueOK(q), NEW row \in AnyRow, \A p \in Places(q) : p.id # row.key
  PROVE  LET r == InsertRow(q, row)
         IN  /\ QueueOK(r) /\ IdsIn(r) \subseteq IdsIn(q) \cup {row.key}
             /\ Places(r) = Places(q)
             /\ RowsIn(r) = RowsIn(q) \cup {row}
             /\ (QueueOnce(q) /\ row \notin RowsIn(q) => QueueOnce(r))
<1> DEFINE r == InsertRow(q, row)
           id == row.key
           later == SelectInSeq(q, LAMBDA e : e.id > id)
           b == IF later = 0 THEN Len(q) + 1 ELSE later
           a == b - 1
           mid == <<Ready(id, row)>>
<1>1. q \in Seq(Entry) /\ (\A i \in 1..Len(q) : Proper(q[i])) /\ Sorted(q) /\ Len(q) \in Nat /\ id \in Nat
  BY DEF QueueOK, AnyRow
<1>2. /\ later \in 0..Len(q)
      /\ later = 0 => \A i \in 1..Len(q) : q[i].id <= id
      /\ later # 0 => /\ q[later].id > id
                      /\ \A i \in 1..(later - 1) : q[i].id <= id
  <2> DEFINE at == {i \in 1..Len(q) : q[i].id > id}
  <2>1. later = IF at # {} THEN Min(at) ELSE 0
    BY DEF SelectInSeq
  <2>2. Len(q) \in Nat /\ at \in SUBSET (1..Len(q))
    BY <1>1
  <2>3. at # {} => Min(at) \in at /\ \A i \in at : Min(at) <= i
    BY <2>2, FirstAt
  <2>4. \A i \in 1..Len(q) : i \notin at => q[i].id <= id
    <3>1. \A i \in 1..Len(q) : q[i].id \in Nat
      BY <1>1, EntryFacts
    <3> QED BY <3>1, <1>1
  <2>5. CASE at = {}
    <3>1. later = 0
      BY <2>1, <2>5
    <3>2. \A i \in 1..Len(q) : q[i].id <= id
      BY <2>4, <2>5
    <3> HIDE DEF later, at
    <3> QED BY <3>1, <3>2, <1>1
  <2>6. CASE at # {}
    <3>1. later \in at /\ \A i \in at : later <= i
      BY <2>1, <2>3, <2>6
    <3> HIDE DEF later
    <3>2. later \in 1..Len(q) /\ q[later].id > id
      BY <3>1
    <3>3. ASSUME NEW i \in 1..(later - 1) PROVE q[i].id <= id
      <4>1. i \in 1..Len(q) /\ ~(later <= i)
        BY <3>2, <1>1
      <4> QED BY <4>1, <3>1, <2>4
    <3> QED BY <3>2, <3>3, <1>1
  <2> QED BY <2>5, <2>6
<1> HIDE DEF later
<1>3. b \in 1..(Len(q) + 1) /\ a \in 0..Len(q) /\ b = a + 1 /\ b \in (a + 1)..(Len(q) + 1)
  BY <1>1, <1>2
<1>4. /\ \A i \in 1..a : q[i].id <= id
      /\ \A i \in b..Len(q) : id <= q[i].id
  <2>1. \A i \in 1..a : q[i].id <= id
    BY <1>1, <1>2
  <2>2. ASSUME NEW i \in b..Len(q) PROVE id <= q[i].id
    <3>1. later # 0 /\ b = later /\ later \in 1..Len(q) /\ i \in 1..Len(q)
      BY <1>1, <1>2, <2>2
    <3>2. q[later].id <= q[i].id
      BY <3>1, <2>2, <1>1, EntryFacts DEF Sorted
    <3>3. q[later].id \in Nat /\ q[i].id \in Nat /\ q[later].id > id
      BY <3>1, <1>1, <1>2, EntryFacts
    <3> QED BY <3>2, <3>3, <1>1
  <2> QED BY <2>1, <2>2
<1>5. r = Spliced(q, a, mid, b)
  BY <1>1, <1>3 DEF InsertRow, InsertResolvedInOrder, InsertAt, Spliced, later
<1>6. ClearedAs(Ready(id, row), id) /\ RowsAt(Ready(id, row)) = {row}
  BY <1>1, ReadyFacts
<1>7. mid \in Seq(Entry) /\ Len(mid) = 1 /\ mid[1] = Ready(id, row)
  BY <1>6 DEF ClearedAs
<1> HIDE DEF b, a, mid, r
<1>8. /\ \A k \in 1..Len(mid) : ClearedAs(mid[k], id) /\ mid[k].id = id
      /\ RowsIn(mid) = {row}
  BY <1>6, <1>7 DEF ClearedAs, RowsIn
<1>9. Kept(q, a, b) = 1..Len(q)
  BY <1>1, <1>3 DEF Kept
<1>10. \A i \in Kept(q, a, b) : q[i].id = id => ~IsWaiting(q[i])
  <2> SUFFICES ASSUME NEW i \in 1..Len(q), IsWaiting(q[i]) PROVE q[i].id # id
    BY <1>9
  <2>1. Place(q[i]) \in Places(q)
    BY DEF Places
  <2>2. Place(q[i]).id # row.key
    BY <2>1
  <2> QED BY <2>2 DEF Place
<1>11. StaysSound(r, q, a, mid, b)
  BY <1>1, <1>3, <1>4, <1>5, <1>7, <1>8, <1>10, SpliceOK
<1>12. Places(r) = Places(q)
  BY <1>9, <1>11 DEF StaysSound, Places
<1>13. RowsIn(r) = RowsIn(q) \cup {row}
  BY <1>8, <1>9, <1>11 DEF StaysSound, RowsIn
<1>14. IdsIn(r) \subseteq IdsIn(q) \cup {id}
  BY <1>7, <1>8, <1>11 DEF StaysSound
<1>15. ASSUME QueueOnce(q), row \notin RowsIn(q) PROVE QueueOnce(r)
  <2>1. \A k \in 1..Len(mid) : k = 1 /\ RowsAt(mid[k]) = {row}
    BY <1>6, <1>7
  <2>2. \A i \in Kept(q, a, b) : row \notin RowsAt(q[i])
    BY <1>9, <1>15 DEF RowsIn
  <2>3. MidOnce(q, a, mid, b)
    BY <2>1, <2>2 DEF MidOnce
  <2> QED BY <2>3, <1>11, <1>15 DEF StaysSound
<1> QED BY <1>11, <1>12, <1>13, <1>14, <1>15 DEF StaysSound, r

\* hold_in_reserved: a part of an own message waits in its place.
LEMMA HoldFacts ==
  ASSUME NEW q, QueueOK(q), NEW row \in AnyRow, CanHold(q, row.key)
  PROVE  LET r == HoldInReserved(q, row.key, row)
         IN  /\ QueueOK(r) /\ IdsIn(r) = IdsIn(q) /\ Places(r) = Places(q)
             /\ RowsIn(r) = RowsIn(q) \cup {row}
             /\ (QueueOnce(q) /\ row \notin RowsIn(q) => QueueOnce(r))
<1> DEFINE r == HoldInReserved(q, row.key, row)
           p == FirstOf(q, row.key)
<1>1. q \in Seq(Entry) /\ (\A i \in 1..Len(q) : Proper(q[i])) /\ Len(q) \in Nat
  BY DEF QueueOK
<1>2. p \in 1..Len(q) /\ q[p].id = row.key /\ q[p].kind = "reserved"
  <2>1. p # 0 /\ q[p].kind = "reserved"
    BY DEF CanHold, FirstOf
  <2>2. p \in 0..Len(q) /\ (p # 0 => q[p].id = row.key)
    BY <1>1, FirstOfFacts
  <2> HIDE DEF p
  <2> QED BY <2>1, <2>2, <1>1
<1>3. r = [q EXCEPT ![p].rows = Append(@, row)]
  BY DEF HoldInReserved, FirstOf
<1> HIDE DEF p, r
<1> DEFINE old == q[p]
           new == [old EXCEPT !.rows = Append(@, row)]
<1>4. old \in Entry /\ old.rows \in Seq(AnyRow) /\ Len(old.rows) \in Nat /\ Proper(old)
  BY <1>1, <1>2, EntryFacts
<1>6. /\ Append(old.rows, row) \in Seq(AnyRow) /\ Len(Append(old.rows, row)) = Len(old.rows) + 1
      /\ Append(old.rows, row)[Len(old.rows) + 1] = row
      /\ \A k \in 1..Len(old.rows) : Append(old.rows, row)[k] = old.rows[k]
  BY <1>4
<1>5. /\ new \in Entry /\ new.id = old.id /\ new.kind = old.kind /\ new.age = old.age
      /\ new.rows = Append(old.rows, row)
  <2> DEFINE more == Append(old.rows, row)
  <2>1. more \in Seq(AnyRow)
    BY <1>6
  <2>2. new = [old EXCEPT !.rows = more]
    OBVIOUS
  <2> HIDE DEF more, old
  <2>3. [old EXCEPT !.rows = more] \in Entry /\ [old EXCEPT !.rows = more].id = old.id
        /\ [old EXCEPT !.rows = more].kind = old.kind /\ [old EXCEPT !.rows = more].age = old.age
        /\ [old EXCEPT !.rows = more].rows = more
    BY <1>4, <2>1 DEF Entry
  <2> QED BY <2>2, <2>3 DEF more
<1>7. r \in Seq(Entry) /\ Len(r) = Len(q) /\ r[p] = new /\ \A i \in 1..Len(q) : i # p => r[i] = q[i]
  <2>1. r = [q EXCEPT ![p] = new]
    BY <1>3
  <2> HIDE DEF new, old
  <2> QED BY <2>1, <1>1, <1>2, <1>5
<1> HIDE DEF new
<1>8. Proper(new) /\ Place(new) = Place(old) /\ RowsAt(new) = RowsAt(old) \cup {row} /\ IsWaiting(new) /\ IsWaiting(old)
  <2>1. \A k \in 1..(Len(old.rows) + 1) : k \in 1..Len(old.rows) \/ k = Len(old.rows) + 1
    BY <1>4
  <2>2. Proper(new)
    BY <2>1, <1>2, <1>4, <1>5, <1>6 DEF Proper
  <2>3. RowsAt(new) = RowsAt(old) \cup {row}
    <3>1. \A k \in 1..(Len(old.rows) + 1) : new.rows[k] \in RowsAt(old) \cup {row}
      BY <2>1, <1>5, <1>6 DEF RowsAt
    <3>2. \A k \in 1..Len(old.rows) : k \in 1..Len(new.rows) /\ new.rows[k] = old.rows[k]
      BY <1>4, <1>5, <1>6
    <3>3. Len(old.rows) + 1 \in 1..Len(new.rows) /\ new.rows[Len(old.rows) + 1] = row
      BY <1>4, <1>5, <1>6
    <3> QED BY <3>1, <3>2, <3>3, <1>5, <1>6 DEF RowsAt
  <2> QED BY <2>2, <2>3, <1>2, <1>5 DEF Place, IsWaiting
<1>9. QueueOK(r) /\ IdsIn(r) = IdsIn(q)
  <2>1. \A i \in 1..Len(q) : r[i].id = q[i].id /\ Proper(r[i]) /\ (IsWaiting(r[i]) => IsWaiting(q[i]))
    BY <1>1, <1>5, <1>7, <1>8
  <2> QED BY <2>1, <1>7, PointwiseOK
<1>10. Places(r) = Places(q)
  <2>1. \A i \in 1..Len(q) : Place(r[i]) = Place(q[i]) /\ (IsWaiting(r[i]) <=> IsWaiting(q[i]))
    BY <1>7, <1>8
  <2> QED BY <2>1, <1>7 DEF Places
<1>11. RowsIn(r) = RowsIn(q) \cup {row}
  <2>1. \A i \in 1..Len(q) : i # p => RowsAt(r[i]) = RowsAt(q[i])
    BY <1>7
  <2>2. RowsAt(r[p]) = RowsAt(q[p]) \cup {row}
    BY <1>7, <1>8
  <2> QED BY <2>1, <2>2, <1>2, <1>7 DEF RowsIn
<1>12. ASSUME QueueOnce(q), row \notin RowsIn(q) PROVE QueueOnce(r)
  <2>1. NoTwice(old.rows) /\ row \notin RowsAt(old)
    BY <1>2, <1>12 DEF QueueOnce, RowsIn
  <2>2. NoTwice(new.rows)
    <3> SUFFICES ASSUME NEW k \in 1..(Len(old.rows) + 1), NEW l \in 1..(Len(old.rows) + 1), k < l
                 PROVE  new.rows[k] # new.rows[l]
      BY <1>5, <1>6 DEF NoTwice
    <3>1. k \in 1..Len(old.rows) /\ new.rows[k] = old.rows[k]
      BY <1>4, <1>5, <1>6
    <3>2. CASE l \in 1..Len(old.rows)
      BY <3>1, <3>2, <2>1, <1>5, <1>6 DEF NoTwice
    <3>3. CASE l = Len(old.rows) + 1
      BY <3>1, <3>3, <2>1, <1>5, <1>6 DEF RowsAt
    <3> QED BY <3>2, <3>3, <1>4
  <2>3. \A i \in 1..Len(q) : NoTwice(r[i].rows)
    BY <2>2, <1>7, <1>12 DEF QueueOnce
  <2>4. \A i \in 1..Len(q) : RowsAt(r[i]) = RowsAt(q[i]) \cup IF i = p THEN {row} ELSE {}
    BY <1>7, <1>8
  <2>5. \A i \in 1..Len(q) : row \notin RowsAt(q[i])
    BY <1>12 DEF RowsIn
  <2>6. \A i, j \in 1..Len(q) : i < j => RowsAt(q[i]) \cap RowsAt(q[j]) = {}
    BY <1>12 DEF QueueOnce
  <2>7. ASSUME NEW i \in 1..Len(q), NEW j \in 1..Len(q), i < j PROVE RowsAt(r[i]) \cap RowsAt(r[j]) = {}
    <3>1. i # j
      BY <2>7
    <3>2. RowsAt(q[i]) \cap RowsAt(q[j]) = {} /\ row \notin RowsAt(q[i]) /\ row \notin RowsAt(q[j])
      BY <2>5, <2>6, <2>7
    <3>3. RowsAt(r[i]) = RowsAt(q[i]) \/ RowsAt(r[i]) = RowsAt(q[i]) \cup {row}
      BY <2>4
    <3>4. RowsAt(r[j]) = RowsAt(q[j]) \/ RowsAt(r[j]) = RowsAt(q[j]) \cup {row}
      BY <2>4
    <3>5. RowsAt(r[i]) = RowsAt(q[i]) \/ RowsAt(r[j]) = RowsAt(q[j])
      BY <3>1, <2>4
    <3> QED BY <3>2, <3>3, <3>4, <3>5, Zenon
  <2> QED BY <2>3, <2>7, <1>7 DEF QueueOnce
<1> QED BY <1>9, <1>10, <1>11, <1>12 DEF r

\* A new entry goes to the end.
LEMMA PushFacts ==
  ASSUME NEW q, QueueOK(q), NEW e \in Entry, Proper(e), \A i \in 1..Len(q) : q[i].id < e.id
  PROVE  LET r == Append(q, e)
         IN  /\ QueueOK(r) /\ IdsIn(r) = IdsIn(q) \cup {e.id}
             /\ Places(r) = Places(q) \cup IF IsWaiting(e) THEN {Place(e)} ELSE {}
             /\ RowsIn(r) = RowsIn(q) \cup RowsAt(e)
             /\ (QueueOnce(q) /\ NoTwice(e.rows) /\ RowsAt(e) \cap RowsIn(q) = {} => QueueOnce(r))
<1> DEFINE r == Append(q, e)
           n == Len(q)
<1>1. q \in Seq(Entry) /\ (\A i \in 1..Len(q) : Proper(q[i])) /\ Sorted(q) /\ n \in Nat
  BY DEF QueueOK
<1>2. r \in Seq(Entry) /\ Len(r) = n + 1 /\ r[n + 1] = e /\ \A i \in 1..n : r[i] = q[i]
  BY <1>1
<1> HIDE DEF r
<1>3. \A i \in 1..(n + 1) : i \in 1..n \/ i = n + 1
  BY <1>1
<1>4. /\ \A i \in 1..n : i \in 1..Len(r)
      /\ n + 1 \in 1..Len(r)
      /\ \A i \in 1..Len(r) : i \in 1..n \/ i = n + 1
  BY <1>1, <1>2
<1>5. \A i \in 1..Len(r) : Proper(r[i])
  BY <1>1, <1>2, <1>4
<1>6. Sorted(r)
  <2> SUFFICES ASSUME NEW i \in 1..Len(r), NEW j \in 1..Len(r), i < j
               PROVE  /\ r[i].id <= r[j].id
                      /\ r[i].id = r[j].id => ~IsWaiting(r[i]) /\ ~IsWaiting(r[j])
    BY DEF Sorted
  <2>1. i \in 1..n
    BY <1>1, <1>2
  <2>2. CASE j \in 1..n
    BY <2>1, <2>2, <1>1, <1>2 DEF Sorted
  <2>3. CASE j = n + 1
    <3>1. q[i].id < e.id /\ r[i] = q[i] /\ r[j] = e
      BY <2>1, <2>3, <1>2
    <3>2. q[i].id \in Nat /\ e.id \in Nat
      BY <2>1, <1>1, EntryFacts DEF Entry
    <3> QED BY <3>1, <3>2
  <2> QED BY <2>2, <2>3, <1>4
<1>7. IdsIn(r) = IdsIn(q) \cup {e.id}
  BY <1>2, <1>4 DEF IdsIn
<1>8. Places(r) = Places(q) \cup IF IsWaiting(e) THEN {Place(e)} ELSE {}
  <2>1. \A x \in Places(r) : x \in Places(q) \cup IF IsWaiting(e) THEN {Place(e)} ELSE {}
    BY <1>2, <1>4 DEF Places
  <2>2. \A x \in Places(q) : x \in Places(r)
    BY <1>2, <1>4 DEF Places
  <2>3. IsWaiting(e) => Place(e) \in Places(r)
    BY <1>2, <1>4 DEF Places
  <2> QED BY <2>1, <2>2, <2>3
<1>9. RowsIn(r) = RowsIn(q) \cup RowsAt(e)
  <2>1. \A x \in RowsIn(r) : x \in RowsIn(q) \cup RowsAt(e)
    BY <1>2, <1>4 DEF RowsIn
  <2>2. \A i \in 1..n : RowsAt(q[i]) \in {RowsAt(r[j]) : j \in 1..Len(r)}
    BY <1>2, <1>4
  <2>3. RowsAt(e) \in {RowsAt(r[j]) : j \in 1..Len(r)}
    BY <1>2, <1>4
  <2> QED BY <2>1, <2>2, <2>3 DEF RowsIn
<1>10. QueueOK(r)
  BY <1>2, <1>5, <1>6 DEF QueueOK
<1>11. ASSUME QueueOnce(q), NoTwice(e.rows), RowsAt(e) \cap RowsIn(q) = {} PROVE QueueOnce(r)
  <2>1. \A i \in 1..Len(r) : NoTwice(r[i].rows)
    BY <1>2, <1>4, <1>11 DEF QueueOnce
  <2>2. ASSUME NEW i \in 1..Len(r), NEW j \in 1..Len(r), i < j PROVE RowsAt(r[i]) \cap RowsAt(r[j]) = {}
    <3>1. i \in 1..n /\ RowsAt(q[i]) \subseteq RowsIn(q)
      BY <2>2, <1>1, <1>2 DEF RowsIn
    <3>2. CASE j \in 1..n
      BY <3>1, <3>2, <2>2, <1>2, <1>11 DEF QueueOnce
    <3>3. CASE j = n + 1
      BY <3>1, <3>3, <1>2, <1>11
    <3> QED BY <3>2, <3>3, <1>4
  <2> QED BY <2>1, <2>2 DEF QueueOnce
<1> QED BY <1>7, <1>8, <1>9, <1>10, <1>11 DEF r

\* Rows leave from the head, up to the first entry that waits: each is older
\* than all that stays.
LEMMA DrainFacts ==
  ASSUME NEW q, QueueOK(q)
  PROVE  LET r == Drained(q)
             out == DrainedRows(q)
         IN  /\ QueueOK(r) /\ IdsIn(r) \subseteq IdsIn(q) /\ Places(r) = Places(q)
             /\ out \in Seq(AnyRow) /\ RowsIn(q) = RowsIn(r) \cup {out[k] : k \in 1..Len(out)}
             /\ \A k \in 1..Len(out) : out[k].key \in IdsIn(q) /\ \A id \in IdsIn(r) : out[k].key < id
             /\ \A k, l \in 1..Len(out) : k < l => out[k].key <= out[l].key
             /\ r # <<>> => IsWaiting(r[1])
             /\ QueueOnce(q) => QueueOnce(r) /\ NoTwice(out) /\ RowsIn(r) \cap {out[k] : k \in 1..Len(out)} = {}
<1> DEFINE r == Drained(q)
           out == DrainedRows(q)
           n == ReadyPrefix(q)
<1>1. q \in Seq(Entry) /\ (\A i \in 1..Len(q) : Proper(q[i])) /\ Sorted(q) /\ Len(q) \in Nat
  BY DEF QueueOK
<1>2. /\ n \in 0..Len(q)
      /\ \A i \in 1..n : ~IsWaiting(q[i])
      /\ n # Len(q) => IsWaiting(q[n + 1]) /\ n + 1 \in 1..Len(q)
  <2> DEFINE at == {i \in 1..Len(q) : IsWaiting(q[i])}
             p == SelectInSeq(q, IsWaiting)
  <2>1. p = IF at # {} THEN Min(at) ELSE 0
    BY DEF SelectInSeq
  <2>2. at \in SUBSET (1..Len(q))
    OBVIOUS
  <2>3. at # {} => Min(at) \in at /\ \A i \in at : Min(at) <= i
    BY <1>1, <2>2, FirstAt
  <2>4. n = IF p = 0 THEN Len(q) ELSE p - 1
    BY DEF ReadyPrefix
  <2> HIDE DEF p, n
  <2>5. CASE at = {}
    <3>1. n = Len(q)
      BY <2>1, <2>4, <2>5
    <3> QED BY <3>1, <2>5, <1>1
  <2>6. CASE at # {}
    <3>1. p \in at /\ \A i \in at : p <= i
      BY <2>1, <2>3, <2>6
    <3>2. p \in 1..Len(q) /\ IsWaiting(q[p])
      BY <3>1
    <3>3. n = p - 1
      BY <2>4, <3>2
    <3>4. ASSUME NEW i \in 1..n PROVE ~IsWaiting(q[i])
      <4>1. i \in 1..Len(q) /\ ~(p <= i)
        BY <3>2, <3>3, <1>1
      <4> QED BY <4>1, <3>1
    <3> QED BY <3>2, <3>3, <3>4, <1>1
  <2> QED BY <2>5, <2>6
<1>3. r = SubSeq(q, n + 1, Len(q)) /\ out = [i \in 1..n |-> q[i].rows[1]]
  BY DEF Drained, DrainedRows
<1> HIDE DEF n, r, out
<1>4. /\ r \in Seq(Entry) /\ Len(r) = Len(q) - n
      /\ \A i \in 1..Len(r) : r[i] = q[n + i] /\ n + i \in 1..Len(q)
  BY <1>1, <1>2, <1>3
<1>5. \A i \in 1..n : i \in 1..Len(q) /\ Len(q[i].rows) = 1 /\ q[i].rows[1] \in AnyRow
                      /\ q[i].rows[1].key = q[i].id /\ RowsAt(q[i]) = {q[i].rows[1]}
  <2> SUFFICES ASSUME NEW i \in 1..n
               PROVE  i \in 1..Len(q) /\ Len(q[i].rows) = 1 /\ q[i].rows[1] \in AnyRow
                      /\ q[i].rows[1].key = q[i].id /\ RowsAt(q[i]) = {q[i].rows[1]}
    OBVIOUS
  <2>1. i \in 1..Len(q) /\ ~IsWaiting(q[i])
    BY <1>1, <1>2
  <2>2. q[i].rows \in Seq(AnyRow) /\ Len(q[i].rows) = 1 /\ \A k \in 1..Len(q[i].rows) : q[i].rows[k].key = q[i].id
    BY <2>1, <1>1, EntryFacts DEF Proper, IsWaiting
  <2>3. q[i].rows[1] \in AnyRow
    BY <2>2
  <2> QED BY <2>1, <2>2, <2>3 DEF RowsAt
<1>6. out \in Seq(AnyRow) /\ Len(out) = n /\ \A k \in 1..n : out[k] = q[k].rows[1] /\ out[k].key = q[k].id
  BY <1>2, <1>3, <1>5
<1>7. QueueOK(r)
  <2>1. \A i \in 1..Len(r) : Proper(r[i])
    BY <1>1, <1>4
  <2>2. Sorted(r)
    <3> SUFFICES ASSUME NEW i \in 1..Len(r), NEW j \in 1..Len(r), i < j
                 PROVE  /\ r[i].id <= r[j].id
                        /\ r[i].id = r[j].id => ~IsWaiting(r[i]) /\ ~IsWaiting(r[j])
      BY DEF Sorted
    <3>1. r[i] = q[n + i] /\ r[j] = q[n + j] /\ n + i \in 1..Len(q) /\ n + j \in 1..Len(q) /\ n + i < n + j
      BY <1>2, <1>4
    <3> QED BY <3>1, <1>1 DEF Sorted
  <2> QED BY <2>1, <2>2, <1>4 DEF QueueOK
<1>8. IdsIn(r) \subseteq IdsIn(q)
  BY <1>4 DEF IdsIn
\* Positions of the queue are those that leave and those that stay.
<1>9. \A i \in 1..Len(q) : i \in 1..n \/ (i - n \in 1..Len(r) /\ r[i - n] = q[i])
  <2> SUFFICES ASSUME NEW i \in 1..Len(q), i \notin 1..n PROVE i - n \in 1..Len(r) /\ r[i - n] = q[i]
    OBVIOUS
  <2>1. i - n \in 1..Len(r) /\ n + (i - n) = i
    BY <1>1, <1>2, <1>4
  <2> QED BY <2>1, <1>4
<1>10. Places(r) = Places(q)
  <2>1. \A x \in Places(r) : x \in Places(q)
    BY <1>4 DEF Places
  <2>2. ASSUME NEW i \in 1..Len(q), IsWaiting(q[i]) PROVE Place(q[i]) \in Places(r)
    <3>1. i - n \in 1..Len(r) /\ r[i - n] = q[i]
      BY <1>2, <1>9, <2>2
    <3> QED BY <3>1, <2>2 DEF Places
  <2>3. \A x \in Places(q) : x \in Places(r)
    BY <2>2 DEF Places
  <2> QED BY <2>1, <2>3
<1>11. RowsIn(q) = RowsIn(r) \cup {out[k] : k \in 1..Len(out)}
  <2>1. ASSUME NEW x \in RowsIn(q) PROVE x \in RowsIn(r) \cup {out[k] : k \in 1..Len(out)}
    <3>1. PICK i \in 1..Len(q) : x \in RowsAt(q[i])
      BY DEF RowsIn
    <3>2. CASE i \in 1..n
      <4>1. x = q[i].rows[1]
        BY <3>1, <3>2, <1>5
      <4>2. x = out[i] /\ i \in 1..Len(out)
        BY <4>1, <3>2, <1>6
      <4> QED BY <4>2
    <3>3. CASE i - n \in 1..Len(r) /\ r[i - n] = q[i]
      <4>1. RowsAt(r[i - n]) \in {RowsAt(r[j]) : j \in 1..Len(r)}
        BY <3>3
      <4> QED BY <3>1, <3>3, <4>1 DEF RowsIn
    <3> QED BY <3>2, <3>3, <1>9
  <2>2. ASSUME NEW i \in 1..Len(r), NEW x \in RowsAt(r[i]) PROVE x \in RowsIn(q)
    BY <2>2, <1>4 DEF RowsIn
  <2>3. ASSUME NEW k \in 1..Len(out) PROVE out[k] \in RowsIn(q)
    <3>1. out[k] \in RowsAt(q[k]) /\ k \in 1..Len(q)
      BY <1>5, <1>6
    <3> QED BY <3>1 DEF RowsIn
  <2>4. \A x \in RowsIn(r) : x \in RowsIn(q)
    BY <2>2 DEF RowsIn
  <2> QED BY <2>1, <2>3, <2>4
<1>12. ASSUME NEW k \in 1..Len(out) PROVE out[k].key \in IdsIn(q) /\ \A id \in IdsIn(r) : out[k].key < id
  <2>1. k \in 1..Len(q) /\ out[k].key = q[k].id
    BY <1>5, <1>6
  <2>2. ASSUME NEW j \in 1..Len(r) PROVE q[k].id < r[j].id
    <3>1. n # Len(q) /\ n + 1 \in 1..Len(q) /\ IsWaiting(q[n + 1]) /\ k < n + 1
      BY <1>1, <1>2, <1>4, <1>6
    <3>2. q[k].id \in Nat /\ q[n + 1].id \in Nat /\ q[n + j].id \in Nat /\ r[j] = q[n + j] /\ n + j \in 1..Len(q)
      BY <2>1, <3>1, <1>1, <1>4, EntryFacts
    <3>3. q[k].id <= q[n + 1].id /\ q[k].id # q[n + 1].id
      BY <2>1, <3>1, <1>1 DEF Sorted
    <3>4. q[n + 1].id <= q[n + j].id
      <4>1. CASE j = 1
        BY <4>1, <3>2
      <4>2. CASE j # 1
        <5>1. n + 1 < n + j
          BY <4>2, <1>2, <1>4
        <5> QED BY <5>1, <3>1, <3>2, <1>1 DEF Sorted
      <4> QED BY <4>1, <4>2
    <3>5. q[k].id < q[n + j].id
      BY <3>2, <3>3, <3>4, LessThen
    <3> QED BY <3>2, <3>5
  <2> QED BY <2>1, <2>2 DEF IdsIn
<1>13. ASSUME NEW k \in 1..Len(out), NEW l \in 1..Len(out), k < l PROVE out[k].key <= out[l].key
  BY <1>1, <1>5, <1>6, <1>13 DEF Sorted
<1>14. r # <<>> => IsWaiting(r[1])
  <2> SUFFICES ASSUME r # <<>> PROVE IsWaiting(r[1])
    OBVIOUS
  <2>1. Len(r) # 0 /\ Len(r) \in Nat
    BY <1>4
  <2>2. n # Len(q) /\ 1 \in 1..Len(r)
    BY <2>1, <1>1, <1>2, <1>4
  <2> QED BY <2>2, <1>2, <1>4
<1>15. ASSUME QueueOnce(q)
       PROVE  QueueOnce(r) /\ NoTwice(out) /\ RowsIn(r) \cap {out[k] : k \in 1..Len(out)} = {}
  <2>1. \A i, j \in 1..Len(q) : i < j => RowsAt(q[i]) \cap RowsAt(q[j]) = {}
    BY <1>15 DEF QueueOnce
  <2>2. QueueOnce(r)
    <3>1. \A i \in 1..Len(r) : NoTwice(r[i].rows)
      BY <1>4, <1>15 DEF QueueOnce
    <3>2. ASSUME NEW i \in 1..Len(r), NEW j \in 1..Len(r), i < j PROVE RowsAt(r[i]) \cap RowsAt(r[j]) = {}
      <4>1. r[i] = q[n + i] /\ r[j] = q[n + j] /\ n + i \in 1..Len(q) /\ n + j \in 1..Len(q) /\ n + i < n + j
        BY <1>2, <1>4, <3>2
      <4> QED BY <4>1, <2>1
    <3> QED BY <3>1, <3>2 DEF QueueOnce
  <2>3. NoTwice(out)
    <3> SUFFICES ASSUME NEW k \in 1..n, NEW l \in 1..n, k < l PROVE out[k] # out[l]
      BY <1>6 DEF NoTwice
    <3>1. out[k] \in RowsAt(q[k]) /\ out[l] \in RowsAt(q[l]) /\ RowsAt(q[k]) \cap RowsAt(q[l]) = {}
      BY <1>5, <1>6, <2>1
    <3> QED BY <3>1
  <2>4. ASSUME NEW k \in 1..Len(out), NEW i \in 1..Len(r) PROVE out[k] \notin RowsAt(r[i])
    <3>1. k \in 1..Len(q) /\ n + i \in 1..Len(q) /\ k < n + i /\ r[i] = q[n + i]
      BY <1>2, <1>4, <1>5, <1>6
    <3>2. out[k] \in RowsAt(q[k])
      BY <1>5, <1>6
    <3> QED BY <3>1, <3>2, <2>1
  <2> QED BY <2>2, <2>3, <2>4 DEF RowsIn
<1> QED BY <1>6, <1>7, <1>8, <1>10, <1>11, <1>12, <1>13, <1>14, <1>15 DEF r, out

-----------------------------------------------------------------------------
(* The ways to make entries give up their place.                           *)

\* Places are given up, rows stay.
Thinned(r, q) ==
  /\ QueueOK(r) /\ IdsIn(r) \subseteq IdsIn(q)
  /\ Places(r) \subseteq Places(q) /\ RowsIn(r) = RowsIn(q)
  /\ QueueOnce(q) => QueueOnce(r)

\* Giving up places, twice.
LEMMA ThinnedTwice ==
  ASSUME NEW q, NEW r, NEW s, Thinned(r, q), Thinned(s, r)
  PROVE  Thinned(s, q)
BY DEF Thinned

\* A place is what waits under its id, alone.
LEMMA PlaceFacts ==
  ASSUME NEW q, QueueOK(q)
  PROVE  /\ \A p \in Places(q) : /\ p.id \in IdsIn(q) /\ p.id \in Nat /\ p.age \in Nat
                                 /\ p.kind \in {"pending", "reserved"}
         /\ \A p, o \in Places(q) : p.id = o.id => p = o
         /\ Reservations(q) = {p.id : p \in {o \in Places(q) : o.kind = "reserved"}}
         /\ \A id \in IdsIn(q) : id \in Nat
<1>1. q \in Seq(Entry) /\ Sorted(q) /\ Len(q) \in Nat
  BY DEF QueueOK
<1>2. \A i \in 1..Len(q) : /\ q[i].id \in Nat /\ q[i].age \in Nat
                           /\ IsWaiting(q[i]) <=> q[i].kind \in {"pending", "reserved"}
  BY <1>1, EntryFacts DEF IsWaiting
<1>3. \A i, j \in 1..Len(q) : IsWaiting(q[i]) /\ IsWaiting(q[j]) /\ q[i].id = q[j].id => i = j
  <2> SUFFICES ASSUME NEW i \in 1..Len(q), NEW j \in 1..Len(q),
                      IsWaiting(q[i]), IsWaiting(q[j]), q[i].id = q[j].id
               PROVE  i = j
    OBVIOUS
  <2>1. ~(i < j) /\ ~(j < i)
    BY <1>1 DEF Sorted
  <2> QED BY <2>1, <1>1
<1>4. ASSUME NEW p \in Places(q)
      PROVE  \E i \in 1..Len(q) : IsWaiting(q[i]) /\ p = Place(q[i])
                                  /\ p.id = q[i].id /\ p.kind = q[i].kind /\ p.age = q[i].age
  BY DEF Places, Place
<1>5. \A p \in Places(q) : /\ p.id \in IdsIn(q) /\ p.id \in Nat /\ p.age \in Nat
                           /\ p.kind \in {"pending", "reserved"}
  BY <1>2, <1>4 DEF IdsIn
<1>6. \A p, o \in Places(q) : p.id = o.id => p = o
  BY <1>3, <1>4
<1>7. ASSUME NEW id \in Reservations(q) PROVE \E p \in Places(q) : p.kind = "reserved" /\ p.id = id
  <2>1. PICK i \in 1..Len(q) : q[i].kind = "reserved" /\ id = q[i].id
    BY DEF Reservations
  <2>2. Place(q[i]) \in Places(q)
    BY <2>1, <1>2 DEF Places
  <2> QED BY <2>1, <2>2 DEF Place
<1>8. ASSUME NEW p \in Places(q), p.kind = "reserved" PROVE p.id \in Reservations(q)
  <2>1. PICK i \in 1..Len(q) : p.id = q[i].id /\ p.kind = q[i].kind
    BY <1>4
  <2> QED BY <2>1, <1>8 DEF Reservations
<1>9. Reservations(q) = {p.id : p \in {o \in Places(q) : o.kind = "reserved"}}
  BY <1>7, <1>8
<1>10. \A id \in IdsIn(q) : id \in Nat
  BY <1>2 DEF IdsIn
<1> QED BY <1>5, <1>6, <1>9, <1>10

\* With no row added, the reservation's own rows stay in its place.
LEMMA ReleaseFacts ==
  ASSUME NEW q, QueueOK(q), NEW id \in Nat
  PROVE  LET r == ReleaseReserved(q, id)
         IN  Thinned(r, q) /\ Places(r) = {p \in Places(q) : ~(p.id = id /\ p.kind = "reserved")}
<1>1. <<>> \in Seq(AnyRow) /\ Len(<<>>) = 0 /\ \A k \in 1..0 : FALSE
  OBVIOUS
<1>2. {(<<>>)[k] : k \in 1..Len(<<>>)} = {} /\ NoTwice(<<>>)
  BY <1>1 DEF NoTwice
<1> DEFINE r == FillReservedWith(q, id, <<>>)
<1>3. /\ QueueOK(r) /\ IdsIn(r) \subseteq IdsIn(q)
      /\ Places(r) = {p \in Places(q) : ~(p.id = id /\ p.kind = "reserved")}
      /\ RowsIn(r) = RowsIn(q) \cup IF HoldsReservation(q, id)
                                      THEN {(<<>>)[k] : k \in 1..Len(<<>>)} ELSE {}
      /\ QueueOnce(q) /\ NoTwice(<<>>) /\ RowsIn(q) \cap {(<<>>)[k] : k \in 1..Len(<<>>)} = {}
           => QueueOnce(r)
  BY <1>1, FillFacts
<1> HIDE DEF r
<1>4. RowsIn(r) = RowsIn(q) /\ (QueueOnce(q) => QueueOnce(r))
  BY <1>2, <1>3
<1> QED BY <1>3, <1>4 DEF r, ReleaseReserved, Thinned

\* One id gives its place up.
LEMMA GiveUpOneFacts ==
  ASSUME NEW q, QueueOK(q), NEW id \in Nat
  PROVE  Thinned(GiveUpOne(q, id), q) /\ \A p \in Places(GiveUpOne(q, id)) : p.id # id
<1> DEFINE m == ReleaseReserved(q, id)
           r == Resolve(m, id)
<1>1. Thinned(m, q) /\ Places(m) = {p \in Places(q) : ~(p.id = id /\ p.kind = "reserved")}
  BY ReleaseFacts
<1> HIDE DEF m
<1>2. /\ QueueOK(r) /\ IdsIn(r) = IdsIn(m) /\ RowsIn(r) = RowsIn(m)
      /\ (QueueOnce(m) => QueueOnce(r))
      /\ Places(r) = {p \in Places(m) : ~(p.id = id /\ p.kind = "pending")}
  BY <1>1, ResolveFacts DEF Thinned
<1> HIDE DEF r
<1>3. \A p \in Places(q) : p.kind \in {"pending", "reserved"}
  BY PlaceFacts
<1>4. Thinned(r, q) /\ \A p \in Places(r) : p.id # id
  BY <1>1, <1>2, <1>3 DEF Thinned
<1> QED BY <1>4 DEF GiveUpOne, r, m

\* The loop of enforce_ceiling, expire and flush: each id gives its place up.
LEMMA GiveUpFacts ==
  ASSUME NEW q, QueueOK(q), NEW ids \in Seq(Nat)
  PROVE  /\ Thinned(GiveUp(q, ids), q)
         /\ \A p \in Places(GiveUp(q, ids)) : \A k \in 1..Len(ids) : p.id # ids[k]
<1> DEFINE G == [n \in Nat |-> {r \in Seq(Entry) :
                   Thinned(r, q) /\ \A p \in Places(r) : \A k \in 1..n : p.id # ids[k]}]
<1>1. q \in Seq(Entry) /\ Thinned(q, q)
  BY DEF QueueOK, Thinned
<1>2. q \in G[0]
  BY <1>1
<1>3. ASSUME NEW n \in 1..Len(ids), NEW a \in G[n - 1] PROVE GiveUpOne(a, ids[n]) \in G[n]
  <2>1. n - 1 \in Nat /\ n \in Nat /\ ids[n] \in Nat /\ (\A k \in 1..n : k \in 1..(n - 1) \/ k = n)
    OBVIOUS
  <2>2. Thinned(a, q) /\ \A p \in Places(a) : \A k \in 1..(n - 1) : p.id # ids[k]
    BY <2>1, <1>3
  <2> DEFINE r == GiveUpOne(a, ids[n])
  <2>3. Thinned(r, a) /\ \A p \in Places(r) : p.id # ids[n]
    BY <2>1, <2>2, GiveUpOneFacts DEF Thinned
  <2> HIDE DEF r
  <2>4. Thinned(r, q) /\ r \in Seq(Entry) /\ Places(r) \subseteq Places(a)
    BY <2>2, <2>3 DEF Thinned, QueueOK
  <2>5. \A p \in Places(r) : \A k \in 1..n : p.id # ids[k]
    BY <2>1, <2>2, <2>3, <2>4
  <2> QED BY <2>1, <2>4, <2>5 DEF r
<1>4. GiveUps!Folded(q, ids) \in G[Len(ids)]
  <2> HIDE DEF G
  <2> QED BY <1>2, <1>3, GiveUps!FoldInduct
<1>5. GiveUps!Folded(q, ids) = GiveUp(q, ids)
  BY DEF GiveUp, FoldLeft, MapThenFoldSet, Max, GiveUps!Folded, GiveUps!Iter, GiveUps!Greatest
<1>6. Len(ids) \in Nat
  OBVIOUS
<1> QED BY <1>4, <1>5, <1>6

\* The ids at some positions, all of them.
IdsAt(q, at) == [k \in 1..Len(Picked(q, at)) |-> Picked(q, at)[k].id]

\* The ids collected before the loop are those of the entries picked.
LEMMA IdsAtFacts ==
  ASSUME NEW q \in Seq(Entry), NEW at \in SUBSET (1..Len(q))
  PROVE  /\ IdsAt(q, at) \in Seq(Nat)
         /\ \A i \in at : \E k \in 1..Len(IdsAt(q, at)) : IdsAt(q, at)[k] = q[i].id
<1> DEFINE found == Picked(q, at)
           n == Cardinality(at)
<1>1. /\ found \in Seq(Entry) /\ Len(found) = n /\ n \in 0..Len(q) /\ Len(q) \in Nat
      /\ \A k \in 1..n : Nth(at, k) \in at /\ found[k] = q[Nth(at, k)]
      /\ \A i \in at : \E k \in 1..n : Nth(at, k) = i
  BY PickedFacts
<1> HIDE DEF found
<1>2. n \in Nat
  BY <1>1
<1> HIDE DEF n
<1>3. IdsAt(q, at) = [k \in 1..n |-> found[k].id]
  BY <1>1 DEF IdsAt, found
<1>4. \A k \in 1..n : found[k].id \in Nat
  BY <1>1, EntryFacts
<1>5. IdsAt(q, at) \in Seq(Nat) /\ Len(IdsAt(q, at)) = n
  BY <1>2, <1>3, <1>4
<1>6. ASSUME NEW i \in at PROVE \E k \in 1..Len(IdsAt(q, at)) : IdsAt(q, at)[k] = q[i].id
  <2>1. PICK k \in 1..n : Nth(at, k) = i
    BY <1>1
  <2>2. found[k] = q[i]
    BY <1>1, <2>1
  <2>3. IdsAt(q, at)[k] = q[i].id
    BY <1>3, <2>2
  <2> QED BY <2>3, <1>5
<1> QED BY <1>5, <1>6

\* Giving up what stands at some positions.
LEMMA GiveUpAtFacts ==
  ASSUME NEW q, QueueOK(q), NEW at \in SUBSET (1..Len(q))
  PROVE  /\ Thinned(GiveUp(q, IdsAt(q, at)), q)
         /\ \A p \in Places(GiveUp(q, IdsAt(q, at))) : \A i \in at : p.id # q[i].id
<1>1. q \in Seq(Entry)
  BY DEF QueueOK
<1>2. /\ IdsAt(q, at) \in Seq(Nat)
      /\ \A i \in at : \E k \in 1..Len(IdsAt(q, at)) : IdsAt(q, at)[k] = q[i].id
  BY <1>1, IdsAtFacts
<1> DEFINE ids == IdsAt(q, at)
<1> HIDE DEF ids
<1>3. /\ Thinned(GiveUp(q, ids), q)
      /\ \A p \in Places(GiveUp(q, ids)) : \A k \in 1..Len(ids) : p.id # ids[k]
  BY <1>2, GiveUpFacts DEF ids
<1> QED BY <1>2, <1>3 DEF ids

\* expire: what has waited for the timeout gives up its place.
LEMMA ExpireFacts ==
  ASSUME NEW q, QueueOK(q), NEW timeout \in Nat
  PROVE  /\ Thinned(Expire(q, timeout), q)
         /\ \A p \in Places(Expire(q, timeout)) : p.age < timeout
         /\ AbandonedReservations(q, timeout) =
              {p.id : p \in {o \in Places(q) : o.kind = "reserved" /\ o.age >= timeout}}
<1> DEFINE at == {i \in 1..Len(q) : TimedOut(q[i], timeout)}
           r == Expire(q, timeout)
<1>1. q \in Seq(Entry)
  BY DEF QueueOK
<1>2. r = GiveUp(q, IdsAt(q, at))
  BY DEF Expire, IdsOf, IdsAt
<1>3. Thinned(r, q) /\ \A p \in Places(r) : \A i \in at : p.id # q[i].id
  BY <1>2, GiveUpAtFacts
<1> HIDE DEF r
<1>4. ASSUME NEW p \in Places(q)
      PROVE  \E i \in 1..Len(q) : IsWaiting(q[i]) /\ p.id = q[i].id /\ p.age = q[i].age
                                  /\ p.kind = q[i].kind
  BY DEF Places, Place
<1>5. ASSUME NEW p \in Places(r) PROVE p.age < timeout
  <2>1. p \in Places(q)
    BY <1>3 DEF Thinned
  <2>2. PICK i \in 1..Len(q) : IsWaiting(q[i]) /\ p.id = q[i].id /\ p.age = q[i].age
    BY <1>4, <2>1
  <2>3. ~(p.age >= timeout)
    BY <1>3, <1>5, <2>2 DEF TimedOut
  <2>4. p.age \in Nat
    BY <2>1, PlaceFacts
  <2> QED BY <2>3, <2>4
<1>6. ASSUME NEW id \in AbandonedReservations(q, timeout)
      PROVE  \E p \in Places(q) : p.kind = "reserved" /\ p.age >= timeout /\ p.id = id
  <2>1. PICK i \in 1..Len(q) : q[i].kind = "reserved" /\ TimedOut(q[i], timeout) /\ q[i].id = id
    BY DEF AbandonedReservations
  <2>2. Place(q[i]) \in Places(q)
    BY <2>1 DEF Places, TimedOut
  <2> QED BY <2>1, <2>2 DEF Place, TimedOut
<1>7. ASSUME NEW p \in Places(q), p.kind = "reserved", p.age >= timeout
      PROVE  p.id \in AbandonedReservations(q, timeout)
  <2>1. PICK i \in 1..Len(q) : IsWaiting(q[i]) /\ p.id = q[i].id /\ p.age = q[i].age /\ p.kind = q[i].kind
    BY <1>4
  <2> QED BY <2>1, <1>7 DEF AbandonedReservations, TimedOut
<1>8. AbandonedReservations(q, timeout) =
        {p.id : p \in {o \in Places(q) : o.kind = "reserved" /\ o.age >= timeout}}
  BY <1>6, <1>7
<1> QED BY <1>3, <1>5, <1>8 DEF r

\* enforce_ceiling
LEMMA CeilingFacts ==
  ASSUME NEW q, QueueOK(q), NEW max \in Nat
  PROVE  Thinned(EnforceCeiling(q, max), q)
<1> DEFINE at == {i \in 1..Len(q) : IsWaiting(q[i])}
           ids == IdsAt(q, at)
           excess == Len(q) - max
           n == IF excess < Len(ids) THEN excess ELSE Len(ids)
           some == SubSeq(ids, 1, n)
<1>1. q \in Seq(Entry) /\ Len(q) \in Nat
  BY DEF QueueOK
<1>2. ids \in Seq(Nat)
  BY <1>1, IdsAtFacts
<1>3. EnforceCeiling(q, max) = IF excess <= 0 THEN q ELSE GiveUp(q, some)
  BY DEF EnforceCeiling, IdsOf, IdsAt
<1> HIDE DEF ids
<1>4. CASE excess <= 0
  BY <1>3, <1>4 DEF Thinned
<1>5. CASE ~(excess <= 0)
  <2>1. n \in 0..Len(ids)
    BY <1>1, <1>2, <1>5
  <2>2. some \in Seq(Nat)
    BY <1>2, <2>1, FirstIn
  <2> HIDE DEF some
  <2>3. Thinned(GiveUp(q, some), q)
    BY <2>2, GiveUpFacts
  <2> QED BY <2>3, <1>3, <1>5
<1> QED BY <1>4, <1>5

\* flush_all: nothing waits any more.
LEMMA FlushAllFacts ==
  ASSUME NEW q, QueueOK(q)
  PROVE  Thinned(FlushAll(q), q) /\ Places(FlushAll(q)) = {}
<1> DEFINE at == {i \in 1..Len(q) : IsWaiting(q[i])}
           r == FlushAll(q)
<1>2. r = GiveUp(q, IdsAt(q, at))
  BY DEF FlushAll, IdsOf, IdsAt
<1>3. Thinned(r, q) /\ \A p \in Places(r) : \A i \in at : p.id # q[i].id
  BY <1>2, GiveUpAtFacts
<1> HIDE DEF r
<1>4. \A p \in Places(q) : \E i \in at : p.id = q[i].id
  BY DEF Places, Place
<1>5. Places(r) = {}
  BY <1>3, <1>4 DEF Thinned
<1> QED BY <1>3, <1>5 DEF r

\* flush_pending
LEMMA FlushPendingFacts ==
  ASSUME NEW q, QueueOK(q)
  PROVE  Thinned(FlushPending(q), q)
<1> DEFINE at == {i \in 1..Len(q) : q[i].kind = "pending"}
           ids == IdsAt(q, at)
           G == {r \in Seq(Entry) : Thinned(r, q)}
<1>1. q \in Seq(Entry) /\ Thinned(q, q)
  BY DEF QueueOK, Thinned
<1>2. ids \in Seq(Nat)
  BY <1>1, IdsAtFacts
<1>3. FlushPending(q) = Resolves!Folded(q, ids)
  BY DEF FlushPending, IdsOf, IdsAt, FoldLeft, MapThenFoldSet, Max, Resolves!Folded, Resolves!Iter, Resolves!Greatest
<1> HIDE DEF ids
<1>4. ASSUME NEW a \in G, NEW k \in 1..Len(ids) PROVE Resolve(a, ids[k]) \in G
  <2>1. ids[k] \in Nat /\ QueueOK(a) /\ Thinned(a, q)
    BY <1>2 DEF Thinned
  <2> DEFINE r == Resolve(a, ids[k])
  <2>2. QueueOK(r) /\ IdsIn(r) = IdsIn(a) /\ Places(r) \subseteq Places(a) /\ RowsIn(r) = RowsIn(a)
        /\ (QueueOnce(a) => QueueOnce(r))
    BY <2>1, ResolveFacts
  <2> HIDE DEF r
  <2>3. Thinned(r, q) /\ r \in Seq(Entry)
    BY <2>1, <2>2 DEF Thinned, QueueOK
  <2> QED BY <2>3 DEF r
<1>5. Resolves!Folded(q, ids) \in G
  <2>1. q \in G
    BY <1>1
  <2> HIDE DEF G
  <2> QED BY <1>2, <1>4, <2>1, Resolves!FoldKeeps
<1> QED BY <1>3, <1>5

\* A queue in which nothing waits leaves as a whole.
LEMMA AllLeave ==
  ASSUME NEW q, QueueOK(q), Places(q) = {}
  PROVE  Drained(q) = <<>>
<1>1. q \in Seq(Entry) /\ Len(q) \in Nat
  BY DEF QueueOK
<1>2. \A i \in 1..Len(q) : ~IsWaiting(q[i])
  BY DEF Places
<1>3. SelectInSeq(q, IsWaiting) = 0
  BY <1>2 DEF SelectInSeq
<1>4. ReadyPrefix(q) = Len(q)
  BY <1>3 DEF ReadyPrefix
<1>5. SubSeq(q, Len(q) + 1, Len(q)) = <<>>
  BY <1>1
<1> QED BY <1>4, <1>5 DEF Drained

-----------------------------------------------------------------------------
(* What a handler does to the buffer's queue and to the rows it hands out. *)

\* A buffer's queue and what it hands out, and the rows in both.
Buf == [has : BOOLEAN, q : Seq(Entry), out : Seq(AnyRow)]

BufRows(b) == RowsIn(b.q) \cup {b.out[k] : k \in 1..Len(b.out)}

\* The rows handed out are older than every place, and than every entry but
\* those that are `over` themselves.
Ahead(b, over) ==
  \A k \in 1..Len(b.out) : /\ \A p \in Places(b.q) : b.out[k].key < p.id
                           /\ \A id \in IdsIn(b.q) : b.out[k].key < id \/ id \in over

\* They stand in order, except the late ones.
OutOrdered(b, late) ==
  \A k, l \in 1..Len(b.out) : k < l /\ b.out[l].key \notin late => b.out[k].key <= b.out[l].key

\* A handler between two of its steps: `known` are the ids so far, `late` those
\* without a place.
Sound(b, known, late, over) ==
  /\ b \in Buf /\ QueueOK(b.q) /\ (~b.has => b.q = <<>>)
  /\ IdsIn(b.q) \subseteq known /\ \A k \in 1..Len(b.out) : b.out[k].key \in known
  /\ Ahead(b, over) /\ OutOrdered(b, late)

\* No row stands twice in the queue and in what is handed out.
Once(b) == QueueOnce(b.q) /\ NoTwice(b.out) /\ RowsIn(b.q) \cap {b.out[k] : k \in 1..Len(b.out)} = {}

\* No row is lost or doubled, and no place is taken.
Carried(c, b) ==
  Places(c.q) \subseteq Places(b.q) /\ BufRows(c) = BufRows(b) /\ (Once(b) => Once(c))

\* Two steps that lose no row lose none.
LEMMA CarriedTwice ==
  ASSUME NEW b, NEW c, NEW d, Carried(c, b), Carried(d, c)
  PROVE  Carried(d, b)
BY DEF Carried

\* The empty queue.
LEMMA NothingIn == QueueOK(<<>>) /\ IdsIn(<<>>) = {} /\ Places(<<>>) = {} /\ RowsIn(<<>>) = {}
<1>1. <<>> \in Seq(Entry) /\ Len(<<>>) = 0 /\ 1..0 = {}
  OBVIOUS
<1> QED BY <1>1 DEF QueueOK, IdsIn, Places, RowsIn, Sorted

\* A queue without ids is empty.
LEMMA EmptyQueue ==
  ASSUME NEW q, QueueOK(q), IdsIn(q) = {}
  PROVE  q = <<>>
<1>1. q \in Seq(Entry)
  BY DEF QueueOK
<1>2. \A i \in 1..Len(q) : FALSE
  BY DEF IdsIn
<1> QED BY <1>1, <1>2

\* A buffer is as sound as before when places are given up.
LEMMA SoundThinned ==
  ASSUME NEW b, NEW known, NEW late, NEW over, Sound(b, known, late, over),
         NEW r, Thinned(r, b.q)
  PROVE  LET c == [b EXCEPT !.q = r]
         IN  Sound(c, known, late, over) /\ Carried(c, b) /\ c.q = r /\ c.has = b.has
<1> DEFINE c == [b EXCEPT !.q = r]
<1>1. b \in Buf /\ QueueOK(r) /\ r \in Seq(Entry)
  BY DEF Sound, Thinned, QueueOK
<1>2. c \in Buf /\ c.q = r /\ c.has = b.has /\ c.out = b.out
  BY <1>1 DEF Buf
<1> HIDE DEF c
<1>3. ~b.has => r = <<>>
  BY <1>1, EmptyQueue, NothingIn DEF Sound, Thinned
<1>4. Ahead(c, over) /\ OutOrdered(c, late)
  BY <1>2 DEF Sound, Thinned, Ahead, OutOrdered
<1>5. Sound(c, known, late, over)
  BY <1>1, <1>2, <1>3, <1>4 DEF Sound, Thinned
<1>6. Carried(c, b)
  BY <1>2 DEF Carried, BufRows, Thinned, Once
<1> QED BY <1>2, <1>5, <1>6 DEF c

\* Distinct rows behind distinct others.
LEMMA NoTwiceJoined ==
  ASSUME NEW s \in Seq(AnyRow), NEW t \in Seq(AnyRow), NoTwice(s), NoTwice(t),
         {s[k] : k \in 1..Len(s)} \cap {t[k] : k \in 1..Len(t)} = {}
  PROVE  NoTwice(s \o t)
<1> DEFINE r == s \o t
<1>1. /\ Len(r) = Len(s) + Len(t)
      /\ \A i \in 1..Len(r) : \/ i \in 1..Len(s) /\ r[i] = s[i]
                              \/ i - Len(s) \in 1..Len(t) /\ i > Len(s) /\ r[i] = t[i - Len(s)]
  BY Joined
<1>2. Len(s) \in Nat /\ Len(t) \in Nat
  OBVIOUS
<1> HIDE DEF r
<1>3. ASSUME NEW k \in 1..Len(r), NEW l \in 1..Len(r), k < l PROVE r[k] # r[l]
  <2>1. CASE k \in 1..Len(s) /\ r[k] = s[k] /\ l \in 1..Len(s) /\ r[l] = s[l]
    BY <1>3, <2>1 DEF NoTwice
  <2>2. CASE k \in 1..Len(s) /\ r[k] = s[k] /\ l - Len(s) \in 1..Len(t) /\ r[l] = t[l - Len(s)]
    BY <2>2
  <2>3. CASE k - Len(s) \in 1..Len(t) /\ r[k] = t[k - Len(s)] /\ l - Len(s) \in 1..Len(t) /\ r[l] = t[l - Len(s)]
    <3>1. k - Len(s) < l - Len(s)
      BY <1>1, <1>2, <1>3
    <3> QED BY <3>1, <2>3 DEF NoTwice
  <2>4. k > Len(s) => ~(l \in 1..Len(s))
    BY <1>1, <1>2, <1>3
  <2> QED BY <1>1, <2>1, <2>2, <2>3, <2>4
<1> QED BY <1>3 DEF NoTwice, r

\* deliver_ready hands the head of the queue out, in order and after what was
\* handed out before.
LEMMA ReleaseSound ==
  ASSUME NEW b, NEW known \in SUBSET Nat, NEW late, Sound(b, known, late, late)
  PROVE  LET c == Release(b)
         IN  /\ Sound(c, known, late, {}) /\ Carried(c, b)
             /\ Places(c.q) = Places(b.q) /\ c.has = b.has
<1> DEFINE c == Release(b)
           r == Drained(b.q)
           new == DrainedRows(b.q)
<1>1. b \in Buf /\ QueueOK(b.q) /\ b.out \in Seq(AnyRow) /\ b.q \in Seq(Entry)
  BY DEF Sound, Buf
<1>2. /\ QueueOK(r) /\ IdsIn(r) \subseteq IdsIn(b.q) /\ Places(r) = Places(b.q)
      /\ new \in Seq(AnyRow) /\ RowsIn(b.q) = RowsIn(r) \cup {new[k] : k \in 1..Len(new)}
      /\ (\A k \in 1..Len(new) : new[k].key \in IdsIn(b.q) /\ \A id \in IdsIn(r) : new[k].key < id)
      /\ (\A k, l \in 1..Len(new) : k < l => new[k].key <= new[l].key)
      /\ (r # <<>> => IsWaiting(r[1]))
      /\ (QueueOnce(b.q) => QueueOnce(r) /\ NoTwice(new) /\ RowsIn(r) \cap {new[k] : k \in 1..Len(new)} = {})
  BY <1>1, DrainFacts
<1> HIDE DEF r, new
<1>3. r \in Seq(Entry) /\ Len(r) \in Nat /\ Len(new) \in Nat /\ Len(b.out) \in Nat
  BY <1>1, <1>2 DEF QueueOK
<1> DEFINE out == b.out \o new
<1>4. /\ out \in Seq(AnyRow) /\ Len(out) = Len(b.out) + Len(new)
      /\ (\A k \in 1..Len(b.out) : out[k] = b.out[k])
      /\ (\A k \in 1..Len(new) : out[Len(b.out) + k] = new[k])
      /\ (\A k \in 1..Len(out) : \/ k \in 1..Len(b.out) /\ out[k] = b.out[k]
                                 \/ k - Len(b.out) \in 1..Len(new) /\ k > Len(b.out)
                                    /\ out[k] = new[k - Len(b.out)])
  BY <1>1, <1>2, Joined
<1> HIDE DEF out
<1>5. c \in Buf /\ c.q = r /\ c.out = out /\ c.has = b.has
  BY <1>1, <1>3, <1>4 DEF Release, Buf, r, new, out
<1> HIDE DEF c
<1>6. \A id \in IdsIn(b.q) : id \in Nat
  BY <1>1, PlaceFacts
<1>7. ASSUME NEW k \in 1..Len(out)
      PROVE  out[k].key \in known /\ \A id \in IdsIn(r) : out[k].key < id
  <2>1. CASE k \in 1..Len(b.out) /\ out[k] = b.out[k]
    <3>1. out[k].key \in known /\ (\A p \in Places(b.q) : out[k].key < p.id)
      BY <2>1 DEF Sound, Ahead
    <3>2. ASSUME NEW id \in IdsIn(r) PROVE out[k].key < id
      <4>1. PICK i \in 1..Len(r) : id = r[i].id
        BY DEF IdsIn
      <4>2. r # <<>> /\ 1 \in 1..Len(r) /\ IsWaiting(r[1])
        BY <1>2, <1>3, <4>1
      <4>3. Place(r[1]) \in Places(b.q) /\ Place(r[1]).id = r[1].id
        BY <1>2, <4>2 DEF Places, Place
      <4>4. out[k].key < r[1].id
        BY <3>1, <4>3
      <4>5. r[1].id <= id
        <5>1. i = 1 \/ 1 < i
          BY <1>3
        <5>2. r[1].id \in Nat
          BY <1>3, <4>2, EntryFacts
        <5>3. Sorted(r)
          BY <1>2 DEF QueueOK
        <5>4. 1 < i => r[1].id <= r[i].id
          BY <4>2, <5>3 DEF Sorted
        <5> QED BY <5>1, <5>2, <5>4, <4>1
      <4>6. out[k].key \in Nat /\ r[1].id \in Nat /\ id \in Nat
        BY <3>1, <4>1, <4>2, <1>3, EntryFacts
      <4> QED BY <4>4, <4>5, <4>6
    <3> QED BY <3>1, <3>2
  <2>2. CASE /\ k - Len(b.out) \in 1..Len(new) /\ k > Len(b.out)
             /\ out[k] = new[k - Len(b.out)]
    BY <2>2, <1>2 DEF Sound
  <2> QED BY <2>1, <2>2, <1>4
<1>8. Ahead(c, {})
  <2>1. \A p \in Places(r) : p.id \in IdsIn(r)
    BY <1>2, PlaceFacts
  <2> QED BY <2>1, <1>5, <1>7 DEF Ahead
<1>9. OutOrdered(c, late)
  <2> SUFFICES ASSUME NEW k \in 1..Len(out), NEW l \in 1..Len(out), k < l, out[l].key \notin late
               PROVE  out[k].key <= out[l].key
    BY <1>5 DEF OutOrdered
  <2>0. out[k].key \in Nat /\ out[l].key \in Nat
    BY <1>7
  <2>1. CASE l \in 1..Len(b.out) /\ out[l] = b.out[l]
    <3>1. k \in 1..Len(b.out)
      BY <2>1
    <3> QED BY <2>1, <3>1, <1>4 DEF Sound, OutOrdered
  <2>2. CASE /\ l - Len(b.out) \in 1..Len(new) /\ l > Len(b.out)
             /\ out[l] = new[l - Len(b.out)]
    <3>1. CASE k \in 1..Len(b.out) /\ out[k] = b.out[k]
      <4>1. out[l].key \in IdsIn(b.q)
        BY <2>2, <1>2
      <4>2. out[k].key < out[l].key
        BY <3>1, <4>1 DEF Sound, Ahead
      <4> QED BY <4>2, <2>0
    <3>2. CASE /\ k - Len(b.out) \in 1..Len(new) /\ k > Len(b.out)
               /\ out[k] = new[k - Len(b.out)]
      <4>1. k - Len(b.out) < l - Len(b.out)
        BY <1>3
      <4> QED BY <3>2, <2>2, <4>1, <1>2
    <3> QED BY <3>1, <3>2, <1>4
  <2> QED BY <2>1, <2>2, <1>4
<1>10. Sound(c, known, late, {})
  <2>1. ~c.has => c.q = <<>>
    <3>1. ~b.has => IdsIn(b.q) = {}
      BY NothingIn DEF Sound
    <3> QED BY <3>1, <1>2, <1>5, EmptyQueue
  <2>2. IdsIn(c.q) \subseteq known
    BY <1>2, <1>5 DEF Sound
  <2> QED BY <2>1, <2>2, <1>2, <1>5, <1>7, <1>8, <1>9 DEF Sound
<1>11. {out[k] : k \in 1..Len(out)} = {b.out[k] : k \in 1..Len(b.out)} \cup {new[k] : k \in 1..Len(new)}
  <2>1. \A k \in 1..Len(b.out) : k \in 1..Len(out)
    BY <1>3, <1>4
  <2>2. \A k \in 1..Len(new) : Len(b.out) + k \in 1..Len(out)
    BY <1>3, <1>4
  <2>3. \A k \in 1..Len(out) : out[k] \in {b.out[l] : l \in 1..Len(b.out)} \cup {new[l] : l \in 1..Len(new)}
    BY <1>4
  <2>4. \A k \in 1..Len(b.out) : b.out[k] \in {out[l] : l \in 1..Len(out)}
    BY <2>1, <1>4
  <2>5. \A k \in 1..Len(new) : new[k] \in {out[l] : l \in 1..Len(out)}
    BY <2>2, <1>4
  <2> QED BY <2>3, <2>4, <2>5
<1>12. Carried(c, b)
  <2>1. BufRows(c) = RowsIn(r) \cup {out[k] : k \in 1..Len(out)}
    BY <1>5 DEF BufRows
  <2>2. BufRows(b) = RowsIn(b.q) \cup {b.out[k] : k \in 1..Len(b.out)}
    BY DEF BufRows
  <2>3. BufRows(c) = BufRows(b)
    <3> HIDE DEF c
    <3> QED BY <2>1, <2>2, <1>2, <1>11, Zenon
  <2>4. ASSUME Once(b) PROVE Once(c)
    <3>1. /\ QueueOnce(b.q) /\ NoTwice(b.out) /\ RowsIn(b.q) \cap {b.out[k] : k \in 1..Len(b.out)} = {}
          /\ QueueOnce(r) /\ NoTwice(new) /\ RowsIn(r) \cap {new[k] : k \in 1..Len(new)} = {}
      BY <2>4, <1>2 DEF Once
    <3>2. \A k \in 1..Len(new) : new[k] \in RowsIn(b.q)
      BY <1>2
    <3>3. {b.out[k] : k \in 1..Len(b.out)} \cap {new[k] : k \in 1..Len(new)} = {}
      BY <3>1, <3>2
    <3>4. NoTwice(out)
      BY <3>1, <3>3, <1>1, <1>2, NoTwiceJoined DEF out
    <3>5. RowsIn(r) \cap {out[k] : k \in 1..Len(out)} = {}
      BY <3>1, <1>2, <1>11
    <3> QED BY <3>1, <3>4, <3>5, <1>5 DEF Once
  <2> QED BY <2>3, <2>4, <1>2, <1>5 DEF Carried
<1> QED BY <1>2, <1>5, <1>10, <1>12 DEF c

\* A handler may rely on less than it has.
LEMMA SoundWeaker ==
  ASSUME NEW b, NEW known, NEW late, NEW over, Sound(b, known, late, {})
  PROVE  Sound(b, known, late, over)
BY DEF Sound, Ahead

\* What a sound buffer has.
LEMMA SoundParts ==
  ASSUME NEW b, NEW known, NEW late, NEW over, Sound(b, known, late, over)
  PROVE  /\ b \in Buf /\ QueueOK(b.q) /\ b.q \in Seq(Entry) /\ b.out \in Seq(AnyRow)
         /\ IdsIn(b.q) \subseteq known /\ b.has \in BOOLEAN
         /\ ~b.has => /\ b.q = <<>> /\ Places(b.q) = {} /\ IdsIn(b.q) = {} /\ Reservations(b.q) = {}
<1>1. b \in Buf /\ QueueOK(b.q) /\ IdsIn(b.q) \subseteq known /\ (~b.has => b.q = <<>>)
  BY DEF Sound
<1>2. b.q \in Seq(Entry) /\ b.out \in Seq(AnyRow) /\ b.has \in BOOLEAN
  BY <1>1 DEF Buf
<1>3. b.q = <<>> => Places(b.q) = {} /\ IdsIn(b.q) = {} /\ Reservations(b.q) = {}
  BY NothingIn, PlaceFacts
<1> QED BY <1>1, <1>2, <1>3

\* Dropping an emptied queue loses nothing.
LEMMA PruneSound ==
  ASSUME NEW b, NEW known, NEW late, NEW over, Sound(b, known, late, over)
  PROVE  LET c == Prune(b)
         IN  /\ Sound(c, known, late, over) /\ Carried(c, b)
             /\ c.q = b.q /\ c.out = b.out /\ (c.has => b.has)
<1> DEFINE c == Prune(b)
<1>1. b \in Buf /\ (b.has /\ b.q # <<>>) \in BOOLEAN
  BY SoundParts
<1>2. c \in Buf /\ c.q = b.q /\ c.out = b.out /\ c.has = (b.has /\ b.q # <<>>)
  BY <1>1 DEF Prune, Buf
<1> HIDE DEF c
<1>3. Sound(c, known, late, over)
  BY <1>2 DEF Sound, Ahead, OutOrdered
<1>4. Carried(c, b)
  BY <1>2 DEF Carried, BufRows, Once
<1> QED BY <1>2, <1>3, <1>4 DEF c

\* drain_translate_ready: rows leave in order up to the first place that waits.
LEMMA DrainSound ==
  ASSUME NEW b, NEW known \in SUBSET Nat, NEW late, NEW over, Sound(b, known, late, over),
         over = {} \/ (b.has /\ over = late)
  PROVE  LET c == DrainTranslateReady(b)
         IN  /\ Sound(c, known, late, {}) /\ Carried(c, b) /\ Places(c.q) = Places(b.q)
             /\ (c.has => b.has)
<1> DEFINE c == DrainTranslateReady(b)
           m == Release(b)
<1>1. CASE ~b.has
  <2>1. c = b /\ over = {}
    BY <1>1 DEF DrainTranslateReady
  <2> QED BY <2>1 DEF Carried
<1>2. CASE b.has
  <2>1. Sound(b, known, late, late)
    BY SoundWeaker
  <2>2. Sound(m, known, late, {}) /\ Carried(m, b) /\ Places(m.q) = Places(b.q)
    BY <2>1, ReleaseSound
  <2> HIDE DEF m
  <2>3. Sound(Prune(m), known, late, {}) /\ Carried(Prune(m), m) /\ Prune(m).q = m.q
    BY <2>2, PruneSound
  <2>4. c = Prune(m)
    BY <1>2 DEF DrainTranslateReady, m
  <2>5. Carried(Prune(m), b)
    BY <2>2, <2>3, CarriedTwice
  <2> QED BY <2>2, <2>3, <2>4, <2>5, <1>2
<1> QED BY <1>1, <1>2

\* enforce_translate_ceiling: places may be given up, no row is lost.
LEMMA CeilingSound ==
  ASSUME NEW b, NEW known \in SUBSET Nat, NEW late, NEW over, Sound(b, known, late, over),
         over = {} \/ over = late
  PROVE  LET c == EnforceTranslateCeiling(b)
         IN  Sound(c, known, late, over) /\ Carried(c, b) /\ c.has = b.has
<1> DEFINE c == EnforceTranslateCeiling(b)
           r == EnforceCeiling(b.q, MaxQueue)
           m == [b EXCEPT !.q = r]
<1>1. CASE ~(b.has /\ Len(b.q) > MaxQueue)
  <2>1. c = b
    BY <1>1 DEF EnforceTranslateCeiling
  <2> QED BY <2>1 DEF Carried
<1>2. CASE b.has /\ Len(b.q) > MaxQueue
  <2>1. Thinned(r, b.q)
    BY SoundParts, CeilingFacts, MaxQueueAssumption
  <2> HIDE DEF r
  <2>2. Sound(m, known, late, over) /\ Carried(m, b) /\ m.has = b.has
    BY <2>1, SoundThinned
  <2>3. c = Release(m)
    BY <1>2 DEF EnforceTranslateCeiling, r
  <2> HIDE DEF m
  <2>4. Sound(m, known, late, late)
    BY <2>2, SoundWeaker
  <2>5. Sound(Release(m), known, late, {}) /\ Carried(Release(m), m) /\ Release(m).has = m.has
    BY <2>4, ReleaseSound
  <2>6. Sound(Release(m), known, late, over)
    BY <2>5, SoundWeaker
  <2>7. Carried(Release(m), b)
    BY <2>2, <2>5, CarriedTwice
  <2> QED BY <2>2, <2>3, <2>5, <2>6, <2>7
<1> QED BY <1>1, <1>2

\* flush_translate_queue: every row leaves.
LEMMA FlushSound ==
  ASSUME NEW b, NEW known \in SUBSET Nat, NEW late, Sound(b, known, late, {})
  PROVE  LET c == FlushTranslateQueue(b)
         IN  Sound(c, known, late, {}) /\ Carried(c, b) /\ c.q = <<>> /\ ~c.has
<1> DEFINE c == FlushTranslateQueue(b)
           r == FlushAll(b.q)
           m == [b EXCEPT !.q = r]
           d == Release(m)
<1>1. CASE ~b.has
  <2>1. c = b
    BY <1>1 DEF FlushTranslateQueue
  <2> QED BY <2>1, <1>1, SoundParts DEF Carried
<1>2. CASE b.has
  <2>1. Thinned(r, b.q) /\ Places(r) = {}
    BY SoundParts, FlushAllFacts
  <2> HIDE DEF r
  <2>2. Sound(m, known, late, {}) /\ Carried(m, b) /\ m.has = b.has /\ m.q = r
    BY <2>1, SoundThinned
  <2>3. c = [d EXCEPT !.has = FALSE]
    BY <1>2 DEF FlushTranslateQueue, r
  <2> HIDE DEF m
  <2>4. Sound(m, known, late, late)
    BY <2>2, SoundWeaker
  <2>5. Sound(d, known, late, {}) /\ Carried(d, m)
    BY <2>4, ReleaseSound
  <2>6. Drained(r) = <<>>
    BY <2>1, <2>2, SoundParts, AllLeave
  <2>7. d.q = <<>>
    <3>1. m \in Buf
      BY <2>2, SoundParts
    <3> QED BY <3>1, <2>2, <2>6 DEF Release, Buf
  <2> HIDE DEF d
  <2>8. c \in Buf /\ c.q = d.q /\ c.out = d.out /\ c.has = FALSE
    <3>1. d \in Buf
      BY <2>5, SoundParts
    <3> QED BY <3>1, <2>3 DEF Buf
  <2> HIDE DEF c
  <2>9. Sound(c, known, late, {})
    BY <2>5, <2>7, <2>8 DEF Sound, Ahead, OutOrdered
  <2>10. Carried(c, d)
    BY <2>8 DEF Carried, BufRows, Once
  <2>11. Carried(c, b)
    BY <2>2, <2>5, <2>10, CarriedTwice
  <2> QED BY <2>7, <2>8, <2>9, <2>11 DEF c
<1> QED BY <1>1, <1>2

\* Without its reservation the buffer's queue is what it was.
LEMMA ReleaseSlotSound ==
  ASSUME NEW b, NEW known \in SUBSET Nat, NEW late, Sound(b, known, late, {}), NEW id \in Nat
  PROVE  LET c == ReleaseEchoSlot(b, id)
         IN  /\ Sound(c, known, late, {}) /\ Carried(c, b)
             /\ Places(c.q) = {p \in Places(b.q) : ~(p.id = id /\ p.kind = "reserved")}
             /\ (c.has => b.has)
<1> DEFINE c == ReleaseEchoSlot(b, id)
           r == ReleaseReserved(b.q, id)
           m == [b EXCEPT !.q = r]
<1>1. CASE ~b.has
  <2>1. c = b /\ Places(b.q) = {}
    BY <1>1, SoundParts DEF ReleaseEchoSlot
  <2> QED BY <2>1 DEF Carried
<1>2. CASE b.has
  <2>1. Thinned(r, b.q) /\ Places(r) = {p \in Places(b.q) : ~(p.id = id /\ p.kind = "reserved")}
    BY SoundParts, ReleaseFacts
  <2> HIDE DEF r
  <2>2. Sound(m, known, late, {}) /\ Carried(m, b) /\ m.has = b.has /\ m.q = r
    BY <2>1, SoundThinned
  <2>3. c = Prune(m)
    BY <1>2 DEF ReleaseEchoSlot, r
  <2> HIDE DEF m
  <2>4. Sound(Prune(m), known, late, {}) /\ Carried(Prune(m), m) /\ Prune(m).q = m.q
    BY <2>2, PruneSound
  <2>5. Carried(Prune(m), b)
    BY <2>2, <2>4, CarriedTwice
  <2> QED BY <2>1, <2>2, <2>3, <2>4, <2>5, <1>2
<1> QED BY <1>1, <1>2

\* release_echo_slot_and_drain: one reservation goes, and no other place.
LEMMA ReleaseAndDrainSound ==
  ASSUME NEW b, NEW known \in SUBSET Nat, NEW late, Sound(b, known, late, {}), NEW id \in Nat
  PROVE  LET c == ReleaseEchoSlotAndDrain(b, id)
         IN  /\ Sound(c, known, late, {}) /\ Carried(c, b)
             /\ Places(c.q) = {p \in Places(b.q) : ~(p.id = id /\ p.kind = "reserved")}
             /\ (c.has => b.has)
<1> DEFINE m == ReleaseEchoSlot(b, id)
           c == DrainTranslateReady(m)
<1>1. /\ Sound(m, known, late, {}) /\ Carried(m, b)
      /\ Places(m.q) = {p \in Places(b.q) : ~(p.id = id /\ p.kind = "reserved")}
      /\ (m.has => b.has)
  BY ReleaseSlotSound
<1> HIDE DEF m
<1>2. Sound(c, known, late, {}) /\ Carried(c, m) /\ Places(c.q) = Places(m.q) /\ (c.has => m.has)
  BY <1>1, DrainSound
<1> HIDE DEF c
<1>3. Carried(c, b)
  BY <1>1, <1>2, CarriedTwice
<1>4. c = ReleaseEchoSlotAndDrain(b, id)
  BY DEF ReleaseEchoSlotAndDrain, c, m
<1> QED BY <1>1, <1>2, <1>3, <1>4

\* abandon_reflections: the reservations of these ids end, no other place does.
LEMMA AbandonSound ==
  ASSUME NEW b, NEW known \in SUBSET Nat, NEW late, Sound(b, known, late, {}), NEW ids \in Seq(Nat)
  PROVE  LET c == AbandonReflections(b, ids)
         IN  /\ Sound(c, known, late, {}) /\ Carried(c, b)
             /\ Places(c.q) = {p \in Places(b.q) :
                                 ~(p.kind = "reserved" /\ \E k \in 1..Len(ids) : p.id = ids[k])}
             /\ (c.has => b.has)
<1> DEFINE G == [n \in Nat |-> {c \in Buf :
                   /\ Sound(c, known, late, {}) /\ Carried(c, b)
                   /\ Places(c.q) = {p \in Places(b.q) :
                                       ~(p.kind = "reserved" /\ \E k \in 1..n : p.id = ids[k])}
                   /\ (c.has => b.has)}]
<1>1. b \in G[0]
  <2>1. b \in Buf /\ Carried(b, b)
    BY SoundParts DEF Carried
  <2> QED BY <2>1
<1>2. ASSUME NEW n \in 1..Len(ids), NEW a \in G[n - 1] PROVE ReleaseEchoSlotAndDrain(a, ids[n]) \in G[n]
  <2>1. n - 1 \in Nat /\ n \in Nat /\ ids[n] \in Nat /\ (\A k \in 1..n : k \in 1..(n - 1) \/ k = n)
        /\ (\A k \in 1..(n - 1) : k \in 1..n) /\ n \in 1..n
    OBVIOUS
  <2>2. /\ Sound(a, known, late, {}) /\ Carried(a, b)
        /\ Places(a.q) = {p \in Places(b.q) :
                            ~(p.kind = "reserved" /\ \E k \in 1..(n - 1) : p.id = ids[k])}
        /\ (a.has => b.has)
    BY <2>1, <1>2
  <2> DEFINE c == ReleaseEchoSlotAndDrain(a, ids[n])
  <2>3. /\ Sound(c, known, late, {}) /\ Carried(c, a) /\ (c.has => a.has)
        /\ Places(c.q) = {p \in Places(a.q) : ~(p.id = ids[n] /\ p.kind = "reserved")}
    <3>1. Sound(a, known, late, {}) /\ ids[n] \in Nat
      BY <2>1, <2>2
    <3> HIDE DEF G
    <3> QED BY <3>1, ReleaseAndDrainSound
  <2> HIDE DEF c
  <2>4. Carried(c, b) /\ c \in Buf
    BY <2>2, <2>3, CarriedTwice, SoundParts
  <2>5. Places(c.q) = {p \in Places(b.q) :
                         ~(p.kind = "reserved" /\ \E k \in 1..n : p.id = ids[k])}
    BY <2>1, <2>2, <2>3
  <2> QED BY <2>1, <2>2, <2>3, <2>4, <2>5 DEF c
<1>3. Abandons!Folded(b, ids) \in G[Len(ids)]
  <2> HIDE DEF G
  <2> QED BY <1>1, <1>2, Abandons!FoldInduct
<1>4. Abandons!Folded(b, ids) = AbandonReflections(b, ids)
  BY DEF AbandonReflections, FoldLeft, MapThenFoldSet, Max, Abandons!Folded, Abandons!Iter, Abandons!Greatest
<1>5. Len(ids) \in Nat
  OBVIOUS
<1> QED BY <1>3, <1>4, <1>5

\* Rows that come to the buffer; new ones are not doubled.
Gained(c, b, rows) ==
  /\ Places(c.q) \subseteq Places(b.q) /\ BufRows(c) = BufRows(b) \cup rows
  /\ Once(b) /\ rows \cap BufRows(b) = {} => Once(c)

\* Rows that came stay when places are given up after it ...
LEMMA GainedCarried ==
  ASSUME NEW b, NEW c, NEW d, NEW rows, Gained(c, b, rows), Carried(d, c)
  PROVE  Gained(d, b, rows)
BY DEF Gained, Carried

\* ... or before it.
LEMMA CarriedGained ==
  ASSUME NEW b, NEW c, NEW d, NEW rows, Carried(c, b), Gained(d, c, rows)
  PROVE  Gained(d, b, rows)
BY DEF Gained, Carried

\* The part of it about rows.
Added(c, b, rows) ==
  BufRows(c) = BufRows(b) \cup rows /\ (Once(b) /\ rows \cap BufRows(b) = {} => Once(c))

\* Rows that came are there when others come, or places are given up, after it.
LEMMA AddedThen ==
  ASSUME NEW b, NEW c, NEW d, NEW rows, Added(c, b, rows)
  PROVE  /\ Carried(d, c) => Added(d, b, rows)
         /\ \A more : Added(d, c, more) /\ rows = {} => Added(d, b, more)
BY DEF Added, Carried

\* What comes, or is carried along, is added.
LEMMA AddedOf ==
  ASSUME NEW b, NEW c
  PROVE  /\ Carried(c, b) => Added(c, b, {})
         /\ \A rows : Gained(c, b, rows) => Added(c, b, rows)
BY DEF Added, Carried, Gained

\* A new entry goes behind everything.
LEMMA PushSound ==
  ASSUME NEW b, NEW known \in SUBSET Nat, NEW late, Sound(b, known, late, {}),
         NEW e \in Entry, Proper(e), \A id \in known : id < e.id,
         NEW c \in Buf, c.has, c.q = Append(b.q, e), c.out = b.out
  PROVE  /\ Sound(c, known \cup {e.id}, late, {})
         /\ Places(c.q) = Places(b.q) \cup IF IsWaiting(e) THEN {Place(e)} ELSE {}
         /\ BufRows(c) = BufRows(b) \cup RowsAt(e)
         /\ (Once(b) /\ NoTwice(e.rows) /\ RowsAt(e) \cap BufRows(b) = {} => Once(c))
<1>1. b \in Buf /\ QueueOK(b.q) /\ b.q \in Seq(Entry) /\ IdsIn(b.q) \subseteq known
  BY SoundParts
<1>2. \A i \in 1..Len(b.q) : b.q[i].id < e.id
  BY <1>1 DEF IdsIn
<1> DEFINE r == Append(b.q, e)
<1>3. /\ QueueOK(r) /\ IdsIn(r) = IdsIn(b.q) \cup {e.id}
      /\ Places(r) = Places(b.q) \cup IF IsWaiting(e) THEN {Place(e)} ELSE {}
      /\ RowsIn(r) = RowsIn(b.q) \cup RowsAt(e)
      /\ (QueueOnce(b.q) /\ NoTwice(e.rows) /\ RowsAt(e) \cap RowsIn(b.q) = {} => QueueOnce(r))
  BY <1>1, <1>2, PushFacts
<1> HIDE DEF r
<1>4. \A k \in 1..Len(c.out) : c.out[k].key \in known
  BY DEF Sound
<1>5. Ahead(c, {})
  <2>1. \A k \in 1..Len(c.out) : c.out[k].key < e.id
    BY <1>4
  <2>2. IsWaiting(e) => Place(e).id = e.id
    BY DEF Place
  <2>3. Ahead(b, {})
    BY DEF Sound
  <2>4. ASSUME NEW k \in 1..Len(c.out), NEW p \in Places(c.q) PROVE c.out[k].key < p.id
    <3>1. p \in Places(b.q) \/ p = Place(e)
      BY <1>3 DEF r
    <3> QED BY <3>1, <2>1, <2>2, <2>3 DEF Ahead, Place
  <2>5. ASSUME NEW k \in 1..Len(c.out), NEW id \in IdsIn(c.q) PROVE c.out[k].key < id
    <3>1. id \in IdsIn(b.q) \/ id = e.id
      BY <1>3 DEF r
    <3> QED BY <3>1, <2>1, <2>3 DEF Ahead
  <2> QED BY <2>4, <2>5 DEF Ahead
<1>6. OutOrdered(c, late)
  BY DEF Sound, OutOrdered
<1>7. Sound(c, known \cup {e.id}, late, {})
  BY <1>1, <1>3, <1>4, <1>5, <1>6 DEF Sound, r
<1>8. BufRows(c) = BufRows(b) \cup RowsAt(e)
  BY <1>3 DEF BufRows, r
<1>9. ASSUME Once(b), NoTwice(e.rows), RowsAt(e) \cap BufRows(b) = {} PROVE Once(c)
  BY <1>3, <1>9 DEF Once, BufRows, r
<1> QED BY <1>3, <1>7, <1>8, <1>9 DEF r

\* Without a queue rows are handed out at once.
LEMMA HandOutSound ==
  ASSUME NEW b, NEW known \in SUBSET Nat, NEW late, Sound(b, known, late, {}), ~b.has,
         NEW rows \in Seq(AnyRow), NEW key \in Nat, \A k \in 1..Len(rows) : rows[k].key = key,
         NoTwice(rows), key \in late \/ \A id \in known : id <= key
  PROVE  LET c == [b EXCEPT !.out = b.out \o rows]
         IN  /\ Sound(c, known \cup {key}, late, {}) /\ c.q = b.q /\ c.has = b.has
             /\ Gained(c, b, {rows[k] : k \in 1..Len(rows)})
<1> DEFINE c == [b EXCEPT !.out = b.out \o rows]
           out == b.out \o rows
<1>1. b \in Buf /\ b.out \in Seq(AnyRow) /\ b.q = <<>> /\ Places(b.q) = {} /\ IdsIn(b.q) = {}
  BY SoundParts
<1>2. /\ out \in Seq(AnyRow) /\ Len(out) = Len(b.out) + Len(rows)
      /\ (\A k \in 1..Len(b.out) : out[k] = b.out[k])
      /\ (\A k \in 1..Len(rows) : out[Len(b.out) + k] = rows[k])
      /\ (\A k \in 1..Len(out) : \/ k \in 1..Len(b.out) /\ out[k] = b.out[k]
                                 \/ k - Len(b.out) \in 1..Len(rows) /\ k > Len(b.out)
                                    /\ out[k] = rows[k - Len(b.out)])
  BY <1>1, Joined
<1> HIDE DEF out
<1>3. c \in Buf /\ c.q = b.q /\ c.has = b.has /\ c.out = out
  BY <1>1, <1>2 DEF Buf, out
<1> HIDE DEF c
<1>4. Len(b.out) \in Nat /\ Len(rows) \in Nat
  BY <1>1
<1>5. \A k \in 1..Len(b.out) : b.out[k].key \in known
  BY DEF Sound
<1>6. \A k \in 1..Len(out) : out[k].key \in known \cup {key}
  BY <1>2, <1>5
<1>7. OutOrdered(c, late)
  <2> SUFFICES ASSUME NEW k \in 1..Len(out), NEW l \in 1..Len(out), k < l, out[l].key \notin late
               PROVE  out[k].key <= out[l].key
    BY <1>3 DEF OutOrdered
  <2>1. CASE l \in 1..Len(b.out) /\ out[l] = b.out[l]
    <3>1. k \in 1..Len(b.out)
      BY <2>1
    <3> QED BY <2>1, <3>1, <1>2 DEF Sound, OutOrdered
  <2>2. CASE /\ l - Len(b.out) \in 1..Len(rows) /\ l > Len(b.out)
             /\ out[l] = rows[l - Len(b.out)]
    <3>1. out[l].key = key /\ key \notin late
      BY <2>2
    <3>2. out[k].key \in known \/ out[k].key = key
      BY <1>6
    <3>3. \A id \in known \cup {key} : id <= key
      <4>1. \A id \in known : id <= key
        BY <3>1
      <4>2. key <= key
        OBVIOUS
      <4> QED BY <4>1, <4>2
    <3>4. out[k].key <= key
      BY <3>2, <3>3
    <3> QED BY <3>1, <3>4
  <2> QED BY <2>1, <2>2, <1>2
<1>8. Ahead(c, {})
  BY <1>1, <1>3 DEF Ahead
<1>9. Sound(c, known \cup {key}, late, {})
  BY <1>1, <1>3, <1>6, <1>7, <1>8, NothingIn DEF Sound
<1>10. {out[k] : k \in 1..Len(out)} = {b.out[k] : k \in 1..Len(b.out)} \cup {rows[k] : k \in 1..Len(rows)}
  <2>1. \A k \in 1..Len(b.out) : k \in 1..Len(out)
    BY <1>2, <1>4
  <2>2. \A k \in 1..Len(rows) : Len(b.out) + k \in 1..Len(out)
    BY <1>2, <1>4
  <2>3. \A k \in 1..Len(out) : out[k] \in {b.out[l] : l \in 1..Len(b.out)} \cup {rows[l] : l \in 1..Len(rows)}
    BY <1>2
  <2>4. \A k \in 1..Len(b.out) : b.out[k] \in {out[l] : l \in 1..Len(out)}
    BY <2>1, <1>2
  <2>5. \A k \in 1..Len(rows) : rows[k] \in {out[l] : l \in 1..Len(out)}
    BY <2>2, <1>2
  <2> QED BY <2>3, <2>4, <2>5
<1>11. Gained(c, b, {rows[k] : k \in 1..Len(rows)})
  <2>1. BufRows(c) = RowsIn(b.q) \cup {out[k] : k \in 1..Len(out)}
    BY <1>3 DEF BufRows
  <2>2. BufRows(b) = RowsIn(b.q) \cup {b.out[k] : k \in 1..Len(b.out)}
    BY DEF BufRows
  <2>3. BufRows(c) = BufRows(b) \cup {rows[k] : k \in 1..Len(rows)}
    BY <2>1, <2>2, <1>10, Zenon
  <2>4. ASSUME Once(b), {rows[k] : k \in 1..Len(rows)} \cap BufRows(b) = {} PROVE Once(c)
    <3>1. NoTwice(b.out) /\ QueueOnce(b.q) /\ {b.out[k] : k \in 1..Len(b.out)} \cap {rows[k] : k \in 1..Len(rows)} = {}
      BY <2>4 DEF Once, BufRows
    <3>2. NoTwice(out)
      BY <3>1, <1>1, NoTwiceJoined DEF out
    <3>3. RowsIn(b.q) = {}
      BY <1>1, NothingIn
    <3> QED BY <3>1, <3>2, <3>3, <1>3 DEF Once
  <2> QED BY <2>3, <2>4, <1>3 DEF Gained
<1> QED BY <1>3, <1>9, <1>11 DEF c

\* A row that needs no translation is newer than everything.
LEMMA PushOrDeliverSound ==
  ASSUME NEW b, NEW known \in SUBSET Nat, NEW late, Sound(b, known, late, {}),
         NEW row \in AnyRow, \A id \in known : id < row.key
  PROVE  LET c == PushOrDeliver(b, row)
         IN  /\ Sound(c, known \cup {row.key}, late, {}) /\ Gained(c, b, {row})
             /\ (c.has => b.has)
<1> DEFINE e == Ready(row.key, row)
           m == [b EXCEPT !.q = Append(b.q, e)]
           c == PushOrDeliver(b, row)
<1>0. b \in Buf /\ b.q \in Seq(Entry) /\ b.out \in Seq(AnyRow) /\ row.key \in Nat
  BY SoundParts DEF AnyRow
<1>1. known \cup {row.key} \in SUBSET Nat
  BY <1>0
<1>2. CASE b.has
  <2>1. e \in Entry /\ Proper(e) /\ e.id = row.key /\ ~IsWaiting(e) /\ RowsAt(e) = {row} /\ NoTwice(e.rows)
    <3>1. ClearedAs(e, row.key) /\ RowsAt(e) = {row}
      BY <1>0, ReadyFacts
    <3> HIDE DEF e
    <3> QED BY <3>1 DEF ClearedAs, Proper, IsWaiting, NoTwice
  <2> HIDE DEF e
  <2>2. m \in Buf /\ m.has /\ m.q = Append(b.q, e) /\ m.out = b.out
    <3>1. Append(b.q, e) \in Seq(Entry)
      BY <1>0, <2>1
    <3> QED BY <3>1, <1>0, <1>2 DEF Buf
  <2> HIDE DEF m
  <2>3. /\ Sound(m, known \cup {row.key}, late, {}) /\ Places(m.q) = Places(b.q)
        /\ BufRows(m) = BufRows(b) \cup {row} /\ (Once(b) /\ {row} \cap BufRows(b) = {} => Once(m))
    <3>1. \A id \in known : id < e.id
      BY <2>1
    <3>2. /\ Sound(m, known \cup {e.id}, late, {})
          /\ Places(m.q) = Places(b.q) \cup IF IsWaiting(e) THEN {Place(e)} ELSE {}
          /\ BufRows(m) = BufRows(b) \cup RowsAt(e)
          /\ (Once(b) /\ NoTwice(e.rows) /\ RowsAt(e) \cap BufRows(b) = {} => Once(m))
      BY <3>1, <2>1, <2>2, PushSound
    <3> QED BY <3>2, <2>1
  <2> DEFINE d == EnforceTranslateCeiling(m)
  <2>4. Sound(d, known \cup {row.key}, late, {}) /\ Carried(d, m)
    BY <2>3, <1>1, CeilingSound
  <2>5. c = d
    BY <1>2 DEF PushOrDeliver, PushResolved, m, e
  <2> HIDE DEF d, c
  <2>6. Gained(c, b, {row})
    <3>1. Gained(m, b, {row})
      BY <2>3 DEF Gained
    <3> QED BY <3>1, <2>4, <2>5, GainedCarried
  <2> QED BY <2>4, <2>5, <2>6, <1>2 DEF c
<1>3. CASE ~b.has
  <2> DEFINE rows == <<row>>
  <2>1. rows \in Seq(AnyRow) /\ Len(rows) = 1 /\ rows[1] = row /\ NoTwice(rows)
        /\ \A k \in 1..Len(rows) : rows[k].key = row.key
    BY DEF NoTwice
  <2>2. b.out \o rows = Append(b.out, row)
    BY <1>0
  <2>3. \A id \in known : id <= row.key
    BY <1>0
  <2>4. {rows[k] : k \in 1..Len(rows)} = {row}
    BY <2>1
  <2> HIDE DEF rows
  <2> DEFINE d == [b EXCEPT !.out = b.out \o rows]
  <2>5. /\ Sound(d, known \cup {row.key}, late, {}) /\ d.has = b.has
        /\ Gained(d, b, {rows[k] : k \in 1..Len(rows)})
    BY <2>1, <2>3, <1>0, <1>3, HandOutSound
  <2>6. c = d
    BY <1>3, <2>2 DEF PushOrDeliver
  <2> HIDE DEF d, c
  <2> QED BY <2>4, <2>5, <2>6 DEF c
<1> QED BY <1>2, <1>3

\* The test of the code is the set of the invariant.
LEMMA HoldsFacts ==
  ASSUME NEW q, QueueOK(q), NEW id
  PROVE  HoldsReservation(q, id) <=> id \in Reservations(q)
<1>1. q \in Seq(Entry)
  BY DEF QueueOK
<1>2. /\ ReservationAt(q, id) \in 0..Len(q)
      /\ ReservationAt(q, id) = 0 => \A j \in 1..Len(q) : ~(q[j].id = id /\ q[j].kind = "reserved")
      /\ ReservationAt(q, id) # 0 => q[ReservationAt(q, id)].id = id /\ q[ReservationAt(q, id)].kind = "reserved"
  BY <1>1, ReservationFacts
<1> QED BY <1>2 DEF HoldsReservation, Reservations

\* Late rows put into the queue by their id.
LEMMA InsertsFacts ==
  ASSUME NEW q, QueueOK(q), NEW key \in Nat, \A p \in Places(q) : p.id # key,
         NEW rows \in Seq(AnyRow), \A k \in 1..Len(rows) : rows[k].key = key
  PROVE  LET r == FoldLeft(InsertRow, q, rows)
         IN  /\ QueueOK(r) /\ IdsIn(r) \subseteq IdsIn(q) \cup {key} /\ Places(r) = Places(q)
             /\ RowsIn(r) = RowsIn(q) \cup {rows[k] : k \in 1..Len(rows)}
             /\ QueueOnce(q) /\ NoTwice(rows) /\ RowsIn(q) \cap {rows[k] : k \in 1..Len(rows)} = {}
                  => QueueOnce(r)
<1> DEFINE fresh == /\ QueueOnce(q) /\ NoTwice(rows)
                    /\ RowsIn(q) \cap {rows[k] : k \in 1..Len(rows)} = {}
           G == [n \in Nat |-> {r \in Seq(Entry) :
                   /\ QueueOK(r) /\ IdsIn(r) \subseteq IdsIn(q) \cup {key} /\ Places(r) = Places(q)
                   /\ RowsIn(r) = RowsIn(q) \cup {rows[k] : k \in 1..n}
                   /\ fresh => QueueOnce(r)}]
<1>1. q \in G[0]
  BY DEF QueueOK
<1>2. ASSUME NEW n \in 1..Len(rows), NEW a \in G[n - 1] PROVE InsertRow(a, rows[n]) \in G[n]
  <2>1. n - 1 \in Nat /\ n \in Nat /\ rows[n] \in AnyRow /\ rows[n].key = key
        /\ (\A k \in 1..n : k \in 1..(n - 1) \/ k = n) /\ (\A k \in 1..(n - 1) : k \in 1..n) /\ n \in 1..n
    OBVIOUS
  <2>2. /\ QueueOK(a) /\ IdsIn(a) \subseteq IdsIn(q) \cup {key} /\ Places(a) = Places(q)
        /\ RowsIn(a) = RowsIn(q) \cup {rows[k] : k \in 1..(n - 1)} /\ (fresh => QueueOnce(a))
    BY <2>1, <1>2
  <2> DEFINE r == InsertRow(a, rows[n])
  <2>3. /\ QueueOK(r) /\ IdsIn(r) \subseteq IdsIn(a) \cup {key} /\ Places(r) = Places(a)
        /\ RowsIn(r) = RowsIn(a) \cup {rows[n]}
        /\ (QueueOnce(a) /\ rows[n] \notin RowsIn(a) => QueueOnce(r))
    <3> HIDE DEF G
    <3>1. \A p \in Places(a) : p.id # rows[n].key
      BY <2>1, <2>2
    <3>2. /\ QueueOK(r) /\ IdsIn(r) \subseteq IdsIn(a) \cup {rows[n].key} /\ Places(r) = Places(a)
          /\ RowsIn(r) = RowsIn(a) \cup {rows[n]}
          /\ (QueueOnce(a) /\ rows[n] \notin RowsIn(a) => QueueOnce(r))
      BY <2>1, <2>2, <3>1, InsertFacts
    <3> QED BY <3>2, <2>1
  <2> HIDE DEF r
  <2>4. {rows[k] : k \in 1..n} = {rows[k] : k \in 1..(n - 1)} \cup {rows[n]}
    BY <2>1
  <2>5. RowsIn(r) = RowsIn(q) \cup {rows[k] : k \in 1..n}
    BY <2>2, <2>3, <2>4
  <2>6. r \in Seq(Entry) /\ IdsIn(r) \subseteq IdsIn(q) \cup {key}
    BY <2>2, <2>3 DEF QueueOK
  <2>7. ASSUME fresh PROVE QueueOnce(r)
    <3>1. \A k \in 1..(n - 1) : k \in 1..Len(rows) /\ n \in 1..Len(rows) /\ k < n
      BY <1>2
    <3>2. \A k \in 1..(n - 1) : rows[k] # rows[n]
      BY <3>1, <2>7 DEF NoTwice
    <3>3. rows[n] \notin RowsIn(q)
      BY <1>2, <2>7
    <3> QED BY <3>2, <3>3, <2>2, <2>3, <2>7
  <2> HIDE DEF fresh
  <2> QED BY <2>1, <2>2, <2>3, <2>5, <2>6, <2>7 DEF r
<1>3. Inserts!Folded(q, rows) \in G[Len(rows)]
  <2> HIDE DEF G
  <2> QED BY <1>1, <1>2, Inserts!FoldInduct
<1>4. Inserts!Folded(q, rows) = FoldLeft(InsertRow, q, rows)
  BY DEF FoldLeft, MapThenFoldSet, Max, Inserts!Folded, Inserts!Iter, Inserts!Greatest
<1>5. Len(rows) \in Nat
  OBVIOUS
<1> QED BY <1>3, <1>4, <1>5

\* The queue with rows of one id put where they belong.
Placed(q, key, rows) ==
  IF HoldsReservation(q, key) THEN FillReservedWith(q, key, rows) ELSE FoldLeft(InsertRow, q, rows)

\* Rows under `key` may come now: it is late, or its place is held for them.
MayPlace(b, key, late) ==
  /\ key \in late \/ key \in Reservations(b.q)
  /\ \A p \in Places(b.q) : p.id = key => p.kind = "reserved"

\* Rows of a held place, or late ones, put into the queue.
LEMMA PlacedSound ==
  ASSUME NEW b, NEW known \in SUBSET Nat, NEW late, Sound(b, known, late, {}), b.has,
         NEW key \in known, MayPlace(b, key, late),
         NEW rows \in Seq(AnyRow), \A k \in 1..Len(rows) : rows[k].key = key, NoTwice(rows)
  PROVE  LET c == [b EXCEPT !.q = Placed(b.q, key, rows)]
         IN  /\ Sound(c, known, late, late) /\ Gained(c, b, {rows[k] : k \in 1..Len(rows)})
             /\ c.has /\ \A p \in Places(c.q) : p.id # key
<1> DEFINE r == Placed(b.q, key, rows)
           c == [b EXCEPT !.q = r]
           new == {rows[k] : k \in 1..Len(rows)}
<1>1. b \in Buf /\ QueueOK(b.q) /\ IdsIn(b.q) \subseteq known /\ key \in Nat
  BY SoundParts
<1>2. /\ QueueOK(r) /\ IdsIn(r) \subseteq IdsIn(b.q) \cup (late \cap {key})
      /\ Places(r) \subseteq Places(b.q) /\ RowsIn(r) = RowsIn(b.q) \cup new
      /\ \A p \in Places(r) : p.id # key
      /\ QueueOnce(b.q) /\ RowsIn(b.q) \cap new = {} => QueueOnce(r)
  <2>1. CASE HoldsReservation(b.q, key)
    <3> DEFINE f == FillReservedWith(b.q, key, rows)
    <3>1. /\ QueueOK(f) /\ IdsIn(f) \subseteq IdsIn(b.q)
          /\ Places(f) = {p \in Places(b.q) : ~(p.id = key /\ p.kind = "reserved")}
          /\ RowsIn(f) = RowsIn(b.q) \cup IF HoldsReservation(b.q, key) THEN new ELSE {}
          /\ QueueOnce(b.q) /\ NoTwice(rows) /\ RowsIn(b.q) \cap new = {} => QueueOnce(f)
      BY <1>1, FillFacts
    <3>2. r = f
      BY <2>1 DEF Placed
    <3> HIDE DEF f, r, new
    <3> QED BY <2>1, <3>1, <3>2 DEF MayPlace
  <2>2. CASE ~HoldsReservation(b.q, key)
    <3> DEFINE f == FoldLeft(InsertRow, b.q, rows)
    <3>1. key \notin Reservations(b.q)
      BY <2>2, <1>1, HoldsFacts
    <3>2. key \in late /\ \A p \in Places(b.q) : p.id # key
      BY <3>1, <1>1, PlaceFacts DEF MayPlace
    <3>3. /\ QueueOK(f) /\ IdsIn(f) \subseteq IdsIn(b.q) \cup {key} /\ Places(f) = Places(b.q)
          /\ RowsIn(f) = RowsIn(b.q) \cup new
          /\ (QueueOnce(b.q) /\ RowsIn(b.q) \cap new = {} => QueueOnce(f))
      <4>1. QueueOK(b.q) /\ key \in Nat /\ (\A p \in Places(b.q) : p.id # key)
            /\ rows \in Seq(AnyRow) /\ (\A k \in 1..Len(rows) : rows[k].key = key)
        BY <3>2, <1>1
      <4>2. QueueOK(f) /\ IdsIn(f) \subseteq IdsIn(b.q) \cup {key} /\ Places(f) = Places(b.q)
        BY <4>1, InsertsFacts
      <4>3. RowsIn(f) = RowsIn(b.q) \cup new
        BY <4>1, InsertsFacts
      <4>4. QueueOnce(b.q) /\ NoTwice(rows) /\ RowsIn(b.q) \cap new = {} => QueueOnce(f)
        BY <4>1, InsertsFacts
      <4> HIDE DEF f, new
      <4> QED BY <4>2, <4>3, <4>4
    <3>4. r = f
      BY <2>2 DEF Placed
    <3> HIDE DEF f, r, new
    <3> QED BY <3>2, <3>3, <3>4
  <2> QED BY <2>1, <2>2
<1> HIDE DEF r, new
<1>3. r \in Seq(Entry)
  BY <1>2 DEF QueueOK
<1>4. c \in Buf /\ c.q = r /\ c.has = b.has /\ c.out = b.out
  BY <1>1, <1>3 DEF Buf
<1> HIDE DEF c
<1>5. Ahead(c, late)
  <2>1. Ahead(b, {})
    BY DEF Sound
  <2>2. ASSUME NEW k \in 1..Len(c.out), NEW p \in Places(c.q) PROVE c.out[k].key < p.id
    BY <2>1, <1>2, <1>4 DEF Ahead
  <2>3. ASSUME NEW k \in 1..Len(c.out), NEW id \in IdsIn(c.q) PROVE c.out[k].key < id \/ id \in late
    <3>1. id \in IdsIn(b.q) \/ id \in late
      BY <1>2, <1>4
    <3> QED BY <3>1, <2>1, <1>4 DEF Ahead
  <2> QED BY <2>2, <2>3 DEF Ahead
<1>6. OutOrdered(c, late) /\ \A k \in 1..Len(c.out) : c.out[k].key \in known
  BY <1>4 DEF Sound, OutOrdered
<1>7. Sound(c, known, late, late)
  BY <1>1, <1>2, <1>4, <1>5, <1>6 DEF Sound
<1>8. Gained(c, b, new)
  <2>1. Once(b) /\ new \cap BufRows(b) = {} => Once(c)
    BY <1>2, <1>4 DEF Once, BufRows
  <2> QED BY <2>1, <1>2, <1>4 DEF Gained, BufRows
<1> QED BY <1>2, <1>4, <1>7, <1>8 DEF c, r, new

\* add_own_message_chunks adds the rows and leaves no place of their key.
OwnAdded(c, b, known, late, key, rows) ==
  /\ Sound(c, known, late, {}) /\ Gained(c, b, {rows[k] : k \in 1..Len(rows)})
  /\ (c.has => b.has) /\ \A p \in Places(c.q) : p.id # key

LEMMA AddOwnSound ==
  ASSUME NEW b, NEW known \in SUBSET Nat, NEW late, Sound(b, known, late, {}),
         NEW key \in known, MayPlace(b, key, late),
         NEW rows \in Seq(AnyRow), \A k \in 1..Len(rows) : rows[k].key = key, NoTwice(rows)
  PROVE  OwnAdded(AddOwnMessageChunks(b, key, rows), b, known, late, key, rows)
<1> DEFINE c == AddOwnMessageChunks(b, key, rows)
           new == {rows[k] : k \in 1..Len(rows)}
<1>1. CASE ~b.has
  <2> DEFINE d == [b EXCEPT !.out = b.out \o rows]
  <2>1. key \in late /\ key \in Nat /\ Places(b.q) = {}
    BY <1>1, SoundParts DEF MayPlace
  <2>2. Sound(d, known \cup {key}, late, {}) /\ d.q = b.q /\ d.has = b.has /\ Gained(d, b, new)
    <3>1. key \in Nat /\ (key \in late \/ \A id \in known : id <= key)
      BY <2>1
    <3> HIDE DEF c
    <3> QED BY <3>1, <1>1, HandOutSound
  <2>3. c = d /\ known \cup {key} = known
    BY <1>1 DEF AddOwnMessageChunks
  <2> HIDE DEF c, d, new
  <2>4. /\ Sound(c, known, late, {}) /\ Gained(c, b, new) /\ (c.has => b.has)
        /\ \A p \in Places(c.q) : p.id # key
    BY <2>1, <2>2, <2>3, <1>1
  <2> QED BY <2>4, Zenon DEF c, new, OwnAdded
<1>2. CASE b.has
  <2> DEFINE m == [b EXCEPT !.q = Placed(b.q, key, rows)]
             d == EnforceTranslateCeiling(m)
             e == DrainTranslateReady(d)
  <2>1. /\ Sound(m, known, late, late) /\ Gained(m, b, new)
        /\ m.has /\ \A p \in Places(m.q) : p.id # key
    BY <1>2, PlacedSound
  <2>2. c = e
    BY <1>2 DEF AddOwnMessageChunks, Placed
  <2> HIDE DEF m, new, c
  <2>3. Sound(d, known, late, late) /\ Carried(d, m) /\ d.has = m.has
    BY <2>1, CeilingSound
  <2> HIDE DEF d
  <2>4. Sound(e, known, late, {}) /\ Carried(e, d)
    BY <2>1, <2>3, DrainSound
  <2> HIDE DEF e
  <2>5. Gained(e, b, new)
    BY <2>1, <2>3, <2>4, GainedCarried
  <2>6. \A p \in Places(e.q) : p.id # key
    BY <2>1, <2>3, <2>4 DEF Carried
  <2>7. /\ Sound(c, known, late, {}) /\ Gained(c, b, new) /\ (c.has => b.has)
        /\ \A p \in Places(c.q) : p.id # key
    BY <1>2, <2>2, <2>4, <2>5, <2>6
  <2> QED BY <2>7, Zenon DEF c, new, OwnAdded
<1> QED BY <1>1, <1>2

\* hold_own_message_chunk
LEMMA HoldOwnSound ==
  ASSUME NEW b, NEW known \in SUBSET Nat, NEW late, Sound(b, known, late, {}),
         NEW row \in AnyRow, row.key \in known, MayPlace(b, row.key, late)
  PROVE  LET c == HoldOwnMessageChunk(b, row.key, row)
         IN  Sound(c, known, late, {}) /\ Gained(c, b, {row}) /\ (c.has => b.has)
<1> DEFINE c == HoldOwnMessageChunk(b, row.key, row)
<1>1. b \in Buf /\ QueueOK(b.q) /\ IdsIn(b.q) \subseteq known
  BY SoundParts
<1>2. CASE b.has /\ CanHold(b.q, row.key)
  <2> DEFINE r == HoldInReserved(b.q, row.key, row)
             d == [b EXCEPT !.q = r]
  <2>1. /\ QueueOK(r) /\ IdsIn(r) = IdsIn(b.q) /\ Places(r) = Places(b.q)
        /\ RowsIn(r) = RowsIn(b.q) \cup {row}
        /\ (QueueOnce(b.q) /\ row \notin RowsIn(b.q) => QueueOnce(r))
    BY <1>1, <1>2, HoldFacts
  <2>2. c = d
    BY <1>2 DEF HoldOwnMessageChunk
  <2> HIDE DEF r, c
  <2>3. d \in Buf /\ d.q = r /\ d.has = b.has /\ d.out = b.out
    BY <1>1, <2>1 DEF Buf, QueueOK
  <2> HIDE DEF d
  <2>4. Sound(d, known, late, {})
    BY <1>1, <1>2, <2>1, <2>3 DEF Sound, Ahead, OutOrdered
  <2>5. Gained(d, b, {row})
    <3>1. Once(b) /\ {row} \cap BufRows(b) = {} => Once(d)
      BY <2>1, <2>3 DEF Once, BufRows
    <3> QED BY <3>1, <2>1, <2>3 DEF Gained, BufRows
  <2> QED BY <2>2, <2>3, <2>4, <2>5 DEF c
<1>3. CASE ~(b.has /\ CanHold(b.q, row.key))
  <2> DEFINE rows == <<row>>
  <2>1. rows \in Seq(AnyRow) /\ Len(rows) = 1 /\ rows[1] = row /\ NoTwice(rows)
        /\ \A k \in 1..Len(rows) : rows[k].key = row.key
    BY DEF NoTwice
  <2>2. {rows[k] : k \in 1..Len(rows)} = {row}
    BY <2>1
  <2>3. c = AddOwnMessageChunks(b, row.key, rows)
    BY <1>3 DEF HoldOwnMessageChunk
  <2> HIDE DEF rows, c
  <2>4. LET e == AddOwnMessageChunks(b, row.key, rows)
        IN  Sound(e, known, late, {}) /\ Gained(e, b, {rows[k] : k \in 1..Len(rows)}) /\ (e.has => b.has)
    <3>1. row.key \in known /\ rows \in Seq(AnyRow) /\ NoTwice(rows)
          /\ \A k \in 1..Len(rows) : rows[k].key = row.key
      BY <2>1
    <3>2. OwnAdded(AddOwnMessageChunks(b, row.key, rows), b, known, late, row.key, rows)
      BY <3>1, AddOwnSound
    <3> QED BY <3>2 DEF OwnAdded
  <2> QED BY <2>2, <2>3, <2>4 DEF c
<1> QED BY <1>2, <1>3

-----------------------------------------------------------------------------
(* Records of the sends whose reflections are expected.                    *)

\* Wire texts and records, without bound.
Texts  == Nat \X Nat \X Nat
Record == [id : Nat, text : Texts, part : Nat, last : BOOLEAN, age : Nat]

\* The members of a finite set in some order, all of them.
LEMMA SetToSeqFacts ==
  ASSUME NEW T, NEW S \in SUBSET T, IsFiniteSet(S)
  PROVE  /\ SetToSeq(S) \in Seq(T)
         /\ \A x \in S : \E k \in 1..Len(SetToSeq(S)) : x = SetToSeq(S)[k]
         /\ \A k \in 1..Len(SetToSeq(S)) : SetToSeq(S)[k] \in S
<1> DEFINE n == Cardinality(S)
           f == SetToSeq(S)
           R == {f[k] : k \in 1..n}
<1>1. n \in Nat /\ ExistsBijection(1..n, S)
  BY FS_CardinalityType
<1> HIDE DEF n
<1>2. \E g \in [1..n -> S] : IsInjective(g)
  BY <1>1 DEF ExistsBijection, Bijection, Injection
<1>3. f \in [1..n -> S] /\ IsInjective(f)
  BY <1>2 DEF SetToSeq, n
<1> HIDE DEF f
<1>4. R \in SUBSET S /\ f \in Surjection(1..n, R) /\ f \in Injection(1..n, R)
  BY <1>3 DEF Surjection, Injection
<1>5. IsFiniteSet(1..n) /\ Cardinality(1..n) = n
  BY <1>1, FS_Interval
<1>6. Cardinality(R) = n
  <2> HIDE DEF R
  <2> QED BY <1>4, <1>5, FS_Surjection
<1>7. R = S
  <2> HIDE DEF R
  <2> QED BY <1>4, <1>6, FS_Subset DEF n
<1>8. f \in Seq(T) /\ Len(f) = n
  BY <1>1, <1>3
<1> QED BY <1>3, <1>7, <1>8 DEF f

\* Ids of records are finitely many.
RecordIds(recs) == {recs[i].id : i \in 1..Len(recs)}

\* The ids of records are natural numbers, finitely many.
LEMMA RecordIdsFinite ==
  ASSUME NEW recs \in Seq(Record), NEW S \in SUBSET RecordIds(recs)
  PROVE  IsFiniteSet(S) /\ S \in SUBSET Nat
<1> DEFINE f == [i \in 1..Len(recs) |-> recs[i].id]
<1>1. Len(recs) \in Nat /\ \A i \in 1..Len(recs) : recs[i] \in Record
  OBVIOUS
<1>2. f \in Surjection(1..Len(recs), RecordIds(recs))
  BY DEF Surjection, RecordIds
<1>3. IsFiniteSet(1..Len(recs))
  BY <1>1, FS_Interval
<1>4. IsFiniteSet(RecordIds(recs))
  BY <1>2, <1>3, FS_Surjection
<1>5. RecordIds(recs) \subseteq Nat
  BY <1>1 DEF RecordIds, Record
<1> QED BY <1>4, <1>5, FS_Subset

\* Some records, in their order.
Among(r, s) ==
  /\ \A k \in 1..Len(r) : \E i \in 1..Len(s) : r[k] = s[i]
  /\ \A k, l \in 1..Len(r) : k < l => \E i, j \in 1..Len(s) : i < j /\ r[k] = s[i] /\ r[l] = s[j]

\* Some of some records.
LEMMA AmongTwice ==
  ASSUME NEW r, NEW s, NEW t, Among(r, s), Among(s, t)
  PROVE  Among(r, t)
<1>1. \A k \in 1..Len(r) : \E i \in 1..Len(t) : r[k] = t[i]
  BY DEF Among
<1>2. ASSUME NEW k \in 1..Len(r), NEW l \in 1..Len(r), k < l
      PROVE  \E i, j \in 1..Len(t) : i < j /\ r[k] = t[i] /\ r[l] = t[j]
  <2>1. PICK i \in 1..Len(s), j \in 1..Len(s) : i < j /\ r[k] = s[i] /\ r[l] = s[j]
    BY <1>2 DEF Among
  <2>2. \E m, n \in 1..Len(t) : m < n /\ s[i] = t[m] /\ s[j] = t[n]
    BY <2>1 DEF Among
  <2> QED BY <2>1, <2>2
<1> QED BY <1>1, <1>2 DEF Among

\* The records of the other messages.
LEMMA KeepFacts ==
  ASSUME NEW recs \in Seq(Record), NEW ids
  PROVE  LET r == KeepRecords(recs, ids)
         IN  /\ r \in Seq(Record) /\ Among(r, recs)
             /\ \A k \in 1..Len(r) : r[k].id \notin ids
             /\ \A i \in 1..Len(recs) : recs[i].id \notin ids => \E k \in 1..Len(r) : r[k] = recs[i]
<1> DEFINE at == {i \in 1..Len(recs) : recs[i].id \notin ids}
           r == Picked(recs, at)
           n == Cardinality(at)
<1>1. /\ r \in Seq(Record) /\ Len(r) = n /\ n \in 0..Len(recs)
      /\ \A k \in 1..n : Nth(at, k) \in at /\ r[k] = recs[Nth(at, k)]
      /\ \A k, l \in 1..n : k < l => Nth(at, k) < Nth(at, l)
      /\ \A i \in at : \E k \in 1..n : Nth(at, k) = i
  <2>1. at \in SUBSET (1..Len(recs))
    OBVIOUS
  <2> HIDE DEF at
  <2> QED BY <2>1, PickedFacts
<1> HIDE DEF r, n
<1>2. \A k \in 1..n : /\ Nth(at, k) \in 1..Len(recs) /\ recs[Nth(at, k)].id \notin ids
                      /\ r[k] = recs[Nth(at, k)]
  BY <1>1
<1>3. Among(r, recs)
  <2>1. ASSUME NEW k \in 1..n, NEW l \in 1..n, k < l
        PROVE  \E i, j \in 1..Len(recs) : i < j /\ r[k] = recs[i] /\ r[l] = recs[j]
    <3>1. Nth(at, k) < Nth(at, l)
      BY <1>1, <2>1
    <3> QED BY <3>1, <1>2
  <2>2. \A k \in 1..n : \E i \in 1..Len(recs) : r[k] = recs[i]
    BY <1>2
  <2> QED BY <2>1, <2>2, <1>1 DEF Among
<1>4. \A i \in 1..Len(recs) : recs[i].id \notin ids => \E k \in 1..Len(r) : r[k] = recs[i]
  BY <1>1
<1> QED BY <1>1, <1>2, <1>3, <1>4 DEF KeepRecords, r, n

\* The ids to evict are ids of records.
LEMMA EvictedFacts ==
  ASSUME NEW recs \in Seq(Record)
  PROVE  Evicted(recs) \in SUBSET RecordIds(recs)
<1> DEFINE heads == [k \in 1..Len(recs) |-> {recs[i].id : i \in 1..k}]
           fits  == {k \in 1..Len(recs) : Len(KeepRecords(recs, heads[k])) < MaxRecords}
<1>1. Evicted(recs) = IF Len(recs) < MaxRecords \/ fits = {} THEN {} ELSE heads[Min(fits)]
  BY DEF Evicted
<1>2. Len(recs) \in Nat /\ fits \in SUBSET (1..Len(recs))
  OBVIOUS
<1>3. fits # {} => Min(fits) \in 1..Len(recs)
  <2> HIDE DEF fits
  <2> QED BY <1>2, FirstAt
<1> HIDE DEF fits
<1>4. \A k \in 1..Len(recs) : heads[k] \subseteq RecordIds(recs)
  BY DEF RecordIds
<1> QED BY <1>1, <1>3, <1>4

\* What is left when one member is removed.
LEMMA RemoveAtFacts ==
  ASSUME NEW T, NEW s \in Seq(T), NEW p \in 1..Len(s)
  PROVE  LET r == RemoveAt(s, p)
         IN  /\ r \in Seq(T) /\ Len(r) = Len(s) - 1
             /\ \A k \in 1..(Len(s) - 1) : r[k] = IF k < p THEN s[k] ELSE s[k + 1]
<1> DEFINE a == SubSeq(s, 1, p - 1)
           b == SubSeq(s, p + 1, Len(s))
<1>1. /\ a \in Seq(T) /\ Len(a) = p - 1 /\ \A i \in 1..(p - 1) : a[i] = s[i]
      /\ b \in Seq(T) /\ Len(b) = Len(s) - p /\ \A i \in 1..(Len(s) - p) : b[i] = s[p + i]
  OBVIOUS
<1> HIDE DEF a, b
<1> DEFINE r == a \o b
<1>2. /\ r \in Seq(T) /\ Len(r) = Len(a) + Len(b)
      /\ \A i \in 1..Len(a) : r[i] = a[i]
      /\ \A i \in 1..Len(b) : r[Len(a) + i] = b[i]
  <2>1. a \in Seq(T) /\ b \in Seq(T)
    BY <1>1
  <2> QED BY <2>1, Joined
<1> HIDE DEF r
<1>3. Len(s) \in Nat /\ p \in Nat /\ p <= Len(s)
  OBVIOUS
<1>4. Len(r) = Len(s) - 1
  BY <1>1, <1>2, <1>3
<1>5. ASSUME NEW k \in 1..(Len(s) - 1) PROVE r[k] = IF k < p THEN s[k] ELSE s[k + 1]
  <2>1. CASE k < p
    <3>1. k \in 1..(p - 1) /\ k \in 1..Len(a)
      BY <2>1, <1>1, <1>3
    <3> QED BY <3>1, <2>1, <1>1, <1>2
  <2>2. CASE ~(k < p)
    <3> DEFINE i == k - (p - 1)
    <3>1. i \in 1..Len(b) /\ i \in 1..(Len(s) - p) /\ Len(a) + i = k /\ p + i = k + 1
      BY <2>2, <1>1, <1>3
    <3>2. r[Len(a) + i] = b[i] /\ b[i] = s[p + i]
      BY <3>1, <1>1, <1>2
    <3> QED BY <3>1, <3>2, <2>2
  <2> QED BY <2>1, <2>2
<1>6. RemoveAt(s, p) = r
  BY DEF RemoveAt, r, a, b
<1> QED BY <1>2, <1>4, <1>5, <1>6

\* r is what is left of recs when those of ids have gone.
LeftOf(r, recs, ids) ==
  /\ r \in Seq(Record) /\ Among(r, recs)
  /\ \A k \in 1..Len(r) : r[k].id \notin ids
  /\ \A i \in 1..Len(recs) : recs[i].id \notin ids => \E k \in 1..Len(r) : r[k] = recs[i]

LEMMA KeptRecords ==
  ASSUME NEW recs \in Seq(Record), NEW ids
  PROVE  LeftOf(KeepRecords(recs, ids), recs, ids)
<1> DEFINE kept == KeepRecords(recs, ids)
<1>1. /\ kept \in Seq(Record) /\ Among(kept, recs)
      /\ \A k \in 1..Len(kept) : kept[k].id \notin ids
      /\ \A i \in 1..Len(recs) : recs[i].id \notin ids => \E k \in 1..Len(kept) : kept[k] = recs[i]
  BY KeepFacts
<1> HIDE DEF kept
<1>2. LeftOf(kept, recs, ids)
  BY <1>1 DEF LeftOf
<1> QED BY <1>2 DEF kept

\* What is left of the records when one is consumed.
LEMMA WithoutOne ==
  ASSUME NEW s \in Seq(Record), NEW p \in 1..Len(s)
  PROVE  LET r == RemoveAt(s, p)
         IN  /\ r \in Seq(Record) /\ Among(r, s)
             /\ \A k \in 1..Len(r) : \E i \in 1..Len(s) : i # p /\ r[k] = s[i]
             /\ \A i \in 1..Len(s) : i # p => \E k \in 1..Len(r) : r[k] = s[i]
<1> DEFINE r == RemoveAt(s, p)
           at(k) == IF k < p THEN k ELSE k + 1
<1>1. /\ r \in Seq(Record) /\ Len(r) = Len(s) - 1
      /\ \A k \in 1..(Len(s) - 1) : r[k] = IF k < p THEN s[k] ELSE s[k + 1]
  BY RemoveAtFacts
<1> HIDE DEF r
<1>2. Len(s) \in Nat /\ p \in Nat /\ Len(r) \in Nat
  BY <1>1
<1>3. \A k \in 1..Len(r) : at(k) \in 1..Len(s) /\ at(k) # p /\ r[k] = s[at(k)]
  BY <1>1, <1>2
<1>4. \A k, l \in 1..Len(r) : k < l => at(k) < at(l)
  BY <1>1, <1>2
<1>5. ASSUME NEW i \in 1..Len(s), i # p PROVE \E k \in 1..Len(r) : r[k] = s[i]
  <2> DEFINE k == IF i < p THEN i ELSE i - 1
  <2>1. k \in 1..Len(r) /\ at(k) = i
    BY <1>1, <1>2, <1>5
  <2> QED BY <2>1, <1>3
<1> HIDE DEF at
<1>6. Among(r, s)
  <2>1. ASSUME NEW k \in 1..Len(r), NEW l \in 1..Len(r), k < l
        PROVE  \E i, j \in 1..Len(s) : i < j /\ r[k] = s[i] /\ r[l] = s[j]
    <3>1. at(k) < at(l)
      BY <1>4, <2>1
    <3> QED BY <3>1, <1>3
  <2> QED BY <2>1, <1>3 DEF Among
<1> QED BY <1>1, <1>3, <1>5, <1>6 DEF r

\* What take_own_echo_decoration finds and leaves.
TakenSound(t, recs, text) ==
  /\ t.left \in Seq(Record) /\ Among(t.left, recs)
  /\ \A k \in 1..Len(t.left) : t.left[k].id \notin StaleIds(recs)
  /\ ~t.found => \A i \in 1..Len(recs) : recs[i].id \notin StaleIds(recs) =>
                   recs[i].text # text /\ \E k \in 1..Len(t.left) : t.left[k] = recs[i]
  /\ t.found =>
       /\ t.rec \in Record /\ t.rec.text = text /\ t.rec.id \notin StaleIds(recs)
       /\ \E i \in 1..Len(recs) : recs[i] = t.rec
       /\ \A j \in 1..Len(recs) : recs[j].id \notin StaleIds(recs) /\ recs[j].text = text =>
            recs[j] = t.rec \/ \E i, k \in 1..Len(recs) : i < k /\ recs[i] = t.rec /\ recs[k] = recs[j]
       /\ \A i \in 1..Len(recs) : recs[i].id \notin StaleIds(recs) /\ recs[i] # t.rec =>
            \E k \in 1..Len(t.left) : t.left[k] = recs[i]
       /\ \A k \in 1..Len(t.left) : \E i, j \in 1..Len(recs) :
            i # j /\ recs[i] = t.rec /\ recs[j] = t.left[k]

\* take_own_echo_decoration finds the first record of the text, if there is one.
LEMMA TakenFacts ==
  ASSUME NEW recs \in Seq(Record), NEW text
  PROVE  TakenSound(Taken(recs, text), recs, text) /\ Taken(recs, text).found \in BOOLEAN
<1> DEFINE stale == StaleIds(recs)
           fresh == KeepRecords(recs, stale)
           at == {i \in 1..Len(fresh) : fresh[i].text = text}
           p == SelectInSeq(fresh, LAMBDA r : r.text = text)
           t == Taken(recs, text)
<1>1. /\ fresh \in Seq(Record) /\ Among(fresh, recs)
      /\ \A k \in 1..Len(fresh) : fresh[k].id \notin stale
      /\ \A i \in 1..Len(recs) : recs[i].id \notin stale => \E k \in 1..Len(fresh) : fresh[k] = recs[i]
  BY KeepFacts
<1>2. t = [found |-> p # 0, rec |-> IF p = 0 THEN <<>> ELSE fresh[p],
           left |-> IF p = 0 THEN fresh ELSE RemoveAt(fresh, p)]
  BY DEF Taken
<1>3. p = IF at # {} THEN Min(at) ELSE 0
  BY DEF SelectInSeq
<1> HIDE DEF fresh, p, t, stale
<1>4. Len(fresh) \in Nat /\ at \in SUBSET (1..Len(fresh))
  BY <1>1
<1>5. at # {} => Min(at) \in at /\ \A i \in at : Min(at) <= i
  <2> HIDE DEF at
  <2> QED BY <1>4, FirstAt
<1>6. CASE p = 0
  <2>1. at = {}
    BY <1>3, <1>4, <1>5, <1>6
  <2>2. ~t.found /\ t.left = fresh
    BY <1>2, <1>6
  <2>3. \A k \in 1..Len(fresh) : fresh[k].text # text
    BY <2>1
  <2>4. TakenSound(t, recs, text)
    BY <2>2, <2>3, <1>1 DEF TakenSound, stale
  <2> QED BY <2>4, <1>2 DEF t
<1>7. CASE p # 0
  <2>1. p \in 1..Len(fresh) /\ fresh[p].text = text /\ \A i \in at : p <= i
    BY <1>3, <1>5, <1>7
  <2> HIDE DEF at
  <2> DEFINE left == RemoveAt(fresh, p)
             rec == fresh[p]
  <2>2. t.found /\ t.left = left /\ t.rec = rec
    BY <1>2, <1>7
  <2>3. /\ left \in Seq(Record) /\ Among(left, fresh)
        /\ \A k \in 1..Len(left) : \E i \in 1..Len(fresh) : i # p /\ left[k] = fresh[i]
        /\ \A i \in 1..Len(fresh) : i # p => \E k \in 1..Len(left) : left[k] = fresh[i]
    BY <1>1, <2>1, WithoutOne
  <2> HIDE DEF left
  <2>4. Among(left, recs) /\ \A k \in 1..Len(left) : left[k].id \notin stale
    BY <1>1, <2>3, AmongTwice
  <2>5. \A i, j \in 1..Len(fresh) : i # j =>
          \E m, n \in 1..Len(recs) : m # n /\ recs[m] = fresh[i] /\ recs[n] = fresh[j]
    <3> SUFFICES ASSUME NEW i \in 1..Len(fresh), NEW j \in 1..Len(fresh), i # j
                 PROVE \E m, n \in 1..Len(recs) : m # n /\ recs[m] = fresh[i] /\ recs[n] = fresh[j]
      OBVIOUS
    <3>1. i < j \/ j < i
      BY <1>4
    <3>2. \A m, n \in 1..Len(recs) : m < n => m # n
      OBVIOUS
    <3> QED BY <3>1, <3>2, <1>1 DEF Among
  <2>6. \A k \in 1..Len(left) : \E i, j \in 1..Len(recs) : i # j /\ recs[i] = rec /\ recs[j] = left[k]
    <3> SUFFICES ASSUME NEW k \in 1..Len(left)
                 PROVE \E i, j \in 1..Len(recs) : i # j /\ recs[i] = rec /\ recs[j] = left[k]
      OBVIOUS
    <3>1. PICK i \in 1..Len(fresh) : i # p /\ left[k] = fresh[i]
      BY <2>3
    <3>2. p \in 1..Len(fresh) /\ p # i
      BY <2>1, <3>1
    <3>3. PICK m, n \in 1..Len(recs) : m # n /\ recs[m] = fresh[p] /\ recs[n] = fresh[i]
      BY <3>2, <2>5, Zenon
    <3>4. m # n /\ recs[m] = rec /\ recs[n] = left[k]
      BY <3>1, <3>3
    <3> QED BY <3>4, Zenon
  <2>7. ASSUME NEW j \in 1..Len(recs), recs[j].id \notin stale, recs[j].text = text
        PROVE  recs[j] = rec \/ \E i, k \in 1..Len(recs) : i < k /\ recs[i] = rec /\ recs[k] = recs[j]
    <3>1. PICK k \in 1..Len(fresh) : fresh[k] = recs[j]
      BY <1>1, <2>7
    <3>2. p <= k
      BY <2>1, <2>7, <3>1 DEF at
    <3>3. CASE k = p
      BY <3>1, <3>3
    <3>4. CASE k # p
      <4>1. p < k
        BY <3>2, <3>4, <2>1, <1>4
      <4>2. \E i, m \in 1..Len(recs) : i < m /\ fresh[p] = recs[i] /\ fresh[k] = recs[m]
        BY <4>1, <2>1, <1>1 DEF Among
      <4> QED BY <4>2, <3>1
    <3> QED BY <3>3, <3>4
  <2>8. ASSUME NEW i \in 1..Len(recs), recs[i].id \notin stale, recs[i] # rec
        PROVE  \E k \in 1..Len(left) : left[k] = recs[i]
    <3>1. PICK k \in 1..Len(fresh) : fresh[k] = recs[i]
      BY <1>1, <2>8
    <3> QED BY <3>1, <2>3, <2>8
  <2>9. rec \in Record /\ rec.id \notin stale /\ rec.text = text /\ \E i \in 1..Len(recs) : recs[i] = rec
    <3>1. \A k \in 1..Len(fresh) : fresh[k] \in Record
      BY <1>1
    <3> QED BY <3>1, <1>1, <2>1 DEF Among
  <2> HIDE DEF rec
  <2>10. TakenSound(t, recs, text)
    BY <2>2, <2>3, <2>4, <2>6, <2>7, <2>8, <2>9 DEF TakenSound, stale
  <2> QED BY <2>10, <1>2 DEF t
<1> QED BY <1>6, <1>7

\* Without new places there are no new reservations.
LEMMA CarriedReservations ==
  ASSUME NEW b, NEW c, QueueOK(b.q), QueueOK(c.q), Places(c.q) \subseteq Places(b.q)
  PROVE  Reservations(c.q) \subseteq Reservations(b.q)
BY PlaceFacts

\* Records dropped by message give the places of their messages back.
LEMMA AbandonIdsSound ==
  ASSUME NEW b, NEW known \in SUBSET Nat, NEW late, Sound(b, known, late, {}),
         NEW ids \in SUBSET Nat, IsFiniteSet(ids)
  PROVE  LET c == AbandonReflections(b, SetToSeq(ids))
         IN  /\ Sound(c, known, late, {}) /\ Carried(c, b) /\ (c.has => b.has)
             /\ Places(c.q) = {p \in Places(b.q) : ~(p.kind = "reserved" /\ p.id \in ids)}
<1> DEFINE seq == SetToSeq(ids)
           c == AbandonReflections(b, seq)
<1>1. /\ seq \in Seq(Nat) /\ \A x \in ids : \E k \in 1..Len(seq) : x = seq[k]
      /\ \A k \in 1..Len(seq) : seq[k] \in ids
  BY SetToSeqFacts
<1> HIDE DEF seq
<1>2. /\ Sound(c, known, late, {}) /\ Carried(c, b) /\ (c.has => b.has)
      /\ Places(c.q) = {p \in Places(b.q) :
                          ~(p.kind = "reserved" /\ \E k \in 1..Len(seq) : p.id = seq[k])}
  BY <1>1, AbandonSound
<1> HIDE DEF c
<1>3. Places(c.q) = {p \in Places(b.q) : ~(p.kind = "reserved" /\ p.id \in ids)}
  BY <1>1, <1>2
<1> QED BY <1>2, <1>3 DEF c, seq

\* One record more: others may go, and then the places of their messages.
FiledOne(f, g, record) ==
  \E kept \in Seq(Record) :
    /\ f.recs = Append(kept, record) /\ Among(kept, g.recs)
    /\ \A i \in 1..Len(g.recs) : g.recs[i].id \in Reservations(f.b.q) =>
         \E k \in 1..Len(kept) : kept[k] = g.recs[i]

\* decorate_own_echo for one line keeps the buffer sound.
LEMMA FileOneSound ==
  ASSUME NEW g, g.recs \in Seq(Record), NEW known \in SUBSET Nat, NEW late,
         Sound(g.b, known, late, {}), NEW record \in Record
  PROVE  LET f == DecorateOwnEcho(g, record)
         IN  /\ FiledOne(f, g, record) /\ f \in [recs : Seq(Record), b : Buf]
             /\ Sound(f.b, known, late, {}) /\ Carried(f.b, g.b) /\ (f.b.has => g.b.has)
<1> DEFINE stale == StaleIds(g.recs)
           fresh == KeepRecords(g.recs, stale)
           dropped == stale \cup Evicted(fresh)
           kept == KeepRecords(g.recs, dropped)
           c == AbandonReflections(g.b, SetToSeq(dropped))
           f == DecorateOwnEcho(g, record)
<1>1. f = [recs |-> Append(kept, record), b |-> c]
  BY DEF DecorateOwnEcho
<1>2. fresh \in Seq(Record) /\ Among(fresh, g.recs)
  BY KeepFacts
<1>3. stale \in SUBSET RecordIds(g.recs)
  BY DEF StaleIds, RecordIds
<1> HIDE DEF fresh, stale
<1>4. Evicted(fresh) \in SUBSET RecordIds(g.recs)
  <2>1. Evicted(fresh) \in SUBSET RecordIds(fresh)
    BY <1>2, EvictedFacts
  <2>2. RecordIds(fresh) \subseteq RecordIds(g.recs)
    BY <1>2 DEF RecordIds, Among
  <2> QED BY <2>1, <2>2
<1>5. dropped \in SUBSET RecordIds(g.recs)
  BY <1>3, <1>4
<1> HIDE DEF dropped
<1>6. IsFiniteSet(dropped) /\ dropped \in SUBSET Nat
  BY <1>5, RecordIdsFinite
<1>7. /\ kept \in Seq(Record) /\ Among(kept, g.recs)
      /\ \A i \in 1..Len(g.recs) : g.recs[i].id \notin dropped => \E k \in 1..Len(kept) : kept[k] = g.recs[i]
  BY KeepFacts
<1> HIDE DEF kept
<1>8. /\ Sound(c, known, late, {}) /\ Carried(c, g.b) /\ (c.has => g.b.has)
      /\ Places(c.q) = {p \in Places(g.b.q) : ~(p.kind = "reserved" /\ p.id \in dropped)}
  BY <1>6, AbandonIdsSound
<1> HIDE DEF c
<1>9. c \in Buf /\ QueueOK(c.q)
  BY <1>8, SoundParts
<1>10. \A id \in Reservations(c.q) : id \notin dropped
  BY <1>8, <1>9, PlaceFacts
<1>11. Append(kept, record) \in Seq(Record)
  BY <1>7
<1> HIDE DEF f
<1>12. f.recs = Append(kept, record) /\ f.b = c /\ f \in [recs : Seq(Record), b : Buf]
  BY <1>1, <1>9, <1>11
<1>13. FiledOne(f, g, record)
  BY <1>7, <1>10, <1>12 DEF FiledOne
<1> QED BY <1>8, <1>12, <1>13 DEF f

\* Two records in order, of those that were there and the new ones.
PairFiled(x, y, recs, lines) ==
  \/ \E i, j \in 1..Len(recs) : i < j /\ x = recs[i] /\ y = recs[j]
  \/ (\E i \in 1..Len(recs) : x = recs[i]) /\ \E m \in 1..Len(lines) : y = lines[m]
  \/ \E m, n \in 1..Len(lines) : m < n /\ x = lines[m] /\ y = lines[n]

\* The first n lines have their records, as far as these fit.
FiledUpTo(f, recs, lines, n) ==
  /\ \A k \in 1..Len(f.recs) : \/ \E i \in 1..Len(recs) : f.recs[k] = recs[i]
                               \/ \E m \in 1..n : f.recs[k] = lines[m]
  /\ \A k, l \in 1..Len(f.recs) : k < l => PairFiled(f.recs[k], f.recs[l], recs, lines)
  /\ n # 0 => \E k \in 1..Len(f.recs) : f.recs[k] = lines[n]
  /\ \A i \in 1..Len(recs) : recs[i].id \in Reservations(f.b.q) =>
       \E k \in 1..Len(f.recs) : f.recs[k] = recs[i]

\* One turn of the loop over the wire lines of a send.
LEMMA FiledUpToNext ==
  ASSUME NEW recs, NEW lines \in Seq(Record), NEW n \in 1..Len(lines),
         NEW g, FiledUpTo(g, recs, lines, n - 1), g.recs \in Seq(Record),
         NEW f, FiledOne(f, g, lines[n]), Reservations(f.b.q) \subseteq Reservations(g.b.q)
  PROVE  FiledUpTo(f, recs, lines, n)
<1>1. PICK kept \in Seq(Record) :
        /\ f.recs = Append(kept, lines[n]) /\ Among(kept, g.recs)
        /\ \A i \in 1..Len(g.recs) : g.recs[i].id \in Reservations(f.b.q) =>
             \E k \in 1..Len(kept) : kept[k] = g.recs[i]
  BY DEF FiledOne
<1> DEFINE z == Len(kept)
<1>2. /\ Len(f.recs) = z + 1 /\ z \in Nat /\ f.recs[z + 1] = lines[n]
      /\ (\A k \in 1..z : f.recs[k] = kept[k])
      /\ (\A k \in 1..(z + 1) : k \in 1..z \/ k = z + 1)
  BY <1>1
<1> HIDE DEF z
<1>3. n - 1 \in Nat /\ (\A m \in 1..(n - 1) : m \in 1..n /\ m \in 1..Len(lines) /\ m < n) /\ n \in 1..n
  OBVIOUS
<1>4. \A k \in 1..z : \E i \in 1..Len(g.recs) : f.recs[k] = g.recs[i]
  BY <1>1, <1>2 DEF Among, z
<1>5. ASSUME NEW k \in 1..Len(f.recs)
      PROVE  \/ \E i \in 1..Len(recs) : f.recs[k] = recs[i]
             \/ \E m \in 1..n : f.recs[k] = lines[m]
  <2>1. CASE k \in 1..z
    <3>1. PICK i \in 1..Len(g.recs) : f.recs[k] = g.recs[i]
      BY <1>4, <2>1
    <3>2. \/ \E j \in 1..Len(recs) : g.recs[i] = recs[j]
          \/ \E m \in 1..(n - 1) : g.recs[i] = lines[m]
      BY DEF FiledUpTo
    <3> QED BY <3>1, <3>2, <1>3
  <2>2. CASE k = z + 1
    BY <2>2, <1>2, <1>3
  <2> QED BY <2>1, <2>2, <1>2
<1>6. ASSUME NEW k \in 1..Len(f.recs), NEW l \in 1..Len(f.recs), k < l
      PROVE  PairFiled(f.recs[k], f.recs[l], recs, lines)
  <2>0. k \in 1..z
    BY <1>2, <1>6
  <2>1. CASE l \in 1..z
    <3>1. \E i, j \in 1..Len(g.recs) : i < j /\ kept[k] = g.recs[i] /\ kept[l] = g.recs[j]
      BY <2>0, <2>1, <1>1, <1>6 DEF Among, z
    <3> QED BY <3>1, <2>0, <2>1, <1>2 DEF FiledUpTo
  <2>2. CASE l = z + 1
    <3>1. PICK i \in 1..Len(g.recs) : f.recs[k] = g.recs[i]
      BY <1>4, <2>0
    <3>2. \/ \E j \in 1..Len(recs) : g.recs[i] = recs[j]
          \/ \E m \in 1..(n - 1) : g.recs[i] = lines[m]
      BY DEF FiledUpTo
    <3> QED BY <3>1, <3>2, <2>2, <1>2, <1>3 DEF PairFiled
  <2> QED BY <2>1, <2>2, <1>2
<1>7. \E k \in 1..Len(f.recs) : f.recs[k] = lines[n]
  BY <1>2
<1>8. ASSUME NEW i \in 1..Len(recs), recs[i].id \in Reservations(f.b.q)
      PROVE  \E k \in 1..Len(f.recs) : f.recs[k] = recs[i]
  <2>1. PICK j \in 1..Len(g.recs) : g.recs[j] = recs[i]
    BY <1>8 DEF FiledUpTo
  <2>2. PICK k \in 1..z : kept[k] = g.recs[j]
    BY <2>1, <1>8, <1>1 DEF z
  <2>3. k \in 1..Len(f.recs)
    BY <1>2
  <2> QED BY <2>1, <2>2, <2>3, <1>2
<1> QED BY <1>5, <1>6, <1>7, <1>8 DEF FiledUpTo

\* expect_own_reflection for all the lines of a send.
LEMMA FileSound ==
  ASSUME NEW recs \in Seq(Record), NEW b, NEW known \in SUBSET Nat, NEW late,
         Sound(b, known, late, {}), NEW lines \in Seq(Record)
  PROVE  LET f == FoldLeft(DecorateOwnEcho, [recs |-> recs, b |-> b], lines)
         IN  /\ f.recs \in Seq(Record) /\ FiledUpTo(f, recs, lines, Len(lines))
             /\ Sound(f.b, known, late, {}) /\ Carried(f.b, b) /\ (f.b.has => b.has)
<1> DEFINE start == [recs |-> recs, b |-> b]
           G == [n \in Nat |-> {f \in [recs : Seq(Record), b : Buf] :
                   /\ FiledUpTo(f, recs, lines, n)
                   /\ Sound(f.b, known, late, {}) /\ Carried(f.b, b) /\ (f.b.has => b.has)}]
<1>1. start \in G[0]
  <2>1. b \in Buf /\ Carried(b, b)
    BY SoundParts DEF Carried
  <2>2. start \in [recs : Seq(Record), b : Buf] /\ start.recs = recs /\ start.b = b
    BY <2>1
  <2> HIDE DEF start
  <2>3. FiledUpTo(start, recs, lines, 0)
    BY <2>2 DEF FiledUpTo, PairFiled
  <2> QED BY <2>1, <2>2, <2>3
<1>2. ASSUME NEW n \in 1..Len(lines), NEW g \in G[n - 1] PROVE DecorateOwnEcho(g, lines[n]) \in G[n]
  <2>1. n - 1 \in Nat /\ n \in Nat /\ lines[n] \in Record
    OBVIOUS
  <2>2. /\ g \in [recs : Seq(Record), b : Buf] /\ FiledUpTo(g, recs, lines, n - 1)
        /\ Sound(g.b, known, late, {}) /\ Carried(g.b, b) /\ (g.b.has => b.has)
    BY <2>1, <1>2
  <2>3. g.recs \in Seq(Record)
    BY <2>2
  <2> HIDE DEF G, start
  <2> DEFINE f == DecorateOwnEcho(g, lines[n])
  <2>4. /\ FiledOne(f, g, lines[n]) /\ f \in [recs : Seq(Record), b : Buf]
        /\ Sound(f.b, known, late, {}) /\ Carried(f.b, g.b) /\ (f.b.has => g.b.has)
    BY <2>1, <2>2, <2>3, FileOneSound
  <2> HIDE DEF f
  <2>5. Reservations(f.b.q) \subseteq Reservations(g.b.q)
    <3>1. QueueOK(f.b.q) /\ QueueOK(g.b.q)
      BY <2>2, <2>4, SoundParts
    <3> QED BY <3>1, <2>4, CarriedReservations DEF Carried
  <2>6. FiledUpTo(f, recs, lines, n)
    BY <2>2, <2>3, <2>4, <2>5, FiledUpToNext
  <2>7. Carried(f.b, b)
    BY <2>2, <2>4, CarriedTwice
  <2> QED BY <2>1, <2>2, <2>4, <2>6, <2>7 DEF f, G
<1>3. Files!Folded(start, lines) \in G[Len(lines)]
  <2> HIDE DEF G, start
  <2> QED BY <1>1, <1>2, Files!FoldInduct
<1>4. Files!Folded(start, lines) = FoldLeft(DecorateOwnEcho, start, lines)
  BY Zenon DEF FoldLeft, MapThenFoldSet, Max, Files!Folded, Files!Iter, Files!Greatest
<1>5. Len(lines) \in Nat
  OBVIOUS
<1> DEFINE f == FoldLeft(DecorateOwnEcho, start, lines)
<1> HIDE DEF start, f
<1>6. f \in [recs : Seq(Record), b : Buf] /\ FiledUpTo(f, recs, lines, Len(lines))
      /\ Sound(f.b, known, late, {}) /\ Carried(f.b, b) /\ (f.b.has => b.has)
  BY <1>3, <1>4, <1>5 DEF f
<1>7. f.recs \in Seq(Record)
  BY <1>6
<1> QED BY <1>6, <1>7 DEF f, start

-----------------------------------------------------------------------------
(* The inductive invariant.                                                *)

\* Sends, wire lines, and the ids known so far.
Send == [id : Nat, text : Nat, age : Nat, sameSession : BOOLEAN]
Line == [id : Nat, text : Texts, part : Nat \ {0}]

LaneIds == {lane[i].id : i \in 1..Len(lane)}
LineIds == {reflecting[i].id : i \in 1..Len(reflecting)}
Known   == 0..(nextId - 1)

\* What the variables hold; ids are handed out before they are used.
Shapes ==
  /\ open \in BOOLEAN /\ hasQueue \in BOOLEAN /\ nextId \in Nat /\ session \in Sessions
  /\ QueueOK(queue) /\ (~hasQueue => queue = <<>>)
  /\ shown \in Seq(AnyRow) /\ lane \in Seq(Send)
  /\ records \in Seq(Record) /\ reflecting \in Seq(Line)
  /\ IdsIn(queue) \cup unplaced \cup timedOut \cup atShrinker \cup LaneIds \cup LineIds \subseteq Known

\* Who will still use a place has one, or has given it up; nobody else uses it.
PlacesOwned ==
  /\ \A p \in Places(queue) : p.id \notin unplaced
  /\ atShrinker \cup LaneIds \cup RecordIds(records) \subseteq Reservations(queue) \cup unplaced
  /\ \A i, j \in 1..Len(lane) : i # j => lane[i].id # lane[j].id
  /\ LaneIds \cap LineIds = {} /\ atShrinker \cap (LaneIds \cup LineIds) = {}

\* A send is as old as its place, and late when the tick gave up on it.
LaneAges ==
  \A i \in 1..Len(lane) :
    /\ \A p \in Places(queue) : p.id = lane[i].id => p.age = lane[i].age
    /\ lane[i].id \in timedOut => lane[i].age >= Timeout

\* The record that a line will find.
IsOf(line, record) == line.id = record.id /\ line.part = record.part /\ line.text = record.text

\* A record is about a line that has yet to come back; records stand in the
\* order of their lines.
InStep(recs, lines) ==
  /\ \A i \in 1..Len(recs) : recs[i].text[3] = recs[i].part
  /\ \A k \in 1..Len(lines) : lines[k].text[3] = lines[k].part
  /\ \A k, l \in 1..Len(lines) : k < l /\ lines[k].id = lines[l].id => lines[k].part < lines[l].part
  /\ \A i \in 1..Len(recs) : \E k \in 1..Len(lines) : IsOf(lines[k], recs[i])
  /\ \A i, j \in 1..Len(recs) : \A k, l \in 1..Len(lines) :
       i < j /\ IsOf(lines[k], recs[i]) /\ IsOf(lines[l], recs[j]) => k < l
  /\ \A i, j \in 1..Len(recs) : recs[i].id = recs[j].id /\ recs[i].last => recs[j].part <= recs[i].part

\* While the place of a message is held, the record of its last line is kept.
LastKept(recs, places) ==
  \A i \in 1..Len(recs) : recs[i].id \in places =>
    \E j \in 1..Len(recs) : recs[j].id = recs[i].id /\ recs[j].last

\* The rows that there are, and the rows yet to come: those of new ids, of the
\* shrinker, of sends in translation and of lines to be reflected.
Shown    == {shown[k] : k \in 1..Len(shown)}
RowsHeld == RowsIn(queue) \cup Shown \cup lost
Due(r) ==
  \/ r.src \notin Known \/ r.src \in atShrinker \/ r.src \in LaneIds
  \/ \E k \in 1..Len(reflecting) : r.src = reflecting[k].id /\ r.part = reflecting[k].part

\* A row is there once, and none that is there is yet to come; while the
\* buffer is gone, incoming rows come late.
RowsInv ==
  /\ QueueOnce(queue) /\ NoTwice(shown) /\ RowsIn(queue) \cap Shown = {}
  /\ lost \cap (RowsIn(queue) \cup Shown) = {}
  /\ \A r \in RowsHeld : ~Due(r)
  /\ OnlyUnplacedLost
  /\ ~open => /\ atShrinker \subseteq unplaced
              /\ \A r \in RowsIn(queue) : r.part = 0 => r.key \in unplaced

\* The inductive invariant.
RoutingInv ==
  /\ Shapes /\ PlacesOwned /\ LaneAges /\ InStep(records, reflecting) /\ RowsInv
  /\ LastKept(records, Reservations(queue)) /\ NothingLeftBehind

-----------------------------------------------------------------------------
(* The end of a handler.                                                   *)

\* The ids that have, or had, to do with the queue.
Seen == IdsIn(queue) \cup unplaced

\* At the start of a handler the buffer is sound.
LEMMA NowSound ==
  ASSUME Shapes
  PROVE  /\ Sound(Now, Seen, unplaced, {}) /\ Seen \in SUBSET Nat /\ Seen \subseteq Known
         /\ Now.q = queue /\ Now.has = hasQueue /\ Now.out = <<>> /\ Now \in Buf
<1>1. Seen \subseteq Known /\ Known \subseteq Nat
  BY DEF Shapes, Seen, Known
<1>2. QueueOK(queue) /\ queue \in Seq(Entry) /\ hasQueue \in BOOLEAN /\ <<>> \in Seq(AnyRow)
  BY DEF Shapes, QueueOK
<1>3. Now \in Buf /\ Now.q = queue /\ Now.has = hasQueue /\ Now.out = <<>>
  BY <1>2 DEF Now, Buf
<1>4. Sound(Now, Seen, unplaced, {})
  BY <1>2, <1>3 DEF Sound, Shapes, Ahead, OutOrdered, Seen
<1> QED BY <1>1, <1>3, <1>4

\* A handler leaves places of the queue it found, or one of its new id; `places`
\* are held, or are asked for, when it ends.
MayClose(b, places) ==
  /\ nextId' \in Nat /\ nextId' >= nextId
  /\ Sound(b, Seen \cup (nextId..(nextId' - 1)), unplaced, {})
  /\ \A p \in Places(b.q) : p \in Places(queue) \/ p.id \in nextId..(nextId' - 1)
  /\ places \subseteq Reservations(queue) \cup (nextId..(nextId' - 1))
  /\ \A p \in Places(b.q) : p.id \in nextId..(nextId' - 1) /\ p.id \in places => p.kind = "reserved"

\* What is known when it has ended.
Closed(b, places) ==
  /\ hasQueue' \in BOOLEAN /\ QueueOK(queue') /\ (~hasQueue' => queue' = <<>>)
  /\ shown' \in Seq(AnyRow)
  /\ IdsIn(queue') \cup unplaced' \subseteq 0..(nextId' - 1)
  /\ Places(queue') = Places(b.q) /\ Reservations(queue') = Reservations(b.q)
  /\ unplaced \subseteq unplaced' /\ places \subseteq Reservations(queue') \cup unplaced'
  /\ \A p \in Places(queue') : p.id \notin unplaced'
  /\ Timeline!Step(NewKeys, nextId')

\* The keys of rows.
Keys(s) == [i \in 1..Len(s) |-> s[i].key]

\* Keys are natural numbers.
LEMMA RowKey ==
  ASSUME NEW s \in Seq(AnyRow), NEW i \in 1..Len(s)
  PROVE  s[i].key \in Nat
<1>1. s[i] \in AnyRow
  OBVIOUS
<1> QED BY <1>1 DEF AnyRow

\* The keys of what was shown, and of what comes to it.
MoreKeys(r, s, t) ==
  /\ Keys(r) = Keys(s) \o [i \in 1..(Len(r) - Len(s)) |-> r[Len(s) + i].key]
  /\ Len(r) - Len(s) = Len(t) /\ \A i \in 1..Len(t) : r[Len(s) + i] = t[i]

LEMMA KeysOfMore ==
  ASSUME NEW s \in Seq(AnyRow), NEW t \in Seq(AnyRow), NEW r \in Seq(AnyRow), r = s \o t
  PROVE  MoreKeys(r, s, t)
<1>1. /\ Len(r) = Len(s) + Len(t) /\ Len(s) \in Nat /\ Len(t) \in Nat
      /\ (\A i \in 1..Len(s) : r[i] = s[i])
      /\ (\A i \in 1..Len(t) : r[Len(s) + i] = t[i])
  BY Joined
<1>2. Len(r) - Len(s) = Len(t)
  BY <1>1
<1> DEFINE more == [i \in 1..Len(t) |-> r[Len(s) + i].key]
<1>3. Keys(s) \in Seq(Nat) /\ Len(Keys(s)) = Len(s) /\ \A i \in 1..Len(s) : Keys(s)[i] = s[i].key
  <2>1. \A i \in 1..Len(s) : s[i].key \in Nat
    BY RowKey
  <2> QED BY <2>1 DEF Keys
<1>4. more \in Seq(Nat) /\ Len(more) = Len(t) /\ \A i \in 1..Len(t) : more[i] = t[i].key
  <2>1. \A i \in 1..Len(t) : r[Len(s) + i].key = t[i].key /\ t[i].key \in Nat
    BY <1>1, RowKey
  <2> QED BY <2>1, <1>1
<1> HIDE DEF more
<1> DEFINE both == Keys(s) \o more
<1>5a. Keys(s) \in Seq(Nat) /\ more \in Seq(Nat)
  BY <1>3, <1>4
<1>5. /\ both \in Seq(Nat) /\ Len(both) = Len(Keys(s)) + Len(more)
      /\ (\A i \in 1..Len(Keys(s)) : both[i] = Keys(s)[i])
      /\ (\A i \in 1..Len(more) : both[Len(Keys(s)) + i] = more[i])
  BY <1>5a, Joined
<1> HIDE DEF both
<1>6. Len(both) = Len(r) /\ (\A i \in 1..Len(s) : both[i] = s[i].key)
      /\ (\A i \in 1..Len(t) : both[Len(s) + i] = t[i].key)
  BY <1>1, <1>3, <1>4, <1>5
<1>7. ASSUME NEW i \in 1..Len(r) PROVE both[i] = r[i].key
  <2>1. CASE i \in 1..Len(s)
    BY <2>1, <1>1, <1>6
  <2>2. CASE i \notin 1..Len(s)
    <3> DEFINE j == i - Len(s)
    <3>1. j \in 1..Len(t) /\ Len(s) + j = i
      BY <2>2, <1>1
    <3> QED BY <3>1, <1>1, <1>6
  <2> QED BY <2>1, <2>2
<1>8. both = [i \in 1..Len(both) |-> both[i]]
  BY <1>5
<1>9. Keys(r) = both
  BY <1>6, <1>7, <1>8 DEF Keys
<1>10. Keys(r) = Keys(s) \o [i \in 1..(Len(r) - Len(s)) |-> r[Len(s) + i].key]
  BY <1>2, <1>9 DEF both, more
<1> QED BY <1>1, <1>2, <1>10 DEF MoreKeys

\* The end of a handler, for the queue and what is shown: a step of the
\* timeline.
LEMMA CloseFacts ==
  ASSUME Shapes, PlacesOwned, NEW b, NEW places, MayClose(b, places), Close(b, places)
  PROVE  Closed(b, places)
<1> DEFINE new == nextId..(nextId' - 1)
           seen == Seen \cup new
           rows == IF open THEN b.out ELSE <<>>
<1>1. /\ nextId' \in Nat /\ nextId' >= nextId /\ nextId \in Nat
      /\ Sound(b, seen, unplaced, {})
      /\ \A p \in Places(b.q) : p \in Places(queue) \/ p.id \in new
      /\ places \subseteq Reservations(queue) \cup new
      /\ \A p \in Places(b.q) : p.id \in new /\ p.id \in places => p.kind = "reserved"
  BY DEF MayClose, Shapes
<1>2. b \in Buf /\ QueueOK(b.q) /\ b.out \in Seq(AnyRow) /\ IdsIn(b.q) \subseteq seen /\ b.has \in BOOLEAN
      /\ (~b.has => b.q = <<>>)
  BY <1>1, SoundParts
<1>3. queue' = b.q /\ hasQueue' = b.has
  BY <1>2 DEF Close
<1>4. unplaced' = unplaced \cup (places \ Reservations(queue'))
  BY DEF Close
<1>5. Seen \subseteq Known /\ \A x \in seen : x \in 0..(nextId' - 1)
  <2>1. Seen \subseteq Known
    BY NowSound
  <2>2. ASSUME NEW x \in seen PROVE x \in 0..(nextId' - 1)
    <3>1. x \in 0..(nextId - 1) \/ x \in new
      BY <2>1 DEF Known
    <3>2. nextId' \in Nat /\ nextId' >= nextId /\ nextId \in Nat
      BY <1>1
    <3> HIDE DEF seen
    <3> QED BY <3>1, <3>2
  <2> QED BY <2>1, <2>2
<1>6. rows \in Seq(AnyRow) /\ shown \in Seq(AnyRow) /\ shown' = shown \o rows
  <2>1. shown \o <<>> = shown
    BY DEF Shapes
  <2> QED BY <2>1, <1>2 DEF Close, Shapes
<1>7. shown' \in Seq(AnyRow)
  BY <1>6
<1> HIDE DEF rows
<1>8. /\ Keys(shown') = Keys(shown) \o [i \in 1..(Len(shown') - Len(shown)) |-> shown'[Len(shown) + i].key]
      /\ Len(shown') - Len(shown) = Len(rows) /\ \A i \in 1..Len(rows) : shown'[Len(shown) + i] = rows[i]
  <2>1. MoreKeys(shown', shown, rows)
    BY <1>6, <1>7, KeysOfMore
  <2> QED BY <2>1 DEF MoreKeys
<1>9. Reservations(queue) \subseteq IdsIn(queue) /\ Reservations(queue') = Reservations(b.q)
  BY <1>3 DEF Reservations, IdsIn
<1>10. places \subseteq seen
  BY <1>1, <1>9 DEF Seen
<1>11. unplaced' \subseteq unplaced \cup IdsIn(queue) \cup new
  BY <1>1, <1>4, <1>9
<1>12. \A p \in Places(queue') : p.id \notin unplaced'
  <2> SUFFICES ASSUME NEW p \in Places(b.q), p.id \in unplaced' PROVE FALSE
    BY <1>3
  <2>1. p.id \notin unplaced
    <3>1. CASE p \in Places(queue)
      BY <3>1 DEF PlacesOwned
    <3>2. CASE p.id \in new
      <4>1. unplaced \subseteq Known
        BY DEF Shapes
      <4> QED BY <4>1, <3>2, <1>1 DEF Known
    <3> QED BY <3>1, <3>2, <1>1
  <2>2. p.id \in places /\ p.id \notin Reservations(b.q)
    BY <2>1, <1>4, <1>9
  <2>3. p.kind # "reserved"
    BY <2>2, <1>2, PlaceFacts
  <2>4. p \in Places(queue) /\ p.id \notin new
    BY <1>1, <2>2, <2>3
  <2>5. p.id \in Reservations(queue)
    BY <1>1, <2>2, <2>4
  <2>6. QueueOK(queue)
    BY DEF Shapes
  <2>7. p.kind = "reserved"
    BY <2>4, <2>5, <2>6, PlaceFacts
  <2> QED BY <2>3, <2>7
<1>13. Timeline!Step(NewKeys, nextId')
  <2>1. NewKeys = [i \in 1..Len(rows) |-> rows[i].key]
    BY <1>8 DEF NewKeys
  <2>2. Len(NewKeys) = Len(rows) /\ \A i \in 1..Len(rows) : NewKeys[i] = rows[i].key
    <3>1. Len(rows) \in Nat /\ \A i \in 1..Len(rows) : rows[i].key \in Nat
      BY <1>6, RowKey
    <3> QED BY <3>1, <2>1
  <2>3. [i \in 1..Len(shown') |-> shown'[i].key] = [i \in 1..Len(shown) |-> shown[i].key] \o NewKeys
    BY <1>8 DEF Keys, NewKeys
  <2>4. IdsIn(queue') \subseteq IdsIn(queue) \cup new \cup unplaced'
    BY <1>2, <1>3, <1>4 DEF Seen
  <2>5. ASSUME NEW i \in 1..Len(rows)
        PROVE  /\ rows[i].key \in IdsIn(queue) \cup new \cup unplaced'
               /\ \A k \in IdsIn(queue') : rows[i].key < k
    <3>1. rows = b.out
      BY <2>5 DEF rows
    <3>2. rows[i].key \in seen /\ \A k \in IdsIn(b.q) : rows[i].key < k
      BY <3>1, <2>5, <1>1 DEF Sound, Ahead
    <3> QED BY <3>2, <1>3, <1>4 DEF Seen
  <2>6. ASSUME NEW i \in 1..Len(rows), NEW j \in 1..Len(rows), i < j, rows[j].key \notin unplaced'
        PROVE  rows[i].key <= rows[j].key
    <3>1. rows = b.out
      BY <2>6 DEF rows
    <3>2. rows[j].key \notin unplaced
      BY <2>6, <1>4
    <3> QED BY <3>1, <3>2, <2>6, <1>1 DEF Sound, OutOrdered
  <2>7. IdsIn(queue) = {queue[i].id : i \in 1..Len(queue)}
        /\ IdsIn(queue') = {queue'[i].id : i \in 1..Len(queue')}
    BY DEF IdsIn
  <2> HIDE DEF new
  <2>8. /\ \A i \in 1..Len(NewKeys) :
             /\ NewKeys[i] \in IdsIn(queue) \cup new \cup unplaced'
             /\ \A k \in IdsIn(queue') : NewKeys[i] < k
        /\ \A i, j \in 1..Len(NewKeys) :
             i < j /\ NewKeys[j] \notin unplaced' => NewKeys[i] <= NewKeys[j]
    BY <2>2, <2>5, <2>6
  <2>9. unplaced \subseteq unplaced' /\ unplaced' \subseteq unplaced \cup IdsIn(queue) \cup new
    BY <1>4, <1>11
  <2> HIDE DEF NewKeys
  <2> QED BY <2>3, <2>4, <2>7, <2>8, <2>9 DEF Timeline!Step, new
<1>14. IdsIn(queue') \cup unplaced' \subseteq 0..(nextId' - 1)
  <2>1. unplaced \subseteq Seen
    BY DEF Seen
  <2> HIDE DEF seen
  <2>2. unplaced' \subseteq seen
    BY <2>1, <1>4, <1>10 DEF seen
  <2> QED BY <2>2, <1>2, <1>3, <1>5
<1>15. places \subseteq Reservations(queue') \cup unplaced' /\ unplaced \subseteq unplaced'
  BY <1>4
<1>16. hasQueue' \in BOOLEAN /\ QueueOK(queue') /\ (~hasQueue' => queue' = <<>>) /\ Places(queue') = Places(b.q)
  BY <1>2, <1>3
<1> QED BY <1>7, <1>9, <1>12, <1>13, <1>14, <1>15, <1>16 DEF Closed

\* Whose place somebody still counts on.
Owned == atShrinker \cup LaneIds \cup RecordIds(records)

\* Nobody shares a place.
Apart ==
  /\ \A i, j \in 1..Len(lane) : i # j => lane[i].id # lane[j].id
  /\ LaneIds \cap LineIds = {} /\ atShrinker \cap (LaneIds \cup LineIds) = {}

\* What a handler owes the invariant besides ending well.
Keeps(b, places) ==
  /\ open' \in BOOLEAN /\ session' \in Sessions
  /\ lane' \in Seq(Send) /\ records' \in Seq(Record) /\ reflecting' \in Seq(Line)
  /\ timedOut' \cup LineIds' \subseteq 0..(nextId' - 1)
  /\ Owned' \subseteq unplaced \cup places
  /\ Apart' /\ LaneAges' /\ InStep(records, reflecting)'
  /\ LastKept(records', Reservations(b.q))
  /\ Reservations(b.q) \subseteq Owned'
  /\ RecordIds(records') \cap timedOut' = {}

\* Facts of the invariant that every action uses.
LEMMA InvFacts ==
  ASSUME RoutingInv
  PROVE  /\ Shapes /\ PlacesOwned /\ QueueOK(queue) /\ nextId \in Nat
         /\ Sound(Now, Seen, unplaced, {}) /\ Seen \in SUBSET Nat /\ Seen \subseteq Known
         /\ Now.q = queue /\ Now.has = hasQueue /\ Now.out = <<>> /\ Now \in Buf
         /\ Known \subseteq Nat /\ Known = {x \in Nat : x < nextId}
         /\ Owned \subseteq Reservations(queue) \cup unplaced /\ Owned \subseteq Seen
         /\ Reservations(queue) \subseteq Owned
         /\ Reservations(queue) = {p.id : p \in {o \in Places(queue) : o.kind = "reserved"}}
         /\ Reservations(queue) \subseteq Seen
         /\ LineIds \subseteq Known /\ LaneIds \subseteq Seen /\ atShrinker \subseteq Seen
         /\ Apart
<1>1. Shapes /\ PlacesOwned
  BY DEF RoutingInv
<1>2. QueueOK(queue) /\ nextId \in Nat /\ LineIds \subseteq Known
  BY <1>1 DEF Shapes
<1>3. Owned \subseteq Reservations(queue) \cup unplaced
  BY <1>1 DEF PlacesOwned, Owned
<1>4. Reservations(queue) \subseteq Seen
  BY DEF Reservations, IdsIn, Seen
<1>5. Owned \subseteq Seen
  BY <1>3, <1>4 DEF Seen
<1>6. Reservations(queue) \subseteq Owned
  BY DEF RoutingInv, NothingLeftBehind, NoOrphanBarrier, Owned, LaneIds, RecordIds
<1>7. Apart
  BY <1>1 DEF PlacesOwned, Apart
<1>8. Known \subseteq Nat /\ Known = {x \in Nat : x < nextId}
  BY <1>2 DEF Known
<1>9. LaneIds \subseteq Owned /\ atShrinker \subseteq Owned
  BY DEF Owned
<1>10. /\ Sound(Now, Seen, unplaced, {}) /\ Seen \in SUBSET Nat /\ Seen \subseteq Known
       /\ Now.q = queue /\ Now.has = hasQueue /\ Now.out = <<>> /\ Now \in Buf
  BY <1>1, NowSound
<1>11. Reservations(queue) = {p.id : p \in {o \in Places(queue) : o.kind = "reserved"}}
  BY <1>2, PlaceFacts
<1> QED BY <1>1, <1>2, <1>3, <1>4, <1>5, <1>6, <1>7, <1>8, <1>9, <1>10, <1>11

\* The rows that came in a handler were due and are not any more; a row the
\* shrinker handed back is among them; late ones come to a buffer that is gone.
Comes(new) ==
  /\ \A r \in new : Due(r) /\ ~Due(r)'
  /\ \A id \in atShrinker : id \in atShrinker' \/ Row(id) \in new
  /\ ~open => \A r \in new : r.part = 0 => r.key \in unplaced

\* No row becomes due again, and the buffer goes only with its queue.
DueLess == \A r : Due(r)' => Due(r)
Opens(b) == b.q = <<>> \/ (open' = open /\ (open \/ atShrinker' \subseteq atShrinker))

\* What a handler owes the rows.
Feeds(b, new) == Added(b, Now, new) /\ Comes(new)
FeedsRows(b, new) == Feeds(b, new) /\ DueLess /\ Opens(b)

\* The rows of a sequence, as the model names them.
LEMMA RangeRows ==
  ASSUME NEW s \in Seq(AnyRow)
  PROVE  /\ Range(s) = {s[k] : k \in 1..Len(s)}
         /\ NoTwice(s) => IsInjective(s)
<1>1. DOMAIN s = 1..Len(s)
  OBVIOUS
<1>2. Range(s) = {s[k] : k \in 1..Len(s)}
  BY <1>1 DEF Range
<1>3. ASSUME NoTwice(s) PROVE IsInjective(s)
  <2>1. ASSUME NEW k \in 1..Len(s), NEW l \in 1..Len(s), s[k] = s[l] PROVE k = l
    <3>1. ~(k < l) /\ ~(l < k)
      BY <2>1, <1>3 DEF NoTwice
    <3> QED BY <3>1
  <2> QED BY <2>1, <1>1 DEF IsInjective
<1> QED BY <1>2, <1>3

\* The rows of two sequences, one after the other.
LEMMA RangeJoined ==
  ASSUME NEW s \in Seq(AnyRow), NEW t \in Seq(AnyRow)
  PROVE  Range(s \o t) = Range(s) \cup Range(t)
<1> DEFINE r == s \o t
<1>1. /\ r \in Seq(AnyRow) /\ Len(r) = Len(s) + Len(t) /\ Len(s) \in Nat /\ Len(t) \in Nat
      /\ (\A i \in 1..Len(s) : r[i] = s[i])
      /\ (\A i \in 1..Len(t) : r[Len(s) + i] = t[i])
  BY Joined
<1> HIDE DEF r
<1>2. ASSUME NEW i \in 1..Len(r) PROVE r[i] \in {s[k] : k \in 1..Len(s)} \cup {t[k] : k \in 1..Len(t)}
  <2>1. CASE i \in 1..Len(s)
    BY <2>1, <1>1
  <2>2. CASE i \notin 1..Len(s)
    <3>1. i - Len(s) \in 1..Len(t) /\ Len(s) + (i - Len(s)) = i
      BY <2>2, <1>1
    <3>2. r[i] = t[i - Len(s)]
      BY <3>1, <1>1
    <3> QED BY <3>1, <3>2
  <2> QED BY <2>1, <2>2
<1>3. ASSUME NEW k \in 1..Len(s) PROVE s[k] \in {r[i] : i \in 1..Len(r)}
  <2>1. k \in 1..Len(r) /\ r[k] = s[k]
    BY <1>1
  <2> QED BY <2>1
<1>4. ASSUME NEW k \in 1..Len(t) PROVE t[k] \in {r[i] : i \in 1..Len(r)}
  <2>1. Len(s) + k \in 1..Len(r) /\ r[Len(s) + k] = t[k]
    BY <1>1
  <2> QED BY <2>1
<1>5. /\ Range(r) = {r[i] : i \in 1..Len(r)} /\ Range(s) = {s[i] : i \in 1..Len(s)}
      /\ Range(t) = {t[i] : i \in 1..Len(t)}
  BY <1>1, RangeRows
<1>6. Range(r) = Range(s) \cup Range(t)
  BY <1>2, <1>3, <1>4, <1>5
<1> QED BY <1>6 DEF r

\* A handler that does: the rows it found and those that came are all there.
LEMMA RowsKept ==
  ASSUME RoutingInv, NEW b, NEW places, Close(b, places), NEW new, FeedsRows(b, new),
         b \in Buf, ~b.has => b.q = <<>>,
         atShrinker' \subseteq Reservations(queue') \cup unplaced'
  PROVE  RowsInv' /\ RowsHeld' = RowsHeld \cup new
<1> DEFINE O == {b.out[k] : k \in 1..Len(b.out)}
<1>1. /\ QueueOnce(queue) /\ NoTwice(shown) /\ RowsIn(queue) \cap Shown = {}
      /\ lost \cap (RowsIn(queue) \cup Shown) = {}
      /\ (\A r \in RowsHeld : ~Due(r))
      /\ (\A r \in lost : r.part = 0 => r.key \in unplaced)
      /\ (~open => /\ atShrinker \subseteq unplaced
                   /\ \A r \in RowsIn(queue) : r.part = 0 => r.key \in unplaced)
  BY DEF RoutingInv, RowsInv, OnlyUnplacedLost
<1>2. /\ (\A r \in new : Due(r) /\ ~Due(r)')
      /\ (~open => \A r \in new : r.part = 0 => r.key \in unplaced)
      /\ (\A r : Due(r)' => Due(r))
  BY DEF FeedsRows, Feeds, Comes, DueLess
<1>3. Now.q = queue /\ Now.out = <<>> /\ shown \in Seq(AnyRow) /\ open \in BOOLEAN
  BY InvFacts DEF RoutingInv, Shapes
<1>4. b.out \in Seq(AnyRow) /\ queue' = b.q /\ unplaced \subseteq unplaced'
  BY DEF Buf, Close
<1>5. new \cap RowsHeld = {}
  BY <1>1, <1>2
<1>6. Once(Now) /\ BufRows(Now) = RowsIn(queue)
  <2>1. {(<<>>)[k] : k \in 1..Len(<<>>)} = {} /\ NoTwice(<<>>)
    <3>1. Len(<<>>) = 0 /\ 1..0 = {}
      OBVIOUS
    <3> QED BY <3>1 DEF NoTwice
  <2> QED BY <2>1, <1>1, <1>3 DEF Once, BufRows
<1>7. /\ RowsIn(queue') \cup O = RowsIn(queue) \cup new
      /\ QueueOnce(queue') /\ NoTwice(b.out) /\ RowsIn(queue') \cap O = {}
  <2>1. Once(b)
    BY <1>5, <1>6 DEF FeedsRows, Feeds, Added, RowsHeld
  <2>2. RowsIn(queue') \cup O = BufRows(b)
    BY <1>4 DEF BufRows
  <2> QED BY <2>1, <2>2, <1>4, <1>6 DEF FeedsRows, Feeds, Added, Once
<1>8. Range(b.out) = O
  BY <1>4, RangeRows
<1> HIDE DEF O
<1>9. /\ open => Shown' = Shown \cup O /\ lost' = lost /\ NoTwice(shown')
      /\ ~open => Shown' = Shown /\ lost' = lost \cup O /\ NoTwice(shown')
  <2>1. CASE open
    <3>1. shown' = shown \o b.out /\ lost' = lost
      BY <2>1 DEF Close
    <3>2. \A x \in Shown : x \notin O
      BY <1>1, <1>5, <1>7 DEF RowsHeld
    <3>3. NoTwice(shown \o b.out)
      <4>1. {shown[k] : k \in 1..Len(shown)} \cap {b.out[k] : k \in 1..Len(b.out)} = {}
        BY <3>2 DEF Shown, O
      <4> QED BY <4>1, <1>1, <1>3, <1>4, <1>7, NoTwiceJoined
    <3>4. {(shown \o b.out)[k] : k \in 1..Len(shown \o b.out)} = Shown \cup O
      <4>1. Range(shown \o b.out) = Range(shown) \cup Range(b.out)
        BY <1>3, <1>4, RangeJoined
      <4>2. shown \o b.out \in Seq(AnyRow)
        BY <1>3, <1>4
      <4>3. Range(shown \o b.out) = {(shown \o b.out)[k] : k \in 1..Len(shown \o b.out)}
        BY <4>2, RangeRows
      <4>4. Range(shown) = Shown
        BY <1>3, RangeRows DEF Shown
      <4> QED BY <4>1, <4>3, <4>4, <1>8
    <3>5. Shown' = {shown'[k] : k \in 1..Len(shown')}
      BY DEF Shown
    <3> QED BY <2>1, <3>1, <3>3, <3>4, <3>5
  <2>2. CASE ~open
    <3>1. shown' = shown /\ lost' = lost \cup O
      BY <2>2, <1>8 DEF Close
    <3> QED BY <2>2, <3>1, <1>1 DEF Shown
  <2> QED BY <2>1, <2>2, <1>3
<1>10. RowsHeld' = RowsHeld \cup new
  <2>1. RowsHeld' = RowsIn(queue') \cup Shown' \cup lost'
    BY DEF RowsHeld
  <2>2. RowsHeld' = RowsIn(queue') \cup O \cup Shown \cup lost
    BY <2>1, <1>9
  <2> QED BY <2>2, <1>7 DEF RowsHeld
<1>11. RowsIn(queue') \cap Shown' = {} /\ lost' \cap (RowsIn(queue') \cup Shown') = {}
  <2>1. (RowsIn(queue') \cup O) \cap (Shown \cup lost) = {} /\ Shown \cap lost = {}
    BY <1>1, <1>5, <1>7 DEF RowsHeld
  <2> QED BY <2>1, <1>7, <1>9
<1>12. \A r \in RowsHeld' : ~Due(r)'
  BY <1>1, <1>2, <1>10
<1>13. OnlyUnplacedLost'
  <2>1. \A r \in lost' : r.part = 0 => r.key \in unplaced'
    <3>1. ASSUME NEW r \in lost', r.part = 0 PROVE r.key \in unplaced
      <4>1. r \in lost \/ (~open /\ r \in RowsIn(queue) \cup new)
        BY <1>3, <1>7, <1>9, <3>1
      <4> QED BY <4>1, <3>1, <1>1, <1>2
    <3> QED BY <3>1, <1>4
  <2> QED BY <2>1 DEF OnlyUnplacedLost
<1>14. ~open' => /\ atShrinker' \subseteq unplaced'
                /\ \A r \in RowsIn(queue') : r.part = 0 => r.key \in unplaced'
  <2>1. CASE b.q = <<>>
    <3>1. RowsIn(queue') = {} /\ Reservations(queue') = {}
      BY <2>1, <1>4, NothingIn, PlaceFacts
    <3> QED BY <3>1
  <2>2. CASE open' = open /\ (open \/ atShrinker' \subseteq atShrinker)
    <3> SUFFICES ASSUME ~open PROVE /\ atShrinker' \subseteq unplaced'
                                    /\ \A r \in RowsIn(queue') : r.part = 0 => r.key \in unplaced'
      BY <2>2
    <3>1. atShrinker' \subseteq unplaced'
      BY <2>2, <1>1, <1>4
    <3>2. \A r \in RowsIn(queue') : r \in RowsIn(queue) \cup new
      BY <1>7
    <3> QED BY <3>1, <3>2, <1>1, <1>2, <1>4
  <2> QED BY <2>1, <2>2 DEF FeedsRows, Opens
<1> QED BY <1>7, <1>9, <1>10, <1>11, <1>12, <1>13, <1>14, <1>3 DEF RowsInv

\* The rows of a queue, as the model names them.
LEMMA QueueRowsNamed ==
  ASSUME NEW q, QueueOK(q)
  PROVE  UNION {Range(q[i].rows) : i \in 1..Len(q)} = RowsIn(q)
<1>1. \A i \in 1..Len(q) : Range(q[i].rows) = RowsAt(q[i])
  <2> SUFFICES ASSUME NEW i \in 1..Len(q) PROVE Range(q[i].rows) = RowsAt(q[i])
    OBVIOUS
  <2>1. q[i].rows \in Seq(AnyRow)
    BY EntryFacts DEF QueueOK
  <2> QED BY <2>1, RangeRows DEF RowsAt
<1> QED BY <1>1 DEF RowsIn

\* The rows of the model's sets.
LEMMA RowsNamed ==
  ASSUME QueueOK(queue), shown \in Seq(AnyRow)
  PROVE  /\ QueueRows = RowsIn(queue) /\ Range(shown) = Shown
         /\ RowsInSystem = RowsHeld \cup {Row(id) : id \in atShrinker}
<1>1. QueueRows = RowsIn(queue)
  BY QueueRowsNamed DEF QueueRows
<1>2. Range(shown) = Shown
  BY RangeRows DEF Shown
<1> QED BY <1>1, <1>2, Zenon DEF RowsInSystem, RowsHeld

\* And after a step.
LEMMA RowsNamedThen ==
  ASSUME QueueOK(queue'), shown' \in Seq(AnyRow)
  PROVE  RowsInSystem' = RowsHeld' \cup {Row(id) : id \in atShrinker'}
<1>1. QueueRows' = RowsIn(queue')
  BY QueueRowsNamed DEF QueueRows
<1>2. Range(shown') = Shown'
  BY RangeRows DEF Shown
<1> QED BY <1>1, <1>2, Zenon DEF RowsInSystem, RowsHeld

\* What every step is, for what is shown and for the rows that there are.
Stepped == Timeline!Step(NewKeys, nextId') /\ RowsInSystem \subseteq RowsInSystem'

\* A handler that ends well and hands its places on keeps the invariant.
LEMMA HandlerKeeps ==
  ASSUME RoutingInv, NEW b, NEW places, MayClose(b, places), Close(b, places), Keeps(b, places),
         NEW new, FeedsRows(b, new)
  PROVE  RoutingInv' /\ Stepped
<1>1. Shapes /\ PlacesOwned
  BY DEF RoutingInv
<1>2. Closed(b, places)
  BY <1>1, CloseFacts
<1>3. /\ hasQueue' \in BOOLEAN /\ QueueOK(queue') /\ (~hasQueue' => queue' = <<>>)
      /\ shown' \in Seq(AnyRow)
      /\ IdsIn(queue') \cup unplaced' \subseteq 0..(nextId' - 1)
      /\ Places(queue') = Places(b.q) /\ Reservations(queue') = Reservations(b.q)
      /\ unplaced \subseteq unplaced' /\ places \subseteq Reservations(queue') \cup unplaced'
      /\ \A p \in Places(queue') : p.id \notin unplaced'
      /\ Timeline!Step(NewKeys, nextId')
  BY <1>2 DEF Closed
<1>4. Owned' \subseteq Reservations(queue') \cup unplaced'
  BY <1>3 DEF Keeps
<1>5. Reservations(queue') \subseteq IdsIn(queue')
  BY DEF Reservations, IdsIn
<1>6. Owned' \subseteq 0..(nextId' - 1)
  BY <1>3, <1>4, <1>5
<1>7. Shapes'
  <2>1. nextId' \in Nat
    BY DEF MayClose
  <2>2. atShrinker' \cup LaneIds' \subseteq Owned'
    BY DEF Owned
  <2> QED BY <1>3, <1>6, <2>1, <2>2 DEF Shapes, Keeps, Known
<1>8. PlacesOwned'
  <2>1. (atShrinker \cup LaneIds \cup RecordIds(records))' = Owned'
    BY DEF Owned
  <2> QED BY <1>3, <1>4, <2>1 DEF PlacesOwned, Keeps, Apart
<1>9. LaneAges' /\ InStep(records, reflecting)'
  BY DEF Keeps
<1>10. LastKept(records, Reservations(queue))'
  BY <1>3 DEF Keeps
<1>11. NothingLeftBehind'
  <2>1. ASSUME NEW id \in Reservations(queue')
        PROVE  \/ id \in atShrinker' \/ \E i \in 1..Len(lane') : lane'[i].id = id
               \/ \E i \in 1..Len(records') : records'[i].id = id
    <3>1. id \in Owned'
      BY <1>3, <2>1 DEF Keeps
    <3> QED BY <3>1 DEF Owned, LaneIds, RecordIds
  <2>2. \A i \in 1..Len(records') : records'[i].id \notin timedOut'
    BY DEF Keeps, RecordIds
  <2> QED BY <2>1, <2>2 DEF NothingLeftBehind, NoOrphanBarrier, NoStaleRecord
<1>12. RowsInv' /\ RowsHeld' = RowsHeld \cup new
  <2>1. b \in Buf /\ (~b.has => b.q = <<>>)
    BY SoundParts DEF MayClose
  <2>2. atShrinker' \subseteq Reservations(queue') \cup unplaced'
    BY <1>4 DEF Owned
  <2> QED BY <2>1, <2>2, RowsKept
<1>13. RowsInSystem \subseteq RowsInSystem'
  <2>1. /\ QueueOK(queue) /\ shown \in Seq(AnyRow)
        /\ QueueOK(queue') /\ shown' \in Seq(AnyRow)
    BY <1>1, <1>3 DEF Shapes
  <2>2. RowsInSystem = RowsHeld \cup {Row(id) : id \in atShrinker}
    BY <2>1, RowsNamed
  <2>3. RowsInSystem' = RowsHeld' \cup {Row(id) : id \in atShrinker'}
    BY <2>1, RowsNamedThen
  <2>4. \A id \in atShrinker : Row(id) \in RowsInSystem'
    BY <2>3, <1>12 DEF FeedsRows, Feeds, Comes
  <2> QED BY <2>2, <2>3, <2>4, <1>12
<1> QED BY <1>3, <1>7, <1>8, <1>9, <1>10, <1>11, <1>12, <1>13 DEF RoutingInv, Stepped

\* Rows are due while their id is new, and as long as they are on their way.
LEMMA LessDue ==
  ASSUME Known \subseteq Known',
         \A id \in atShrinker' \cup LaneIds' : id \in atShrinker \cup LaneIds \/ id \notin Known,
         \A k \in 1..Len(reflecting') :
            \/ reflecting'[k].id \in LaneIds
            \/ \E l \in 1..Len(reflecting) :
                  reflecting'[k].id = reflecting[l].id /\ reflecting'[k].part = reflecting[l].part
  PROVE  DueLess
<1> SUFFICES ASSUME NEW r, Due(r)' PROVE Due(r)
  BY DEF DueLess
<1>1. \/ r.src \notin Known' \/ r.src \in atShrinker' \/ r.src \in LaneIds'
      \/ \E k \in 1..Len(reflecting') : r.src = reflecting'[k].id /\ r.part = reflecting'[k].part
  BY DEF Due
<1>2. CASE r.src \notin Known'
  BY <1>2 DEF Due
<1>3. CASE r.src \in atShrinker' \cup LaneIds'
  BY <1>3 DEF Due
<1>4. CASE \E k \in 1..Len(reflecting') : r.src = reflecting'[k].id /\ r.part = reflecting'[k].part
  BY <1>4 DEF Due
<1> QED BY <1>1, <1>2, <1>3, <1>4

\* An id that is handed out is new.
LEMMA FreshId ==
  ASSUME NEW n \in Nat, NEW m \in Nat, NEW id, id \in n..(m - 1)
  PROVE  id \notin 0..(n - 1) /\ id \in 0..(m - 1)
OBVIOUS

\* The row of an id that is handed out was due, and is not when nothing else
\* is on its way under that id.
LEMMA FreshRow ==
  ASSUME RoutingInv, NEW id, id \in nextId..(nextId' - 1), nextId' \in Nat,
         atShrinker' \cup LaneIds' \cup LineIds' \subseteq Known
  PROVE  Due(Row(id)) /\ ~Due(Row(id))'
<1>1. nextId \in Nat
  BY InvFacts
<1>2. id \notin Known /\ id \in Known'
  BY <1>1, FreshId DEF Known
<1>3. Row(id).src = id
  BY DEF Row
<1>4. Row(id)' = Row(id)
  BY DEF Row
<1>5. \A k \in 1..Len(reflecting') : reflecting'[k].id # id
  BY <1>2 DEF LineIds
<1> QED BY <1>2, <1>3, <1>4, <1>5 DEF Due

\* A handler in which no row comes, and one that hands out an id for a row.
LEMMA NoneComes ==
  ASSUME atShrinker \subseteq atShrinker'
  PROVE  Comes({})
BY DEF Comes

LEMMA FreshComes ==
  ASSUME RoutingInv, NEW id, id \in nextId..(nextId' - 1), nextId' \in Nat, open,
         atShrinker \subseteq atShrinker', atShrinker' \cup LaneIds' \cup LineIds' \subseteq Known
  PROVE  Comes({Row(id)})
BY FreshRow DEF Comes

\* A handler that leaves the lane, the records and the reflections alone.
Quiet(b, filled) ==
  /\ UNCHANGED <<open, lane, records, reflecting, timedOut, session>>
  /\ atShrinker' \subseteq atShrinker
  /\ atShrinker \ atShrinker' \subseteq filled \cup (Known \ Reservations(b.q))
  /\ filled \cap (atShrinker' \cup LaneIds \cup RecordIds(records)) = {}
  /\ filled \cap Reservations(b.q) = {}
  /\ Finish(b, filled) /\ nextId' \in Nat /\ nextId' >= nextId
  /\ Sound(b, Seen \cup (nextId..(nextId' - 1)), unplaced, {})
  /\ \A p \in Places(b.q) : p \in Places(queue) \/ (p.id \in nextId..(nextId' - 1) /\ p.kind = "pending")

\* So does one that leaves everything but the queue alone.
LEMMA QuietKeeps ==
  ASSUME RoutingInv, NEW b, NEW filled, Quiet(b, filled), NEW rows, Feeds(b, rows)
  PROVE  RoutingInv' /\ Stepped
<1> DEFINE new == nextId..(nextId' - 1)
           places == Reservations(queue) \ filled
<1>1. /\ Shapes /\ PlacesOwned /\ Owned \subseteq Reservations(queue) \cup unplaced
      /\ Reservations(queue) \subseteq Owned /\ Apart /\ nextId \in Nat
      /\ Known = {x \in Nat : x < nextId} /\ Seen \subseteq Known /\ QueueOK(queue)
      /\ Reservations(queue) \subseteq Seen /\ LaneIds \subseteq Seen
  BY InvFacts
<1>2. new \cap Known = {} /\ Known \subseteq 0..(nextId' - 1)
  BY <1>1 DEF Quiet
<1>3. QueueOK(b.q)
  BY SoundParts DEF Quiet
<1>4. \A p \in Places(b.q) : p.kind = "reserved" => p \in Places(queue)
  BY DEF Quiet
<1>5. Reservations(b.q) \subseteq Reservations(queue)
  BY <1>1, <1>3, <1>4, PlaceFacts
<1>6. MayClose(b, places)
  <2>1. new \cap places = {}
    BY <1>1, <1>2
  <2> QED BY <2>1 DEF Quiet, MayClose
<1>7. Close(b, places)
  BY DEF Quiet, Finish
<1>8. Keeps(b, places)
  <2>1. Owned' \subseteq unplaced \cup places
    <3>1. Owned' = atShrinker' \cup LaneIds \cup RecordIds(records)
      BY DEF Owned, LaneIds, Quiet
    <3>2. Owned' \subseteq Owned /\ Owned' \cap filled = {}
      BY <3>1 DEF Quiet, Owned
    <3> QED BY <3>2, <1>1
  <2>2. LaneIds' = LaneIds /\ LineIds' = LineIds
    BY DEF LaneIds, LineIds, Quiet
  <2>3. Apart'
    BY <1>1, <2>2 DEF Apart, Quiet
  <2>4. LaneAges'
    <3>1. LaneAges
      BY DEF RoutingInv
    <3>2. Places(queue') = Places(b.q)
      BY <1>1, <1>6, <1>7, CloseFacts DEF Closed
    <3>3. ASSUME NEW i \in 1..Len(lane), NEW p \in Places(b.q), p.id = lane[i].id
          PROVE  p.age = lane[i].age
      <4>1. lane[i].id \in Known
        BY <1>1 DEF LaneIds
      <4>2. p \in Places(queue)
        BY <4>1, <3>3, <1>2 DEF Quiet
      <4> QED BY <4>2, <3>1, <3>3 DEF LaneAges
    <3> QED BY <3>1, <3>2, <3>3 DEF LaneAges, Quiet
  <2>5. InStep(records, reflecting)'
    BY DEF RoutingInv, Quiet
  <2>6. LastKept(records', Reservations(b.q))
    BY <1>5 DEF RoutingInv, LastKept, Quiet
  <2>7. Reservations(b.q) \subseteq Owned'
    <3>1. ASSUME NEW id \in Reservations(b.q) PROVE id \in Owned'
      <4>1. id \in Owned /\ id \notin filled /\ id \notin Known \ Reservations(b.q)
        BY <1>1, <1>5, <3>1 DEF Quiet
      <4>2. id \in atShrinker => id \in atShrinker'
        BY <4>1 DEF Quiet
      <4> QED BY <4>1, <4>2, <2>2 DEF Owned, Quiet
    <3> QED BY <3>1
  <2>8. RecordIds(records') \cap timedOut' = {}
    BY DEF RoutingInv, NothingLeftBehind, NoStaleRecord, RecordIds, Quiet
  <2>9. timedOut' \cup LineIds' \subseteq 0..(nextId' - 1)
    BY <1>1, <1>2, <2>2 DEF Quiet, Shapes
  <2> QED BY <1>1, <2>1, <2>3, <2>4, <2>5, <2>6, <2>7, <2>8, <2>9 DEF Keeps, Quiet, Shapes
<1>9. FeedsRows(b, rows)
  <2>1. Known \subseteq Known'
    BY <1>2 DEF Known
  <2>2. LaneIds' = LaneIds /\ atShrinker' \subseteq atShrinker /\ reflecting' = reflecting
    BY DEF LaneIds, Quiet
  <2>3. DueLess
    BY <2>1, <2>2, LessDue
  <2>4. open' = open
    BY DEF Quiet
  <2> QED BY <2>2, <2>3, <2>4 DEF FeedsRows, Opens
<1> QED BY <1>6, <1>7, <1>8, <1>9, HandlerKeeps

-----------------------------------------------------------------------------
(* One lemma per action.                                                   *)

\* Handing out one id.
LEMMA OneId ==
  ASSUME RoutingInv, nextId' = nextId + 1
  PROVE  /\ nextId..(nextId' - 1) = {nextId} /\ nextId \in Nat /\ nextId' \in Nat /\ nextId' >= nextId
         /\ nextId \notin Known /\ (\A id \in Seen : id < nextId)
         /\ 0..(nextId' - 1) = Known \cup {nextId}
<1>1. nextId \in Nat /\ Seen \subseteq Known
  BY InvFacts
<1>2. \A id \in Known : id \in Nat /\ id < nextId
  BY <1>1 DEF Known
<1> QED BY <1>1, <1>2 DEF Known

\* Handing out none.
LEMMA NoId ==
  ASSUME RoutingInv, nextId' = nextId
  PROVE  /\ nextId..(nextId' - 1) = {} /\ nextId \in Nat /\ nextId' \in Nat /\ nextId' >= nextId
         /\ 0..(nextId' - 1) = Known /\ Seen \cup (nextId..(nextId' - 1)) = Seen
<1>1. nextId \in Nat
  BY InvFacts
<1> QED BY <1>1 DEF Known

\* The entries of a fresh id.
LEMMA NewEntries ==
  ASSUME NEW id \in Nat
  PROVE  /\ Row(id) \in AnyRow /\ Row(id).key = id
         /\ Pending(id, Row(id)) \in Entry /\ Proper(Pending(id, Row(id)))
         /\ Place(Pending(id, Row(id))) = [id |-> id, kind |-> "pending", age |-> 0]
         /\ Pending(id, Row(id)).id = id /\ IsWaiting(Pending(id, Row(id)))
         /\ RowsAt(Pending(id, Row(id))) = {Row(id)}
         /\ Reserved(id) \in Entry /\ Proper(Reserved(id))
         /\ Place(Reserved(id)) = [id |-> id, kind |-> "reserved", age |-> 0]
         /\ Reserved(id).id = id /\ IsWaiting(Reserved(id)) /\ RowsAt(Reserved(id)) = {}
         /\ NoTwice(Pending(id, Row(id)).rows) /\ NoTwice(Reserved(id).rows)
<1>1. Row(id) \in AnyRow /\ Row(id).key = id
  BY DEF Row, AnyRow
<1>2. <<Row(id)>> \in Seq(AnyRow) /\ Len(<<Row(id)>>) = 1 /\ <<Row(id)>>[1] = Row(id)
  BY <1>1
<1>3. <<>> \in Seq(AnyRow) /\ Len(<<>>) = 0
  OBVIOUS
<1>4. Pending(id, Row(id)) \in Entry /\ Reserved(id) \in Entry
  BY <1>2, <1>3 DEF Pending, Reserved, Entry
<1>5. Proper(Pending(id, Row(id))) /\ Proper(Reserved(id))
  BY <1>1, <1>2, <1>3 DEF Pending, Reserved, Proper
<1>6. RowsAt(Pending(id, Row(id))) = {Row(id)} /\ RowsAt(Reserved(id)) = {}
  BY <1>2, <1>3 DEF Pending, Reserved, RowsAt
<1>7. NoTwice(Pending(id, Row(id)).rows) /\ NoTwice(Reserved(id).rows)
  BY <1>2, <1>3 DEF Pending, Reserved, NoTwice
<1> QED BY <1>1, <1>4, <1>5, <1>6, <1>7 DEF Pending, Reserved, Place, IsWaiting

\* The row that an id is handed out for, when nothing else moves.
LEMMA FreshComesHere ==
  ASSUME RoutingInv, open, NEW id, id \in nextId..(nextId' - 1), nextId' \in Nat,
         UNCHANGED <<lane, reflecting, atShrinker>>
  PROVE  Comes({Row(id)})
<1>1. LaneIds' = LaneIds /\ LineIds' = LineIds
  BY DEF LaneIds, LineIds
<1>2. atShrinker \cup LaneIds \cup LineIds \subseteq Known
  BY InvFacts
<1> QED BY <1>1, <1>2, FreshComes

\* An incoming line that is translated.
LEMMA RecvDispatchedKeeps ==
  ASSUME RoutingInv, RecvDispatched
  PROVE  RoutingInv' /\ Stepped
<1> DEFINE e == Pending(nextId, Row(nextId))
           has == [Now EXCEPT !.has = TRUE]
           c == [has EXCEPT !.q = PushPending(has.q, nextId, Row(nextId))]
           b == EnforceTranslateCeiling(c)
<1>1. nextId' = nextId + 1
  BY DEF RecvDispatched, TakeId
<1>2. /\ nextId..(nextId' - 1) = {nextId} /\ nextId \in Nat /\ nextId' \in Nat /\ nextId' >= nextId
      /\ nextId \notin Known /\ (\A id \in Seen : id < nextId)
  BY <1>1, OneId
<1>3. /\ Now \in Buf /\ Now.q = queue /\ Now.out = <<>> /\ Sound(Now, Seen, unplaced, {})
      /\ Seen \in SUBSET Nat
  BY InvFacts
<1>4. /\ e \in Entry /\ Proper(e) /\ e.id = nextId /\ IsWaiting(e)
      /\ Place(e) = [id |-> nextId, kind |-> "pending", age |-> 0]
      /\ RowsAt(e) = {Row(nextId)} /\ NoTwice(e.rows)
  BY <1>2, NewEntries
<1>5. c \in Buf /\ c.has /\ c.q = Append(Now.q, e) /\ c.out = Now.out
  <2>1. Append(Now.q, e) \in Seq(Entry)
    BY <1>3, <1>4 DEF Buf
  <2> QED BY <2>1, <1>3 DEF Buf, PushPending
<1> HIDE DEF e, c
<1>6. /\ Sound(c, Seen \cup {nextId}, unplaced, {}) /\ Places(c.q) = Places(queue) \cup {Place(e)}
      /\ Added(c, Now, {Row(nextId)})
  <2>1. \A id \in Seen : id < e.id
    BY <1>2, <1>4
  <2> QED BY <2>1, <1>3, <1>4, <1>5, PushSound DEF Added
<1>7. /\ Sound(b, Seen \cup {nextId}, unplaced, {}) /\ Places(b.q) \subseteq Places(c.q)
      /\ Added(b, Now, {Row(nextId)})
  <2>1. Seen \cup {nextId} \in SUBSET Nat
    BY <1>2, <1>3
  <2>2. Sound(b, Seen \cup {nextId}, unplaced, {}) /\ Carried(b, c)
    BY <2>1, <1>6, CeilingSound
  <2> HIDE DEF b
  <2> QED BY <2>2, <1>6, AddedThen DEF Carried
<1>8. Finish(b, {})
  BY DEF RecvDispatched, c
<1> HIDE DEF b
<1>9. Quiet(b, {})
  <2>1. \A p \in Places(b.q) : p \in Places(queue) \/ (p.id = nextId /\ p.kind = "pending")
    BY <1>4, <1>6, <1>7
  <2>2. UNCHANGED <<open, lane, records, reflecting, timedOut, session, atShrinker>>
    BY DEF RecvDispatched
  <2> QED BY <2>1, <2>2, <1>2, <1>7, <1>8 DEF Quiet
<1>10. Feeds(b, {Row(nextId)})
  <2>1. Comes({Row(nextId)})
    BY <1>2, FreshComesHere DEF RecvDispatched
  <2> QED BY <2>1, <1>7 DEF Feeds
<1> QED BY <1>9, <1>10, QuietKeeps

\* An incoming line that is not.
LEMMA RecvInOrderKeeps ==
  ASSUME RoutingInv, RecvInOrder
  PROVE  RoutingInv' /\ Stepped
<1> DEFINE b == PushOrDeliver(Now, Row(nextId))
<1>1. nextId' = nextId + 1
  BY DEF RecvInOrder, TakeId
<1>2. /\ nextId..(nextId' - 1) = {nextId} /\ nextId \in Nat /\ nextId' \in Nat /\ nextId' >= nextId
      /\ (\A id \in Seen : id < nextId)
  BY <1>1, OneId
<1>3. Now.q = queue /\ Sound(Now, Seen, unplaced, {}) /\ Seen \in SUBSET Nat
  BY InvFacts
<1>4. Row(nextId) \in AnyRow /\ Row(nextId).key = nextId
  BY <1>2, NewEntries
<1>5. /\ Sound(b, Seen \cup {nextId}, unplaced, {}) /\ Places(b.q) \subseteq Places(queue)
      /\ Added(b, Now, {Row(nextId)})
  <2>1. \A id \in Seen : id < Row(nextId).key
    BY <1>2, <1>4
  <2>2. Sound(b, Seen \cup {nextId}, unplaced, {}) /\ Gained(b, Now, {Row(nextId)})
    BY <2>1, <1>3, <1>4, PushOrDeliverSound
  <2> HIDE DEF b
  <2> QED BY <2>2, <1>3, AddedOf DEF Gained
<1>6. Quiet(b, {})
  <2>1. UNCHANGED <<open, lane, records, reflecting, timedOut, session, atShrinker>> /\ Finish(b, {})
    BY DEF RecvInOrder
  <2> HIDE DEF b
  <2> QED BY <2>1, <1>2, <1>5 DEF Quiet
<1>7. Feeds(b, {Row(nextId)})
  <2>1. Comes({Row(nextId)})
    BY <1>2, FreshComesHere DEF RecvInOrder
  <2> HIDE DEF b
  <2> QED BY <2>1, <1>5 DEF Feeds
<1> HIDE DEF b
<1> QED BY <1>6, <1>7, QuietKeeps

\* A handler that only takes places away.
LEMMA OnlyLess ==
  ASSUME RoutingInv, NEW b, Sound(b, Seen, unplaced, {}), Carried(b, Now),
         Finish(b, {}), nextId' = nextId,
         UNCHANGED <<open, lane, records, reflecting, timedOut, session, atShrinker>>
  PROVE  RoutingInv' /\ Stepped
<1>1. /\ nextId' \in Nat /\ nextId' >= nextId
      /\ Sound(b, Seen \cup (nextId..(nextId' - 1)), unplaced, {})
  BY NoId
<1>2. Places(b.q) \subseteq Places(queue)
  BY InvFacts DEF Carried
<1>3. Quiet(b, {})
  BY <1>1, <1>2 DEF Quiet
<1>4. Feeds(b, {})
  <2>1. Comes({})
    BY NoneComes
  <2> QED BY <2>1, AddedOf DEF Feeds
<1> QED BY <1>3, <1>4, QuietKeeps

\* The provider's answer, in whatever order.
LEMMA AnswerIncomingKeeps ==
  ASSUME RoutingInv, NEW id \in Nat, AnswerIncoming(id)
  PROVE  RoutingInv' /\ Stepped
<1> DEFINE c == [Now EXCEPT !.q = Resolve(queue, id)]
           b == DrainTranslateReady(c)
<1>1. /\ Now.q = queue /\ Sound(Now, Seen, unplaced, {}) /\ Seen \in SUBSET Nat
      /\ QueueOK(queue)
  BY InvFacts
<1>2. Thinned(Resolve(queue, id), queue)
  BY <1>1, ResolveFacts DEF Thinned
<1>3. Sound(c, Seen, unplaced, {}) /\ Carried(c, Now)
  BY <1>1, <1>2, SoundThinned
<1>4. Sound(b, Seen, unplaced, {}) /\ Carried(b, Now)
  <2> HIDE DEF c
  <2>1. Sound(b, Seen, unplaced, {}) /\ Carried(b, c)
    BY <1>1, <1>3, DrainSound
  <2> HIDE DEF b
  <2> QED BY <2>1, <1>3, CarriedTwice
<1>5. Finish(b, {}) /\ nextId' = nextId
      /\ UNCHANGED <<open, lane, records, reflecting, timedOut, session, atShrinker>>
  BY DEF AnswerIncoming
<1> HIDE DEF b
<1> QED BY <1>4, <1>5, OnlyLess

\* /translate delin.
LEMMA StopIncomingKeeps ==
  ASSUME RoutingInv, StopIncoming
  PROVE  RoutingInv' /\ Stepped
<1> DEFINE c == [Now EXCEPT !.q = FlushPending(queue)]
           d == Release(c)
           b == Prune(d)
<1>1. /\ Now.q = queue /\ Sound(Now, Seen, unplaced, {}) /\ Seen \in SUBSET Nat
      /\ QueueOK(queue)
  BY InvFacts
<1>2. Thinned(FlushPending(queue), queue)
  BY <1>1, FlushPendingFacts
<1>3. Sound(c, Seen, unplaced, {}) /\ Carried(c, Now)
  BY <1>1, <1>2, SoundThinned
<1>4. Sound(d, Seen, unplaced, {}) /\ Carried(d, Now)
  <2> HIDE DEF c
  <2>1. Sound(c, Seen, unplaced, unplaced)
    BY <1>3, SoundWeaker
  <2>2. Sound(d, Seen, unplaced, {}) /\ Carried(d, c)
    BY <2>1, <1>1, ReleaseSound
  <2> HIDE DEF d
  <2> QED BY <2>2, <1>3, CarriedTwice
<1>5. Sound(b, Seen, unplaced, {}) /\ Carried(b, Now)
  <2> HIDE DEF d
  <2>1. Sound(b, Seen, unplaced, {}) /\ Carried(b, d)
    BY <1>4, PruneSound
  <2> HIDE DEF b
  <2> QED BY <2>1, <1>4, CarriedTwice
<1>6. Finish(b, {}) /\ nextId' = nextId
      /\ UNCHANGED <<open, lane, records, reflecting, timedOut, session, atShrinker>>
  BY DEF StopIncoming
<1> HIDE DEF b
<1> QED BY <1>5, <1>6, OnlyLess

\* Rows that are left alone.
LEMMA RowsStay ==
  ASSUME RowsInv, UNCHANGED <<queue, shown, lost, unplaced, nextId, lane, atShrinker, reflecting>>,
         open' \/ open' = open
  PROVE  RowsInv'
<1>1. RowsHeld' = RowsHeld /\ Shown' = Shown
  BY DEF RowsHeld, Shown
<1>2. ASSUME NEW r, Due(r)' PROVE Due(r)
  BY <1>2 DEF Due, Known, LaneIds
<1>3. OnlyUnplacedLost'
  BY DEF RowsInv, OnlyUnplacedLost
<1> QED BY <1>1, <1>2, <1>3 DEF RowsInv

\* A window is opened.
LEMMA OpenBufferKeeps ==
  ASSUME RoutingInv, OpenBuffer
  PROVE  RoutingInv' /\ Stepped
<1>1. /\ Sound(Now, Seen, unplaced, {}) /\ nextId' = nextId /\ nextId \in Nat
      /\ Seen \subseteq Known /\ Known \subseteq Nat
  BY InvFacts DEF OpenBuffer
<1>2. shown \in Seq(AnyRow)
  BY DEF RoutingInv, Shapes
<1>3. NewKeys = <<>> /\ Len(NewKeys) = 0
  <2>1. shown' = shown /\ Len(shown) \in Nat
    BY <1>2 DEF OpenBuffer
  <2> QED BY <2>1 DEF NewKeys
<1>4. Timeline!Step(NewKeys, nextId')
  <2>1. [i \in 1..Len(shown) |-> shown[i].key] \o <<>> = [i \in 1..Len(shown) |-> shown[i].key]
    <3>1. \A i \in 1..Len(shown) : shown[i].key \in Nat
      BY <1>2, RowKey
    <3>2. [i \in 1..Len(shown) |-> shown[i].key] \in Seq(Nat)
      BY <3>1, <1>2
    <3> QED BY <3>2
  <2>2. shown' = shown /\ queue' = queue /\ unplaced' = unplaced
    BY DEF OpenBuffer
  <2> HIDE DEF NewKeys
  <2> QED BY <2>1, <2>2, <1>1, <1>3 DEF Timeline!Step
<1>5. RoutingInv'
  <2>1. Shapes'
    <3>1. LaneIds' = LaneIds /\ LineIds' = LineIds /\ Known' = Known
      BY DEF OpenBuffer, LaneIds, LineIds, Known
    <3>2. /\ open' \in BOOLEAN
          /\ UNCHANGED <<hasQueue, queue, records, lane, reflecting, atShrinker, nextId, shown, unplaced,
                         timedOut, session>>
      BY DEF OpenBuffer
    <3>3. Shapes
      BY DEF RoutingInv
    <3> QED BY <3>1, <3>2, <3>3 DEF Shapes
  <2>2. PlacesOwned'
    <3>1. LaneIds' = LaneIds /\ LineIds' = LineIds
      BY DEF OpenBuffer, LaneIds, LineIds
    <3>2. PlacesOwned /\ UNCHANGED <<queue, unplaced, atShrinker, records, lane>>
      BY DEF RoutingInv, OpenBuffer
    <3> QED BY <3>1, <3>2, Zenon DEF PlacesOwned
  <2>4. LaneAges'
    BY DEF RoutingInv, LaneAges, OpenBuffer
  <2>5. InStep(records, reflecting)' /\ LastKept(records, Reservations(queue))'
    BY DEF RoutingInv, OpenBuffer
  <2>3. NothingLeftBehind'
    BY DEF RoutingInv, NothingLeftBehind, NoOrphanBarrier, NoStaleRecord, OpenBuffer
  <2>6. RowsInv'
    BY RowsStay DEF OpenBuffer, RoutingInv, RowsInv
  <2> QED BY <2>1, <2>2, <2>3, <2>4, <2>5, <2>6 DEF RoutingInv
<1>6. RowsInSystem' = RowsInSystem
  BY DEF RowsInSystem, QueueRows, OpenBuffer
<1> QED BY <1>4, <1>5, <1>6 DEF Stepped

\* The loop over a single row.
LEMMA InsertOne ==
  ASSUME NEW q, NEW row \in AnyRow
  PROVE  FoldLeft(InsertRow, q, <<row>>) = InsertRow(q, row)
<1>1. <<>> \in Seq(AnyRow) /\ Append(<<>>, row) = <<row>>
  OBVIOUS
<1>2. Inserts!Folded(q, <<>>) = q
  BY Inserts!FoldEmpty
<1>3. Inserts!Folded(q, Append(<<>>, row)) = InsertRow(Inserts!Folded(q, <<>>), row)
  BY <1>1, Inserts!FoldAppend
<1>4. Inserts!Folded(q, <<row>>) = FoldLeft(InsertRow, q, <<row>>)
  BY DEF FoldLeft, MapThenFoldSet, Max, Inserts!Folded, Inserts!Iter, Inserts!Greatest
<1> QED BY <1>1, <1>2, <1>3, <1>4, Zenon

\* More ids may be known.
LEMMA SoundMore ==
  ASSUME NEW b, NEW known, NEW late, NEW over, Sound(b, known, late, over), NEW more
  PROVE  Sound(b, known \cup more, late, over)
BY DEF Sound

\* The error row of a refused send is the newest row.
LEMMA WithErrorSound ==
  ASSUME NEW b, NEW known \in SUBSET Nat, NEW late, Sound(b, known, late, {}),
         NEW id \in Nat, \A k \in known : k < id
  PROVE  LET c == WithErrorRow(b, id)
         IN  /\ Sound(c, known \cup {id}, late, {}) /\ Places(c.q) \subseteq Places(b.q)
             /\ Added(c, b, IF open THEN {Row(id)} ELSE {})
<1> DEFINE c == WithErrorRow(b, id)
<1>1. CASE open
  <2>1. Row(id) \in AnyRow /\ Row(id).key = id
    BY NewEntries
  <2>2. \A k \in known : k < Row(id).key
    BY <2>1
  <2>3. c = PushOrDeliver(b, Row(id)) /\ (IF open THEN {Row(id)} ELSE {}) = {Row(id)}
    BY <1>1 DEF WithErrorRow
  <2> HIDE DEF c
  <2>4. Sound(c, known \cup {id}, late, {}) /\ Gained(c, b, {Row(id)})
    BY <2>1, <2>2, <2>3, PushOrDeliverSound
  <2>5. Added(c, b, {Row(id)}) /\ Places(c.q) \subseteq Places(b.q)
    BY <2>4, AddedOf DEF Gained
  <2> QED BY <2>3, <2>4, <2>5 DEF c
<1>2. CASE ~open
  BY <1>2, SoundMore DEF WithErrorRow, Added
<1> QED BY <1>1, <1>2

\* A place that is asked for: it is there, unless the ceiling takes it at once.
LEMMA ReserveSound ==
  ASSUME RoutingInv, NEW c \in Buf, c.has, c.q = Reserve(queue, nextId), c.out = <<>>
  PROVE  LET b == EnforceTranslateCeiling(c)
         IN  /\ Sound(b, Seen \cup {nextId}, unplaced, {}) /\ Seen \cup {nextId} \in SUBSET Nat
             /\ Places(b.q) \subseteq Places(queue) \cup {[id |-> nextId, kind |-> "reserved", age |-> 0]}
             /\ Added(b, Now, {})
<1> DEFINE e == Reserved(nextId)
           b == EnforceTranslateCeiling(c)
<1>1. /\ Now.q = queue /\ Now.out = <<>> /\ Sound(Now, Seen, unplaced, {})
      /\ Seen \in SUBSET Nat /\ nextId \in Nat /\ Seen \subseteq Known
  BY InvFacts
<1>2. /\ e \in Entry /\ Proper(e) /\ e.id = nextId /\ IsWaiting(e)
      /\ Place(e) = [id |-> nextId, kind |-> "reserved", age |-> 0]
      /\ RowsAt(e) = {} /\ NoTwice(e.rows)
  BY <1>1, NewEntries
<1>3. c.q = Append(Now.q, e) /\ c.out = Now.out
  BY <1>1 DEF Reserve
<1>4. \A id \in Seen : id < e.id
  <2>1. \A id \in Seen : id < nextId
    BY <1>1 DEF Known
  <2> QED BY <2>1, <1>2
<1> HIDE DEF e
<1>5. /\ Sound(c, Seen \cup {nextId}, unplaced, {}) /\ Places(c.q) = Places(queue) \cup {Place(e)}
      /\ Added(c, Now, {})
  BY <1>1, <1>2, <1>3, <1>4, PushSound DEF Added
<1>6. Seen \cup {nextId} \in SUBSET Nat
  BY <1>1
<1>7. Sound(b, Seen \cup {nextId}, unplaced, {}) /\ Carried(b, c)
  BY <1>5, <1>6, CeilingSound
<1> HIDE DEF b
<1>8. Places(b.q) \subseteq Places(c.q) /\ Added(b, Now, {})
  BY <1>5, <1>7, AddedThen DEF Carried
<1> QED BY <1>2, <1>5, <1>6, <1>7, <1>8 DEF b

\* A send that the outgoing worker does not take.
LEMMA SubmitRefusedKeeps ==
  ASSUME RoutingInv, SubmitRefused
  PROVE  RoutingInv' /\ Stepped
<1> DEFINE c == [Now EXCEPT !.has = TRUE, !.q = Reserve(queue, nextId)]
           d == EnforceTranslateCeiling(c)
           e == ReleaseEchoSlot(d, nextId)
           b == WithErrorRow(e, nextId + 1)
           place == [id |-> nextId, kind |-> "reserved", age |-> 0]
           seen == Seen \cup {nextId}
           rows == IF open THEN {Row(nextId + 1)} ELSE {}
<1>1. /\ Now \in Buf /\ Now.q = queue /\ Now.out = <<>> /\ nextId \in Nat
      /\ Seen \in SUBSET Nat /\ Seen \subseteq Known /\ QueueOK(queue)
  BY InvFacts
<1>2. c \in Buf /\ c.has /\ c.q = Reserve(queue, nextId) /\ c.out = <<>>
  <2>1. Reserved(nextId) \in Entry
    BY <1>1, NewEntries
  <2>2. Append(queue, Reserved(nextId)) \in Seq(Entry)
    BY <1>1, <2>1 DEF QueueOK
  <2> QED BY <1>1, <2>2 DEF Buf, Reserve
<1> HIDE DEF c
<1>3. /\ Sound(d, seen, unplaced, {}) /\ seen \in SUBSET Nat /\ Places(d.q) \subseteq Places(queue) \cup {place}
      /\ Added(d, Now, {})
  BY <1>2, ReserveSound
<1> HIDE DEF d, seen
<1>4. /\ Sound(e, seen, unplaced, {})
      /\ Places(e.q) = {p \in Places(d.q) : ~(p.id = nextId /\ p.kind = "reserved")}
      /\ Carried(e, d)
  BY <1>1, <1>3, ReleaseSlotSound
<1>5. Places(e.q) \subseteq Places(queue)
  BY <1>3, <1>4
<1> HIDE DEF e, rows
<1>6. /\ Sound(b, seen \cup {nextId + 1}, unplaced, {}) /\ Places(b.q) \subseteq Places(queue)
      /\ Added(b, Now, rows)
  <2>1. nextId + 1 \in Nat /\ \A k \in seen : k < nextId + 1
    <3>1. \A k \in Seen : k \in 0..(nextId - 1)
      BY <1>1 DEF Known
    <3>2. \A k \in Seen : k < nextId + 1
      BY <3>1, <1>1
    <3>3. nextId < nextId + 1 /\ nextId + 1 \in Nat
      BY <1>1
    <3> QED BY <3>2, <3>3 DEF seen
  <2>2. /\ Sound(b, seen \cup {nextId + 1}, unplaced, {}) /\ Places(b.q) \subseteq Places(e.q)
        /\ Added(b, e, rows)
    BY <2>1, <1>3, <1>4, WithErrorSound DEF rows
  <2> HIDE DEF b
  <2>3. Added(e, Now, {})
    BY <1>3, <1>4, AddedThen
  <2>4. Added(b, Now, rows)
    BY <2>2, <2>3, AddedThen
  <2> QED BY <2>2, <2>4, <1>5
<1>7. nextId' = nextId + 2 /\ Finish(b, {})
      /\ UNCHANGED <<open, lane, records, reflecting, timedOut, session, atShrinker>>
  BY DEF SubmitRefused, e, d, c
<1>8. nextId..(nextId' - 1) = {nextId, nextId + 1} /\ nextId' \in Nat /\ nextId' >= nextId
  BY <1>1, <1>7
<1>9. seen \cup {nextId + 1} = Seen \cup (nextId..(nextId' - 1))
  BY <1>8 DEF seen
<1> HIDE DEF b
<1>10. Quiet(b, {})
  BY <1>6, <1>7, <1>8, <1>9 DEF Quiet
<1>11. Feeds(b, rows)
  <2>1. nextId + 1 \in nextId..(nextId' - 1) /\ atShrinker' = atShrinker
    BY <1>7, <1>8
  <2>2. Comes({})
    BY <2>1, NoneComes
  <2>3. open => Comes({Row(nextId + 1)})
    BY <2>1, <1>7, <1>8, FreshComesHere
  <2>4. Comes(rows)
    BY <2>2, <2>3 DEF rows
  <2> QED BY <2>4, <1>6 DEF Feeds
<1> QED BY <1>10, <1>11, QuietKeeps

\* A record is about a line that is on its way.
LEMMA RecordsOfLines ==
  ASSUME RoutingInv
  PROVE  RecordIds(records) \subseteq LineIds
BY DEF RoutingInv, InStep, IsOf, RecordIds, LineIds

\* A message that still has a row to come may place it.
LEMMA OwnerPlaces ==
  ASSUME RoutingInv, NEW id \in Owned
  PROVE  id \in Seen /\ id \in Nat /\ MayPlace(Now, id, unplaced)
<1>1. /\ Owned \subseteq Reservations(queue) \cup unplaced /\ Owned \subseteq Seen /\ Seen \in SUBSET Nat
      /\ Now.q = queue /\ QueueOK(queue) /\ PlacesOwned
      /\ Reservations(queue) = {p.id : p \in {o \in Places(queue) : o.kind = "reserved"}}
  BY InvFacts
<1>2. \A p \in Places(queue) : p.id = id => p.kind = "reserved"
  <2>1. CASE id \in unplaced
    BY <2>1, <1>1 DEF PlacesOwned
  <2>2. CASE id \in Reservations(queue)
    BY <2>2, <1>1, PlaceFacts
  <2> QED BY <2>1, <2>2, <1>1
<1> QED BY <1>1, <1>2 DEF MayPlace

\* The answer of the URL shrinker, in whatever order.
LEMMA ShrinkDoneKeeps ==
  ASSUME RoutingInv, NEW id \in Nat, ShrinkDone(id)
  PROVE  RoutingInv' /\ Stepped
<1> DEFINE row == Row(id)
           rows == <<row>>
           q == Placed(queue, id, rows)
           c == [Now EXCEPT !.q = q]
           d == DrainTranslateReady(c)
<1>1. /\ Now \in Buf /\ Now.q = queue /\ Now.out = <<>> /\ Now.has = hasQueue /\ QueueOK(queue)
      /\ Sound(Now, Seen, unplaced, {}) /\ Seen \in SUBSET Nat /\ Seen \subseteq Known
      /\ Reservations(queue) \subseteq Owned /\ Apart
      /\ Owned \subseteq Reservations(queue) \cup unplaced
  BY InvFacts
<1>2. id \in atShrinker /\ atShrinker' = atShrinker \ {id} /\ nextId' = nextId
      /\ UNCHANGED <<open, lane, records, reflecting, timedOut, session>>
  BY DEF ShrinkDone
<1>3. id \in Owned
  BY <1>2 DEF Owned
<1>4. id \in Seen /\ MayPlace(Now, id, unplaced)
  BY <1>3, OwnerPlaces
<1>5. row \in AnyRow /\ row.key = id
  BY NewEntries
<1>6. /\ rows \in Seq(AnyRow) /\ \A k \in 1..Len(rows) : rows[k].key = id
      /\ NoTwice(rows) /\ {rows[k] : k \in 1..Len(rows)} = {row}
  <2>1. Len(rows) = 1 /\ rows[1] = row
    OBVIOUS
  <2> HIDE DEF row
  <2> QED BY <1>5, <2>1 DEF NoTwice
<1>7. /\ nextId' \in Nat /\ nextId' >= nextId /\ Seen \cup (nextId..(nextId' - 1)) = Seen
  BY <1>2, NoId
<1>7a. Comes({row})
  <2>1. ~open => row.key \in unplaced
    BY <1>2, <1>5 DEF RoutingInv, RowsInv
  <2>2. row.src = id /\ row' = row
    BY DEF Row
  <2>3. Due(row)
    BY <1>2, <2>2 DEF Due
  <2>4. ~Due(row)'
    <3>1. id \in Known /\ id \notin LaneIds \cup LineIds
      BY <1>1, <1>2, <1>4 DEF Apart
    <3>2. Known' = Known /\ LaneIds' = LaneIds /\ reflecting' = reflecting
      BY <1>2 DEF Known, LaneIds
    <3>3. \A k \in 1..Len(reflecting) : reflecting[k].id # id
      BY <3>1 DEF LineIds
    <3> HIDE DEF row
    <3> QED BY <3>1, <3>2, <3>3, <2>2, <1>2 DEF Due
  <2>5. \A x \in atShrinker : x \in atShrinker' \/ Row(x) \in {row}
    BY <1>2
  <2> HIDE DEF row
  <2> QED BY <2>1, <2>3, <2>4, <2>5 DEF Comes
<1>8. CASE ~hasQueue
  <2> DEFINE b == [Now EXCEPT !.out = <<row>>]
             bo == [Now EXCEPT !.out = Now.out \o rows]
  <2>1. b = bo
    BY <1>1, <1>6
  <2>2. queue = <<>>
    BY <1>8 DEF RoutingInv, Shapes
  <2>3. Reservations(queue) = {}
    BY <2>2 DEF Reservations
  <2>4. id \in unplaced
    BY <2>3, <1>1, <1>3
  <2>5. Sound(bo, Seen \cup {id}, unplaced, {}) /\ bo.q = Now.q /\ Gained(bo, Now, {row})
    <3>1. ~Now.has /\ id \in Nat /\ (id \in unplaced \/ \A k \in Seen : k <= id)
      BY <1>1, <1>8, <2>4
    <3> HIDE DEF rows
    <3>2. /\ Sound(bo, Seen \cup {id}, unplaced, {}) /\ bo.q = Now.q
          /\ Gained(bo, Now, {rows[k] : k \in 1..Len(rows)})
      BY <3>1, <1>1, <1>6, HandOutSound
    <3> HIDE DEF bo, row
    <3> QED BY <3>2, <1>6
  <2>6. Sound(b, Seen, unplaced, {}) /\ b.q = queue /\ Feeds(b, {row})
    <3>1. Seen \cup {id} = Seen
      BY <1>4
    <3> HIDE DEF b, bo, row
    <3>2. Feeds(bo, {row})
      BY <2>5, <1>7a, AddedOf DEF Feeds
    <3> QED BY <3>1, <3>2, <2>1, <2>5, <1>1
  <2>7. Finish(b, {})
    BY <1>8 DEF ShrinkDone
  <2> HIDE DEF b
  <2>8. Quiet(b, {})
    <3>1. atShrinker \ atShrinker' \subseteq {} \cup (Known \ Reservations(b.q))
      BY <2>3, <2>6, <1>1, <1>2, <1>4
    <3> QED BY <3>1, <2>6, <2>7, <1>2, <1>7 DEF Quiet
  <2> QED BY <2>6, <2>8, QuietKeeps
<1>9. CASE hasQueue
  <2>1. /\ Sound(c, Seen, unplaced, unplaced) /\ c.has
        /\ Places(c.q) \subseteq Places(queue) /\ (\A p \in Places(c.q) : p.id # id)
        /\ Added(c, Now, {row})
    <3>1. Now.has
      BY <1>1, <1>9
    <3> HIDE DEF rows
    <3> DEFINE co == [Now EXCEPT !.q = Placed(Now.q, id, rows)]
    <3>2. co = c
      BY <1>1
    <3>3. /\ Sound(Now, Seen, unplaced, {}) /\ Seen \in SUBSET Nat /\ id \in Seen
          /\ MayPlace(Now, id, unplaced) /\ rows \in Seq(AnyRow)
          /\ (\A k \in 1..Len(rows) : rows[k].key = id) /\ NoTwice(rows)
      BY <1>1, <1>4, <1>6
    <3>4. /\ Sound(co, Seen, unplaced, unplaced) /\ Gained(co, Now, {rows[k] : k \in 1..Len(rows)})
          /\ co.has /\ \A p \in Places(co.q) : p.id # id
      BY <3>1, <3>3, PlacedSound
    <3> HIDE DEF c, co, row
    <3>5. Gained(c, Now, {row})
      BY <3>2, <3>4, <1>6
    <3>6. Added(c, Now, {row}) /\ Places(c.q) \subseteq Places(queue)
      BY <3>5, <1>1, AddedOf DEF Gained
    <3> QED BY <3>2, <3>4, <3>6
  <2> HIDE DEF c
  <2>2. /\ Sound(d, Seen, unplaced, {}) /\ Places(d.q) \subseteq Places(queue)
        /\ (\A p \in Places(d.q) : p.id # id) /\ Feeds(d, {row})
    <3>1. Sound(d, Seen, unplaced, {}) /\ Places(d.q) = Places(c.q) /\ Carried(d, c)
      BY <2>1, <1>1, DrainSound
    <3> HIDE DEF d, row
    <3>2. Added(d, Now, {row})
      BY <2>1, <3>1, AddedThen
    <3> QED BY <3>1, <3>2, <2>1, <1>7a DEF Feeds
  <2> HIDE DEF d
  <2>3. id \notin Reservations(d.q) /\ id \in Known
    <3>1. QueueOK(d.q)
      BY <2>2, SoundParts
    <3> QED BY <3>1, <2>2, <1>1, <1>4, PlaceFacts
  <2>4. CASE HoldsReservation(queue, id)
    <3>1. d = DrainTranslateReady([Now EXCEPT !.q = FillReservedWith(queue, id, <<row>>)])
      BY <2>4 DEF d, c, Placed
    <3>2. Finish(d, {id})
      BY <3>1, <2>4, <1>9 DEF ShrinkDone
    <3>3. {id} \cap (atShrinker' \cup LaneIds \cup RecordIds(records)) = {}
      BY <1>1, <1>2, RecordsOfLines DEF Apart
    <3>4. Quiet(d, {id})
      BY <3>2, <3>3, <2>2, <2>3, <1>2, <1>7 DEF Quiet
    <3> QED BY <3>4, <2>2, QuietKeeps
  <2>5. CASE ~HoldsReservation(queue, id)
    <3>1. FoldLeft(InsertRow, queue, rows) = InsertResolvedInOrder(queue, id, row)
      BY <1>5, InsertOne DEF InsertRow
    <3>2. d = DrainTranslateReady([Now EXCEPT !.q = InsertResolvedInOrder(queue, id, row)])
      BY <2>5, <3>1 DEF d, c, Placed
    <3>3. Finish(d, {})
      BY <3>2, <2>5, <1>9 DEF ShrinkDone
    <3>4. Quiet(d, {})
      BY <3>3, <2>2, <2>3, <1>2, <1>7 DEF Quiet
    <3> QED BY <3>4, <2>2, QuietKeeps
  <2> QED BY <2>4, <2>5
<1> QED BY <1>8, <1>9

\* The lane without its first send.
LEMMA TailFacts ==
  ASSUME RoutingInv, lane # <<>>, lane' = Tail(lane)
  PROVE  /\ Head(lane) \in Send /\ Head(lane) = lane[1] /\ 1 \in 1..Len(lane)
         /\ Head(lane).id \in LaneIds /\ Head(lane).id \in Nat
         /\ lane' \in Seq(Send) /\ LaneIds' = LaneIds \ {Head(lane).id}
         /\ \A i \in 1..Len(lane') : i + 1 \in 1..Len(lane) /\ lane'[i] = lane[i + 1]
<1>1. lane \in Seq(Send) /\ \A i, j \in 1..Len(lane) : i # j => lane[i].id # lane[j].id
  BY DEF RoutingInv, Shapes, PlacesOwned
<1>2. /\ Head(lane) = lane[1] /\ Len(lane) \in Nat /\ Len(lane) >= 1 /\ lane' \in Seq(Send)
      /\ Len(lane') = Len(lane) - 1 /\ \A i \in 1..Len(lane') : lane'[i] = lane[i + 1]
  BY <1>1
<1>3. 1 \in 1..Len(lane) /\ lane[1] \in Send
  BY <1>1, <1>2
<1>4. \A i \in 1..Len(lane') : i + 1 \in 1..Len(lane) /\ i + 1 # 1
  BY <1>2
<1>5. LaneIds' = {lane'[i].id : i \in 1..Len(lane')}
  BY DEF LaneIds
<1>6. LaneIds' \subseteq LaneIds \ {lane[1].id}
  BY <1>1, <1>2, <1>3, <1>4, <1>5 DEF LaneIds
<1>7. ASSUME NEW i \in 1..Len(lane), i # 1 PROVE lane[i].id \in LaneIds'
  <2>1. i - 1 \in 1..Len(lane') /\ (i - 1) + 1 = i
    BY <1>2, <1>7
  <2>2. lane'[i - 1] = lane[i]
    BY <2>1, <1>2
  <2> QED BY <2>1, <2>2, <1>5
<1>8. LaneIds \ {lane[1].id} \subseteq LaneIds'
  BY <1>7 DEF LaneIds
<1>9. lane[1].id \in LaneIds /\ lane[1].id \in Nat
  BY <1>3 DEF LaneIds, Send
<1> QED BY <1>2, <1>3, <1>4, <1>6, <1>8, <1>9

\* The lines on their way, but for those of `ids`, were on their way before.
LinesGo(ids) ==
  \A k \in 1..Len(reflecting') :
    reflecting'[k].id \in ids \/ \E l \in 1..Len(reflecting) : reflecting'[k] = reflecting[l]

\* A handler that ends the first send of the lane.
EndsSend(b, filled) ==
  /\ lane # <<>> /\ lane' = Tail(lane)
  /\ UNCHANGED <<open, atShrinker, timedOut, session>>
  /\ Finish(b, filled) /\ filled \subseteq {Head(lane).id}
  /\ nextId' \in Nat /\ nextId' >= nextId
  /\ Sound(b, Seen \cup (nextId..(nextId' - 1)), unplaced, {})
  /\ Places(b.q) \subseteq Places(queue)
  /\ records' \in Seq(Record) /\ reflecting' \in Seq(Line) /\ InStep(records, reflecting)'
  /\ LineIds' \subseteq LineIds \cup {Head(lane).id} /\ LinesGo({Head(lane).id})
  /\ RecordIds(records') \subseteq RecordIds(records) \cup {Head(lane).id}
  /\ filled \cap RecordIds(records') = {} /\ RecordIds(records') \cap timedOut = {}
  /\ LastKept(records', Reservations(b.q))
  /\ Reservations(b.q) \subseteq Owned'

\* The end of the first send keeps the invariant.
LEMMA EndsSendKeeps ==
  ASSUME RoutingInv, NEW b, NEW filled, EndsSend(b, filled), NEW rows, Feeds(b, rows)
  PROVE  RoutingInv' /\ Stepped
<1> DEFINE new == nextId..(nextId' - 1)
           places == Reservations(queue) \ filled
           id == Head(lane).id
<1>1. /\ Shapes /\ PlacesOwned /\ Owned \subseteq Reservations(queue) \cup unplaced
      /\ Reservations(queue) \subseteq Owned /\ Apart /\ nextId \in Nat
      /\ Known = {x \in Nat : x < nextId} /\ Seen \subseteq Known /\ QueueOK(queue)
      /\ LaneIds \subseteq Seen /\ LineIds \subseteq Known
      /\ Reservations(queue) \subseteq Seen
  BY InvFacts
<1>2. /\ Head(lane) \in Send /\ Head(lane) = lane[1] /\ 1 \in 1..Len(lane)
      /\ id \in LaneIds /\ lane' \in Seq(Send) /\ LaneIds' = LaneIds \ {id}
      /\ \A i \in 1..Len(lane') : i + 1 \in 1..Len(lane) /\ lane'[i] = lane[i + 1]
  BY TailFacts DEF EndsSend
<1>3. new \cap Known = {} /\ Known \subseteq 0..(nextId' - 1)
  BY <1>1 DEF EndsSend
<1> HIDE DEF id
<1>4. id \in Known /\ id \notin LineIds /\ id \notin atShrinker /\ RecordIds(records) \subseteq LineIds
  BY <1>1, <1>2, RecordsOfLines DEF Apart
<1>5. MayClose(b, places)
  <2>1. new \cap places = {}
    BY <1>1, <1>3
  <2> QED BY <2>1 DEF EndsSend, MayClose
<1>6. Close(b, places)
  BY DEF EndsSend, Finish
<1>7. Owned' = atShrinker \cup LaneIds' \cup RecordIds(records')
  BY DEF Owned, EndsSend
<1>8. filled \subseteq {id} /\ RecordIds(records') \subseteq RecordIds(records) \cup {id}
      /\ LineIds' \subseteq LineIds \cup {id} /\ filled \cap RecordIds(records') = {}
  BY DEF EndsSend, id
<1>9. Owned' \subseteq unplaced \cup places
  <2>1. Owned' \subseteq Owned
    BY <1>2, <1>7, <1>8 DEF Owned
  <2>2. Owned' \cap filled = {}
    BY <1>2, <1>4, <1>7, <1>8
  <2> QED BY <2>1, <2>2, <1>1
<1>10. Apart'
  <2>1. \A i, j \in 1..Len(lane') : i # j => lane'[i].id # lane'[j].id
    <3>1. \A i, j \in 1..Len(lane) : i # j => lane[i].id # lane[j].id
      BY <1>1 DEF Apart
    <3>2. ASSUME NEW i \in 1..Len(lane'), NEW j \in 1..Len(lane'), i # j
          PROVE  lane'[i].id # lane'[j].id
      <4>1. /\ i + 1 \in 1..Len(lane) /\ lane'[i] = lane[i + 1]
            /\ j + 1 \in 1..Len(lane) /\ lane'[j] = lane[j + 1]
        BY <1>2
      <4>2. i + 1 # j + 1
        BY <3>2
      <4> QED BY <4>1, <4>2, <3>1
    <3> QED BY <3>2
  <2>2. LaneIds' \cap LineIds' = {} /\ atShrinker' \cap (LaneIds' \cup LineIds') = {}
    <3>1. LaneIds \cap LineIds = {} /\ atShrinker \cap (LaneIds \cup LineIds) = {} /\ atShrinker' = atShrinker
      BY <1>1 DEF Apart, EndsSend
    <3>2. LaneIds' = LaneIds \ {id} /\ LineIds' \subseteq LineIds \cup {id} /\ id \notin atShrinker
      BY <1>2, <1>4, <1>8
    <3>3. LaneIds' \cap LineIds' = {}
      BY <3>1, <3>2
    <3>4. atShrinker' \cap (LaneIds' \cup LineIds') = {}
      BY <3>1, <3>2
    <3> QED BY <3>3, <3>4
  <2> QED BY <2>1, <2>2, Zenon DEF Apart
<1>11. LaneAges'
  <2>1. LaneAges /\ Places(queue') = Places(b.q) /\ Places(b.q) \subseteq Places(queue) /\ timedOut' = timedOut
    BY <1>1, <1>5, <1>6, CloseFacts DEF Closed, RoutingInv, EndsSend
  <2> QED BY <2>1, <1>2 DEF LaneAges
<1>12. Keeps(b, places)
  <2>1. timedOut' \cup LineIds' \subseteq 0..(nextId' - 1)
    BY <1>1, <1>3, <1>4, <1>8 DEF EndsSend, Shapes
  <2>2. open' \in BOOLEAN /\ session' \in Sessions
    BY <1>1 DEF EndsSend, Shapes
  <2>3. /\ records' \in Seq(Record) /\ reflecting' \in Seq(Line) /\ InStep(records, reflecting)'
        /\ RecordIds(records') \cap timedOut' = {} /\ LastKept(records', Reservations(b.q))
        /\ Reservations(b.q) \subseteq Owned'
    BY DEF EndsSend
  <2> QED BY <2>1, <2>2, <2>3, <1>2, <1>9, <1>10, <1>11 DEF Keeps
<1>13. FeedsRows(b, rows)
  <2>1. Known \subseteq Known' /\ open' = open /\ atShrinker' = atShrinker
    BY <1>3 DEF Known, EndsSend
  <2>2. LinesGo({id})
    BY DEF EndsSend, id
  <2>3. \A k \in 1..Len(reflecting') :
          \/ reflecting'[k].id \in LaneIds
          \/ \E l \in 1..Len(reflecting) :
                reflecting'[k].id = reflecting[l].id /\ reflecting'[k].part = reflecting[l].part
    BY <2>2, <1>2 DEF LinesGo
  <2>4. DueLess
    BY <2>1, <2>3, <1>2, LessDue
  <2> QED BY <2>1, <2>4 DEF FeedsRows, Opens
<1> QED BY <1>5, <1>6, <1>12, <1>13, HandlerKeeps

\* The first lines of a message.
FirstLines(sent, id) ==
  /\ sent \in Seq(Line)
  /\ \A m \in 1..Len(sent) : sent[m].id = id /\ sent[m].part = m /\ sent[m].text[3] = m

\* Records stay in step with the first lines of a message that has no record.
LEMMA InStepMore ==
  ASSUME NEW recs \in Seq(Record), NEW lines \in Seq(Line), InStep(recs, lines),
         NEW sent, NEW id, FirstLines(sent, id),
         \A k \in 1..Len(lines) : lines[k].id # id
  PROVE  /\ InStep(recs, lines \o sent) /\ lines \o sent \in Seq(Line)
         /\ \A k \in 1..Len(lines \o sent) :
              (lines \o sent)[k].id = id \/ \E l \in 1..Len(lines) : (lines \o sent)[k] = lines[l]
<1> DEFINE more == lines \o sent
           n == Len(lines)
<1>1. /\ more \in Seq(Line) /\ n \in Nat /\ \A k \in 1..n : k \in 1..Len(more) /\ more[k] = lines[k]
      /\ \A k \in 1..Len(more) : k \in 1..n \/ (k > n /\ k - n \in 1..Len(sent) /\ more[k] = sent[k - n])
  <2>1. lines \in Seq(Line) /\ sent \in Seq(Line)
    BY DEF FirstLines
  <2> QED BY <2>1
<1>2. \A k \in 1..Len(more) :
        \/ k \in 1..n
        \/ k > n /\ more[k].id = id /\ more[k].part = k - n /\ more[k].text[3] = k - n
  BY <1>1 DEF FirstLines
<1> HIDE DEF more, n
<1>3. \A k \in 1..n : lines[k].id # id
  BY DEF n
<1>4. /\ \A i \in 1..Len(recs) : recs[i].text[3] = recs[i].part
      /\ \A k \in 1..n : lines[k].text[3] = lines[k].part
      /\ \A k, l \in 1..n : k < l /\ lines[k].id = lines[l].id => lines[k].part < lines[l].part
      /\ \A i \in 1..Len(recs) : \E k \in 1..n : IsOf(lines[k], recs[i])
      /\ \A i, j \in 1..Len(recs) : \A k, l \in 1..n :
           i < j /\ IsOf(lines[k], recs[i]) /\ IsOf(lines[l], recs[j]) => k < l
      /\ \A i, j \in 1..Len(recs) : recs[i].id = recs[j].id /\ recs[i].last => recs[j].part <= recs[i].part
  BY DEF InStep, n
<1>5. \A i \in 1..Len(recs) : recs[i].id # id
  BY <1>3, <1>4 DEF IsOf
<1>6. \A i \in 1..Len(recs), k \in 1..Len(more) : IsOf(more[k], recs[i]) => k \in 1..n /\ IsOf(lines[k], recs[i])
  BY <1>1, <1>2, <1>5 DEF IsOf
<1>7. \A k \in 1..Len(more) : more[k].text[3] = more[k].part
  BY <1>1, <1>2, <1>4
<1>8. \A k, l \in 1..Len(more) : k < l /\ more[k].id = more[l].id => more[k].part < more[l].part
  <2> SUFFICES ASSUME NEW k \in 1..Len(more), NEW l \in 1..Len(more), k < l, more[k].id = more[l].id
               PROVE  more[k].part < more[l].part
    OBVIOUS
  <2>1. CASE k \in 1..n
    <3>1. more[k] = lines[k]
      BY <1>1, <2>1
    <3>2. l \in 1..n /\ more[l] = lines[l]
      BY <1>1, <1>2, <1>3, <2>1, <3>1
    <3> QED BY <2>1, <3>1, <3>2, <1>4
  <2>2. CASE k \notin 1..n
    <3>1. k > n /\ more[k].part = k - n
      BY <1>2, <2>2
    <3>2. l > n /\ l \notin 1..n
      BY <1>1, <3>1
    <3>3. more[l].part = l - n
      BY <1>2, <3>2
    <3> QED BY <1>1, <3>1, <3>3
  <2> QED BY <2>1, <2>2
<1>9. \A i \in 1..Len(recs) : \E k \in 1..Len(more) : IsOf(more[k], recs[i])
  BY <1>1, <1>4
<1>10. \A i, j \in 1..Len(recs) : \A k, l \in 1..Len(more) :
         i < j /\ IsOf(more[k], recs[i]) /\ IsOf(more[l], recs[j]) => k < l
  BY <1>4, <1>6
<1>11. InStep(recs, more)
  BY <1>4, <1>7, <1>8, <1>9, <1>10 DEF InStep
<1>12. \A k \in 1..Len(more) : more[k].id = id \/ \E l \in 1..Len(lines) : more[k] = lines[l]
  BY <1>1, <1>2 DEF n
<1> QED BY <1>1, <1>11, <1>12 DEF more

\* A handler after which nothing of the send is to come, but perhaps lines
\* that nobody expects.
DropsSend(b, filled) ==
  /\ lane # <<>> /\ lane' = Tail(lane)
  /\ UNCHANGED <<open, records, atShrinker, timedOut, session>>
  /\ Finish(b, filled) /\ filled \subseteq {Head(lane).id}
  /\ nextId' \in Nat /\ nextId' >= nextId
  /\ Sound(b, Seen \cup (nextId..(nextId' - 1)), unplaced, {})
  /\ Places(b.q) \subseteq Places(queue) /\ Head(lane).id \notin Reservations(b.q)
  /\ \/ reflecting' = reflecting
     \/ \E sent : FirstLines(sent, Head(lane).id) /\ reflecting' = reflecting \o sent

\* So does its end without a row.
LEMMA DropsSendKeeps ==
  ASSUME RoutingInv, NEW b, NEW filled, DropsSend(b, filled), NEW rows, Feeds(b, rows)
  PROVE  RoutingInv' /\ Stepped
<1> DEFINE id == Head(lane).id
<1>1. /\ Shapes /\ PlacesOwned /\ Reservations(queue) \subseteq Owned /\ Apart /\ QueueOK(queue)
  BY InvFacts
<1>2. id \in LaneIds /\ LaneIds' = LaneIds \ {id}
  BY TailFacts DEF DropsSend
<1>3. id \notin LineIds /\ id \notin atShrinker /\ RecordIds(records) \subseteq LineIds
  BY <1>1, <1>2, RecordsOfLines DEF Apart
<1>4. Reservations(b.q) \subseteq Reservations(queue) /\ id \notin Reservations(b.q)
  <2>1. QueueOK(b.q)
    BY SoundParts DEF DropsSend
  <2>2. QueueOK(queue) /\ Places(b.q) \subseteq Places(queue)
    BY <1>1 DEF DropsSend
  <2>3. Now.q = queue
    BY InvFacts
  <2>4. Reservations(b.q) \subseteq Reservations(queue)
    BY <2>1, <2>2, <2>3, CarriedReservations
  <2> QED BY <2>4 DEF DropsSend
<1>5. records \in Seq(Record) /\ reflecting \in Seq(Line) /\ InStep(records, reflecting)
  BY <1>1 DEF Shapes, RoutingInv
<1>6. reflecting' \in Seq(Line) /\ InStep(records, reflecting') /\ LineIds' \subseteq LineIds \cup {id}
      /\ LinesGo({id})
  <2>1. CASE reflecting' = reflecting
    BY <2>1, <1>5 DEF LineIds, LinesGo
  <2>2. CASE reflecting' # reflecting
    <3>1. PICK sent : FirstLines(sent, id) /\ reflecting' = reflecting \o sent
      BY <2>2 DEF DropsSend
    <3>2. \A k \in 1..Len(reflecting) : reflecting[k].id # id
      BY <1>3 DEF LineIds
    <3>3. /\ InStep(records, reflecting') /\ reflecting' \in Seq(Line)
          /\ \A k \in 1..Len(reflecting') :
               reflecting'[k].id = id \/ \E l \in 1..Len(reflecting) : reflecting'[k] = reflecting[l]
      <4> HIDE DEF id
      <4> QED BY <3>1, <3>2, <1>5, InStepMore
    <3>4. LineIds' \subseteq LineIds \cup {id} /\ LinesGo({id})
      BY <3>3 DEF LineIds, LinesGo
    <3> QED BY <3>3, <3>4
  <2> QED BY <2>1, <2>2
<1>7. records' = records /\ atShrinker' = atShrinker
  BY DEF DropsSend
<1>8. Owned' = atShrinker \cup LaneIds' \cup RecordIds(records)
  BY <1>7 DEF Owned
<1> HIDE DEF id
<1>9. Reservations(b.q) \subseteq Owned'
  BY <1>1, <1>2, <1>4, <1>8 DEF Owned
<1>10. LastKept(records', Reservations(b.q))
  BY <1>4, <1>7 DEF RoutingInv, LastKept
<1>11. RecordIds(records) \cap timedOut = {}
  BY DEF RoutingInv, NothingLeftBehind, NoStaleRecord, RecordIds
<1>12. filled \subseteq {id} /\ filled \cap RecordIds(records) = {}
  BY <1>3 DEF DropsSend, id
<1>13. InStep(records, reflecting)'
  BY <1>6, <1>7
<1>14. EndsSend(b, filled)
  BY <1>5, <1>6, <1>7, <1>9, <1>10, <1>11, <1>12, <1>13 DEF EndsSend, DropsSend, id
<1> QED BY <1>14, EndsSendKeeps

\* The first send of the lane may place its rows.
LEMMA HeadPlaces ==
  ASSUME RoutingInv, lane # <<>>, lane' = Tail(lane)
  PROVE  /\ Head(lane).id \in Owned /\ Head(lane).id \in Nat /\ Head(lane).id \in Seen
         /\ MayPlace(Now, Head(lane).id, unplaced)
<1>1. Head(lane).id \in Owned
  BY TailFacts DEF Owned
<1> QED BY <1>1, OwnerPlaces

\* Where no place of an id is left, no reservation is.
LEMMA NoReservation ==
  ASSUME NEW q, QueueOK(q), NEW id, \A p \in Places(q) : ~(p.id = id /\ p.kind = "reserved")
  PROVE  id \notin Reservations(q)
BY PlaceFacts

\* The place of a send that will not be shown is given back.
LEMMA GivenBack ==
  ASSUME RoutingInv, lane # <<>>, lane' = Tail(lane)
  PROVE  LET b == ReleaseEchoSlotAndDrain(Now, Head(lane).id)
         IN  /\ Sound(b, Seen, unplaced, {}) /\ Places(b.q) \subseteq Places(queue)
             /\ Head(lane).id \notin Reservations(b.q) /\ Added(b, Now, {})
<1> DEFINE id == Head(lane).id
           b == ReleaseEchoSlotAndDrain(Now, id)
<1>1. /\ Now.q = queue /\ Sound(Now, Seen, unplaced, {}) /\ Seen \in SUBSET Nat
  BY InvFacts
<1>2. id \in Nat
  BY HeadPlaces
<1> HIDE DEF id
<1>3. /\ Sound(b, Seen, unplaced, {})
      /\ Places(b.q) = {p \in Places(queue) : ~(p.id = id /\ p.kind = "reserved")}
      /\ Carried(b, Now)
  BY <1>1, <1>2, ReleaseAndDrainSound
<1> HIDE DEF b
<1>4. QueueOK(b.q)
  BY <1>3, SoundParts
<1>5. id \notin Reservations(b.q)
  BY <1>3, <1>4, NoReservation
<1>6. Added(b, Now, {})
  BY <1>3, AddedOf
<1> QED BY <1>3, <1>5, <1>6 DEF b, id

\* ... and a row says so, with a new id.
LEMMA GivenBackWithError ==
  ASSUME RoutingInv, lane # <<>>, lane' = Tail(lane), nextId' = nextId + 1,
         atShrinker' = atShrinker, LinesGo({Head(lane).id})
  PROVE  LET b == WithErrorRow(ReleaseEchoSlotAndDrain(Now, Head(lane).id), nextId)
         IN  /\ Sound(b, Seen \cup (nextId..(nextId' - 1)), unplaced, {})
             /\ Places(b.q) \subseteq Places(queue)
             /\ Head(lane).id \notin Reservations(b.q) /\ nextId' \in Nat /\ nextId' >= nextId
             /\ Feeds(b, IF open THEN {Row(nextId)} ELSE {})
<1> DEFINE d == ReleaseEchoSlotAndDrain(Now, Head(lane).id)
           b == WithErrorRow(d, nextId)
           rows == IF open THEN {Row(nextId)} ELSE {}
<1>1. /\ Sound(d, Seen, unplaced, {}) /\ Places(d.q) \subseteq Places(queue)
      /\ Head(lane).id \notin Reservations(d.q) /\ Added(d, Now, {})
  BY GivenBack
<1>2. /\ nextId..(nextId' - 1) = {nextId} /\ nextId \in Nat /\ nextId' \in Nat /\ nextId' >= nextId
      /\ \A id \in Seen : id < nextId
  BY OneId
<1>3. Seen \in SUBSET Nat
  BY InvFacts
<1> HIDE DEF d, rows
<1>4. Sound(b, Seen \cup {nextId}, unplaced, {}) /\ Places(b.q) \subseteq Places(d.q) /\ Added(b, d, rows)
  BY <1>1, <1>2, <1>3, WithErrorSound DEF rows
<1> HIDE DEF b
<1>5. QueueOK(b.q) /\ QueueOK(d.q)
  BY <1>1, <1>4, SoundParts
<1>6. Reservations(b.q) \subseteq Reservations(d.q)
  BY <1>4, <1>5, CarriedReservations
<1>7. Comes(rows)
  <2>1. Comes({})
    BY NoneComes
  <2>2. LaneIds' \subseteq LaneIds /\ LineIds' \subseteq LineIds \cup LaneIds
    <3>1. LaneIds' \subseteq LaneIds
      BY TailFacts
    <3>2. LineIds' \subseteq LineIds \cup LaneIds
      BY TailFacts DEF LinesGo, LineIds
    <3> QED BY <3>1, <3>2
  <2>3. atShrinker' \cup LaneIds' \cup LineIds' \subseteq Known
    BY <2>2, InvFacts
  <2>4. nextId \in nextId..(nextId' - 1)
    BY <1>2
  <2>5. open => Comes({Row(nextId)})
    BY <1>2, <2>3, <2>4, FreshComes
  <2> QED BY <2>1, <2>5 DEF rows
<1>8. Feeds(b, rows)
  <2>1. Added(b, Now, rows)
    BY <1>1, <1>4, AddedThen
  <2> QED BY <2>1, <1>7 DEF Feeds
<1> QED BY <1>1, <1>2, <1>4, <1>6, <1>8 DEF b, d, rows

\* A send that is not put on the wire.
LEMMA OutgoingRefusedKeeps ==
  ASSUME RoutingInv, OutgoingRefused
  PROVE  RoutingInv' /\ Stepped
<1> DEFINE b == WithErrorRow(ReleaseEchoSlotAndDrain(Now, Head(lane).id), nextId)
           rows == IF open THEN {Row(nextId)} ELSE {}
<1>1. lane # <<>> /\ lane' = Tail(lane) /\ nextId' = nextId + 1
  BY DEF OutgoingRefused, TakeId
<1>2. /\ Sound(b, Seen \cup (nextId..(nextId' - 1)), unplaced, {})
      /\ Places(b.q) \subseteq Places(queue)
      /\ Head(lane).id \notin Reservations(b.q) /\ nextId' \in Nat /\ nextId' >= nextId
      /\ Feeds(b, rows)
  <2>1. atShrinker' = atShrinker /\ LinesGo({Head(lane).id})
    BY DEF OutgoingRefused, LinesGo
  <2> QED BY <1>1, <2>1, GivenBackWithError
<1>3. /\ UNCHANGED <<open, records, atShrinker, timedOut, session>>
      /\ Finish(b, {}) /\ reflecting' = reflecting
  BY DEF OutgoingRefused
<1> HIDE DEF b, rows
<1>4. DropsSend(b, {})
  BY <1>1, <1>2, <1>3 DEF DropsSend
<1> QED BY <1>2, <1>4, DropsSendKeeps

\* A send of which only the first lines went out.
LEMMA OutgoingSentPartlyKeeps ==
  ASSUME RoutingInv, NEW parts \in Nat, NEW m \in 1..(parts - 1), OutgoingSentPartly(parts, m)
  PROVE  RoutingInv' /\ Stepped
<1> DEFINE b == WithErrorRow(ReleaseEchoSlotAndDrain(Now, Head(lane).id), nextId)
           id == Head(lane).id
           sent == [i \in 1..m |-> Wire(Head(lane), parts, i)]
           rows == IF open THEN {Row(nextId)} ELSE {}
<1>1. lane # <<>> /\ lane' = Tail(lane) /\ nextId' = nextId + 1
  BY DEF OutgoingSentPartly, CanSend, TakeId
<1>2. reflecting' = reflecting \/ reflecting' = reflecting \o sent
  BY DEF OutgoingSentPartly
<1>3. FirstLines(sent, id)
  <2>1. Head(lane) \in Send
    BY <1>1, TailFacts
  <2>2. \A i \in 1..m : /\ Wire(Head(lane), parts, i) \in Line /\ Wire(Head(lane), parts, i).id = id
                       /\ Wire(Head(lane), parts, i).part = i /\ Wire(Head(lane), parts, i).text[3] = i
    BY <2>1 DEF Send, Wire, WireText, Line, Texts
  <2>3. sent \in Seq(Line) /\ Len(sent) = m /\ \A i \in 1..m : sent[i] = Wire(Head(lane), parts, i)
    BY <2>2
  <2> HIDE DEF sent, id
  <2> QED BY <2>2, <2>3 DEF FirstLines
<1>4. atShrinker' = atShrinker /\ LinesGo({id})
  <2>1. reflecting \in Seq(Line) /\ sent \in Seq(Line) /\ \A k \in 1..Len(sent) : sent[k].id = id
    BY <1>3 DEF RoutingInv, Shapes, FirstLines
  <2> HIDE DEF sent, id
  <2>2. \A k \in 1..Len(reflecting') :
          reflecting'[k].id = id \/ \E l \in 1..Len(reflecting) : reflecting'[k] = reflecting[l]
    <3>1. \A k \in 1..Len(reflecting \o sent) :
            \/ k \in 1..Len(reflecting) /\ (reflecting \o sent)[k] = reflecting[k]
            \/ (reflecting \o sent)[k].id = id
      BY <2>1, Joined
    <3>2. CASE reflecting' = reflecting
      BY <3>2
    <3>3. CASE reflecting' = reflecting \o sent
      BY <3>1, <3>3
    <3> QED BY <1>2, <3>2, <3>3
  <2> QED BY <2>2 DEF OutgoingSentPartly, LinesGo
<1>5. /\ Sound(b, Seen \cup (nextId..(nextId' - 1)), unplaced, {})
      /\ Places(b.q) \subseteq Places(queue)
      /\ Head(lane).id \notin Reservations(b.q) /\ nextId' \in Nat /\ nextId' >= nextId
      /\ Feeds(b, rows)
  BY <1>1, <1>4, GivenBackWithError
<1>6. /\ UNCHANGED <<open, records, atShrinker, timedOut, session>>
      /\ Finish(b, {})
  BY DEF OutgoingSentPartly
<1> HIDE DEF b, sent, rows
<1>7. DropsSend(b, {})
  BY <1>1, <1>2, <1>3, <1>5, <1>6 DEF DropsSend
<1> QED BY <1>5, <1>7, DropsSendKeeps

\* DropsSend with no new id.
LEMMA DropsNoId ==
  ASSUME RoutingInv, NEW b, NEW filled, lane # <<>>, lane' = Tail(lane), nextId' = nextId,
         UNCHANGED <<open, records, reflecting, atShrinker, timedOut, session>>,
         Finish(b, filled), filled \subseteq {Head(lane).id},
         Sound(b, Seen, unplaced, {}), Places(b.q) \subseteq Places(queue),
         Head(lane).id \notin Reservations(b.q), NEW rows, Feeds(b, rows)
  PROVE  RoutingInv' /\ Stepped
<1>1. /\ nextId' \in Nat /\ nextId' >= nextId /\ Seen \cup (nextId..(nextId' - 1)) = Seen
  BY NoId
<1>2. DropsSend(b, filled)
  BY <1>1 DEF DropsSend
<1> QED BY <1>2, DropsSendKeeps

\* A send whose echo is not wanted.
LEMMA OutgoingSentSilentlyKeeps ==
  ASSUME RoutingInv, OutgoingSentSilently
  PROVE  RoutingInv' /\ Stepped
<1> DEFINE b == DrainTranslateReady(ReleaseEchoSlot(Now, Head(lane).id))
<1>1. lane # <<>> /\ lane' = Tail(lane) /\ nextId' = nextId
  BY DEF OutgoingSentSilently, CanSend
<1>2. b = ReleaseEchoSlotAndDrain(Now, Head(lane).id)
  BY DEF ReleaseEchoSlotAndDrain
<1>3. /\ Sound(b, Seen, unplaced, {}) /\ Places(b.q) \subseteq Places(queue)
      /\ Head(lane).id \notin Reservations(b.q) /\ Added(b, Now, {})
  BY <1>1, <1>2, GivenBack
<1>4. /\ UNCHANGED <<open, records, reflecting, atShrinker, timedOut, session>> /\ Finish(b, {})
  BY DEF OutgoingSentSilently
<1> HIDE DEF b
<1>5. Feeds(b, {})
  BY <1>3, <1>4, NoneComes DEF Feeds
<1> QED BY <1>1, <1>3, <1>4, <1>5, DropsNoId

\* A send that is echoed at once.
LEMMA OutgoingSentLocalEchoKeeps ==
  ASSUME RoutingInv, NEW parts \in Nat, OutgoingSentLocalEcho(parts)
  PROVE  RoutingInv' /\ Stepped
<1> DEFINE send == Head(lane)
           rows == [i \in 1..parts |-> OwnRow(send.id, send.id, i)]
<1>1. lane # <<>> /\ lane' = Tail(lane) /\ nextId' = nextId
  BY DEF OutgoingSentLocalEcho, CanSend
<1>2. UNCHANGED <<open, records, reflecting, atShrinker, timedOut, session>>
  BY DEF OutgoingSentLocalEcho
<1>3. /\ send.id \in Nat /\ send.id \in Seen /\ MayPlace(Now, send.id, unplaced)
  BY <1>1, HeadPlaces
<1>4. /\ Now.q = queue /\ Sound(Now, Seen, unplaced, {}) /\ Seen \in SUBSET Nat
  BY InvFacts
<1>5. CASE open
  <2> DEFINE echo == AddOwnMessageChunks(Now, send.id, rows)
             b == DrainTranslateReady(echo)
  <2>1. Finish(b, {send.id})
    BY <1>5 DEF OutgoingSentLocalEcho
  <2>2. /\ rows \in Seq(AnyRow) /\ (\A k \in 1..Len(rows) : rows[k].key = send.id) /\ NoTwice(rows)
        /\ \A k \in 1..Len(rows) : rows[k].src = send.id
    <3>1. \A i \in 1..parts : OwnRow(send.id, send.id, i) \in AnyRow /\ OwnRow(send.id, send.id, i).key = send.id
      BY <1>3 DEF OwnRow, AnyRow
    <3>2. /\ rows \in Seq(AnyRow) /\ Len(rows) = parts
          /\ \A k \in 1..parts : rows[k] = OwnRow(send.id, send.id, k)
      BY <3>1
    <3> HIDE DEF rows
    <3>3. \A k \in 1..parts : rows[k].part = k /\ rows[k].src = send.id
      BY <3>2 DEF OwnRow
    <3>4. NoTwice(rows)
      <4>1. \A k, l \in 1..parts : k < l => rows[k].part # rows[l].part
        BY <3>3
      <4> QED BY <4>1, <3>2 DEF NoTwice
    <3> QED BY <3>1, <3>2, <3>3, <3>4
  <2> DEFINE all == {rows[k] : k \in 1..Len(rows)}
  <2> HIDE DEF rows
  <2>2a. Comes(all)
    <3>1. \A r \in all : r.src = send.id
      BY <2>2
    <3>2. /\ send.id \in LaneIds /\ LaneIds' = LaneIds \ {send.id} /\ send.id \in Known
      BY <1>1, <1>3, TailFacts, InvFacts
    <3>3. send.id \notin atShrinker /\ send.id \notin LineIds
      BY <3>2, InvFacts DEF Apart
    <3>4. Known' = Known /\ atShrinker' = atShrinker /\ reflecting' = reflecting
      BY <1>1, <1>2 DEF Known
    <3>5. \A k \in 1..Len(reflecting) : reflecting[k].id # send.id
      BY <3>3 DEF LineIds
    <3> HIDE DEF send, all
    <3>6. ASSUME NEW r \in all PROVE Due(r) /\ ~Due(r)'
      <4>1. Due(r)
        BY <3>1, <3>2 DEF Due
      <4>2. ~Due(r)'
        BY <3>1, <3>2, <3>3, <3>4, <3>5 DEF Due
      <4> QED BY <4>1, <4>2
    <3> QED BY <3>4, <3>6, <1>5 DEF Comes
  <2> HIDE DEF send
  <2>3. /\ Sound(echo, Seen, unplaced, {}) /\ Places(echo.q) \subseteq Places(queue)
        /\ (\A p \in Places(echo.q) : p.id # send.id) /\ Added(echo, Now, all)
    <3>1. /\ Sound(echo, Seen, unplaced, {}) /\ Gained(echo, Now, all)
          /\ \A p \in Places(echo.q) : p.id # send.id
      <4>1. OwnAdded(echo, Now, Seen, unplaced, send.id, rows)
        BY <1>3, <1>4, <2>2, AddOwnSound
      <4> HIDE DEF echo
      <4> QED BY <4>1, Zenon DEF OwnAdded
    <3> HIDE DEF echo, all
    <3> QED BY <3>1, <1>4, AddedOf DEF Gained
  <2> HIDE DEF echo
  <2>4. Sound(b, Seen, unplaced, {}) /\ Places(b.q) = Places(echo.q) /\ Carried(b, echo)
    BY <1>4, <2>3, DrainSound
  <2> HIDE DEF b
  <2>5. send.id \notin Reservations(b.q)
    <3>1. QueueOK(b.q)
      BY <2>4, SoundParts
    <3> QED BY <3>1, <2>3, <2>4, NoReservation
  <2> HIDE DEF all
  <2>6. Feeds(b, all)
    BY <2>2a, <2>3, <2>4, AddedThen DEF Feeds
  <2> QED BY <1>1, <1>2, <2>1, <2>3, <2>4, <2>5, <2>6, DropsNoId DEF send
<1>6. CASE ~open
  <2> DEFINE b == DrainTranslateReady(ReleaseEchoSlot(Now, send.id))
  <2>1. b = ReleaseEchoSlotAndDrain(Now, Head(lane).id)
    BY DEF ReleaseEchoSlotAndDrain
  <2>2. Finish(b, {})
    BY <1>6 DEF OutgoingSentLocalEcho
  <2>3. /\ Sound(b, Seen, unplaced, {}) /\ Places(b.q) \subseteq Places(queue)
        /\ Head(lane).id \notin Reservations(b.q) /\ Added(b, Now, {})
    BY <1>1, <2>1, GivenBack
  <2> HIDE DEF b
  <2>4. Feeds(b, {})
    BY <1>2, <2>3, NoneComes DEF Feeds
  <2> QED BY <1>1, <1>2, <2>2, <2>3, <2>4, DropsNoId
<1> QED BY <1>5, <1>6

\* The records of a send of some lines, and these lines.
RecordsFor(send, parts) ==
  [i \in 1..parts |-> [id |-> send.id, text |-> WireText(send, parts, i),
                       part |-> i, last |-> i = parts, age |-> 0]]
LinesFor(send, parts) == [i \in 1..parts |-> Wire(send, parts, i)]

\* The records and the lines of a send, part by part.
AsSplit(new, sent, send, parts) ==
  /\ new \in Seq(Record) /\ Len(new) = parts /\ sent \in Seq(Line) /\ Len(sent) = parts
  /\ \A i \in 1..parts :
       /\ new[i].id = send.id /\ new[i].part = i /\ new[i].text[3] = i /\ new[i].last = (i = parts)
       /\ sent[i].id = send.id /\ sent[i].part = i /\ sent[i].text[3] = i
       /\ IsOf(sent[i], new[i])

\* A send of some lines has a record for every line, the last one marked.
LEMMA SplitFacts ==
  ASSUME NEW send \in Send, NEW parts \in Nat
  PROVE  AsSplit(RecordsFor(send, parts), LinesFor(send, parts), send, parts)
<1>1. send.id \in Nat /\ send.text \in Nat
  BY DEF Send
<1>2. ASSUME NEW i \in 1..parts
      PROVE  /\ WireText(send, parts, i) \in Texts /\ WireText(send, parts, i)[3] = i
  BY <1>1, <1>2 DEF WireText, Texts
<1>3. \A i \in 1..parts :
        /\ [id |-> send.id, text |-> WireText(send, parts, i), part |-> i, last |-> i = parts, age |-> 0] \in Record
        /\ Wire(send, parts, i) \in Line
  <2> SUFFICES ASSUME NEW i \in 1..parts
               PROVE  /\ [id |-> send.id, text |-> WireText(send, parts, i), part |-> i, last |-> i = parts, age |-> 0] \in Record
                      /\ Wire(send, parts, i) \in Line
    OBVIOUS
  <2>1. (i = parts) \in BOOLEAN /\ i \in Nat
    OBVIOUS
  <2>2. Wire(send, parts, i) \in Line
    BY <1>1, <1>2, <2>1 DEF Wire, Line
  <2> QED BY <1>1, <1>2, <2>1, <2>2 DEF Record
<1>4. RecordsFor(send, parts) \in Seq(Record) /\ Len(RecordsFor(send, parts)) = parts
  BY <1>3 DEF RecordsFor
<1>5. LinesFor(send, parts) \in Seq(Line) /\ Len(LinesFor(send, parts)) = parts
  <2>1. \A i \in 1..parts : Wire(send, parts, i) \in Line
    BY <1>3
  <2> QED BY <2>1 DEF LinesFor
<1>6. ASSUME NEW i \in 1..parts
      PROVE  /\ RecordsFor(send, parts)[i].id = send.id /\ RecordsFor(send, parts)[i].part = i
             /\ RecordsFor(send, parts)[i].text = WireText(send, parts, i)
             /\ RecordsFor(send, parts)[i].last = (i = parts)
             /\ LinesFor(send, parts)[i].id = send.id /\ LinesFor(send, parts)[i].part = i
             /\ LinesFor(send, parts)[i].text = WireText(send, parts, i)
  BY <1>6 DEF RecordsFor, LinesFor, Wire
<1>7. ASSUME NEW i \in 1..parts
      PROVE  /\ RecordsFor(send, parts)[i].text[3] = i /\ LinesFor(send, parts)[i].text[3] = i
             /\ IsOf(LinesFor(send, parts)[i], RecordsFor(send, parts)[i])
  BY <1>2, <1>6 DEF IsOf
<1> QED BY <1>4, <1>5, <1>6, <1>7 DEF AsSplit

\* Records stay in step when a send is filed and its lines go out.
LEMMA InStepFiled ==
  ASSUME NEW recs \in Seq(Record), NEW old \in Seq(Line), InStep(recs, old),
         NEW send \in Send, NEW parts \in Nat, parts # 0, \A k \in 1..Len(old) : old[k].id # send.id,
         NEW f, f.recs \in Seq(Record), FiledUpTo(f, recs, RecordsFor(send, parts), parts)
  PROVE  InStep(f.recs, old \o LinesFor(send, parts))
<1> DEFINE new == RecordsFor(send, parts)
           sent == LinesFor(send, parts)
           all == old \o sent
           n == Len(old)
           fr == f.recs
<1>1. /\ new \in Seq(Record) /\ Len(new) = parts /\ sent \in Seq(Line) /\ Len(sent) = parts
      /\ \A i \in 1..parts : /\ new[i].id = send.id /\ new[i].part = i /\ new[i].text[3] = i
                             /\ new[i].last = (i = parts)
                             /\ sent[i].id = send.id /\ sent[i].part = i /\ sent[i].text[3] = i
                             /\ IsOf(sent[i], new[i])
  <2>1. AsSplit(new, sent, send, parts)
    BY SplitFacts, Zenon
  <2> HIDE DEF new, sent
  <2> QED BY <2>1, Zenon DEF AsSplit
<1> HIDE DEF new, sent
<1>2. /\ all \in Seq(Line) /\ n \in Nat /\ Len(all) = n + parts
      /\ (\A k \in 1..n : all[k] = old[k]) /\ (\A i \in 1..parts : all[n + i] = sent[i])
      /\ (\A i \in 1..parts : all[n + i].id = send.id /\ all[n + i].part = i /\ all[n + i].text[3] = i)
  <2>1. old \in Seq(Line) /\ sent \in Seq(Line)
    BY <1>1
  <2>2. /\ old \o sent \in Seq(Line) /\ Len(old \o sent) = Len(old) + Len(sent)
        /\ (\A k \in 1..Len(old) : (old \o sent)[k] = old[k])
        /\ (\A i \in 1..Len(sent) : (old \o sent)[Len(old) + i] = sent[i])
    BY <2>1, Joined
  <2>3. n \in Nat /\ Len(sent) = parts
    BY <1>1
  <2> HIDE DEF n
  <2>4. /\ all \in Seq(Line) /\ Len(all) = n + parts
        /\ (\A k \in 1..n : all[k] = old[k]) /\ (\A i \in 1..parts : all[n + i] = sent[i])
    BY <2>2, <2>3 DEF n
  <2> HIDE DEF all
  <2>5. ASSUME NEW i \in 1..parts
        PROVE  all[n + i].id = send.id /\ all[n + i].part = i /\ all[n + i].text[3] = i
    <3>1. all[n + i] = sent[i]
      BY <2>4
    <3>2. sent[i].id = send.id /\ sent[i].part = i /\ sent[i].text[3] = i
      BY <1>1, Zenon
    <3> QED BY <3>1, <3>2, Zenon
  <2> QED BY <2>3, <2>4, <2>5, Zenon
<1>3. \A k \in 1..Len(all) : k \in 1..n \/ \E i \in 1..parts : k = n + i
  <2> SUFFICES ASSUME NEW k \in 1..Len(all), k \notin 1..n PROVE \E i \in 1..parts : k = n + i
    OBVIOUS
  <2>1. k - n \in 1..parts /\ k = n + (k - n)
    BY <1>2
  <2> QED BY <2>1
<1>4. /\ \A i \in 1..Len(recs) : recs[i].text[3] = recs[i].part
      /\ \A k \in 1..n : old[k].text[3] = old[k].part
      /\ \A k, l \in 1..n : k < l /\ old[k].id = old[l].id => old[k].part < old[l].part
      /\ \A i \in 1..Len(recs) : \E k \in 1..n : IsOf(old[k], recs[i])
      /\ \A i, j \in 1..Len(recs) : \A k, l \in 1..n :
           i < j /\ IsOf(old[k], recs[i]) /\ IsOf(old[l], recs[j]) => k < l
      /\ \A i, j \in 1..Len(recs) : recs[i].id = recs[j].id /\ recs[i].last => recs[j].part <= recs[i].part
  BY DEF InStep
<1>5. \A i \in 1..Len(recs) : recs[i].id # send.id
  BY <1>4 DEF IsOf
<1>6. /\ \A k \in 1..Len(fr) : (\E i \in 1..Len(recs) : fr[k] = recs[i]) \/ (\E m \in 1..parts : fr[k] = new[m])
      /\ \A k, l \in 1..Len(fr) : k < l => PairFiled(fr[k], fr[l], recs, new)
  BY DEF FiledUpTo, new
<1> HIDE DEF all, n, fr
<1>7. \A i \in 1..Len(recs), k \in 1..Len(all) : IsOf(all[k], recs[i]) => k \in 1..n /\ IsOf(old[k], recs[i])
  <2> SUFFICES ASSUME NEW i \in 1..Len(recs), NEW k \in 1..Len(all), IsOf(all[k], recs[i])
               PROVE  k \in 1..n /\ IsOf(old[k], recs[i])
    OBVIOUS
  <2>1. k \in 1..n
    <3>1. all[k].id # send.id
      BY <1>5 DEF IsOf
    <3>2. CASE k \notin 1..n
      <4>1. PICK j \in 1..parts : k = n + j
        BY <3>2, <1>3
      <4>2. all[k].id = send.id
        BY <4>1, <1>2
      <4> QED BY <3>1, <4>2
    <3> QED BY <3>2
  <2> QED BY <2>1, <1>2
<1>8. \A m \in 1..parts, k \in 1..Len(all) : IsOf(all[k], new[m]) => k = n + m
  <2> SUFFICES ASSUME NEW m \in 1..parts, NEW k \in 1..Len(all), IsOf(all[k], new[m])
               PROVE  k = n + m
    OBVIOUS
  <2>1. all[k].id = send.id /\ all[k].part = m
    BY <1>1 DEF IsOf
  <2>2. k \notin 1..n
    BY <2>1, <1>2 DEF n
  <2>3. PICK i \in 1..parts : k = n + i
    BY <2>2, <1>3
  <2>4. all[k].part = i
    BY <2>3, <1>1, <1>2
  <2> QED BY <2>1, <2>3, <2>4
<1>9. \A k \in 1..Len(all) : all[k].text[3] = all[k].part
  <2> SUFFICES ASSUME NEW k \in 1..Len(all) PROVE all[k].text[3] = all[k].part
    OBVIOUS
  <2>1. CASE k \in 1..n
    BY <2>1, <1>2, <1>4
  <2>2. CASE k \notin 1..n
    <3>1. PICK j \in 1..parts : k = n + j
      BY <2>2, <1>3
    <3> QED BY <3>1, <1>2
  <2> QED BY <2>1, <2>2
<1>10. ASSUME NEW k \in 1..Len(all), NEW l \in 1..Len(all), k < l, all[k].id = all[l].id
       PROVE  all[k].part < all[l].part
  <2>1. CASE l \in 1..n
    <3>1. k \in 1..n
      BY <2>1, <1>2, <1>10
    <3> QED BY <2>1, <3>1, <1>2, <1>4, <1>10
  <2>2. CASE l \notin 1..n
    <3>1. PICK j \in 1..parts : l = n + j
      BY <2>2, <1>3
    <3>2. all[l].id = send.id /\ all[l].part = j
      BY <3>1, <1>1, <1>2
    <3>3. k \notin 1..n
      BY <3>2, <1>2, <1>10 DEF n
    <3>4. PICK i \in 1..parts : k = n + i
      BY <3>3, <1>3
    <3>5. all[k].part = i
      BY <3>4, <1>1, <1>2
    <3> QED BY <3>1, <3>2, <3>4, <3>5, <1>2, <1>10
  <2> QED BY <2>1, <2>2
<1>11. ASSUME NEW k \in 1..Len(fr)
       PROVE  fr[k].text[3] = fr[k].part /\ \E l \in 1..Len(all) : IsOf(all[l], fr[k])
  <2>1. CASE \E i \in 1..Len(recs) : fr[k] = recs[i]
    <3>1. PICK i \in 1..Len(recs) : fr[k] = recs[i]
      BY <2>1
    <3>2. PICK l \in 1..n : IsOf(old[l], recs[i])
      BY <1>4
    <3>3. l \in 1..Len(all) /\ all[l] = old[l]
      BY <1>2
    <3> QED BY <3>1, <3>2, <3>3, <1>4
  <2>2. CASE \E m \in 1..parts : fr[k] = new[m]
    <3>1. PICK m \in 1..parts : fr[k] = new[m]
      BY <2>2
    <3>2. n + m \in 1..Len(all) /\ all[n + m] = sent[m]
      BY <1>2
    <3> QED BY <3>1, <3>2, <1>1
  <2> QED BY <2>1, <2>2, <1>6
<1>12. ASSUME NEW i \in 1..Len(fr), NEW j \in 1..Len(fr), NEW k \in 1..Len(all), NEW l \in 1..Len(all),
              i < j, IsOf(all[k], fr[i]), IsOf(all[l], fr[j])
       PROVE  k < l
  <2>1. PairFiled(fr[i], fr[j], recs, new)
    BY <1>6, <1>12
  <2>2. CASE \E x, y \in 1..Len(recs) : x < y /\ fr[i] = recs[x] /\ fr[j] = recs[y]
    BY <2>2, <1>4, <1>7, <1>12
  <2>3. CASE (\E x \in 1..Len(recs) : fr[i] = recs[x]) /\ \E m \in 1..Len(new) : fr[j] = new[m]
    <3>1. PICK m \in 1..parts : fr[j] = new[m]
      BY <2>3, <1>1
    <3>2. l = n + m
      BY <3>1, <1>8, <1>12
    <3>3. k \in 1..n
      BY <2>3, <1>7, <1>12
    <3> QED BY <3>2, <3>3, <1>2
  <2>4. CASE \E x, y \in 1..Len(new) : x < y /\ fr[i] = new[x] /\ fr[j] = new[y]
    <3>1. PICK x, y \in 1..parts : x < y /\ fr[i] = new[x] /\ fr[j] = new[y]
      BY <2>4, <1>1
    <3>2. k = n + x /\ l = n + y
      BY <3>1, <1>8, <1>12
    <3> QED BY <3>1, <3>2, <1>2
  <2> QED BY <2>1, <2>2, <2>3, <2>4 DEF PairFiled
<1>13. ASSUME NEW i \in 1..Len(fr), NEW j \in 1..Len(fr), fr[i].id = fr[j].id, fr[i].last
       PROVE  fr[j].part <= fr[i].part
  <2>1. CASE \E x \in 1..Len(recs) : fr[i] = recs[x]
    <3>1. fr[j].id # send.id
      BY <2>1, <1>5, <1>13
    <3>2. \E y \in 1..Len(recs) : fr[j] = recs[y]
      <4>1. ASSUME NEW m \in 1..parts, fr[j] = new[m] PROVE FALSE
        <5>1. new[m].id = send.id
          BY <1>1
        <5> QED BY <3>1, <4>1, <5>1
      <4> QED BY <4>1, <1>6
    <3> QED BY <2>1, <3>2, <1>4, <1>13
  <2>2. CASE \E m \in 1..parts : fr[i] = new[m]
    <3>1. fr[j].id = send.id /\ fr[i].part = parts
      <4>1. PICK m \in 1..parts : fr[i] = new[m]
        BY <2>2
      <4>2. fr[i].id = send.id /\ fr[i].part = m /\ fr[i].last = (m = parts)
        BY <4>1, <1>1
      <4> QED BY <4>2, <1>13
    <3>2. \E m \in 1..parts : fr[j] = new[m]
      BY <3>1, <1>5, <1>6
    <3> QED BY <3>1, <3>2, <1>1
  <2> QED BY <2>1, <2>2, <1>6
<1>14. InStep(fr, all)
  BY <1>9, <1>10, <1>11, <1>12, <1>13 DEF InStep
<1> QED BY <1>14 DEF fr, all, sent

\* A send whose reflections are expected: its place passes from the lane to
\* the records.
LEMMA OutgoingSentReflectedKeeps ==
  ASSUME RoutingInv, NEW parts \in Nat, parts # 0, OutgoingSentReflected(parts)
  PROVE  RoutingInv' /\ Stepped
<1> DEFINE send == Head(lane)
           new == RecordsFor(send, parts)
           sent == LinesFor(send, parts)
           f == FoldLeft(DecorateOwnEcho, [recs |-> records, b |-> Now], new)
           b == DrainTranslateReady(f.b)
<1>1. /\ lane # <<>> /\ lane' = Tail(lane) /\ nextId' = nextId /\ ~Late(send)
      /\ UNCHANGED <<open, atShrinker, timedOut, session>>
  BY DEF OutgoingSentReflected, CanSend
<1>2. /\ records' = f.recs /\ Finish(b, {}) /\ reflecting' = reflecting \o sent
  BY DEF OutgoingSentReflected, RecordsFor, LinesFor
<1>3. /\ send \in Send /\ send.id \in LaneIds /\ send = lane[1] /\ 1 \in 1..Len(lane)
      /\ LaneIds' = LaneIds \ {send.id}
  BY <1>1, TailFacts
<1> HIDE DEF send
<1>4. /\ new \in Seq(Record) /\ Len(new) = parts /\ sent \in Seq(Line) /\ Len(sent) = parts
      /\ \A i \in 1..parts : /\ new[i].id = send.id /\ new[i].last = (i = parts)
                             /\ sent[i].id = send.id
  <2>1. send \in Send /\ parts \in Nat
    BY <1>3
  <2>2. AsSplit(new, sent, send, parts)
    BY <2>1, SplitFacts, Zenon
  <2> HIDE DEF new, sent
  <2> QED BY <2>2, Zenon DEF AsSplit
<1>5. /\ Now.q = queue /\ Sound(Now, Seen, unplaced, {}) /\ Seen \in SUBSET Nat /\ QueueOK(queue)
      /\ Reservations(queue) \subseteq Owned /\ Apart
  BY InvFacts
<1>6. /\ records \in Seq(Record) /\ reflecting \in Seq(Line) /\ InStep(records, reflecting)
  BY DEF RoutingInv, Shapes
<1> HIDE DEF new, sent
<1>7. /\ f.recs \in Seq(Record) /\ FiledUpTo(f, records, new, parts)
      /\ Sound(f.b, Seen, unplaced, {}) /\ Places(f.b.q) \subseteq Places(queue) /\ Carried(f.b, Now)
  <2>1. /\ f.recs \in Seq(Record) /\ FiledUpTo(f, records, new, Len(new))
        /\ Sound(f.b, Seen, unplaced, {}) /\ Carried(f.b, Now)
    <3>1. /\ Sound(Now, Seen, unplaced, {}) /\ Seen \in SUBSET Nat
          /\ records \in Seq(Record) /\ new \in Seq(Record)
      BY <1>4, <1>5, <1>6
    <3> QED BY <3>1, FileSound, Zenon
  <2> HIDE DEF f
  <2> QED BY <2>1, <1>4, <1>5 DEF Carried
<1> HIDE DEF f
<1>8. Sound(b, Seen, unplaced, {}) /\ Places(b.q) = Places(f.b.q) /\ Carried(b, f.b)
  BY <1>5, <1>7, DrainSound
<1> HIDE DEF b
<1>9. /\ Reservations(b.q) \subseteq Reservations(queue) /\ Reservations(b.q) \subseteq Reservations(f.b.q)
  <2>1. QueueOK(b.q) /\ QueueOK(f.b.q)
    BY <1>7, <1>8, SoundParts
  <2>2. Reservations(b.q) \subseteq Reservations(f.b.q)
    BY <2>1, <1>8, CarriedReservations
  <2>3. Reservations(f.b.q) \subseteq Reservations(Now.q)
    BY <2>1, <1>5, <1>7, CarriedReservations
  <2> QED BY <2>2, <2>3, <1>5
<1>10. \A k \in 1..Len(reflecting) : reflecting[k].id # send.id
  BY <1>3, <1>5 DEF Apart, LineIds
<1>11. InStep(records, reflecting)'
  <2>1. InStep(f.recs, reflecting \o sent)
    BY <1>3, <1>6, <1>7, <1>10, InStepFiled DEF new, sent
  <2> QED BY <2>1, <1>2
<1>12. reflecting' \in Seq(Line) /\ LineIds' \subseteq LineIds \cup {send.id} /\ LinesGo({send.id})
  <2>1. /\ reflecting' \in Seq(Line)
        /\ \A k \in 1..Len(reflecting') :
             \/ k \in 1..Len(reflecting) /\ reflecting'[k] = reflecting[k]
             \/ k - Len(reflecting) \in 1..Len(sent) /\ reflecting'[k] = sent[k - Len(reflecting)]
    BY <1>2, <1>4, <1>6, Joined
  <2>2. ASSUME NEW k \in 1..Len(reflecting') PROVE reflecting'[k].id \in LineIds \cup {send.id}
    <3>1. CASE k \in 1..Len(reflecting) /\ reflecting'[k] = reflecting[k]
      BY <3>1 DEF LineIds
    <3>2. CASE k - Len(reflecting) \in 1..Len(sent) /\ reflecting'[k] = sent[k - Len(reflecting)]
      <4>1. \A i \in 1..parts : sent[i].id = send.id
        BY <1>4
      <4> QED BY <3>2, <4>1, <1>4
    <3> QED BY <3>1, <3>2, <2>1
  <2>3. LinesGo({send.id})
    <3>1. \A i \in 1..Len(sent) : sent[i].id = send.id
      BY <1>4
    <3> QED BY <3>1, <2>1 DEF LinesGo
  <2> QED BY <2>1, <2>2, <2>3 DEF LineIds
<1>13. /\ \A k \in 1..Len(f.recs) : \/ \E i \in 1..Len(records) : f.recs[k] = records[i]
                                    \/ \E m \in 1..parts : f.recs[k] = new[m]
       /\ \E k \in 1..Len(f.recs) : f.recs[k] = new[parts]
       /\ \A i \in 1..Len(records) : records[i].id \in Reservations(f.b.q) =>
            \E k \in 1..Len(f.recs) : f.recs[k] = records[i]
  BY <1>7 DEF FiledUpTo
<1>14. RecordIds(records') \subseteq RecordIds(records) \cup {send.id}
  <2>1. \A k \in 1..Len(f.recs) : f.recs[k].id \in RecordIds(records) \/ f.recs[k].id = send.id
    BY <1>4, <1>13 DEF RecordIds
  <2> QED BY <2>1, <1>2 DEF RecordIds
<1>15. RecordIds(records') \cap timedOut = {}
  <2>1. send.id \notin timedOut
    <3>1. send.id \in timedOut => send.age >= Timeout
      BY <1>3 DEF RoutingInv, LaneAges
    <3> QED BY <3>1, <1>1 DEF Late
  <2>2. RecordIds(records) \cap timedOut = {}
    BY DEF RoutingInv, NothingLeftBehind, NoStaleRecord, RecordIds
  <2> QED BY <2>1, <2>2, <1>14
<1>16. \E k \in 1..Len(f.recs) : f.recs[k].id = send.id /\ f.recs[k].last
  <2>1. parts \in 1..parts
    OBVIOUS
  <2>2. new[parts].id = send.id /\ new[parts].last
    BY <1>4, <2>1
  <2> QED BY <2>2, <1>13
<1>17. LastKept(records', Reservations(b.q))
  <2> SUFFICES ASSUME NEW i \in 1..Len(f.recs), f.recs[i].id \in Reservations(b.q)
               PROVE  \E j \in 1..Len(f.recs) : f.recs[j].id = f.recs[i].id /\ f.recs[j].last
    BY <1>2 DEF LastKept
  <2>1. CASE f.recs[i].id = send.id
    BY <2>1, <1>16
  <2>2. CASE f.recs[i].id # send.id
    <3>1. PICK x \in 1..Len(records) : f.recs[i] = records[x]
      <4>1. \A m \in 1..parts : new[m].id = send.id
        BY <1>4
      <4> QED BY <4>1, <2>2, <1>13
    <3>2. records[x].id \in Reservations(queue)
      BY <3>1, <1>9
    <3>3. PICK y \in 1..Len(records) : records[y].id = records[x].id /\ records[y].last
      <4>1. LastKept(records, Reservations(queue))
        BY DEF RoutingInv
      <4> QED BY <4>1, <3>2 DEF LastKept
    <3>4. records[y].id \in Reservations(f.b.q)
      BY <3>1, <3>3, <1>9
    <3> QED BY <3>1, <3>3, <3>4, <1>13
  <2> QED BY <2>1, <2>2
<1>18. Reservations(b.q) \subseteq Owned'
  <2> SUFFICES ASSUME NEW id \in Reservations(b.q) PROVE id \in Owned'
    OBVIOUS
  <2>1. Owned' = atShrinker \cup LaneIds' \cup RecordIds(records')
    BY <1>1 DEF Owned
  <2>2. id \in Owned
    BY <1>5, <1>9
  <2>3. CASE id = send.id
    BY <2>1, <2>3, <1>2, <1>16 DEF RecordIds
  <2>4. CASE id \in RecordIds(records)
    <3>1. PICK x \in 1..Len(records) : records[x].id = id
      BY <2>4 DEF RecordIds
    <3>2. \E k \in 1..Len(f.recs) : f.recs[k] = records[x]
      BY <3>1, <1>9, <1>13
    <3> QED BY <2>1, <3>1, <3>2, <1>2 DEF RecordIds
  <2> QED BY <2>1, <2>2, <2>3, <2>4, <1>3 DEF Owned
<1>19. /\ nextId' \in Nat /\ nextId' >= nextId /\ Seen \cup (nextId..(nextId' - 1)) = Seen
  BY <1>1, NoId
<1>20. EndsSend(b, {})
  <2>1. records' \in Seq(Record) /\ Places(b.q) \subseteq Places(queue)
    BY <1>2, <1>7, <1>8
  <2> QED BY <2>1, <1>1, <1>2, <1>8, <1>11, <1>12, <1>14, <1>15, <1>17, <1>18, <1>19 DEF EndsSend, send
<1>21. Feeds(b, {})
  <2>1. Carried(b, Now)
    BY <1>7, <1>8, CarriedTwice
  <2> QED BY <2>1, <1>1, AddedOf, NoneComes DEF Feeds
<1> QED BY <1>20, <1>21, EndsSendKeeps

\* A handler that asks for a place and puts one in charge of it.
Asks(b) ==
  /\ nextId' = nextId + 1 /\ FinishReserving(b)
  /\ UNCHANGED <<open, records, reflecting, timedOut, session>>
  /\ \/ open /\ atShrinker' = atShrinker \cup {nextId} /\ lane' = lane
     \/ /\ atShrinker' = atShrinker
        /\ \E send \in Send : send.id = nextId /\ send.age = 0 /\ lane' = Append(lane, send)
  /\ Sound(b, Seen \cup {nextId}, unplaced, {})
  /\ Places(b.q) \subseteq Places(queue) \cup {[id |-> nextId, kind |-> "reserved", age |-> 0]}
  /\ Added(b, Now, {})

\* Asking for a place keeps the invariant, also when the ceiling takes it back
\* at once.
LEMMA AsksKeeps ==
  ASSUME RoutingInv, NEW b, Asks(b)
  PROVE  RoutingInv' /\ Stepped
<1> DEFINE places == Reservations(queue) \cup {nextId}
           place == [id |-> nextId, kind |-> "reserved", age |-> 0]
<1>1. /\ Shapes /\ PlacesOwned /\ Owned \subseteq Reservations(queue) \cup unplaced
      /\ Reservations(queue) \subseteq Owned /\ Apart /\ QueueOK(queue)
      /\ Seen \subseteq Known /\ LaneIds \subseteq Seen /\ atShrinker \subseteq Seen /\ LineIds \subseteq Known
  BY InvFacts
<1>2. nextId' = nextId + 1
  BY DEF Asks
<1>3. /\ nextId..(nextId' - 1) = {nextId} /\ nextId \in Nat /\ nextId' \in Nat /\ nextId' >= nextId
      /\ nextId \notin Known /\ 0..(nextId' - 1) = Known \cup {nextId}
  BY <1>2, OneId
<1>4. MayClose(b, places) /\ Close(b, places)
  <2>1. \A p \in Places(b.q) : p \in Places(queue) \/ p = place
    BY DEF Asks
  <2>2. \A p \in Places(queue) : p.id \in Known
    BY <1>1, PlaceFacts DEF Seen
  <2>3. Close(b, places)
    BY DEF Asks, FinishReserving
  <2>4. Sound(b, Seen \cup {nextId}, unplaced, {})
    BY DEF Asks
  <2>5. \A p \in Places(b.q) : /\ (p \in Places(queue) \/ p.id \in {nextId})
                                /\ (p.id \in {nextId} => p.kind = "reserved")
    BY <2>1, <2>2, <1>3
  <2> HIDE DEF place
  <2>6. \A p \in Places(b.q) : p.id \in {nextId} /\ p.id \in places => p.kind = "reserved"
    BY <2>5
  <2>7. \A p \in Places(b.q) : p \in Places(queue) \/ p.id \in {nextId}
    BY <2>5
  <2> HIDE DEF places
  <2>8. places \subseteq Reservations(queue) \cup {nextId}
    BY DEF places
  <2> QED BY <2>3, <2>4, <2>6, <2>7, <2>8, <1>3 DEF MayClose
<1>5. Owned' = Owned \cup {nextId} /\ LaneIds' \subseteq LaneIds \cup {nextId} /\ LaneIds \subseteq LaneIds'
      /\ atShrinker' \subseteq atShrinker \cup {nextId} /\ LineIds' = LineIds
      /\ LaneIds' \cap atShrinker' = {}
      /\ lane' \in Seq(Send) /\ \A i \in 1..Len(lane') :
            (i \in 1..Len(lane) /\ lane'[i] = lane[i]) \/ (i = Len(lane) + 1 /\ lane'[i].id = nextId /\ lane'[i].age = 0)
  <2>1. lane \in Seq(Send)
    BY <1>1 DEF Shapes
  <2>2. records' = records /\ LineIds' = LineIds
    BY DEF Asks, LineIds
  <2>3. nextId \notin LaneIds /\ nextId \notin atShrinker /\ LaneIds \cap atShrinker = {}
    BY <1>1, <1>3 DEF Apart
  <2>4. CASE atShrinker' = atShrinker \cup {nextId} /\ lane' = lane
    <3>1. LaneIds' = LaneIds
      BY <2>4 DEF LaneIds
    <3>2. Owned' = Owned \cup {nextId}
      BY <3>1, <2>2, <2>4 DEF Owned
    <3> QED BY <3>1, <3>2, <2>1, <2>2, <2>3, <2>4
  <2>5. CASE atShrinker' = atShrinker /\ \E send \in Send : send.id = nextId /\ send.age = 0 /\ lane' = Append(lane, send)
    <3>1. PICK send \in Send : send.id = nextId /\ send.age = 0 /\ lane' = Append(lane, send)
      BY <2>5
    <3>2. /\ lane' \in Seq(Send) /\ Len(lane') = Len(lane) + 1 /\ lane'[Len(lane) + 1] = send
          /\ (\A i \in 1..Len(lane) : lane'[i] = lane[i]) /\ Len(lane) \in Nat
      BY <2>1, <3>1
    <3>3. \A i \in 1..Len(lane') :
            (i \in 1..Len(lane) /\ lane'[i] = lane[i]) \/ (i = Len(lane) + 1 /\ lane'[i].id = nextId /\ lane'[i].age = 0)
      <4>1. \A i \in 1..Len(lane') : i \in 1..Len(lane) \/ i = Len(lane) + 1
        BY <3>2
      <4> QED BY <3>1, <3>2, <4>1
    <3>4. LaneIds' \subseteq LaneIds \cup {nextId}
      BY <3>3 DEF LaneIds
    <3>5. \A i \in 1..Len(lane) : i \in 1..Len(lane') /\ lane'[i].id = lane[i].id
      BY <3>2
    <3>6. Len(lane) + 1 \in 1..Len(lane') /\ lane'[Len(lane) + 1].id = nextId
      BY <3>1, <3>2
    <3>7. LaneIds' = LaneIds \cup {nextId}
      BY <3>4, <3>5, <3>6 DEF LaneIds
    <3>8. Owned' = Owned \cup {nextId}
      BY <3>7, <2>2, <2>5 DEF Owned
    <3> QED BY <3>2, <3>3, <3>7, <3>8, <2>2, <2>3, <2>5
  <2> QED BY <2>4, <2>5 DEF Asks
<1>6. Keeps(b, places)
  <2>1. open' \in BOOLEAN /\ session' \in Sessions /\ records' \in Seq(Record) /\ reflecting' \in Seq(Line)
    BY <1>1 DEF Asks, Shapes
  <2>2. timedOut' \cup LineIds' \subseteq 0..(nextId' - 1)
    BY <1>1, <1>3, <1>5 DEF Asks, Shapes
  <2>3. Owned' \subseteq unplaced \cup places
    BY <1>1, <1>5
  <2>4. Apart'
    <3>1. nextId \notin LineIds /\ nextId \notin LaneIds
      BY <1>1, <1>3
    <3>2. LaneIds' \cap LineIds' = {} /\ atShrinker' \cap (LaneIds' \cup LineIds') = {}
      BY <3>1, <1>1, <1>5 DEF Apart
    <3>3. \A i, j \in 1..Len(lane') : i # j => lane'[i].id # lane'[j].id
      <4>1. \A i, j \in 1..Len(lane) : i # j => lane[i].id # lane[j].id
        BY <1>1 DEF Apart
      <4>2. \A i \in 1..Len(lane) : lane[i].id # nextId
        BY <3>1 DEF LaneIds
      <4>3. SUFFICES ASSUME NEW i \in 1..Len(lane'), NEW j \in 1..Len(lane'), i # j PROVE lane'[i].id # lane'[j].id
        OBVIOUS
      <4>4. CASE i \in 1..Len(lane) /\ lane'[i] = lane[i]
        BY <4>1, <4>2, <4>3, <4>4, <1>5
      <4>5. CASE i = Len(lane) + 1 /\ lane'[i].id = nextId
        BY <4>2, <4>3, <4>5, <1>5
      <4> QED BY <4>4, <4>5, <1>5
    <3> QED BY <3>2, <3>3 DEF Apart
  <2>5. LaneAges'
    <3>1. Places(queue') = Places(b.q)
      BY <1>1, <1>4, CloseFacts DEF Closed
    <3>2. LaneAges /\ timedOut' = timedOut /\ timedOut \subseteq Known
      BY <1>1 DEF RoutingInv, Asks, Shapes
    <3>3. \A p \in Places(b.q) : p \in Places(queue) \/ p = place
      BY DEF Asks
    <3>4. \A p \in Places(queue) : p.id \in Known
      BY <1>1, PlaceFacts DEF Seen
    <3>5. ASSUME NEW i \in 1..Len(lane')
          PROVE  /\ \A p \in Places(b.q) : p.id = lane'[i].id => p.age = lane'[i].age
                 /\ lane'[i].id \in timedOut => lane'[i].age >= Timeout
      <4>1. CASE i \in 1..Len(lane) /\ lane'[i] = lane[i]
        <5>1. lane[i].id # nextId
          BY <4>1, <1>1, <1>3 DEF LaneIds
        <5> QED BY <5>1, <4>1, <3>2, <3>3 DEF LaneAges
      <4>2. CASE i = Len(lane) + 1 /\ lane'[i].id = nextId /\ lane'[i].age = 0
        BY <4>2, <3>2, <3>3, <3>4, <1>3
      <4> QED BY <4>1, <4>2, <1>5
    <3> QED BY <3>1, <3>2, <3>5 DEF LaneAges
  <2>6. InStep(records, reflecting)'
    BY DEF RoutingInv, Asks
  <2>7. /\ Reservations(b.q) \subseteq Reservations(queue) \cup {nextId}
    <3>1. QueueOK(b.q)
      BY SoundParts DEF Asks
    <3>2. \A p \in Places(b.q) : p \in Places(queue) \/ p = place
      BY DEF Asks
    <3> QED BY <3>1, <3>2, <1>1, PlaceFacts
  <2>8. Reservations(b.q) \subseteq Owned'
    BY <2>7, <1>1, <1>5
  <2>9. RecordIds(records) \subseteq Known
    BY <1>1, RecordsOfLines
  <2>10. LastKept(records', Reservations(b.q))
    <3>1. \A i \in 1..Len(records) : records[i].id # nextId
      BY <2>9, <1>3 DEF RecordIds
    <3>2. LastKept(records, Reservations(queue)) /\ records' = records
      BY DEF RoutingInv, Asks
    <3> QED BY <3>1, <3>2, <2>7 DEF LastKept
  <2>11. RecordIds(records') \cap timedOut' = {}
    BY DEF RoutingInv, NothingLeftBehind, NoStaleRecord, RecordIds, Asks
  <2> QED BY <1>5, <2>1, <2>2, <2>3, <2>4, <2>5, <2>6, <2>8, <2>10, <2>11 DEF Keeps
<1>7. FeedsRows(b, {})
  <2>1. atShrinker \subseteq atShrinker' /\ reflecting' = reflecting /\ open' = open
        /\ (open \/ atShrinker' \subseteq atShrinker) /\ Added(b, Now, {})
    BY DEF Asks
  <2>2. Known \subseteq Known'
    BY <1>3 DEF Known
  <2>3. \A id \in atShrinker' \cup LaneIds' : id \in atShrinker \cup LaneIds \/ id \notin Known
    BY <1>3, <1>5
  <2>4. DueLess
    BY <2>1, <2>2, <2>3, LessDue
  <2>5. Comes({})
    BY <2>1, NoneComes
  <2> QED BY <2>1, <2>4, <2>5 DEF FeedsRows, Feeds, Opens
<1> QED BY <1>4, <1>6, <1>7, HandlerKeeps

\* A send that is handed to the outgoing worker.
LEMMA SubmitKeeps ==
  ASSUME RoutingInv, Submit
  PROVE  RoutingInv' /\ Stepped
<1> DEFINE c == [Now EXCEPT !.has = TRUE, !.q = Reserve(queue, nextId)]
           b == EnforceTranslateCeiling(c)
           send == [id |-> nextId, text |-> IF session.retype THEN 0 ELSE nextId, age |-> 0, sameSession |-> TRUE]
<1>1. /\ Now \in Buf /\ Now.q = queue /\ Now.out = <<>> /\ nextId \in Nat /\ QueueOK(queue)
  BY InvFacts
<1>2. c \in Buf /\ c.has /\ c.q = Reserve(queue, nextId) /\ c.out = <<>>
  <2>1. Reserved(nextId) \in Entry
    BY <1>1, NewEntries
  <2>2. Append(queue, Reserved(nextId)) \in Seq(Entry)
    BY <1>1, <2>1 DEF QueueOK
  <2> QED BY <1>1, <2>2 DEF Buf, Reserve
<1>3. send \in Send /\ send.id = nextId /\ send.age = 0
  BY <1>1 DEF Send
<1>4. /\ nextId' = nextId + 1 /\ lane' = Append(lane, send) /\ FinishReserving(b) /\ atShrinker' = atShrinker
      /\ UNCHANGED <<open, records, reflecting, timedOut, session>>
  BY DEF Submit, TakeId
<1> HIDE DEF c, send
<1>5. /\ Sound(b, Seen \cup {nextId}, unplaced, {})
      /\ Places(b.q) \subseteq Places(queue) \cup {[id |-> nextId, kind |-> "reserved", age |-> 0]}
      /\ Added(b, Now, {})
  BY <1>2, ReserveSound
<1> HIDE DEF b
<1>6. Asks(b)
  BY <1>3, <1>4, <1>5 DEF Asks
<1> QED BY <1>6, AsksKeeps

\* A row that goes to the URL shrinker.
LEMMA RecvToShrinkerKeeps ==
  ASSUME RoutingInv, RecvToShrinker
  PROVE  RoutingInv' /\ Stepped
<1> DEFINE c == [Now EXCEPT !.q = Reserve(queue, nextId)]
           d == EnforceTranslateCeiling(c)
           b == IF hasQueue THEN d ELSE Now
<1>1. /\ Now \in Buf /\ Now.q = queue /\ Now.out = <<>> /\ nextId \in Nat /\ QueueOK(queue)
      /\ Now.has = hasQueue /\ Sound(Now, Seen, unplaced, {})
  BY InvFacts
<1>2. c \in Buf /\ c.has = hasQueue /\ c.q = Reserve(queue, nextId) /\ c.out = <<>>
  <2>1. Reserved(nextId) \in Entry
    BY <1>1, NewEntries
  <2>2. Append(queue, Reserved(nextId)) \in Seq(Entry)
    BY <1>1, <2>1 DEF QueueOK
  <2> QED BY <1>1, <2>2 DEF Buf, Reserve
<1>3. /\ nextId' = nextId + 1 /\ atShrinker' = atShrinker \cup {nextId} /\ lane' = lane
      /\ FinishReserving(b) /\ open /\ UNCHANGED <<open, records, reflecting, timedOut, session>>
  BY DEF RecvToShrinker, TakeId
<1> HIDE DEF c
<1>4. /\ Sound(b, Seen \cup {nextId}, unplaced, {})
      /\ Places(b.q) \subseteq Places(queue) \cup {[id |-> nextId, kind |-> "reserved", age |-> 0]}
      /\ Added(b, Now, {})
  <2>1. CASE hasQueue
    <3>1. c.has /\ b = d
      BY <1>2, <2>1
    <3>2. /\ Sound(d, Seen \cup {nextId}, unplaced, {})
          /\ Places(d.q) \subseteq Places(queue) \cup {[id |-> nextId, kind |-> "reserved", age |-> 0]}
          /\ Added(d, Now, {})
      BY <1>2, <3>1, ReserveSound
    <3> HIDE DEF b, d
    <3> QED BY <3>1, <3>2
  <2>2. CASE ~hasQueue
    <3>1. b = Now
      BY <2>2
    <3> HIDE DEF b
    <3>2. Added(b, Now, {})
      BY <3>1 DEF Added
    <3> QED BY <3>1, <3>2, <1>1, SoundMore
  <2> QED BY <2>1, <2>2
<1> HIDE DEF b
<1>5. Asks(b)
  BY <1>3, <1>4 DEF Asks
<1> QED BY <1>5, AsksKeeps

\* The first line has come back: none of the records that are left is about it.
LEMMA InStepTaken ==
  ASSUME NEW recs \in Seq(Record), NEW lines \in Seq(Line), InStep(recs, lines), lines # <<>>,
         NEW t, TakenSound(t, recs, lines[1].text)
  PROVE  /\ InStep(t.left, Tail(lines))
         /\ t.found /\ t.rec.last /\ t.rec.id = lines[1].id =>
              \A k \in 1..Len(t.left) : t.left[k].id # t.rec.id
<1> DEFINE left == t.left
           rest == Tail(lines)
           n == Len(lines)
<1>1. /\ n \in Nat /\ n >= 1 /\ 1 \in 1..n /\ rest \in Seq(Line) /\ Len(rest) = n - 1
      /\ \A k \in 1..Len(rest) : k + 1 \in 1..n /\ rest[k] = lines[k + 1] /\ k \in Nat
  OBVIOUS
<1>2. /\ \A i \in 1..Len(recs) : recs[i].text[3] = recs[i].part
      /\ \A k \in 1..n : lines[k].text[3] = lines[k].part
      /\ \A k, l \in 1..n : k < l /\ lines[k].id = lines[l].id => lines[k].part < lines[l].part
      /\ \A i \in 1..Len(recs) : \E k \in 1..n : IsOf(lines[k], recs[i])
      /\ \A i, j \in 1..Len(recs) : \A k, l \in 1..n :
           i < j /\ IsOf(lines[k], recs[i]) /\ IsOf(lines[l], recs[j]) => k < l
      /\ \A i, j \in 1..Len(recs) : recs[i].id = recs[j].id /\ recs[i].last => recs[j].part <= recs[i].part
  BY DEF InStep
<1> HIDE DEF rest, n
<1>3. left \in Seq(Record) /\ Len(left) \in Nat /\ Len(recs) \in Nat
      /\ (\A k \in 1..Len(left) : \E i \in 1..Len(recs) : left[k] = recs[i])
      /\ (\A k, l \in 1..Len(left) : k < l =>
            \E i, j \in 1..Len(recs) : i < j /\ left[k] = recs[i] /\ left[l] = recs[j])
      /\ (\A k \in 1..Len(left) : left[k].id \notin StaleIds(recs))
  BY DEF TakenSound, Among
<1>4. ASSUME NEW k \in 1..Len(left) PROVE ~IsOf(lines[1], left[k])
  <2> SUFFICES ASSUME IsOf(lines[1], left[k]) PROVE FALSE
    OBVIOUS
  <2>1. left[k].text = lines[1].text /\ left[k].id \notin StaleIds(recs)
    BY <1>3 DEF IsOf
  <2>2. CASE ~t.found
    <3>1. PICK i \in 1..Len(recs) : left[k] = recs[i]
      BY <1>3
    <3> QED BY <2>1, <2>2, <3>1 DEF TakenSound
  <2>3. CASE t.found
    <3>1. PICK i \in 1..Len(recs), j \in 1..Len(recs) : i # j /\ recs[i] = t.rec /\ recs[j] = left[k]
      BY <2>3 DEF TakenSound
    <3>2. PICK l \in 1..n : IsOf(lines[l], recs[i])
      BY <1>2
    <3>3. \A x, y \in 1..Len(recs) : ~(x < y /\ recs[x] = t.rec /\ recs[y] = left[k])
      <4> SUFFICES ASSUME NEW x \in 1..Len(recs), NEW y \in 1..Len(recs),
                          x < y, recs[x] = t.rec, recs[y] = left[k]
                   PROVE  FALSE
        OBVIOUS
      <4>1. IsOf(lines[l], recs[x]) /\ IsOf(lines[1], recs[y])
        BY <3>1, <3>2
      <4>2. l < 1
        BY <4>1, <1>1, <1>2
      <4> QED BY <4>2, <1>1
    <3>4. recs[j] = t.rec
      <4>1. recs[j].id \notin StaleIds(recs) /\ recs[j].text = lines[1].text
        BY <2>1, <3>1
      <4>2. recs[j] = t.rec \/ \E x, y \in 1..Len(recs) : x < y /\ recs[x] = t.rec /\ recs[y] = recs[j]
        BY <4>1, <2>3 DEF TakenSound
      <4> QED BY <4>2, <3>1, <3>3
    <3>5. i < j \/ j < i
      BY <3>1, <1>3
    <3> QED BY <3>1, <3>3, <3>4, <3>5
  <2> QED BY <2>2, <2>3
<1>5. ASSUME NEW k \in 1..Len(left) PROVE \E l \in 1..Len(rest) : IsOf(rest[l], left[k])
  <2>1. PICK l \in 1..n : IsOf(lines[l], left[k])
    BY <1>2, <1>3
  <2>2. l # 1
    BY <2>1, <1>4
  <2>3. l - 1 \in 1..Len(rest) /\ (l - 1) + 1 = l
    BY <2>2, <1>1
  <2>4. rest[l - 1] = lines[l]
    BY <2>3, <1>1
  <2> QED BY <2>1, <2>3, <2>4
<1>6. ASSUME NEW i \in 1..Len(left), NEW j \in 1..Len(left), NEW k \in 1..Len(rest), NEW l \in 1..Len(rest),
             i < j, IsOf(rest[k], left[i]), IsOf(rest[l], left[j])
      PROVE  k < l
  <2>1. PICK x, y \in 1..Len(recs) : x < y /\ left[i] = recs[x] /\ left[j] = recs[y]
    BY <1>3, <1>6
  <2>2. IsOf(lines[k + 1], recs[x]) /\ IsOf(lines[l + 1], recs[y]) /\ k + 1 \in 1..n /\ l + 1 \in 1..n
    BY <2>1, <1>1, <1>6
  <2>3. k + 1 < l + 1
    <3>1. \A a, c \in 1..Len(recs) : \A d, e \in 1..n :
            a < c /\ IsOf(lines[d], recs[a]) /\ IsOf(lines[e], recs[c]) => d < e
      BY <1>2
    <3>2. x < y /\ IsOf(lines[k + 1], recs[x]) /\ IsOf(lines[l + 1], recs[y])
      BY <2>1, <2>2
    <3> QED BY <2>2, <3>1, <3>2
  <2> QED BY <2>3, <1>1
<1>7. \A k, l \in 1..Len(rest) : k < l /\ rest[k].id = rest[l].id => rest[k].part < rest[l].part
  <2>1. \A k, l \in 1..n : k < l /\ lines[k].id = lines[l].id => lines[k].part < lines[l].part
    BY <1>2
  <2> SUFFICES ASSUME NEW k \in 1..Len(rest), NEW l \in 1..Len(rest), k < l, rest[k].id = rest[l].id
               PROVE  rest[k].part < rest[l].part
    OBVIOUS
  <2>2. k + 1 \in 1..n /\ l + 1 \in 1..n /\ k + 1 < l + 1 /\ lines[k + 1] = rest[k] /\ lines[l + 1] = rest[l]
    BY <1>1
  <2> QED BY <2>1, <2>2
<1>8. /\ \A i \in 1..Len(left) : left[i].text[3] = left[i].part
      /\ \A k \in 1..Len(rest) : rest[k].text[3] = rest[k].part
  <2>1. /\ \A i \in 1..Len(recs) : recs[i].text[3] = recs[i].part
        /\ \A k \in 1..n : lines[k].text[3] = lines[k].part
    BY <1>2
  <2>2. ASSUME NEW i \in 1..Len(left) PROVE left[i].text[3] = left[i].part
    <3>1. PICK j \in 1..Len(recs) : left[i] = recs[j]
      BY <1>3
    <3>2. recs[j].text[3] = recs[j].part
      BY <2>1
    <3> QED BY <3>1, <3>2
  <2>3. \A k \in 1..Len(rest) : rest[k].text[3] = rest[k].part
    BY <2>1, <1>1
  <2> QED BY <2>2, <2>3
<1>9. \A i, j \in 1..Len(left) : left[i].id = left[j].id /\ left[i].last => left[j].part <= left[i].part
  <2> SUFFICES ASSUME NEW i \in 1..Len(left), NEW j \in 1..Len(left),
                      left[i].id = left[j].id, left[i].last
               PROVE  left[j].part <= left[i].part
    OBVIOUS
  <2>1. \A k, l \in 1..Len(recs) : recs[k].id = recs[l].id /\ recs[k].last => recs[l].part <= recs[k].part
    BY <1>2
  <2>2. PICK k \in 1..Len(recs) : left[i] = recs[k]
    BY <1>3
  <2>3. PICK l \in 1..Len(recs) : left[j] = recs[l]
    BY <1>3
  <2> QED BY <2>1, <2>2, <2>3
<1>10. InStep(left, rest)
  BY <1>5, <1>6, <1>7, <1>8, <1>9 DEF InStep
<1>11. ASSUME t.found, t.rec.last, t.rec.id = lines[1].id, NEW k \in 1..Len(left), left[k].id = t.rec.id
       PROVE  FALSE
  <2>1. PICK i \in 1..Len(recs) : recs[i] = t.rec
    BY <1>11 DEF TakenSound
  <2>2. PICK j \in 1..Len(recs) : recs[j] = left[k]
    BY <1>3
  <2>3. left[k].part <= t.rec.part
    <3>1. \A x, y \in 1..Len(recs) : recs[x].id = recs[y].id /\ recs[x].last => recs[y].part <= recs[x].part
      BY <1>2
    <3>2. recs[i].id = recs[j].id /\ recs[i].last
      BY <2>1, <2>2, <1>11
    <3>3. recs[j].part <= recs[i].part
      BY <3>1, <3>2
    <3> QED BY <3>3, <2>1, <2>2
  <2>4. t.rec.part = lines[1].part
    <3>1. t.rec.text = lines[1].text /\ t.rec.text[3] = t.rec.part
      BY <2>1, <1>2, <1>11 DEF TakenSound
    <3>2. lines[1].text[3] = lines[1].part
      BY <1>1, <1>2
    <3> QED BY <3>1, <3>2
  <2>5. PICK l \in 1..Len(rest) : IsOf(rest[l], left[k])
    BY <1>5
  <2>6. l + 1 \in 1..n /\ 1 < l + 1 /\ lines[l + 1] = rest[l]
    BY <1>1
  <2>7. lines[1].id = lines[l + 1].id /\ lines[l + 1].part = left[k].part
    BY <2>5, <2>6, <1>11 DEF IsOf
  <2>8. lines[1].part < lines[l + 1].part
    BY <2>6, <2>7, <1>1, <1>2
  <2>9. lines[1].part \in Nat /\ left[k].part \in Nat
    <3>1. lines[1] \in Line
      BY <1>1 DEF n
    <3>2. left[k] \in Record
      BY <1>3
    <3>3. lines[1].part \in Nat
      BY <3>1 DEF Line
    <3>4. left[k].part \in Nat
      BY <3>2 DEF Record
    <3> QED BY <3>3, <3>4
  <2>10. left[k].part <= lines[1].part /\ lines[1].part < left[k].part
    BY <2>3, <2>4, <2>7, <2>8, Zenon
  <2> QED BY <2>9, <2>10, NotBoth
<1> QED BY <1>10, <1>11 DEF rest

\* The places after the expired records have gone.
Fresh == {p \in Places(queue) : ~(p.kind = "reserved" /\ p.id \in StaleIds(records))}

\* A handler of one reflected line.
TakesLine(b, filled) ==
  LET line == Head(reflecting)
      taken == Taken(records, line.text)
  IN  /\ reflecting # <<>> /\ reflecting' = Tail(reflecting) /\ records' = taken.left
      /\ UNCHANGED <<open, lane, atShrinker, timedOut, session>>
      /\ Finish(b, filled) /\ nextId' \in Nat /\ nextId' >= nextId
      /\ Sound(b, Seen \cup (nextId..(nextId' - 1)), unplaced, {})
      /\ Places(b.q) \subseteq Fresh
      /\ \/ filled = {}
         \/ taken.found /\ taken.rec.last /\ filled = {taken.rec.id} \cap {line.id}
      /\ taken.found /\ taken.rec.last => taken.rec.id \notin Reservations(b.q)

LEMMA KnownGrows ==
  ASSUME NEW n \in Nat, NEW m \in Nat, m >= n
  PROVE  0..(n - 1) \subseteq 0..(m - 1)
OBVIOUS

\* The row of the line was due, and is not when the line is off the wire.
LEMMA LineComes ==
  ASSUME RoutingInv, reflecting # <<>>, reflecting' = Tail(reflecting),
         UNCHANGED <<lane, atShrinker>>, nextId' \in Nat, nextId' >= nextId,
         NEW row, row.src = Head(reflecting).id, row.part = Head(reflecting).part
  PROVE  Comes({row})
<1> DEFINE line == Head(reflecting)
<1>1. /\ reflecting \in Seq(Line) /\ nextId \in Nat /\ LineIds \subseteq Known /\ Apart
      /\ \A k, l \in 1..Len(reflecting) :
           k < l /\ reflecting[k].id = reflecting[l].id => reflecting[k].part < reflecting[l].part
  BY InvFacts DEF RoutingInv, Shapes, InStep
<1>2. /\ line = reflecting[1] /\ 1 \in 1..Len(reflecting) /\ line \in Line
      /\ \A k \in 1..Len(reflecting') :
           k + 1 \in 1..Len(reflecting) /\ 1 < k + 1 /\ reflecting'[k] = reflecting[k + 1]
  BY <1>1
<1> HIDE DEF line
<1>3. row.src = line.id /\ row.part = line.part
  BY DEF line
<1>4. line.id \in LineIds /\ line.part \in Nat \ {0}
  BY <1>2 DEF LineIds, Line
<1>5. Due(row)
  BY <1>2, <1>3 DEF Due
<1>6. ~Due(row)'
  <2>1. line.id \notin atShrinker \cup LaneIds
    BY <1>1, <1>4 DEF Apart
  <2>2. Known \subseteq Known'
    <3>1. nextId \in Nat /\ nextId' \in Nat /\ nextId' >= nextId
      BY <1>1
    <3>2. 0..(nextId - 1) \subseteq 0..(nextId' - 1)
      BY <3>1, KnownGrows
    <3> QED BY <3>2 DEF Known
  <2>3. line.id \in Known' /\ LaneIds' = LaneIds
    BY <2>2, <1>1, <1>4 DEF LaneIds
  <2>4. ASSUME NEW k \in 1..Len(reflecting'), line.id = reflecting'[k].id, line.part = reflecting'[k].part
        PROVE  FALSE
    <3>1. reflecting[1].part < reflecting[k + 1].part /\ reflecting[1].part = reflecting[k + 1].part
      BY <2>4, <1>1, <1>2
    <3> QED BY <3>1, <1>2, <1>4
  <2> QED BY <2>1, <2>3, <2>4, <1>3 DEF Due
<1>7. row.part # 0
  BY <1>3, <1>4
<1> QED BY <1>5, <1>6, <1>7 DEF Comes

\* A reflected line is taken off the wire, and its record with it.
LEMMA TakesLineKeeps ==
  ASSUME RoutingInv, NEW b, NEW filled, TakesLine(b, filled), NEW rows, Feeds(b, rows)
  PROVE  RoutingInv' /\ Stepped
<1> DEFINE line == Head(reflecting)
           t == Taken(records, line.text)
           new == nextId..(nextId' - 1)
           places == Reservations(queue) \ filled
<1>1. /\ reflecting # <<>> /\ reflecting' = Tail(reflecting) /\ records' = t.left
      /\ UNCHANGED <<open, lane, atShrinker, timedOut, session>>
      /\ Finish(b, filled) /\ nextId' \in Nat /\ nextId' >= nextId
      /\ Sound(b, Seen \cup (nextId..(nextId' - 1)), unplaced, {})
      /\ Places(b.q) \subseteq Fresh
      /\ (filled = {} \/ (t.found /\ t.rec.last /\ filled = {t.rec.id} \cap {line.id}))
      /\ (t.found /\ t.rec.last => t.rec.id \notin Reservations(b.q))
  BY DEF TakesLine
<1>2. /\ Shapes /\ PlacesOwned /\ Owned \subseteq Reservations(queue) \cup unplaced
      /\ Reservations(queue) \subseteq Owned /\ Apart /\ nextId \in Nat
      /\ Known = {x \in Nat : x < nextId} /\ Seen \subseteq Known /\ QueueOK(queue)
      /\ Reservations(queue) \subseteq Seen /\ LineIds \subseteq Known /\ Now.q = queue
  BY InvFacts
<1>3. records \in Seq(Record) /\ reflecting \in Seq(Line) /\ InStep(records, reflecting)
      /\ LastKept(records, Reservations(queue))
  BY DEF RoutingInv, Shapes
<1>4. line = reflecting[1] /\ line.id \in LineIds /\ reflecting' \in Seq(Line) /\ LineIds' \subseteq LineIds
      /\ LinesGo({})
  <2>1. /\ line = reflecting[1] /\ 1 \in 1..Len(reflecting) /\ reflecting' \in Seq(Line)
        /\ \A k \in 1..Len(reflecting') : k + 1 \in 1..Len(reflecting) /\ reflecting'[k] = reflecting[k + 1]
    BY <1>1, <1>3
  <2> QED BY <2>1 DEF LineIds, LinesGo
<1> HIDE DEF line
<1>5. TakenSound(t, records, line.text) /\ t.found \in BOOLEAN
  BY <1>3, TakenFacts
<1> HIDE DEF t
<1>6. /\ InStep(records, reflecting)'
      /\ t.found /\ t.rec.last /\ t.rec.id = line.id => \A k \in 1..Len(t.left) : t.left[k].id # t.rec.id
  <2>1. TakenSound(t, records, reflecting[1].text)
    BY <1>4, <1>5
  <2>2. /\ InStep(t.left, Tail(reflecting))
        /\ t.found /\ t.rec.last /\ t.rec.id = reflecting[1].id => \A k \in 1..Len(t.left) : t.left[k].id # t.rec.id
    BY <1>1, <1>3, <2>1, InStepTaken
  <2>3. /\ records' = t.left /\ reflecting' = Tail(reflecting)
        /\ (t.found /\ t.rec.last /\ t.rec.id = line.id => \A k \in 1..Len(t.left) : t.left[k].id # t.rec.id)
    BY <2>2, <1>1, <1>4
  <2> QED BY <2>2, <2>3, Zenon
<1>7. /\ t.left \in Seq(Record) /\ \A k \in 1..Len(t.left) : \E i \in 1..Len(records) : t.left[k] = records[i]
  BY <1>5 DEF TakenSound, Among
<1>8. RecordIds(records') \subseteq RecordIds(records)
  BY <1>1, <1>7 DEF RecordIds
<1>9. /\ Reservations(b.q) \subseteq Reservations(queue) /\ Reservations(b.q) \cap StaleIds(records) = {}
  <2>1. QueueOK(b.q)
    BY <1>1, SoundParts
  <2>2. Reservations(b.q) = {p.id : p \in {o \in Places(b.q) : o.kind = "reserved"}}
    BY <2>1, PlaceFacts
  <2>3. Reservations(b.q) \cap StaleIds(records) = {}
    BY <2>2, <1>1 DEF Fresh
  <2>4. Places(b.q) \subseteq Places(queue)
    BY <1>1 DEF Fresh
  <2> QED BY <2>1, <2>3, <2>4, <1>2, CarriedReservations
\* A record whose place is still there is left, with the last of its message.
<1>10. ASSUME NEW id \in Reservations(b.q), NEW i \in 1..Len(records), records[i].id = id
       PROVE  \E k \in 1..Len(t.left) : t.left[k].id = id /\ t.left[k].last
  <2>1. PICK j \in 1..Len(records) : records[j].id = id /\ records[j].last
    BY <1>3, <1>9, <1>10 DEF LastKept
  <2>2. records[j].id \notin StaleIds(records)
    BY <2>1, <1>9
  <2>3. CASE ~t.found
    BY <2>1, <2>2, <2>3, <1>5 DEF TakenSound
  <2>4. CASE t.found
    <3>1. records[j] # t.rec
      BY <2>1, <2>4, <1>1
    <3>2. \E k \in 1..Len(t.left) : t.left[k] = records[j]
      BY <3>1, <2>2, <2>4, <1>5 DEF TakenSound
    <3> QED BY <3>2, <2>1
  <2> QED BY <2>3, <2>4
<1>11. new \cap Known = {} /\ Known \subseteq 0..(nextId' - 1)
  BY <1>1, <1>2
<1>12. MayClose(b, places) /\ Close(b, places)
  <2>1. new \cap places = {}
    BY <1>2, <1>11
  <2>2. \A p \in Places(b.q) : p \in Places(queue)
    BY <1>1 DEF Fresh
  <2> QED BY <2>1, <2>2, <1>1 DEF MayClose, Finish
<1>13. Owned' = atShrinker \cup LaneIds \cup RecordIds(records') /\ LaneIds' = LaneIds
  BY <1>1 DEF Owned, LaneIds
<1>14. filled \cap Owned' = {}
  <2> SUFFICES ASSUME t.found, t.rec.last, filled = {t.rec.id} \cap {line.id}, NEW id \in filled, id \in Owned'
               PROVE  FALSE
    BY <1>1
  <2>1. id = t.rec.id /\ id = line.id
    OBVIOUS
  <2>2. id \notin atShrinker \cup LaneIds
    BY <2>1, <1>2, <1>4 DEF Apart
  <2>3. id \in RecordIds(records')
    BY <2>2, <1>13
  <2> QED BY <2>1, <2>3, <1>1, <1>6 DEF RecordIds
<1>15. Owned' \subseteq unplaced \cup places
  <2>1. Owned' \subseteq Owned
    BY <1>8, <1>13 DEF Owned
  <2> QED BY <2>1, <1>2, <1>14
<1>16. Reservations(b.q) \subseteq Owned'
  <2> SUFFICES ASSUME NEW id \in Reservations(b.q) PROVE id \in Owned'
    OBVIOUS
  <2>1. id \in Owned
    BY <1>2, <1>9
  <2>2. CASE id \in RecordIds(records)
    <3>1. \E k \in 1..Len(t.left) : t.left[k].id = id
      BY <2>2, <1>10 DEF RecordIds
    <3> QED BY <3>1, <1>1, <1>13 DEF RecordIds
  <2> QED BY <2>1, <2>2, <1>13 DEF Owned
<1>17. LastKept(records', Reservations(b.q))
  <2> SUFFICES ASSUME NEW i \in 1..Len(t.left), t.left[i].id \in Reservations(b.q)
               PROVE  \E j \in 1..Len(t.left) : t.left[j].id = t.left[i].id /\ t.left[j].last
    BY <1>1 DEF LastKept
  <2>1. PICK x \in 1..Len(records) : t.left[i] = records[x]
    BY <1>7
  <2> QED BY <2>1, <1>10
<1>18. Apart'
  <2>1. \A i, j \in 1..Len(lane) : i # j => lane[i].id # lane[j].id
    BY <1>2 DEF Apart
  <2>2. LaneIds \cap LineIds' = {} /\ atShrinker \cap (LaneIds \cup LineIds') = {}
    BY <1>2, <1>4 DEF Apart
  <2>3. atShrinker' = atShrinker /\ lane' = lane
    BY <1>1
  <2> QED BY <2>1, <2>2, <2>3, <1>13 DEF Apart
<1>19. LaneAges'
  <2>1. Places(queue') = Places(b.q)
    BY <1>2, <1>12, CloseFacts DEF Closed
  <2>2. Places(queue') \subseteq Places(queue)
    BY <2>1, <1>1 DEF Fresh
  <2>3. LaneAges /\ lane' = lane /\ timedOut' = timedOut
    BY <1>1 DEF RoutingInv
  <2> QED BY <2>2, <2>3 DEF LaneAges
<1>20. RecordIds(records') \cap timedOut' = {}
  <2>1. RecordIds(records) \cap timedOut = {}
    BY DEF RoutingInv, NothingLeftBehind, NoStaleRecord, RecordIds
  <2> QED BY <2>1, <1>1, <1>8
<1>21. timedOut' \cup LineIds' \subseteq 0..(nextId' - 1)
  BY <1>1, <1>2, <1>4, <1>11 DEF Shapes
<1>22. open' \in BOOLEAN /\ session' \in Sessions /\ lane' \in Seq(Send) /\ records' \in Seq(Record)
  BY <1>1, <1>2, <1>7 DEF Shapes
<1>23. Keeps(b, places)
  BY <1>4, <1>6, <1>15, <1>16, <1>17, <1>18, <1>19, <1>20, <1>21, <1>22 DEF Keeps
<1>24. FeedsRows(b, rows)
  <2>1. Known \subseteq Known'
    BY <1>11 DEF Known
  <2>2. DueLess
    BY <2>1, <1>1, <1>4, <1>13, LessDue DEF LinesGo
  <2> QED BY <2>2, <1>1 DEF FeedsRows, Opens
<1> QED BY <1>12, <1>23, <1>24, HandlerKeeps

\* The expired records have gone, and their places.
LEMMA BaseSound ==
  ASSUME RoutingInv
  PROVE  LET base == AbandonReflections(Now, SetToSeq(StaleIds(records)))
         IN  Sound(base, Seen, unplaced, {}) /\ Places(base.q) = Fresh /\ Carried(base, Now)
<1>1. /\ Now.q = queue /\ Sound(Now, Seen, unplaced, {}) /\ Seen \in SUBSET Nat
  BY InvFacts
<1>2. StaleIds(records) \in SUBSET Nat /\ IsFiniteSet(StaleIds(records))
  <2>1. records \in Seq(Record)
    BY DEF RoutingInv, Shapes
  <2>2. StaleIds(records) \in SUBSET RecordIds(records)
    BY DEF StaleIds, RecordIds
  <2> QED BY <2>1, <2>2, RecordIdsFinite
<1> QED BY <1>1, <1>2, AbandonIdsSound DEF Fresh

\* What the record of a line says.
LEMMA TakenRecord ==
  ASSUME RoutingInv, NEW text, Taken(records, text).found
  PROVE  LET rec == Taken(records, text).rec
         IN  /\ rec.id \in Owned /\ rec.id \in Seen /\ rec.id \in Nat /\ rec.last \in BOOLEAN
             /\ rec.id \notin StaleIds(records)
<1> DEFINE t == Taken(records, text)
<1>1. records \in Seq(Record)
  BY DEF RoutingInv, Shapes
<1>2. TakenSound(t, records, text)
  BY <1>1, TakenFacts
<1> HIDE DEF t
<1>3. t.found
  BY DEF t
<1>4. t.rec.id \notin StaleIds(records) /\ t.rec \in Record /\ \E i \in 1..Len(records) : records[i] = t.rec
  BY <1>2, <1>3 DEF TakenSound
<1>5. t.rec.id \in Owned
  BY <1>4 DEF Owned, RecordIds
<1> QED BY <1>4, <1>5, OwnerPlaces DEF t, Record

\* A reflected line that nobody gets to see.
LEMMA ReflectSuppressedKeeps ==
  ASSUME RoutingInv, ReflectSuppressed
  PROVE  RoutingInv' /\ Stepped
<1> DEFINE t == Taken(records, Head(reflecting).text)
           base == AbandonReflections(Now, SetToSeq(StaleIds(records)))
           b == IF t.found THEN ReleaseEchoSlotAndDrain(base, t.rec.id) ELSE base
<1>1. /\ reflecting # <<>> /\ reflecting' = Tail(reflecting) /\ records' = t.left
      /\ UNCHANGED <<open, lane, atShrinker, timedOut, session>> /\ Finish(b, {}) /\ nextId' = nextId
  BY DEF ReflectSuppressed
<1>2. Sound(base, Seen, unplaced, {}) /\ Places(base.q) = Fresh /\ Carried(base, Now)
  BY BaseSound
<1>3. Seen \in SUBSET Nat
  BY InvFacts
<1>4. t.found => t.rec.id \in Nat
  BY TakenRecord
<1> HIDE DEF base, t
<1>5. /\ Sound(b, Seen, unplaced, {}) /\ Places(b.q) \subseteq Fresh /\ (t.found => t.rec.id \notin Reservations(b.q))
      /\ Carried(b, Now)
  <2>1. CASE t.found
    <3> DEFINE d == ReleaseEchoSlotAndDrain(base, t.rec.id)
    <3>1. t.rec.id \in Nat
      BY <2>1, <1>4
    <3>2. /\ Sound(d, Seen, unplaced, {})
          /\ Places(d.q) = {p \in Places(base.q) : ~(p.id = t.rec.id /\ p.kind = "reserved")}
          /\ Carried(d, base)
      BY <3>1, <1>2, <1>3, ReleaseAndDrainSound
    <3> HIDE DEF d
    <3>3. t.rec.id \notin Reservations(d.q)
      <4>1. QueueOK(d.q)
        BY <3>2, SoundParts
      <4> QED BY <4>1, <3>2, NoReservation
    <3>4. b = d
      BY <2>1 DEF d
    <3> HIDE DEF b
    <3>5. Carried(d, Now)
      BY <3>2, <1>2, CarriedTwice
    <3> QED BY <3>2, <3>3, <3>4, <3>5, <1>2
  <2>2. CASE ~t.found
    BY <2>2, <1>2
  <2> QED BY <2>1, <2>2
<1>6. /\ nextId' \in Nat /\ nextId' >= nextId /\ Seen \cup (nextId..(nextId' - 1)) = Seen
  BY <1>1, NoId
<1> HIDE DEF b
<1>7. TakesLine(b, {})
  BY <1>1, <1>5, <1>6 DEF TakesLine, t
<1>8. Feeds(b, {})
  <2>1. Added(b, Now, {})
    BY <1>5, AddedOf
  <2> QED BY <2>1, <1>1, NoneComes DEF Feeds
<1> QED BY <1>7, <1>8, TakesLineKeeps

\* ... and with a record that has not expired, its row may be placed.
LEMMA FreshPlaces ==
  ASSUME RoutingInv, NEW base, Sound(base, Seen, unplaced, {}), Places(base.q) = Fresh,
         NEW id \in Owned, id \notin StaleIds(records)
  PROVE  MayPlace(base, id, unplaced)
<1>1. Now.q = queue /\ QueueOK(queue)
  BY InvFacts
<1>2. MayPlace(Now, id, unplaced)
  BY OwnerPlaces
<1>3. \A p \in Places(base.q) : p \in Places(queue)
  BY DEF Fresh
<1>4. id \in Reservations(queue) => id \in Reservations(base.q)
  <2>1. QueueOK(base.q)
    BY SoundParts
  <2> QED BY <2>1, <1>1, PlaceFacts DEF Fresh
<1> QED BY <1>1, <1>2, <1>3, <1>4 DEF MayPlace

\* A reflected line that is shown.
LEMMA ReflectKeeps ==
  ASSUME RoutingInv, Reflect
  PROVE  RoutingInv' /\ Stepped
<1> DEFINE line == Head(reflecting)
           t == Taken(records, line.text)
           base == AbandonReflections(Now, SetToSeq(StaleIds(records)))
           row == OwnRow(IF t.found THEN t.rec.id ELSE nextId, line.id, line.part)
<1>1. /\ reflecting # <<>> /\ reflecting' = Tail(reflecting) /\ records' = t.left
      /\ UNCHANGED <<open, lane, atShrinker, timedOut, session>>
  BY DEF Reflect
<1>2. Sound(base, Seen, unplaced, {}) /\ Places(base.q) = Fresh /\ Carried(base, Now)
  BY BaseSound
<1>3. /\ Seen \in SUBSET Nat /\ QueueOK(queue) /\ nextId \in Nat /\ Now.q = queue
  BY InvFacts
<1>4. line.id \in Nat /\ line.part \in Nat
  <2>1. reflecting \in Seq(Line)
    BY DEF RoutingInv, Shapes
  <2>2. line \in Line
    BY <2>1, <1>1
  <2> QED BY <2>2 DEF Line
<1>4a. nextId' \in Nat /\ nextId' >= nextId => Comes({row})
  <2>1. row.src = line.id /\ row.part = line.part
    BY DEF OwnRow
  <2> HIDE DEF row
  <2> QED BY <2>1, <1>1, LineComes
<1>5. CASE t.found
  <2> DEFINE key == t.rec.id
  <2>1. nextId' = nextId
    BY <1>5 DEF Reflect
  <2>2. /\ nextId' \in Nat /\ nextId' >= nextId /\ Seen \cup (nextId..(nextId' - 1)) = Seen
    BY <2>1, NoId
  <2>3. /\ key \in Owned /\ key \in Seen /\ key \in Nat /\ t.rec.last \in BOOLEAN
        /\ key \notin StaleIds(records)
    BY <1>5, TakenRecord
  <2>4. row \in AnyRow /\ row.key = key
    BY <1>4, <1>5, <2>3 DEF OwnRow, AnyRow
  <2>7. MayPlace(base, key, unplaced)
    BY <1>2, <2>3, FreshPlaces
  <2>5. CASE t.rec.last
    <3> DEFINE b == AddOwnMessageChunks(base, key, <<row>>)
    <3>1. Finish(b, {key} \cap {line.id})
      BY <1>5, <2>5 DEF Reflect
    <3> HIDE DEF base, t, row, key
    <3>3. <<row>> \in Seq(AnyRow) /\ \A k \in 1..Len(<<row>>) : <<row>>[k].key = key
      BY <2>4
    <3>4. /\ Sound(b, Seen, unplaced, {}) /\ Places(b.q) \subseteq Places(base.q)
          /\ (\A p \in Places(b.q) : p.id # key) /\ Gained(b, base, {row})
      <4> DEFINE rows == <<row>>
      <4>1. /\ rows \in Seq(AnyRow) /\ (\A k \in 1..Len(rows) : rows[k].key = key)
            /\ NoTwice(rows) /\ {rows[k] : k \in 1..Len(rows)} = {row}
        <5>1. Len(rows) = 1 /\ rows[1] = row
          OBVIOUS
        <5> QED BY <5>1, <3>3 DEF NoTwice
      <4> DEFINE c == AddOwnMessageChunks(base, key, rows)
      <4>2. b = c
        OBVIOUS
      <4> HIDE DEF b, rows
      <4>3. /\ Sound(base, Seen, unplaced, {}) /\ Seen \in SUBSET Nat /\ key \in Seen
            /\ MayPlace(base, key, unplaced) /\ rows \in Seq(AnyRow)
            /\ (\A k \in 1..Len(rows) : rows[k].key = key) /\ NoTwice(rows)
        BY <1>2, <1>3, <2>3, <2>7, <4>1
      <4>4. /\ Sound(c, Seen, unplaced, {}) /\ Gained(c, base, {rows[k] : k \in 1..Len(rows)})
            /\ \A p \in Places(c.q) : p.id # key
        <5>1. OwnAdded(c, base, Seen, unplaced, key, rows)
          BY <4>3, AddOwnSound
        <5> HIDE DEF c
        <5> QED BY <5>1, Zenon DEF OwnAdded
      <4> HIDE DEF c
      <4>5. Gained(b, base, {row})
        BY <4>1, <4>2, <4>4
      <4> QED BY <4>2, <4>4, <4>5 DEF Gained
    <3> HIDE DEF b
    <3>5. key \notin Reservations(b.q)
      <4>1. QueueOK(b.q)
        BY <3>4, SoundParts
      <4> QED BY <4>1, <3>4, NoReservation
    <3>6. TakesLine(b, {key} \cap {line.id})
      BY <1>1, <1>2, <1>5, <2>2, <2>5, <3>1, <3>4, <3>5 DEF TakesLine, t, key
    <3>7. Feeds(b, {row})
      <4>1. Added(b, Now, {row})
        BY <3>4, <1>2, CarriedGained, AddedOf
      <4> QED BY <4>1, <2>2, <1>4a DEF Feeds
    <3> QED BY <3>6, <3>7, TakesLineKeeps
  <2>6. CASE ~t.rec.last
    <3> DEFINE b == HoldOwnMessageChunk(base, key, row)
    <3>1. Finish(b, {})
      BY <1>5, <2>6 DEF Reflect
    <3> HIDE DEF base, t, row, key
    <3>3. Sound(b, Seen, unplaced, {}) /\ Places(b.q) \subseteq Places(base.q) /\ Gained(b, base, {row})
      <4>1. row.key \in Seen /\ MayPlace(base, row.key, unplaced) /\ b = HoldOwnMessageChunk(base, row.key, row)
        BY <2>3, <2>4, <2>7
      <4> HIDE DEF b
      <4> QED BY <4>1, <1>2, <1>3, <2>4, HoldOwnSound DEF Gained
    <3> HIDE DEF b
    <3>4. TakesLine(b, {})
      BY <1>1, <1>2, <2>2, <2>6, <3>1, <3>3 DEF TakesLine, t
    <3>5. Feeds(b, {row})
      <4>1. Added(b, Now, {row})
        BY <3>3, <1>2, CarriedGained, AddedOf
      <4> QED BY <4>1, <2>2, <1>4a DEF Feeds
    <3> QED BY <3>4, <3>5, TakesLineKeeps
  <2> QED BY <2>5, <2>6
<1>6. CASE ~t.found
  <2> DEFINE b == PushOrDeliver(base, row)
  <2>1. nextId' = nextId + 1 /\ Finish(b, {})
    BY <1>6 DEF Reflect, TakeId
  <2>2. /\ nextId..(nextId' - 1) = {nextId} /\ nextId' \in Nat /\ nextId' >= nextId
        /\ \A id \in Seen : id < nextId
    BY <2>1, OneId
  <2>3. row \in AnyRow /\ row.key = nextId
    BY <1>3, <1>4, <1>6 DEF OwnRow, AnyRow
  <2> HIDE DEF base, t, row
  <2>4. /\ Sound(b, Seen \cup {nextId}, unplaced, {}) /\ Places(b.q) \subseteq Places(base.q)
        /\ Gained(b, base, {row})
    <3>1. \A id \in Seen : id < row.key
      BY <2>2, <2>3
    <3> QED BY <3>1, <1>2, <1>3, <2>3, PushOrDeliverSound DEF Gained
  <2> HIDE DEF b
  <2>5. TakesLine(b, {})
    BY <1>1, <1>2, <1>6, <2>1, <2>2, <2>4 DEF TakesLine, t
  <2>6. Feeds(b, {row})
    <3>1. Added(b, Now, {row})
      BY <2>4, <1>2, CarriedGained, AddedOf
    <3> QED BY <3>1, <2>2, <1>4a DEF Feeds
  <2> QED BY <2>5, <2>6, TakesLineKeeps
<1> QED BY <1>5, <1>6

\* Fewer records stay in step.
LEMMA InStepAmong ==
  ASSUME NEW recs \in Seq(Record), NEW lines \in Seq(Line), InStep(recs, lines),
         NEW r \in Seq(Record), Among(r, recs)
  PROVE  InStep(r, lines)
<1>1. /\ \A i \in 1..Len(recs) : recs[i].text[3] = recs[i].part
      /\ \A k \in 1..Len(lines) : lines[k].text[3] = lines[k].part
      /\ \A k, l \in 1..Len(lines) : k < l /\ lines[k].id = lines[l].id => lines[k].part < lines[l].part
      /\ \A i \in 1..Len(recs) : \E k \in 1..Len(lines) : IsOf(lines[k], recs[i])
      /\ \A i, j \in 1..Len(recs) : \A k, l \in 1..Len(lines) :
           i < j /\ IsOf(lines[k], recs[i]) /\ IsOf(lines[l], recs[j]) => k < l
      /\ \A i, j \in 1..Len(recs) : recs[i].id = recs[j].id /\ recs[i].last => recs[j].part <= recs[i].part
  BY DEF InStep
<1>2. \A k \in 1..Len(r) : \E i \in 1..Len(recs) : r[k] = recs[i]
  BY DEF Among
<1>3. \A k, l \in 1..Len(r) : k < l => \E i, j \in 1..Len(recs) : i < j /\ r[k] = recs[i] /\ r[l] = recs[j]
  BY DEF Among
<1>4. ASSUME NEW i \in 1..Len(r), NEW j \in 1..Len(r), NEW k \in 1..Len(lines), NEW l \in 1..Len(lines),
             i < j, IsOf(lines[k], r[i]), IsOf(lines[l], r[j])
      PROVE  k < l
  <2>1. PICK x, y \in 1..Len(recs) : x < y /\ r[i] = recs[x] /\ r[j] = recs[y]
    BY <1>3, <1>4
  <2>2. IsOf(lines[k], recs[x]) /\ IsOf(lines[l], recs[y])
    BY <2>1, <1>4
  <2> QED BY <2>1, <2>2, <1>1
<1>5. ASSUME NEW i \in 1..Len(r)
      PROVE  r[i].text[3] = r[i].part /\ \E k \in 1..Len(lines) : IsOf(lines[k], r[i])
  <2>1. PICK x \in 1..Len(recs) : r[i] = recs[x]
    BY <1>2
  <2>2. recs[x].text[3] = recs[x].part /\ \E k \in 1..Len(lines) : IsOf(lines[k], recs[x])
    BY <1>1
  <2> QED BY <2>1, <2>2
<1>6. \A i, j \in 1..Len(r) : r[i].id = r[j].id /\ r[i].last => r[j].part <= r[i].part
  <2>1. \A i, j \in 1..Len(recs) : recs[i].id = recs[j].id /\ recs[i].last => recs[j].part <= recs[i].part
    BY <1>1
  <2>2. ASSUME NEW i \in 1..Len(r), NEW j \in 1..Len(r), r[i].id = r[j].id, r[i].last
        PROVE  r[j].part <= r[i].part
    <3>1. PICK x \in 1..Len(recs) : r[i] = recs[x]
      BY <1>2
    <3>2. PICK y \in 1..Len(recs) : r[j] = recs[y]
      BY <1>2
    <3> QED BY <2>1, <2>2, <3>1, <3>2
  <2> QED BY <2>2
<1>7. /\ \A k \in 1..Len(lines) : lines[k].text[3] = lines[k].part
      /\ \A k, l \in 1..Len(lines) : k < l /\ lines[k].id = lines[l].id => lines[k].part < lines[l].part
  BY <1>1
<1> QED BY <1>4, <1>5, <1>6, <1>7 DEF InStep

\* The tick: what timed out is given up and its records are forgotten.
LEMMA TickKeeps ==
  ASSUME RoutingInv, Tick
  PROVE  RoutingInv' /\ Stepped
<1> DEFINE abandoned == AbandonedReservations(queue, Timeout)
           expired == Expire(queue, Timeout)
           forced == EnforceCeiling(expired, MaxQueue)
           c == [Now EXCEPT !.q = forced]
           d == Release(c)
           b == Prune(d)
           places == Reservations(queue)
           left == KeepRecords(records, abandoned)
<1>1. /\ Finish(b, {}) /\ records' = left /\ timedOut' = timedOut \cup abandoned
      /\ UNCHANGED <<open, lane, reflecting, atShrinker, nextId, session>>
  BY DEF Tick
<1>2. /\ Now.q = queue /\ Sound(Now, Seen, unplaced, {}) /\ Seen \in SUBSET Nat /\ QueueOK(queue)
      /\ Shapes /\ Owned \subseteq Reservations(queue) \cup unplaced
      /\ Reservations(queue) \subseteq Owned /\ Apart /\ Seen \subseteq Known
      /\ Reservations(queue) \subseteq Seen /\ LineIds \subseteq Known
      /\ Reservations(queue) = {p.id : p \in {o \in Places(queue) : o.kind = "reserved"}}
  BY InvFacts
<1>3. Timeout \in Nat /\ MaxQueue \in Nat
  BY TimeoutAssumption, MaxQueueAssumption
<1>4. /\ Thinned(expired, queue) /\ \A p \in Places(expired) : p.age < Timeout
      /\ abandoned = {p.id : p \in {o \in Places(queue) : o.kind = "reserved" /\ o.age >= Timeout}}
  BY <1>2, <1>3, ExpireFacts
<1> HIDE DEF expired, abandoned
<1>5. Thinned(forced, expired)
  BY <1>3, <1>4, CeilingFacts DEF Thinned
<1>6. Thinned(forced, queue) /\ Places(forced) \subseteq Places(expired)
  BY <1>4, <1>5, ThinnedTwice DEF Thinned
<1> HIDE DEF forced
<1>7. Sound(c, Seen, unplaced, {}) /\ Places(c.q) = Places(forced) /\ Carried(c, Now)
  <2>1. Thinned(forced, Now.q)
    BY <1>2, <1>6
  <2> QED BY <2>1, <1>2, SoundThinned
<1> HIDE DEF c
<1>8. Sound(d, Seen, unplaced, {}) /\ Places(d.q) = Places(forced) /\ Carried(d, c)
  <2>1. Sound(c, Seen, unplaced, unplaced)
    BY <1>7, SoundWeaker
  <2> QED BY <2>1, <1>2, <1>7, ReleaseSound
<1> HIDE DEF d
<1>9. Sound(b, Seen, unplaced, {}) /\ Places(b.q) = Places(forced) /\ Carried(b, d)
  BY <1>8, PruneSound
<1> HIDE DEF b
<1>10. Places(b.q) \subseteq Places(queue) /\ \A p \in Places(b.q) : p.age < Timeout
  <2>1. Places(forced) \subseteq Places(queue)
    BY <1>6 DEF Thinned
  <2> QED BY <2>1, <1>4, <1>6, <1>9
<1>11. Reservations(b.q) \subseteq Reservations(queue) /\ Reservations(b.q) \cap abandoned = {}
  <2>1. QueueOK(b.q)
    BY <1>9, SoundParts
  <2>2. Reservations(b.q) = {p.id : p \in {o \in Places(b.q) : o.kind = "reserved"}}
    BY <2>1, PlaceFacts
  <2>3. \A p, o \in Places(queue) : p.id = o.id => p = o
    BY <1>2, PlaceFacts
  <2>4. \A p \in Places(queue) : p.age \in Nat
    BY <1>2, PlaceFacts
  <2>5. ASSUME NEW p \in Places(b.q), p.id \in abandoned PROVE FALSE
    <3>1. PICK o \in Places(queue) : o.id = p.id /\ o.age >= Timeout
      BY <2>5, <1>4
    <3>2. p = o
      BY <3>1, <2>3, <1>10
    <3> QED BY <3>1, <3>2, <1>3, <1>10, <2>4
  <2> QED BY <2>2, <2>5, <1>2, <1>10
<1>12. /\ nextId' \in Nat /\ nextId' >= nextId /\ Seen \cup (nextId..(nextId' - 1)) = Seen
       /\ 0..(nextId' - 1) = Known /\ nextId..(nextId' - 1) = {}
  BY <1>1, NoId
<1>13. MayClose(b, places) /\ Close(b, places)
  <2>1. Close(b, places)
    BY <1>1 DEF Finish
  <2> QED BY <2>1, <1>9, <1>10, <1>12 DEF MayClose
<1>14. records \in Seq(Record) /\ reflecting \in Seq(Line) /\ InStep(records, reflecting)
       /\ LastKept(records, Reservations(queue))
  BY DEF RoutingInv, Shapes
<1>15. /\ left \in Seq(Record) /\ Among(left, records)
       /\ \A k \in 1..Len(left) : left[k].id \notin abandoned
       /\ \A i \in 1..Len(records) : records[i].id \notin abandoned => \E k \in 1..Len(left) : left[k] = records[i]
  <2>1. LeftOf(left, records, abandoned)
    BY <1>14, KeptRecords
  <2> HIDE DEF left
  <2> QED BY <2>1 DEF LeftOf
<1> HIDE DEF left
<1>16. RecordIds(left) \subseteq RecordIds(records) /\ RecordIds(left) \cap abandoned = {}
       /\ RecordIds(records) \cap Reservations(b.q) \subseteq RecordIds(left)
  <2>1. \A k \in 1..Len(left) : left[k].id \in RecordIds(records)
    BY <1>15 DEF RecordIds, Among
  <2>2. \A i \in 1..Len(records) : records[i].id \in Reservations(b.q) => records[i].id \in RecordIds(left)
    BY <1>11, <1>15 DEF RecordIds
  <2> QED BY <2>1, <2>2, <1>15 DEF RecordIds
<1>17. Owned' = atShrinker \cup LaneIds \cup RecordIds(left) /\ LaneIds' = LaneIds /\ LineIds' = LineIds
  BY <1>1 DEF Owned, LaneIds, LineIds
<1>18. InStep(records, reflecting)'
  <2>1. InStep(left, reflecting)
    BY <1>14, <1>15, InStepAmong
  <2> QED BY <2>1, <1>1
<1>19. LastKept(left, Reservations(b.q))
  <2> SUFFICES ASSUME NEW i \in 1..Len(left), left[i].id \in Reservations(b.q)
               PROVE  \E j \in 1..Len(left) : left[j].id = left[i].id /\ left[j].last
    BY DEF LastKept
  <2>1. PICK x \in 1..Len(records) : left[i] = records[x]
    BY <1>15 DEF Among
  <2>2. PICK y \in 1..Len(records) : records[y].id = records[x].id /\ records[y].last
    BY <2>1, <1>11, <1>14 DEF LastKept
  <2>3. records[y].id \notin abandoned
    BY <2>1, <2>2, <1>11
  <2> QED BY <2>1, <2>2, <2>3, <1>15
<1>20. abandoned \subseteq Reservations(queue)
  BY <1>2, <1>4
<1>21. LaneAges'
  <2>1. Places(queue') = Places(b.q)
    BY <1>2, <1>13, CloseFacts DEF Closed, RoutingInv
  <2>2. LaneAges /\ lane' = lane
    BY <1>1 DEF RoutingInv
  <2>3. ASSUME NEW i \in 1..Len(lane), lane[i].id \in abandoned PROVE lane[i].age >= Timeout
    <3>1. PICK p \in Places(queue) : p.id = lane[i].id /\ p.age >= Timeout
      BY <2>3, <1>4
    <3>2. p.age = lane[i].age
      BY <3>1, <2>2 DEF LaneAges
    <3> QED BY <3>1, <3>2
  <2> QED BY <2>1, <2>2, <2>3, <1>1, <1>10 DEF LaneAges
<1>22. Apart'
  BY <1>1, <1>2, <1>17 DEF Apart
<1>23. RecordIds(records') \cap timedOut' = {}
  <2>1. RecordIds(records) \cap timedOut = {}
    BY DEF RoutingInv, NothingLeftBehind, NoStaleRecord, RecordIds
  <2> QED BY <2>1, <1>1, <1>16
<1>24. timedOut' \cup LineIds' \subseteq 0..(nextId' - 1)
  <2>1. timedOut \subseteq Known
    BY <1>2 DEF Shapes
  <2> QED BY <2>1, <1>1, <1>2, <1>12, <1>17, <1>20
<1>25. Owned' \subseteq unplaced \cup places
  BY <1>2, <1>16, <1>17 DEF Owned
<1>26. Reservations(b.q) \subseteq Owned'
  BY <1>2, <1>11, <1>16, <1>17 DEF Owned
<1>27. open' \in BOOLEAN /\ session' \in Sessions /\ lane' \in Seq(Send) /\ reflecting' \in Seq(Line)
       /\ records' \in Seq(Record) /\ LastKept(records', Reservations(b.q))
  BY <1>1, <1>2, <1>15, <1>19 DEF Shapes
<1>28. Keeps(b, places)
  BY <1>18, <1>21, <1>22, <1>23, <1>24, <1>25, <1>26, <1>27 DEF Keeps
<1>29. FeedsRows(b, {})
  <2>1. Added(b, Now, {})
    BY <1>7, <1>8, <1>9, CarriedTwice, AddedOf
  <2>2. Comes({})
    BY <1>1, NoneComes
  <2>3. DueLess
    <3>1. Known \subseteq Known' /\ LaneIds' = LaneIds /\ atShrinker' = atShrinker /\ reflecting' = reflecting
      BY <1>1, <1>17 DEF Known
    <3> QED BY <3>1, LessDue
  <2>4. Opens(b)
    BY <1>1, <1>2 DEF Opens, Shapes
  <2> QED BY <2>1, <2>2, <2>3, <2>4 DEF FeedsRows, Feeds
<1> QED BY <1>13, <1>28, <1>29, HandlerKeeps

\* The queue is flushed and the records are forgotten.
Flushes ==
  LET b == FlushTranslateQueue(Now)
  IN  /\ Finish(b, {}) /\ records' = <<>> /\ open' \in BOOLEAN
      /\ UNCHANGED <<atShrinker, nextId, timedOut, session>>
      /\ (reflecting' = reflecting \/ reflecting' = <<>>)
      /\ lane' \in Seq(Send) /\ Len(lane') = Len(lane)
      /\ \A i \in 1..Len(lane) : lane'[i].id = lane[i].id /\ lane'[i].age = lane[i].age

\* A flush keeps the invariant: who had a place has given it up.
LEMMA FlushesKeeps ==
  ASSUME RoutingInv, Flushes
  PROVE  RoutingInv' /\ Stepped
<1> DEFINE b == FlushTranslateQueue(Now)
           places == Reservations(queue)
<1>1. /\ Finish(b, {}) /\ records' = <<>> /\ open' \in BOOLEAN
      /\ UNCHANGED <<atShrinker, nextId, timedOut, session>>
      /\ (reflecting' = reflecting \/ reflecting' = <<>>)
      /\ lane' \in Seq(Send) /\ Len(lane') = Len(lane)
      /\ \A i \in 1..Len(lane) : lane'[i].id = lane[i].id /\ lane'[i].age = lane[i].age
  BY DEF Flushes
<1>2. /\ Sound(Now, Seen, unplaced, {}) /\ Seen \in SUBSET Nat
      /\ Shapes /\ Owned \subseteq Reservations(queue) \cup unplaced
      /\ Apart /\ Seen \subseteq Known /\ LineIds \subseteq Known
  BY InvFacts
<1>3. Sound(b, Seen, unplaced, {}) /\ b.q = <<>> /\ Carried(b, Now)
  BY <1>2, FlushSound
<1> HIDE DEF b
<1>4. Places(b.q) = {} /\ Reservations(b.q) = {}
  BY <1>3, NothingIn DEF Reservations
<1>5. /\ nextId' \in Nat /\ nextId' >= nextId /\ Seen \cup (nextId..(nextId' - 1)) = Seen
      /\ 0..(nextId' - 1) = Known /\ nextId..(nextId' - 1) = {}
  BY <1>1, NoId
<1>6. MayClose(b, places) /\ Close(b, places)
  BY <1>1, <1>3, <1>4, <1>5 DEF MayClose, Finish
<1>7. LaneIds' = LaneIds
  BY <1>1 DEF LaneIds
<1>8. reflecting' \in Seq(Line) /\ LineIds' \subseteq LineIds
  <2>1. CASE reflecting' = reflecting
    BY <2>1, <1>2 DEF LineIds, Shapes
  <2>2. CASE reflecting' = <<>>
    <3>1. reflecting' \in Seq(Line) /\ 1..Len(reflecting') = {}
      BY <2>2
    <3> QED BY <3>1 DEF LineIds
  <2> QED BY <2>1, <2>2, <1>1
<1>9. records' \in Seq(Record) /\ RecordIds(records') = {} /\ LastKept(records', Reservations(b.q))
  <2>1. records' \in Seq(Record) /\ 1..Len(records') = {}
    BY <1>1
  <2> QED BY <2>1 DEF RecordIds, LastKept
<1>10. InStep(records, reflecting)'
  <2>1. records' \in Seq(Record) /\ 1..Len(records') = {}
    BY <1>1
  <2>2. CASE reflecting' = reflecting
    <3>1. InStep(records, reflecting)
      BY DEF RoutingInv
    <3> QED BY <3>1, <2>1, <2>2 DEF InStep
  <2>3. CASE reflecting' = <<>>
    <3>1. 1..Len(reflecting') = {}
      BY <2>3
    <3> QED BY <3>1, <2>1 DEF InStep
  <2> QED BY <2>2, <2>3, <1>1
<1>11. Owned' \subseteq unplaced \cup places
  <2>1. Owned' = atShrinker \cup LaneIds
    BY <1>1, <1>7, <1>9 DEF Owned
  <2> QED BY <2>1, <1>2 DEF Owned
<1>12. Apart'
  BY <1>1, <1>2, <1>7, <1>8 DEF Apart
<1>13. LaneAges'
  <2>1. Places(queue') = {}
    BY <1>2, <1>4, <1>6, CloseFacts DEF Closed, RoutingInv
  <2>2. LaneAges
    BY DEF RoutingInv
  <2> QED BY <2>1, <2>2, <1>1 DEF LaneAges
<1>14. timedOut' \cup LineIds' \subseteq 0..(nextId' - 1) /\ session' \in Sessions
  BY <1>1, <1>2, <1>5, <1>8 DEF Shapes
<1>15. Keeps(b, places)
  BY <1>1, <1>4, <1>8, <1>9, <1>10, <1>11, <1>12, <1>13, <1>14 DEF Keeps
<1>16. FeedsRows(b, {})
  <2>1. Added(b, Now, {})
    BY <1>3, AddedOf
  <2>2. Comes({})
    BY <1>1, NoneComes
  <2>3. DueLess
    <3>1. Known \subseteq Known' /\ LaneIds' = LaneIds /\ atShrinker' = atShrinker
      BY <1>1, <1>7 DEF Known
    <3>2. CASE reflecting' = reflecting
      BY <3>1, <3>2, LessDue
    <3>3. CASE reflecting' = <<>>
      <4>1. 1..Len(reflecting') = {}
        BY <3>3
      <4> QED BY <4>1, <3>1, LessDue
    <3> QED BY <3>2, <3>3, <1>1
  <2>4. Opens(b)
    BY <1>3 DEF Opens
  <2> QED BY <2>1, <2>2, <2>3, <2>4 DEF FeedsRows, Feeds
<1> QED BY <1>6, <1>15, <1>16, HandlerKeeps

\* The buffer is closed.
LEMMA CloseBufferKeeps ==
  ASSUME RoutingInv, CloseBuffer
  PROVE  RoutingInv' /\ Stepped
<1>1. lane \in Seq(Send)
  BY DEF RoutingInv, Shapes
<1>2. Flushes
  BY <1>1 DEF CloseBuffer, Flushes
<1> QED BY <1>2, FlushesKeeps

\* The connection is lost and made anew.
LEMMA DisconnectKeeps ==
  ASSUME RoutingInv, Disconnect
  PROVE  RoutingInv' /\ Stepped
<1>1. lane \in Seq(Send) /\ open \in BOOLEAN
  BY DEF RoutingInv, Shapes
<1>2. lane' = [i \in 1..Len(lane) |-> [lane[i] EXCEPT !.sameSession = FALSE]]
  BY DEF Disconnect
<1>3. ASSUME NEW i \in 1..Len(lane)
      PROVE  /\ [lane[i] EXCEPT !.sameSession = FALSE] \in Send
             /\ [lane[i] EXCEPT !.sameSession = FALSE].id = lane[i].id
             /\ [lane[i] EXCEPT !.sameSession = FALSE].age = lane[i].age
  <2>1. lane[i] \in Send
    BY <1>1
  <2> QED BY <2>1 DEF Send
<1>4. /\ lane' \in Seq(Send) /\ Len(lane') = Len(lane)
      /\ \A i \in 1..Len(lane) : lane'[i].id = lane[i].id /\ lane'[i].age = lane[i].age
  <2>1. Len(lane) \in Nat
    BY <1>1
  <2>2. lane' \in Seq(Send) /\ Len(lane') = Len(lane)
    BY <2>1, <1>2, <1>3
  <2>3. \A i \in 1..Len(lane) : lane'[i] = [lane[i] EXCEPT !.sameSession = FALSE]
    BY <1>2
  <2> QED BY <2>2, <2>3, <1>3
<1>5. Flushes
  BY <1>1, <1>4 DEF Disconnect, Flushes
<1> QED BY <1>5, FlushesKeeps

\* A step of the clock, for whatever has an age.
Aged(age) == IF age < MaxAge THEN age + 1 ELSE age

\* Ages stay natural numbers and do not fall.
LEMMA OlderFacts ==
  ASSUME NEW age \in Nat
  PROVE  Aged(age) \in Nat /\ Aged(age) >= age
BY DEF Aged

\* Entries age together: nothing else about the queue changes.
LEMMA OlderEntries ==
  ASSUME NEW q, QueueOK(q)
  PROVE  LET r == [i \in 1..Len(q) |-> Older(q[i])]
         IN  /\ QueueOK(r) /\ IdsIn(r) = IdsIn(q) /\ Reservations(r) = Reservations(q)
             /\ RowsIn(r) = RowsIn(q) /\ (QueueOnce(q) => QueueOnce(r))
             /\ \A p \in Places(r) : \E o \in Places(q) :
                  p.id = o.id /\ p.kind = o.kind /\ p.age = Aged(o.age)
<1> DEFINE r == [i \in 1..Len(q) |-> Older(q[i])]
<1>1. q \in Seq(Entry) /\ Len(q) \in Nat
  BY DEF QueueOK
<1>2. ASSUME NEW i \in 1..Len(q)
      PROVE  /\ Older(q[i]) \in Entry /\ Older(q[i]).id = q[i].id /\ Older(q[i]).kind = q[i].kind
             /\ Older(q[i]).rows = q[i].rows /\ Older(q[i]).age = Aged(q[i].age)
  <2>1. q[i] \in Entry
    BY <1>1
  <2>2. q[i].age \in Nat /\ Aged(q[i].age) \in Nat
    BY <2>1, OlderFacts DEF Entry
  <2>3. Older(q[i]) = [q[i] EXCEPT !.age = Aged(q[i].age)]
    BY <2>1 DEF Older, Aged, Entry
  <2> QED BY <2>1, <2>2, <2>3 DEF Entry
<1>3. r \in Seq(Entry) /\ Len(r) = Len(q)
  BY <1>1, <1>2
<1>4. \A i \in 1..Len(q) : r[i] = Older(q[i])
  OBVIOUS
<1> HIDE DEF r
<1>5. ASSUME NEW i \in 1..Len(q)
      PROVE  /\ r[i].id = q[i].id /\ r[i].kind = q[i].kind /\ r[i].rows = q[i].rows
             /\ r[i].age = Aged(q[i].age) /\ (IsWaiting(r[i]) <=> IsWaiting(q[i])) /\ Proper(r[i])
  <2>1. /\ r[i].id = q[i].id /\ r[i].kind = q[i].kind /\ r[i].rows = q[i].rows
        /\ r[i].age = Aged(q[i].age)
    BY <1>2, <1>4
  <2>2. Proper(q[i])
    BY DEF QueueOK
  <2> QED BY <2>1, <2>2 DEF Proper, IsWaiting
<1>6. QueueOK(r) /\ IdsIn(r) = IdsIn(q)
  <2>1. \A i \in 1..Len(q) : /\ r[i].id = q[i].id /\ Proper(r[i])
                             /\ IsWaiting(r[i]) => IsWaiting(q[i])
    BY <1>5
  <2> QED BY <2>1, <1>3, PointwiseOK
<1>7. Reservations(r) = Reservations(q)
  BY <1>3, <1>5 DEF Reservations
<1>8. ASSUME NEW p \in Places(r)
      PROVE  \E o \in Places(q) : p.id = o.id /\ p.kind = o.kind /\ p.age = Aged(o.age)
  <2>1. PICK i \in 1..Len(q) : IsWaiting(r[i]) /\ p = Place(r[i])
    BY <1>3, <1>8 DEF Places
  <2>2. IsWaiting(q[i]) /\ Place(q[i]) \in Places(q)
    BY <2>1, <1>5 DEF Places
  <2>3. p.id = Place(q[i]).id /\ p.kind = Place(q[i]).kind /\ p.age = Aged(Place(q[i]).age)
    BY <2>1, <1>5 DEF Place
  <2> QED BY <2>2, <2>3
<1>9. RowsIn(r) = RowsIn(q) /\ (QueueOnce(q) => QueueOnce(r))
  <2>1. \A i \in 1..Len(q) : r[i].rows = q[i].rows /\ RowsAt(r[i]) = RowsAt(q[i])
    BY <1>5 DEF RowsAt
  <2> QED BY <2>1, <1>3 DEF RowsIn, QueueOnce
<1> QED BY <1>6, <1>7, <1>8, <1>9 DEF r

\* So do records,
LEMMA OlderRecords ==
  ASSUME NEW recs \in Seq(Record)
  PROVE  LET r == [i \in 1..Len(recs) |-> Older(recs[i])]
         IN  /\ r \in Seq(Record) /\ Len(r) = Len(recs)
             /\ \A i \in 1..Len(recs) : /\ r[i].id = recs[i].id /\ r[i].text = recs[i].text
                                        /\ r[i].part = recs[i].part /\ r[i].last = recs[i].last
<1> DEFINE r == [i \in 1..Len(recs) |-> Older(recs[i])]
<1>1. ASSUME NEW i \in 1..Len(recs)
      PROVE  /\ Older(recs[i]) \in Record /\ Older(recs[i]).id = recs[i].id
             /\ Older(recs[i]).text = recs[i].text /\ Older(recs[i]).part = recs[i].part
             /\ Older(recs[i]).last = recs[i].last
  <2>1. recs[i] \in Record
    OBVIOUS
  <2>2. recs[i].age \in Nat /\ Aged(recs[i].age) \in Nat
    BY <2>1, OlderFacts DEF Record
  <2>3. Older(recs[i]) = [recs[i] EXCEPT !.age = Aged(recs[i].age)]
    BY <2>1 DEF Older, Aged, Record
  <2> QED BY <2>1, <2>2, <2>3 DEF Record
<1>2. r \in Seq(Record) /\ Len(r) = Len(recs) /\ \A i \in 1..Len(recs) : r[i] = Older(recs[i])
  BY <1>1
<1> HIDE DEF r
<1>3. \A i \in 1..Len(recs) : /\ r[i].id = recs[i].id /\ r[i].text = recs[i].text
                              /\ r[i].part = recs[i].part /\ r[i].last = recs[i].last
  BY <1>1, <1>2
<1> QED BY <1>2, <1>3 DEF r

\* and the sends of the lane.
LEMMA OlderSends ==
  ASSUME NEW s \in Seq(Send)
  PROVE  LET r == [i \in 1..Len(s) |-> Older(s[i])]
         IN  /\ r \in Seq(Send) /\ Len(r) = Len(s)
             /\ \A i \in 1..Len(s) : r[i].id = s[i].id /\ r[i].age = Aged(s[i].age)
<1> DEFINE r == [i \in 1..Len(s) |-> Older(s[i])]
<1>1. ASSUME NEW i \in 1..Len(s)
      PROVE  Older(s[i]) \in Send /\ Older(s[i]).id = s[i].id /\ Older(s[i]).age = Aged(s[i].age)
  <2>1. s[i] \in Send
    OBVIOUS
  <2>2. s[i].age \in Nat /\ Aged(s[i].age) \in Nat
    BY <2>1, OlderFacts DEF Send
  <2>3. Older(s[i]) = [s[i] EXCEPT !.age = Aged(s[i].age)]
    BY <2>1 DEF Older, Aged, Send
  <2> QED BY <2>1, <2>2, <2>3 DEF Send
<1>2. r \in Seq(Send) /\ Len(r) = Len(s) /\ \A i \in 1..Len(s) : r[i] = Older(s[i])
  BY <1>1
<1> HIDE DEF r
<1>3. \A i \in 1..Len(s) : r[i].id = s[i].id /\ r[i].age = Aged(s[i].age)
  BY <1>1, <1>2
<1> QED BY <1>2, <1>3 DEF r

\* A step that shows nothing and hands out nothing.
LEMMA NothingShown ==
  ASSUME RoutingInv, shown' = shown, unplaced' = unplaced, nextId' = nextId, IdsIn(queue') = IdsIn(queue)
  PROVE  Timeline!Step(NewKeys, nextId')
<1>1. shown \in Seq(AnyRow)
  BY DEF RoutingInv, Shapes
<1>2. NewKeys = <<>> /\ Len(NewKeys) = 0
  <2>1. Len(shown) \in Nat
    BY <1>1
  <2> QED BY <2>1 DEF NewKeys
<1>3. [i \in 1..Len(shown) |-> shown[i].key] \o <<>> = [i \in 1..Len(shown) |-> shown[i].key]
  <2>1. \A i \in 1..Len(shown) : shown[i].key \in Nat
    BY <1>1, RowKey
  <2>2. [i \in 1..Len(shown) |-> shown[i].key] \in Seq(Nat)
    BY <2>1, <1>1
  <2> QED BY <2>2
<1>4. /\ IdsIn(queue) = {queue[i].id : i \in 1..Len(queue)}
      /\ {queue'[i].id : i \in 1..Len(queue')} = {queue[i].id : i \in 1..Len(queue)}
  BY DEF IdsIn
<1>5. [i \in 1..Len(shown') |-> shown'[i].key] = [i \in 1..Len(shown) |-> shown[i].key]
  OBVIOUS
<1> HIDE DEF NewKeys
<1>6. 1..Len(NewKeys) = {}
  BY <1>2
<1> QED BY <1>2, <1>3, <1>4, <1>5, <1>6 DEF Timeline!Step

\* The clock advances.
LEMMA ElapseKeeps ==
  ASSUME RoutingInv, Elapse
  PROVE  RoutingInv' /\ Stepped
<1>1. /\ UNCHANGED <<open, hasQueue, reflecting, atShrinker, nextId, shown, lost, unplaced, timedOut, session>>
      /\ queue' = [i \in 1..Len(queue) |-> Older(queue[i])]
      /\ records' = [i \in 1..Len(records) |-> Older(records[i])]
      /\ lane' = [i \in 1..Len(lane) |-> Older(lane[i])]
  BY DEF Elapse
<1>2. /\ Shapes /\ PlacesOwned /\ LaneAges /\ InStep(records, reflecting)
      /\ LastKept(records, Reservations(queue)) /\ NothingLeftBehind
  BY DEF RoutingInv
<1>3. QueueOK(queue) /\ records \in Seq(Record) /\ lane \in Seq(Send)
  BY <1>2 DEF Shapes
<1>4. /\ QueueOK(queue') /\ IdsIn(queue') = IdsIn(queue) /\ Reservations(queue') = Reservations(queue)
      /\ RowsIn(queue') = RowsIn(queue) /\ (QueueOnce(queue) => QueueOnce(queue'))
      /\ \A p \in Places(queue') : \E o \in Places(queue) : p.id = o.id /\ p.kind = o.kind /\ p.age = Aged(o.age)
  BY <1>1, <1>3, OlderEntries
<1>5. /\ records' \in Seq(Record) /\ Len(records') = Len(records)
      /\ \A i \in 1..Len(records) :
           /\ records'[i].id = records[i].id /\ records'[i].text = records[i].text
           /\ records'[i].part = records[i].part /\ records'[i].last = records[i].last
  BY <1>1, <1>3, OlderRecords
<1>6. /\ lane' \in Seq(Send) /\ Len(lane') = Len(lane)
      /\ \A i \in 1..Len(lane) : lane'[i].id = lane[i].id /\ lane'[i].age = Aged(lane[i].age)
  BY <1>1, <1>3, OlderSends
<1>7. LaneIds' = LaneIds /\ LineIds' = LineIds /\ RecordIds(records') = RecordIds(records)
  <2>1. LaneIds' = LaneIds
    BY <1>6 DEF LaneIds
  <2>2. RecordIds(records') = RecordIds(records)
    BY <1>5 DEF RecordIds
  <2> QED BY <2>1, <2>2, <1>1 DEF LineIds
<1>8. Shapes'
  <2>1. ~hasQueue' => queue' = <<>>
    <3>1. hasQueue' = hasQueue
      BY <1>1
    <3>2. ASSUME queue = <<>> PROVE queue' = <<>>
      <4>1. Len(queue) = 0
        BY <3>2
      <4> QED BY <4>1, <1>1
    <3> QED BY <3>1, <3>2, <1>2 DEF Shapes
  <2>2. open' = open /\ hasQueue' = hasQueue /\ reflecting' = reflecting /\ atShrinker' = atShrinker
        /\ nextId' = nextId /\ shown' = shown /\ unplaced' = unplaced /\ timedOut' = timedOut
        /\ session' = session
    BY <1>1
  <2> QED BY <2>1, <2>2, <1>2, <1>4, <1>5, <1>6, <1>7 DEF Shapes, Known
<1>9. PlacesOwned'
  <2>1. \A p \in Places(queue') : p.id \notin unplaced'
    BY <1>1, <1>2, <1>4 DEF PlacesOwned
  <2>2. \A i, j \in 1..Len(lane') : i # j => lane'[i].id # lane'[j].id
    BY <1>2, <1>6 DEF PlacesOwned
  <2>3. atShrinker' = atShrinker /\ unplaced' = unplaced
    BY <1>1
  <2> QED BY <2>1, <2>2, <2>3, <1>2, <1>4, <1>7 DEF PlacesOwned
<1>10. LaneAges'
  <2> SUFFICES ASSUME NEW i \in 1..Len(lane)
               PROVE  /\ \A p \in Places(queue') : p.id = lane'[i].id => p.age = lane'[i].age
                      /\ lane'[i].id \in timedOut => lane'[i].age >= Timeout
    BY <1>1, <1>6 DEF LaneAges
  <2>1. /\ \A p \in Places(queue) : p.id = lane[i].id => p.age = lane[i].age
        /\ lane[i].id \in timedOut => lane[i].age >= Timeout
    BY <1>2 DEF LaneAges
  <2>2. lane[i].age \in Nat
    <3>1. lane[i] \in Send
      BY <1>3
    <3> QED BY <3>1 DEF Send
  <2>3. ASSUME NEW p \in Places(queue'), p.id = lane'[i].id PROVE p.age = lane'[i].age
    <3>1. PICK o \in Places(queue) : p.id = o.id /\ p.age = Aged(o.age)
      BY <1>4
    <3>2. o.age = lane[i].age
      BY <3>1, <2>1, <2>3, <1>6
    <3> QED BY <3>1, <3>2, <1>6
  <2>4. Aged(lane[i].age) >= lane[i].age /\ Aged(lane[i].age) \in Nat
    BY <2>2, OlderFacts
  <2>5. Timeout \in Nat
    BY TimeoutAssumption
  <2> QED BY <2>1, <2>2, <2>3, <2>4, <2>5, <1>6
<1>11. InStep(records, reflecting)'
  <2>1. \A k \in 1..Len(reflecting), i \in 1..Len(records) :
          IsOf(reflecting[k], records'[i]) <=> IsOf(reflecting[k], records[i])
    BY <1>5 DEF IsOf
  <2>2. reflecting' = reflecting
    BY <1>1
  <2>3. \A i \in 1..Len(records') : records'[i].text[3] = records'[i].part
    BY <1>2, <1>5 DEF InStep
  <2>4. /\ \A k \in 1..Len(reflecting) : reflecting[k].text[3] = reflecting[k].part
        /\ \A k, l \in 1..Len(reflecting) :
             k < l /\ reflecting[k].id = reflecting[l].id => reflecting[k].part < reflecting[l].part
    BY <1>2, Zenon DEF InStep
  <2>5. \A i \in 1..Len(records') : \E k \in 1..Len(reflecting) : IsOf(reflecting[k], records'[i])
    BY <2>1, <1>2, <1>5, Zenon DEF InStep
  <2>6. \A i, j \in 1..Len(records') : \A k, l \in 1..Len(reflecting) :
          i < j /\ IsOf(reflecting[k], records'[i]) /\ IsOf(reflecting[l], records'[j]) => k < l
    <3>1. \A i, j \in 1..Len(records) : \A k, l \in 1..Len(reflecting) :
            i < j /\ IsOf(reflecting[k], records[i]) /\ IsOf(reflecting[l], records[j]) => k < l
      BY <1>2, Zenon DEF InStep
    <3>2. 1..Len(records') = 1..Len(records)
      BY <1>5
    <3> QED BY <2>1, <3>1, <3>2, Zenon
  <2>7. \A i, j \in 1..Len(records') :
          records'[i].id = records'[j].id /\ records'[i].last => records'[j].part <= records'[i].part
    BY <1>2, <1>5 DEF InStep
  <2>8. InStep(records', reflecting)
    BY <2>3, <2>4, <2>5, <2>6, <2>7, Zenon DEF InStep
  <2> QED BY <2>2, <2>8, Zenon DEF InStep, IsOf
<1>12. LastKept(records, Reservations(queue))'
  BY <1>2, <1>4, <1>5 DEF LastKept
<1>13. NothingLeftBehind'
  <2>1. NoOrphanBarrier'
    <3> SUFFICES ASSUME NEW id \in Reservations(queue)
                 PROVE  \/ id \in atShrinker' \/ \E i \in 1..Len(lane') : lane'[i].id = id
                        \/ \E i \in 1..Len(records') : records'[i].id = id
      BY <1>4 DEF NoOrphanBarrier
    <3>1. \/ id \in atShrinker \/ \E i \in 1..Len(lane) : lane[i].id = id
          \/ \E i \in 1..Len(records) : records[i].id = id
      BY <1>2 DEF NothingLeftBehind, NoOrphanBarrier
    <3> QED BY <3>1, <1>1, <1>5, <1>6
  <2>2. NoStaleRecord'
    BY <1>1, <1>2, <1>5 DEF NothingLeftBehind, NoStaleRecord
  <2> QED BY <2>1, <2>2 DEF NothingLeftBehind
<1>14. Timeline!Step(NewKeys, nextId')
  BY <1>1, <1>4, NothingShown
<1>15. RowsHeld' = RowsHeld /\ Shown' = Shown
  BY <1>1, <1>4 DEF RowsHeld, Shown
<1>16. RowsInv'
  <2>1. \A r : Due(r)' => Due(r)
    BY <1>1, <1>7 DEF Due, Known
  <2>2. OnlyUnplacedLost'
    BY <1>1 DEF RoutingInv, RowsInv, OnlyUnplacedLost
  <2>3. /\ QueueOnce(queue) /\ NoTwice(shown) /\ RowsIn(queue) \cap Shown = {}
        /\ lost \cap (RowsIn(queue) \cup Shown) = {}
        /\ (\A r \in RowsHeld : ~Due(r))
        /\ (~open => /\ atShrinker \subseteq unplaced
                     /\ \A r \in RowsIn(queue) : r.part = 0 => r.key \in unplaced)
    BY DEF RoutingInv, RowsInv
  <2>4. /\ shown' = shown /\ lost' = lost /\ open' = open /\ atShrinker' = atShrinker /\ unplaced' = unplaced
        /\ RowsIn(queue') = RowsIn(queue) /\ QueueOnce(queue')
    BY <1>1, <1>4, <2>3
  <2> QED BY <2>1, <2>2, <2>3, <2>4, <1>15 DEF RowsInv
<1>17. RowsInSystem' = RowsInSystem
  <2>1. /\ QueueOK(queue) /\ shown \in Seq(AnyRow)
        /\ QueueOK(queue') /\ shown' \in Seq(AnyRow)
    BY <1>2, <1>8 DEF Shapes
  <2>2. RowsInSystem = RowsHeld \cup {Row(id) : id \in atShrinker}
    BY <2>1, RowsNamed
  <2>3. RowsInSystem' = RowsHeld' \cup {Row(id) : id \in atShrinker'}
    BY <2>1, RowsNamedThen
  <2> QED BY <2>2, <2>3, <1>1, <1>15
<1> QED BY <1>8, <1>9, <1>10, <1>11, <1>12, <1>13, <1>14, <1>16, <1>17 DEF RoutingInv, Stepped

-----------------------------------------------------------------------------
(* The timeline.                                                           *)

\* What appending rows does to the positions of the timeline.
LEMMA Appended ==
  ASSUME NEW s \in Seq(Nat), NEW t \in Seq(Nat)
  PROVE  /\ s \o t \in Seq(Nat)
         /\ Len(s \o t) = Len(s) + Len(t)
         /\ \A i \in 1..Len(s) : (s \o t)[i] = s[i]
         /\ \A i \in (Len(s) + 1)..Len(s \o t) :
              /\ i - Len(s) \in 1..Len(t)
              /\ (s \o t)[i] = t[i - Len(s)]
  OBVIOUS

\* The heart of the argument: a step that shows only rows older than every
\* place still held cannot put a row in front of one that holds its place.
LEMMA StepInOrder ==
  ASSUME Timeline!IndInv, NEW upTo \in Nat, NEW rows \in Seq(Nat), upTo >= nextId,
         Timeline!Step(rows, upTo)
  PROVE  Timeline!IndInv'
<1> DEFINE timeline == [i \in 1..Len(shown) |-> shown[i].key]
           held == {queue[i].id : i \in 1..Len(queue)}
           new == nextId..(upTo - 1)
<1>1. /\ nextId' = upTo
      /\ timeline' = timeline \o rows
      /\ unplaced \subseteq unplaced'
      /\ unplaced' \subseteq unplaced \cup held \cup new
      /\ held' \subseteq held \cup new \cup unplaced'
      /\ \A i \in 1..Len(rows) :
           /\ rows[i] \in held \cup new \cup unplaced'
           /\ \A k \in held' : rows[i] < k
      /\ \A i, j \in 1..Len(rows) :
           i < j /\ rows[j] \notin unplaced' => rows[i] <= rows[j]
  BY DEF Timeline!Step
<1>2. /\ timeline \in Seq(Nat) /\ held \subseteq Nat /\ unplaced \subseteq Nat /\ nextId \in Nat
      /\ (\A k \in held \cup unplaced : k < nextId)
      /\ (\A i \in 1..Len(timeline) : timeline[i] < nextId)
      /\ (\A i \in 1..Len(timeline), k \in held \ unplaced : timeline[i] < k)
      /\ (\A i, j \in 1..Len(timeline) :
            i < j /\ timeline[j] \notin unplaced => timeline[i] <= timeline[j])
  BY DEF Timeline!IndInv, Timeline!TypeOK, Timeline!KeysHandedOut, Timeline!NothingOvertook,
         Timeline!InOrder
<1>3. ASSUME timeline' \in Seq(Nat), held' \subseteq Nat, unplaced' \subseteq Nat, nextId' \in Nat,
             \A k \in held' \cup unplaced' : k < nextId',
             \A i \in 1..Len(timeline') : timeline'[i] < nextId',
             \A i \in 1..Len(timeline'), k \in held' \ unplaced' : timeline'[i] < k,
             \A i, j \in 1..Len(timeline') :
               i < j /\ timeline'[j] \notin unplaced' => timeline'[i] <= timeline'[j]
      PROVE  Timeline!IndInv'
  BY <1>3 DEF Timeline!IndInv, Timeline!TypeOK, Timeline!KeysHandedOut, Timeline!NothingOvertook,
              Timeline!InOrder
<1> HIDE DEF timeline, held
<1>4. /\ timeline' \in Seq(Nat)
      /\ Len(timeline') = Len(timeline) + Len(rows)
      /\ \A i \in 1..Len(timeline) : timeline'[i] = timeline[i]
      /\ \A i \in (Len(timeline) + 1)..Len(timeline') :
           i - Len(timeline) \in 1..Len(rows) /\ timeline'[i] = rows[i - Len(timeline)]
  BY <1>1, <1>2, Appended
<1>4a. \A i \in 1..Len(timeline) :
          timeline'[i] = timeline[i] /\ timeline[i] \in Nat /\ timeline[i] < nextId
  <2> SUFFICES ASSUME NEW i \in 1..Len(timeline)
               PROVE  timeline'[i] = timeline[i] /\ timeline[i] \in Nat /\ timeline[i] < nextId
    OBVIOUS
  <2>1. timeline'[i] = timeline[i] /\ timeline[i] < nextId
    BY <1>2, <1>4
  <2>2. timeline[i] \in Nat
    BY <1>2, MemberIn
  <2> QED BY <2>1, <2>2
<1>5. held' \subseteq Nat /\ unplaced' \subseteq Nat /\ nextId' \in Nat
  BY <1>1, <1>2
<1>6. \A k \in held \cup new \cup unplaced' : k < upTo
  BY <1>1, <1>2
<1>7. \A k \in held' \cup unplaced' : k < nextId'
  BY <1>1, <1>6
<1>8. ASSUME NEW i \in 1..Len(timeline') PROVE timeline'[i] < nextId'
  <2>1. CASE i \in 1..Len(timeline)
    BY <2>1, <1>1, <1>2, <1>4a
  <2>2. CASE i \in (Len(timeline) + 1)..Len(timeline')
    BY <2>2, <1>1, <1>4, <1>6
  <2> QED BY <2>1, <2>2, <1>2, <1>4
<1>9. ASSUME NEW i \in 1..Len(timeline'), NEW k \in held' \ unplaced' PROVE timeline'[i] < k
  <2>1. CASE i \in (Len(timeline) + 1)..Len(timeline')
    BY <2>1, <1>1, <1>4
  <2>2. CASE i \in 1..Len(timeline)
    <3>1. timeline'[i] = timeline[i] /\ timeline[i] \in Nat /\ timeline[i] < nextId
      BY <2>2, <1>4a
    <3>2. k \in (held \ unplaced) \cup new
      BY <1>1
    <3>3. CASE k \in held \ unplaced
      BY <2>2, <3>1, <3>3, <1>2
    <3>4. CASE k \in new
      BY <3>1, <3>4, <1>2
    <3> QED BY <3>2, <3>3, <3>4
  <2> QED BY <2>1, <2>2, <1>2, <1>4
<1>10. ASSUME NEW i \in 1..Len(timeline'), NEW j \in 1..Len(timeline'),
              i < j, timeline'[j] \notin unplaced'
       PROVE  timeline'[i] <= timeline'[j]
  <2>1. CASE j \in 1..Len(timeline)
    <3>1. i \in 1..Len(timeline)
      BY <2>1, <1>2, <1>10
    <3>2. timeline'[i] = timeline[i] /\ timeline'[j] = timeline[j]
      BY <2>1, <3>1, <1>4
    <3> QED BY <2>1, <3>1, <3>2, <1>1, <1>2, <1>10
  <2>2. CASE j \in (Len(timeline) + 1)..Len(timeline')
    <3> DEFINE jj == j - Len(timeline)
    <3>1. jj \in 1..Len(rows) /\ timeline'[j] = rows[jj]
      <4>1. j - Len(timeline) \in 1..Len(rows) /\ timeline'[j] = rows[j - Len(timeline)]
        BY <2>2, <1>4
      <4> QED BY <4>1
    <3> HIDE DEF jj
    <3>2. CASE i \in 1..Len(timeline)
      <4>1. timeline'[i] = timeline[i] /\ timeline[i] \in Nat /\ timeline[i] < nextId
        BY <3>2, <1>4a
      <4>2. rows[jj] \in (held \ unplaced) \cup new
        BY <3>1, <1>1, <1>10
      <4>3. CASE rows[jj] \in held \ unplaced
        <5>1. timeline[i] < rows[jj]
          BY <3>2, <4>3, <1>2
        <5>2. rows[jj] \in Nat
          BY <3>1
        <5> QED BY <3>1, <4>1, <5>1, <5>2
      <4>4. CASE rows[jj] \in new
        <5>1. rows[jj] \in Nat /\ rows[jj] >= nextId /\ nextId \in Nat
          BY <4>4, <1>2
        <5> QED BY <3>1, <4>1, <5>1
      <4> QED BY <4>2, <4>3, <4>4
    <3>3. CASE i \in (Len(timeline) + 1)..Len(timeline')
      <4>1. i - Len(timeline) \in 1..Len(rows) /\ timeline'[i] = rows[i - Len(timeline)]
        BY <3>3, <1>4
      <4>2. i - Len(timeline) < jj
        BY <1>2, <1>10 DEF jj
      <4> QED BY <3>1, <4>1, <4>2, <1>1, <1>10
    <3> QED BY <3>2, <3>3, <1>2, <1>4
  <2> QED BY <2>1, <2>2, <1>2, <1>4
<1> QED BY <1>3, <1>4, <1>5, <1>7, <1>8, <1>9, <1>10

\* Every behaviour of the timeline, whatever shows the rows.
THEOREM TimelineInvariant == Timeline!Spec => []Timeline!IndInv
<1> DEFINE timeline == [i \in 1..Len(shown) |-> shown[i].key]
           held == {queue[i].id : i \in 1..Len(queue)}
<1>0. /\ Timeline!Init => timeline = <<>> /\ held = {} /\ unplaced = {} /\ nextId = 1
      /\ UNCHANGED Timeline!vars => UNCHANGED <<timeline, held, unplaced, nextId>>
      /\ Timeline!IndInv <=>
           /\ timeline \in Seq(Nat) /\ held \subseteq Nat /\ unplaced \subseteq Nat /\ nextId \in Nat
           /\ \A k \in held \cup unplaced : k < nextId
           /\ \A i \in 1..Len(timeline) : timeline[i] < nextId
           /\ \A i \in 1..Len(timeline), k \in held \ unplaced : timeline[i] < k
           /\ \A i, j \in 1..Len(timeline) :
                i < j /\ timeline[j] \notin unplaced => timeline[i] <= timeline[j]
      /\ Timeline!IndInv' <=>
           /\ timeline' \in Seq(Nat) /\ held' \subseteq Nat /\ unplaced' \subseteq Nat /\ nextId' \in Nat
           /\ \A k \in held' \cup unplaced' : k < nextId'
           /\ \A i \in 1..Len(timeline') : timeline'[i] < nextId'
           /\ \A i \in 1..Len(timeline'), k \in held' \ unplaced' : timeline'[i] < k
           /\ \A i, j \in 1..Len(timeline') :
                i < j /\ timeline'[j] \notin unplaced' => timeline'[i] <= timeline'[j]
  BY Zenon DEF Timeline!Init, Timeline!vars, Timeline!IndInv, Timeline!TypeOK, Timeline!KeysHandedOut,
     Timeline!NothingOvertook, Timeline!InOrder
<1> HIDE DEF timeline, held
<1>1. Timeline!Init => Timeline!IndInv
  BY <1>0
<1>2. Timeline!IndInv /\ [Timeline!Next]_Timeline!vars => Timeline!IndInv'
  <2>1. ASSUME Timeline!IndInv, Timeline!Next PROVE Timeline!IndInv'
    <3>1. PICK upTo \in Nat, rows \in Seq(Nat) : upTo >= nextId /\ Timeline!Step(rows, upTo)
      BY <2>1 DEF Timeline!Next
    <3> QED BY <2>1, <3>1, StepInOrder
  <2>2. ASSUME Timeline!IndInv, UNCHANGED Timeline!vars PROVE Timeline!IndInv'
    BY <1>0, <2>2
  <2> QED BY <2>1, <2>2
<1> QED BY <1>1, <1>2, PTL DEF Timeline!Spec

\* Rows of any timeline stand in order, but for those that gave up their place.
THEOREM TimelineInOrder == Timeline!Spec => []Timeline!InOrder
<1>1. Timeline!IndInv => Timeline!InOrder
  BY Zenon DEF Timeline!IndInv
<1> QED BY <1>1, TimelineInvariant, PTL

-----------------------------------------------------------------------------
(* The theorems.                                                           *)

\* The initial state: nothing is shown and nothing is owed.
LEMMA InitKeeps == Init => RoutingInv /\ Timeline!Init
<1> SUFFICES ASSUME Init PROVE RoutingInv /\ Timeline!Init
  OBVIOUS
<1>1. /\ open = TRUE /\ hasQueue = FALSE /\ queue = <<>> /\ records = <<>> /\ lane = <<>>
      /\ reflecting = <<>> /\ atShrinker = {} /\ session \in Sessions
      /\ nextId = 1 /\ shown = <<>> /\ lost = {} /\ unplaced = {} /\ timedOut = {}
  BY DEF Init
<1>2. /\ Len(queue) = 0 /\ Len(records) = 0 /\ Len(lane) = 0 /\ Len(reflecting) = 0 /\ Len(shown) = 0
      /\ queue \in Seq(Entry) /\ records \in Seq(Record) /\ lane \in Seq(Send)
      /\ reflecting \in Seq(Line) /\ shown \in Seq(AnyRow)
  BY <1>1
<1>3. QueueOK(queue) /\ Reservations(queue) = {} /\ IdsIn(queue) = {} /\ Places(queue) = {}
  BY <1>1, <1>2, NothingIn DEF Reservations
<1>4. LaneIds = {} /\ LineIds = {} /\ RecordIds(records) = {}
  BY <1>2 DEF LaneIds, LineIds, RecordIds
<1>5. Shapes
  BY <1>1, <1>2, <1>3, <1>4 DEF Shapes, Known
<1>6. PlacesOwned
  BY <1>1, <1>2, <1>3, <1>4 DEF PlacesOwned
<1>7. LaneAges
  BY <1>2 DEF LaneAges
<1>8. InStep(records, reflecting)
  BY <1>2 DEF InStep
<1>9. LastKept(records, Reservations(queue))
  BY <1>3 DEF LastKept
<1>10. NothingLeftBehind
  BY <1>2, <1>3 DEF NothingLeftBehind, NoOrphanBarrier, NoStaleRecord
<1>11. Timeline!Init
  <2>1. [i \in 1..Len(shown) |-> shown[i].key] = <<>>
    BY <1>2
  <2>2. {queue[i].id : i \in 1..Len(queue)} = {}
    BY <1>2
  <2> QED BY <1>1, <2>1, <2>2 DEF Timeline!Init
<1>12. RowsInv
  <2>1. RowsIn(queue) = {}
    BY <1>1, NothingIn
  <2>2. Shown = {} /\ NoTwice(shown)
    BY <1>2 DEF Shown, NoTwice
  <2>3. QueueOnce(queue)
    BY <1>2 DEF QueueOnce
  <2>4. RowsHeld = {} /\ OnlyUnplacedLost
    BY <1>1, <2>1, <2>2 DEF RowsHeld, OnlyUnplacedLost
  <2> QED BY <1>1, <2>1, <2>2, <2>3, <2>4 DEF RowsInv
<1> QED BY <1>5, <1>6, <1>7, <1>8, <1>9, <1>10, <1>11, <1>12 DEF RoutingInv

\* Every handler keeps the invariant and is a step of the timeline.
LEMMA NextKeeps ==
  ASSUME RoutingInv, Next
  PROVE  RoutingInv' /\ Stepped
<1>1. session.ids \in Nat /\ session.parts \in Nat
  <2>1. session \in Session
    BY SessionsAssumption DEF RoutingInv, Shapes
  <2> QED BY <2>1 DEF Session
<1>2. CASE \E id \in 1..session.ids : ShrinkDone(id) \/ AnswerIncoming(id)
  BY <1>1, <1>2, ShrinkDoneKeeps, AnswerIncomingKeeps
<1>3. CASE \E n \in 1..session.parts :
             \/ OutgoingSentLocalEcho(n) \/ OutgoingSentReflected(n)
             \/ \E sent \in 1..(n - 1) : OutgoingSentPartly(n, sent)
  <2>1. PICK n \in 1..session.parts :
          \/ OutgoingSentLocalEcho(n) \/ OutgoingSentReflected(n)
          \/ \E sent \in 1..(n - 1) : OutgoingSentPartly(n, sent)
    BY <1>3
  <2>2. n \in Nat /\ n # 0
    BY <1>1
  <2> QED BY <2>1, <2>2, OutgoingSentLocalEchoKeeps, OutgoingSentReflectedKeeps, OutgoingSentPartlyKeeps
<1>4. CASE RecvDispatched \/ RecvInOrder \/ RecvToShrinker \/ Submit \/ SubmitRefused
  BY <1>4, RecvDispatchedKeeps, RecvInOrderKeeps, RecvToShrinkerKeeps, SubmitKeeps, SubmitRefusedKeeps
<1>5. CASE OutgoingRefused \/ OutgoingSentSilently \/ Reflect \/ ReflectSuppressed
  BY <1>5, OutgoingRefusedKeeps, OutgoingSentSilentlyKeeps, ReflectKeeps, ReflectSuppressedKeeps
<1>6. CASE Elapse \/ Tick \/ CloseBuffer \/ OpenBuffer \/ StopIncoming \/ Disconnect
  BY <1>6, ElapseKeeps, TickKeeps, CloseBufferKeeps, OpenBufferKeeps, StopIncomingKeeps, DisconnectKeeps
<1> QED BY <1>2, <1>3, <1>4, <1>5, <1>6 DEF Next

\* The invariant names everything it needs, so a stutter keeps it.
LEMMA StutterKeeps == RoutingInv /\ UNCHANGED vars => RoutingInv'
<1> SUFFICES ASSUME RoutingInv, UNCHANGED vars PROVE RoutingInv'
  OBVIOUS
<1>1. /\ open' = open /\ hasQueue' = hasQueue /\ queue' = queue /\ records' = records /\ lane' = lane
      /\ reflecting' = reflecting /\ atShrinker' = atShrinker /\ nextId' = nextId /\ session' = session
      /\ shown' = shown /\ unplaced' = unplaced /\ timedOut' = timedOut
  BY DEF vars
<1>2. LaneIds' = LaneIds /\ LineIds' = LineIds /\ Known' = Known
  BY <1>1 DEF LaneIds, LineIds, Known
<1>2a. Shapes' /\ PlacesOwned' /\ LaneAges'
  <2>1. Shapes'
    <3>1. Shapes
      BY DEF RoutingInv
    <3>2. QueueOK(queue)' = QueueOK(queue) /\ IdsIn(queue)' = IdsIn(queue)
      BY <1>1, Zenon
    <3> QED BY <3>1, <3>2, <1>1, <1>2, Zenon DEF Shapes
  <2>2. PlacesOwned'
    <3>1. PlacesOwned
      BY DEF RoutingInv
    <3>2. /\ RecordIds(records)' = RecordIds(records) /\ Places(queue)' = Places(queue)
          /\ Reservations(queue)' = Reservations(queue)
      BY <1>1, Zenon
    <3> QED BY <3>1, <3>2, <1>1, <1>2, Zenon DEF PlacesOwned
  <2>3. LaneAges'
    <3>1. LaneAges
      BY DEF RoutingInv
    <3> QED BY <3>1, <1>1, Zenon DEF LaneAges
  <2> QED BY <2>1, <2>2, <2>3
<1>3. InStep(records, reflecting)' /\ LastKept(records, Reservations(queue))'
  BY <1>1 DEF RoutingInv, InStep, LastKept, Reservations, RecordIds
<1>4. NothingLeftBehind'
  BY <1>1 DEF RoutingInv, NothingLeftBehind, NoOrphanBarrier, NoStaleRecord, Reservations
<1>5. RowsInv'
  <2>1. /\ UNCHANGED <<queue, shown, lost, unplaced, nextId, lane, atShrinker, reflecting>> /\ open' = open
        /\ RowsInv
    BY DEF vars, RoutingInv
  <2> QED BY <2>1, RowsStay
<1> QED BY <1>2a, <1>3, <1>4, <1>5 DEF RoutingInv

\* The ids a handler takes.
LEMMA IdsTaken == Next => nextId' \in {nextId, nextId + 1, nextId + 2}
<1> SUFFICES ASSUME Next PROVE nextId' \in {nextId, nextId + 1, nextId + 2}
  OBVIOUS
<1>1. CASE \E id \in 1..session.ids : ShrinkDone(id) \/ AnswerIncoming(id)
  BY <1>1 DEF ShrinkDone, AnswerIncoming
<1>2. CASE \E n \in 1..session.parts :
             \/ OutgoingSentLocalEcho(n) \/ OutgoingSentReflected(n)
             \/ \E sent \in 1..(n - 1) : OutgoingSentPartly(n, sent)
  BY <1>2 DEF OutgoingSentLocalEcho, OutgoingSentReflected, OutgoingSentPartly, TakeId
<1>3. CASE RecvDispatched \/ RecvInOrder \/ RecvToShrinker \/ Submit \/ SubmitRefused
  BY <1>3 DEF RecvDispatched, RecvInOrder, RecvToShrinker, Submit, SubmitRefused, TakeId
<1>4. CASE OutgoingRefused \/ OutgoingSentSilently \/ Reflect \/ ReflectSuppressed
  <2>1. CASE Reflect
    BY <2>1, Zenon DEF Reflect, TakeId
  <2> QED BY <1>4, <2>1 DEF OutgoingRefused, OutgoingSentSilently, ReflectSuppressed, TakeId
<1>5. CASE Elapse \/ Tick \/ CloseBuffer \/ OpenBuffer \/ StopIncoming \/ Disconnect
  BY <1>5 DEF Elapse, Tick, CloseBuffer, OpenBuffer, StopIncoming, Disconnect
<1> QED BY <1>1, <1>2, <1>3, <1>4, <1>5 DEF Next

\* The keys shown by a step are keys.
LEMMA NewKeysNat == RoutingInv' => NewKeys \in Seq(Nat)
<1> SUFFICES ASSUME RoutingInv' PROVE NewKeys \in Seq(Nat)
  OBVIOUS
<1>1. shown' \in Seq(AnyRow)
  BY DEF RoutingInv, Shapes
<1> QED BY <1>1, RowKey DEF NewKeys

\* A step, or none, keeps the invariant.
LEMMA StepKeeps == RoutingInv /\ [Next]_vars => RoutingInv'
  BY NextKeeps, StutterKeeps

\* The inductive invariant of the routing.
THEOREM RoutingInvariant == Spec => []RoutingInv
  BY InitKeeps, StepKeeps, PTL DEF Spec

\* No place is left behind.
THEOREM RoutingNothingLeftBehind == Spec => []NothingLeftBehind
<1>1. RoutingInv => NothingLeftBehind
  BY DEF RoutingInv
<1> QED BY <1>1, RoutingInvariant, PTL

\* The handlers implement the timeline.
THEOREM RoutingImplementsTimeline == Spec => ImplementsTimeline
<1>1. Init => Timeline!Init
  BY InitKeeps
<1>2. RoutingInv /\ [Next]_vars => [Timeline!Step(NewKeys, nextId')]_vars
  BY NextKeeps DEF Stepped
<1> QED BY <1>1, <1>2, RoutingInvariant, PTL DEF Spec, ImplementsTimeline

\* A step of the routing is a step of the timeline, or none.
LEMMA StepIsNext == RoutingInv /\ [Next]_vars => [Timeline!Next]_Timeline!vars
<1>1. ASSUME RoutingInv, Next PROVE Timeline!Next
  <2>1. Timeline!Step(NewKeys, nextId') /\ RoutingInv'
    BY <1>1, NextKeeps DEF Stepped
  <2>2. NewKeys \in Seq(Nat)
    BY <2>1, NewKeysNat
  <2>3. nextId \in Nat
    BY <1>1 DEF RoutingInv, Shapes
  <2>4. nextId' \in Nat /\ nextId' >= nextId
    BY <1>1, <2>3, IdsTaken
  <2>5. \E upTo \in Nat, rows \in Seq(Nat) : upTo >= nextId /\ Timeline!Step(rows, upTo)
    <3>1. PICK upTo \in Nat, rows \in Seq(Nat) : upTo = nextId' /\ rows = NewKeys
      BY <2>2, <2>4
    <3>2. Timeline!Step(rows, upTo)
      BY <2>1, <3>1, Zenon DEF Timeline!Step
    <3> QED BY <2>4, <3>1, <3>2
  <2> QED BY <2>5, Zenon DEF Timeline!Next
<1>2. ASSUME UNCHANGED vars PROVE UNCHANGED Timeline!vars
  <2>1. queue' = queue /\ shown' = shown /\ unplaced' = unplaced /\ nextId' = nextId
    BY <1>2 DEF vars
  <2> QED BY <2>1, Zenon DEF Timeline!vars
<1> QED BY <1>1, <1>2

\* The refinement.
THEOREM RoutingRefinesTimeline == Spec => Timeline!Spec
  BY InitKeeps, StepIsNext, RoutingInvariant, PTL DEF Spec, Timeline!Spec

\* Rows stand in order.
THEOREM RoutingOrderKept == Spec => []OrderKept
<1>1. RoutingInv /\ Timeline!IndInv => OrderKept
  <2> SUFFICES ASSUME RoutingInv, Timeline!IndInv, NEW i \in 1..Len(shown), NEW j \in 1..Len(shown),
                      i < j, shown[i].key > shown[j].key
               PROVE  shown[j].key \in unplaced
    BY DEF OrderKept
  <2> DEFINE timeline == [k \in 1..Len(shown) |-> shown[k].key]
  <2>1. shown \in Seq(AnyRow)
    BY DEF RoutingInv, Shapes
  <2>2. shown[i].key \in Nat /\ shown[j].key \in Nat
    BY <2>1, RowKey
  <2>3. timeline[i] = shown[i].key /\ timeline[j] = shown[j].key /\ Len(timeline) = Len(shown)
    BY <2>1
  <2>4. \A k, l \in 1..Len(timeline) : k < l /\ timeline[l] \notin unplaced => timeline[k] <= timeline[l]
    BY Zenon DEF Timeline!IndInv, Timeline!InOrder
  <2> HIDE DEF timeline
  <2> QED BY <2>2, <2>3, <2>4
<1> QED BY <1>1, RoutingInvariant, RoutingRefinesTimeline, TimelineInvariant, PTL

\* Whatever combination of answers, expiries, ceilings and flushes releases a
\* row, it is in one place, and lost only with its buffer.
THEOREM RoutingRowsOnce == Spec => []RowsOnce
<1>1. RoutingInv => RowsOnce
  <2> SUFFICES ASSUME RoutingInv PROVE RowsOnce
    OBVIOUS
  <2>1. /\ QueueOnce(queue) /\ NoTwice(shown) /\ RowsIn(queue) \cap Shown = {}
        /\ lost \cap (RowsIn(queue) \cup Shown) = {}
        /\ (\A r \in RowsHeld : ~Due(r)) /\ OnlyUnplacedLost
    BY DEF RoutingInv, RowsInv
  <2>2. QueueOK(queue) /\ queue \in Seq(Entry) /\ shown \in Seq(AnyRow)
    BY DEF RoutingInv, Shapes, QueueOK
  <2>3. QueueRows = RowsIn(queue) /\ Range(shown) = Shown
    BY <2>2, RowsNamed
  <2>4. IsInjective(shown)
    BY <2>1, <2>2, RangeRows
  <2>5. \A i \in 1..Len(queue) : IsInjective(queue[i].rows) /\ Range(queue[i].rows) = RowsAt(queue[i])
    <3> SUFFICES ASSUME NEW i \in 1..Len(queue)
                 PROVE  IsInjective(queue[i].rows) /\ Range(queue[i].rows) = RowsAt(queue[i])
      OBVIOUS
    <3>1. queue[i].rows \in Seq(AnyRow)
      BY <2>2, EntryFacts
    <3>2. NoTwice(queue[i].rows)
      BY <2>1 DEF QueueOnce
    <3> QED BY <3>1, <3>2, RangeRows DEF RowsAt
  <2>6. \A i, j \in 1..Len(queue) : i < j => Range(queue[i].rows) \cap Range(queue[j].rows) = {}
    BY <2>1, <2>5 DEF QueueOnce
  <2>7. ASSUME NEW id \in atShrinker PROVE Row(id) \notin RowsHeld
    <3>1. Row(id).src = id
      BY DEF Row
    <3>2. Due(Row(id))
      BY <3>1, <2>7 DEF Due
    <3> QED BY <2>1, <3>2
  <2>8. NeverTwice
    <3>1. Range(shown) \cap QueueRows = {} /\ lost \cap (Range(shown) \cup QueueRows) = {}
      BY <2>1, <2>3
    <3>2. \A id \in atShrinker : Row(id) \notin Range(shown) \cup QueueRows \cup lost
      BY <2>3, <2>7 DEF RowsHeld
    <3> QED BY <2>4, <2>5, <2>6, <3>1, <3>2 DEF NeverTwice
  <2> QED BY <2>1, <2>8 DEF RowsOnce
<1> QED BY <1>1, RoutingInvariant, PTL

\* A row that was received stays: no path of the queue drops one.
THEOREM RoutingNoRowVanishes == Spec => NoRowVanishes
<1>1. RoutingInv /\ [Next]_vars => [RowsInSystem \subseteq RowsInSystem']_vars
  BY NextKeeps DEF Stepped
<1> QED BY <1>1, RoutingInvariant, PTL DEF Spec, NoRowVanishes
=============================================================================
