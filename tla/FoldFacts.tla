------------------------------ MODULE FoldFacts ------------------------------
(***************************************************************************)
(* What FoldLeft computes, for any operator Op.  The loops of the program  *)
(* (`for` over a queue, `retain`) are folds in the models; a proof that    *)
(* needs to know what such a loop does instantiates this module:           *)
(*                                                                         *)
(*   F == INSTANCE FoldFacts WITH Op <- <the body of the loop>             *)
(*                                                                         *)
(* and cites F!FoldEmpty, F!FoldAppend, F!FoldInduct or F!FoldKeeps.  The  *)
(* library's induction theorems take an operator as a parameter, which the *)
(* provers cannot instantiate; here induction is over a set of numbers.    *)
(***************************************************************************)
EXTENDS Integers, Sequences, WellFoundedInduction

CONSTANT Op(_, _)

Greatest(S) == CHOOSE x \in S : \A y \in S : x >= y

\* The function that FoldLeft of the community modules defines by recursion on
\* sets of positions, and its value for all positions: what FoldLeft(Op, base,
\* seq) is by its definition.  (Extending SequencesExt here would copy all of
\* it into every module that instantiates this one.)
Iter(base, seq) ==
  CHOOSE iter : iter = [s \in SUBSET DOMAIN seq |->
    IF s = {} THEN base ELSE Op(iter[s \ {Greatest(s)}], seq[Greatest(s)])]

Folded(base, seq) == Iter(base, seq)[DOMAIN seq]

-----------------------------------------------------------------------------
\* Induction on numbers: a set that holds 0, and with a number its successor,
\* holds all of them.
LEMMA NatSetInduction ==
  ASSUME NEW S, 0 \in S, \A n \in Nat : n \in S => n + 1 \in S
  PROVE  Nat \subseteq S
<1> DEFINE T == Nat \ S
           R == OpToRel(<, Nat)
<1>1. SUFFICES ASSUME T # {} PROVE FALSE
  BY DEF T
<1>2. IsWellFoundedOn(R, Nat)
  BY NatLessThanWellFounded
<1>3. T \subseteq Nat
  OBVIOUS
<1>4. PICK x \in T : \A y \in T : ~ (<<y, x>> \in R)
  <2> HIDE DEF R, T
  <2> QED BY <1>1, <1>2, <1>3, WFMin
<1>5. x \in Nat /\ x # 0
  OBVIOUS
<1>6. x - 1 \in Nat
  BY <1>5
<1>7. <<x - 1, x>> \in R
  BY <1>5, <1>6 DEF OpToRel
<1>8. x - 1 \notin T
  <2> HIDE DEF R, T
  <2> QED BY <1>4, <1>7
<1>9. x - 1 \in S /\ x \notin S
  BY <1>6, <1>8
<1>10. (x - 1) + 1 = x
  BY <1>5
<1> QED BY <1>6, <1>9, <1>10

-----------------------------------------------------------------------------
\* What that function satisfies on the sets of the first k positions.
IsIter(g, k, base, seq) ==
  g = [s \in SUBSET (1..k) |->
    IF s = {} THEN base ELSE Op(g[s \ {Greatest(s)}], seq[Greatest(s)])]

\* A set of positions up to k + 1 that holds k + 1 has it as its maximum.
LEMMA MaxOfPrefix ==
  ASSUME NEW k \in Nat, NEW s \in SUBSET (1..(k + 1)), k + 1 \in s
  PROVE  Greatest(s) = k + 1
<1>1. \A y \in s : k + 1 >= y
  OBVIOUS
<1>2. \A x \in s : (\A y \in s : x >= y) => x = k + 1
  OBVIOUS
<1> QED BY <1>1, <1>2 DEF Greatest

\* Every non-empty set of positions has a maximum.
LEMMA MaxInside ==
  ASSUME NEW k \in Nat, NEW s \in SUBSET (1..k), s # {}
  PROVE  Greatest(s) \in s
<1> DEFINE P(n) == \A t \in SUBSET (1..n) : t # {} => \E x \in t : \A y \in t : x >= y
           S == {n \in Nat : P(n)}
<1>1. 0 \in S
  <2>1. \A t \in SUBSET (1..0) : t = {}
    OBVIOUS
  <2>2. P(0)
    BY <2>1
  <2> QED BY <2>2
<1>2. ASSUME NEW n \in Nat, n \in S PROVE n + 1 \in S
  <2>1. SUFFICES ASSUME NEW t \in SUBSET (1..(n + 1)), t # {}
                 PROVE  \E x \in t : \A y \in t : x >= y
    OBVIOUS
  <2>2. CASE n + 1 \in t
    BY <2>2
  <2>3. CASE n + 1 \notin t
    <3>1. t \in SUBSET (1..n)
      BY <2>3
    <3> QED BY <3>1, <2>1, <1>2
  <2> QED BY <2>2, <2>3
<1>3. Nat \subseteq S
  <2> HIDE DEF S
  <2> QED BY <1>1, <1>2, NatSetInduction
<1>4. \E x \in s : \A y \in s : x >= y
  BY <1>3
<1> QED BY <1>4 DEF Greatest

\* A function that satisfies the recursion exists, whatever the length.
LEMMA IterExists ==
  ASSUME NEW base, NEW seq
  PROVE  \A n \in Nat : \E g : IsIter(g, n, base, seq)
<1> DEFINE S == {n \in Nat : \E g : IsIter(g, n, base, seq)}
<1>1. 0 \in S
  <2> DEFINE g == [s \in SUBSET (1..0) |-> base]
  <2>1. IsIter(g, 0, base, seq)
    BY DEF IsIter
  <2> QED BY <2>1
<1>2. ASSUME NEW n \in Nat, n \in S PROVE n + 1 \in S
  <2>1. PICK g : IsIter(g, n, base, seq)
    BY <1>2
  <2> DEFINE h == [s \in SUBSET (1..(n + 1)) |->
                     IF n + 1 \in s THEN Op(g[s \ {n + 1}], seq[n + 1]) ELSE g[s]]
             body(s) == IF s = {} THEN base ELSE Op(h[s \ {Greatest(s)}], seq[Greatest(s)])
  <2>2. ASSUME NEW s \in SUBSET (1..(n + 1)) PROVE h[s] = body(s)
    <3>1. CASE n + 1 \in s
      <4>1. Greatest(s) = n + 1
        BY <3>1, MaxOfPrefix
      <4>2. s \ {n + 1} \in SUBSET (1..n) /\ n + 1 \notin s \ {n + 1}
        OBVIOUS
      <4>3. h[s \ {n + 1}] = g[s \ {n + 1}]
        BY <4>2
      <4>4. h[s] = Op(g[s \ {n + 1}], seq[n + 1])
        BY <3>1
      <4>5. body(s) = Op(h[s \ {n + 1}], seq[n + 1])
        BY <3>1, <4>1
      <4> QED BY <4>3, <4>4, <4>5
    <3>2. CASE n + 1 \notin s
      <4>1. s \in SUBSET (1..n)
        BY <3>2
      <4>2. h[s] = g[s]
        BY <3>2
      <4>3. CASE s = {}
        BY <4>3, <4>2, <4>1, <2>1 DEF IsIter
      <4>4. CASE s # {}
        <5>1. Greatest(s) \in s
          BY <4>1, <4>4, MaxInside
        <5>2. s \ {Greatest(s)} \in SUBSET (1..n) /\ n + 1 \notin s \ {Greatest(s)}
          <6>1. n + 1 \notin s
            BY <4>1
          <6> QED BY <6>1, <4>1
        <5>3. h[s \ {Greatest(s)}] = g[s \ {Greatest(s)}]
          BY <5>2
        <5>4. g[s] = Op(g[s \ {Greatest(s)}], seq[Greatest(s)])
          BY <2>1, <4>1, <4>4 DEF IsIter
        <5> QED BY <5>3, <5>4, <4>2, <4>4
      <4> QED BY <4>3, <4>4
    <3> QED BY <3>1, <3>2
  <2>3. h = [s \in SUBSET (1..(n + 1)) |-> body(s)]
    <3> HIDE DEF body
    <3> QED BY <2>2
  <2>4. IsIter(h, n + 1, base, seq)
    <3> HIDE DEF h
    <3> QED BY <2>3 DEF IsIter
  <2> QED BY <2>4
<1>3. Nat \subseteq S
  <2> HIDE DEF S
  <2> QED BY <1>1, <1>2, NatSetInduction
<1> QED BY <1>3

\* The recursion, a position at a time.
LEMMA IterUnfolds ==
  ASSUME NEW base, NEW T, NEW seq \in Seq(T)
  PROVE  /\ Iter(base, seq)[{}] = base
         /\ \A k \in 1..Len(seq) :
              Iter(base, seq)[1..k] = Op(Iter(base, seq)[1..(k - 1)], seq[k])
<1>1. DOMAIN seq = 1..Len(seq) /\ Len(seq) \in Nat
  OBVIOUS
<1>2. \E g : IsIter(g, Len(seq), base, seq)
  BY <1>1, IterExists
<1>3. IsIter(Iter(base, seq), Len(seq), base, seq)
  BY <1>1, <1>2 DEF Iter, IsIter
<1> DEFINE I == Iter(base, seq)
           n == Len(seq)
<1>4. I = [s \in SUBSET (1..n) |->
             IF s = {} THEN base ELSE Op(I[s \ {Greatest(s)}], seq[Greatest(s)])]
  BY <1>3 DEF IsIter
<1> HIDE DEF I
<1>5. I[{}] = base
  BY <1>4
<1>6. ASSUME NEW k \in 1..n PROVE I[1..k] = Op(I[1..(k - 1)], seq[k])
  <2>1. 1..k \in SUBSET (1..n) /\ 1..k # {}
    <3>1. k \in 1..k /\ \A x \in 1..k : x \in 1..n
      BY <1>1
    <3> QED BY <3>1
  <2>2. Greatest(1..k) = k
    <3>1. k - 1 \in Nat /\ 1..k \in SUBSET (1..((k - 1) + 1)) /\ (k - 1) + 1 \in 1..k
      BY <1>1
    <3>2. (k - 1) + 1 = k
      BY <1>1
    <3> QED BY <3>1, <3>2, MaxOfPrefix
  <2>3. (1..k) \ {k} = 1..(k - 1)
    BY <1>1
  <2> QED BY <2>1, <2>2, <2>3, <1>4
<1> QED BY <1>5, <1>6 DEF I

\* A loop over nothing leaves the value it started from.
LEMMA FoldEmpty ==
  ASSUME NEW base
  PROVE  Folded(base, <<>>) = base
<1>1. <<>> \in Seq({}) /\ DOMAIN <<>> = {}
  OBVIOUS
<1> QED BY <1>1, IterUnfolds DEF Folded

\* The last turn of a loop works on what the turns before it left.
LEMMA FoldAppend ==
  ASSUME NEW base, NEW T, NEW seq \in Seq(T), NEW e \in T
  PROVE  Folded(base, Append(seq, e)) = Op(Folded(base, seq), e)
<1> DEFINE n == Len(seq)
           new == Append(seq, e)
           I == Iter(base, seq)
           J == Iter(base, new)
           S == {k \in Nat : k <= n => I[1..k] = J[1..k]}
<1>1. /\ n \in Nat /\ DOMAIN seq = 1..n /\ new \in Seq(T) /\ Len(new) = n + 1
      /\ DOMAIN new = 1..(n + 1) /\ new[n + 1] = e /\ \A i \in 1..n : new[i] = seq[i]
  OBVIOUS
<1>2. I[{}] = base /\ \A k \in 1..n : I[1..k] = Op(I[1..(k - 1)], seq[k])
  BY IterUnfolds
<1>3. J[{}] = base /\ \A k \in 1..(n + 1) : J[1..k] = Op(J[1..(k - 1)], new[k])
  <2> HIDE DEF new, n
  <2> QED BY <1>1, IterUnfolds
<1> HIDE DEF I, J, new, n
<1>4. 0 \in S
  <2>1. 1..0 = {}
    OBVIOUS
  <2> QED BY <2>1, <1>2, <1>3
<1>5. ASSUME NEW k \in Nat, k \in S PROVE k + 1 \in S
  <2>1. SUFFICES ASSUME k + 1 <= n PROVE I[1..(k + 1)] = J[1..(k + 1)]
    OBVIOUS
  <2>2. k + 1 \in 1..n /\ k + 1 \in 1..(n + 1) /\ (k + 1) - 1 = k /\ k <= n
    BY <2>1, <1>1
  <2>3. I[1..k] = J[1..k]
    BY <2>2, <1>5
  <2>4. I[1..(k + 1)] = Op(I[1..k], seq[k + 1]) /\ J[1..(k + 1)] = Op(J[1..k], new[k + 1])
    BY <2>2, <1>2, <1>3
  <2> QED BY <2>2, <2>3, <2>4, <1>1
<1>6. I[1..n] = J[1..n]
  <2>1. Nat \subseteq S
    <3> HIDE DEF S
    <3> QED BY <1>4, <1>5, NatSetInduction
  <2> QED BY <2>1, <1>1
<1>7. J[1..(n + 1)] = Op(J[1..n], e)
  <2>1. n + 1 \in 1..(n + 1) /\ (n + 1) - 1 = n
    BY <1>1
  <2> QED BY <2>1, <1>1, <1>3
<1>8. Folded(base, seq) = I[1..n] /\ Folded(base, new) = J[1..(n + 1)]
  BY <1>1 DEF Folded, I, J
<1> QED BY <1>6, <1>7, <1>8 DEF new

\* What each turn carries over from its position to the next holds in the end
\* (a loop invariant that may name the position).
LEMMA FoldInduct ==
  ASSUME NEW base, NEW T, NEW seq \in Seq(T), NEW G, base \in G[0],
         \A k \in 1..Len(seq) : \A a \in G[k - 1] : Op(a, seq[k]) \in G[k]
  PROVE  Folded(base, seq) \in G[Len(seq)]
<1> DEFINE n == Len(seq)
           I == Iter(base, seq)
           S == {k \in Nat : k <= n => I[1..k] \in G[k]}
<1>1. n \in Nat /\ DOMAIN seq = 1..n
  OBVIOUS
<1>2. I[{}] = base /\ \A k \in 1..n : I[1..k] = Op(I[1..(k - 1)], seq[k])
  BY IterUnfolds
<1> HIDE DEF I
<1>3. 0 \in S
  <2>1. 1..0 = {}
    OBVIOUS
  <2> QED BY <2>1, <1>2
<1>4. ASSUME NEW k \in Nat, k \in S PROVE k + 1 \in S
  <2>1. SUFFICES ASSUME k + 1 <= n PROVE I[1..(k + 1)] \in G[k + 1]
    OBVIOUS
  <2>2. k + 1 \in 1..n /\ (k + 1) - 1 = k /\ k <= n
    BY <2>1, <1>1
  <2>3. I[1..k] \in G[k] /\ I[1..(k + 1)] = Op(I[1..k], seq[k + 1])
    BY <2>2, <1>2, <1>4
  <2>4. \A a \in G[(k + 1) - 1] : Op(a, seq[k + 1]) \in G[k + 1]
    BY <2>2
  <2> QED BY <2>2, <2>3, <2>4
<1>5. I[1..n] \in G[n]
  <2>1. Nat \subseteq S
    <3> HIDE DEF S
    <3> QED BY <1>3, <1>4, NatSetInduction
  <2> QED BY <2>1, <1>1
<1> QED BY <1>1, <1>5 DEF Folded, I

\* What no turn can break holds in the end (a loop invariant).
LEMMA FoldKeeps ==
  ASSUME NEW base, NEW T, NEW seq \in Seq(T), NEW G, base \in G,
         \A a \in G : \A i \in 1..Len(seq) : Op(a, seq[i]) \in G
  PROVE  Folded(base, seq) \in G
<1> DEFINE H == [k \in Nat |-> G]
<1>1. base \in H[0] /\ \A k \in 1..Len(seq) : \A a \in H[k - 1] : Op(a, seq[k]) \in H[k]
  OBVIOUS
<1>2. Folded(base, seq) \in H[Len(seq)]
  <2> HIDE DEF H
  <2> QED BY <1>1, FoldInduct
<1> QED BY <1>2
=============================================================================
