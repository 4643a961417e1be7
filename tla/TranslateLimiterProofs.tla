----------------------- MODULE TranslateLimiterProofs -----------------------
(***************************************************************************)
(* Proofs about the concurrency limiter, for any number of callers, any    *)
(* set of settings and any number of changes.                              *)
(***************************************************************************)
EXTENDS TranslateLimiter, FiniteSetTheorems, SequenceTheorems, TLAPS

\* Holding is a finite set: its cardinality can be counted.
LEMMA HoldingFinite ==
  ASSUME TypeOK
  PROVE  IsFiniteSet(Holding) /\ Cardinality(Holding) \in Nat
<1>1. Holding \in SUBSET Callers
  BY DEF Holding
<1>2. QED
  BY <1>1, CallersAssumption, FS_Subset, FS_CardinalityType

\* What removing one waiter leaves in the queue: the others, in their order.
LEMMA RemoveWaiter ==
  ASSUME NEW S, NEW s \in Seq(S), NEW i \in 1..Len(s)
  PROVE  /\ RemoveAt(s, i) \in Seq(S)
         /\ Len(RemoveAt(s, i)) = Len(s) - 1
         /\ \A j \in 1..(Len(s) - 1) :
              RemoveAt(s, i)[j] = IF j < i THEN s[j] ELSE s[j + 1]
<1> DEFINE a == SubSeq(s, 1, i - 1)
           b == SubSeq(s, i + 1, Len(s))
<1>1. a \in Seq(S) /\ Len(a) = i - 1 /\ \A j \in 1..(i - 1) : a[j] = s[j]
  OBVIOUS
<1>2. b \in Seq(S) /\ Len(b) = Len(s) - i /\ \A j \in 1..(Len(s) - i) : b[j] = s[i + j]
  OBVIOUS
<1>3. RemoveAt(s, i) = a \o b
  BY DEF RemoveAt
<1> HIDE DEF a, b
<1>4. a \o b \in Seq(S) /\ Len(a \o b) = Len(s) - 1
  <2>1. a \o b \in Seq(S) /\ Len(a \o b) = Len(a) + Len(b)
    BY <1>1, <1>2, ConcatProperties, Zenon
  <2>2. Len(s) \in Nat
    OBVIOUS
  <2>3. QED
    BY <1>1, <1>2, <2>1, <2>2
<1>5. ASSUME NEW j \in 1..(Len(s) - 1)
      PROVE  (a \o b)[j] = IF j < i THEN s[j] ELSE s[j + 1]
  <2>1. CASE j < i
    BY <1>1, <1>2, <2>1
  <2>2. CASE ~(j < i)
    <3>1. (a \o b)[j] = b[j - (i - 1)]
      BY <1>1, <1>2, <2>2
    <3>2. b[j - (i - 1)] = s[i + (j - (i - 1))]
      BY <1>2, <2>2
    <3>3. QED
      BY <3>1, <3>2, <2>2
  <2>3. QED
    BY <2>1, <2>2
<1>6. QED
  BY <1>3, <1>4, <1>5

-----------------------------------------------------------------------------
\* The initial states satisfy the inductive invariant.
LEMMA InitIndInv == Init => IndInv
<1> SUFFICES ASSUME Init PROVE IndInv
  OBVIOUS
<1>1. target \in Nat \ {0}
  BY WantsAssumption DEF Init, Clamp
<1>2. TypeOK
  BY <1>1, MaxRetunesAssumption DEF Init, TypeOK, Steps
<1>3. WaitersWait
  BY DEF Init, WaitersWait
<1>4. Holding = {}
  BY DEF Init, Holding
<1>5. PermitsConserved
  BY <1>1, <1>4, FS_EmptySet DEF Init, PermitsConserved
<1>6. NeverWedged /\ EffectiveIsTarget
  BY <1>1 DEF Init, NeverWedged, EffectiveIsTarget, Effective
<1>7. QED
  BY <1>2, <1>3, <1>5, <1>6 DEF IndInv

\* A caller that joins the end of the queue keeps it in order.
LEMMA JoinQueue ==
  ASSUME IndInv, NEW c \in Callers, pc[c] \in {"idle", "retiring"},
         pc' = [pc EXCEPT ![c] = "waiting"], waiters' = Append(waiters, c)
  PROVE  /\ waiters' \in Seq(Callers) /\ pc' \in [Callers -> Steps]
         /\ WaitersWait'
         /\ Holding' = Holding
<1> USE DEF IndInv, TypeOK, Steps
<1>1. waiters' \in Seq(Callers) /\ pc' \in [Callers -> Steps]
  OBVIOUS
<1>2. Len(waiters') = Len(waiters) + 1
  OBVIOUS
<1>3. \A i \in 1..Len(waiters) : waiters'[i] = waiters[i] /\ waiters[i] \in Callers
  OBVIOUS
<1>4. waiters'[Len(waiters) + 1] = c
  OBVIOUS
<1>5. \A i \in 1..Len(waiters) : waiters[i] # c
  BY DEF WaitersWait
<1>6. \A i \in 1..Len(waiters') : pc'[waiters'[i]] = "waiting"
  BY <1>2, <1>3, <1>4 DEF WaitersWait
<1>7. \A i, j \in 1..Len(waiters') : waiters'[i] = waiters'[j] => i = j
  BY <1>2, <1>3, <1>4, <1>5 DEF WaitersWait
<1>8. Holding' = Holding
  BY DEF Holding
<1>9. QED
  BY <1>1, <1>6, <1>7, <1>8 DEF WaitersWait

\* A caller that moves to the step "to" without touching the queue.
LEMMA LeaveQueueAlone ==
  ASSUME IndInv, NEW c \in Callers, pc[c] # "waiting", NEW to \in Steps,
         pc' = [pc EXCEPT ![c] = to], waiters' = waiters
  PROVE  WaitersWait' /\ pc' \in [Callers -> Steps]
<1> USE DEF IndInv, TypeOK
<1>1. \A i \in 1..Len(waiters) : waiters[i] \in Callers /\ waiters[i] # c
  BY DEF WaitersWait
<1>2. QED
  BY <1>1 DEF WaitersWait, Steps

\* Retiring idle permits keeps the books, whatever reduction is owed, as
\* long as the reduction leaves at least one permit.
LEMMA SettleKeeps ==
  ASSUME IndInv, NEW owed \in Nat, owed < total, SettleLocked(owed, total),
         UNCHANGED <<waiters, pc>>
  PROVE  /\ debt' \in Nat /\ total' \in Nat /\ pool' \in Nat
         /\ total' - debt' = total - owed /\ total' > debt'
         /\ PermitsConserved'
<1> DEFINE f == Lesser(owed, Idle)
<1>1. pool \in Nat /\ total \in Nat /\ Len(waiters) \in Nat
  BY DEF IndInv, TypeOK
<1>2. f \in Nat /\ f <= owed /\ f <= pool
  BY <1>1 DEF Lesser, Idle
<1>3. debt' = owed - f /\ total' = total - f /\ pool' = pool - f
  BY DEF SettleLocked
<1> HIDE DEF f
<1>4. Holding' = Holding
  BY DEF Holding
<1>5. Cardinality(Holding) \in Nat /\ total = pool + Cardinality(Holding)
  BY HoldingFinite DEF IndInv, PermitsConserved
<1>6. QED
  BY <1>1, <1>2, <1>3, <1>4, <1>5 DEF PermitsConserved

\* What the two counters must satisfy after a step.
LEMMA CountersBalance ==
  ASSUME total' \in Nat, debt' \in Nat, total' > debt', total' - debt' = target'
  PROVE  NeverWedged' /\ EffectiveIsTarget'
<1>1. ~(total' < debt')
  OBVIOUS
<1>2. QED
  BY <1>1 DEF NeverWedged, EffectiveIsTarget, Effective

\* Every step keeps the inductive invariant: one step of the proof per action.
LEMMA NextIndInv == IndInv /\ [Next]_vars => IndInv'
<1> SUFFICES ASSUME IndInv, [Next]_vars PROVE IndInv'
  OBVIOUS
<1>0. /\ TypeOK /\ WaitersWait /\ PermitsConserved /\ NeverWedged
      /\ total \in Nat /\ debt \in Nat /\ pool \in Nat /\ target \in Nat \ {0}
      /\ total - debt = target /\ total > debt /\ Effective = total - debt
  BY DEF IndInv, TypeOK, NeverWedged, EffectiveIsTarget, Effective
<1>h. /\ IsFiniteSet(Holding) /\ Cardinality(Holding) \in Nat
      /\ total = pool + Cardinality(Holding)
  BY <1>0, HoldingFinite DEF PermitsConserved
<1>1. ASSUME NEW c \in Callers, Ask(c) PROVE IndInv'
  <2>1. /\ waiters' \in Seq(Callers) /\ pc' \in [Callers -> Steps]
        /\ WaitersWait' /\ Holding' = Holding
    BY <1>1, JoinQueue DEF Ask
  <2>2. QED
    BY <1>0, <1>1, <2>1 DEF Ask, IndInv, TypeOK, PermitsConserved, NeverWedged,
       EffectiveIsTarget, Effective
<1>2. ASSUME NEW c \in Callers, Granted(c) PROVE IndInv'
  <2>1. PICK i \in 1..Len(waiters) :
          i <= pool /\ waiters[i] = c /\ waiters' = RemoveAt(waiters, i)
    BY <1>2 DEF Granted
  <2>2. waiters \in Seq(Callers) /\ Len(waiters) \in Nat
    BY <1>0 DEF TypeOK
  <2>3. /\ waiters' \in Seq(Callers)
        /\ Len(waiters') = Len(waiters) - 1
        /\ \A j \in 1..(Len(waiters) - 1) :
             waiters'[j] = IF j < i THEN waiters[j] ELSE waiters[j + 1]
    BY <2>1, <2>2, RemoveWaiter
  <2>4. pc[c] = "waiting" /\ c \notin Holding
    BY <1>0, <2>1 DEF WaitersWait, Holding
  <2>5. pc' = [pc EXCEPT ![c] = "checking"] /\ pc' \in [Callers -> Steps]
    BY <1>0, <1>2 DEF Granted, TypeOK, Steps
  <2>6. Holding' = Holding \cup {c}
    BY <1>0, <2>5 DEF Holding, TypeOK
  <2>7. Cardinality(Holding') = Cardinality(Holding) + 1
    BY <1>h, <2>4, <2>6, FS_AddElement
  <2>8. pool' = pool - 1 /\ pool' \in Nat /\ UNCHANGED <<total, debt, target, retunes>>
    BY <1>0, <1>2, <2>1, <2>2 DEF Granted
  <2>9. ASSUME NEW j \in 1..Len(waiters')
        PROVE  \E k \in 1..Len(waiters) :
                 k # i /\ k = (IF j < i THEN j ELSE j + 1) /\ waiters'[j] = waiters[k]
    BY <2>2, <2>3
  <2>10. WaitersWait'
    <3>1. ASSUME NEW j \in 1..Len(waiters') PROVE pc'[waiters'[j]] = "waiting"
      <4>1. PICK k \in 1..Len(waiters) : k # i /\ waiters'[j] = waiters[k]
        BY <2>9
      <4>2. waiters[k] # c /\ waiters[k] \in Callers /\ pc[waiters[k]] = "waiting"
        BY <1>0, <2>1, <2>2, <4>1 DEF WaitersWait
      <4>3. QED
        BY <1>0, <2>5, <4>1, <4>2 DEF TypeOK
    <3>2. ASSUME NEW j \in 1..Len(waiters'), NEW m \in 1..Len(waiters'),
                 waiters'[j] = waiters'[m]
          PROVE  j = m
      <4>1. PICK k \in 1..Len(waiters) :
              k = (IF j < i THEN j ELSE j + 1) /\ waiters'[j] = waiters[k]
        BY <2>9
      <4>2. PICK n \in 1..Len(waiters) :
              n = (IF m < i THEN m ELSE m + 1) /\ waiters'[m] = waiters[n]
        BY <2>9
      <4>3. k = n
        BY <1>0, <3>2, <4>1, <4>2 DEF WaitersWait
      <4>4. QED
        BY <2>2, <2>3, <4>1, <4>2, <4>3
    <3>3. QED
      BY <3>1, <3>2 DEF WaitersWait
  <2>11. PermitsConserved'
    BY <1>0, <1>h, <2>7, <2>8 DEF PermitsConserved
  <2>12. QED
    BY <1>0, <2>3, <2>5, <2>8, <2>10, <2>11
       DEF IndInv, TypeOK, NeverWedged, EffectiveIsTarget, Effective
<1>3. ASSUME NEW c \in Callers, Claim(c) PROVE IndInv'
  <2>1. CASE debt > 0
    <3>1. /\ pc' = [pc EXCEPT ![c] = "retiring"] /\ debt' = debt - 1 /\ total' = total - 1
          /\ UNCHANGED <<pool, waiters, target, retunes>> /\ pc[c] = "checking"
      BY <1>3, <2>1 DEF Claim
    <3>2. WaitersWait' /\ pc' \in [Callers -> Steps]
      BY <3>1, LeaveQueueAlone DEF Steps
    <3>3. c \in Holding /\ Holding' = Holding \ {c}
      BY <1>0, <3>1 DEF Holding, TypeOK
    <3>4. Cardinality(Holding') = Cardinality(Holding) - 1
      BY <1>h, <3>3, FS_RemoveElement
    <3>5. PermitsConserved'
      BY <1>0, <1>h, <3>1, <3>4 DEF PermitsConserved
    <3>6. QED
      BY <1>0, <2>1, <3>1, <3>2, <3>5
         DEF IndInv, TypeOK, NeverWedged, EffectiveIsTarget, Effective
  <2>2. CASE ~(debt > 0)
    <3>1. /\ pc' = [pc EXCEPT ![c] = "working"] /\ pc[c] = "checking"
          /\ UNCHANGED <<debt, total, pool, waiters, target, retunes>>
      BY <1>3, <2>2 DEF Claim
    <3>2. WaitersWait' /\ pc' \in [Callers -> Steps]
      BY <3>1, LeaveQueueAlone DEF Steps
    <3>3. Holding' = Holding
      BY <1>0, <3>1 DEF Holding, TypeOK
    <3>4. QED
      BY <1>0, <3>1, <3>2, <3>3
         DEF IndInv, TypeOK, PermitsConserved, NeverWedged, EffectiveIsTarget, Effective
  <2>3. QED
    BY <2>1, <2>2
<1>4. ASSUME NEW c \in Callers, Forget(c) PROVE IndInv'
  <2>1. /\ waiters' \in Seq(Callers) /\ pc' \in [Callers -> Steps]
        /\ WaitersWait' /\ Holding' = Holding
    BY <1>4, JoinQueue DEF Forget
  <2>2. QED
    BY <1>0, <1>4, <2>1 DEF Forget, IndInv, TypeOK, PermitsConserved, NeverWedged,
       EffectiveIsTarget, Effective
<1>5. ASSUME NEW c \in Callers, Finish(c) PROVE IndInv'
  <2>1. /\ pc' = [pc EXCEPT ![c] = "idle"] /\ pc[c] = "working" /\ pool' = pool + 1
        /\ UNCHANGED <<total, debt, waiters, target, retunes>>
    BY <1>5 DEF Finish
  <2>2. WaitersWait' /\ pc' \in [Callers -> Steps]
    BY <2>1, LeaveQueueAlone DEF Steps
  <2>3. c \in Holding /\ Holding' = Holding \ {c}
    BY <1>0, <2>1 DEF Holding, TypeOK
  <2>4. Cardinality(Holding') = Cardinality(Holding) - 1
    BY <1>h, <2>3, FS_RemoveElement
  <2>5. PermitsConserved'
    BY <1>0, <1>h, <2>1, <2>4 DEF PermitsConserved
  <2>6. QED
    BY <1>0, <2>1, <2>2, <2>5
       DEF IndInv, TypeOK, NeverWedged, EffectiveIsTarget, Effective
<1>6. ASSUME Settle PROVE IndInv'
  <2>1. /\ debt' \in Nat /\ total' \in Nat /\ pool' \in Nat
        /\ total' - debt' = total - debt /\ total' > debt' /\ PermitsConserved'
    BY <1>0, <1>6, SettleKeeps DEF Settle
  <2>2. WaitersWait' /\ UNCHANGED <<waiters, pc, target, retunes>>
    BY <1>0, <1>6 DEF Settle, WaitersWait
  <2>3. TypeOK'
    BY <1>0, <2>1, <2>2 DEF TypeOK
  <2>4. NeverWedged' /\ EffectiveIsTarget'
    BY <1>0, <2>1, <2>2, CountersBalance
  <2>5. QED
    BY <2>1, <2>2, <2>3, <2>4 DEF IndInv
<1>7. ASSUME NEW w \in Wants, Retune(w) PROVE IndInv'
  <2> DEFINE want == Clamp(w)
  <2>1. want \in Nat /\ want >= 1
    BY WantsAssumption DEF Clamp
  <2>2. /\ WaitersWait' /\ UNCHANGED <<waiters, pc>> /\ target' = want
        /\ retunes' \in 0..MaxRetunes
    BY <1>0, <1>7, MaxRetunesAssumption DEF Retune, WaitersWait, TypeOK
  <2> HIDE DEF want
  <2>3. Holding' = Holding
    BY <2>2 DEF Holding
  <2>4. CASE Raise(want)
    <3>1. /\ debt' \in Nat /\ total' \in Nat /\ pool' \in Nat
          /\ total' - debt' = want /\ total' > debt' /\ total' - total = pool' - pool
      BY <1>0, <2>1, <2>4 DEF Raise, Lesser
    <3>2. PermitsConserved'
      BY <1>0, <1>h, <2>3, <3>1 DEF PermitsConserved
    <3>3. TypeOK'
      BY <1>0, <2>1, <2>2, <3>1 DEF TypeOK
    <3>4. NeverWedged' /\ EffectiveIsTarget'
      BY <2>1, <2>2, <3>1, CountersBalance
    <3>5. QED
      BY <2>2, <3>2, <3>3, <3>4 DEF IndInv
  <2>5. CASE Lower(want)
    <3>1. SettleLocked(debt + (Effective - want), total) /\ want < Effective
      BY <2>5 DEF Lower
    <3>2. debt + (Effective - want) \in Nat /\ debt + (Effective - want) < total
      BY <1>0, <2>1, <3>1
    <3>3. /\ debt' \in Nat /\ total' \in Nat /\ pool' \in Nat
          /\ total' - debt' = total - (debt + (Effective - want)) /\ total' > debt'
          /\ PermitsConserved'
      BY <2>2, <3>1, <3>2, SettleKeeps
    <3>4. total - (debt + (Effective - want)) = want
      BY <1>0, <2>1
    <3>5. TypeOK'
      BY <1>0, <2>1, <2>2, <3>3 DEF TypeOK
    <3>6. NeverWedged' /\ EffectiveIsTarget'
      BY <2>1, <2>2, <3>3, <3>4, CountersBalance
    <3>7. QED
      BY <2>2, <3>3, <3>5, <3>6 DEF IndInv
  <2>6. QED
    BY <1>7, <2>4, <2>5 DEF Retune, want
<1>8. CASE UNCHANGED vars
  BY <1>0, <1>8 DEF vars, IndInv, TypeOK, WaitersWait, PermitsConserved, Holding,
     NeverWedged, EffectiveIsTarget, Effective
<1>9. QED
  BY <1>1, <1>2, <1>3, <1>4, <1>5, <1>6, <1>7, <1>8 DEF Next, Acquire

\* In every reachable state the limiter's books balance: the debug assertion
\* of Counts::check holds, no permit is lost or invented, and the ceiling in
\* force is the configured one.
THEOREM LimiterInvariant == Spec => []IndInv
<1>1. QED
  BY InitIndInv, NextIndInv, PTL DEF Spec

\* Counts::check never fails: a reduction leaves at least one permit.
THEOREM LimiterNeverWedged == Spec => []NeverWedged
<1>1. IndInv => NeverWedged
  BY DEF IndInv
<1>2. QED
  BY <1>1, LimiterInvariant, PTL

\* acquire() and settle_locked neither lose nor invent a permit: whatever tasks,
\* the tick and new settings interleave, `total` counts those that exist.
THEOREM LimiterPermitsConserved == Spec => []PermitsConserved
<1>1. IndInv => PermitsConserved
  BY DEF IndInv
<1>2. QED
  BY <1>1, LimiterInvariant, PTL

\* The limiter's counters and queue are well typed; no subtraction underflows.
THEOREM LimiterTypeOK == Spec => []TypeOK
<1>1. IndInv => TypeOK
  BY DEF IndInv
<1>2. QED
  BY <1>1, LimiterInvariant, PTL

\* acquire() starts no provider call above the configured ceiling.
THEOREM LimiterStartsWithinCeiling == Spec => StartsWithinCeiling
<1>1. ASSUME IndInv, [Next]_vars, Working' \ Working # {}
      PROVE  Cardinality(Working') <= target'
  <2>0. TypeOK /\ IsFiniteSet(Holding) /\ Cardinality(Holding) \in Nat
    BY <1>1, HoldingFinite DEF IndInv
  <2>1. PICK c \in Callers : pc[c] # "working" /\ pc'[c] = "working"
    BY <1>1 DEF Working
  <2>2. Claim(c) /\ ~(debt > 0)
    <3>1. ~UNCHANGED vars
      BY <2>1 DEF vars
    <3>2. ~Settle /\ ~(\E w \in Wants : Retune(w))
      BY <2>1 DEF Settle, Retune
    <3>3. ASSUME NEW d \in Callers, Ask(d) \/ Granted(d) \/ Forget(d) \/ Finish(d)
          PROVE  FALSE
      BY <2>0, <2>1, <3>3 DEF Ask, Granted, Forget, Finish, TypeOK
    <3>4. PICK d \in Callers : Claim(d)
      BY <1>1, <3>1, <3>2, <3>3 DEF Next, Acquire
    <3>5. d = c /\ ~(debt > 0)
      BY <2>0, <2>1, <3>4 DEF Claim, TypeOK
    <3>6. QED
      BY <3>4, <3>5
  <2>3. debt = 0 /\ total = target /\ target' = target /\ total \in Nat
    BY <1>1, <2>0, <2>2 DEF IndInv, TypeOK, Claim, EffectiveIsTarget, Effective
  <2>4. Working' \in SUBSET Holding
    BY <2>0, <2>2 DEF Working, Holding, Claim, TypeOK
  <2>5. Cardinality(Working') \in Nat /\ Cardinality(Working') <= Cardinality(Holding)
    BY <2>0, <2>4, FS_Subset, FS_CardinalityType
  <2>6. Cardinality(Holding) <= total
    BY <1>1, <2>0, <2>3 DEF IndInv, PermitsConserved, TypeOK
  <2>7. QED
    BY <2>0, <2>3, <2>5, <2>6
<1>2. IndInv /\ [Next]_vars
        => [Working' \ Working # {} => Cardinality(Working') <= target']_vars
  BY <1>1
<1>3. QED
  BY <1>2, LimiterInvariant, PTL DEF Spec, StartsWithinCeiling
=============================================================================
