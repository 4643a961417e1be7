-------------------------- MODULE ReadMarkersProofs --------------------------
(***************************************************************************)
(* Proofs about the read markers, for any number of targets, rows and      *)
(* requests, and any number of refusals and reconnects.                    *)
(***************************************************************************)
EXTENDS ReadMarkers, SequenceTheorems, WellFoundedInduction, TLAPS

\* The loop of Unsettled (see FoldFacts).
Keeps == INSTANCE FoldFacts WITH Op <- KeepUnsettled

\* What the proofs need to know of the types: times are numbers, and what is
\* on the way is well formed.
Asked == [target : Targets, time : Nat]
Heard == [type : {"mark"}, target : Targets, time : Nat]
           \cup [type : {"fail"}, request : Asked, internal : BOOLEAN, named : {"target", "time", "nothing"}]

Numbers ==
  /\ rows \in [Targets -> SUBSET Nat] /\ unread \in [Targets -> SUBSET Nat]
  /\ through \in [Targets -> Nat] /\ desired \in [Targets -> Nat]
  /\ confirmed \in [Targets -> Int]
  /\ marker \in [Targets -> Nat] /\ seen \in [Targets -> Nat]
  /\ toServer \in Seq(Asked) /\ toClient \in Seq(Heard)

\* A mark on its way from the server is one that the server has.
MarksFounded ==
  \A i \in 1..Len(toClient) :
    toClient[i].type = "mark" => toClient[i].time <= marker[toClient[i].target]

\* What counts as read was read, here or elsewhere; what is to be reported
\* was read here.
Founded(t) == through[t] <= seen[t] \/ through[t] <= marker[t]
Reported(t) == desired[t] <= seen[t]

Stands(t) == desired[t] # 0 => confirmed[t] < desired[t] /\ desired[t] <= through[t]
Honest(t) ==
  \A r \in rows[t] : IF r \in unread[t] THEN r > through[t] ELSE r <= seen[t] \/ r <= marker[t]

Within(t) == unread[t] \subseteq rows[t]

Sound(t) == Founded(t) /\ Reported(t) /\ Stands(t) /\ Honest(t) /\ Within(t)

\* The inductive invariant.
IndInv == Numbers /\ MarksFounded /\ \A t \in Targets : Sound(t)

-----------------------------------------------------------------------------
\* What nothing changes about a target leaves it sound.
LEMMA Untouched ==
  ASSUME NEW t \in Targets, Sound(t),
         rows'[t] = rows[t], unread'[t] = unread[t], through'[t] = through[t],
         desired'[t] = desired[t], confirmed'[t] = confirmed[t],
         marker'[t] = marker[t], seen'[t] = seen[t]
  PROVE  Sound(t)'
BY DEF Sound, Founded, Reported, Stands, Honest, Within

\* A function on 1..n is a sequence.
LEMMA FunctionIsSequence ==
  ASSUME NEW S, NEW n \in Nat, NEW f \in [1..n -> S]
  PROVE  f \in Seq(S)
OBVIOUS

\* A tick sends well formed requests.
LEMMA TickSendsAsked ==
  ASSUME Numbers, NEW des \in [Targets -> Nat], NEW rej, NEW qrej, Tick(des, rej, qrej)
  PROVE  toServer' \in Seq(Asked)
<1>1. PICK batch \in Batches :
        toServer' = toServer \o [i \in 1..Len(batch) |-> [target |-> batch[i], time |-> des[batch[i]]]]
  BY DEF Tick
<1>2. PICK n \in 0..MaxBatch : batch \in [1..n -> Targets]
  BY <1>1 DEF Batches
<1>3. n \in Nat
  BY LimitsAssumption
<1>4. batch \in Seq(Targets)
  BY <1>2, <1>3, FunctionIsSequence
<1> DEFINE requests == [i \in 1..Len(batch) |-> [target |-> batch[i], time |-> des[batch[i]]]]
<1>5. Len(batch) \in Nat /\ \A i \in 1..Len(batch) : batch[i] \in Targets
  BY <1>4, LenProperties, ElementOfSeq
<1>6. requests \in [1..Len(batch) -> Asked]
  BY <1>5 DEF Asked
<1> HIDE DEF requests
<1>7. requests \in Seq(Asked)
  BY <1>5, <1>6, FunctionIsSequence
<1>8. toServer \in Seq(Asked)
  BY DEF Numbers
<1>9. QED
  BY <1>1, <1>7, <1>8, ConcatProperties DEF requests

-----------------------------------------------------------------------------
\* The initial states satisfy the inductive invariant.
LEMMA InitIndInv == Init => IndInv
<1> SUFFICES ASSUME Init PROVE IndInv
  OBVIOUS
<1>1. Numbers
  BY RowsAssumption DEF Init, Numbers, None, Unheard
<1>2. MarksFounded
  BY DEF Init, MarksFounded
<1>3. ASSUME NEW t \in Targets PROVE Sound(t)
  BY RowsAssumption DEF Init, Sound, Founded, Reported, Stands, Honest, Within, None
<1>4. QED
  BY <1>1, <1>2, <1>3 DEF IndInv

-----------------------------------------------------------------------------
(* The steps.                                                              *)

LEMMA TimerTickKeeps == IndInv /\ TimerTick => IndInv'
<1> SUFFICES ASSUME IndInv, TimerTick PROVE IndInv'
  OBVIOUS
<1>1. toServer' \in Seq(Asked)
  BY TickSendsAsked DEF IndInv, Numbers, TimerTick
<1>2. Numbers'
  BY <1>1 DEF IndInv, Numbers, TimerTick
<1>3. MarksFounded'
  BY DEF IndInv, MarksFounded, TimerTick
<1>4. ASSUME NEW t \in Targets PROVE Sound(t)'
  BY Untouched DEF IndInv, TimerTick
<1>5. QED
  BY <1>2, <1>3, <1>4 DEF IndInv

LEMMA ArriveKeeps ==
  ASSUME IndInv, NEW t \in Targets, NEW m \in Rows[t], Arrive(t, m)
  PROVE  IndInv'
<1>1. m \in Nat
  BY RowsAssumption
<1>2. Numbers'
  BY <1>1 DEF IndInv, Numbers, Arrive
<1>3. MarksFounded'
  BY DEF IndInv, MarksFounded, Arrive
<1>4. ASSUME NEW u \in Targets PROVE Sound(u)'
  <2>1. CASE u # t
    BY <2>1, Untouched DEF IndInv, Numbers, Arrive
  <2>2. CASE u = t
    <3>1. rows'[t] = rows[t] \cup {m}
      BY DEF IndInv, Numbers, Arrive
    <3>2. unread'[t] = IF m <= through[t] THEN unread[t] ELSE unread[t] \cup {m}
      BY DEF IndInv, Numbers, Arrive
    <3>3. /\ through[t] \in Nat /\ seen[t] \in Nat /\ marker[t] \in Nat
          /\ Founded(t) /\ Honest(t) /\ Within(t) /\ m \notin rows[t]
      BY DEF IndInv, Numbers, Sound, Arrive
    <3>4. UNCHANGED <<through, seen, marker>>
      BY DEF Arrive
    <3>5. Honest(t)' /\ Within(t)'
      BY <1>1, <3>1, <3>2, <3>3, <3>4 DEF Honest, Founded, Within
    <3>6. QED
      BY <2>2, <3>5 DEF IndInv, Arrive, Sound, Founded, Reported, Stands
  <2>3. QED
    BY <2>1, <2>2
<1>5. QED
  BY <1>2, <1>3, <1>4 DEF IndInv

LEMMA ReadKeeps ==
  ASSUME IndInv, NEW t \in Targets, NEW m \in Rows[t], Read(t, m)
  PROVE  IndInv'
<1> DEFINE given == rejected[t] >= m
           fresh == IF given THEN desired
                    ELSE [desired EXCEPT ![t] = IF confirmed[t] >= m THEN @ ELSE Larger(@, m)]
           still == IF given THEN rejected ELSE [rejected EXCEPT ![t] = 0]
           stillQ == IF given THEN queryRejected ELSE [queryRejected EXCEPT ![t] = FALSE]
<1>1. m \in Nat /\ m > 0
  BY RowsAssumption
<1>2. seen' = [seen EXCEPT ![t] = Larger(@, m)]
  BY DEF Read
<1>3. /\ unread' = [unread EXCEPT ![t] = Cleared(t, m)]
      /\ through' = [through EXCEPT ![t] = IF given THEN @ ELSE Larger(@, m)]
      /\ desired' = fresh /\ rejected' = still
      /\ Tick(fresh, still, stillQ)
  BY DEF Read
<1>4. UNCHANGED <<rows, confirmed, toClient, marker>>
  BY DEF Read
<1>5. fresh \in [Targets -> Nat]
  BY <1>1 DEF IndInv, Numbers, Larger
<1>6. toServer' \in Seq(Asked)
  BY <1>3, <1>5, TickSendsAsked DEF IndInv
<1>7. Numbers'
  <2>1. unread' \in [Targets -> SUBSET Nat]
    BY <1>3 DEF IndInv, Numbers, Cleared, Above
  <2>2. through' \in [Targets -> Nat] /\ seen' \in [Targets -> Nat]
    BY <1>1, <1>2, <1>3 DEF IndInv, Numbers, Larger
  <2>3. QED
    BY <1>3, <1>4, <1>5, <1>6, <2>1, <2>2 DEF IndInv, Numbers
<1>8. MarksFounded'
  BY <1>4 DEF IndInv, MarksFounded
<1>9. ASSUME NEW u \in Targets PROVE Sound(u)'
  <2>1. CASE u # t
    BY <1>2, <1>3, <1>4, <2>1, Untouched DEF IndInv, Numbers
  <2>2. CASE u = t
    <3>1. /\ seen'[t] = Larger(seen[t], m)
          /\ unread'[t] = {r \in unread[t] : r > m}
          /\ through'[t] = IF given THEN through[t] ELSE Larger(through[t], m)
          /\ desired'[t] = IF given \/ confirmed[t] >= m THEN desired[t] ELSE Larger(desired[t], m)
      BY <1>2, <1>3 DEF IndInv, Numbers, Cleared, Above
    <3>2. /\ through[t] \in Nat /\ seen[t] \in Nat /\ marker[t] \in Nat /\ desired[t] \in Nat
          /\ confirmed[t] \in Int /\ rows[t] \subseteq Nat
      BY DEF IndInv, Numbers
    <3>3. Founded(t) /\ Reported(t) /\ Stands(t) /\ Honest(t) /\ Within(t)
      BY DEF IndInv, Sound
    <3> HIDE DEF given, fresh, still, stillQ
    <3>4. Founded(t)' /\ Reported(t)'
      BY <1>1, <1>4, <3>1, <3>2, <3>3 DEF Founded, Reported, Larger
    <3>5. Stands(t)'
      BY <1>1, <1>4, <3>1, <3>2, <3>3 DEF Stands, Larger
    <3>6. Honest(t)' /\ Within(t)'
      BY <1>1, <1>4, <3>1, <3>2, <3>3 DEF Honest, Within, Larger
    <3>7. QED
      BY <2>2, <3>4, <3>5, <3>6 DEF Sound
  <2>3. QED
    BY <2>1, <2>2
<1>10. QED
  BY <1>7, <1>8, <1>9 DEF IndInv

\* Taking the first of the answers leaves the others as they are.
LEMMA NextAnswer ==
  ASSUME IndInv, toClient # <<>>, toClient' = Tail(toClient), marker' = marker
  PROVE  /\ Head(toClient) \in Heard
         /\ Head(toClient).type = "mark" => Head(toClient).time <= marker[Head(toClient).target]
         /\ toClient' \in Seq(Heard) /\ MarksFounded'
<1>1. toClient \in Seq(Heard)
  BY DEF IndInv, Numbers
<1>2. /\ Head(toClient) \in Heard /\ toClient' \in Seq(Heard)
      /\ Len(toClient') = Len(toClient) - 1
      /\ \A i \in 1..Len(toClient') : toClient'[i] = toClient[i + 1]
  BY <1>1, HeadTailProperties
<1>3. Len(toClient) \in Nat /\ Len(toClient) > 0 /\ Head(toClient) = toClient[1]
  BY <1>1, EmptySeq
<1>4. MarksFounded'
  BY <1>2, <1>3 DEF IndInv, MarksFounded
<1>5. QED
  BY <1>2, <1>3, <1>4 DEF IndInv, MarksFounded

LEMMA HearMarkKeeps ==
  ASSUME IndInv, NEW t \in Targets, NEW v \in Nat, HearMark(t, v), v <= marker[t],
         toClient' \in Seq(Heard), MarksFounded', UNCHANGED <<toServer, marker, seen>>
  PROVE  IndInv'
<1> DEFINE first == (confirmed[t] = Unheard)
           news  == first \/ confirmed[t] < v
           mark  == IF news THEN Remaining(t, v) ELSE desired[t]
           new   == IF first THEN Reconciled(v, mark) ELSE Larger(through[t], v)
           same  == ~news /\ confirmed[t] # v
<1>1. /\ desired' = [desired EXCEPT ![t] = mark]
      /\ confirmed' = [confirmed EXCEPT ![t] = IF news THEN v ELSE @]
      /\ same => UNCHANGED <<through, unread>>
      /\ ~same => /\ through' = [through EXCEPT ![t] = new]
                  /\ unread' = [unread EXCEPT ![t] = Counted(t, first /\ through[t] # 0, new)]
      /\ rows' = rows
  BY DEF HearMark
<1>2. /\ through[t] \in Nat /\ seen[t] \in Nat /\ marker[t] \in Nat /\ desired[t] \in Nat
      /\ confirmed[t] \in Int /\ rows[t] \subseteq Nat /\ unread[t] \subseteq Nat
  BY DEF IndInv, Numbers
<1>3. mark \in Nat /\ (mark # 0 => mark = desired[t])
  BY <1>2 DEF Remaining
<1>4. new \in Nat
  BY <1>2, <1>3 DEF Reconciled, Larger
<1>5. /\ desired'[t] = mark
      /\ confirmed'[t] = IF news THEN v ELSE confirmed[t]
      /\ through'[t] = IF same THEN through[t] ELSE new
      /\ unread'[t] = IF same THEN unread[t] ELSE Counted(t, first /\ through[t] # 0, new)
  BY <1>1 DEF IndInv, Numbers
<1>6. Numbers'
  <2>1. Counted(t, first /\ through[t] # 0, new) \subseteq Nat
    BY <1>2 DEF Counted, Above
  <2> HIDE DEF first, news, mark, new, same
  <2>2. unread' \in [Targets -> SUBSET Nat] /\ through' \in [Targets -> Nat]
    <3>1. CASE same
      BY <1>1, <3>1 DEF IndInv, Numbers
    <3>2. CASE ~same
      BY <1>1, <1>4, <2>1, <3>2 DEF IndInv, Numbers
    <3>3. QED
      BY <3>1, <3>2
  <2>3. desired' \in [Targets -> Nat]
    BY <1>1, <1>3 DEF IndInv, Numbers
  <2>4. confirmed' \in [Targets -> Int]
    BY <1>1 DEF IndInv, Numbers
  <2>5. QED
    BY <1>1, <2>2, <2>3, <2>4 DEF IndInv, Numbers
<1>7. ASSUME NEW u \in Targets PROVE Sound(u)'
  <2>1. CASE u # t
    BY <1>1, <2>1, Untouched DEF IndInv, Numbers
  <2>2. CASE u = t
    <3>1. Founded(t) /\ Reported(t) /\ Stands(t) /\ Honest(t) /\ Within(t)
      BY DEF IndInv, Sound
    <3>2. Founded(t)' /\ Reported(t)'
      BY <1>2, <1>3, <1>5, <3>1 DEF Founded, Reported, Reconciled, Larger
    <3>3. Stands(t)'
      BY <1>2, <1>3, <1>5, <3>1 DEF Stands, Remaining, Reconciled, Larger, Unheard
    <3>4. Honest(t)' /\ Within(t)'
      <4>1. CASE same
        BY <1>1, <1>5, <3>1, <4>1 DEF Honest, Within
      <4>2. CASE ~same
        <5>1. new <= seen[t] \/ new <= marker[t]
          BY <1>5, <3>2, <4>2 DEF Founded
        <5>2. unread'[t] = {r \in IF first /\ through[t] # 0 THEN rows[t] ELSE unread[t] : r > new}
          BY <1>5, <4>2 DEF Counted, Above
        <5>3. through'[t] = new
          BY <1>5, <4>2
        <5> HIDE DEF first, news, mark, new, same
        <5>4. QED
          BY <1>1, <1>2, <1>4, <3>1, <5>1, <5>2, <5>3 DEF Honest, Within
      <4>3. QED
        BY <4>1, <4>2
    <3>5. QED
      BY <2>2, <3>2, <3>3, <3>4 DEF Sound
  <2>3. QED
    BY <2>1, <2>2
<1>8. QED
  BY <1>6, <1>7 DEF IndInv

LEMMA HearFailureKeeps ==
  ASSUME IndInv, NEW f, f.internal \in BOOLEAN, HearFailure(f),
         toClient' \in Seq(Heard), MarksFounded', UNCHANGED <<toServer, marker, seen>>
  PROVE  IndInv'
<1>1. UNCHANGED <<rows, unread, through, confirmed>>
  BY DEF HearFailure, client
<1> DEFINE fits == {i \in 1..Len(pending) : Answers(pending[i], f)}
           i    == CHOOSE k \in fits : \A l \in fits : k <= l
           r    == pending[i]
           n    == failures[r.target] + 1
           final == ~f.internal \/ n >= FailureLimit
           dropped == r.time # 0 /\ desired[r.target] <= r.time
<1>2. \/ desired' = desired
      \/ desired' = [desired EXCEPT ![r.target] = IF final /\ dropped THEN 0 ELSE @]
  <2>1. CASE fits = {}
    BY <2>1 DEF HearFailure, client
  <2>2. CASE fits # {}
    BY <2>2, Zenon DEF HearFailure
  <2>3. QED
    BY <2>1, <2>2
<1> HIDE DEF fits, i, r, n, final, dropped
<1>3. desired' \in [Targets -> Nat] /\ \A t \in Targets : desired'[t] = desired[t] \/ desired'[t] = 0
  <2>1. CASE final /\ dropped
    <3> DEFINE x == r.target
               y == IF final /\ dropped THEN 0 ELSE desired[x]
    <3>1. y = 0
      BY <2>1
    <3>2. desired' = desired \/ desired' = [desired EXCEPT ![x] = y]
      BY <1>2
    <3> HIDE DEF x, y
    <3>3. desired \in [Targets -> Nat]
      BY DEF IndInv, Numbers
    <3>4. desired' = desired \/ desired' = [desired EXCEPT ![x] = 0]
      BY <3>1, <3>2, Zenon
    <3>5. QED
      BY <3>3, <3>4
  <2>2. CASE ~(final /\ dropped)
    BY <1>2, <2>2 DEF IndInv, Numbers
  <2>3. QED
    BY <2>1, <2>2
<1>4. Numbers'
  BY <1>1, <1>3 DEF IndInv, Numbers
<1>5. ASSUME NEW t \in Targets PROVE Sound(t)'
  <2>1. seen[t] \in Nat
    BY DEF IndInv, Numbers
  <2>2. QED
    BY <1>1, <1>3, <2>1 DEF IndInv, Sound, Founded, Reported, Stands, Honest, Within
<1>6. QED
  BY <1>4, <1>5 DEF IndInv

LEMMA ReceiveKeeps == IndInv /\ Receive => IndInv'
<1> SUFFICES ASSUME IndInv, Receive PROVE IndInv'
  OBVIOUS
<1>1. toClient # <<>> /\ toClient' = Tail(toClient) /\ UNCHANGED <<toServer, marker, seen>>
  BY DEF Receive
<1>2. /\ Head(toClient) \in Heard
      /\ Head(toClient).type = "mark" => Head(toClient).time <= marker[Head(toClient).target]
      /\ toClient' \in Seq(Heard) /\ MarksFounded'
  BY <1>1, NextAnswer
<1>3. CASE Head(toClient).type = "mark" /\ HearMark(Head(toClient).target, Head(toClient).time)
  <2>1. Head(toClient).target \in Targets /\ Head(toClient).time \in Nat
    BY <1>2, <1>3 DEF Heard
  <2>2. QED
    BY <1>1, <1>2, <1>3, <2>1, HearMarkKeeps
<1>4. CASE Head(toClient).type = "fail" /\ HearFailure(Head(toClient))
  <2>1. Head(toClient).internal \in BOOLEAN
    BY <1>2, <1>4 DEF Heard
  <2>2. QED
    BY <1>1, <1>2, <1>4, <2>1, HearFailureKeeps
<1>5. QED
  BY <1>3, <1>4 DEF Receive

LEMMA ReconnectionKeeps == IndInv /\ Reconnect => IndInv'
<1> SUFFICES ASSUME IndInv, Reconnect PROVE IndInv'
  OBVIOUS
<1>1. toServer' \in Seq(Asked) /\ toClient' \in Seq(Heard)
  BY DEF Reconnect
<1>2. Numbers'
  BY <1>1 DEF IndInv, Numbers, Reconnect, None, Unheard
<1>3. MarksFounded'
  BY DEF Reconnect, MarksFounded
<1>4. ASSUME NEW t \in Targets PROVE Sound(t)'
  <2>1. desired[t] \in Nat /\ confirmed'[t] = -1
    BY DEF IndInv, Numbers, Reconnect, Unheard
  <2>2. QED
    BY <2>1 DEF IndInv, Reconnect, Sound, Founded, Reported, Stands, Honest, Within
<1>5. QED
  BY <1>2, <1>3, <1>4 DEF IndInv

-----------------------------------------------------------------------------
\* Raising the marker of t and telling the client keeps the invariant.
LEMMA RaiseKeeps ==
  ASSUME IndInv, NEW t \in Targets, NEW v \in Nat,
         v >= marker[t], marker' = [marker EXCEPT ![t] = v],
         toClient' = Append(toClient, Marked(t)),
         toServer' \in Seq(Asked), UNCHANGED <<client, seen>>
  PROVE  IndInv'
<1>1. marker \in [Targets -> Nat] /\ toClient \in Seq(Heard)
  BY DEF IndInv, Numbers
<1>2. marker' \in [Targets -> Nat] /\ \A u \in Targets : marker[u] <= marker'[u]
  BY <1>1
<1>3. Marked(t) \in Heard /\ Marked(t).target = t /\ Marked(t).time = marker'[t]
  BY <1>2 DEF Marked, Heard
<1>4. toClient' \in Seq(Heard)
  BY <1>1, <1>3
<1>5. Numbers'
  BY <1>2, <1>4 DEF IndInv, Numbers, client
<1>6. MarksFounded'
  <2>1. ASSUME NEW i \in 1..Len(toClient), toClient[i].type = "mark"
        PROVE  toClient[i].time <= marker'[toClient[i].target]
    <3>1. toClient[i].target \in Targets /\ toClient[i].time \in Nat
      BY <1>1, <2>1, ElementOfSeq DEF Heard
    <3>2. toClient[i].time <= marker[toClient[i].target]
      BY <2>1 DEF IndInv, MarksFounded
    <3>3. QED
      BY <1>1, <1>2, <3>1, <3>2
  <2>2. /\ Len(toClient) \in Nat /\ Len(toClient') = Len(toClient) + 1
        /\ \A i \in 1..Len(toClient) : toClient'[i] = toClient[i]
        /\ toClient'[Len(toClient) + 1] = Marked(t)
    BY <1>1, <1>3
  <2>3. marker'[t] \in Nat
    BY <1>2
  <2>4. QED
    BY <1>3, <2>1, <2>2, <2>3 DEF MarksFounded
<1>7. ASSUME NEW u \in Targets PROVE Sound(u)'
  <2>1. /\ through[u] \in Nat /\ marker[u] \in Nat /\ marker'[u] \in Nat /\ seen[u] \in Nat
        /\ rows[u] \subseteq Nat /\ marker[u] <= marker'[u]
    BY <1>2 DEF IndInv, Numbers
  <2>2. Founded(u) /\ Reported(u) /\ Stands(u) /\ Honest(u) /\ Within(u)
    BY DEF IndInv, Sound
  <2>3. Founded(u)'
    BY <2>1, <2>2 DEF Founded, client
  <2>4. Honest(u)'
    BY <2>1, <2>2 DEF Honest, client
  <2>5. QED
    BY <2>2, <2>3, <2>4 DEF Sound, Reported, Stands, Within, client
<1>8. QED
  BY <1>5, <1>6, <1>7 DEF IndInv

LEMMA ServeKeeps == IndInv /\ Serve => IndInv'
<1> SUFFICES ASSUME IndInv, Serve PROVE IndInv'
  OBVIOUS
<1> DEFINE r == Head(toServer)
<1>1. toServer \in Seq(Asked) /\ toServer # <<>>
  BY DEF IndInv, Numbers, Serve
<1>2. r \in Asked /\ toServer' \in Seq(Asked)
  BY <1>1, HeadTailProperties DEF Serve
<1>3. UNCHANGED <<client, seen>>
  BY DEF Serve
<1>4. r.target \in Targets /\ r.time \in Nat
  BY <1>2 DEF Asked
<1> HIDE DEF r
<1>5. CASE Grant(r)
  <2> DEFINE v == Larger(marker[r.target], r.time)
  <2>1. v \in Nat /\ v >= marker[r.target]
    BY <1>4 DEF IndInv, Numbers, Larger
  <2>2. marker' = [marker EXCEPT ![r.target] = v]
    BY <1>5 DEF Grant
  <2>3. toClient' = Append(toClient, Marked(r.target))
    BY <1>5 DEF Grant
  <2> HIDE DEF v
  <2>4. QED
    BY <1>2, <1>3, <1>4, <2>1, <2>2, <2>3, RaiseKeeps
<1>6. CASE Refuse(r)
  <2>1. PICK f \in Failure : f.request = r /\ toClient' = Append(toClient, f)
    BY <1>6 DEF Refuse
  <2>2. toClient \in Seq(Heard) /\ f \in Heard
    BY <1>2, <2>1 DEF IndInv, Numbers, Heard, Failure
  <2>3. f.type = "fail"
    BY DEF Failure
  <2>4. toClient' \in Seq(Heard)
    BY <2>1, <2>2
  <2>5. marker' = marker
    BY <1>6 DEF Refuse
  <2>6. Numbers'
    BY <1>2, <1>3, <2>4, <2>5 DEF IndInv, Numbers, client
  <2>7. /\ Len(toClient) \in Nat /\ Len(toClient') = Len(toClient) + 1
        /\ \A i \in 1..Len(toClient) : toClient'[i] = toClient[i]
        /\ toClient'[Len(toClient) + 1] = f
    BY <2>1, <2>2
  <2>8. MarksFounded'
    BY <2>3, <2>5, <2>7 DEF IndInv, MarksFounded
  <2>9. ASSUME NEW u \in Targets PROVE Sound(u)'
    BY <1>3, <2>5, Untouched DEF IndInv, client
  <2>10. QED
    BY <2>6, <2>8, <2>9 DEF IndInv
<1>7. QED
  BY <1>5, <1>6 DEF Serve, r

LEMMA ReadElsewhereKeeps ==
  ASSUME IndInv, NEW t \in Targets, NEW m \in Rows[t], ReadElsewhere(t, m)
  PROVE  IndInv'
<1>1. m \in Nat
  BY RowsAssumption
<1>2. marker \in [Targets -> Nat] /\ m > marker[t] /\ toServer' \in Seq(Asked)
  BY DEF IndInv, Numbers, ReadElsewhere, Above
<1>3. m >= marker[t] /\ marker' = [marker EXCEPT ![t] = m]
  BY <1>1, <1>2 DEF ReadElsewhere
<1>4. toClient' = Append(toClient, Marked(t)) /\ UNCHANGED <<client, seen>>
  BY DEF ReadElsewhere
<1>5. QED
  BY <1>1, <1>2, <1>3, <1>4, RaiseKeeps

-----------------------------------------------------------------------------
\* Every step keeps the inductive invariant.
LEMMA StepIndInv == IndInv /\ [Next]_vars => IndInv'
<1> SUFFICES ASSUME IndInv, [Next]_vars PROVE IndInv'
  OBVIOUS
<1>1. CASE UNCHANGED vars
  BY <1>1 DEF vars, client, IndInv, Numbers, MarksFounded, Sound, Founded, Reported, Stands, Honest, Within
<1>2. CASE Next
  BY <1>2, TimerTickKeeps, ReceiveKeeps, ReconnectionKeeps, ServeKeeps, ArriveKeeps, ReadKeeps,
     ReadElsewhereKeeps DEF Next
<1>3. QED
  BY <1>1, <1>2

-----------------------------------------------------------------------------
(* What the tables and lists hold.                                         *)

Marks == Times \cup {0}

TablesOK ==
  /\ rows \in [Targets -> SUBSET Times] /\ unread \in [Targets -> SUBSET Times]
  /\ \A t \in Targets : unread[t] \subseteq rows[t] /\ rows[t] \subseteq Rows[t]
  /\ through \in [Targets -> Marks] /\ desired \in [Targets -> Marks]
  /\ confirmed \in [Targets -> Times \cup {0, Unheard}]
  /\ rejected \in [Targets -> Marks] /\ failures \in [Targets -> 0..FailureLimit]
  /\ queryRejected \in [Targets -> BOOLEAN]
  /\ marker \in [Targets -> Marks] /\ seen \in [Targets -> Marks]

\* Every request that was sent and not answered is remembered, and there is
\* room for it.
PendingOK == pending \in Seq(Request) /\ Len(pending) <= MaxPending

TrafficOK ==
  /\ toServer \in Seq(Request) /\ toClient \in Seq(Answer \cup Failure)
  /\ refused \in [Targets -> 0..FailureLimit] /\ left \in Nat

TypeInv == TablesOK /\ PendingOK /\ TrafficOK

LEMMA TimesAreNumbers == Times \subseteq Nat \ {0} /\ \A t \in Targets : Rows[t] \subseteq Times
BY RowsAssumption DEF Times

LEMMA LargerMark == \A a, b \in Marks : Larger(a, b) \in Marks
BY DEF Larger

\* Of positions in a list one is the first.
LEMMA Foremost ==
  ASSUME NEW S \in SUBSET Nat, S # {}
  PROVE  \E k \in S : \A l \in S : k <= l
<1> DEFINE R == OpToRel(<, Nat)
<1>1. IsWellFoundedOn(R, Nat)
  BY NatLessThanWellFounded
<1>2. PICK k \in S : \A l \in S : ~ (<<l, k>> \in R)
  <2> HIDE DEF R
  <2>1. QED
    BY <1>1, WFMin
<1>3. ASSUME NEW l \in S PROVE k <= l
  <2>1. ~ (l < k)
    BY <1>2 DEF OpToRel
  <2>2. QED
    BY <2>1
<1>4. QED
  BY <1>3

\* Once an answer came, no more requests are remembered than before.
LEMMA UnsettledFacts ==
  ASSUME PendingOK, NEW t, NEW v
  PROVE  Unsettled(t, v) \in Seq(Request) /\ Len(Unsettled(t, v)) <= MaxPending
<1> DEFINE base == [target |-> t, time |-> v, rest |-> <<>>]
           G == [k \in 0..Len(pending) |->
                   {a \in [target : {t}, time : {v}, rest : Seq(Request)] : Len(a.rest) <= k}]
<1>1. Unsettled(t, v) = Keeps!Folded(base, pending).rest
  BY DEF Unsettled, FoldLeft, MapThenFoldSet, Max, Keeps!Folded, Keeps!Iter, Keeps!Greatest
<1>2. pending \in Seq(Request) /\ Len(pending) \in Nat /\ Len(pending) <= MaxPending
  BY DEF PendingOK
<1>3. base \in G[0]
  <2>1. <<>> \in Seq(Request) /\ Len(<<>>) = 0 /\ 0 \in 0..Len(pending)
    BY <1>2
  <2>2. QED
    BY <2>1
<1>4. ASSUME NEW k \in 1..Len(pending), NEW a \in G[k - 1]
      PROVE  KeepUnsettled(a, pending[k]) \in G[k]
  <2>1. /\ a \in [target : {t}, time : {v}, rest : Seq(Request)] /\ Len(a.rest) <= k - 1
        /\ Len(a.rest) \in Nat /\ pending[k] \in Request
    BY <1>2, <1>4
  <2>2. CASE Settled(pending[k], a.target, a.time)
    <3>1. KeepUnsettled(a, pending[k]) = a
      BY <2>2 DEF KeepUnsettled
    <3>2. QED
      BY <2>1, <3>1
  <2>3. CASE ~Settled(pending[k], a.target, a.time)
    <3> DEFINE b == Append(a.rest, pending[k])
    <3>1. b \in Seq(Request) /\ Len(b) = Len(a.rest) + 1
      BY <2>1
    <3>2. KeepUnsettled(a, pending[k]) = [target |-> t, time |-> v, rest |-> b]
      BY <2>1, <2>3 DEF KeepUnsettled
    <3> HIDE DEF b
    <3>3. QED
      BY <2>1, <3>1, <3>2
  <2>4. QED
    BY <2>2, <2>3
<1>5. Keeps!Folded(base, pending) \in G[Len(pending)]
  <2> HIDE DEF G, base
  <2>1. QED
    BY <1>2, <1>3, <1>4, Keeps!FoldInduct
<1> HIDE DEF base
<1>6. QED
  BY <1>1, <1>2, <1>5, LimitsAssumption

\* tick_read_markers: no request goes out that is not remembered.
LEMMA TickTypes ==
  ASSUME PendingOK, TrafficOK, NEW des \in [Targets -> Marks], NEW rej, NEW qrej,
         Tick(des, rej, qrej)
  PROVE  PendingOK' /\ toServer' \in Seq(Request) /\ left' \in Nat
<1>1. PICK expired \in 0..Len(pending), batch \in Batches :
        LET requests == [i \in 1..Len(batch) |-> [target |-> batch[i], time |-> des[batch[i]]]]
        IN  /\ Room(Len(pending) - expired, Len(batch))
            /\ pending' = SubSeq(pending, expired + 1, Len(pending)) \o requests
            /\ toServer' = toServer \o requests
            /\ left' = left \/ (left > 0 /\ left' = left - 1)
  BY DEF Tick
<1> DEFINE requests == [i \in 1..Len(batch) |-> [target |-> batch[i], time |-> des[batch[i]]]]
           rest == SubSeq(pending, expired + 1, Len(pending))
<1>2. PICK n \in 0..MaxBatch : batch \in [1..n -> Targets]
  BY <1>1 DEF Batches
<1>3. n \in Nat
  BY LimitsAssumption
<1>4. batch \in Seq(Targets) /\ Len(batch) = n
  BY <1>2, <1>3, FunctionIsSequence
<1>5. \A i \in 1..n : batch[i] \in Targets
  BY <1>2
<1>6. requests \in [1..n -> Request] /\ Len(requests) = n
  <2>1. \A i \in 1..n : [target |-> batch[i], time |-> des[batch[i]]] \in Request
    BY <1>5 DEF Request, Marks
  <2>2. requests \in [1..n -> Request]
    BY <1>4, <2>1
  <2> HIDE DEF requests
  <2>3. QED
    BY <1>3, <2>2
<1>7. pending' = rest \o requests /\ toServer' = toServer \o requests
  BY <1>1
<1>9. rest \in Seq(Request) /\ Len(rest) = Len(pending) - expired
  <2>1. pending \in Seq(Request) /\ Len(pending) \in Nat /\ expired \in 0..Len(pending)
    BY DEF PendingOK
  <2> DEFINE a == expired + 1
             b == Len(pending)
  <2>2. a \in Nat /\ b \in Nat /\ a \in 1..(b + 1) /\ b - a + 1 = b - expired
    BY <2>1
  <2>3. b \in (a - 1)..b
    BY <2>2
  <2> HIDE DEF a
  <2>4. SubSeq(pending, a, b) \in Seq(Request) /\ Len(SubSeq(pending, a, b)) = b - a + 1
    BY <2>1, <2>2, <2>3, SubSeqProperties
  <2>5. QED
    BY <2>2, <2>4 DEF a
<1>10. Len(pending) - expired + n <= MaxPending
  BY <1>1, <1>4 DEF Room
<1> HIDE DEF requests, rest
<1>11. requests \in Seq(Request)
  BY <1>3, <1>6, FunctionIsSequence
<1>12. PendingOK'
  <2>1. rest \o requests \in Seq(Request) /\ Len(rest \o requests) = Len(rest) + Len(requests)
    BY <1>9, <1>11, ConcatProperties
  <2>2. QED
    BY <1>6, <1>7, <1>9, <1>10, <2>1 DEF PendingOK
<1>13. toServer' \in Seq(Request)
  BY <1>7, <1>11, ConcatProperties DEF TrafficOK
<1>14. left' \in Nat
  BY <1>1 DEF TrafficOK
<1>15. QED
  BY <1>12, <1>13, <1>14

LEMMA InitTypeInv == Init => TypeInv
<1> SUFFICES ASSUME Init PROVE TypeInv
  OBVIOUS
<1>1. \A t \in Targets : Loaded[t] \subseteq Rows[t] /\ Rows[t] \subseteq Times
  BY RowsAssumption, TimesAreNumbers
<1>2. TablesOK
  BY <1>1, RowsAssumption, LimitsAssumption DEF Init, TablesOK, Marks, None
<1>3. PendingOK /\ TrafficOK
  BY LimitsAssumption DEF Init, None, PendingOK, TrafficOK
<1>4. QED
  BY <1>2, <1>3 DEF TypeInv

LEMMA TimerTickTypes ==
  ASSUME TypeInv, TimerTick
  PROVE  TypeInv'
<1>1. PendingOK' /\ toServer' \in Seq(Request) /\ left' \in Nat
  BY TickTypes DEF TimerTick, TypeInv, TablesOK
<1>2. QED
  BY <1>1 DEF TimerTick, TypeInv, TablesOK, TrafficOK

LEMMA ArriveTypes ==
  ASSUME TypeInv, NEW t \in Targets, NEW m \in Rows[t], Arrive(t, m)
  PROVE  TypeInv'
<1>1. m \in Times
  BY TimesAreNumbers
<1>2. /\ rows' = [rows EXCEPT ![t] = rows[t] \cup {m}]
      /\ \/ unread' = [unread EXCEPT ![t] = unread[t]]
         \/ unread' = [unread EXCEPT ![t] = unread[t] \cup {m}]
  BY DEF Arrive
<1>3. TablesOK'
  BY <1>1, <1>2 DEF Arrive, TypeInv, TablesOK
<1>4. PendingOK' /\ TrafficOK'
  BY DEF Arrive, TypeInv, PendingOK, TrafficOK
<1>5. QED
  BY <1>3, <1>4 DEF TypeInv

LEMMA ReadTypes ==
  ASSUME TypeInv, NEW t \in Targets, NEW m \in Rows[t], Read(t, m)
  PROVE  TypeInv'
<1> DEFINE given == rejected[t] >= m
           fresh == IF given THEN desired
                    ELSE [desired EXCEPT ![t] = IF confirmed[t] >= m THEN @ ELSE Larger(@, m)]
           still == IF given THEN rejected ELSE [rejected EXCEPT ![t] = 0]
           stillQ == IF given THEN queryRejected ELSE [queryRejected EXCEPT ![t] = FALSE]
<1>1. /\ seen' = [seen EXCEPT ![t] = Larger(@, m)]
      /\ unread' = [unread EXCEPT ![t] = Cleared(t, m)]
      /\ through' = [through EXCEPT ![t] = IF given THEN @ ELSE Larger(@, m)]
      /\ desired' = fresh /\ rejected' = still /\ queryRejected' = stillQ
      /\ failures' = [failures EXCEPT ![t] = IF ~given /\ queryRejected[t] THEN 0 ELSE @]
      /\ Tick(fresh, still, stillQ)
      /\ UNCHANGED <<rows, confirmed, toClient, marker, refused>>
  BY DEF Read
<1>2. m \in Marks /\ 0 \in Marks
  BY TimesAreNumbers DEF Marks
<1>3. fresh \in [Targets -> Marks] /\ still \in [Targets -> Marks]
  <2>1. desired[t] \in Marks /\ Larger(desired[t], m) \in Marks
    BY <1>2, LargerMark DEF TypeInv, TablesOK
  <2>2. desired \in [Targets -> Marks] /\ rejected \in [Targets -> Marks]
    BY DEF TypeInv, TablesOK
  <2>3. QED
    BY <1>2, <2>1, <2>2
<1>4. seen' \in [Targets -> Marks] /\ through' \in [Targets -> Marks]
  <2>1. /\ Larger(seen[t], m) \in Marks /\ Larger(through[t], m) \in Marks
        /\ through[t] \in Marks
    BY <1>2, LargerMark DEF TypeInv, TablesOK
  <2>2. seen \in [Targets -> Marks] /\ through \in [Targets -> Marks]
    BY DEF TypeInv, TablesOK
  <2>3. QED
    BY <1>1, <2>1, <2>2
<1>5. stillQ \in [Targets -> BOOLEAN]
  BY DEF TypeInv, TablesOK
<1>6. failures' \in [Targets -> 0..FailureLimit]
  <2>1. failures \in [Targets -> 0..FailureLimit] /\ 0 \in 0..FailureLimit
    BY LimitsAssumption DEF TypeInv, TablesOK
  <2>2. QED
    BY <1>1, <2>1
<1>7. unread' \in [Targets -> SUBSET Times] /\ \A u \in Targets : unread'[u] \subseteq unread[u]
  BY <1>1 DEF Cleared, Above, TypeInv, TablesOK
<1>8. PendingOK' /\ toServer' \in Seq(Request) /\ left' \in Nat
  <2> HIDE DEF fresh, still, stillQ
  <2>1. QED
    BY <1>1, <1>3, TickTypes DEF TypeInv
<1> HIDE DEF fresh, still, stillQ, given
<1>9. TablesOK'
  BY <1>1, <1>3, <1>4, <1>5, <1>6, <1>7 DEF TypeInv, TablesOK
<1>10. TrafficOK'
  BY <1>1, <1>8 DEF TypeInv, TrafficOK
<1>11. QED
  BY <1>8, <1>9, <1>10 DEF TypeInv

LEMMA HearMarkTypes ==
  ASSUME TablesOK, PendingOK, NEW t \in Targets, NEW v \in Marks, HearMark(t, v),
         UNCHANGED <<marker, seen>>
  PROVE  TablesOK' /\ PendingOK'
<1> DEFINE first == (confirmed[t] = Unheard)
           news  == first \/ confirmed[t] < v
           mark  == IF news THEN Remaining(t, v) ELSE desired[t]
           new   == IF first THEN Reconciled(v, mark) ELSE Larger(through[t], v)
           same  == ~news /\ confirmed[t] # v
<1>1. /\ pending' = Unsettled(t, v)
      /\ rejected' = [rejected EXCEPT ![t] = 0]
      /\ queryRejected' = [queryRejected EXCEPT ![t] = FALSE]
      /\ failures' = [failures EXCEPT ![t] = 0]
      /\ desired' = [desired EXCEPT ![t] = mark]
      /\ confirmed' = [confirmed EXCEPT ![t] = IF news THEN v ELSE @]
      /\ same => UNCHANGED <<through, unread>>
      /\ ~same => /\ through' = [through EXCEPT ![t] = new]
                  /\ unread' = [unread EXCEPT ![t] = Counted(t, first /\ through[t] # 0, new)]
      /\ rows' = rows
  BY DEF HearMark
<1>2. mark \in Marks /\ through[t] \in Marks
  BY DEF Remaining, TablesOK, Marks
<1>3. new \in Marks
  <2> HIDE DEF mark
  <2>1. QED
    BY <1>2, LargerMark DEF Reconciled
<1>4. Counted(t, first /\ through[t] # 0, new) \subseteq rows[t]
  BY DEF Counted, Above, TablesOK
<1>5. v \in Times \cup {0, Unheard} /\ 0 \in Marks /\ 0 \in 0..FailureLimit
  BY LimitsAssumption DEF Marks
<1> HIDE DEF first, news, mark, new, same
<1>6. through' \in [Targets -> Marks]
  BY <1>1, <1>3 DEF TablesOK
<1>7. unread' \in [Targets -> SUBSET Times] /\ \A u \in Targets : unread'[u] \subseteq rows[u]
  <2>1. CASE same
    BY <1>1, <2>1 DEF TablesOK
  <2>2. CASE ~same
    <3> DEFINE counted == Counted(t, first /\ through[t] # 0, new)
    <3>1. unread' = [unread EXCEPT ![t] = counted] /\ counted \subseteq rows[t]
      BY <1>1, <1>4, <2>2
    <3> HIDE DEF counted
    <3>2. counted \in SUBSET Times
      BY <3>1 DEF TablesOK
    <3>3. QED
      BY <3>1, <3>2 DEF TablesOK
  <2>3. QED
    BY <2>1, <2>2
<1>8. /\ rejected' \in [Targets -> Marks] /\ desired' \in [Targets -> Marks]
      /\ failures' \in [Targets -> 0..FailureLimit] /\ queryRejected' \in [Targets -> BOOLEAN]
      /\ confirmed' \in [Targets -> Times \cup {0, Unheard}]
  <2>1. confirmed' = confirmed \/ confirmed' = [confirmed EXCEPT ![t] = v]
    BY <1>1 DEF TablesOK
  <2>2. QED
    BY <1>1, <1>2, <1>5, <2>1 DEF TablesOK
<1>9. TablesOK'
  BY <1>1, <1>6, <1>7, <1>8 DEF TablesOK
<1>10. PendingOK'
  BY <1>1, UnsettledFacts DEF PendingOK
<1>11. QED
  BY <1>9, <1>10

LEMMA HearFailureTypes ==
  ASSUME TablesOK, PendingOK, NEW f \in Failure, HearFailure(f), UNCHANGED <<marker, seen>>
  PROVE  TablesOK' /\ PendingOK'
<1> DEFINE fits == {i \in 1..Len(pending) : Answers(pending[i], f)}
           i    == CHOOSE k \in fits : \A l \in fits : k <= l
           r    == pending[i]
           n    == failures[r.target] + 1
           final == ~f.internal \/ n >= FailureLimit
           dropped == r.time # 0 /\ desired[r.target] <= r.time
           rest == [k \in 1..(Len(pending) - 1) |-> pending[IF k < i THEN k ELSE k + 1]]
<1>1. CASE fits = {}
  BY <1>1 DEF HearFailure, client, TablesOK, PendingOK
<1>2. CASE fits # {}
  <2>1. /\ pending' = rest
        /\ failures' = [failures EXCEPT ![r.target] = IF n > FailureLimit THEN @ ELSE n]
        /\ desired' = [desired EXCEPT ![r.target] = IF final /\ dropped THEN 0 ELSE @]
        /\ rejected' = [rejected EXCEPT ![r.target] = IF final /\ dropped THEN r.time ELSE @]
        /\ queryRejected' = [queryRejected EXCEPT ![r.target] = @ \/ (final /\ r.time = 0)]
        /\ UNCHANGED <<rows, unread, through, confirmed>>
    BY <1>2, Zenon DEF HearFailure
  <2>2. pending \in Seq(Request) /\ Len(pending) \in Nat /\ Len(pending) <= MaxPending
        /\ \A k \in 1..Len(pending) : pending[k] \in Request
    BY DEF PendingOK
  <2>3. i \in fits
    <3>1. fits \in SUBSET Nat
      OBVIOUS
    <3> HIDE DEF fits
    <3>2. \E k \in fits : \A l \in fits : k <= l
      BY <1>2, <3>1, Foremost
    <3>3. QED
      BY <3>2
  <2>4. i \in 1..Len(pending)
    <3> HIDE DEF i
    <3>1. QED
      BY <2>3
  <2> HIDE DEF i
  <2>5. r \in Request
    BY <2>2, <2>4
  <2>6. PendingOK'
    <3>1. \A k \in 1..(Len(pending) - 1) : (IF k < i THEN k ELSE k + 1) \in 1..Len(pending)
      BY <2>2, <2>4
    <3>2. Len(pending) - 1 \in Nat
      BY <2>2, <2>4
    <3>3. rest \in [1..(Len(pending) - 1) -> Request]
      BY <2>2, <3>1
    <3> HIDE DEF rest
    <3>4. rest \in Seq(Request) /\ Len(rest) = Len(pending) - 1
      BY <3>2, <3>3, FunctionIsSequence
    <3>5. QED
      BY <2>1, <2>2, <3>4, LimitsAssumption DEF PendingOK
  <2>7. r.target \in Targets /\ r.time \in Marks /\ 0 \in Marks
    <3> HIDE DEF r
    <3>1. QED
      BY <2>5 DEF Request, Marks
  <2> DEFINE x == r.target
             w == r.time
             over == final /\ dropped
             qover == final /\ w = 0
  <2>8. /\ failures' = [failures EXCEPT ![x] = IF failures[x] + 1 > FailureLimit
                                                 THEN failures[x] ELSE failures[x] + 1]
        /\ desired' = [desired EXCEPT ![x] = IF over THEN 0 ELSE desired[x]]
        /\ rejected' = [rejected EXCEPT ![x] = IF over THEN w ELSE rejected[x]]
        /\ queryRejected' = [queryRejected EXCEPT ![x] = queryRejected[x] \/ qover]
    BY <2>1
  <2>9. x \in Targets /\ w \in Marks
    BY <2>7
  <2>10. qover \in BOOLEAN
    BY Zenon
  <2> HIDE DEF x, w, over, qover
  <2>11. failures' \in [Targets -> 0..FailureLimit]
    BY <2>8, <2>9, LimitsAssumption DEF TablesOK
  <2>12. desired' \in [Targets -> Marks] /\ rejected' \in [Targets -> Marks]
    BY <2>7, <2>8, <2>9 DEF TablesOK
  <2>13. queryRejected' \in [Targets -> BOOLEAN]
    BY <2>8, <2>9 DEF TablesOK
  <2>14. TablesOK'
    BY <2>1, <2>11, <2>12, <2>13 DEF TablesOK
  <2>15. QED
    BY <2>6, <2>14
<1>3. QED
  BY <1>1, <1>2

LEMMA ReceiveTypes ==
  ASSUME TypeInv, Receive
  PROVE  TypeInv'
<1>1. /\ toClient # <<>> /\ toClient' = Tail(toClient)
      /\ UNCHANGED <<toServer, marker, seen, refused, left>>
  BY DEF Receive
<1>2. Head(toClient) \in Answer \cup Failure /\ Tail(toClient) \in Seq(Answer \cup Failure)
  <2>1. toClient \in Seq(Answer \cup Failure)
    BY DEF TypeInv, TrafficOK
  <2>2. QED
    BY <1>1, <2>1, HeadTailProperties
<1>3. TrafficOK'
  BY <1>1, <1>2 DEF TypeInv, TrafficOK
<1>4. CASE Head(toClient).type = "mark" /\ HearMark(Head(toClient).target, Head(toClient).time)
  <2>1. Head(toClient).target \in Targets /\ Head(toClient).time \in Marks
    BY <1>2, <1>4 DEF Answer, Failure, Marks
  <2>2. QED
    BY <1>1, <1>3, <1>4, <2>1, HearMarkTypes DEF TypeInv
<1>5. CASE Head(toClient).type = "fail" /\ HearFailure(Head(toClient))
  <2>1. Head(toClient) \in Failure
    BY <1>2, <1>5 DEF Answer, Failure
  <2>2. QED
    BY <1>1, <1>3, <1>5, <2>1, HearFailureTypes DEF TypeInv
<1>6. QED
  BY <1>4, <1>5 DEF Receive

LEMMA ReconnectTypes ==
  ASSUME TypeInv, Reconnect
  PROVE  TypeInv'
<1>1. PendingOK'
  BY LimitsAssumption DEF Reconnect, PendingOK
<1>2. TrafficOK'
  BY DEF Reconnect, TypeInv, TrafficOK
<1>3. TablesOK'
  BY LimitsAssumption DEF Reconnect, None, Marks, TypeInv, TablesOK
<1>4. QED
  BY <1>1, <1>2, <1>3 DEF TypeInv

\* The server's words are well formed.
LEMMA ServerTypes ==
  ASSUME TypeInv, Serve \/ \E t \in Targets : \E m \in Rows[t] : ReadElsewhere(t, m)
  PROVE  TypeInv'
<1>1. ASSUME NEW t \in Targets, marker'[t] \in Marks PROVE Marked(t) \in Answer
  BY <1>1 DEF Marked, Answer, Marks
<1>2. CASE Serve
  <2> DEFINE r == Head(toServer)
  <2>1. r \in Request /\ toServer' = Tail(toServer) /\ toServer' \in Seq(Request)
    <3>1. toServer \in Seq(Request) /\ toServer # <<>> /\ toServer' = Tail(toServer)
      BY <1>2 DEF Serve, TypeInv, TrafficOK
    <3>2. QED
      BY <3>1, HeadTailProperties
  <2>2. UNCHANGED <<client, seen>> /\ (Grant(r) \/ Refuse(r))
    BY <1>2 DEF Serve
  <2> HIDE DEF r
  <2>3. r.target \in Targets /\ r.time \in Marks
    BY <2>1 DEF Request, Marks
  <2>4. CASE Grant(r)
    <3>1. marker' \in [Targets -> Marks]
      <4>1. Larger(marker[r.target], r.time) \in Marks
        BY <2>3, LargerMark DEF TypeInv, TablesOK
      <4>2. QED
        BY <2>4, <4>1 DEF Grant, TypeInv, TablesOK
    <3>2. Marked(r.target) \in Answer
      BY <1>1, <2>3, <3>1
    <3>3. TrafficOK'
      BY <2>1, <2>4, <3>2 DEF Grant, TypeInv, TrafficOK
    <3>4. QED
      BY <2>2, <3>1, <3>3 DEF TypeInv, TablesOK, PendingOK, client
  <2>5. CASE Refuse(r)
    <3>1. PICK f \in Failure :
            /\ toClient' = Append(toClient, f)
            /\ refused' = [t \in Targets |->
                             IF Concerns(f, t) THEN Counting(refused[t], f) ELSE refused[t]]
      BY <2>5 DEF Refuse
    <3>2. refused \in [Targets -> 0..FailureLimit] /\ FailureLimit \in Nat
      BY LimitsAssumption DEF TypeInv, TrafficOK
    <3>3. refused' \in [Targets -> 0..FailureLimit]
      BY <3>1, <3>2 DEF Counting
    <3>4. TrafficOK'
      BY <2>1, <2>5, <3>1, <3>3 DEF Refuse, TypeInv, TrafficOK
    <3>5. marker' = marker
      BY <2>5 DEF Refuse
    <3>6. QED
      BY <2>2, <3>4, <3>5 DEF TypeInv, TablesOK, PendingOK, client
  <2>6. QED
    BY <2>2, <2>4, <2>5
<1>3. ASSUME NEW t \in Targets, NEW m \in Rows[t], ReadElsewhere(t, m) PROVE TypeInv'
  <2>1. m \in Marks
    BY TimesAreNumbers DEF Marks
  <2>2. marker' \in [Targets -> Marks]
    BY <1>3, <2>1 DEF ReadElsewhere, TypeInv, TablesOK
  <2>3. Marked(t) \in Answer
    BY <1>1, <2>2
  <2>4. TrafficOK'
    BY <1>3, <2>3 DEF ReadElsewhere, TypeInv, TrafficOK
  <2>5. QED
    BY <1>3, <2>2, <2>4 DEF ReadElsewhere, TypeInv, TablesOK, PendingOK, client
<1>4. QED
  BY <1>2, <1>3

LEMMA StepTypeInv == TypeInv /\ [Next]_vars => TypeInv'
<1> SUFFICES ASSUME TypeInv, [Next]_vars PROVE TypeInv'
  OBVIOUS
<1>1. CASE UNCHANGED vars
  BY <1>1 DEF vars, client, TypeInv, TablesOK, PendingOK, TrafficOK
<1>2. CASE Next
  BY <1>2, TimerTickTypes, ArriveTypes, ReadTypes, ReceiveTypes, ReconnectTypes, ServerTypes
     DEF Next
<1>3. QED
  BY <1>1, <1>2

\* The state of the read markers stays consistent: every mark on its way is
\* the server's, what counts as read was read, and what is to be reported
\* was read here.
THEOREM MarkersInvariant == Spec => []IndInv
<1>1. QED
  BY InitIndInv, StepIndInv, PTL DEF Spec

\* read_state.rs: a row no longer counts as unread only when it was read,
\* here or on another client, and no row at or below the marker counts.
THEOREM MarkersUnreadHonest == Spec => []UnreadHonest
<1>1. IndInv => UnreadHonest
  BY DEF IndInv, Sound, Honest, UnreadHonest
<1>2. QED
  BY <1>1, MarkersInvariant, PTL

\* read_markers.rs: a mark to be reported lies above what the server
\* confirmed and stays in force until then.
THEOREM MarkersStand == Spec => []MarkStands
<1>1. IndInv => MarkStands
  BY DEF IndInv, Sound, Stands, MarkStands
<1>2. QED
  BY <1>1, MarkersInvariant, PTL

\* Every request without an answer is remembered and there is room for it
\* (tick_read_markers); refusals are counted up to the limit.
THEOREM MarkersTypeOK == Spec => []TypeOK
<1>1. TypeInv /\ [Next]_vars => TypeInv'
  BY StepTypeInv
<1>2. TypeInv => TypeOK
  BY DEF TypeInv, TablesOK, PendingOK, TrafficOK, TypeOK, Marks
<1>3. QED
  BY <1>1, <1>2, InitTypeInv, PTL DEF Spec

=============================================================================
