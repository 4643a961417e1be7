-------------------------- MODULE TranslateLimiter --------------------------
(***************************************************************************)
(* The translation concurrency limiter of src/src/app/translate.rs         *)
(* (TranslateLimiter, Counts): a tokio semaphore, and next to it two       *)
(* counters under a mutex.  `total` is the permits minted less those       *)
(* retired, `debt` a reduction that could not be applied because the       *)
(* permits it wants were checked out.  Callers are the tasks that take a   *)
(* permit for one request (the incoming worker and the connection lanes);  *)
(* the main loop retunes the ceiling and settles the debt from its tick.   *)
(*                                                                         *)
(* The semaphore is modelled from the way the code uses tokio's: a permit  *)
(* returned while callers wait belongs to the first of them, so            *)
(* forget_permits never sees it.  `pool` counts the permits nobody has     *)
(* picked up: the first pool callers of `waiters` own one each, and only   *)
(* what is left over is idle.                                              *)
(***************************************************************************)
EXTENDS Integers, Sequences, FiniteSets, SequencesExt

CONSTANTS Callers,      \* tasks that ask for a permit
          Wants,        \* values translate.max_in_flight may be set to
          MaxRetunes    \* bound: how often the user changes the setting

ASSUME CallersAssumption == IsFiniteSet(Callers)
ASSUME WantsAssumption == Wants \subseteq Nat
ASSUME MaxRetunesAssumption == MaxRetunes \in Nat

VARIABLES total, debt,  \* struct Counts
          pool,         \* permits in the semaphore not yet picked up
          waiters,      \* callers queued on the semaphore, first come first
          pc,           \* where each caller is in acquire()
          target,       \* the clamped setting last asked for
          retunes       \* settings changed so far

vars == <<total, debt, pool, waiters, pc, target, retunes>>

Steps == {"idle", "waiting", "checking", "retiring", "working"}

\* Mutant of Clamp: a setting of zero is taken at its word.
NoFloor(want) == want

\* want.max(1): a ceiling of zero would block every caller for good.
Clamp(want) == IF want < 1 THEN 1 ELSE want

Lesser(a, b) == IF a < b THEN a ELSE b

\* Counts::effective, a saturating subtraction
Effective == IF total < debt THEN 0 ELSE total - debt

\* Callers that hold a permit counted in `total`.
Holding == {c \in Callers : pc[c] \in {"checking", "working"}}

\* Permits forget_permits can take: the pool beyond what the waiters own.
Idle == IF pool > Len(waiters) THEN pool - Len(waiters) ELSE 0

Init ==
  /\ target \in {Clamp(w) : w \in Wants}
  /\ total = target
  /\ debt = 0
  /\ pool = target
  /\ waiters = <<>>
  /\ pc = [c \in Callers |-> "idle"]
  /\ retunes = 0

-----------------------------------------------------------------------------
(* acquire(), one action per point where another task can run. *)

\* acquire_owned(): join the semaphore's queue.
Ask(c) ==
  /\ pc[c] = "idle"
  /\ pc' = [pc EXCEPT ![c] = "waiting"]
  /\ waiters' = Append(waiters, c)
  /\ UNCHANGED <<total, debt, pool, target, retunes>>

\* The await returns for one of the waiters that owns a permit.
Granted(c) ==
  /\ \E i \in 1..Len(waiters) :
       /\ i <= pool
       /\ waiters[i] = c
       /\ waiters' = RemoveAt(waiters, i)
  /\ pool' = pool - 1
  /\ pc' = [pc EXCEPT ![c] = "checking"]
  /\ UNCHANGED <<total, debt, target, retunes>>

\* Mutant of Claim: retires the permit without counting it out.
ClaimUncounted(c) ==
  /\ pc[c] = "checking"
  /\ IF debt > 0
       THEN /\ debt' = debt - 1
            /\ pc' = [pc EXCEPT ![c] = "retiring"]
       ELSE /\ pc' = [pc EXCEPT ![c] = "working"]
            /\ UNCHANGED debt
  /\ UNCHANGED <<total, pool, waiters, target, retunes>>

\* Mutant of Claim: works although a reduction is owed.
ClaimRegardless(c) ==
  /\ pc[c] = "checking"
  /\ pc' = [pc EXCEPT ![c] = "working"]
  /\ UNCHANGED <<total, debt, pool, waiters, target, retunes>>

\* Under the lock: while a reduction is owed the permit pays for one unit of
\* it, otherwise the caller keeps it and calls the provider.
Claim(c) ==
  /\ pc[c] = "checking"
  /\ IF debt > 0
       THEN /\ debt' = debt - 1
            /\ total' = total - 1
            /\ pc' = [pc EXCEPT ![c] = "retiring"]
       ELSE /\ pc' = [pc EXCEPT ![c] = "working"]
            /\ UNCHANGED <<debt, total>>
  /\ UNCHANGED <<pool, waiters, target, retunes>>

\* Mutant of Forget: gives up instead of asking again.
ForgetAndLeave(c) ==
  /\ pc[c] = "retiring"
  /\ pc' = [pc EXCEPT ![c] = "idle"]
  /\ UNCHANGED <<total, debt, pool, waiters, target, retunes>>

\* permit.forget() after the lock is released, then the loop asks again.
Forget(c) ==
  /\ pc[c] = "retiring"
  /\ pc' = [pc EXCEPT ![c] = "waiting"]
  /\ waiters' = Append(waiters, c)
  /\ UNCHANGED <<total, debt, pool, target, retunes>>

\* The provider call ends (answer, timeout or caught panic) and the permit is
\* dropped back into the semaphore.
Finish(c) ==
  /\ pc[c] = "working"
  /\ pc' = [pc EXCEPT ![c] = "idle"]
  /\ pool' = pool + 1
  /\ UNCHANGED <<total, debt, waiters, target, retunes>>

-----------------------------------------------------------------------------
(* The main loop. *)

\* Mutant of SettleLocked: takes what is owed, idle or not.
SettleAll(owed, held) ==
  /\ debt' = 0
  /\ total' = held - owed
  /\ pool' = pool - owed

\* settle_locked: retire as much of what is owed as is idle now.
SettleLocked(owed, held) ==
  LET forgotten == Lesser(owed, Idle)
  IN  /\ debt' = owed - forgotten
      /\ total' = held - forgotten
      /\ pool' = pool - forgotten

\* Mutant of Settle: left to traffic.
SettleNothing == FALSE /\ UNCHANGED vars

\* settle(), from the one-second tick.
Settle ==
  /\ debt > 0
  /\ SettleLocked(debt, total)
  /\ UNCHANGED <<waiters, pc, target, retunes>>

\* retune to a higher ceiling: cancel what is still owed, mint the rest.
Raise(want) ==
  LET have   == Effective
      cancel == Lesser(want - have, debt)
      mint   == (want - have) - cancel
  IN  /\ want > have
      /\ debt' = debt - cancel
      /\ total' = total + mint
      /\ pool' = pool + mint

\* retune to a lower ceiling: record the debt and settle what is idle.
Lower(want) ==
  /\ want < Effective
  /\ SettleLocked(debt + (Effective - want), total)

Retune(want) ==
  /\ retunes < MaxRetunes
  /\ retunes' = retunes + 1
  /\ Clamp(want) # Effective
  /\ target' = Clamp(want)
  /\ Raise(Clamp(want)) \/ Lower(Clamp(want))
  /\ UNCHANGED <<waiters, pc>>

-----------------------------------------------------------------------------
Acquire(c) == Granted(c) \/ Claim(c) \/ Forget(c)

Next ==
  \/ \E c \in Callers : Ask(c) \/ Acquire(c) \/ Finish(c)
  \/ Settle
  \/ \E w \in Wants : Retune(w)

Spec == Init /\ [][Next]_vars

\* A runnable task runs, a provider call is bounded by its timeout, and the
\* tick comes round.  Nothing makes a caller ask, nor the user retune.
Fairness ==
  /\ \A c \in Callers : WF_vars(Acquire(c)) /\ WF_vars(Finish(c))
  /\ WF_vars(Settle)

FairSpec == Spec /\ Fairness

-----------------------------------------------------------------------------
TypeOK ==
  /\ total \in Nat /\ debt \in Nat /\ pool \in Nat
  /\ waiters \in Seq(Callers)
  /\ pc \in [Callers -> Steps]
  /\ target \in Nat
  /\ retunes \in 0..MaxRetunes

\* Counts::check: a reduction never promises away the last permit, whatever
\* retunes, settles and claims overlap with permits checked out.
NeverWedged == total > debt

\* `total` is exactly the permits that exist: in the semaphore, or held by a
\* caller that has not been told to retire its own.
PermitsConserved == total = pool + Cardinality(Holding)

\* The ceiling in force is the one last configured, even when a reduction was
\* only partly applied before the setting moved again.
EffectiveIsTarget == Effective = target

\* Each queued caller is queued once, and only while it waits.
WaitersWait ==
  /\ \A i \in 1..Len(waiters) : pc[waiters[i]] = "waiting"
  /\ \A i, j \in 1..Len(waiters) : waiters[i] = waiters[j] => i = j

\* What the other invariants need to be inductive.
IndInv == TypeOK /\ WaitersWait /\ PermitsConserved /\ NeverWedged /\ EffectiveIsTarget

Working == {c \in Callers : pc[c] = "working"}

\* acquire(): no provider call starts while more than the configured number
\* would then be running; calls above a lowered ceiling only finish.
StartsWithinCeiling ==
  [][Working' \ Working # {} => Cardinality(Working') <= target']_vars

\* A lowered max_in_flight is fully applied in the end, also when the traffic
\* that should have paid for it stops.
ReductionLands == (debt > 0) ~> (debt = 0)

\* No caller waits for a permit for ever, although claims send it back to
\* the end of the queue.
EveryCallerServed == \A c \in Callers : (pc[c] = "waiting") ~> (pc[c] = "working")
=============================================================================
