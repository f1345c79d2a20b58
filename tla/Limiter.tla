------------------------------- MODULE Limiter ------------------------------
(***************************************************************************)
(* ObservableLimiter of utils/concurrency.py: a counter guarded by an       *)
(* asyncio.Condition.  All of its code runs on one event loop, and a step   *)
(* below is what runs between two suspension points:                        *)
(*   - `acquire` runs until it returns a token or suspends in               *)
(*     `Condition.wait` (Enter, and Rerun after a notification);            *)
(*   - `release` and `set_limit` are synchronous: they change the counters  *)
(*     and only SCHEDULE a `_wake_waiters` task, which notifies later       *)
(*     (Wake);                                                              *)
(*   - a cancelled waiter leaves through `except BaseException`             *)
(*     (CancelWaiter).                                                      *)
(* Between a release and its Wake, and between a Wake and a waiter's Rerun, *)
(* a newcomer may take the slot.                                            *)
(***************************************************************************)
EXTENDS Naturals, FiniteSets

CONSTANTS Tasks,      \* asyncio tasks
          Limits,     \* capacities that set_limit accepts
          MaxWakes    \* bound: `_wake_waiters` tasks scheduled and not yet run

ASSUME TasksFinite == IsFiniteSet(Tasks)
ASSUME CapacitiesPositive == Limits \subseteq (Nat \ {0})   \* ValueError below 1
ASSUME MaxWakesPositive == MaxWakes \in Nat \ {0}

VARIABLES limit,      \* _limit
          active,     \* _active
          queued,     \* _queued
          place,      \* where each task stands in acquire / release
          wakes       \* scheduled `_wake_waiters` tasks

limiterVars == <<limit, active, queued, place, wakes>>

(* "out": does not use the limiter; "parked": suspended in Condition.wait;  *)
(* "woken": its future is set, it has not run yet; "in": holds a token.     *)
Places == {"out", "parked", "woken", "in"}

Holding == {t \in Tasks : place[t] = "in"}
Parked  == {t \in Tasks : place[t] = "parked"}
Woken   == {t \in Tasks : place[t] = "woken"}
Waiting == Parked \cup Woken

LimiterInit ==
  /\ limit \in Limits
  /\ active = 0
  /\ queued = 0
  /\ place = [t \in Tasks |-> "out"]
  /\ wakes = 0

-----------------------------------------------------------------------------

(* acquire, first run: queued += 1, then either a token at once             *)
(* (queued -= 1, active += 1) or Condition.wait.                            *)
Enter(t) ==
  /\ place[t] = "out"
  /\ \/ /\ active < limit
        /\ active' = active + 1
        /\ place' = [place EXCEPT ![t] = "in"]
        /\ UNCHANGED queued
     \/ /\ active >= limit
        /\ queued' = queued + 1
        /\ place' = [place EXCEPT ![t] = "parked"]
        /\ UNCHANGED active
  /\ UNCHANGED <<limit, wakes>>

(* Mutant of Rerun: `if` in the place of `while`, the counter not tested    *)
(* again after the notification.                                            *)
MutRerunWithoutTest(t) ==
  /\ place[t] = "woken"
  /\ active' = active + 1
  /\ queued' = queued - 1
  /\ place' = [place EXCEPT ![t] = "in"]
  /\ UNCHANGED <<limit, wakes>>

(* Mutant of Rerun: `_queued -= 1` inside the loop. *)
MutRerunCountsTwice(t) ==
  /\ place[t] = "woken"
  /\ queued' = queued - 1
  /\ IF active < limit
       THEN active' = active + 1 /\ place' = [place EXCEPT ![t] = "in"]
       ELSE place' = [place EXCEPT ![t] = "parked"] /\ UNCHANGED active
  /\ UNCHANGED <<limit, wakes>>

(* A notified waiter runs: the `while` tests the counter again. *)
Rerun(t) ==
  /\ place[t] = "woken"
  /\ \/ /\ active < limit
        /\ active' = active + 1
        /\ queued' = queued - 1
        /\ place' = [place EXCEPT ![t] = "in"]
     \/ /\ active >= limit
        /\ place' = [place EXCEPT ![t] = "parked"]
        /\ UNCHANGED <<active, queued>>
  /\ UNCHANGED <<limit, wakes>>

(* Mutant of CancelWaiter: no `except BaseException` around the wait. *)
MutCancelWithoutHandler(t) ==
  /\ place[t] \in {"parked", "woken"}
  /\ place' = [place EXCEPT ![t] = "out"]
  /\ UNCHANGED <<limit, active, queued, wakes>>

(* CancelledError inside Condition.wait, notified or not. *)
CancelWaiter(t) ==
  /\ place[t] \in {"parked", "woken"}
  /\ queued' = queued - 1
  /\ place' = [place EXCEPT ![t] = "out"]
  /\ UNCHANGED <<limit, active, wakes>>

(* Mutant of Exit: release does not schedule _wake_waiters. *)
MutExitWithoutWake(t) ==
  /\ place[t] = "in"
  /\ active' = active - 1
  /\ place' = [place EXCEPT ![t] = "out"]
  /\ UNCHANGED <<limit, queued, wakes>>

(* release: the holder's body ended, normally, by an exception or by a      *)
(* cancellation; __aexit__ runs in every case.                              *)
Exit(t) ==
  /\ place[t] = "in"
  /\ wakes < MaxWakes
  /\ active' = active - 1
  /\ place' = [place EXCEPT ![t] = "out"]
  /\ wakes' = wakes + 1
  /\ UNCHANGED <<limit, queued>>

(* replace_limiters / register_task_limiter on a limiter that exists. *)
SetLimit(n) ==
  /\ wakes < MaxWakes
  /\ limit' = n
  /\ wakes' = wakes + 1
  /\ UNCHANGED <<active, queued, place>>

(* Mutant of Wake: notify() in the place of notify_all(). *)
MutWakeOne ==
  /\ wakes > 0
  /\ wakes' = wakes - 1
  /\ \/ Parked = {} /\ UNCHANGED place
     \/ \E t \in Parked : place' = [place EXCEPT ![t] = "woken"]
  /\ UNCHANGED <<limit, active, queued>>

(* _wake_waiters: notify_all sets the future of every parked task. *)
Wake ==
  /\ wakes > 0
  /\ wakes' = wakes - 1
  /\ place' = [t \in Tasks |-> IF place[t] = "parked" THEN "woken" ELSE place[t]]
  /\ UNCHANGED <<limit, active, queued>>

LimiterNext ==
  \/ \E t \in Tasks : Enter(t) \/ Rerun(t) \/ CancelWaiter(t) \/ Exit(t)
  \/ \E n \in Limits : SetLimit(n)
  \/ Wake

LimiterSpec == LimiterInit /\ [][LimiterNext]_limiterVars

(* The event loop runs every task that is ready: the scheduled wake-ups and *)
(* the notified waiters.  Nothing obliges a holder to finish or a client to *)
(* come, so those get no fairness.                                          *)
LimiterFairness == WF_limiterVars(Wake) /\ \A t \in Tasks : WF_limiterVars(Rerun(t))

LimiterFairSpec == LimiterSpec /\ LimiterFairness

-----------------------------------------------------------------------------

(* Type correctness of the counters of ObservableLimiter; the capacity is   *)
(* never below one and no counter goes negative.                            *)
LimiterTypeOK ==
  /\ limit \in Limits
  /\ active \in Nat
  /\ queued \in Nat
  /\ place \in [Tasks -> Places]
  /\ wakes \in 0..MaxWakes

(* The counters shown on the monitoring page are exact on every path        *)
(* through acquire and release, cancellation included: `_active` is the     *)
(* number of token holders and `_queued` the number of waiters.  A leaked   *)
(* count would shrink the pool for ever.                                    *)
CountersExact ==
  /\ active = Cardinality(Holding)
  /\ queued = Cardinality(Waiting)

(* No lost wake-up: a waiter that sleeps in Condition.wait while a slot is  *)
(* free is always about to be notified, whatever the order of release,      *)
(* set_limit, barging newcomers and cancellations.                          *)
NoLostWakeup ==
  (Parked # {} /\ active < limit) => wakes > 0

(* A free slot does not stay unused while somebody waits for it. *)
FreeSlotIsUsed ==
  (Waiting # {} /\ active < limit) ~> (Waiting = {} \/ active >= limit)

-----------------------------------------------------------------------------

(* The pool of the abstract contract: its holders hold a token here, its    *)
(* waiters are parked or woken.  Waking is invisible.                       *)
Pool == INSTANCE SlotPool WITH
          Clients <- Tasks, holders <- Holding, waiting <- Waiting

(* ObservableLimiter hands out slots only below its capacity and never      *)
(* revokes one: it implements the contract of SlotPool.                     *)
PoolContract == Pool!PoolSpec
=============================================================================
