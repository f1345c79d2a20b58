---------------------------- MODULE LimiterProofs ---------------------------
(***************************************************************************)
(* Proofs about ObservableLimiter (module Limiter), for every set of tasks  *)
(* and every set of capacities.                                             *)
(*                                                                         *)
(* LimiterTypeOK is not inductive by itself: that `_active` and `_queued` stay     *)
(* natural numbers follows from what they count.  The inductive invariant   *)
(* is therefore LimiterTypeOK /\ CountersExact; NoLostWakeup and the refinement of *)
(* SlotPool are proved relative to it.                                      *)
(***************************************************************************)
EXTENDS Limiter, TLAPS, FiniteSetTheorems

Counting == LimiterTypeOK /\ CountersExact

-----------------------------------------------------------------------------
(* Lemmas about the places of the tasks.                                    *)

(* The tasks at any place form a finite set. *)
LEMMA PlacesFinite ==
  /\ IsFiniteSet(Holding)
  /\ IsFiniteSet(Waiting)
<1>1. Holding \in SUBSET Tasks /\ Waiting \in SUBSET Tasks
  BY DEF Holding, Waiting, Parked, Woken
<1> QED  BY <1>1, TasksFinite, FS_Subset

(* A task that moves joins the set of its new place and leaves the others. *)
LEMMA Move ==
  ASSUME LimiterTypeOK, NEW t \in Tasks, NEW p \in Places,
         place' = [place EXCEPT ![t] = p]
  PROVE  /\ place' \in [Tasks -> Places]
         /\ Holding' = IF p = "in" THEN Holding \cup {t} ELSE Holding \ {t}
         /\ Waiting' = IF p \in {"parked", "woken"}
                         THEN Waiting \cup {t} ELSE Waiting \ {t}
         /\ Parked' = IF p = "parked" THEN Parked \cup {t} ELSE Parked \ {t}
<1>1. place' \in [Tasks -> Places]  BY DEF LimiterTypeOK
<1>2. \A u \in Tasks : place'[u] = IF u = t THEN p ELSE place[u]
  BY DEF LimiterTypeOK
<1>3. Parked' = IF p = "parked" THEN Parked \cup {t} ELSE Parked \ {t}
  BY <1>2 DEF Parked
<1>4. Woken' = IF p = "woken" THEN Woken \cup {t} ELSE Woken \ {t}
  BY <1>2 DEF Woken
<1>5. Holding' = IF p = "in" THEN Holding \cup {t} ELSE Holding \ {t}
  BY <1>2 DEF Holding
<1>6. Waiting' = IF p \in {"parked", "woken"}
                   THEN Waiting \cup {t} ELSE Waiting \ {t}
  BY <1>3, <1>4 DEF Waiting
<1> QED  BY <1>1, <1>3, <1>5, <1>6

(* Removing what a set does not hold changes nothing. *)
LEMMA Absent ==
  ASSUME NEW S, NEW x, x \notin S
  PROVE  S \ {x} = S
OBVIOUS

(* A task is at one place only. *)
LEMMA OnePlace ==
  ASSUME NEW t \in Tasks
  PROVE  /\ t \in Holding <=> place[t] = "in"
         /\ t \in Waiting <=> place[t] \in {"parked", "woken"}
         /\ t \in Parked  <=> place[t] = "parked"
BY DEF Holding, Waiting, Parked, Woken

-----------------------------------------------------------------------------
(* The counters.                                                            *)

(* At first nobody holds a token, nobody waits, and the counters are zero. *)
LEMMA CountingInit == LimiterInit => Counting
<1> SUFFICES ASSUME LimiterInit PROVE Counting
  OBVIOUS
<1>1. Holding = {} /\ Waiting = {}
  BY DEF LimiterInit, Holding, Waiting, Parked, Woken
<1>2. CountersExact
  BY <1>1, FS_EmptySet DEF LimiterInit, CountersExact
<1>3. LimiterTypeOK
  BY MaxWakesPositive DEF LimiterInit, LimiterTypeOK, Places
<1> QED  BY <1>2, <1>3 DEF Counting

(* Every step of the limiter keeps the counters equal to what they count.   *)
LEMMA CountingStep == Counting /\ [LimiterNext]_limiterVars => Counting'
<1> SUFFICES ASSUME Counting, [LimiterNext]_limiterVars PROVE Counting'
  OBVIOUS
<1> USE DEF Counting
<1>l. limit \in Nat /\ CapacitiesPositive
  BY CapacitiesPositive DEF LimiterTypeOK
<1>w. MaxWakes \in Nat  BY MaxWakesPositive
<1>c. /\ active = Cardinality(Holding) /\ active \in Nat
      /\ queued = Cardinality(Waiting) /\ queued \in Nat
  BY DEF CountersExact, LimiterTypeOK
<1>1. ASSUME NEW t \in Tasks, Enter(t) PROVE Counting'
  <2>0. t \notin Holding /\ t \notin Waiting
    BY <1>1, OnePlace DEF Enter
  <2>1. CASE active < limit /\ active' = active + 1
              /\ place' = [place EXCEPT ![t] = "in"] /\ UNCHANGED queued
    <3>1. /\ Holding' = Holding \cup {t} /\ Waiting' = Waiting
          /\ place' \in [Tasks -> Places]
      BY <2>0, <2>1, Move, Absent DEF Places
    <3>2. Cardinality(Holding \cup {t}) = Cardinality(Holding) + 1
      BY <2>0, PlacesFinite, FS_AddElement
    <3> QED  BY <1>1, <1>c, <2>1, <3>1, <3>2 DEF Enter, LimiterTypeOK, CountersExact
  <2>2. CASE active >= limit /\ queued' = queued + 1
              /\ place' = [place EXCEPT ![t] = "parked"] /\ UNCHANGED active
    <3>1. /\ Holding' = Holding /\ Waiting' = Waiting \cup {t}
          /\ place' \in [Tasks -> Places]
      BY <2>0, <2>2, Move, Absent DEF Places
    <3>2. Cardinality(Waiting \cup {t}) = Cardinality(Waiting) + 1
      BY <2>0, PlacesFinite, FS_AddElement
    <3> QED  BY <1>1, <1>c, <2>2, <3>1, <3>2 DEF Enter, LimiterTypeOK, CountersExact
  <2> QED  BY <1>1, <2>1, <2>2 DEF Enter
<1>2. ASSUME NEW t \in Tasks, Rerun(t) PROVE Counting'
  <2>0. t \notin Holding /\ t \in Waiting
    BY <1>2, OnePlace DEF Rerun
  <2>1. CASE active < limit /\ active' = active + 1 /\ queued' = queued - 1
              /\ place' = [place EXCEPT ![t] = "in"]
    <3>1. /\ Holding' = Holding \cup {t} /\ Waiting' = Waiting \ {t}
          /\ place' \in [Tasks -> Places]
      BY <2>0, <2>1, Move, Absent DEF Places
    <3>2. Cardinality(Holding \cup {t}) = Cardinality(Holding) + 1
      BY <2>0, PlacesFinite, FS_AddElement
    <3>3. /\ Cardinality(Waiting \ {t}) = Cardinality(Waiting) - 1
          /\ Cardinality(Waiting \ {t}) \in Nat
      BY <2>0, PlacesFinite, FS_RemoveElement, FS_CardinalityType
    <3> QED  BY <1>2, <1>c, <2>1, <3>1, <3>2, <3>3
             DEF Rerun, LimiterTypeOK, CountersExact
  <2>2. CASE place' = [place EXCEPT ![t] = "parked"] /\ UNCHANGED <<active, queued>>
    <3>0. Waiting \cup {t} = Waiting  BY <2>0
    <3>1. /\ Holding' = Holding /\ Waiting' = Waiting
          /\ place' \in [Tasks -> Places]
      BY <2>0, <2>2, <3>0, Move, Absent DEF Places
    <3> QED  BY <1>2, <1>c, <2>2, <3>1 DEF Rerun, LimiterTypeOK, CountersExact
  <2> QED  BY <1>2, <2>1, <2>2 DEF Rerun
<1>3. ASSUME NEW t \in Tasks, CancelWaiter(t) PROVE Counting'
  <2>0. t \notin Holding /\ t \in Waiting
    BY <1>3, OnePlace DEF CancelWaiter
  <2>1. /\ Holding' = Holding /\ Waiting' = Waiting \ {t}
        /\ place' \in [Tasks -> Places]
    BY <1>3, <2>0, Move, Absent DEF CancelWaiter, Places
  <2>2. /\ Cardinality(Waiting \ {t}) = Cardinality(Waiting) - 1
        /\ Cardinality(Waiting \ {t}) \in Nat
    BY <2>0, PlacesFinite, FS_RemoveElement, FS_CardinalityType
  <2> QED  BY <1>3, <1>c, <2>1, <2>2 DEF CancelWaiter, LimiterTypeOK, CountersExact
<1>4. ASSUME NEW t \in Tasks, Exit(t) PROVE Counting'
  <2>0. t \in Holding /\ t \notin Waiting
    BY <1>4, OnePlace DEF Exit
  <2>1. /\ Holding' = Holding \ {t} /\ Waiting' = Waiting
        /\ place' \in [Tasks -> Places]
    BY <1>4, <2>0, Move, Absent DEF Exit, Places
  <2>2. /\ Cardinality(Holding \ {t}) = Cardinality(Holding) - 1
        /\ Cardinality(Holding \ {t}) \in Nat
    BY <2>0, PlacesFinite, FS_RemoveElement, FS_CardinalityType
  <2> QED  BY <1>4, <1>c, <1>w, <2>1, <2>2 DEF Exit, LimiterTypeOK, CountersExact
<1>5. ASSUME NEW n \in Limits, SetLimit(n) PROVE Counting'
  <2>1. Holding' = Holding /\ Waiting' = Waiting
    BY <1>5 DEF SetLimit, Holding, Waiting, Parked, Woken
  <2> QED  BY <1>5, <1>c, <1>w, <2>1 DEF SetLimit, LimiterTypeOK, CountersExact
<1>6. ASSUME Wake PROVE Counting'
  <2>1. Holding' = Holding /\ Waiting' = Waiting /\ place' \in [Tasks -> Places]
    BY <1>6 DEF Wake, Holding, Waiting, Parked, Woken, LimiterTypeOK, Places
  <2> QED  BY <1>6, <1>c, <1>w, <2>1 DEF Wake, LimiterTypeOK, CountersExact
<1>7. ASSUME UNCHANGED limiterVars PROVE Counting'
  BY <1>7 DEF limiterVars, LimiterTypeOK, CountersExact, Holding, Waiting, Parked, Woken
<1> QED  BY <1>1, <1>2, <1>3, <1>4, <1>5, <1>6, <1>7 DEF LimiterNext

(* The counters count, in every reachable state. *)
LEMMA CountingInvariant == LimiterSpec => []Counting
BY CountingInit, CountingStep, PTL DEF LimiterSpec

(* The counters keep their types: `_active` and `_queued` never go below    *)
(* zero, whatever is cancelled.                                             *)
THEOREM LimiterTypes == LimiterSpec => []LimiterTypeOK
<1>1. Counting => LimiterTypeOK  BY DEF Counting
<1> QED  BY <1>1, CountingInvariant, PTL

(* The monitored counters are exact for any number of tasks: no path        *)
(* through acquire, release or cancellation leaks a slot.                   *)
THEOREM LimiterCountersExact == LimiterSpec => []CountersExact
<1>1. Counting => CountersExact  BY DEF Counting
<1> QED  BY <1>1, CountingInvariant, PTL

-----------------------------------------------------------------------------
(* Wake-ups.                                                                *)

(* With notify_all a waiter never sleeps beside a free slot without a       *)
(* pending notification.                                                    *)
THEOREM LimiterNoLostWakeup == LimiterSpec => []NoLostWakeup
<1>1. LimiterInit => NoLostWakeup
  BY DEF LimiterInit, NoLostWakeup, Parked
<1>2. Counting /\ NoLostWakeup /\ [LimiterNext]_limiterVars => NoLostWakeup'
  <2> SUFFICES ASSUME Counting, NoLostWakeup, [LimiterNext]_limiterVars PROVE NoLostWakeup'
    OBVIOUS
  <2>t. /\ LimiterTypeOK /\ active \in Nat /\ wakes \in Nat
        /\ limit \in Nat
    BY CapacitiesPositive, MaxWakesPositive DEF Counting, LimiterTypeOK
  <2>1. ASSUME NEW t \in Tasks, Enter(t) PROVE NoLostWakeup'
    <3>1. CASE active < limit /\ active' = active + 1
                /\ place' = [place EXCEPT ![t] = "in"]
      <4>1. Parked' = Parked \ {t}  BY <2>t, <3>1, Move, Absent DEF Places
      <4> QED  BY <2>1, <2>t, <3>1, <4>1 DEF Enter, NoLostWakeup
    <3>2. CASE active >= limit /\ UNCHANGED active
      BY <2>1, <2>t, <3>2 DEF Enter, NoLostWakeup
    <3> QED  BY <2>1, <3>1, <3>2 DEF Enter
  <2>2. ASSUME NEW t \in Tasks, Rerun(t) PROVE NoLostWakeup'
    <3>1. CASE active < limit /\ active' = active + 1
                /\ place' = [place EXCEPT ![t] = "in"]
      <4>1. Parked' = Parked \ {t}  BY <2>t, <3>1, Move, Absent DEF Places
      <4> QED  BY <2>2, <2>t, <3>1, <4>1 DEF Rerun, NoLostWakeup
    <3>2. CASE active >= limit /\ UNCHANGED active
      BY <2>2, <2>t, <3>2 DEF Rerun, NoLostWakeup
    <3> QED  BY <2>2, <3>1, <3>2 DEF Rerun
  <2>3. ASSUME NEW t \in Tasks, CancelWaiter(t) PROVE NoLostWakeup'
    <3>1. Parked' = Parked \ {t}
      BY <2>3, <2>t, Move, Absent DEF CancelWaiter, Places
    <3> QED  BY <2>3, <3>1 DEF CancelWaiter, NoLostWakeup
  <2>4. ASSUME NEW t \in Tasks, Exit(t) PROVE NoLostWakeup'
    BY <2>4, <2>t DEF Exit, NoLostWakeup
  <2>5. ASSUME NEW n \in Limits, SetLimit(n) PROVE NoLostWakeup'
    BY <2>5, <2>t DEF SetLimit, NoLostWakeup
  <2>6. ASSUME Wake PROVE NoLostWakeup'
    <3>1. Parked' = {}
      BY <2>6, <2>t DEF Wake, Parked, LimiterTypeOK
    <3> QED  BY <3>1 DEF NoLostWakeup
  <2>7. ASSUME UNCHANGED limiterVars PROVE NoLostWakeup'
    BY <2>7 DEF limiterVars, NoLostWakeup, Parked
  <2> QED  BY <2>1, <2>2, <2>3, <2>4, <2>5, <2>6, <2>7 DEF LimiterNext
<1> QED  BY <1>1, <1>2, CountingInvariant, PTL DEF LimiterSpec

-----------------------------------------------------------------------------
(* Refinement.                                                              *)

(* ObservableLimiter implements the contract of SlotPool: a slot is handed  *)
(* out only below the capacity, only to a task that asked, and is never     *)
(* taken back; wake-ups are stuttering steps.                               *)
THEOREM LimiterImplementsPool == LimiterSpec => PoolContract
<1>1. LimiterInit => Pool!PoolInit
  BY DEF LimiterInit, Pool!PoolInit, Holding, Waiting, Parked, Woken
<1>2. Counting /\ [LimiterNext]_limiterVars => [Pool!PoolNext]_(Pool!poolVars)
  <2> SUFFICES ASSUME Counting, [LimiterNext]_limiterVars
               PROVE  Pool!PoolNext \/ UNCHANGED Pool!poolVars
    OBVIOUS
  <2>t. /\ LimiterTypeOK /\ active \in Nat /\ limit \in Nat
        /\ active = Cardinality(Holding)
    BY CapacitiesPositive DEF Counting, LimiterTypeOK, CountersExact
  <2>f. Pool!Free <=> active < limit
    BY <2>t DEF Pool!Free, Pool!Cardinality, Cardinality
  <2>1. ASSUME NEW t \in Tasks, Enter(t) PROVE Pool!Arrive(t)
    <3>0. t \notin Holding \cup Waiting
      BY <2>1, OnePlace DEF Enter
    <3>1. CASE active < limit /\ place' = [place EXCEPT ![t] = "in"]
      <4>1. Holding' = Holding \cup {t} /\ Waiting' = Waiting
        BY <2>t, <3>0, <3>1, Move, Absent DEF Places
      <4> QED  BY <2>1, <2>f, <3>0, <3>1, <4>1 DEF Enter, Pool!Arrive
    <3>2. CASE active >= limit /\ place' = [place EXCEPT ![t] = "parked"]
      <4>1. Holding' = Holding /\ Waiting' = Waiting \cup {t}
        BY <2>t, <3>0, <3>2, Move, Absent DEF Places
      <4>2. ~Pool!Free  BY <2>t, <2>f, <3>2
      <4> QED  BY <2>1, <3>0, <4>1, <4>2 DEF Enter, Pool!Arrive
    <3> QED  BY <2>1, <3>1, <3>2 DEF Enter
  <2>2. ASSUME NEW t \in Tasks, Rerun(t)
        PROVE  Pool!Grant(t) \/ UNCHANGED Pool!poolVars
    <3>0. t \in Waiting /\ t \notin Holding
      BY <2>2, OnePlace DEF Rerun
    <3>1. CASE active < limit /\ place' = [place EXCEPT ![t] = "in"]
      <4>1. Holding' = Holding \cup {t} /\ Waiting' = Waiting \ {t}
        BY <2>t, <3>0, <3>1, Move, Absent DEF Places
      <4> QED  BY <2>2, <2>f, <3>0, <3>1, <4>1 DEF Rerun, Pool!Grant
    <3>2. CASE place' = [place EXCEPT ![t] = "parked"]
      <4>0. Waiting \cup {t} = Waiting  BY <3>0
      <4>1. Holding' = Holding /\ Waiting' = Waiting
        BY <2>t, <3>0, <3>2, <4>0, Move, Absent DEF Places
      <4> QED  BY <2>2, <4>1 DEF Rerun, Pool!poolVars
    <3> QED  BY <2>2, <3>1, <3>2 DEF Rerun
  <2>3. ASSUME NEW t \in Tasks, CancelWaiter(t) PROVE Pool!Quit(t)
    <3>0. t \in Waiting /\ t \notin Holding
      BY <2>3, OnePlace DEF CancelWaiter
    <3>1. Holding' = Holding /\ Waiting' = Waiting \ {t}
      BY <2>3, <2>t, <3>0, Move, Absent DEF CancelWaiter, Places
    <3> QED  BY <2>3, <3>0, <3>1 DEF CancelWaiter, Pool!Quit
  <2>4. ASSUME NEW t \in Tasks, Exit(t) PROVE Pool!Release(t)
    <3>0. t \in Holding /\ t \notin Waiting
      BY <2>4, OnePlace DEF Exit
    <3>1. Holding' = Holding \ {t} /\ Waiting' = Waiting
      BY <2>4, <2>t, <3>0, Move, Absent DEF Exit, Places
    <3> QED  BY <2>4, <3>0, <3>1 DEF Exit, Pool!Release
  <2>5. ASSUME NEW n \in Limits, SetLimit(n) PROVE Pool!Resize(n)
    BY <2>5 DEF SetLimit, Pool!Resize, Holding, Waiting, Parked, Woken
  <2>6. ASSUME Wake PROVE UNCHANGED Pool!poolVars
    BY <2>6, <2>t
    DEF Wake, Pool!poolVars, Holding, Waiting, Parked, Woken, LimiterTypeOK, Places
  <2>7. ASSUME UNCHANGED limiterVars PROVE UNCHANGED Pool!poolVars
    BY <2>7 DEF limiterVars, Pool!poolVars, Holding, Waiting, Parked, Woken
  <2> QED  BY <2>1, <2>2, <2>3, <2>4, <2>5, <2>6, <2>7 DEF LimiterNext, Pool!PoolNext
<1> QED  BY <1>1, <1>2, CountingInvariant, PTL DEF LimiterSpec, PoolContract, Pool!PoolSpec
=============================================================================
