------------------------------ MODULE SlotPool ------------------------------
(***************************************************************************)
(* What a concurrency pool promises: at any moment it has handed out its    *)
(* slots to `holders`; the clients in `waiting` asked for one while every   *)
(* slot was taken.  A slot is handed out only while fewer than `limit` are  *)
(* in use.  The pool promises no order: a newcomer may overtake a waiter.   *)
(*                                                                         *)
(* utils/concurrency.py implements this contract (module Limiter); the      *)
(* components that hold a slot during their work compose with it            *)
(* (FilePipeline).                                                         *)
(***************************************************************************)
EXTENDS Naturals, FiniteSets

CONSTANTS Clients,    \* the asyncio tasks that use the pool
          Limits      \* the capacities an administrator may configure

VARIABLES limit, holders, waiting

poolVars == <<limit, holders, waiting>>

Free == Cardinality(holders) < limit

PoolInit ==
  /\ limit \in Limits
  /\ holders = {}
  /\ waiting = {}

(* A client asks for a slot: it gets one at once, or it queues. *)
Arrive(c) ==
  /\ c \notin holders \cup waiting
  /\ \/ Free /\ holders' = holders \cup {c} /\ UNCHANGED waiting
     \/ ~Free /\ waiting' = waiting \cup {c} /\ UNCHANGED holders
  /\ limit' = limit

(* A waiter is given a slot that is free. *)
Grant(c) ==
  /\ c \in waiting
  /\ Free
  /\ holders' = holders \cup {c}
  /\ waiting' = waiting \ {c}
  /\ limit' = limit

(* A waiter is cancelled and gives up its place. *)
Quit(c) ==
  /\ c \in waiting
  /\ waiting' = waiting \ {c}
  /\ limit' = limit /\ UNCHANGED holders

Release(c) ==
  /\ c \in holders
  /\ holders' = holders \ {c}
  /\ limit' = limit /\ UNCHANGED waiting

(* The configuration changes the capacity; holders keep their slots even    *)
(* when there are now more of them than the capacity.                       *)
Resize(n) ==
  /\ limit' = n
  /\ UNCHANGED <<holders, waiting>>

PoolNext ==
  \/ \E c \in Clients : Arrive(c) \/ Grant(c) \/ Quit(c) \/ Release(c)
  \/ \E n \in Limits : Resize(n)

PoolSpec == PoolInit /\ [][PoolNext]_poolVars
=============================================================================
