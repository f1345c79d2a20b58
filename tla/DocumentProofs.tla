--------------------------- MODULE DocumentProofs ---------------------------
(***************************************************************************)
(* Proofs about what is done with one document: the fields of its passes    *)
(* and the pools they run in (module FieldExtraction), for any passes,      *)
(* fields and capacities; the evidence of a field (module FieldEvidence),   *)
(* for every configuration, every budget of retries and every document; and *)
(* the vectors of its texts (module Embedding), for every batch size, every *)
(* length and every order of the answers.                                   *)
(*                                                                         *)
(* How often a field is asked follows from what is true in the course of an *)
(* attempt: all attempts before it were honestly empty, there was room for  *)
(* it, and a channel that was not yet asked has run in earlier ones only.   *)
(* What evidence it is shown follows from the folds that cut and join it,   *)
(* piece by piece.  That a row has its own vector follows from the slots:   *)
(* each holds the vectors of its own batch, from the first on, so that as   *)
(* many vectors as texts can only be the vectors of the texts.              *)
(***************************************************************************)
EXTENDS FieldExtraction, FieldEvidence, Embedding, TLAPS, FiniteSetTheorems,
        SequenceTheorems, WellFoundedInduction

-----------------------------------------------------------------------------
(* The passes and their fields *)

(* One field of one pass changes its state, the others keep theirs. *)
LEMMA SetOne ==
  ASSUME TypeOK, NEW p \in Passes, NEW f \in Fields, NEW s \in TaskStates,
         Set(p, f, s)
  PROVE  /\ task' \in [Passes -> [Fields -> TaskStates]]
         /\ task'[p][f] = s
         /\ \A q \in Passes : \A g \in Fields :
              q # p \/ g # f => task'[q][g] = task[q][g]
  BY DEF TypeOK, Set

(* A group is entered: its fields are queued, everything else keeps its     *)
(* state; the pool of the pass is the one in the registry.                  *)
LEMMA EnterGroup ==
  ASSUME TypeOK, NEW p \in Passes, NEW g \in Groups, Enter(p, g)
  PROVE  /\ TypeOK'
         /\ place' = [place EXCEPT ![p] = g]
         /\ \A f \in Fields :
              task'[p][f] = IF f \in Members(g) THEN "queued" ELSE task[p][f]
         /\ \A q \in Passes : q # p => task'[q] = task[q]
         /\ UNCHANGED <<closing, known, rows, debug>>
<1>1. /\ place' = [place EXCEPT ![p] = g]
      /\ UNCHANGED <<closing, known, rows, debug>>
  BY DEF Enter
<1>2. /\ task' \in [Passes -> [Fields -> TaskStates]]
      /\ \A f \in Fields :
           task'[p][f] = IF f \in Members(g) THEN "queued" ELSE task[p][f]
      /\ \A q \in Passes : q # p => task'[q] = task[q]
  BY DEF Enter, TypeOK, TaskStates, Active
<1>3. /\ made' \in Nat
      /\ pool' \in [Passes -> 0..made']
      /\ registered' \in 0..made'
  <2>1. made \in Nat /\ pool \in [Passes -> 0..made] /\ registered \in 0..made
    BY DEF TypeOK
  <2>2. Register(p)  BY DEF Enter
  <2>. QED
    BY <2>1, <2>2 DEF Register
<1>4. place' \in [Passes -> Places]
  BY <1>1 DEF TypeOK, Places
<1>5. view' \in [Passes -> SUBSET Fields]
  BY DEF Enter, TypeOK
<1>. QED
  BY <1>1, <1>2, <1>3, <1>4, <1>5 DEF TypeOK

(* A pass is done. *)
LEMMA FinishPass ==
  ASSUME TypeOK, NEW p \in Passes, Finish(p)
  PROVE  TypeOK'
  BY DEF Finish, Unregister, TypeOK, Places

(* A step of a worker or of its result keeps the types. *)
LEMMA FieldStepTypes ==
  ASSUME TypeOK, NEW p \in Passes, NEW f \in Fields, FieldStep(p, f)
  PROVE  TypeOK'
<1>. USE DEF TaskStates, Active, Saving, Handed
<1>1. CASE TakeTask(p, f)
  BY <1>1, SetOne DEF TakeTask, TypeOK
<1>2. CASE TakeGlobal(p, f)
  BY <1>2, SetOne DEF TakeGlobal, TypeOK
<1>3. CASE Compute(p, f)
  BY <1>3, SetOne DEF Compute, TypeOK
<1>4. CASE Stop(p, f)
  BY <1>4, SetOne DEF Stop, TypeOK
<1>5. CASE Deliver(p, f)
  <2>1. task' \in [Passes -> [Fields -> TaskStates]]
    BY <1>5, SetOne DEF Deliver
  <2>2. known' \in [Passes -> SUBSET Basic]
    BY <1>5 DEF Deliver, TypeOK
  <2>. QED
    BY <1>5, <2>1, <2>2 DEF Deliver, TypeOK
<1>6. CASE Persist(p, f)
  BY <1>6, SetOne DEF Persist, TypeOK
<1>7. CASE Resume(p, f)
  BY <1>7, SetOne DEF Resume, TypeOK
<1>8. CASE FailSave(p, f)
  <2>1. task' \in [Passes -> [Fields -> TaskStates]]
    BY <1>8, SetOne DEF FailSave
  <2>2. /\ place' \in [Passes -> Places]
        /\ closing' \in [Passes -> Closings]
        /\ rows' \subseteq Fields
    BY <1>8 DEF FailSave, TypeOK, Places, Closings
  <2>. QED
    BY <1>8, <2>1, <2>2 DEF FailSave, Unregister, TypeOK
<1>. QED
  BY <1>1, <1>2, <1>3, <1>4, <1>5, <1>6, <1>7, <1>8 DEF FieldStep

(* A step of a pass keeps the types. *)
LEMMA PassStepTypes ==
  ASSUME TypeOK, NEW p \in Passes, PassStep(p)
  PROVE  TypeOK'
<1>1. CASE Start(p)
  BY <1>1, EnterGroup, FinishPass DEF Start, Groups
<1>2. CASE NextGroup(p)
  BY <1>2, EnterGroup, FinishPass DEF NextGroup, Groups
<1>3. CASE Cancel(p)
  BY <1>3 DEF Cancel, TypeOK, Places, Closings
<1>4. CASE Unwound(p)
  BY <1>4 DEF Unwound, Unregister, TypeOK, Places
<1>5. CASE Drop(p)
  BY <1>5 DEF Drop, TypeOK, Places, Closings
<1>6. CASE CloseOuter(p)
  BY <1>6 DEF CloseOuter, Unregister, TypeOK, Closings
<1>7. CASE CloseInner(p)
  BY <1>7 DEF CloseInner, TypeOK, Closings
<1>. QED
  BY <1>1, <1>2, <1>3, <1>4, <1>5, <1>6, <1>7 DEF PassStep

(* The types of the initial state. *)
LEMMA InitTypes == Init => TypeOK
  BY DEF Init, TypeOK, Places, Closings, TaskStates

(* Every step keeps the types. *)
LEMMA StepTypes == TypeOK /\ [Next]_vars => TypeOK'
<1>. SUFFICES ASSUME TypeOK, [Next]_vars PROVE TypeOK'
  OBVIOUS
<1>1. CASE UNCHANGED vars
  BY <1>1 DEF vars, TypeOK
<1>2. ASSUME NEW p \in Passes, PassStep(p) PROVE TypeOK'
  BY <1>2, PassStepTypes
<1>3. ASSUME NEW p \in Passes, NEW f \in Fields, FieldStep(p, f) PROVE TypeOK'
  BY <1>3, FieldStepTypes
<1>. QED
  BY <1>1, <1>2, <1>3 DEF Next

(* Type correctness: the state of FieldExtraction keeps its types on every  *)
(* way through the two generators and their consumer.                       *)
THEOREM ExtractionTypeOK == Spec => []TypeOK
  BY InitTypes, StepTypes, PTL DEF Spec

-----------------------------------------------------------------------------
(* The groups are run in order and completely. *)

(* Where a pass stands says what became of the fields of either group. *)
InOrder(p) ==
  /\ place[p] = "idle" => \A f \in Fields : task[p][f] = "none"
  /\ place[p] = "basic" => \A f \in Advanced : task[p][f] = "none"
  /\ place[p] = "advanced" => \A f \in Basic : task[p][f] = "taken"
  /\ place[p] = "done" => \A f \in Fields : task[p][f] = "taken"

(* A pass whose consumer left before the end has workers only as long as    *)
(* they are about to be cancelled.                                          *)
Tidy(p) ==
  /\ place[p] = "stopping" => closing[p] = "stopping"
  /\ place[p] = "failed" => closing[p] # "no"
  /\ closing[p] \in {"outer", "inner"} => place[p] = "failed"

(* A basic field that was delivered can be quoted, and in a stage pass it   *)
(* has its row once it was handed on.                                       *)
Recorded(p) ==
  \A f \in Fields :
    /\ f \in Basic /\ task[p][f] \in Saving \cup Handed => f \in known[p]
    /\ p \notin debug /\ task[p][f] \in Handed => f \in rows

Barrier(p) ==
  \A f \in Advanced :
    task[p][f] # "none" =>
      known[p] = Basic /\ (p \notin debug => Basic \subseteq rows)

PassInv(p) == InOrder(p) /\ Tidy(p) /\ Recorded(p) /\ Barrier(p)

IInv == TypeOK /\ \A p \in Passes : PassInv(p)

(* A pass that a step leaves alone keeps its part of the invariant: rows    *)
(* are only added.                                                          *)
LEMMA OtherPass ==
  ASSUME NEW q \in Passes, PassInv(q),
         place'[q] = place[q], closing'[q] = closing[q],
         \A g \in Fields : task'[q][g] = task[q][g],
         known'[q] = known[q], debug' = debug, rows \subseteq rows'
  PROVE  PassInv(q)'
<1>1. InOrder(q)'
  BY DEF PassInv, InOrder, Fields
<1>2. Tidy(q)'
  BY DEF PassInv, Tidy
<1>3. Recorded(q)'
  BY DEF PassInv, Recorded
<1>4. Barrier(q)'
  BY DEF PassInv, Barrier, Fields
<1>. QED
  BY <1>1, <1>2, <1>3, <1>4 DEF PassInv

(* What FieldStep(p, f) may do to the rest of the state. *)
LEMMA FieldStepFrame ==
  ASSUME TypeOK, NEW p \in Passes, NEW f \in Fields, FieldStep(p, f)
  PROVE  /\ \A q \in Passes : \A g \in Fields :
              q # p \/ g # f => task'[q][g] = task[q][g]
         /\ \A q \in Passes : q # p =>
              /\ place'[q] = place[q]
              /\ closing'[q] = closing[q]
              /\ known'[q] = known[q]
         /\ debug' = debug
         /\ rows \subseteq rows'
         /\ known[p] \subseteq known'[p]
<1>. USE DEF TaskStates, Active, Saving, Handed
<1>1. CASE TakeTask(p, f)
  BY <1>1, SetOne DEF TakeTask, TypeOK
<1>2. CASE TakeGlobal(p, f)
  BY <1>2, SetOne DEF TakeGlobal, TypeOK
<1>3. CASE Compute(p, f)
  BY <1>3, SetOne DEF Compute, TypeOK
<1>4. CASE Stop(p, f)
  BY <1>4, SetOne DEF Stop, TypeOK
<1>5. CASE Deliver(p, f)
  BY <1>5, SetOne DEF Deliver, TypeOK
<1>6. CASE Persist(p, f)
  BY <1>6, SetOne DEF Persist, TypeOK
<1>7. CASE Resume(p, f)
  BY <1>7, SetOne DEF Resume, TypeOK
<1>8. CASE FailSave(p, f)
  BY <1>8, SetOne DEF FailSave, TypeOK
<1>. QED
  BY <1>1, <1>2, <1>3, <1>4, <1>5, <1>6, <1>7, <1>8 DEF FieldStep

(* A step of a worker or of its result keeps the invariant of its pass. *)
LEMMA FieldStepPass ==
  ASSUME TypeOK, NEW p \in Passes, NEW f \in Fields, PassInv(p), FieldStep(p, f)
  PROVE  PassInv(p)'
<1>. USE DEF TaskStates, Active, Saving, Handed, PassInv
<1>. USE FieldStepFrame
<1>1. CASE TakeTask(p, f)
  BY <1>1, SetOne, FieldsDisjoint
  DEF TakeTask, Works, InOrder, Tidy, Recorded, Barrier, Fields
<1>2. CASE TakeGlobal(p, f)
  BY <1>2, SetOne, FieldsDisjoint
  DEF TakeGlobal, Works, InOrder, Tidy, Recorded, Barrier, Fields
<1>3. CASE Compute(p, f)
  BY <1>3, SetOne, FieldsDisjoint
  DEF Compute, InOrder, Tidy, Recorded, Barrier, Fields
<1>4. CASE Stop(p, f)
  BY <1>4, SetOne, FieldsDisjoint
  DEF Stop, InOrder, Tidy, Recorded, Barrier, Fields
<1>5. CASE Deliver(p, f)
  <2>1. /\ known'[p] = known[p] \cup ({f} \cap Basic)
        /\ task'[p][f] \in {"handed", "inserting", "updating"}
        /\ task'[p][f] = "handed" => p \in debug
        /\ task[p][f] = "computed"
        /\ place[p] \in Groups
        /\ UNCHANGED <<place, closing, rows, debug>>
    BY <1>5, SetOne DEF Deliver, Waits, TypeOK
  <2>2. InOrder(p)' /\ Tidy(p)'
    BY <2>1 DEF InOrder, Tidy, Groups, Fields
  <2>3. Recorded(p)'
    BY <2>1 DEF Recorded
  <2>4. Barrier(p)'
    <3>1. known'[p] \subseteq Basic
      BY <2>1 DEF TypeOK
    <3>. QED
      BY <2>1, <3>1 DEF Barrier, Fields
  <2>. QED
    BY <2>2, <2>3, <2>4
<1>6. CASE Persist(p, f)
  BY <1>6, SetOne, FieldsDisjoint
  DEF Persist, Groups, InOrder, Tidy, Recorded, Barrier, Fields
<1>7. CASE Resume(p, f)
  BY <1>7, SetOne, FieldsDisjoint
  DEF Resume, Groups, InOrder, Tidy, Recorded, Barrier, Fields
<1>8. CASE FailSave(p, f)
  <2>1. /\ place'[p] = "failed"
        /\ closing'[p] = "inner"
        /\ task'[p][f] = "stopped"
        /\ task[p][f] \in Saving
        /\ known' = known
    BY <1>8, SetOne DEF FailSave, TypeOK
  <2>2. InOrder(p)' /\ Tidy(p)'
    BY <2>1 DEF InOrder, Tidy
  <2>3. Recorded(p)' /\ Barrier(p)'
    BY <2>1 DEF Recorded, Barrier, Fields
  <2>. QED
    BY <2>2, <2>3
<1>. QED
  BY <1>1, <1>2, <1>3, <1>4, <1>5, <1>6, <1>7, <1>8 DEF FieldStep

(* A pass enters its first group, or its second when the first is taken. *)
LEMMA EnterPass ==
  ASSUME TypeOK, NEW p \in Passes, PassInv(p), NEW g \in Groups, Enter(p, g),
         g = "basic" => place[p] = "idle",
         g = "advanced" => \A f \in Basic : task[p][f] = "taken",
         g = "advanced" => place[p] \in {"idle", "basic"}
  PROVE  PassInv(p)'
<1>1. /\ place'[p] = g
      /\ \A f \in Fields :
           task'[p][f] = IF f \in Members(g) THEN "queued" ELSE task[p][f]
      /\ UNCHANGED <<closing, known, rows, debug>>
  <2>1. place' = [place EXCEPT ![p] = g]
    BY EnterGroup
  <2>. QED
    BY <2>1, EnterGroup DEF TypeOK
<1>. USE DEF PassInv, Groups, Members, Fields
<1>2. InOrder(p)'
  BY <1>1, FieldsDisjoint DEF InOrder
<1>3. Tidy(p)'
  BY <1>1 DEF Tidy
<1>4. Recorded(p)'
  BY <1>1, FieldsDisjoint DEF Recorded, Saving, Handed
<1>5. Barrier(p)'
  <2>1. CASE g = "basic"
    BY <1>1, <2>1, FieldsDisjoint DEF Barrier, InOrder
  <2>2. CASE g = "advanced"
    <3>1. known[p] = Basic /\ (p \notin debug => Basic \subseteq rows)
      BY <2>2 DEF Recorded, Handed, TypeOK
    <3>. QED
      BY <1>1, <3>1 DEF Barrier
  <2>. QED
    BY <2>1, <2>2
<1>. QED
  BY <1>2, <1>3, <1>4, <1>5

(* What a step of a pass may do to other passes and to the rows. *)
LEMMA PassStepFrame ==
  ASSUME TypeOK, NEW p \in Passes, PassStep(p)
  PROVE  /\ \A q \in Passes : q # p =>
              /\ place'[q] = place[q]
              /\ closing'[q] = closing[q]
              /\ task'[q] = task[q]
         /\ UNCHANGED <<known, debug, rows>>
<1>1. CASE Start(p)
  BY <1>1 DEF Start, Enter, Finish, TypeOK
<1>2. CASE NextGroup(p)
  BY <1>2 DEF NextGroup, Enter, Finish, TypeOK
<1>3. CASE Cancel(p)
  BY <1>3 DEF Cancel, TypeOK
<1>4. CASE Unwound(p)
  BY <1>4 DEF Unwound, TypeOK
<1>5. CASE Drop(p)
  BY <1>5 DEF Drop, TypeOK
<1>6. CASE CloseOuter(p)
  BY <1>6 DEF CloseOuter, TypeOK
<1>7. CASE CloseInner(p)
  BY <1>7 DEF CloseInner, TypeOK
<1>. QED
  BY <1>1, <1>2, <1>3, <1>4, <1>5, <1>6, <1>7 DEF PassStep

(* A pass that has nothing left to take is done. *)
LEMMA FinishKeeps ==
  ASSUME TypeOK, NEW p \in Passes, PassInv(p), Finish(p),
         place[p] \in {"idle"} \cup Groups,
         \A f \in Fields : task[p][f] = "taken"
  PROVE  PassInv(p)'
<1>1. /\ place'[p] = "done"
      /\ UNCHANGED <<closing, task, known, rows, debug>>
  BY DEF Finish, TypeOK
<1>. QED
  BY <1>1 DEF Groups, PassInv, InOrder, Tidy, Recorded, Barrier

(* At the barrier and at the end: what has been taken. *)
LEMMA GroupTaken ==
  ASSUME NEW p \in Passes, PassInv(p), place[p] \in Groups,
         \A f \in Members(place[p]) : task[p][f] = "taken"
  PROVE  /\ \A f \in Basic : task[p][f] = "taken"
         /\ place[p] = "advanced" \/ Advanced = {} =>
              \A f \in Fields : task[p][f] = "taken"
  BY DEF PassInv, InOrder, Groups, Members, Fields

(* A step of a pass keeps its part of the invariant. *)
LEMMA PassStepPass ==
  ASSUME TypeOK, NEW p \in Passes, PassInv(p), PassStep(p)
  PROVE  PassInv(p)'
<1>1. CASE Start(p)
  BY <1>1, EnterPass, FinishKeeps DEF Start, Groups, Fields
<1>2. CASE NextGroup(p)
  <2>1. CASE place[p] = "basic" /\ Advanced # {}
    BY <1>2, <2>1, GroupTaken, EnterPass DEF NextGroup, Groups
  <2>2. CASE ~(place[p] = "basic" /\ Advanced # {})
    BY <1>2, <2>2, GroupTaken, FinishKeeps DEF NextGroup, Groups
  <2>. QED
    BY <2>1, <2>2
<1>3. CASE Cancel(p)
  <2>1. /\ place'[p] = "stopping"
        /\ closing'[p] = "stopping"
        /\ UNCHANGED <<task, known, rows, debug>>
    BY <1>3 DEF Cancel, TypeOK
  <2>. QED
    BY <2>1 DEF PassInv, InOrder, Tidy, Recorded, Barrier
<1>4. CASE Unwound(p)
  <2>1. /\ place[p] = "stopping"
        /\ place'[p] = "failed"
        /\ UNCHANGED <<closing, task, known, rows, debug>>
    BY <1>4 DEF Unwound, TypeOK
  <2>. QED
    BY <2>1 DEF PassInv, InOrder, Tidy, Recorded, Barrier
<1>5. CASE Drop(p)
  <2>1. /\ place'[p] = "failed"
        /\ closing'[p] = "outer"
        /\ UNCHANGED <<task, known, rows, debug>>
    BY <1>5 DEF Drop, TypeOK
  <2>. QED
    BY <2>1 DEF PassInv, InOrder, Tidy, Recorded, Barrier
<1>6. CASE CloseOuter(p)
  <2>1. /\ closing[p] = "outer"
        /\ closing'[p] = "inner"
        /\ UNCHANGED <<place, task, known, rows, debug>>
    BY <1>6 DEF CloseOuter, TypeOK
  <2>. QED
    BY <2>1 DEF PassInv, InOrder, Tidy, Recorded, Barrier
<1>7. CASE CloseInner(p)
  <2>1. /\ closing'[p] = "stopping"
        /\ UNCHANGED <<place, task, known, rows, debug>>
    BY <1>7 DEF CloseInner, TypeOK
  <2>. QED
    BY <2>1 DEF PassInv, InOrder, Tidy, Recorded, Barrier
<1>. QED
  BY <1>1, <1>2, <1>3, <1>4, <1>5, <1>6, <1>7 DEF PassStep

(* The invariant holds at the start. *)
LEMMA InitInv == Init => IInv
<1>. SUFFICES ASSUME Init PROVE IInv
  OBVIOUS
<1>1. TypeOK
  BY InitTypes
<1>2. ASSUME NEW p \in Passes PROVE PassInv(p)
  BY DEF Init, PassInv, InOrder, Tidy, Recorded, Barrier, Saving, Handed, Fields
<1>. QED
  BY <1>1, <1>2 DEF IInv

(* Every step keeps the invariant. *)
LEMMA StepInv == IInv /\ [Next]_vars => IInv'
<1>. SUFFICES ASSUME IInv, [Next]_vars PROVE IInv'
  OBVIOUS
<1>. USE DEF IInv
<1>1. TypeOK'
  BY StepTypes
<1>2. CASE UNCHANGED vars
  BY <1>1, <1>2, OtherPass DEF vars
<1>3. ASSUME NEW p \in Passes, PassStep(p) PROVE IInv'
  <2>1. ASSUME NEW q \in Passes, q # p PROVE PassInv(q)'
    BY <1>3, <2>1, PassStepFrame, OtherPass
  <2>. QED
    BY <1>1, <1>3, <2>1, PassStepPass
<1>4. ASSUME NEW p \in Passes, NEW f \in Fields, FieldStep(p, f) PROVE IInv'
  <2>1. ASSUME NEW q \in Passes, q # p PROVE PassInv(q)'
    <3>1. /\ place'[q] = place[q]
          /\ closing'[q] = closing[q]
          /\ known'[q] = known[q]
          /\ \A g \in Fields : task'[q][g] = task[q][g]
          /\ debug' = debug
          /\ rows \subseteq rows'
      BY <1>4, <2>1, FieldStepFrame
    <3>. QED
      BY <3>1, OtherPass
  <2>. QED
    BY <1>1, <1>4, <2>1, FieldStepPass
<1>. QED
  BY <1>2, <1>3, <1>4 DEF Next

(* The invariant holds in every reachable state. *)
LEMMA ExtractionInvariant == Spec => []IInv
  BY InitInv, StepInv, PTL DEF Spec

(* The barrier between the two groups: whatever passes overlap and whatever *)
(* fails, an advanced field never quotes a basic field that is not there.   *)
THEOREM ExtractionBarrier == Spec => []BarrierRespected
<1>1. IInv => BarrierRespected
  BY DEF IInv, PassInv, Barrier, BarrierRespected
<1>. QED
  BY <1>1, ExtractionInvariant, PTL

(* No worker is forgotten, on any way out of the two generators. *)
THEOREM ExtractionNoStragglers == Spec => []NoStragglers
<1>1. IInv => NoStragglers
  BY DEF IInv, PassInv, InOrder, Tidy, Active, NoStragglers
<1>. QED
  BY <1>1, ExtractionInvariant, PTL

-----------------------------------------------------------------------------
(* The contract: results one at a time, all of them, none after the end. *)

ContractStep == [Contract!ContractNext]_(Contract!contractVars)

(* No result is added and no pass changes its outcome: a stutter. *)
LEMMA Stutters ==
  ASSUME \A p \in Passes : OutcomeOf(place'[p]) = OutcomeOf(place[p]),
         \A p \in Passes : \A f \in Fields :
           task'[p][f] \in Handed <=> task[p][f] \in Handed
  PROVE  ContractStep
<1>1. Results' = Results
  BY DEF Results
<1>2. Outcome' = Outcome
  BY DEF Outcome
<1>. QED
  BY <1>1, <1>2 DEF ContractStep, Contract!contractVars

(* One pass changes its outcome and no result is added. *)
LEMMA Changes ==
  ASSUME NEW p \in Passes,
         \A q \in Passes : q # p => OutcomeOf(place'[q]) = OutcomeOf(place[q]),
         \A q \in Passes : \A f \in Fields :
           task'[q][f] \in Handed <=> task[q][f] \in Handed,
         \/ OutcomeOf(place[p]) = "idle" /\ OutcomeOf(place'[p]) = "open"
         \/ OutcomeOf(place[p]) = "open" /\ OutcomeOf(place'[p]) = "failed"
         \/ /\ OutcomeOf(place[p]) \in {"idle", "open"}
            /\ OutcomeOf(place'[p]) = "done"
            /\ \A f \in Fields : task[p][f] \in Handed
  PROVE  ContractStep
<1>1. Results' = Results
  BY DEF Results
<1>2. Outcome' = [Outcome EXCEPT ![p] = OutcomeOf(place'[p])]
  BY DEF Outcome
<1>3. Outcome[p] = OutcomeOf(place[p])
  BY DEF Outcome
<1>4. (\A f \in Fields : task[p][f] \in Handed) => Results[p] = Fields
  BY DEF Results
<1>5. OutcomeOf(place'[p]) = "failed" => Outcome' = [q \in Passes |->
              IF q \in {p} THEN "failed" ELSE Outcome[q]]
  BY DEF Outcome
<1>6. Contract!Open(p) \/ Contract!Abort({p}) \/ Contract!Finish(p)
  BY <1>1, <1>2, <1>3, <1>4, <1>5
  DEF Contract!Open, Contract!Abort, Contract!Finish
<1>. QED
  BY <1>6 DEF ContractStep, Contract!ContractNext

(* One field of an open pass gets its result. *)
LEMMA Records ==
  ASSUME NEW p \in Passes, NEW f \in Fields,
         \A q \in Passes : OutcomeOf(place'[q]) = OutcomeOf(place[q]),
         OutcomeOf(place[p]) = "open",
         task[p][f] \notin Handed, task'[p][f] \in Handed,
         \A q \in Passes : \A g \in Fields :
           q # p \/ g # f => task'[q][g] = task[q][g]
  PROVE  ContractStep
<1>1. Results' = [Results EXCEPT ![p] = @ \cup {f}]
  <2>1. {g \in Fields : task'[p][g] \in Handed}
          = {g \in Fields : task[p][g] \in Handed} \cup {f}
    OBVIOUS
  <2>2. \A q \in Passes : q # p =>
          {g \in Fields : task'[q][g] \in Handed}
            = {g \in Fields : task[q][g] \in Handed}
    OBVIOUS
  <2>. QED
    BY <2>1, <2>2 DEF Results
<1>2. Outcome' = Outcome
  BY DEF Outcome
<1>3. Outcome[p] = "open" /\ f \notin Results[p]
  BY DEF Outcome, Results
<1>4. Contract!Record(p, f)
  BY <1>1, <1>2, <1>3 DEF Contract!Record
<1>. QED
  BY <1>4 DEF ContractStep, Contract!ContractNext

(* A step of a worker or of its result is a result, the end of a pass, or   *)
(* invisible.                                                               *)
LEMMA FieldStepContract ==
  ASSUME IInv, NEW p \in Passes, NEW f \in Fields, FieldStep(p, f)
  PROVE  ContractStep
<1>. USE DEF TaskStates, Active, Saving, Handed
<1>0. /\ TypeOK
      /\ \A q \in Passes : \A g \in Fields :
           q # p \/ g # f => task'[q][g] = task[q][g]
  BY FieldStepFrame DEF IInv
<1>1. CASE TakeTask(p, f)
  BY <1>0, <1>1, SetOne, Stutters DEF TakeTask
<1>2. CASE TakeGlobal(p, f)
  BY <1>0, <1>2, SetOne, Stutters DEF TakeGlobal
<1>3. CASE Compute(p, f)
  BY <1>0, <1>3, SetOne, Stutters DEF Compute
<1>4. CASE Stop(p, f)
  BY <1>0, <1>4, SetOne, Stutters DEF Stop
<1>5. CASE Deliver(p, f)
  <2>1. /\ task'[p][f] \in {"handed", "inserting", "updating"}
        /\ task[p][f] = "computed"
        /\ place[p] \in Groups
        /\ place' = place
    BY <1>0, <1>5, SetOne DEF Deliver, Waits
  <2>2. OutcomeOf(place[p]) = "open"
    BY <2>1 DEF OutcomeOf, Groups
  <2>. QED
    BY <1>0, <2>1, <2>2, Records, Stutters
<1>6. CASE Persist(p, f)
  <2>1. OutcomeOf(place[p]) = "open"
    BY <1>6 DEF Persist, OutcomeOf, Groups
  <2>2. task[p][f] \notin Handed /\ task'[p][f] \in Handed /\ place' = place
    BY <1>0, <1>6, SetOne DEF Persist
  <2>. QED
    BY <1>0, <2>1, <2>2, Records
<1>7. CASE Resume(p, f)
  BY <1>0, <1>7, SetOne, Stutters DEF Resume
<1>8. CASE FailSave(p, f)
  <2>1. /\ place[p] \in Groups
        /\ place' = [place EXCEPT ![p] = "failed"]
        /\ task[p][f] \in Saving
        /\ task'[p][f] = "stopped"
    BY <1>0, <1>8, SetOne DEF FailSave
  <2>2. /\ OutcomeOf(place[p]) = "open"
        /\ OutcomeOf(place'[p]) = "failed"
        /\ \A q \in Passes : q # p => place'[q] = place[q]
    BY <1>0, <2>1 DEF OutcomeOf, Groups, TypeOK
  <2>. QED
    BY <1>0, <2>1, <2>2, Changes
<1>. QED
  BY <1>1, <1>2, <1>3, <1>4, <1>5, <1>6, <1>7, <1>8 DEF FieldStep

(* Entering a group opens the pass or is invisible: none of the fields that *)
(* are queued had a result.                                                 *)
LEMMA EnterContract ==
  ASSUME TypeOK, NEW p \in Passes, NEW g \in Groups, Enter(p, g),
         place[p] \in {"idle", "basic"},
         \A f \in Members(g) : task[p][f] = "none"
  PROVE  ContractStep
<1>1. /\ place' = [place EXCEPT ![p] = g]
      /\ \A q \in Passes : \A f \in Fields :
           task'[q][f] \in Handed <=> task[q][f] \in Handed
  BY EnterGroup DEF Handed
<1>2. /\ OutcomeOf(place'[p]) = "open"
      /\ OutcomeOf(place[p]) \in {"idle", "open"}
      /\ \A q \in Passes : q # p => place'[q] = place[q]
  BY <1>1 DEF OutcomeOf, Groups, TypeOK
<1>. QED
  BY <1>1, <1>2, Changes, Stutters

(* Finishing ends the pass with all of its results. *)
LEMMA FinishContract ==
  ASSUME TypeOK, NEW p \in Passes, Finish(p),
         place[p] \in {"idle"} \cup Groups,
         \A f \in Fields : task[p][f] = "taken"
  PROVE  ContractStep
<1>1. /\ place' = [place EXCEPT ![p] = "done"]
      /\ task' = task
  BY DEF Finish
<1>2. /\ OutcomeOf(place'[p]) = "done"
      /\ OutcomeOf(place[p]) \in {"idle", "open"}
      /\ \A q \in Passes : q # p => place'[q] = place[q]
  BY <1>1 DEF OutcomeOf, Groups, TypeOK
<1>. QED
  BY <1>1, <1>2, Changes DEF Handed

(* A step of a pass opens it, ends it, or is invisible. *)
LEMMA PassStepContract ==
  ASSUME IInv, NEW p \in Passes, PassStep(p)
  PROVE  ContractStep
<1>0. TypeOK /\ PassInv(p)
  BY DEF IInv
<1>1. CASE Start(p)
  <2>1. place[p] = "idle" /\ \A f \in Fields : task[p][f] = "none"
    BY <1>0, <1>1 DEF Start, PassInv, InOrder
  <2>. QED
    BY <1>0, <1>1, <2>1, EnterContract, FinishContract
    DEF Start, Groups, Members, Fields
<1>2. CASE NextGroup(p)
  <2>1. CASE place[p] = "basic" /\ Advanced # {}
    <3>1. \A f \in Members("advanced") : task[p][f] = "none"
      BY <1>0, <2>1 DEF PassInv, InOrder, Members
    <3>. QED
      BY <1>0, <1>2, <2>1, <3>1, EnterContract DEF NextGroup, Groups
  <2>2. CASE ~(place[p] = "basic" /\ Advanced # {})
    BY <1>0, <1>2, <2>2, GroupTaken, FinishContract DEF NextGroup, Groups
  <2>. QED
    BY <2>1, <2>2
<1>3. CASE Cancel(p)
  <2>1. /\ place[p] \in Groups
        /\ place' = [place EXCEPT ![p] = "stopping"]
        /\ task' = task
    BY <1>3 DEF Cancel, Waits
  <2>2. \A q \in Passes : OutcomeOf(place'[q]) = OutcomeOf(place[q])
    BY <1>0, <2>1 DEF OutcomeOf, Groups, TypeOK
  <2>. QED
    BY <2>1, <2>2, Stutters
<1>4. CASE Unwound(p) \/ Drop(p)
  <2>1. /\ place[p] \in {"stopping"} \cup Groups
        /\ place' = [place EXCEPT ![p] = "failed"]
        /\ task' = task
    BY <1>4 DEF Unwound, Drop
  <2>2. /\ OutcomeOf(place[p]) = "open"
        /\ OutcomeOf(place'[p]) = "failed"
        /\ \A q \in Passes : q # p => place'[q] = place[q]
    BY <1>0, <2>1 DEF OutcomeOf, Groups, TypeOK
  <2>. QED
    BY <2>1, <2>2, Changes
<1>5. CASE CloseOuter(p) \/ CloseInner(p)
  BY <1>5, Stutters DEF CloseOuter, CloseInner
<1>. QED
  BY <1>1, <1>2, <1>3, <1>4, <1>5 DEF PassStep

(* Every step of the code is a step of the contract or a stutter. *)
LEMMA StepContract == IInv /\ [Next]_vars => ContractStep
<1>. SUFFICES ASSUME IInv, [Next]_vars PROVE ContractStep
  OBVIOUS
<1>1. CASE UNCHANGED vars
  BY <1>1, Stutters DEF vars
<1>2. ASSUME NEW p \in Passes, PassStep(p) PROVE ContractStep
  BY <1>2, PassStepContract
<1>3. ASSUME NEW p \in Passes, NEW f \in Fields, FieldStep(p, f)
      PROVE  ContractStep
  BY <1>3, FieldStepContract
<1>. QED
  BY <1>1, <1>2, <1>3 DEF Next

(* The two nested generators with their workers implement the contract of a *)
(* stage, however many passes overlap on the file and however they end.     *)
THEOREM ExtractionImplementsContract == Spec => PassContract
<1>1. Init => Contract!ContractInit
  BY DEF Init, Contract!ContractInit, Results, Outcome, OutcomeOf, Handed
<1>2. IInv /\ [Next]_vars => [Contract!ContractNext]_(Contract!contractVars)
  BY StepContract DEF ContractStep
<1>. QED
  BY <1>1, <1>2, ExtractionInvariant, PTL
  DEF Spec, PassContract, Contract!ContractSpec

-----------------------------------------------------------------------------
(* The file's cap, as long as no pass has left. *)

NoneEnded == \A p \in Passes : place[p] \notin {"done", "failed"}

(* Every pass at work uses the pool that is in the registry. *)
OnePool ==
  NoneEnded => \A p \in Passes :
                 place[p] # "idle" => pool[p] = registered /\ registered # 0

CapInv == IInv /\ OnePool /\ SharedCap

(* There are finitely many workers. *)
LEMMA FiniteWorkers ==
  /\ IsFiniteSet(InFile)
  /\ Cardinality(InFile) \in Nat
<1>1. IsFiniteSet(Passes \X Fields)
  BY PassesFinite, FieldsFinite, FS_Union, FS_Product DEF Fields
<1>2. InFile \subseteq Passes \X Fields
  BY DEF InFile
<1>3. IsFiniteSet(InFile)
  BY <1>1, <1>2, FS_Subset
<1>. QED
  BY <1>3, FS_CardinalityType

(* A step that admits no worker, leaves every pool in use in the registry,  *)
(* and begins no pass keeps the cap.                                        *)
LEMMA CapKept ==
  ASSUME CapInv, NoneEnded' => NoneEnded,
         \A p \in Passes : \A f \in Fields :
           task'[p][f] \in {"admitted", "running"}
             => task[p][f] \in {"admitted", "running"}
  PROVE  SharedCap'
<1>1. InFile' \subseteq InFile
  BY DEF InFile
<1>2. Cardinality(InFile') <= Cardinality(InFile) /\ Cardinality(InFile') \in Nat
  BY <1>1, FiniteWorkers, FS_Subset, FS_CardinalityType
<1>3. NoneEnded => Cardinality(InFile) <= TaskLimit
  BY DEF CapInv, SharedCap, NoneEnded
<1>. QED
  BY <1>2, <1>3, FiniteWorkers, LimitsPositive DEF SharedCap, NoneEnded

(* A worker is admitted only while the one pool of the file has room. *)
LEMMA CapTake ==
  ASSUME CapInv, NEW p \in Passes, NEW f \in Fields, TakeTask(p, f)
  PROVE  SharedCap'
<1>. SUFFICES ASSUME NoneEnded' PROVE Cardinality(InFile') <= TaskLimit
  BY DEF SharedCap, NoneEnded
<1>1. TypeOK /\ place' = place /\ NoneEnded
  BY DEF CapInv, IInv, TakeTask, NoneEnded
<1>2. place[p] # "idle"
  BY DEF CapInv, IInv, PassInv, InOrder, TakeTask
<1>3. \A q \in Passes : \A g \in Fields :
        task[q][g] \in {"admitted", "running"} => place[q] # "idle"
  BY DEF CapInv, IInv, PassInv, InOrder
<1>4. InFile = UsesPool(pool[p])
  <2>1. \A q \in Passes : place[q] # "idle" => pool[q] = pool[p]
    BY <1>1, <1>2 DEF CapInv, OnePool
  <2>. QED
    BY <1>3, <2>1 DEF InFile, UsesPool
<1>5. InFile' = InFile \cup {<<p, f>>}
  <2>1. /\ task'[p][f] = "admitted"
        /\ \A q \in Passes : \A g \in Fields :
             q # p \/ g # f => task'[q][g] = task[q][g]
    BY <1>1, SetOne DEF TakeTask, TaskStates, Active
  <2>2. \A q \in Passes : \A g \in Fields :
          task'[q][g] \in {"admitted", "running"}
            <=> <<q, g>> = <<p, f>> \/ task[q][g] \in {"admitted", "running"}
    BY <2>1
  <2>3. \A w \in Passes \X Fields : w \in InFile' <=> w \in InFile \cup {<<p, f>>}
    BY <2>2 DEF InFile
  <2>4. InFile' \subseteq Passes \X Fields /\ InFile \subseteq Passes \X Fields
    BY DEF InFile
  <2>. QED
    BY <2>3, <2>4
<1>6. Cardinality(InFile) < TaskLimit
  BY <1>4 DEF TakeTask
<1>7. Cardinality(InFile \cup {<<p, f>>})
        \in {Cardinality(InFile), Cardinality(InFile) + 1}
  BY FiniteWorkers, FS_AddElement
<1>8. Cardinality(InFile') \in {Cardinality(InFile), Cardinality(InFile) + 1}
  BY <1>5, <1>7
<1>. QED
  BY <1>6, <1>8, FiniteWorkers, LimitsPositive

(* A step of a worker or of its result keeps the cap. *)
LEMMA CapFieldStep ==
  ASSUME CapInv, NEW p \in Passes, NEW f \in Fields, FieldStep(p, f)
  PROVE  OnePool' /\ SharedCap'
<1>. USE DEF TaskStates, Active, Saving, Handed
<1>0. TypeOK /\ IInv /\ OnePool
  BY DEF CapInv, IInv
<1>1. CASE TakeTask(p, f)
  <2>1. OnePool'
    BY <1>0, <1>1 DEF TakeTask, OnePool, NoneEnded
  <2>. QED
    BY <2>1, <1>1, CapTake
<1>2. CASE FailSave(p, f)
  <2>1. place'[p] = "failed"
    BY <1>0, <1>2 DEF FailSave, TypeOK
  <2>. QED
    BY <2>1 DEF OnePool, SharedCap, NoneEnded
<1>3. CASE \/ TakeGlobal(p, f) \/ Compute(p, f) \/ Stop(p, f)
           \/ Deliver(p, f) \/ Persist(p, f) \/ Resume(p, f)
  <2>1. UNCHANGED <<place, pool, registered>>
    BY <1>3 DEF TakeGlobal, Compute, Stop, Deliver, Persist, Resume
  <2>2. \A q \in Passes : \A g \in Fields :
          q # p \/ g # f => task'[q][g] = task[q][g]
    BY <1>0, FieldStepFrame
  <2>3. task'[p][f] \in {"admitted", "running"}
          => task[p][f] \in {"admitted", "running"}
    BY <1>0, <1>3, SetOne
    DEF TakeGlobal, Compute, Stop, Deliver, Persist, Resume
  <2>4. OnePool'
    BY <1>0, <2>1 DEF OnePool, NoneEnded
  <2>5. NoneEnded' => NoneEnded
    BY <2>1 DEF NoneEnded
  <2>6. \A q \in Passes : \A g \in Fields :
          task'[q][g] \in {"admitted", "running"}
            => task[q][g] \in {"admitted", "running"}
    BY <2>2, <2>3
  <2>. QED
    BY <2>4, <2>5, <2>6, CapKept
<1>. QED
  BY <1>1, <1>2, <1>3 DEF FieldStep

(* A pass that enters a group finds the pool of the others, or makes the    *)
(* first one.                                                               *)
LEMMA CapEnter ==
  ASSUME CapInv, NEW p \in Passes, NEW g \in Groups, Enter(p, g),
         place[p] \in {"idle", "basic"}
  PROVE  OnePool' /\ SharedCap'
<1>0. TypeOK /\ OnePool
  BY DEF CapInv, IInv
<1>1. /\ place' = [place EXCEPT ![p] = g]
      /\ \A q \in Passes : \A f \in Fields :
           task'[q][f] = "queued" \/ task'[q][f] = task[q][f]
  BY <1>0, EnterGroup
<1>2. NoneEnded' => NoneEnded
  BY <1>0, <1>1 DEF NoneEnded, TypeOK, Groups
<1>3. SharedCap'
  BY <1>1, <1>2, CapKept
<1>4. OnePool'
  <2>. SUFFICES ASSUME NoneEnded, NEW q \in Passes, place'[q] # "idle"
                PROVE  pool'[q] = registered' /\ registered' # 0
    BY <1>2 DEF OnePool
  <2>1. pool'[p] = registered' /\ registered' # 0
    BY <1>0 DEF Enter, Register, TypeOK
  <2>2. CASE q # p
    <3>1. place[q] # "idle" /\ pool'[q] = pool[q]
      BY <1>0, <1>1, <2>2 DEF Enter, Register, TypeOK
    <3>2. pool[q] = registered /\ registered # 0
      BY <1>0, <3>1 DEF OnePool
    <3>3. registered' = registered
      BY <3>2 DEF Enter, Register
    <3>. QED
      BY <3>1, <3>2, <3>3
  <2>. QED
    BY <2>1, <2>2
<1>. QED
  BY <1>3, <1>4

(* A step of a pass keeps the cap, or ends the pass. *)
LEMMA CapPassStep ==
  ASSUME CapInv, NEW p \in Passes, PassStep(p)
  PROVE  OnePool' /\ SharedCap'
<1>0. TypeOK /\ PassInv(p) /\ OnePool
  BY DEF CapInv, IInv
<1>1. CASE place'[p] \in {"done", "failed"}
  BY <1>1 DEF OnePool, SharedCap, NoneEnded
<1>2. ASSUME NEW g \in Groups, Enter(p, g), place[p] \in {"idle", "basic"}
      PROVE  OnePool' /\ SharedCap'
  BY <1>2, CapEnter
<1>3. CASE Cancel(p)
  <2>1. /\ place' = [place EXCEPT ![p] = "stopping"]
        /\ place[p] \in Groups
        /\ UNCHANGED <<task, pool, registered>>
    BY <1>3 DEF Cancel, Waits
  <2>2. NoneEnded' => NoneEnded
    BY <1>0, <2>1 DEF NoneEnded, TypeOK, Groups
  <2>3. OnePool'
    BY <1>0, <2>1, <2>2 DEF OnePool, TypeOK, Groups
  <2>4. SharedCap'
    BY <2>1, <2>2, CapKept
  <2>. QED
    BY <2>3, <2>4
<1>4. CASE Finish(p) \/ Unwound(p) \/ Drop(p)
  BY <1>0, <1>1, <1>4 DEF Finish, Unwound, Drop, TypeOK
<1>5. CASE CloseOuter(p) \/ CloseInner(p)
  BY <1>0, <1>1, <1>5 DEF CloseOuter, CloseInner, PassInv, Tidy
<1>6. CASE Start(p)
  BY <1>2, <1>4, <1>6 DEF Start, Groups
<1>7. CASE NextGroup(p)
  BY <1>2, <1>4, <1>7 DEF NextGroup, Groups
<1>. QED
  BY <1>3, <1>4, <1>5, <1>6, <1>7 DEF PassStep

(* The file's cap: passes that overlap stay within it together as long as   *)
(* none of them has left.                                                   *)
THEOREM ExtractionSharedCap == Spec => []SharedCap
<1>1. Init => CapInv
  <2>. SUFFICES ASSUME Init PROVE CapInv
    OBVIOUS
  <2>1. InFile = {}
    BY DEF Init, InFile
  <2>. QED
    BY <2>1, InitInv, FS_EmptySet, LimitsPositive
    DEF CapInv, OnePool, SharedCap, Init
<1>2. CapInv /\ [Next]_vars => CapInv'
  <2>. SUFFICES ASSUME CapInv, [Next]_vars PROVE CapInv'
    OBVIOUS
  <2>1. IInv'
    BY StepInv DEF CapInv
  <2>2. CASE UNCHANGED vars
    BY <2>1, <2>2 DEF vars, CapInv, OnePool, NoneEnded, SharedCap, InFile
  <2>3. ASSUME NEW p \in Passes, PassStep(p) PROVE CapInv'
    BY <2>1, <2>3, CapPassStep DEF CapInv
  <2>4. ASSUME NEW p \in Passes, NEW f \in Fields, FieldStep(p, f) PROVE CapInv'
    BY <2>1, <2>4, CapFieldStep DEF CapInv
  <2>. QED
    BY <2>2, <2>3, <2>4 DEF Next
<1>3. CapInv => SharedCap
  BY DEF CapInv
<1>. QED
  BY <1>1, <1>2, <1>3, PTL DEF Spec

-----------------------------------------------------------------------------
(* The evidence of a field *)

(* A sequence, of whatever it may be. *)
IsSeq(s) == \E S : s \in Seq(S)

Kinds == {"text", "table", "page", "vl"}

(* Attempts that a retry may follow. *)
HonestUpTo(n) == \A k \in 1..n : ~ended[k].value /\ ~ended[k].broke

(* The last attempt had a reason to be the last. *)
Concluded ==
  /\ Len(ended) \in 1..field.budget + 1
  /\ HonestUpTo(Len(ended) - 1)
  /\ ended[Len(ended)].value \/ ended[Len(ended)].broke \/ Len(ended) = field.budget + 1
  /\ outcome = "success" => ended[Len(ended)].value \/ ended[Len(ended)].refs # {}

RunsWithin ==
  /\ runs \in [DOMAIN field.items -> Nat]
  /\ \A i \in DOMAIN field.items : runs[i] <= Len(ended) + 1
  /\ phase \in {"start", "search"} =>
       \A i \in DOMAIN field.items : i > Len(entries) => runs[i] <= Len(ended)

EvidenceInv ==
  /\ field \in Configs
  /\ phase \in {"start", "search", "ask", "over"}
  /\ outcome \in {"none", "success", "failed"} /\ (outcome = "none" <=> phase # "over")
  /\ IsSeq(ended) /\ IsSeq(entries) /\ inner = 0
  /\ phase = "start" => ended = <<>>
  /\ phase # "over" => Len(ended) <= field.budget /\ HonestUpTo(Len(ended))
  /\ phase = "over" => Concluded \/ (ended = <<>> /\ outcome = "failed")
  /\ RunsWithin

-----------------------------------------------------------------------------
(* What appending does to a sequence. *)
LEMMA Appending ==
  ASSUME NEW s, IsSeq(s), NEW e
  PROVE  /\ IsSeq(Append(s, e))
         /\ Len(s) \in Nat /\ Len(Append(s, e)) = Len(s) + 1
         /\ \A i \in 1..Len(s) : Append(s, e)[i] = s[i]
         /\ Append(s, e)[Len(s) + 1] = e
<1>1. PICK S : s \in Seq(S)  BY DEF IsSeq
<1>2. s \in Seq(S \union {e}) /\ e \in S \union {e}
  <2>1. \A i \in 1..Len(s) : s[i] \in S \union {e}  BY <1>1
  <2>2. s = [i \in 1..Len(s) |-> s[i]] /\ Len(s) \in Nat  BY <1>1
  <2> QED  BY <2>1, <2>2
<1>3. Append(s, e) \in Seq(S \union {e})  BY <1>2
<1>4. IsSeq(Append(s, e))  BY <1>3 DEF IsSeq
<1> QED  BY <1>2, <1>4

(* The configuration of a field. *)
LEMMA FieldShape ==
  ASSUME field \in Configs
  PROVE  /\ field.budget \in Nat /\ Len(field.items) \in Nat \ {0}
         /\ DOMAIN field.items = 1..Len(field.items)
BY ConfigsOK

-----------------------------------------------------------------------------
(* The end of an attempt, whoever brings it about: the invariant holds      *)
(* again if the channels have run no more often than there were attempts.   *)
LEMMA ConcludeInv ==
  ASSUME EvidenceInv, phase \in {"search", "ask"},
         NEW v, NEW refs, NEW marked \in BOOLEAN,
         Conclude(Result(v, refs, marked)),
         runs' \in [DOMAIN field.items -> Nat],
         \A i \in DOMAIN field.items : runs'[i] <= Len(ended) + 1
  PROVE  EvidenceInv'
<1> DEFINE n == Len(ended)
           result == Result(v, refs, marked)
<1>1. /\ field' = field /\ inner' = 0 /\ field.budget \in Nat
      /\ outcome = "none" /\ n <= field.budget /\ HonestUpTo(n)
  BY FieldShape DEF EvidenceInv, Conclude
<1>2. ended' = Append(ended, result)  BY DEF Conclude
<1>3. /\ IsSeq(ended') /\ n \in Nat /\ Len(ended') = n + 1
      /\ \A k \in 1..n : ended'[k] = ended[k]
      /\ ended'[n + 1] = result
  BY <1>2, Appending DEF EvidenceInv
<1>4. \A k \in 1..n : ~ended'[k].value /\ ~ended'[k].broke
  BY <1>1, <1>3 DEF HonestUpTo
<1>5. /\ result.value = v /\ result.refs = refs
      /\ result.marked = marked /\ result.broke = marked
  BY DEF Result
<1>6. CASE Repeats(result)
  <2>1. phase' = "search" /\ outcome' = outcome /\ entries' = <<>>
    BY <1>6 DEF Conclude
  <2>2. n < field.budget /\ ~v /\ ~marked  BY <1>5, <1>6 DEF Repeats
  <2>3. HonestUpTo(Len(ended))'
    <3>1. \A k \in 1..n + 1 : ~ended'[k].value /\ ~ended'[k].broke
      BY <1>3, <1>4, <1>5, <2>2
    <3> QED  BY <3>1, <1>3 DEF HonestUpTo
  <2>4. IsSeq(entries)'
    <3>1. <<>> \in Seq({})  OBVIOUS
    <3> QED  BY <2>1, <3>1 DEF IsSeq
  <2>5. RunsWithin'
    <3>1. \A i \in DOMAIN field.items : runs'[i] <= n + 1 /\ runs'[i] \in Nat  OBVIOUS
    <3> QED  BY <1>1, <1>3, <3>1, <2>1 DEF RunsWithin
  <2> QED  BY <1>1, <1>3, <2>1, <2>2, <2>3, <2>4, <2>5 DEF EvidenceInv
<1>7. CASE ~Repeats(result)
  <2>1. /\ phase' = "over" /\ entries' = entries
        /\ outcome' = IF v \/ refs # {} THEN "success" ELSE "failed"
    BY <1>5, <1>7 DEF Conclude
  <2>2. marked \/ v \/ n >= field.budget  BY <1>1, <1>3, <1>5, <1>7 DEF Repeats
  <2>3. Concluded'
    <3>1. n + 1 \in 1..field.budget + 1  BY <1>1, <1>3
    <3>2. HonestUpTo(Len(ended) - 1)'
      <4>1. Len(ended') - 1 = n  BY <1>3
      <4> QED  BY <4>1, <1>4 DEF HonestUpTo
    <3>3. ended'[n + 1].value \/ ended'[n + 1].broke \/ n + 1 = field.budget + 1
      BY <1>1, <1>3, <1>5, <2>2
    <3>4. outcome' = "success" => ended'[n + 1].value \/ ended'[n + 1].refs # {}
      BY <1>3, <1>5, <2>1
    <3> QED  BY <1>1, <1>3, <3>1, <3>2, <3>3, <3>4 DEF Concluded
  <2>4. RunsWithin'
    <3>1. \A i \in DOMAIN field.items : runs'[i] <= n + 1 /\ runs'[i] \in Nat  OBVIOUS
    <3> QED  BY <1>1, <1>3, <3>1, <2>1 DEF RunsWithin
  <2> QED  BY <1>1, <1>3, <2>1, <2>3, <2>4 DEF EvidenceInv
<1> QED  BY <1>6, <1>7

(* An exception ends the field, as a failure. *)
LEMMA RaiseInv ==
  ASSUME EvidenceInv, phase \in {"search", "ask"}, Raise,
         runs' \in [DOMAIN field.items -> Nat],
         \A i \in DOMAIN field.items : runs'[i] <= Len(ended) + 1
  PROVE  EvidenceInv'
<1> DEFINE n == Len(ended)
           broken == [Result(FALSE, {}, FALSE) EXCEPT !.broke = TRUE]
<1>1. /\ field' = field /\ inner' = 0 /\ field.budget \in Nat
      /\ n <= field.budget /\ HonestUpTo(n) /\ entries' = entries
      /\ phase' = "over" /\ outcome' = "failed"
  BY FieldShape DEF EvidenceInv, Raise
<1>2. ended' = Append(ended, broken)  BY DEF Raise
<1>3. /\ IsSeq(ended') /\ n \in Nat /\ Len(ended') = n + 1
      /\ \A k \in 1..n : ended'[k] = ended[k]
      /\ ended'[n + 1] = broken
  BY <1>2, Appending DEF EvidenceInv
<1>4. broken.broke  BY DEF Result
<1>5. Concluded'
  <2>1. HonestUpTo(Len(ended) - 1)'
    <3>1. Len(ended') - 1 = n  BY <1>3
    <3>2. \A k \in 1..n : ~ended'[k].value /\ ~ended'[k].broke
      BY <1>1, <1>3 DEF HonestUpTo
    <3> QED  BY <3>1, <3>2 DEF HonestUpTo
  <2>2. n + 1 \in 1..field.budget + 1  BY <1>1, <1>3
  <2> QED  BY <1>1, <1>3, <1>4, <2>1, <2>2 DEF Concluded
<1>6. RunsWithin'
  <2>1. \A i \in DOMAIN field.items : runs'[i] <= n + 1 /\ runs'[i] \in Nat  OBVIOUS
  <2> QED  BY <1>1, <1>3, <2>1 DEF RunsWithin
<1> QED  BY <1>1, <1>3, <1>5, <1>6 DEF EvidenceInv

-----------------------------------------------------------------------------
(* The actions *)

(* A link that cannot be followed ends the field before any channel runs.   *)
LEMMA ResolveInv ==
  ASSUME EvidenceInv, Resolve
  PROVE  EvidenceInv'
<1>1. CASE field.linked = {{}}
  <2>1. phase' = "over" /\ outcome' = "failed" /\ ended' = ended /\ entries' = entries
        /\ field' = field /\ inner' = inner /\ runs' = runs
    BY <1>1 DEF Resolve
  <2>2. ended = <<>>  BY DEF Resolve, EvidenceInv
  <2> QED  BY <2>1, <2>2 DEF EvidenceInv, RunsWithin
<1>2. CASE field.linked # {{}}
  <2>1. phase' = "search" /\ outcome' = outcome /\ ended' = ended /\ entries' = entries
        /\ field' = field /\ inner' = inner /\ runs' = runs /\ phase = "start"
    BY <1>2 DEF Resolve
  <2> QED  BY <2>1 DEF EvidenceInv, RunsWithin, HonestUpTo
<1> QED  BY <1>1, <1>2

(* A channel that is skipped has not run in this attempt.                   *)
LEMMA SkipInv ==
  ASSUME EvidenceInv, Skip
  PROVE  EvidenceInv'
<1>1. /\ IsSeq(entries') /\ Len(entries) \in Nat /\ Len(entries') = Len(entries) + 1
  BY Appending DEF Skip, EvidenceInv
<1>2. /\ field' = field /\ phase' = phase /\ ended' = ended /\ runs' = runs
      /\ inner' = inner /\ outcome' = outcome /\ phase = "search"
  BY DEF Skip
<1>3. RunsWithin'
  <2>1. \A i \in DOMAIN field.items : i > Len(entries') => i > Len(entries)
    BY <1>1, FieldShape DEF EvidenceInv
  <2> QED  BY <1>2, <2>1 DEF RunsWithin, EvidenceInv
<1> QED  BY <1>1, <1>2, <1>3 DEF EvidenceInv, HonestUpTo

(* The next channel runs, and never repeats on its own: the attempts are    *)
(* those of the field.                                                      *)
LEMMA RunChannelInv ==
  ASSUME EvidenceInv, RunChannel
  PROVE  EvidenceInv'
<1> DEFINE i == Len(entries) + 1
<1>1. /\ field' = field /\ phase' = phase /\ phase = "search" /\ ended' = ended
      /\ outcome' = outcome /\ runs' = [runs EXCEPT ![i] = @ + 1]
      /\ Len(entries) < Len(field.items)
  BY DEF RunChannel
<1>2. ~(inner < OwnBudget(TRUE))  BY DEF EvidenceInv, OwnBudget
<1>3. inner' = 0 /\ \E e : entries' = Append(entries, e)
  BY <1>2 DEF RunChannel
<1>4. /\ IsSeq(entries') /\ Len(entries) \in Nat /\ Len(entries') = Len(entries) + 1
  BY <1>3, Appending DEF EvidenceInv
<1>5. i \in DOMAIN field.items /\ DOMAIN field.items = 1..Len(field.items)
  BY <1>1, <1>4, FieldShape DEF EvidenceInv
<1>6. RunsWithin'
  <2>1. Len(ended) \in Nat  BY Appending DEF EvidenceInv
  <2>2. runs[i] <= Len(ended) /\ runs[i] \in Nat
    BY <1>1, <1>4, <1>5 DEF EvidenceInv, RunsWithin
  <2>3. runs' \in [DOMAIN field.items -> Nat]
    BY <1>1, <1>5, <2>2 DEF EvidenceInv, RunsWithin
  <2>4. \A j \in DOMAIN field.items : runs'[j] = IF j = i THEN runs[i] + 1 ELSE runs[j]
    BY <1>1, <1>5 DEF EvidenceInv, RunsWithin
  <2>5. \A j \in DOMAIN field.items : runs'[j] <= Len(ended) + 1
    BY <2>1, <2>2, <2>4 DEF EvidenceInv, RunsWithin
  <2>6. \A j \in DOMAIN field.items : j > Len(entries') => runs'[j] <= Len(ended)
    BY <1>1, <1>4, <1>5, <2>4 DEF EvidenceInv, RunsWithin
  <2> QED  BY <1>1, <2>3, <2>5, <2>6 DEF RunsWithin
<1> QED  BY <1>1, <1>3, <1>4, <1>6 DEF EvidenceInv, HonestUpTo

(* The only channel of a field runs.                                        *)
LEMMA RunSingleInv ==
  ASSUME EvidenceInv, RunSingle
  PROVE  EvidenceInv'
<1>1. phase = "search" /\ entries = <<>> /\ runs' = [runs EXCEPT ![1] = @ + 1]
  BY DEF RunSingle
<1>2. 1 \in DOMAIN field.items /\ DOMAIN field.items = 1..Len(field.items)
  BY FieldShape DEF EvidenceInv
<1>3. Len(ended) \in Nat  BY Appending DEF EvidenceInv
<1>4. /\ runs' \in [DOMAIN field.items -> Nat]
      /\ \A i \in DOMAIN field.items : runs'[i] <= Len(ended) + 1
  <2>1. runs \in [DOMAIN field.items -> Nat] /\ Len(entries) = 0
    BY <1>1 DEF EvidenceInv, RunsWithin
  <2>2. \A i \in DOMAIN field.items : runs[i] <= Len(ended)
    BY <1>1, <1>2, <2>1 DEF EvidenceInv, RunsWithin
  <2>3. \A i \in DOMAIN field.items : runs'[i] = IF i = 1 THEN runs[1] + 1 ELSE runs[i]
    BY <1>1, <1>2, <2>1
  <2> QED  BY <1>1, <1>2, <1>3, <2>1, <2>2, <2>3
<1>5. PICK reply \in Replies(field.items[1]) :
        CASE reply.status = "raised" -> Raise
          [] reply.status = "marked" -> Conclude(Result(FALSE, {}, TRUE))
          [] reply.status = "ok" /\ (field.items[1] = "vl" \/ reply.refs = <<>>) ->
               Conclude(Result(reply.value, {}, FALSE))
          [] OTHER ->
               /\ entries' = <<Entry("matched", TRUE, reply)>>
               /\ phase' = "ask"
               /\ UNCHANGED <<field, merged, seen, inner, ended, outcome>>
  BY DEF RunSingle
<1>6. CASE reply.status = "raised"  BY <1>1, <1>4, <1>5, <1>6, RaiseInv
<1>7. CASE reply.status = "marked"  BY <1>1, <1>4, <1>5, <1>7, ConcludeInv
<1>8. CASE reply.status = "ok" /\ (field.items[1] = "vl" \/ reply.refs = <<>>)
  BY <1>1, <1>4, <1>5, <1>8, ConcludeInv
<1>9. CASE /\ reply.status \notin {"raised", "marked"}
           /\ ~(reply.status = "ok" /\ (field.items[1] = "vl" \/ reply.refs = <<>>))
  <2>1. /\ entries' = <<Entry("matched", TRUE, reply)>> /\ phase' = "ask"
        /\ field' = field /\ inner' = inner /\ ended' = ended /\ outcome' = outcome
    BY <1>1, <1>5, <1>9
  <2>2. IsSeq(entries')
    <3>1. \A e : <<e>> \in Seq({e})  OBVIOUS
    <3> QED  BY <2>1, <3>1 DEF IsSeq
  <2>3. RunsWithin'  BY <1>4, <2>1 DEF RunsWithin
  <2> QED  BY <1>1, <2>1, <2>2, <2>3 DEF EvidenceInv, HonestUpTo
<1> QED  BY <1>6, <1>7, <1>8, <1>9

(* The model answers, or there is nothing to ask it.                        *)
LEMMA AnsweredInv ==
  ASSUME EvidenceInv, Answered
  PROVE  EvidenceInv'
<1>1. phase = "ask" /\ runs' = runs  BY DEF Answered
<1>2. /\ runs' \in [DOMAIN field.items -> Nat]
      /\ \A i \in DOMAIN field.items : runs'[i] <= Len(ended) + 1
  BY <1>1 DEF EvidenceInv, RunsWithin
<1>3. \E v, refs : Conclude(Result(v, refs, FALSE))  BY DEF Answered
<1> QED  BY <1>1, <1>2, <1>3, ConcludeInv

(* A failing model ends the field like any other answer. *)
LEMMA ModelFailsInv ==
  ASSUME EvidenceInv, ModelFails
  PROVE  EvidenceInv'
<1>1. phase = "ask" /\ runs' = runs  BY DEF ModelFails
<1>2. /\ runs' \in [DOMAIN field.items -> Nat]
      /\ \A i \in DOMAIN field.items : runs'[i] <= Len(ended) + 1
  BY <1>1 DEF EvidenceInv, RunsWithin
<1>3. Raise \/ Conclude(Result(FALSE, {}, TRUE))  BY DEF ModelFails
<1> QED  BY <1>1, <1>2, <1>3, ConcludeInv, RaiseInv

(* The invariant is inductive. *)
LEMMA EvidenceStep ==
  ASSUME EvidenceInv, [EvidenceNext]_evidenceVars
  PROVE  EvidenceInv'
<1>1. CASE UNCHANGED evidenceVars
  BY <1>1 DEF evidenceVars, EvidenceInv, RunsWithin, Concluded, HonestUpTo
<1>2. CASE Gathered
  BY <1>2 DEF Gathered, EvidenceInv, RunsWithin, HonestUpTo
<1> QED
  BY <1>1, <1>2, ResolveInv, SkipInv, RunChannelInv, RunSingleInv, AnsweredInv, ModelFailsInv
  DEF EvidenceNext

(* At first no channel has run and nothing is found. *)
LEMMA EvidenceStart ==
  ASSUME EvidenceInit
  PROVE  EvidenceInv
<1>1. field \in Configs  BY DEF EvidenceInit
<1>2. field.budget \in Nat /\ DOMAIN field.items = 1..Len(field.items)  BY <1>1, FieldShape
<1>3. IsSeq(<<>>)
  <2>1. <<>> \in Seq({})  OBVIOUS
  <2> QED  BY <2>1 DEF IsSeq
<1>4. ended = <<>> /\ entries = <<>> /\ Len(<<>>) = 0  BY DEF EvidenceInit
<1>5. RunsWithin  BY <1>2, <1>4 DEF EvidenceInit, RunsWithin
<1>6. HonestUpTo(Len(ended))  BY <1>4 DEF HonestUpTo
<1> QED  BY <1>1, <1>2, <1>3, <1>4, <1>5, <1>6 DEF EvidenceInit, EvidenceInv

(* Only an honest empty result of retry_empty is repeated, as often as is   *)
(* configured, by the field alone and not by its channels, and a field      *)
(* succeeds only with what its last attempt found.                          *)
THEOREM EvidenceRetriesHonest == EvidenceSpec => []RetriesHonest
<1>1. EvidenceSpec => []EvidenceInv
  BY EvidenceStart, EvidenceStep, PTL DEF EvidenceSpec
<1>2. ASSUME EvidenceInv
      PROVE  RetriesHonest
  <2>1. IsSeq(ended) /\ Len(ended) \in Nat /\ field.budget \in Nat
    BY <1>2, Appending, FieldShape DEF EvidenceInv
  <2>2. Len(ended) <= field.budget + 1
    <3>1. ended = <<>> => Len(ended) = 0  OBVIOUS
    <3> QED  BY <1>2, <2>1, <3>1 DEF EvidenceInv, Concluded
  <2>3. \A k \in 1..Len(ended) - 1 : ~ended[k].value /\ ~ended[k].broke
    BY <1>2, <2>1 DEF EvidenceInv, Concluded, HonestUpTo
  <2>4. outcome # "none" /\ ended # <<>> =>
          Last(ended).value \/ Last(ended).broke \/ Len(ended) = field.budget + 1
    BY <1>2 DEF EvidenceInv, Concluded, Last
  <2>5. \A i \in DOMAIN runs : runs[i] <= Len(ended) + 1
    BY <1>2 DEF EvidenceInv, RunsWithin
  <2>6. outcome = "success" => ended # <<>> /\ (Last(ended).value \/ Last(ended).refs # {})
    <3>1. ended = <<>> => Len(ended) = 0  OBVIOUS
    <3> QED  BY <1>2, <3>1 DEF EvidenceInv, Concluded, Last
  <2> QED  BY <2>2, <2>3, <2>4, <2>5, <2>6 DEF RetriesHonest
<1> QED  BY <1>1, <1>2, PTL

-----------------------------------------------------------------------------
(* A fallback *)

Adopted(i) == entries[i].adopted

(* In a fallback, the entry that is adopted has matched; those after it are *)
(* skipped, and none is skipped before it.                                  *)
Fallback ==
  field.strategy = "fallback" =>
    \A j \in 1..Len(entries) :
      /\ ~Adopted(j) => entries[j].status \in {"empty", "error", "skipped"}
      /\ entries[j].status = "skipped" => ~Adopted(j) /\ \E i \in 1..j - 1 : Adopted(i)
      /\ \A i \in 1..j - 1 : Adopted(i) => entries[j].status = "skipped"

(* One more entry: either skipped after an adopted one, or run when there   *)
(* was none.                                                                *)
LEMMA FallbackGrows ==
  ASSUME EvidenceInv, Fallback, NEW e, entries' = Append(entries, e), field' = field,
         field.strategy = "fallback" =>
           \/ Chosen # {} /\ e.status = "skipped" /\ ~e.adopted
           \/ /\ Chosen = {} /\ e.status \in {"matched", "empty", "error"}
              /\ e.adopted <=> e.status = "matched"
  PROVE  Fallback'
<1> DEFINE n == Len(entries)
<1>1. /\ n \in Nat /\ Len(entries') = n + 1
      /\ \A i \in 1..n : entries'[i] = entries[i]
      /\ entries'[n + 1] = e
  BY Appending DEF EvidenceInv
<1>2. Chosen = {i \in 1..n : Adopted(i)}
  <2>1. PICK S : entries \in Seq(S)  BY DEF EvidenceInv, IsSeq
  <2>2. DOMAIN entries = 1..n  BY <2>1
  <2> QED  BY <2>2 DEF Chosen, Adopted
<1>3. SUFFICES ASSUME field.strategy = "fallback", NEW j \in 1..n + 1
      PROVE  /\ ~entries'[j].adopted => entries'[j].status \in {"empty", "error", "skipped"}
             /\ entries'[j].status = "skipped" =>
                  ~entries'[j].adopted /\ \E i \in 1..j - 1 : entries'[i].adopted
             /\ \A i \in 1..j - 1 : entries'[i].adopted => entries'[j].status = "skipped"
  BY <1>1 DEF Fallback, Adopted
<1>4. \A i \in 1..j - 1 : i \in 1..n /\ entries'[i] = entries[i]
  BY <1>1
<1>5. CASE j \in 1..n  BY <1>1, <1>3, <1>4, <1>5 DEF Fallback, Adopted
<1>6. CASE j = n + 1
  <2>1. entries'[j] = e /\ 1..j - 1 = 1..n  BY <1>1, <1>6
  <2>2. CASE Chosen # {} /\ e.status = "skipped" /\ ~e.adopted
    <3>1. PICK i \in 1..n : Adopted(i)  BY <1>2, <2>2
    <3> QED  BY <1>1, <2>1, <2>2, <3>1 DEF Adopted
  <2>3. CASE /\ Chosen = {} /\ e.status \in {"matched", "empty", "error"}
             /\ e.adopted <=> e.status = "matched"
    <3>1. \A i \in 1..n : ~entries'[i].adopted  BY <1>1, <1>2, <2>3 DEF Adopted
    <3> QED  BY <2>1, <2>3, <3>1
  <2> QED  BY <1>3, <2>2, <2>3
<1> QED  BY <1>1, <1>5, <1>6

(* An attempt that ends leaves its entries, or starts with none.            *)
LEMMA FallbackEnds ==
  ASSUME Fallback, field' = field, entries' = entries \/ entries' = <<>>
  PROVE  Fallback'
<1>1. CASE entries' = entries  BY <1>1 DEF Fallback, Adopted
<1>2. CASE entries' = <<>>
  <2>1. 1..Len(entries') = {}  BY <1>2
  <2> QED  BY <2>1 DEF Fallback
<1> QED  BY <1>1, <1>2

(* Only the step of a channel can end a fallback search.                    *)
LEMMA FallbackStep ==
  ASSUME EvidenceInv, Fallback, [EvidenceNext]_evidenceVars
  PROVE  Fallback'
<1>1. CASE UNCHANGED evidenceVars  BY <1>1, FallbackEnds DEF evidenceVars
<1>2. CASE Resolve  BY <1>2, FallbackEnds DEF Resolve
<1>3. CASE Gathered  BY <1>3, FallbackEnds DEF Gathered
<1>4. CASE Skip
  <2>1. Entry("skipped", FALSE, Nothing).status = "skipped"
        /\ ~Entry("skipped", FALSE, Nothing).adopted
    BY DEF Entry
  <2> QED  BY <1>4, <2>1, FallbackGrows DEF Skip, Passed
<1>5. CASE RunChannel
  <2>1. field' = field /\ (field.strategy = "fallback" => Chosen = {})
    BY <1>5 DEF RunChannel, Passed
  <2>2. ~(inner < OwnBudget(TRUE))  BY DEF EvidenceInv, OwnBudget
  <2>3. CASE field.strategy = "union"
    BY <2>1, <2>3 DEF Fallback
  <2>4. CASE field.strategy # "union"
    <3>1. PICK reply : \E status \in {"matched", "empty", "error"} :
            entries' = Append(entries, Entry(status, status = "matched", reply))
      BY <1>5, <2>2, <2>4 DEF RunChannel
    <3>2. PICK status \in {"matched", "empty", "error"} :
            entries' = Append(entries, Entry(status, status = "matched", reply))
      BY <3>1
    <3> DEFINE e == Entry(status, status = "matched", reply)
    <3>3. e.status = status /\ (e.adopted <=> status = "matched")  BY DEF Entry
    <3> QED  BY <2>1, <3>2, <3>3, FallbackGrows
  <2> QED  BY <2>3, <2>4
<1>6. CASE RunSingle
  <2>1. field.strategy = "single" /\ field' = field
    BY <1>6, RunSingleInv DEF RunSingle, Hybrid, Conclude, Raise
  <2> QED  BY <2>1 DEF Fallback
<1>7. CASE Answered  BY <1>7, FallbackEnds DEF Answered, Conclude
<1>8. CASE ModelFails  BY <1>8, FallbackEnds DEF ModelFails, Conclude, Raise
<1> QED  BY <1>1, <1>2, <1>3, <1>4, <1>5, <1>6, <1>7, <1>8 DEF EvidenceNext

(* A fallback of the hybrid search takes the first channel that found       *)
(* something: every one before it came back empty or with an error, and     *)
(* none after it was asked.                                                 *)
THEOREM FallbackTakesFirst == EvidenceSpec => []FirstTaken
<1>1. EvidenceInit => Fallback
  <2>1. EvidenceInit => 1..Len(entries) = {}  BY DEF EvidenceInit
  <2> QED  BY <2>1 DEF Fallback
<1>2. EvidenceSpec => [](EvidenceInv /\ Fallback)
  BY <1>1, EvidenceStart, EvidenceStep, FallbackStep, PTL DEF EvidenceSpec
<1>3. ASSUME EvidenceInv, Fallback
      PROVE  FirstTaken
  <2> SUFFICES ASSUME field.strategy = "fallback"
      PROVE  /\ Cardinality(Chosen) <= 1
             /\ \A i \in Chosen :
                  /\ \A j \in 1..i - 1 : entries[j].status \in {"empty", "error"}
                  /\ \A j \in i + 1..Len(entries) : entries[j].status = "skipped"
    BY DEF FirstTaken
  <2>1. PICK S : entries \in Seq(S)  BY <1>3 DEF EvidenceInv, IsSeq
  <2>2. Chosen = {i \in 1..Len(entries) : Adopted(i)} /\ Len(entries) \in Nat
    BY <2>1 DEF Chosen, Adopted
  <2>3. \A i, j \in 1..Len(entries) : i < j /\ Adopted(i) => entries[j].status = "skipped" /\ ~Adopted(j)
    BY <1>3, <2>2 DEF Fallback
  <2>4. \A i, j \in Chosen : i = j  BY <2>2, <2>3
  <2>5. Cardinality(Chosen) <= 1
    <3>1. CASE Chosen = {}  BY <3>1, FS_EmptySet
    <3>2. CASE Chosen # {}
      <4>1. PICK i : i \in Chosen  BY <3>2
      <4>2. Chosen = {i}  BY <2>4, <4>1
      <4>3. Cardinality({i}) = 1  BY FS_Singleton
      <4> QED  BY <4>2, <4>3
    <3> QED  BY <3>1, <3>2
  <2>6. ASSUME NEW i \in Chosen, NEW j \in 1..i - 1
        PROVE  entries[j].status \in {"empty", "error"}
    <3>1. j \in 1..Len(entries) /\ i \in 1..Len(entries) /\ j < i /\ Adopted(i)  BY <2>2
    <3>2. ~Adopted(j)  BY <2>3, <3>1
    <3>3. entries[j].status # "skipped"
      <4>1. SUFFICES ASSUME entries[j].status = "skipped"
            PROVE  FALSE
        OBVIOUS
      <4>2. PICK k \in 1..j - 1 : Adopted(k)  BY <1>3, <3>1, <4>1 DEF Fallback
      <4>3. k \in 1..Len(entries) /\ k < i  BY <2>2, <3>1
      <4> QED  BY <2>3, <3>1, <4>2, <4>3
    <3> QED  BY <1>3, <3>1, <3>2, <3>3 DEF Fallback
  <2>7. ASSUME NEW i \in Chosen, NEW j \in i + 1..Len(entries)
        PROVE  entries[j].status = "skipped"
    BY <2>2, <2>3
  <2> QED  BY <2>5, <2>6, <2>7
<1> QED  BY <1>2, <1>3, PTL

-----------------------------------------------------------------------------
(* Numbers and folds *)

(* A set of numbers that is not empty has a least member. *)
LEMMA LeastNumber ==
  ASSUME NEW T, T \subseteq Nat, T # {}
  PROVE  \E x \in T : \A y \in T : x <= y
<1>1. PICK x \in T : \A y \in T : ~(<<y, x>> \in OpToRel(<, Nat))
  BY WFMin, NatLessThanWellFounded
<1>2. \A y \in T : ~(y < x)  BY <1>1 DEF OpToRel
<1> QED  BY <1>2

(* What 0 has, and the successor of each that has it, all numbers up to k   *)
(* have.                                                                    *)
LEMMA UpTo ==
  ASSUME NEW k \in Nat, NEW T, 0 \in T, \A n \in 0..k : n \in T /\ n < k => n + 1 \in T
  PROVE  0..k \subseteq T
<1> DEFINE B == {n \in 0..k : n \notin T}
<1> SUFFICES ASSUME B # {} PROVE FALSE
  OBVIOUS
<1>1. B \subseteq Nat  OBVIOUS
<1>2. PICK m \in B : \A n \in B : m <= n  BY <1>1, LeastNumber
<1>3. m # 0 /\ m \in Nat /\ m - 1 \in 0..k /\ m - 1 < k  BY <1>2
<1>4. m - 1 \in T  BY <1>2, <1>3
<1>5. (m - 1) + 1 \in T  BY <1>3, <1>4
<1> QED  BY <1>2, <1>3, <1>5

(* The greatest number of an initial segment, and of a set it closes. *)
LEMMA MaxOfSegment ==
  ASSUME NEW n \in Nat \ {0}
  PROVE  /\ Max(1..n) = n /\ (1..n) \ {n} = 1..(n - 1)
         /\ \A t \in SUBSET (1..n) : n \in t => Max(t) = n
<1>1. ASSUME NEW t \in SUBSET (1..n), n \in t PROVE Max(t) = n
  <2>1. \A y \in t : n >= y  OBVIOUS
  <2>2. \E x \in t : \A y \in t : x >= y  BY <1>1, <2>1
  <2>3. Max(t) \in t /\ \A y \in t : Max(t) >= y  BY <2>2 DEF Max
  <2>4. Max(t) >= n /\ n >= Max(t) /\ Max(t) \in 1..n  BY <1>1, <2>1, <2>3
  <2> QED  BY <2>4
<1>2. (1..n) \ {n} = 1..(n - 1)  OBVIOUS
<1> QED  BY <1>1, <1>2

(* The greatest of some indices is one of them. *)
LEMMA MaxOfIndices ==
  ASSUME NEW n \in Nat, NEW t \in SUBSET (1..n), t # {}
  PROVE  Max(t) \in t
<1> DEFINE D == {n - i : i \in t}
<1>1. D \subseteq Nat /\ D # {}
  <2>1. \A i \in t : n - i \in Nat  OBVIOUS
  <2>2. PICK i : i \in t  OBVIOUS
  <2>3. n - i \in D  BY <2>2
  <2> QED  BY <2>1, <2>3
<1>2. PICK d \in D : \A y \in D : d <= y  BY <1>1, LeastNumber
<1>3. PICK m \in t : d = n - m  OBVIOUS
<1>4. \A y \in t : m >= y
  <2> TAKE y \in t
  <2>1. n - y \in D  OBVIOUS
  <2>2. n - m <= n - y  BY <1>2, <1>3, <2>1
  <2>3. n \in Int /\ m \in Int /\ y \in Int  OBVIOUS
  <2> QED  BY <2>2, <2>3
<1> QED  BY <1>4 DEF Max

(* A fold from the left, as the community modules define it: a function of  *)
(* the sets of indices, in which the greatest index comes last.             *)
IsFold(it, F, base, s) ==
  it = [t \in SUBSET DOMAIN s |->
          IF t = {} THEN base ELSE F[<<it[t \ {Max(t)}], s[Max(t)]>>]]

(* There is one, for a function that stays within a set.                    *)
LEMMA FoldExists ==
  ASSUME NEW A, NEW X, NEW F \in [A \X X -> A], NEW base \in A,
         NEW n \in Nat, NEW s, DOMAIN s = 1..n, \A i \in 1..n : s[i] \in X
  PROVE  \E it \in [SUBSET (1..n) -> A] : IsFold(it, F, base, s)
<1> DEFINE Fold(it, m) ==
      \A t \in SUBSET (1..m) :
        it[t] = IF t = {} THEN base ELSE F[<<it[t \ {Max(t)}], s[Max(t)]>>]
           T == {m \in 0..n : \E it \in [SUBSET (1..m) -> A] : Fold(it, m)}
<1>1. 0 \in T
  <2> DEFINE it == [t \in SUBSET (1..0) |-> base]
  <2>1. \A t \in SUBSET (1..0) : t = {} /\ it[t] = base  OBVIOUS
  <2>2. it \in [SUBSET (1..0) -> A]  OBVIOUS
  <2>3. 0 \in 0..n  OBVIOUS
  <2> HIDE DEF it
  <2>4. Fold(it, 0)  BY <2>1
  <2>5. \E jt \in [SUBSET (1..0) -> A] : Fold(jt, 0)  BY <2>2, <2>4
  <2> HIDE DEF Fold
  <2> QED  BY <2>3, <2>5
<1>2. ASSUME NEW m \in 0..n, m \in T, m < n PROVE m + 1 \in T
  <2>0. m \in Nat /\ m + 1 \in 0..n /\ m + 1 \in Nat \ {0} /\ (m + 1) - 1 = m  BY <1>2
  <2>1. PICK it \in [SUBSET (1..m) -> A] : Fold(it, m)  BY <1>2
  <2> DEFINE G(t) == IF m + 1 \in t THEN F[<<it[t \ {m + 1}], s[m + 1]>>] ELSE it[t]
             jt == [t \in SUBSET (1..(m + 1)) |-> G(t)]
  <2>2. \A t \in SUBSET (1..(m + 1)) :
          /\ m + 1 \in t => t \ {m + 1} \in SUBSET (1..m) /\ Max(t) = m + 1 /\ t # {}
          /\ m + 1 \notin t => t \in SUBSET (1..m)
    BY <2>0, MaxOfSegment
  <2>3. s[m + 1] \in X  BY <2>0
  <2>4. \A t \in SUBSET (1..(m + 1)) : G(t) \in A  BY <2>2, <2>3
  <2>5. jt \in [SUBSET (1..(m + 1)) -> A]  BY <2>4
  <2>6. \A t \in SUBSET (1..m) : jt[t] = it[t]
    <3>1. \A t \in SUBSET (1..m) : t \in SUBSET (1..(m + 1)) /\ m + 1 \notin t  BY <2>0
    <3> QED  BY <3>1
  <2>7. \A t \in SUBSET (1..(m + 1)) : m + 1 \in t => jt[t] = F[<<it[t \ {m + 1}], s[m + 1]>>]
    OBVIOUS
  <2> HIDE DEF jt
  <2>8. Fold(jt, m + 1)
    <3> SUFFICES ASSUME NEW t \in SUBSET (1..(m + 1))
        PROVE  jt[t] = IF t = {} THEN base ELSE F[<<jt[t \ {Max(t)}], s[Max(t)]>>]
      OBVIOUS
    <3>1. CASE m + 1 \in t
      <4>1. t \ {m + 1} \in SUBSET (1..m) /\ Max(t) = m + 1 /\ t # {}  BY <2>2, <3>1
      <4> QED  BY <2>6, <2>7, <3>1, <4>1
    <3>2. CASE m + 1 \notin t
      <4>1. t \in SUBSET (1..m)  BY <2>2, <3>2
      <4>2. t \ {Max(t)} \in SUBSET (1..m)  BY <4>1
      <4>3. jt[t] = it[t] /\ jt[t \ {Max(t)}] = it[t \ {Max(t)}]  BY <2>6, <4>1, <4>2
      <4> QED  BY <2>1, <4>1, <4>3
    <3> QED  BY <3>1, <3>2
  <2> QED  BY <2>0, <2>5, <2>8
<1> HIDE DEF T
<1>3. n \in T
  <2>1. 0..n \subseteq T  BY <1>1, <1>2, UpTo
  <2> QED  BY <2>1
<1>4. PICK it \in [SUBSET (1..n) -> A] : Fold(it, n)  BY <1>3 DEF T
<1>5. it = [t \in SUBSET (1..n) |-> it[t]]  OBVIOUS
<1>6. IsFold(it, F, base, s)  BY <1>4, <1>5 DEF IsFold
<1> QED  BY <1>6

(* The values of a fold on the initial segments of a sequence. *)
IsPrefixFold(g, A, F, base, s, n) ==
  /\ g \in [0..n -> A] /\ g[0] = base
  /\ \A i \in 1..n : g[i] = F[<<g[i - 1], s[i]>>]

(* A function of sets of indices that takes the greatest one as F does.     *)
StepsBy(it, A, X, F, base, s, n) ==
  /\ F \in [A \X X -> A] /\ base \in A
  /\ n \in Nat /\ \A i \in 1..n : s[i] \in X
  /\ it[{}] = base
  /\ \A t \in SUBSET (1..n) :
       t # {} /\ it[t \ {Max(t)}] \in A => it[t] = F[<<it[t \ {Max(t)}], s[Max(t)]>>]

(* Such a function has the values of a fold. *)
LEMMA PrefixesOf ==
  ASSUME NEW A, NEW X, NEW F, NEW base, NEW s, NEW n, NEW it,
         StepsBy(it, A, X, F, base, s, n)
  PROVE  \E g : IsPrefixFold(g, A, F, base, s, n) /\ g[n] = it[1..n]
<1> DEFINE T == {i \in 0..n : it[1..i] \in A}
           g == [i \in 0..n |-> it[1..i]]
<1>1. /\ F \in [A \X X -> A] /\ base \in A /\ it[{}] = base
      /\ n \in Nat /\ \A i \in 1..n : s[i] \in X
  BY DEF StepsBy
<1>2. ASSUME NEW i \in 1..n, it[1..(i - 1)] \in A
      PROVE  it[1..i] = F[<<it[1..(i - 1)], s[i]>>]
  <2>1. i \in Nat \ {0} /\ 1..i \in SUBSET (1..n) /\ 1..i # {}  BY <1>1
  <2>2. Max(1..i) = i /\ (1..i) \ {i} = 1..(i - 1)  BY <2>1, MaxOfSegment
  <2> QED  BY <1>2, <2>1, <2>2 DEF StepsBy
<1>3. 0 \in T
  <2>1. 1..0 = {}  OBVIOUS
  <2> QED  BY <2>1, <1>1
<1>4. ASSUME NEW i \in 0..n, i \in T, i < n PROVE i + 1 \in T
  <2>1. i + 1 \in 1..n /\ i + 1 \in 0..n /\ (i + 1) - 1 = i  BY <1>1, <1>4
  <2>2. it[1..(i + 1)] = F[<<it[1..i], s[i + 1]>>]  BY <1>2, <1>4, <2>1
  <2> QED  BY <1>1, <1>4, <2>1, <2>2
<1>5. 0..n \subseteq T
  <2> HIDE DEF T
  <2> QED  BY <1>1, <1>3, <1>4, UpTo
<1>6. \A i \in 0..n : it[1..i] \in A  BY <1>5
<1>7. g \in [0..n -> A] /\ \A i \in 0..n : g[i] = it[1..i]  BY <1>6
<1>8. g[0] = base
  <2>1. 1..0 = {} /\ 0 \in 0..n  BY <1>1
  <2> QED  BY <2>1, <1>1, <1>7
<1>9. ASSUME NEW i \in 1..n PROVE g[i] = F[<<g[i - 1], s[i]>>]
  <2>1. i \in 0..n /\ i - 1 \in 0..n  BY <1>1
  <2> QED  BY <2>1, <1>2, <1>6, <1>7
<1> HIDE DEF g
<1>10. n \in 0..n  BY <1>1
<1> QED  BY <1>7, <1>8, <1>9, <1>10 DEF IsPrefixFold

-----------------------------------------------------------------------------
(* The evidence of a field *)

(* The length of the pieces of an evidence. *)
Lengths == [p \in Int \X [key: AllKeys, len: Nat, whole: BOOLEAN] |-> p[1] + p[2].len + Separator]

(* The length of an evidence adds up piece by piece. *)
LEMMA TotalFolds ==
  ASSUME NEW s \in Seq([key: AllKeys, len: Nat, whole: BOOLEAN])
  PROVE  \E g : /\ IsPrefixFold(g, Int, Lengths, 0, s, Len(s))
                /\ Total(s) = g[Len(s)] - Separator
<1> DEFINE n == Len(s)
           X == [key: AllKeys, len: Nat, whole: BOOLEAN]
           G(it, t) == IF t = {} THEN 0 ELSE it[t \ {Max(t)}] + s[Max(t)].len + Separator
           it == CHOOSE h : h = [t \in SUBSET DOMAIN s |-> G(h, t)]
<1>1. n \in Nat /\ DOMAIN s = 1..n /\ \A i \in 1..n : s[i] \in X
  <2> HIDE DEF X
  <2>1. s \in Seq(X)  BY DEF X
  <2> QED  BY <2>1
<1>2. Lengths \in [Int \X X -> Int] /\ 0 \in Int
      /\ \A a \in Int, x \in X : Lengths[<<a, x>>] = a + x.len + Separator
  BY DEF Lengths, Separator
<1>3. Total(s) = it[DOMAIN s] - Separator
  BY DEF Total, FoldLeft, MapThenFoldSet
<1> HIDE DEF n, X
<1>4. PICK h \in [SUBSET (1..n) -> Int] : IsFold(h, Lengths, 0, s)
  BY <1>1, <1>2, FoldExists
<1>5. h = [t \in SUBSET DOMAIN s |-> G(h, t)]
  <2>1. ASSUME NEW t \in SUBSET (1..n), t # {}
        PROVE  Lengths[<<h[t \ {Max(t)}], s[Max(t)]>>] = h[t \ {Max(t)}] + s[Max(t)].len + Separator
    <3>1. Max(t) \in 1..n  BY <1>1, <2>1, MaxOfIndices
    <3>2. t \ {Max(t)} \in SUBSET (1..n)  OBVIOUS
    <3> QED  BY <1>1, <1>2, <1>4, <3>1, <3>2
  <2> QED  BY <1>1, <1>4, <2>1 DEF IsFold
<1>6. it = [t \in SUBSET DOMAIN s |-> G(it, t)]  BY <1>5
<1> HIDE DEF it
<1>7. \A t \in SUBSET (1..n) : it[t] = G(it, t)  BY <1>1, <1>6
<1>8. StepsBy(it, Int, X, Lengths, 0, s, n)
  <2>1. {} \in SUBSET (1..n)  OBVIOUS
  <2>2. ASSUME NEW t \in SUBSET (1..n), t # {}, it[t \ {Max(t)}] \in Int
        PROVE  it[t] = Lengths[<<it[t \ {Max(t)}], s[Max(t)]>>]
    <3>1. Max(t) \in 1..n  BY <1>1, <2>2, MaxOfIndices
    <3> QED  BY <1>1, <1>2, <1>7, <2>2, <3>1
  <2> QED  BY <1>1, <1>2, <1>7, <2>1, <2>2 DEF StepsBy
<1>9. PICK g : IsPrefixFold(g, Int, Lengths, 0, s, n) /\ g[n] = it[1..n]
  BY <1>8, PrefixesOf
<1>10. Total(s) = g[n] - Separator  BY <1>1, <1>3, <1>9
<1> QED  BY <1>9, <1>10 DEF n

(* Where an element of a finite set of numbers stands in their order.       *)
LEMMA OrderedOnto ==
  ASSUME NEW S \in SUBSET Int, IsFiniteSet(S)
  PROVE  /\ Ordered(S) \in Seq(S) /\ Len(Ordered(S)) = Cardinality(S)
         /\ \A x \in S : \E j \in 1..Len(Ordered(S)) : Ordered(S)[j] = x
         /\ \A i, j \in 1..Len(Ordered(S)) : i < j => Ordered(S)[i] < Ordered(S)[j]
<1> DEFINE n == Cardinality(S)
           Before(x) == {y \in S : y < x}
           rank == [x \in S |-> Cardinality(Before(x))]
<1>1. n \in Nat  BY FS_CardinalityType
<1>2. IsFiniteSet(0..n - 1) /\ Cardinality(0..n - 1) = n
  <2>1. n - 1 \in Int  BY <1>1
  <2>2. IsFiniteSet(0..n - 1) /\ Cardinality(0..n - 1) = IF 0 > n - 1 THEN 0 ELSE (n - 1) - 0 + 1
    BY <2>1, FS_Interval
  <2> QED  BY <1>1, <2>2
<1>3. \A x \in S : IsFiniteSet(Before(x)) /\ Cardinality(Before(x)) \in 0..n - 1
  <2> TAKE x \in S
  <2>1. IsFiniteSet(S \ {x}) /\ Cardinality(S \ {x}) = n - 1  BY FS_RemoveElement
  <2>2. Before(x) \in SUBSET (S \ {x})  OBVIOUS
  <2>3. IsFiniteSet(Before(x)) /\ Cardinality(Before(x)) <= n - 1
    BY <2>1, <2>2, FS_Subset
  <2>4. Cardinality(Before(x)) \in Nat  BY <2>3, FS_CardinalityType
  <2> QED  BY <1>1, <2>3, <2>4
<1>4. \A x, y \in S : x < y => Cardinality(Before(x)) < Cardinality(Before(y))
  <2> SUFFICES ASSUME NEW x \in S, NEW y \in S, x < y
      PROVE  Cardinality(Before(x)) < Cardinality(Before(y))
    OBVIOUS
  <2>1. Before(x) \in SUBSET Before(y) /\ x \in Before(y) /\ x \notin Before(x)
    <3>1. \A z \in S : z < x => z < y  OBVIOUS
    <3>2. ~(x < x)  OBVIOUS
    <3> QED  BY <3>1, <3>2
  <2> HIDE DEF Before
  <2>2. Before(x) # Before(y)  BY <2>1
  <2>3. Cardinality(Before(x)) <= Cardinality(Before(y))  BY <1>3, <2>1, FS_Subset
  <2>4. Cardinality(Before(x)) # Cardinality(Before(y))  BY <1>3, <2>1, <2>2, FS_Subset
  <2> QED  BY <1>3, <2>3, <2>4
<1>5. rank \in Injection(S, 0..n - 1)
  <2>1. rank \in [S -> 0..n - 1]  BY <1>3
  <2>2. ASSUME NEW x \in S, NEW y \in S, rank[x] = rank[y] PROVE x = y
    <3>1. Cardinality(Before(x)) = Cardinality(Before(y))  BY <2>2
    <3>2. x < y \/ y < x \/ x = y  OBVIOUS
    <3>3. Cardinality(Before(x)) \in Int /\ Cardinality(Before(y)) \in Int  BY <1>3
    <3> HIDE DEF Before
    <3> QED  BY <1>4, <3>1, <3>2, <3>3
  <2> HIDE DEF rank
  <2> QED  BY <2>1, <2>2 DEF Injection, IsInjective
<1>6. rank \in Surjection(S, 0..n - 1)
  BY <1>2, <1>5, FS_Injection
<1>7. \A j \in 1..n : \E x \in S : Cardinality({y \in S : y < x}) = j - 1
  <2> TAKE j \in 1..n
  <2>1. j - 1 \in 0..n - 1  BY <1>1
  <2>2. PICK x \in S : rank[x] = j - 1  BY <1>6, <2>1 DEF Surjection
  <2> QED  BY <2>2
<1>8. \A j \in 1..n : Ordered(S)[j] \in S /\ Cardinality(Before(Ordered(S)[j])) = j - 1
  <2> TAKE j \in 1..n
  <2>1. Ordered(S)[j] = CHOOSE x \in S : Cardinality(Before(x)) = j - 1  BY DEF Ordered
  <2> QED  BY <1>7, <2>1
<1>9. Ordered(S) = [j \in 1..n |-> Ordered(S)[j]]  BY SMTT(40) DEF Ordered
<1>10. Ordered(S) \in Seq(S) /\ Len(Ordered(S)) = n
  <2>1. \A j \in 1..n : Ordered(S)[j] \in S  BY <1>8
  <2> QED  BY <1>1, <1>9, <2>1
<1> HIDE DEF Before
<1>11. ASSUME NEW x \in S PROVE \E j \in 1..n : Ordered(S)[j] = x
  <2>1. Cardinality(Before(x)) + 1 \in 1..n  BY <1>1, <1>3
  <2>2. Ordered(S)[Cardinality(Before(x)) + 1] \in S
        /\ Cardinality(Before(Ordered(S)[Cardinality(Before(x)) + 1])) = Cardinality(Before(x))
    BY <1>3, <1>8, <2>1
  <2>3. rank[Ordered(S)[Cardinality(Before(x)) + 1]] = rank[x]  BY <2>2
  <2> HIDE DEF rank
  <2>4. Ordered(S)[Cardinality(Before(x)) + 1] = x
    BY <1>5, <2>2, <2>3 DEF Injection, IsInjective
  <2> QED  BY <2>1, <2>4
<1>12. ASSUME NEW i \in 1..n, NEW j \in 1..n, i < j PROVE Ordered(S)[i] < Ordered(S)[j]
  <2> DEFINE x == Ordered(S)[i]
             y == Ordered(S)[j]
  <2>1. x \in S /\ y \in S /\ Cardinality(Before(x)) = i - 1 /\ Cardinality(Before(y)) = j - 1
    BY <1>8
  <2> HIDE DEF x, y
  <2>2. x # y  BY <1>1, <1>12, <2>1
  <2>3. ~(y < x)
    <3>1. y < x => j - 1 < i - 1  BY <1>4, <2>1
    <3> QED  BY <1>1, <1>12, <3>1
  <2>4. x < y  BY <2>1, <2>2, <2>3
  <2> QED  BY <2>4 DEF x, y
<1> QED  BY <1>10, <1>11, <1>12

(* The pieces that a search by page takes are among those it may read.      *)
LEMMA PageHitsWithin ==
  ASSUME NEW S \in SUBSET DOMAIN PagePieces
  PROVE  PageHits(S) \in Seq(S)
<1> DEFINE s == Ordered(S)
           n == Len(s)
           A == [used: Nat, full: BOOLEAN, out: Seq(S)]
           base == [used |-> 0, full |-> FALSE, out |-> <<>>]
           Op(acc, p) ==
             IF acc.full THEN acc
             ELSE [used |-> acc.used + Length[p], full |-> acc.used + Length[p] > PageLimit,
                   out |-> Append(acc.out, p)]
           F == [x \in A \X S |-> Op(x[1], x[2])]
           G(h, t) == IF t = {} THEN base ELSE Op(h[t \ {Max(t)}], s[Max(t)])
           it == CHOOSE h : h = [t \in SUBSET DOMAIN s |-> G(h, t)]
<1>1. n \in Nat /\ DOMAIN s = 1..n /\ \A i \in 1..n : s[i] \in S
  <2>1. IsFiniteSet(S)
    <3>1. Len(PagePieces) \in Int /\ 1 \in Int /\ DOMAIN PagePieces = 1..Len(PagePieces)
      BY PagePiecesOK
    <3>2. IsFiniteSet(1..Len(PagePieces))  BY <3>1, FS_Interval
    <3> QED  BY <3>1, <3>2, FS_Subset
  <2>2. s \in Seq(S)
    <3>1. S \in SUBSET Int  BY PagePiecesOK
    <3> QED  BY <2>1, <3>1, OrderedOnto
  <2> HIDE DEF s
  <2> QED  BY <2>2
<1>2. \A acc \in A, p \in S : Op(acc, p) \in A
  <2>1. \A p \in S : Length[p] \in Nat  BY LengthsPositive
  <2> SUFFICES ASSUME NEW acc \in A, NEW p \in S, ~acc.full PROVE Op(acc, p) \in A
    OBVIOUS
  <2>2. acc.used + Length[p] \in Nat /\ Append(acc.out, p) \in Seq(S)  BY <2>1
  <2>3. (acc.used + Length[p] > PageLimit) \in BOOLEAN  OBVIOUS
  <2> QED  BY <2>2, <2>3
<1>3. base \in A
  <2>1. <<>> \in Seq(S)  OBVIOUS
  <2> QED  BY <2>1
<1>4. PageHits(S) = it[DOMAIN s].out
  BY DEF PageHits, FoldLeft, MapThenFoldSet
<1> HIDE DEF n, A, base, Op, s
<1>5. F \in [A \X S -> A] /\ \A acc \in A, p \in S : F[<<acc, p>>] = Op(acc, p)
  BY <1>2
<1> HIDE DEF F
<1>6. PICK h \in [SUBSET (1..n) -> A] : IsFold(h, F, base, s)
  BY <1>1, <1>3, <1>5, FoldExists
<1>7. h = [t \in SUBSET DOMAIN s |-> G(h, t)]
  <2>1. ASSUME NEW t \in SUBSET (1..n), t # {}
        PROVE  F[<<h[t \ {Max(t)}], s[Max(t)]>>] = Op(h[t \ {Max(t)}], s[Max(t)])
    <3>1. Max(t) \in 1..n  BY <1>1, <2>1, MaxOfIndices
    <3>2. t \ {Max(t)} \in SUBSET (1..n)  OBVIOUS
    <3> QED  BY <1>1, <1>5, <1>6, <3>1, <3>2
  <2> QED  BY <1>1, <1>6, <2>1 DEF IsFold
<1>8. it = [t \in SUBSET DOMAIN s |-> G(it, t)]  BY <1>7
<1> HIDE DEF it
<1>9. \A t \in SUBSET (1..n) : it[t] = G(it, t)  BY <1>1, <1>8
<1>10. StepsBy(it, A, S, F, base, s, n)
  <2>1. {} \in SUBSET (1..n)  OBVIOUS
  <2>2. ASSUME NEW t \in SUBSET (1..n), t # {}, it[t \ {Max(t)}] \in A
        PROVE  it[t] = F[<<it[t \ {Max(t)}], s[Max(t)]>>]
    <3>1. Max(t) \in 1..n  BY <1>1, <2>2, MaxOfIndices
    <3> QED  BY <1>1, <1>5, <1>9, <2>2, <3>1
  <2> QED  BY <1>1, <1>3, <1>5, <1>9, <2>1, <2>2 DEF StepsBy
<1>11. PICK g : IsPrefixFold(g, A, F, base, s, n) /\ g[n] = it[1..n]
  BY <1>10, PrefixesOf
<1>12. g[n] \in A  BY <1>1, <1>11 DEF IsPrefixFold
<1> QED  BY <1>1, <1>4, <1>11, <1>12 DEF A

(* A piece of evidence: some of the text of a hit, or all of it. *)
Piece == {p \in [key: AllKeys, len: Nat \ {0}, whole: BOOLEAN] : p.len <= Length[p.key]}

(* The room that is left, with the separators counted, is what each piece   *)
(* takes from it.                                                           *)
LEMMA RoomShrinks ==
  /\ RoomLeft(<<>>) = MaxLength
  /\ \A s \in Seq(Piece) :
       /\ Total(s) \in Int /\ RoomLeft(s) \in Int
       /\ s # <<>> => RoomLeft(s) = MaxLength - Total(s) - Separator
       /\ \A e \in Piece : RoomLeft(Append(s, e)) = RoomLeft(s) - e.len - Separator
<1> DEFINE Y == [key: AllKeys, len: Nat, whole: BOOLEAN]
<1>1. \A s \in Seq(Piece) : s \in Seq(Y)
  <2>1. Piece \subseteq Y  BY DEF Piece
  <2> HIDE DEF Y
  <2> QED  BY <2>1
<1>2. Lengths \in [Int \X Y -> Int]
      /\ \A n \in Int, p \in Y : Lengths[<<n, p>>] = n + p.len + Separator
  BY DEF Lengths, Separator
<1>3. \A s \in Seq(Piece) : Total(s) \in Int
  <2> TAKE s \in Seq(Piece)
  <2>1. PICK g : IsPrefixFold(g, Int, Lengths, 0, s, Len(s)) /\ Total(s) = g[Len(s)] - Separator
    BY <1>1, TotalFolds
  <2>2. Len(s) \in 0..Len(s)  OBVIOUS
  <2>3. g[Len(s)] \in Int  BY <2>1, <2>2 DEF IsPrefixFold
  <2> QED  BY <2>1, <2>3 DEF Separator
<1>4. Total(<<>>) = 0 - Separator
  <2>1. <<>> \in Seq(Y) /\ Len(<<>>) = 0  OBVIOUS
  <2>2. PICK g : IsPrefixFold(g, Int, Lengths, 0, <<>>, Len(<<>>))
                 /\ Total(<<>>) = g[Len(<<>>)] - Separator
    BY <2>1, TotalFolds
  <2> QED  BY <2>1, <2>2 DEF IsPrefixFold
<1>5. ASSUME NEW s \in Seq(Piece), NEW e \in Piece
      PROVE  Total(Append(s, e)) = Total(s) + e.len + Separator
  <2> DEFINE n == Len(s)
             r == Append(s, e)
  <2>1. /\ r \in Seq(Piece) /\ n \in Nat /\ Len(r) = n + 1 /\ r[n + 1] = e
        /\ \A i \in 1..n : r[i] = s[i]
    OBVIOUS
  <2>2. PICK g : IsPrefixFold(g, Int, Lengths, 0, s, Len(s)) /\ Total(s) = g[Len(s)] - Separator
    BY <1>1, TotalFolds
  <2>3. PICK h : IsPrefixFold(h, Int, Lengths, 0, r, Len(r)) /\ Total(r) = h[Len(r)] - Separator
    BY <1>1, <2>1, TotalFolds
  <2> DEFINE T == {i \in 0..n : h[i] = g[i]}
  <2> HIDE DEF r
  <2>4. 0 \in T
    BY <2>1, <2>2, <2>3 DEF IsPrefixFold
  <2>5. ASSUME NEW i \in 0..n, i \in T, i < n PROVE i + 1 \in T
    <3>1. i + 1 \in 1..n /\ i + 1 \in 1..(n + 1) /\ (i + 1) - 1 = i /\ i + 1 \in 0..n
      BY <2>1, <2>5
    <3>2. g[i + 1] = Lengths[<<g[i], s[i + 1]>>]  BY <2>2, <3>1 DEF IsPrefixFold
    <3>3. h[i + 1] = Lengths[<<h[i], r[i + 1]>>]  BY <2>1, <2>3, <3>1 DEF IsPrefixFold
    <3> QED  BY <2>1, <2>5, <3>1, <3>2, <3>3
  <2>6. n \in T
    <3>1. n \in 0..n  BY <2>1
    <3> HIDE DEF T
    <3> QED  BY <2>1, <2>4, <2>5, <3>1, UpTo
  <2>7. h[n + 1] = Lengths[<<h[n], e>>]
    <3>1. n + 1 \in 1..(n + 1) /\ (n + 1) - 1 = n  BY <2>1
    <3> QED  BY <2>1, <2>3, <3>1 DEF IsPrefixFold
  <2>8. g[n] \in Int
    <3>1. n \in 0..n  BY <2>1
    <3> QED  BY <2>2, <3>1 DEF IsPrefixFold
  <2>9. e \in Y /\ e.len \in Nat  BY DEF Piece
  <2>10. h[n + 1] = g[n] + e.len + Separator  BY <1>2, <2>6, <2>7, <2>8, <2>9
  <2>11. Total(r) = h[n + 1] - Separator /\ Total(s) = g[n] - Separator  BY <2>1, <2>2, <2>3
  <2> QED  BY <2>8, <2>9, <2>10, <2>11 DEF r, Separator
<1>6. RoomLeft(<<>>) = MaxLength  BY DEF RoomLeft
<1>7. MaxLength \in Nat  BY LimitsNatural
<1>8. ASSUME NEW s \in Seq(Piece)
      PROVE  RoomLeft(s) = MaxLength - Total(s) - Separator
  BY <1>4, <1>7 DEF RoomLeft, Separator
<1>9. ASSUME NEW s \in Seq(Piece), NEW e \in Piece
      PROVE  RoomLeft(Append(s, e)) = RoomLeft(s) - e.len - Separator
  <2>1. Append(s, e) # <<>>
    <3>1. Len(Append(s, e)) = Len(s) + 1 /\ Len(s) \in Nat /\ Len(<<>>) = 0  OBVIOUS
    <3>2. Len(Append(s, e)) # Len(<<>>)  BY <3>1
    <3> QED  BY <3>2
  <2>2. RoomLeft(Append(s, e)) = MaxLength - Total(Append(s, e)) - Separator
    BY <2>1 DEF RoomLeft
  <2>3. Total(s) \in Int /\ e.len \in Int  BY <1>3 DEF Piece
  <2> QED  BY <1>5, <1>7, <1>8, <2>2, <2>3 DEF Separator
<1>10. ASSUME NEW s \in Seq(Piece)
       PROVE  Total(s) \in Int /\ RoomLeft(s) \in Int
  BY <1>3, <1>7, <1>8 DEF Separator
<1> QED  BY <1>6, <1>8, <1>9, <1>10

(* What is remembered of a hit that was taken, in whole or in part. *)
Marked == {<<"whole", k>> : k \in AllKeys} \union {<<"partial", k, n>> : k \in AllKeys, n \in Nat}

(* A hit that was taken whole is not taken again. *)
Once(out) ==
  \A i, j \in 1..Len(out) : i < j /\ out[i].key = out[j].key => ~out[i].whole

(* The whole pieces are remembered. *)
Remembered(out, marks) == \A i \in 1..Len(out) : out[i].whole => <<"whole", out[i].key>> \in marks

(* No piece is of a hit that was taken whole before. *)
New(out, marks) == \A i \in 1..Len(out) : <<"whole", out[i].key>> \notin marks

(* What the pieces of a channel are, and what is remembered with them. *)
PiecesFrom(taken) ==
  {acc \in [seen: SUBSET Marked, room: Int, out: Seq(Piece)] :
     /\ taken \subseteq acc.seen
     /\ Once(acc.out) /\ Remembered(acc.out, acc.seen) /\ New(acc.out, taken)}

(* One more hit: either left, or remembered and appended. *)
LEMMA PieceTaken ==
  ASSUME NEW taken, NEW acc \in PiecesFrom(taken), NEW k \in AllKeys, NEW n \in Nat \ {0},
         n <= Length[k], <<"whole", k>> \notin acc.seen, NEW room \in Int,
         NEW key, key = IF n < Length[k] THEN <<"partial", k, n>> ELSE <<"whole", k>>
  PROVE  [seen |-> acc.seen \union {key}, room |-> room,
          out |-> Append(acc.out, [key |-> k, len |-> n, whole |-> n = Length[k]])]
           \in PiecesFrom(taken)
<1> DEFINE p == [key |-> k, len |-> n, whole |-> n = Length[k]]
           m == Len(acc.out)
           out == Append(acc.out, p)
           marks == acc.seen \union {key}
<1>1. /\ acc.seen \in SUBSET Marked /\ acc.out \in Seq(Piece) /\ taken \subseteq acc.seen
      /\ Once(acc.out) /\ Remembered(acc.out, acc.seen) /\ New(acc.out, taken)
  BY DEF PiecesFrom
<1>2. Length[k] \in Nat \ {0}  BY LengthsPositive DEF AllKeys
<1>3. p \in Piece /\ p.key = k /\ (p.whole <=> n = Length[k])
  <2>1. (n = Length[k]) \in BOOLEAN  OBVIOUS
  <2> QED  BY <2>1 DEF Piece
<1>4. key \in Marked /\ (p.whole => key = <<"whole", k>>)
  <2>1. n = Length[k] => ~(n < Length[k])  BY <1>2
  <2> QED  BY <1>3, <2>1 DEF Marked
<1> HIDE DEF p
<1>5. /\ out \in Seq(Piece) /\ m \in Nat /\ Len(out) = m + 1 /\ out[m + 1] = p
      /\ \A i \in 1..m : out[i] = acc.out[i]
  BY <1>1, <1>3
<1>6. Remembered(out, marks)
  <2> SUFFICES ASSUME NEW i \in 1..(m + 1), out[i].whole PROVE <<"whole", out[i].key>> \in marks
    BY <1>5 DEF Remembered
  <2>1. CASE i \in 1..m  BY <1>1, <1>5, <2>1 DEF Remembered
  <2>2. CASE i = m + 1  BY <1>3, <1>4, <1>5, <2>2
  <2>3. i \in 1..m \/ i = m + 1  BY <1>5
  <2> QED  BY <2>1, <2>2, <2>3
<1>7. New(out, taken)
  <2> SUFFICES ASSUME NEW i \in 1..(m + 1) PROVE <<"whole", out[i].key>> \notin taken
    BY <1>5 DEF New
  <2>1. CASE i \in 1..m  BY <1>1, <1>5, <2>1 DEF New
  <2>2. CASE i = m + 1  BY <1>1, <1>3, <1>5, <2>2
  <2>3. i \in 1..m \/ i = m + 1  BY <1>5
  <2> QED  BY <2>1, <2>2, <2>3
<1>8. Once(out)
  <2> SUFFICES ASSUME NEW i \in 1..(m + 1), NEW j \in 1..(m + 1), i < j,
                      out[i].key = out[j].key, out[i].whole
      PROVE  FALSE
    BY <1>5 DEF Once
  <2>1. i \in 1..m  BY <1>5
  <2>2. CASE j \in 1..m  BY <1>1, <1>5, <2>1, <2>2 DEF Once
  <2>3. CASE j = m + 1  BY <1>1, <1>3, <1>5, <2>1, <2>3 DEF Remembered
  <2> QED  BY <1>5, <2>2, <2>3
<1>9. marks \in SUBSET Marked /\ taken \subseteq marks  BY <1>1, <1>4
<1> HIDE DEF out, marks
<1>10. [seen |-> marks, room |-> room, out |-> out] \in PiecesFrom(taken)
  BY <1>5, <1>6, <1>7, <1>8, <1>9 DEF PiecesFrom
<1> QED  BY <1>10 DEF out, marks, p

(* The pieces of a channel's reply. *)
LEMMA PiecesSound ==
  ASSUME NEW reply, reply.refs \in Seq(AllKeys), NEW limit, limit.set \in BOOLEAN, limit.room \in Nat,
         NEW taken \in SUBSET Marked
  PROVE  Pieces(reply, limit, taken) \in PiecesFrom(taken)
<1> DEFINE s == reply.refs
           n == Len(s)
           A == PiecesFrom(taken)
           base == [seen |-> taken, room |-> limit.room, out |-> <<>>]
           Op(acc, k) ==
             LET l == IF limit.set /\ Length[k] > acc.room THEN acc.room ELSE Length[k]
                 key == IF l < Length[k] THEN <<"partial", k, l>> ELSE <<"whole", k>>
             IN IF <<"whole", k>> \in acc.seen \/ (limit.set /\ acc.room <= 0) \/ key \in acc.seen
                  THEN acc
                ELSE [seen |-> acc.seen \union {key},
                      room |-> acc.room - l - Separator,
                      out |-> Append(acc.out, [key |-> k, len |-> l, whole |-> l = Length[k]])]
           F == [x \in A \X AllKeys |-> Op(x[1], x[2])]
           G(h, t) == IF t = {} THEN base ELSE Op(h[t \ {Max(t)}], s[Max(t)])
           it == CHOOSE h : h = [t \in SUBSET DOMAIN s |-> G(h, t)]
<1>1. n \in Nat /\ DOMAIN s = 1..n /\ \A i \in 1..n : s[i] \in AllKeys
  <2> HIDE DEF s
  <2>1. s \in Seq(AllKeys)  BY DEF s
  <2> QED  BY <2>1
<1>2. ASSUME NEW acc \in A, NEW k \in AllKeys PROVE Op(acc, k) \in A
  <2> DEFINE l == IF limit.set /\ Length[k] > acc.room THEN acc.room ELSE Length[k]
             key == IF l < Length[k] THEN <<"partial", k, l>> ELSE <<"whole", k>>
             left == <<"whole", k>> \in acc.seen \/ (limit.set /\ acc.room <= 0) \/ key \in acc.seen
  <2>1. CASE left  BY <2>1
  <2>2. CASE ~left
    <3>1. acc.room \in Int  BY DEF PiecesFrom
    <3>2. Length[k] \in Nat \ {0}  BY LengthsPositive DEF AllKeys
    <3>3. l \in Nat \ {0} /\ l <= Length[k] /\ acc.room - l - Separator \in Int
      BY <2>2, <3>1, <3>2 DEF Separator
    <3>4. <<"whole", k>> \notin acc.seen  BY <2>2
    <3> DEFINE new == [seen |-> acc.seen \union {key}, room |-> acc.room - l - Separator,
                       out |-> Append(acc.out, [key |-> k, len |-> l, whole |-> l = Length[k]])]
    <3>5. Op(acc, k) = new  BY <2>2
    <3> HIDE DEF l, left
    <3>6. new \in A  BY <3>3, <3>4, PieceTaken
    <3> HIDE DEF Op, new
    <3> QED  BY <3>5, <3>6
  <2> QED  BY <2>1, <2>2
<1>3. base \in A
  <2>1. <<>> \in Seq(Piece) /\ 1..Len(<<>>) = {}  OBVIOUS
  <2>2. Once(<<>>) /\ Remembered(<<>>, taken) /\ New(<<>>, taken)
    BY <2>1 DEF Once, Remembered, New
  <2> QED  BY <2>1, <2>2 DEF PiecesFrom
<1>4. Pieces(reply, limit, taken) = it[DOMAIN s]
  BY DEF Pieces, FoldLeft, MapThenFoldSet
<1> HIDE DEF n, A, base, Op, s
<1>5. F \in [A \X AllKeys -> A] /\ \A acc \in A, k \in AllKeys : F[<<acc, k>>] = Op(acc, k)
  BY <1>2
<1> HIDE DEF F
<1>6. PICK h \in [SUBSET (1..n) -> A] : IsFold(h, F, base, s)
  BY <1>1, <1>3, <1>5, FoldExists
<1>7. h = [t \in SUBSET DOMAIN s |-> G(h, t)]
  <2>1. ASSUME NEW t \in SUBSET (1..n), t # {}
        PROVE  F[<<h[t \ {Max(t)}], s[Max(t)]>>] = Op(h[t \ {Max(t)}], s[Max(t)])
    <3>1. Max(t) \in 1..n  BY <1>1, <2>1, MaxOfIndices
    <3>2. t \ {Max(t)} \in SUBSET (1..n)  OBVIOUS
    <3> QED  BY <1>1, <1>5, <1>6, <3>1, <3>2
  <2> QED  BY <1>1, <1>6, <2>1 DEF IsFold
<1>8. it = [t \in SUBSET DOMAIN s |-> G(it, t)]  BY <1>7
<1> HIDE DEF it
<1>9. \A t \in SUBSET (1..n) : it[t] = G(it, t)  BY <1>1, <1>8
<1>10. StepsBy(it, A, AllKeys, F, base, s, n)
  <2>1. {} \in SUBSET (1..n)  OBVIOUS
  <2>2. ASSUME NEW t \in SUBSET (1..n), t # {}, it[t \ {Max(t)}] \in A
        PROVE  it[t] = F[<<it[t \ {Max(t)}], s[Max(t)]>>]
    <3>1. Max(t) \in 1..n  BY <1>1, <2>2, MaxOfIndices
    <3> QED  BY <1>1, <1>5, <1>9, <2>2, <3>1
  <2> QED  BY <1>1, <1>3, <1>5, <1>9, <2>1, <2>2 DEF StepsBy
<1>11. PICK g : IsPrefixFold(g, A, F, base, s, n) /\ g[n] = it[1..n]
  BY <1>10, PrefixesOf
<1>12. n \in 0..n /\ g[n] \in A  BY <1>1, <1>11 DEF IsPrefixFold
<1>13. Pieces(reply, limit, taken) \in A  BY <1>1, <1>4, <1>11, <1>12
<1> QED  BY <1>13 DEF A

(* A piece as it joins the evidence, cut to the room that is left.          *)
Fitted(p, room) ==
  [p EXCEPT !.len = IF @ > room THEN room ELSE @, !.whole = @ /\ p.len <= room]

Added(acc, p) ==
  IF RoomLeft(acc) <= 0 THEN acc ELSE Append(acc, Fitted(p, RoomLeft(acc)))

(* A piece that is cut is a piece, and fits. *)
LEMMA FittedPiece ==
  ASSUME NEW p \in Piece, NEW room \in Int, room > 0
  PROVE  /\ Fitted(p, room) \in Piece /\ Fitted(p, room).key = p.key
         /\ Fitted(p, room).len <= room
         /\ Fitted(p, room).whole => p.whole
<1> DEFINE l == IF p.len > room THEN room ELSE p.len
           w == p.whole /\ p.len <= room
<1>1. p \in [key: AllKeys, len: Nat \ {0}, whole: BOOLEAN] /\ p.len <= Length[p.key]
  BY DEF Piece
<1>2. Fitted(p, room) = [p EXCEPT !.len = l, !.whole = w]
  BY DEF Fitted
<1>3. p.key \in AllKeys /\ Length[p.key] \in Nat
  BY <1>1, LengthsPositive DEF AllKeys
<1>4. l \in Nat \ {0} /\ l <= room /\ l <= Length[p.key]  BY <1>1, <1>3
<1>5. w \in BOOLEAN /\ (w => p.whole)  OBVIOUS
<1> HIDE DEF l, w
<1>6. /\ [p EXCEPT !.len = l, !.whole = w] \in [key: AllKeys, len: Nat \ {0}, whole: BOOLEAN]
      /\ [p EXCEPT !.len = l, !.whole = w].key = p.key
      /\ [p EXCEPT !.len = l, !.whole = w].len = l
      /\ [p EXCEPT !.len = l, !.whole = w].whole = w
  BY <1>1, <1>4, <1>5
<1>7. /\ Fitted(p, room) \in [key: AllKeys, len: Nat \ {0}, whole: BOOLEAN]
      /\ Fitted(p, room).key = p.key /\ Fitted(p, room).len = l /\ Fitted(p, room).whole = w
  BY <1>2, <1>6, Zenon
<1> QED  BY <1>4, <1>5, <1>7 DEF Piece

(* The evidence after one more piece.                                       *)
LEMMA PieceAdded ==
  ASSUME NEW acc \in Seq(Piece), NEW p \in Piece, RoomLeft(acc) >= 0 - Separator
  PROVE  /\ Added(acc, p) \in Seq(Piece)
         /\ RoomLeft(Added(acc, p)) >= 0 - Separator
         /\ \/ Added(acc, p) = acc
            \/ \E q \in Piece : /\ Added(acc, p) = Append(acc, q)
                                /\ q.key = p.key /\ (q.whole => p.whole)
<1>1. RoomLeft(acc) \in Int  BY RoomShrinks
<1>2. CASE RoomLeft(acc) <= 0  BY <1>2 DEF Added
<1>3. CASE ~(RoomLeft(acc) <= 0)
  <2> DEFINE q == Fitted(p, RoomLeft(acc))
  <2>1. Added(acc, p) = Append(acc, q)  BY <1>3 DEF Added
  <2>2. q \in Piece /\ q.key = p.key /\ q.len <= RoomLeft(acc) /\ (q.whole => p.whole)
    BY <1>1, <1>3, FittedPiece
  <2>3. q.len \in Nat  BY <2>2 DEF Piece
  <2> HIDE DEF q
  <2>4. RoomLeft(Append(acc, q)) = RoomLeft(acc) - q.len - Separator  BY <2>2, RoomShrinks
  <2>5. RoomLeft(Append(acc, q)) >= 0 - Separator  BY <1>1, <2>2, <2>3, <2>4 DEF Separator
  <2> QED  BY <2>1, <2>2, <2>5
<1> QED  BY <1>2, <1>3

(* The pieces of a channel join those of the channels before it: within the *)
(* length, and no hit again that was whole.                                 *)
LEMMA JoinSound ==
  ASSUME NEW taken, NEW marks, taken \subseteq marks,
         NEW shown \in Seq(Piece), RoomLeft(shown) >= 0 - Separator,
         Once(shown), Remembered(shown, taken),
         NEW pieces \in Seq(Piece), Once(pieces), Remembered(pieces, marks), New(pieces, taken)
  PROVE  /\ JoinPieces(shown, pieces) \in Seq(Piece)
         /\ RoomLeft(JoinPieces(shown, pieces)) >= 0 - Separator
         /\ Once(JoinPieces(shown, pieces)) /\ Remembered(JoinPieces(shown, pieces), marks)
<1> DEFINE n == Len(pieces)
           A == {acc \in Seq(Piece) : RoomLeft(acc) >= 0 - Separator}
           F == [x \in A \X Piece |-> Added(x[1], x[2])]
           G(h, t) == IF t = {} THEN shown ELSE Added(h[t \ {Max(t)}], pieces[Max(t)])
           it == CHOOSE h : h = [t \in SUBSET DOMAIN pieces |-> G(h, t)]
<1>1. n \in Nat /\ DOMAIN pieces = 1..n /\ \A i \in 1..n : pieces[i] \in Piece
  OBVIOUS
<1>2. \A acc \in A, p \in Piece : Added(acc, p) \in A  BY PieceAdded
<1>3. shown \in A  OBVIOUS
<1>4. JoinPieces(shown, pieces) = it[DOMAIN pieces]
  BY DEF JoinPieces, FoldLeft, MapThenFoldSet, Added, Fitted
<1> HIDE DEF n, A
<1>5. F \in [A \X Piece -> A] /\ \A acc \in A, p \in Piece : F[<<acc, p>>] = Added(acc, p)
  BY <1>2
<1> HIDE DEF F
<1>6. PICK h \in [SUBSET (1..n) -> A] : IsFold(h, F, shown, pieces)
  BY <1>1, <1>3, <1>5, FoldExists
<1>7. h = [t \in SUBSET DOMAIN pieces |-> G(h, t)]
  <2>1. ASSUME NEW t \in SUBSET (1..n), t # {}
        PROVE  F[<<h[t \ {Max(t)}], pieces[Max(t)]>>] = Added(h[t \ {Max(t)}], pieces[Max(t)])
    <3>1. Max(t) \in 1..n  BY <1>1, <2>1, MaxOfIndices
    <3>2. t \ {Max(t)} \in SUBSET (1..n)  OBVIOUS
    <3> QED  BY <1>1, <1>5, <1>6, <3>1, <3>2
  <2> QED  BY <1>1, <1>6, <2>1 DEF IsFold
<1>8. it = [t \in SUBSET DOMAIN pieces |-> G(it, t)]  BY <1>7
<1> HIDE DEF it
<1>9. \A t \in SUBSET (1..n) : it[t] = G(it, t)  BY <1>1, <1>8
<1>10. StepsBy(it, A, Piece, F, shown, pieces, n)
  <2>1. {} \in SUBSET (1..n)  OBVIOUS
  <2>2. ASSUME NEW t \in SUBSET (1..n), t # {}, it[t \ {Max(t)}] \in A
        PROVE  it[t] = F[<<it[t \ {Max(t)}], pieces[Max(t)]>>]
    <3>1. Max(t) \in 1..n  BY <1>1, <2>2, MaxOfIndices
    <3> QED  BY <1>1, <1>5, <1>9, <2>2, <3>1
  <2> QED  BY <1>1, <1>3, <1>5, <1>9, <2>1, <2>2 DEF StepsBy
<1>11. PICK g : IsPrefixFold(g, A, F, shown, pieces, n) /\ g[n] = it[1..n]
  BY <1>10, PrefixesOf
<1>12. /\ g[0] = shown /\ \A i \in 0..n : g[i] \in A /\ g[i] \in Seq(Piece)
       /\ \A i \in 1..n : g[i] = Added(g[i - 1], pieces[i])
  <2>1. \A i \in 0..n : g[i] \in A  BY <1>11 DEF IsPrefixFold
  <2>2. \A i \in 1..n : i - 1 \in 0..n  BY <1>1
  <2>3. \A i \in 1..n : g[i] = F[<<g[i - 1], pieces[i]>>]  BY <1>11 DEF IsPrefixFold
  <2>4. \A x \in A : x \in Seq(Piece)  BY DEF A
  <2> QED  BY <1>1, <1>5, <1>11, <2>1, <2>2, <2>3, <2>4 DEF IsPrefixFold
<1> DEFINE Origin(i, a) ==
             \/ <<"whole", g[i][a].key>> \in taken
             \/ \E m \in 1..i : pieces[m].whole /\ pieces[m].key = g[i][a].key
           Good(i) == Once(g[i]) /\ \A a \in 1..Len(g[i]) : g[i][a].whole => Origin(i, a)
           T == {i \in 0..n : Good(i)}
<1>13. 0 \in T
  <2>1. 0 \in 0..n  BY <1>1
  <2> QED  BY <1>12, <2>1 DEF Remembered
<1>14. ASSUME NEW i \in 0..n, i \in T, i < n PROVE i + 1 \in T
  <2>1. i + 1 \in 1..n /\ i + 1 \in 0..n /\ (i + 1) - 1 = i  BY <1>1, <1>14
  <2> DEFINE p == pieces[i + 1]
  <2>2. p \in Piece /\ g[i] \in Seq(Piece) /\ g[i + 1] = Added(g[i], p)
        /\ RoomLeft(g[i]) >= 0 - Separator
    BY <1>1, <1>12, <2>1 DEF A
  <2>3. CASE g[i + 1] = g[i]
    <3>1. \A a : Origin(i, a) => Origin(i + 1, a)
      <4>1. 1..i \subseteq 1..(i + 1)  BY <2>1
      <4> QED  BY <2>3, <4>1
    <3>2. Good(i)  BY <1>14
    <3> HIDE DEF Origin
    <3> QED  BY <2>1, <2>3, <3>1, <3>2
  <2>4. CASE \E q \in Piece : g[i + 1] = Append(g[i], q) /\ q.key = p.key /\ (q.whole => p.whole)
    <3>1. PICK q \in Piece : g[i + 1] = Append(g[i], q) /\ q.key = p.key /\ (q.whole => p.whole)
      BY <2>4
    <3> DEFINE l == Len(g[i])
    <3>2. /\ l \in Nat /\ Len(g[i + 1]) = l + 1 /\ g[i + 1][l + 1] = q
          /\ \A a \in 1..l : g[i + 1][a] = g[i][a]
      BY <2>2, <3>1
    <3> HIDE DEF l, p
    <3>3. Once(g[i]) /\ \A a \in 1..l : g[i][a].whole => Origin(i, a)  BY <1>14 DEF l
    <3>4. \A a \in 1..l : Origin(i, a) => Origin(i + 1, a)
      <4>1. 1..i \subseteq 1..(i + 1)  BY <2>1
      <4> QED  BY <3>2, <4>1
    <3>5. q.whole => Origin(i + 1, l + 1)
      <4>1. i + 1 \in 1..(i + 1)  BY <2>1
      <4> QED  BY <3>1, <3>2, <4>1 DEF p
    <3>6. \A a \in 1..l : g[i][a].whole => g[i][a].key # q.key
      <4> SUFFICES ASSUME NEW a \in 1..l, g[i][a].whole, g[i][a].key = q.key PROVE FALSE
        OBVIOUS
      <4>1. Origin(i, a)  BY <3>3
      <4>2. CASE <<"whole", g[i][a].key>> \in taken
        BY <4>2, <1>1, <2>1, <3>1 DEF New, p, n
      <4>3. CASE \E m \in 1..i : pieces[m].whole /\ pieces[m].key = g[i][a].key
        <5>1. PICK m \in 1..i : pieces[m].whole /\ pieces[m].key = g[i][a].key  BY <4>3
        <5>2. m \in 1..n /\ m < i + 1  BY <1>1, <2>1
        <5> QED  BY <2>1, <3>1, <5>1, <5>2 DEF Once, p, n
      <4> QED  BY <4>1, <4>2, <4>3
    <3> HIDE DEF Origin
    <3>7. \A a \in 1..(l + 1) : a \in 1..l \/ a = l + 1  BY <3>2
    <3>8. \A a \in 1..(l + 1) : g[i + 1][a].whole => Origin(i + 1, a)
      BY <3>2, <3>3, <3>4, <3>5, <3>7
    <3>9. Once(g[i + 1])
      <4> SUFFICES ASSUME NEW a \in 1..(l + 1), NEW b \in 1..(l + 1), a < b,
                          g[i + 1][a].key = g[i + 1][b].key, g[i + 1][a].whole
          PROVE  FALSE
        BY <3>2 DEF Once
      <4>1. a \in 1..l  BY <3>2
      <4>2. CASE b \in 1..l  BY <3>2, <3>3, <4>1, <4>2 DEF Once, l
      <4>3. CASE b = l + 1  BY <3>2, <3>6, <4>1, <4>3
      <4> QED  BY <3>7, <4>2, <4>3
    <3> QED  BY <2>1, <3>2, <3>8, <3>9
  <2> HIDE DEF p
  <2>5. \/ g[i + 1] = g[i]
        \/ \E q \in Piece : g[i + 1] = Append(g[i], q) /\ q.key = p.key /\ (q.whole => p.whole)
    <3>1. \/ Added(g[i], p) = g[i]
          \/ \E q \in Piece : /\ Added(g[i], p) = Append(g[i], q)
                              /\ q.key = p.key /\ (q.whole => p.whole)
      BY <2>2, PieceAdded
    <3> QED  BY <2>2, <3>1
  <2> QED  BY <2>3, <2>4, <2>5
<1>15. n \in T
  <2> HIDE DEF T
  <2>1. 0..n \subseteq T  BY <1>1, <1>13, <1>14, UpTo
  <2> QED  BY <1>1, <2>1
<1>16. Remembered(g[n], marks)
  <2> SUFFICES ASSUME NEW a \in 1..Len(g[n]), g[n][a].whole PROVE <<"whole", g[n][a].key>> \in marks
    BY DEF Remembered
  <2>1. Origin(n, a)  BY <1>15
  <2>2. \A m \in 1..n : pieces[m].whole => <<"whole", pieces[m].key>> \in marks
    BY DEF Remembered, n
  <2> QED  BY <2>1, <2>2
<1>17. n \in 0..n /\ g[n] \in A /\ Once(g[n])
  <2>1. n \in 0..n  BY <1>1
  <2> QED  BY <1>12, <1>15, <2>1
<1>18. JoinPieces(shown, pieces) = g[n]  BY <1>1, <1>4, <1>11
<1> QED  BY <1>16, <1>17, <1>18 DEF A

(* A reply names hits of the file, and of the vision model only pages that  *)
(* it was given.                                                            *)
Truthful(reply, kind) ==
  /\ reply.status \in {"ok", "raised", "marked"}
  /\ reply.refs \in Seq(AllKeys)
  /\ kind = "vl" => ToSet(reply.refs) \subseteq PagesFor(kind)

(* A sequence of a smaller set is one of a larger set. *)
LEMMA WithinSeq ==
  ASSUME NEW S, NEW s \in Seq(S), NEW U, S \subseteq U
  PROVE  s \in Seq(U) /\ ToSet(s) \subseteq S
<1>1. s \in Seq(U)  OBVIOUS
<1>2. ToSet(s) \subseteq S  BY DEF ToSet
<1> QED  BY <1>1, <1>2

(* The pages of a channel are pages of the file. *)
LEMMA PagesOfFile == \A kind : PagesFor(kind) \subseteq 1..PageCount
BY DEF PagesFor

(* What the vision model is shown in detail is among the target pages. *)
LEMMA KeyPagesWithin == \A S, report : KeyPages(S, report) \subseteq S
<1> TAKE S, report
<1> DEFINE found == UNION {report[g] \intersect Sheet(S, g) : g \in DOMAIN report}
<1>1. found \subseteq S  BY DEF Sheet
<1>2. FirstOf(found, KeyLimit) \subseteq S /\ FirstOf(S, FallbackPages) \subseteq S
  BY <1>1 DEF FirstOf
<1> HIDE DEF found
<1>3. KeyPages(S, report) = IF FirstOf(found, KeyLimit) = {} THEN FirstOf(S, FallbackPages)
                            ELSE FirstOf(found, KeyLimit)
  BY DEF KeyPages, found
<1> QED  BY <1>2, <1>3

(* A search that has no hit, failed, or was marked. *)
LEMMA BareReplies ==
  \A kind : Truthful(Nothing, kind) /\ Truthful(Raises, kind) /\ Truthful(Marks, kind)
<1>1. <<>> \in Seq({}) /\ {} \subseteq AllKeys  OBVIOUS
<1>2. \A kind : {} \subseteq PagesFor(kind)  OBVIOUS
<1>3. <<>> \in Seq(AllKeys) /\ ToSet(<<>>) = {}
  <2>1. <<>> \in Seq(AllKeys) /\ DOMAIN <<>> = {}  OBVIOUS
  <2> QED  BY <2>1 DEF ToSet
<1>4. /\ Nothing.refs = <<>> /\ Nothing.status = "ok"
      /\ Raises.refs = <<>> /\ Raises.status = "raised"
      /\ Marks.refs = <<>> /\ Marks.status = "marked"
  BY DEF Nothing, Raises, Marks, Reply
<1> QED  BY <1>3, <1>4 DEF Truthful

(* Every reply that a channel may give. *)
LEMMA RepliesTruthful ==
  ASSUME NEW kind \in Kinds, NEW reply \in Replies(kind)
  PROVE  Truthful(reply, kind)
<1>1. /\ TextKeys \subseteq AllKeys /\ TableKeys \subseteq AllKeys /\ 1..PageCount \subseteq AllKeys
      /\ DOMAIN PagePieces \subseteq AllKeys
  BY DEF AllKeys
<1>2. \A refs, v : Reply(refs, v).refs = refs /\ Reply(refs, v).status = "ok"  BY DEF Reply
<1>3. ASSUME NEW keys, keys \subseteq AllKeys, NEW h \in Hits(keys) PROVE h \in Seq(AllKeys)
  <2>1. h = <<>> \/ (\E k \in keys : h = <<k>>) \/ (\E k, m \in keys : h = <<k, m>>)
    BY <1>3 DEF Hits
  <2>2. \A k, m \in AllKeys : <<>> \in Seq(AllKeys) /\ <<k>> \in Seq(AllKeys) /\ <<k, m>> \in Seq(AllKeys)
    OBVIOUS
  <2>3. <<>> \in Seq(AllKeys)  OBVIOUS
  <2> QED  BY <1>3, <2>1, <2>2, <2>3
<1>4. CASE kind = "text"
  <2>1. (\E h \in Hits(TextKeys) : reply = Reply(h, h # <<>>)) \/ reply = Raises \/ reply = Marks
    BY <1>4 DEF Replies
  <2> QED  BY <1>1, <1>2, <1>3, <1>4, <2>1, BareReplies DEF Truthful
<1>5. CASE kind = "table"
  <2>1. (\E h \in Hits(TableKeys) : reply = Reply(h, h # <<>>)) \/ reply = Marks
    BY <1>5 DEF Replies
  <2> QED  BY <1>1, <1>2, <1>3, <1>5, <2>1, BareReplies DEF Truthful
<1>6. CASE kind = "page"
  <2>1. \E S \in SUBSET Meeting(PagesFor("page")) : reply = Reply(PageHits(S), PageHits(S) # <<>>)
    BY <1>6 DEF Replies
  <2>2. PICK S \in SUBSET Meeting(PagesFor("page")) : reply = Reply(PageHits(S), PageHits(S) # <<>>)
    BY <2>1
  <2>3. S \in SUBSET DOMAIN PagePieces  BY DEF Meeting
  <2>4. PageHits(S) \in Seq(S) /\ S \subseteq AllKeys  BY <1>1, <2>3, PageHitsWithin
  <2>5. PageHits(S) \in Seq(AllKeys)  BY <2>4, WithinSeq
  <2> QED  BY <1>2, <1>6, <2>2, <2>5 DEF Truthful
<1>7. CASE kind = "vl"
  <2> DEFINE S == PagesFor("vl")
  <2>1. (\E report, v : reply = Looked(S, report, v)) \/ reply = Marks \/ reply = Nothing
    <3>1. reply \in VisionReplies(S)  BY <1>7 DEF Replies
    <3> HIDE DEF S
    <3> QED  BY <3>1 DEF VisionReplies
  <2>2. CASE reply = Marks \/ reply = Nothing  BY <2>2, BareReplies
  <2>3. CASE \E report, v : reply = Looked(S, report, v)
    <3>1. PICK report, v : reply = Looked(S, report, v)  BY <2>3
    <3> DEFINE K == KeyPages(S, report)
    <3>2. K \subseteq S /\ S \subseteq 1..PageCount  BY KeyPagesWithin, PagesOfFile
    <3>3. IsFiniteSet(K) /\ K \in SUBSET Int
      <4>1. IsFiniteSet(1..PageCount)  BY LimitsNatural, FS_Interval
      <4> HIDE DEF K, S
      <4>2. IsFiniteSet(K)  BY <3>2, <4>1, FS_Subset
      <4> QED  BY <3>2, <4>2
    <3>4. reply.refs = Ordered(K) /\ reply.status = "ok"  BY <3>1 DEF Looked, Reply
    <3> HIDE DEF K, S
    <3>5. Ordered(K) \in Seq(K)  BY <3>3, OrderedOnto
    <3>6. Ordered(K) \in Seq(AllKeys) /\ ToSet(Ordered(K)) \subseteq K
      BY <1>1, <3>2, <3>5, WithinSeq
    <3> QED  BY <1>7, <3>2, <3>4, <3>6 DEF Truthful, S
  <2> QED  BY <2>1, <2>2, <2>3
<1> QED  BY <1>4, <1>5, <1>6, <1>7 DEF Kinds

(* An entry is what its channel returned, or nothing. *)
EntryOK(e, kind, pages) ==
  /\ e.status \in {"matched", "empty", "error", "skipped"}
  /\ e.refs \in Seq(AllKeys)
  /\ kind = "vl" => ToSet(e.refs) \subseteq pages

EntriesOK == \A i \in 1..Len(entries) : EntryOK(entries[i], field.items[i], PagesFor(field.items[i]))

(* The evidence while it is gathered. *)
Gathering ==
  /\ merged \in Seq(Piece) /\ RoomLeft(merged) >= 0 - Separator /\ Once(merged)
  /\ seen \in SUBSET Marked /\ Remembered(merged, seen)

(* No evidence at all. *)
LEMMA NoEvidence ==
  /\ <<>> \in Seq(Piece) /\ RoomLeft(<<>>) >= 0 - Separator /\ Once(<<>>)
  /\ {} \in SUBSET Marked /\ Remembered(<<>>, {})
<1>1. <<>> \in Seq(Piece) /\ 1..Len(<<>>) = {}  OBVIOUS
<1>2. RoomLeft(<<>>) >= 0 - Separator  BY RoomShrinks, LimitsNatural DEF Separator
<1> QED  BY <1>1, <1>2 DEF Once, Remembered

(* The pages of a channel are those of the field. *)
LEMMA PagesStay ==
  ASSUME field' = field
  PROVE  \A kind : PagesFor(kind)' = PagesFor(kind)
BY DEF PagesFor

(* One more entry of the attempt. *)
LEMMA EntryJoins ==
  ASSUME EvidenceInv, EntriesOK, NEW e, entries' = Append(entries, e), field' = field,
         EntryOK(e, field.items[Len(entries) + 1], PagesFor(field.items[Len(entries) + 1]))
  PROVE  EntriesOK'
<1> DEFINE n == Len(entries)
<1>1. /\ n \in Nat /\ Len(entries') = n + 1 /\ entries'[n + 1] = e
      /\ \A i \in 1..n : entries'[i] = entries[i]
  BY Appending DEF EvidenceInv
<1>2. \A i \in 1..(n + 1) : i \in 1..n \/ i = n + 1  BY <1>1
<1>3. \A i \in 1..(n + 1) : EntryOK(entries'[i], field.items[i], PagesFor(field.items[i]))
  BY <1>1, <1>2 DEF EntriesOK
<1>4. \A kind : PagesFor(kind)' = PagesFor(kind)  BY PagesStay
<1> QED  BY <1>1, <1>3, <1>4 DEF EntriesOK, EntryOK

(* An attempt that ends leaves its entries, or starts with none. *)
LEMMA EntriesEnd ==
  ASSUME EntriesOK, field' = field, entries' = entries \/ entries' = <<>>
  PROVE  EntriesOK'
<1>1. \A kind : PagesFor(kind)' = PagesFor(kind)  BY PagesStay
<1>2. CASE entries' = entries  BY <1>1, <1>2 DEF EntriesOK, EntryOK
<1>3. CASE entries' = <<>>
  <2>1. 1..Len(entries') = {}  BY <1>3
  <2> QED  BY <2>1 DEF EntriesOK
<1> QED  BY <1>2, <1>3

(* So does its evidence. *)
LEMMA EvidenceEnds ==
  ASSUME Gathering, \/ merged' = merged /\ seen' = seen
                    \/ merged' = <<>> /\ seen' = {}
  PROVE  Gathering'
<1>1. CASE merged' = merged /\ seen' = seen  BY <1>1 DEF Gathering
<1>2. CASE merged' = <<>> /\ seen' = {}  BY <1>2, NoEvidence DEF Gathering
<1> QED  BY <1>1, <1>2

(* What a channel found joins the evidence of a union, and is an entry.     *)
LEMMA ChannelGathers ==
  ASSUME EvidenceInv, Gathering, EntriesOK, RunChannel
  PROVE  Gathering' /\ EntriesOK'
<1> DEFINE i == Len(entries) + 1
           kind == field.items[i]
<1>1. ~(inner < OwnBudget(TRUE)) /\ field' = field  BY DEF EvidenceInv, OwnBudget, RunChannel
<1>2. kind \in Kinds
  <2>1. Len(entries) \in Nat /\ Len(entries) < Len(field.items)
    BY Appending DEF EvidenceInv, RunChannel
  <2>2. field.items \in Seq(Kinds)  BY ConfigsOK DEF EvidenceInv, Kinds
  <2> QED  BY <2>1, <2>2
<1> DEFINE limit == [set |-> kind = "page", room |-> PageLimit]
           New0(reply) == Pieces(reply, limit, seen)
           All(reply) == JoinPieces(merged, New0(reply).out)
<1>3. PICK reply \in Replies(kind) :
        \E status \in {"matched", "empty", "error"} : \E adopted :
          /\ entries' = Append(entries, Entry(status, adopted, reply))
          /\ \/ merged' = All(reply) /\ seen' = New0(reply).seen
             \/ merged' = merged /\ seen' = seen
  BY <1>1 DEF RunChannel
<1>4. Truthful(reply, kind)  BY <1>2, RepliesTruthful
<1>5. EntriesOK'
  <2>1. PICK status, adopted :
          /\ status \in {"matched", "empty", "error"}
          /\ entries' = Append(entries, Entry(status, adopted, reply))
    BY <1>3
  <2>2. EntryOK(Entry(status, adopted, reply), kind, PagesFor(kind))
    BY <1>4, <2>1 DEF EntryOK, Entry, Truthful
  <2> HIDE DEF kind
  <2>3. EntryOK(Entry(status, adopted, reply), field.items[Len(entries) + 1], PagesFor(field.items[Len(entries) + 1]))
    BY <2>2 DEF kind
  <2> QED  BY <1>1, <2>1, <2>3, EntryJoins
<1>6. Gathering'
  <2>1. CASE merged' = merged /\ seen' = seen  BY <2>1, EvidenceEnds
  <2>2. CASE merged' = All(reply) /\ seen' = New0(reply).seen
    <3>1. reply.refs \in Seq(AllKeys) /\ limit.set \in BOOLEAN /\ limit.room \in Nat
      BY <1>4, LimitsNatural DEF Truthful
    <3> HIDE DEF limit
    <3>2. New0(reply) \in PiecesFrom(seen)  BY <3>1, PiecesSound DEF Gathering
    <3> HIDE DEF New0
    <3>3. /\ New0(reply).seen \in SUBSET Marked /\ New0(reply).out \in Seq(Piece)
          /\ seen \subseteq New0(reply).seen /\ Once(New0(reply).out)
          /\ Remembered(New0(reply).out, New0(reply).seen) /\ New(New0(reply).out, seen)
      BY <3>2 DEF PiecesFrom
    <3>4. /\ All(reply) \in Seq(Piece) /\ RoomLeft(All(reply)) >= 0 - Separator
          /\ Once(All(reply)) /\ Remembered(All(reply), New0(reply).seen)
      BY <3>3, JoinSound DEF Gathering
    <3> HIDE DEF All
    <3> QED  BY <2>2, <3>3, <3>4 DEF Gathering
  <2> QED  BY <1>3, <2>1, <2>2
<1> QED  BY <1>5, <1>6

(* Evidence is gathered by the channels alone. *)
LEMMA GatheringStep ==
  ASSUME EvidenceInv, Gathering, EntriesOK, [EvidenceNext]_evidenceVars
  PROVE  Gathering' /\ EntriesOK'
<1>1. CASE UNCHANGED evidenceVars  BY <1>1, EvidenceEnds, EntriesEnd DEF evidenceVars
<1>2. CASE Resolve  BY <1>2, EvidenceEnds, EntriesEnd DEF Resolve
<1>3. CASE Gathered  BY <1>3, EvidenceEnds, EntriesEnd DEF Gathered
<1>4. CASE Skip
  <2> DEFINE e == Entry("skipped", FALSE, Nothing)
             kind == field.items[Len(entries) + 1]
  <2>1. Truthful(Nothing, kind)  BY BareReplies
  <2>2. EntryOK(e, kind, PagesFor(kind))  BY <2>1 DEF EntryOK, Entry, Truthful
  <2>3. entries' = Append(entries, e) /\ field' = field /\ merged' = merged /\ seen' = seen
    BY <1>4 DEF Skip
  <2> HIDE DEF e
  <2> QED  BY <2>2, <2>3, EntryJoins, EvidenceEnds
<1>5. CASE RunChannel  BY <1>5, ChannelGathers
<1>6. CASE RunSingle
  <2>1. CASE \E reply \in Replies(field.items[1]) :
               /\ reply.status \notin {"raised", "marked"}
               /\ entries' = <<Entry("matched", TRUE, reply)>>
               /\ UNCHANGED <<field, merged, seen>>
    <3>1. PICK reply \in Replies(field.items[1]) :
               /\ entries' = <<Entry("matched", TRUE, reply)>>
               /\ UNCHANGED <<field, merged, seen>>
      BY <2>1
    <3> DEFINE e == Entry("matched", TRUE, reply)
               kind == field.items[1]
    <3>2. kind \in Kinds
      <4>1. field.items \in Seq(Kinds) /\ Len(field.items) > 0  BY ConfigsOK DEF EvidenceInv, Kinds
      <4> QED  BY <4>1
    <3>3. Truthful(reply, kind)  BY <3>1, <3>2, RepliesTruthful
    <3>4. EntryOK(e, kind, PagesFor(kind))  BY <3>3 DEF EntryOK, Entry, Truthful
    <3>5. entries = <<>> /\ Len(entries) + 1 = 1  BY <1>6 DEF RunSingle
    <3>6. entries' = Append(entries, e)  BY <3>1, <3>5
    <3> HIDE DEF e
    <3>7. EntriesOK'  BY <3>1, <3>4, <3>5, <3>6, EntryJoins
    <3>8. Gathering'  BY <3>1, EvidenceEnds
    <3> QED  BY <3>7, <3>8
  <2>2. CASE Raise  BY <2>2, EvidenceEnds, EntriesEnd DEF Raise
  <2>3. CASE \E v, marked : Conclude(Result(v, {}, marked))
    BY <2>3, EvidenceEnds, EntriesEnd DEF Conclude
  <2>4. PICK reply \in Replies(field.items[1]) :
          CASE reply.status = "raised" -> Raise
            [] reply.status = "marked" -> Conclude(Result(FALSE, {}, TRUE))
            [] reply.status = "ok" /\ (field.items[1] = "vl" \/ reply.refs = <<>>) ->
                 Conclude(Result(reply.value, {}, FALSE))
            [] OTHER ->
                 /\ entries' = <<Entry("matched", TRUE, reply)>>
                 /\ phase' = "ask"
                 /\ UNCHANGED <<field, merged, seen, inner, ended, outcome>>
    BY <1>6 DEF RunSingle
  <2>5. CASE reply.status = "raised"  BY <2>2, <2>4, <2>5
  <2>6. CASE reply.status = "marked"  BY <2>3, <2>4, <2>6
  <2>7. CASE reply.status = "ok" /\ (field.items[1] = "vl" \/ reply.refs = <<>>)
    BY <2>3, <2>4, <2>7
  <2>8. CASE /\ reply.status \notin {"raised", "marked"}
             /\ ~(reply.status = "ok" /\ (field.items[1] = "vl" \/ reply.refs = <<>>))
    <3>1. /\ entries' = <<Entry("matched", TRUE, reply)>>
          /\ UNCHANGED <<field, merged, seen>>
      BY <2>4, <2>8
    <3> QED  BY <2>1, <2>8, <3>1
  <2> QED  BY <2>5, <2>6, <2>7, <2>8
<1>7. CASE Answered
  <2>1. \E v, refs : Conclude(Result(v, refs, FALSE))  BY <1>7 DEF Answered
  <2> QED  BY <2>1, EvidenceEnds, EntriesEnd DEF Conclude
<1>8. CASE ModelFails
  BY <1>8, EvidenceEnds, EntriesEnd DEF ModelFails, Conclude, Raise
<1> QED  BY <1>1, <1>2, <1>3, <1>4, <1>5, <1>6, <1>7, <1>8 DEF EvidenceNext

(* At first there is no evidence. *)
LEMMA GatheringStart ==
  ASSUME EvidenceInit
  PROVE  Gathering /\ EntriesOK
<1>1. merged = <<>> /\ seen = {} /\ entries = <<>> /\ 1..Len(entries) = {}  BY DEF EvidenceInit
<1> QED  BY <1>1, NoEvidence DEF Gathering, EntriesOK

(* The invariant of the evidence. *)
LEMMA EvidenceGathered == EvidenceSpec => [](EvidenceInv /\ Gathering /\ EntriesOK)
BY EvidenceStart, EvidenceStep, GatheringStart, GatheringStep, PTL DEF EvidenceSpec

(* The evidence of a field is what its configuration promises: a fallback   *)
(* takes the first channel that found something, a union keeps to its       *)
(* length, separators included, and shows no hit again that it showed       *)
(* whole, and no channel reads a page that it was not asked to read.        *)
THEOREM EvidenceHolds == EvidenceSpec => []EvidenceSound
<1>1. ASSUME EvidenceInv, Gathering, EntriesOK
      PROVE  UnionWithin /\ SheetsKept
  <2>1. DOMAIN merged = 1..Len(merged)  BY <1>1 DEF Gathering
  <2>2. merged # <<>> => Total(merged) <= MaxLength
    <3>1. Total(merged) \in Int
      BY <1>1, RoomShrinks DEF Gathering
    <3>2. merged # <<>> => RoomLeft(merged) = MaxLength - Total(merged) - Separator
      BY <1>1, RoomShrinks DEF Gathering
    <3> QED  BY <1>1, <3>1, <3>2, LimitsNatural DEF Gathering, Separator
  <2>3. UnionWithin  BY <1>1, <2>1, <2>2 DEF UnionWithin, Gathering, Once
  <2>4. DOMAIN entries = 1..Len(entries)  BY <1>1 DEF EvidenceInv, IsSeq
  <2>5. SheetsKept  BY <1>1, <2>4 DEF SheetsKept, EntriesOK, EntryOK
  <2> QED  BY <2>3, <2>5
<1> QED  BY <1>1, EvidenceGathered, FallbackTakesFirst, PTL DEF EvidenceSound

(* What the invariant says of the types. *)
LEMMA EvidenceTypes ==
  ASSUME EvidenceInv, Gathering, EntriesOK
  PROVE  EvidenceTypeOK
<1>1. \A j \in DOMAIN merged :
        merged[j].key \in AllKeys /\ merged[j].len \in 1..Length[merged[j].key]
  <2>1. \A p \in Piece : p.key \in AllKeys /\ p.len \in 1..Length[p.key]
    BY LengthsPositive DEF Piece, AllKeys
  <2>2. \A j \in DOMAIN merged : merged[j] \in Piece  BY DEF Gathering
  <2> QED  BY <2>1, <2>2
<1>2. DOMAIN entries = 1..Len(entries)  BY DEF EvidenceInv, IsSeq
<1>3. \A i \in DOMAIN entries :
        /\ entries[i].status \in {"matched", "empty", "error", "skipped"}
        /\ ToSet(entries[i].refs) \subseteq AllKeys
  <2>1. \A s \in Seq(AllKeys) : ToSet(s) \subseteq AllKeys  BY WithinSeq
  <2> QED  BY <1>2, <2>1 DEF EntriesOK, EntryOK
<1> QED  BY <1>1, <1>3 DEF EvidenceInv, EvidenceTypeOK

(* Type correctness of the extraction of a field: what Conclude, the union  *)
(* and the channels leave is evidence of this document.                     *)
THEOREM EvidenceTyped == EvidenceSpec => []EvidenceTypeOK
BY EvidenceGathered, EvidenceTypes, PTL

-----------------------------------------------------------------------------
(* The vectors of a document *)

(* Joining sequences one after the other. *)
LEMMA FlattenPrefixes ==
  ASSUME NEW X, NEW s \in Seq(Seq(X))
  PROVE  \E g : /\ g[0] = <<>> /\ \A i \in 0..Len(s) : g[i] \in Seq(X)
                /\ \A i \in 1..Len(s) : g[i] = g[i - 1] \o s[i]
                /\ FlattenSeq(s) = g[Len(s)]
<1> DEFINE n == Len(s)
           A == Seq(X)
           F == [x \in A \X A |-> x[1] \o x[2]]
<1>1. n \in Nat /\ DOMAIN s = 1..n /\ \A i \in 1..n : s[i] \in A
  <2> HIDE DEF A
  <2>1. s \in Seq(A)  BY DEF A
  <2> QED  BY <2>1
<1>2. F \in [A \X A -> A] /\ <<>> \in A /\ \A x, y \in A : F[<<x, y>>] = x \o y
  <2>1. \A x, y \in A : x \o y \in A  OBVIOUS
  <2>2. <<>> \in A  OBVIOUS
  <2> HIDE DEF A
  <2> QED  BY <2>1, <2>2
<1>3. \A x \in A : <<>> \o x = x  OBVIOUS
<1> HIDE DEF A, F
<1>4. PICK it \in [SUBSET (1..n) -> A] : IsFold(it, F, <<>>, s)
  BY <1>1, <1>2, FoldExists
<1>5. StepsBy(it, A, A, F, <<>>, s, n)
  <2>1. {} \in SUBSET (1..n)  OBVIOUS
  <2>2. \A t \in SUBSET (1..n) :
          it[t] = IF t = {} THEN <<>> ELSE F[<<it[t \ {Max(t)}], s[Max(t)]>>]
    BY <1>1, <1>4 DEF IsFold
  <2>3. it[{}] = <<>>  BY <2>1, <2>2
  <2>4. \A t \in SUBSET (1..n) : t # {} => it[t] = F[<<it[t \ {Max(t)}], s[Max(t)]>>]
    BY <2>2
  <2> QED  BY <1>1, <1>2, <2>3, <2>4 DEF StepsBy
<1>6. PICK g : IsPrefixFold(g, A, F, <<>>, s, n)  BY <1>5, PrefixesOf
<1>7. /\ g[0] = <<>> /\ \A i \in 0..n : g[i] \in A
      /\ \A i \in 1..n : g[i] = g[i - 1] \o s[i]
  <2>1. \A i \in 0..n : g[i] \in A  BY <1>6 DEF IsPrefixFold
  <2>2. \A i \in 1..n : i - 1 \in 0..n  BY <1>1
  <2>3. \A i \in 1..n : g[i] = F[<<g[i - 1], s[i]>>]  BY <1>6 DEF IsPrefixFold
  <2> QED  BY <1>1, <1>2, <1>6, <2>1, <2>2, <2>3 DEF IsPrefixFold
<1>8. FlattenSeq(s) = g[n]
  <2>1. CASE n = 0
    <3>1. s = <<>>  BY <2>1, <1>1
    <3> QED  BY <1>7, <2>1, <3>1 DEF FlattenSeq
  <2>2. CASE n # 0
    <3> DEFINE G(h, i) == IF i = 1 THEN s[i] ELSE h[i - 1] \o s[i]
               flatten == CHOOSE h : h = [i \in 1..n |-> G(h, i)]
               k == [i \in 1..n |-> g[i]]
    <3>1. FlattenSeq(s) = flatten[n]  BY <2>2 DEF FlattenSeq
    <3>2. k = [i \in 1..n |-> G(k, i)]
      <4>1. ASSUME NEW i \in 1..n PROVE g[i] = G(k, i)
        <5>1. CASE i = 1
          <6>1. 1 \in 1..n /\ 1 - 1 = 0  BY <5>1
          <6>2. g[1] = g[1 - 1] \o s[1] /\ s[1] \in A  BY <1>1, <1>7, <6>1
          <6> QED  BY <1>3, <1>7, <5>1, <6>1, <6>2
        <5>2. CASE i # 1
          <6>1. i - 1 \in 1..n  BY <1>1, <5>2
          <6> QED  BY <1>7, <5>2, <6>1
        <5> QED  BY <5>1, <5>2
      <4> QED  BY <4>1
    <3> HIDE DEF k
    <3>3. flatten = [i \in 1..n |-> G(flatten, i)]  BY <3>2
    <3> HIDE DEF flatten
    <3>4. \A i \in 1..n : flatten[i] = G(flatten, i)  BY <3>3
    <3> DEFINE T == {i \in 0..n : i > 0 => flatten[i] = g[i]}
    <3>5. 0 \in T  BY <1>1
    <3>6. ASSUME NEW i \in 0..n, i \in T, i < n PROVE i + 1 \in T
      <4>1. i + 1 \in 1..n /\ i + 1 \in 0..n /\ (i + 1) - 1 = i  BY <1>1, <3>6
      <4>2. CASE i = 0
        <5>1. flatten[1] = s[1]  BY <3>4, <4>1, <4>2
        <5>2. g[1] = s[1]
          <6>1. 1 \in 1..n /\ 1 - 1 = 0  BY <4>1, <4>2
          <6>2. g[1] = g[1 - 1] \o s[1] /\ s[1] \in A  BY <1>1, <1>7, <6>1
          <6> QED  BY <1>3, <1>7, <6>1, <6>2
        <5> QED  BY <4>1, <4>2, <5>1, <5>2
      <4>3. CASE i # 0
        <5>1. i > 0 /\ i + 1 # 1  BY <4>3
        <5>2. flatten[i] = g[i]  BY <3>6, <5>1
        <5>3. flatten[i + 1] = flatten[i] \o s[i + 1]  BY <3>4, <4>1, <5>1
        <5> QED  BY <1>7, <4>1, <5>2, <5>3
      <4> QED  BY <4>2, <4>3
    <3> HIDE DEF T
    <3>7. n \in T
      <4>1. 0..n \subseteq T  BY <1>1, <3>5, <3>6, UpTo
      <4> QED  BY <1>1, <4>1
    <3> QED  BY <1>1, <2>2, <3>1, <3>7 DEF T
  <2> QED  BY <2>1, <2>2
<1> QED  BY <1>7, <1>8 DEF A

(* Where the batches of z texts end, in n texts.                            *)
EndOf(n, z, b) == IF b * z < n THEN b * z ELSE n
BatchesOf(n, z) == (n + z - 1) \div z
BatchOf(t, z, b) == SubSeq(t, (b - 1) * z + 1, EndOf(Len(t), z, b))

(* The batches follow on one another, and the last one ends the texts.      *)
LEMMA BatchEnds ==
  ASSUME NEW n \in Nat, NEW z \in Nat \ {0}
  PROVE  /\ BatchesOf(n, z) \in Nat
         /\ EndOf(n, z, 0) = 0 /\ EndOf(n, z, BatchesOf(n, z)) = n
         /\ \A b \in 0..BatchesOf(n, z) : EndOf(n, z, b) \in 0..n
         /\ \A b \in 1..BatchesOf(n, z) :
              EndOf(n, z, b - 1) = (b - 1) * z /\ EndOf(n, z, b - 1) <= EndOf(n, z, b)
<1> DEFINE q == BatchesOf(n, z)
<1>1. q \in Int /\ q * z <= n + z - 1 /\ n + z - 1 < q * z + z
  BY DEF BatchesOf
<1>2. q \in Nat /\ q * z >= n
  <2>1. q * z >= n  BY <1>1
  <2>2. q >= 0
    <3>1. q < 0 => q * z + z <= 0  BY <1>1
    <3> QED  BY <1>1, <3>1
  <2> QED  BY <1>1, <2>1, <2>2
<1> HIDE DEF q
<1>3. EndOf(n, z, 0) = 0 /\ EndOf(n, z, q) = n
  <2>1. 0 * z = 0 /\ q * z \in Int  BY <1>1
  <2> QED  BY <1>2, <2>1 DEF EndOf
<1>4. \A b \in 0..q : EndOf(n, z, b) \in 0..n
  <2> TAKE b \in 0..q
  <2>1. b * z \in Nat  BY <1>2
  <2> QED  BY <2>1 DEF EndOf
<1>5. ASSUME NEW b \in 1..q
      PROVE  EndOf(n, z, b - 1) = (b - 1) * z /\ EndOf(n, z, b - 1) <= EndOf(n, z, b)
  <2>1. b \in Int /\ b - 1 \in Int /\ q - b \in Nat  BY <1>2
  <2>2. (q - b) * z \in Nat /\ (q - b) * z = q * z - b * z  BY <1>2, <2>1
  <2>3. (b - 1) * z \in Int /\ (b - 1) * z = b * z - z /\ b * z \in Int /\ q * z \in Int  BY <1>1, <2>1
  <2>4. (b - 1) * z < n  BY <1>1, <2>2, <2>3
  <2> QED  BY <2>3, <2>4 DEF EndOf
<1> QED  BY <1>2, <1>3, <1>4, <1>5 DEF q

(* The answer to a batch: vectors of its texts, from the first on, none too *)
(* many.                                                                    *)
Answers(t, z, b, v) ==
  \E n \in Int : n <= Len(BatchOf(t, z, b)) /\ v = SubSeq(BatchOf(t, z, b), 1, n)

(* The texts of a batch, given where it begins and ends.                    *)
LEMMA BatchWithin ==
  ASSUME NEW X, NEW t \in Seq(X), NEW z \in Nat \ {0}, NEW b \in 1..BatchesOf(Len(t), z)
  PROVE  /\ EndOf(Len(t), z, b - 1) \in Nat /\ EndOf(Len(t), z, b) \in Nat
         /\ EndOf(Len(t), z, b - 1) <= EndOf(Len(t), z, b)
         /\ BatchOf(t, z, b) = SubSeq(t, EndOf(Len(t), z, b - 1) + 1, EndOf(Len(t), z, b))
         /\ BatchOf(t, z, b) \in Seq(X)
         /\ Len(BatchOf(t, z, b)) = EndOf(Len(t), z, b) - EndOf(Len(t), z, b - 1)
<1> DEFINE from == EndOf(Len(t), z, b - 1)
           to == EndOf(Len(t), z, b)
           all == BatchOf(t, z, b)
<1>1. /\ from \in 0..Len(t) /\ to \in 0..Len(t) /\ from <= to /\ from = (b - 1) * z
  <2>1. Len(t) \in Nat  OBVIOUS
  <2>2. BatchesOf(Len(t), z) \in Nat  BY <2>1, BatchEnds
  <2>3. b \in 0..BatchesOf(Len(t), z) /\ b - 1 \in 0..BatchesOf(Len(t), z)  BY <2>2
  <2> QED  BY <2>1, <2>3, BatchEnds
<1>2. all = SubSeq(t, from + 1, to)  BY <1>1 DEF BatchOf
<1> HIDE DEF all, from, to
<1>3. all \in Seq(X) /\ Len(all) = to - from
  <2>1. \A i \in from + 1..to : t[i] \in X  BY <1>1
  <2>2. from + 1 \in Int /\ to \in Int  BY <1>1
  <2>3. all \in Seq(X) /\ Len(all) = IF from + 1 <= to THEN to - (from + 1) + 1 ELSE 0
    BY <1>2, <2>1, <2>2, SubSeqProperties
  <2> QED  BY <1>1, <2>3
<1>4. from \in Nat /\ to \in Nat  BY <1>1
<1> QED  BY <1>1, <1>2, <1>3, <1>4 DEF all, from, to

(* What an answer is, given where its batch begins and ends.                *)
LEMMA AnswerLength ==
  ASSUME NEW X, NEW t \in Seq(X), NEW z \in Nat \ {0}, NEW b \in 1..BatchesOf(Len(t), z),
         NEW v, Answers(t, z, b, v)
  PROVE  /\ v \in Seq(X)
         /\ Len(v) <= EndOf(Len(t), z, b) - EndOf(Len(t), z, b - 1)
         /\ Len(v) = EndOf(Len(t), z, b) - EndOf(Len(t), z, b - 1) =>
              v = SubSeq(t, EndOf(Len(t), z, b - 1) + 1, EndOf(Len(t), z, b))
<1> DEFINE from == EndOf(Len(t), z, b - 1)
           to == EndOf(Len(t), z, b)
           all == BatchOf(t, z, b)
<1> HIDE DEF all, from, to
<1>1. from \in Nat /\ to \in Nat /\ from <= to  BY BatchWithin DEF from, to
<1>2. all = SubSeq(t, from + 1, to)  BY BatchWithin DEF all, from, to
<1>3. all \in Seq(X) /\ Len(all) = to - from  BY BatchWithin DEF all, from, to
<1>4. PICK n \in Int : n <= Len(all) /\ v = SubSeq(all, 1, n)  BY DEF Answers, all
<1>5. v \in Seq(X) /\ Len(v) = IF 1 <= n THEN n ELSE 0
  <2>1. \A i \in 1..n : all[i] \in X  BY <1>3, <1>4
  <2> QED  BY <1>4, <2>1, SubSeqProperties
<1>6. Len(v) <= to - from  BY <1>1, <1>3, <1>4, <1>5
<1>7. ASSUME Len(v) = to - from PROVE v = SubSeq(t, from + 1, to)
  <2>1. CASE 1 <= n
    <3>1. n = Len(all)  BY <1>3, <1>5, <1>7, <2>1
    <3> QED  BY <1>2, <1>3, <1>4, <3>1, SubSeqFull
  <2>2. CASE n < 1
    <3>1. Len(all) = 0 /\ Len(v) = 0  BY <1>3, <1>5, <1>7, <2>2
    <3>2. all = <<>> /\ v = <<>>  BY <1>3, <1>5, <3>1
    <3> QED  BY <1>2, <3>2
  <2> QED  BY <2>1, <2>2
<1> QED  BY <1>5, <1>6, <1>7 DEF from, to

(* Answers that are as many as the texts are the vectors of the texts.      *)
LEMMA AnswersWhole ==
  ASSUME NEW X, NEW t \in Seq(X), NEW z \in Nat \ {0},
         NEW s \in Seq(Seq(X)), Len(s) = BatchesOf(Len(t), z),
         \A b \in 1..Len(s) : Answers(t, z, b, s[b])
  PROVE  /\ FlattenSeq(s) \in Seq(X)
         /\ Len(FlattenSeq(s)) = Len(t) => FlattenSeq(s) = t
<1> DEFINE q == Len(s)
           To(b) == EndOf(Len(t), z, b)
<1>1. /\ q \in Nat /\ To(0) = 0 /\ To(q) = Len(t) /\ Len(t) \in Nat
      /\ \A b \in 0..q : To(b) \in 0..Len(t)
      /\ \A b \in 1..q : To(b - 1) <= To(b)
  <2>1. Len(t) \in Nat  OBVIOUS
  <2> QED  BY <2>1, BatchEnds
<1>2. \A b \in 1..q : /\ s[b] \in Seq(X) /\ Len(s[b]) <= To(b) - To(b - 1)
                      /\ Len(s[b]) = To(b) - To(b - 1) => s[b] = SubSeq(t, To(b - 1) + 1, To(b))
  BY AnswerLength
<1>3. PICK g : /\ g[0] = <<>> /\ \A i \in 0..q : g[i] \in Seq(X)
               /\ \A i \in 1..q : g[i] = g[i - 1] \o s[i]
               /\ FlattenSeq(s) = g[q]
  BY FlattenPrefixes
<1> DEFINE Good(b) == Len(g[b]) <= To(b) /\ (Len(g[b]) = To(b) => g[b] = SubSeq(t, 1, To(b)))
           T == {b \in 0..q : Good(b)}
<1> HIDE DEF q, To
<1>4. 0 \in T
  <2>1. SubSeq(t, 1, 0) = <<>>  BY SubSeqEmpty
  <2>2. Len(<<>>) = 0 /\ 0 \in 0..q  BY <1>1
  <2> QED  BY <1>1, <1>3, <2>1, <2>2
<1>5. ASSUME NEW b \in 0..q, b \in T, b < q PROVE b + 1 \in T
  <2>1. b + 1 \in 1..q /\ b + 1 \in 0..q /\ (b + 1) - 1 = b  BY <1>1, <1>5
  <2>2. /\ g[b] \in Seq(X) /\ s[b + 1] \in Seq(X) /\ g[b + 1] = g[b] \o s[b + 1]
        /\ To(b) \in 0..Len(t) /\ To(b + 1) \in 0..Len(t) /\ To(b) <= To(b + 1)
        /\ Len(s[b + 1]) <= To(b + 1) - To(b)
        /\ Len(s[b + 1]) = To(b + 1) - To(b) => s[b + 1] = SubSeq(t, To(b) + 1, To(b + 1))
    BY <1>1, <1>2, <1>3, <2>1
  <2>3. Len(g[b + 1]) = Len(g[b]) + Len(s[b + 1]) /\ Len(g[b]) \in Nat /\ Len(s[b + 1]) \in Nat
    BY <2>2, ConcatProperties
  <2>4. Good(b)  BY <1>5
  <2>5. To(b) \in Nat /\ To(b + 1) \in Nat  BY <1>1, <2>2
  <2>6. Len(g[b]) <= To(b) /\ Len(s[b + 1]) <= To(b + 1) - To(b)  BY <2>2, <2>4
  <2>7. \A k, m, x, y \in Nat :
           k <= x /\ m <= y - x => k + m <= y /\ (k + m = y => k = x /\ m = y - x)
    OBVIOUS
  <2>8. /\ Len(g[b + 1]) <= To(b + 1)
        /\ Len(g[b + 1]) = To(b + 1) => Len(g[b]) = To(b) /\ Len(s[b + 1]) = To(b + 1) - To(b)
    <3> DEFINE k == Len(g[b])
               m == Len(s[b + 1])
               x == To(b)
               y == To(b + 1)
    <3>1. k \in Nat /\ m \in Nat /\ x \in Nat /\ y \in Nat /\ k <= x /\ m <= y - x
          /\ Len(g[b + 1]) = k + m
      BY <2>3, <2>5, <2>6
    <3> HIDE DEF k, m, x, y
    <3>2. Len(g[b + 1]) <= y /\ (Len(g[b + 1]) = y => k = x /\ m = y - x)  BY <2>7, <3>1
    <3> QED  BY <3>2 DEF k, m, x, y
  <2>9. ASSUME Len(g[b + 1]) = To(b + 1) PROVE g[b + 1] = SubSeq(t, 1, To(b + 1))
    <3>1. Len(g[b]) = To(b) /\ Len(s[b + 1]) = To(b + 1) - To(b)  BY <2>8, <2>9
    <3>2. g[b] = SubSeq(t, 1, To(b)) /\ s[b + 1] = SubSeq(t, To(b) + 1, To(b + 1))
      BY <2>2, <2>4, <3>1
    <3>3. 1 \in 1..Len(t) + 1 /\ To(b) \in 1 - 1..Len(t) /\ To(b + 1) \in To(b)..Len(t)
      BY <1>1, <2>2
    <3>4. SubSeq(t, 1, To(b)) \o SubSeq(t, To(b) + 1, To(b + 1)) = SubSeq(t, 1, To(b + 1))
      BY <3>3, ConcatAdjacentSubSeq
    <3> QED  BY <2>2, <3>2, <3>4
  <2> QED  BY <2>1, <2>8, <2>9
<1>6. q \in T
  <2> HIDE DEF T
  <2>1. 0..q \subseteq T  BY <1>1, <1>4, <1>5, UpTo
  <2> QED  BY <1>1, <2>1
<1>7. SubSeq(t, 1, Len(t)) = t  BY SubSeqFull
<1>8. q \in 0..q  BY <1>1
<1> QED  BY <1>1, <1>3, <1>6, <1>7, <1>8

(* One call: a slot for every batch of its texts, and in the slot of each   *)
(* batch that was answered the answer to it.                                *)
CallOK(T, c) ==
  /\ texts[c] \in Seq(T)
  /\ slots[c] \in Seq(Seq(T)) /\ Len(slots[c]) = BatchesOf(Len(texts[c]), size)
  /\ batch[c] \in [1..Len(slots[c]) -> BatchStates]
  /\ tries[c] \in [1..Len(slots[c]) -> 0..Retries]
  /\ \A b \in 1..Len(slots[c]) : batch[c][b] = "waiting" => tries[c][b] < Retries
  /\ \A b \in 1..Len(slots[c]) : batch[c][b] = "answered" => Answers(texts[c], size, b, slots[c][b])

CallsOK(T) ==
  /\ size \in Nat \ {0}
  /\ DOMAIN texts = Calls /\ DOMAIN slots = Calls /\ DOMAIN batch = Calls /\ DOMAIN tries = Calls
  /\ \A c \in Calls : CallOK(T, c)

AllAnswered(c) == \A b \in Batches(c) : batch[c][b] = "answered"

(* The rows that are stored, and what they wait for. *)
Row(T) == [call : Calls, at : Nat, text : T, vector : T]
RowsOK(T) ==
  /\ stored \in Seq(Row(T))
  /\ \A i \in 1..Len(stored) :
       /\ stored[i].vector = stored[i].text
       /\ stored[i].call = current /\ stored[i].text = texts[current][i]
       /\ stored[i].at = i /\ i <= Len(texts[current])

StageOK ==
  /\ stage \in Stages /\ current \in {0} \union Calls
  /\ stage # "none" => current \in Calls
  /\ stage \in {"none", "sending"} => stored = <<>>
  /\ stage = "inserting" =>
       AllAnswered(current) /\ Joined(current) = texts[current] /\ Len(stored) <= Len(texts[current])
  /\ stage = "done" =>
       \/ Len(stored) = Len(texts[current])
       \/ AllAnswered(current) /\ Joined(current) = <<>>

(* A call that is left alone. *)
LEMMA CallStays ==
  ASSUME NEW T, NEW c, CallOK(T, c), size' = size, texts'[c] = texts[c], slots'[c] = slots[c],
         batch'[c] = batch[c], tries'[c] = tries[c]
  PROVE  CallOK(T, c)'
BY DEF CallOK

(* At first no call has begun. *)
LEMMA EmptyCall ==
  ASSUME NEW z \in Nat \ {0}
  PROVE  BatchesOf(0, z) = 0
<1>1. 0 + z - 1 = 0 * z + (z - 1) /\ z - 1 \in 0..z - 1  OBVIOUS
<1> QED  BY <1>1 DEF BatchesOf

(* The calls and the rows before the first request. *)
LEMMA CallsStart ==
  ASSUME NEW T, EmbeddingInit
  PROVE  CallsOK(T) /\ RowsOK(T) /\ StageOK
<1>1. size \in Nat \ {0} /\ stored = <<>> /\ stage = "none" /\ current = 0  BY DEF EmbeddingInit
<1>2. BatchesOf(0, size) = 0  BY <1>1, EmptyCall
<1>3. ASSUME NEW c \in Calls PROVE CallOK(T, c)
  <2>1. texts[c] = <<>> /\ slots[c] = <<>> /\ batch[c] = <<>> /\ tries[c] = <<>>
    BY DEF EmbeddingInit
  <2>2. <<>> \in Seq(T) /\ <<>> \in Seq(Seq(T)) /\ Len(<<>>) = 0 /\ 1..0 = {}
    OBVIOUS
  <2>3. <<>> \in [1..0 -> BatchStates] /\ <<>> \in [1..0 -> 0..Retries]
    OBVIOUS
  <2> QED  BY <1>2, <2>1, <2>2, <2>3 DEF CallOK
<1>4. CallsOK(T)  BY <1>1, <1>3 DEF CallsOK, EmbeddingInit
<1>5. <<>> \in Seq(Row(T)) /\ 1..Len(<<>>) = {}  OBVIOUS
<1>6. RowsOK(T)  BY <1>1, <1>5 DEF RowsOK
<1>7. StageOK  BY <1>1 DEF StageOK, Stages
<1> QED  BY <1>4, <1>6, <1>7

(* A call begins: none of its batches was sent. *)
LEMMA CallBegins ==
  ASSUME NEW T, CallsOK(T), RowsOK(T), StageOK, NEW given \in Seq(T), StartCall(given)
  PROVE  CallsOK(T)' /\ RowsOK(T)' /\ StageOK'
<1> DEFINE k == current + 1
           n == BatchCount(Len(given))
<1>1. /\ current' = k /\ k \in Calls /\ size' = size /\ stored' = <<>>
      /\ texts' = [texts EXCEPT ![k] = given]
      /\ batch' = [batch EXCEPT ![k] = [b \in 1..n |-> "waiting"]]
      /\ tries' = [tries EXCEPT ![k] = [b \in 1..n |-> 0]]
      /\ slots' = [slots EXCEPT ![k] = [b \in 1..n |-> <<>>]]
      /\ stage' = IF given = <<>> THEN "done" ELSE "sending"
  BY DEF StartCall
<1>2. n = BatchesOf(Len(given), size) /\ n \in Nat /\ size \in Nat \ {0}
  <2>1. Len(given) \in Nat /\ size \in Nat \ {0}  BY DEF CallsOK
  <2> QED  BY <2>1, BatchEnds DEF BatchCount, BatchesOf
<1> HIDE DEF k, n
<1>3. ASSUME NEW c \in Calls PROVE CallOK(T, c)'
  <2>1. CASE c = k
    <3>1. /\ texts'[c] = given /\ batch'[c] = [b \in 1..n |-> "waiting"]
          /\ tries'[c] = [b \in 1..n |-> 0] /\ slots'[c] = [b \in 1..n |-> <<>>]
      BY <1>1, <2>1 DEF CallsOK
    <3>2. slots'[c] \in Seq(Seq(T)) /\ Len(slots'[c]) = n
      <4> DEFINE Y == Seq(T)
      <4>1. <<>> \in Y  OBVIOUS
      <4> HIDE DEF Y
      <4>2. slots'[c] \in Seq(Y) /\ Len(slots'[c]) = n  BY <1>2, <3>1, <4>1
      <4> QED  BY <4>2 DEF Y
    <3>3. "waiting" \in BatchStates /\ "waiting" # "answered" /\ 0 \in 0..Retries /\ 0 < Retries
      BY BoundsPositive DEF BatchStates
    <3>4. /\ batch'[c] \in [1..n -> BatchStates] /\ tries'[c] \in [1..n -> 0..Retries]
          /\ \A b \in 1..n : batch'[c][b] = "waiting" /\ tries'[c][b] = 0
      BY <3>1, <3>3
    <3> QED  BY <1>1, <1>2, <3>1, <3>2, <3>3, <3>4 DEF CallOK
  <2>2. CASE c # k
    <3>1. CallOK(T, c)  BY DEF CallsOK
    <3>2. /\ texts'[c] = texts[c] /\ batch'[c] = batch[c]
          /\ tries'[c] = tries[c] /\ slots'[c] = slots[c]
      BY <1>1, <2>2 DEF CallsOK
    <3> QED  BY <1>1, <3>1, <3>2, CallStays
  <2> QED  BY <2>1, <2>2
<1>4. CallsOK(T)'  BY <1>1, <1>3 DEF CallsOK
<1>5. <<>> \in Seq(Row(T)) /\ 1..Len(<<>>) = {} /\ Len(<<>>) = 0  OBVIOUS
<1>6. RowsOK(T)'  BY <1>1, <1>5 DEF RowsOK
<1>7. StageOK'
  <2>1. texts'[k] = given  BY <1>1 DEF CallsOK
  <2>2. given = <<>> => Len(stored') = Len(texts'[current'])  BY <1>1, <1>5, <2>1
  <2>3. stage' \in {"done", "sending"} /\ (stage' = "done" => given = <<>>)  BY <1>1
  <2> QED  BY <1>1, <2>2, <2>3 DEF StageOK, Stages
<1> QED  BY <1>4, <1>6, <1>7

(* A batch that is sent, lost, or refused: no slot is touched.              *)
LEMMA BatchMoves ==
  ASSUME NEW T, CallsOK(T), NEW c \in Calls, NEW b \in Batches(c), NEW s \in {"waiting", "sent", "failed"},
         batch' = [batch EXCEPT ![c][b] = s],
         size' = size, texts' = texts, slots' = slots,
         \/ tries' = tries /\ (s = "waiting" => tries[c][b] < Retries)
         \/ tries' = [tries EXCEPT ![c][b] = @ + 1] /\ s # "waiting" /\ tries[c][b] < Retries
  PROVE  CallsOK(T)'
<1> DEFINE n == Len(slots[c])
<1>1. CallOK(T, c) /\ c \in DOMAIN batch /\ c \in DOMAIN tries  BY DEF CallsOK
<1>2. Batches(c) = 1..n /\ n \in Nat  BY <1>1 DEF CallOK, Batches
<1>3. /\ batch'[c] = [batch[c] EXCEPT ![b] = s]
      /\ \A d \in Calls : d # c => batch'[d] = batch[d]
      /\ DOMAIN batch' = Calls
  BY DEF CallsOK
<1>4. /\ batch'[c] \in [1..n -> BatchStates]
      /\ \A i \in 1..n : batch'[c][i] = IF i = b THEN s ELSE batch[c][i]
  <2>1. s \in BatchStates  BY DEF BatchStates
  <2>2. batch[c] \in [1..n -> BatchStates]  BY <1>1 DEF CallOK
  <2> QED  BY <1>3, <2>1, <2>2
<1>5. /\ DOMAIN tries' = Calls /\ \A d \in Calls : d # c => tries'[d] = tries[d]
      /\ tries'[c] \in [1..n -> 0..Retries]
      /\ \A i \in 1..n : i # b => tries'[c][i] = tries[c][i]
      /\ s = "waiting" => tries'[c][b] < Retries
  <2>1. tries[c] \in [1..n -> 0..Retries] /\ Retries \in Nat  BY <1>1, BoundsPositive DEF CallOK
  <2>2. CASE tries' = tries /\ (s = "waiting" => tries[c][b] < Retries)
    BY <2>1, <2>2 DEF CallsOK
  <2>3. CASE tries' = [tries EXCEPT ![c][b] = @ + 1] /\ s # "waiting" /\ tries[c][b] < Retries
    <3>1. tries'[c] = [tries[c] EXCEPT ![b] = @ + 1]  BY <1>1, <2>3
    <3>2. tries[c][b] + 1 \in 0..Retries  BY <1>2, <2>1, <2>3
    <3> QED  BY <2>1, <2>3, <3>1, <3>2 DEF CallsOK
  <2> QED  BY <2>2, <2>3
<1>6. ASSUME NEW d \in Calls PROVE CallOK(T, d)'
  <2>1. CASE d # c
    <3>1. CallOK(T, d)  BY DEF CallsOK
    <3> QED  BY <1>3, <1>5, <2>1, <3>1, CallStays
  <2>2. CASE d = c
    <3>1. \A i \in 1..n : batch'[c][i] = "waiting" => tries'[c][i] < Retries
      BY <1>1, <1>4, <1>5 DEF CallOK
    <3>2. \A i \in 1..n : batch'[c][i] = "answered" => Answers(texts[c], size, i, slots[c][i])
      BY <1>1, <1>4 DEF CallOK
    <3> QED  BY <1>1, <1>4, <1>5, <2>2, <3>1, <3>2 DEF CallOK
  <2> QED  BY <2>1, <2>2
<1> QED  BY <1>3, <1>5, <1>6 DEF CallsOK

(* An answer goes into the slot of its batch, whichever call it is of.      *)
LEMMA AnswerKept ==
  ASSUME NEW T, CallsOK(T), NEW c \in Calls, NEW b \in Batches(c), Answer(c, b)
  PROVE  CallsOK(T)'
<1> DEFINE n == Len(slots[c])
           all == BatchTexts(c, b)
<1>1. CallOK(T, c) /\ c \in DOMAIN batch /\ c \in DOMAIN slots /\ size \in Nat \ {0}  BY DEF CallsOK
<1>2. Batches(c) = 1..n /\ n \in Nat  BY <1>1 DEF CallOK, Batches
<1>3. all = BatchOf(texts[c], size, b)  BY DEF BatchTexts, BatchOf, EndOf
<1>4. \E m \in {Len(all)} \union (IF "short" \in faults THEN {Len(all) - 1} ELSE {}) :
        slots' = [slots EXCEPT ![c] = Put(@, b, SubSeq(all, 1, m))]
  BY DEF Answer
<1>5. Len(all) \in Int
  <2>1. texts[c] \in Seq(T) /\ b \in 1..BatchesOf(Len(texts[c]), size)
    BY <1>1, <1>2 DEF CallOK
  <2>2. BatchOf(texts[c], size, b) \in Seq(T)  BY <1>1, <2>1, BatchWithin
  <2> QED  BY <1>3, <2>2
<1> HIDE DEF all
<1>6. PICK m \in Int : m <= Len(all) /\ slots' = [slots EXCEPT ![c] = Put(@, b, SubSeq(all, 1, m))]
  <2>1. PICK m \in {Len(all)} \union (IF "short" \in faults THEN {Len(all) - 1} ELSE {}) :
          slots' = [slots EXCEPT ![c] = Put(@, b, SubSeq(all, 1, m))]
    BY <1>4
  <2>2. m = Len(all) \/ m = Len(all) - 1  OBVIOUS
  <2>3. m \in Int /\ m <= Len(all)  BY <1>5, <2>2
  <2> QED  BY <2>1, <2>3
<1> DEFINE v == SubSeq(all, 1, m)
<1>7. Answers(texts[c], size, b, v)  BY <1>3, <1>6 DEF Answers
<1>8. v \in Seq(T)
  <2>1. b \in 1..BatchesOf(Len(texts[c]), size) /\ texts[c] \in Seq(T)
    BY <1>1, <1>2 DEF CallOK
  <2> HIDE DEF v
  <2> QED  BY <1>1, <1>7, <2>1, AnswerLength
<1> HIDE DEF v
<1>9. /\ slots'[c] = [slots[c] EXCEPT ![b] = v] /\ DOMAIN slots' = Calls
      /\ \A d \in Calls : d # c => slots'[d] = slots[d]
  BY <1>1, <1>6 DEF Put, v, CallsOK
<1>10. /\ slots'[c] \in Seq(Seq(T)) /\ Len(slots'[c]) = n
       /\ \A i \in 1..n : slots'[c][i] = IF i = b THEN v ELSE slots[c][i]
  <2> DEFINE Y == Seq(T)
  <2>1. slots[c] \in Seq(Y) /\ v \in Y  BY <1>1, <1>8 DEF CallOK
  <2> HIDE DEF Y
  <2>2. slots'[c] \in Seq(Y) /\ Len(slots'[c]) = n
        /\ \A i \in 1..n : slots'[c][i] = IF i = b THEN v ELSE slots[c][i]
    BY <1>2, <1>9, <2>1
  <2> QED  BY <2>2 DEF Y
<1>11. /\ batch'[c] = [batch[c] EXCEPT ![b] = "answered"] /\ DOMAIN batch' = Calls
       /\ \A d \in Calls : d # c => batch'[d] = batch[d]
       /\ size' = size /\ texts' = texts /\ tries' = tries
  BY DEF Answer, CallsOK
<1>12. /\ batch'[c] \in [1..n -> BatchStates]
       /\ \A i \in 1..n : batch'[c][i] = IF i = b THEN "answered" ELSE batch[c][i]
  BY <1>1, <1>11 DEF CallOK, BatchStates
<1>13. ASSUME NEW d \in Calls PROVE CallOK(T, d)'
  <2>1. CASE d # c
    <3>1. CallOK(T, d)  BY DEF CallsOK
    <3> QED  BY <1>9, <1>11, <2>1, <3>1, CallStays
  <2>2. CASE d = c
    <3>1. \A i \in 1..n : batch'[c][i] = "waiting" => tries[c][i] < Retries
      BY <1>1, <1>12 DEF CallOK
    <3>2. \A i \in 1..n : batch'[c][i] = "answered" => Answers(texts[c], size, i, slots'[c][i])
      BY <1>1, <1>7, <1>10, <1>12 DEF CallOK
    <3> QED  BY <1>1, <1>10, <1>11, <1>12, <2>2, <3>1, <3>2 DEF CallOK
  <2> QED  BY <2>1, <2>2
<1> QED  BY <1>1, <1>9, <1>11, <1>13 DEF CallsOK

(* Joining the same slots gives the same vectors. *)
LEMMA JoinedStays ==
  ASSUME NEW c, slots'[c] = slots[c]
  PROVE  Joined(c)' = Joined(c)
BY DEF Joined

(* A batch that was not yet answered moves: the file is not being inserted, *)
(* and has not ended without a row, unless the batch was left behind.       *)
LEMMA StageMoves ==
  ASSUME NEW T, CallsOK(T), RowsOK(T), StageOK, NEW c \in Calls, NEW b \in Batches(c),
         batch[c][b] # "answered",
         \A d \in Calls : d # c => slots'[d] = slots[d] /\ batch'[d] = batch[d],
         texts' = texts, current' = current, stored' = stored,
         stage' = stage \/ (c = current /\ stage = "sending" /\ stage' = "failed")
  PROVE  RowsOK(T)' /\ StageOK'
<1>1. RowsOK(T)'
  <2>1. texts'[current'] = texts[current]  OBVIOUS
  <2> QED  BY DEF RowsOK
<1>2. CASE c = current
  <2>1. ~AllAnswered(current)  BY <1>2 DEF AllAnswered
  <2>2. stage # "inserting" /\ (stage = "done" => Len(stored) = Len(texts[current]))
    BY <2>1 DEF StageOK
  <2> QED  BY <1>1, <2>2 DEF StageOK, Stages
<1>3. CASE c # current
  <2>1. stage' = stage  BY <1>3
  <2>2. CASE stage = "none"  BY <1>1, <2>1, <2>2 DEF StageOK
  <2>3. CASE stage # "none"
    <3>1. current \in Calls  BY <2>3 DEF StageOK
    <3>2. slots'[current] = slots[current] /\ batch'[current] = batch[current]  BY <1>3, <3>1
    <3>3. Joined(current)' = Joined(current) /\ AllAnswered(current)' = AllAnswered(current)
      BY <3>2 DEF Joined, AllAnswered, Batches
    <3> QED  BY <1>1, <2>1, <3>3 DEF StageOK
  <2> QED  BY <2>2, <2>3
<1> QED  BY <1>2, <1>3

(* All batches were answered: as many vectors as texts are their vectors.   *)
LEMMA CollectSound ==
  ASSUME NEW T, CallsOK(T), RowsOK(T), StageOK, Collect
  PROVE  CallsOK(T)' /\ RowsOK(T)' /\ StageOK'
<1>1. /\ stage = "sending" /\ current \in Calls /\ stored = <<>>
      /\ AllAnswered(current)
  BY DEF Collect, StageOK, AllAnswered
<1>2. /\ stage' = IF Joined(current) = <<>> THEN "done"
                  ELSE IF Len(Joined(current)) = Len(texts[current]) THEN "inserting" ELSE "failed"
      /\ texts' = texts /\ batch' = batch /\ slots' = slots /\ tries' = tries
      /\ size' = size /\ current' = current /\ stored' = stored
  BY DEF Collect
<1>3. CallsOK(T)'  BY <1>2 DEF CallsOK, CallOK
<1>4. RowsOK(T)'  BY <1>2 DEF RowsOK
<1>5. Len(Joined(current)) = Len(texts[current]) => Joined(current) = texts[current]
  <2> DEFINE s == slots[current]
             t == texts[current]
  <2>1. CallOK(T, current) /\ size \in Nat \ {0}  BY <1>1 DEF CallsOK
  <2>2. t \in Seq(T) /\ s \in Seq(Seq(T)) /\ Len(s) = BatchesOf(Len(t), size)
    BY <2>1 DEF CallOK
  <2>3. \A b \in 1..Len(s) : Answers(t, size, b, s[b])
    BY <1>1, <2>1 DEF CallOK, AllAnswered, Batches
  <2> HIDE DEF s, t
  <2>4. Len(FlattenSeq(s)) = Len(t) => FlattenSeq(s) = t  BY <2>1, <2>2, <2>3, AnswersWhole
  <2> QED  BY <2>4 DEF s, t, Joined
<1>6. Joined(current)' = Joined(current) /\ AllAnswered(current)'
  BY <1>1, <1>2 DEF Joined, AllAnswered, Batches
<1>7. Len(stored) <= Len(texts[current])
  <2>1. texts[current] \in Seq(T)  BY <1>1 DEF CallsOK, CallOK
  <2>2. Len(texts[current]) \in Nat /\ Len(<<>>) = 0  BY <2>1
  <2> QED  BY <1>1, <2>2
<1>8. StageOK'
  <2>1. stage' \in {"done", "inserting", "failed"}  BY <1>2
  <2>2. stage' = "inserting" => Joined(current) = texts[current]  BY <1>2, <1>5
  <2>3. stage' = "done" => Joined(current) = <<>>  BY <1>2
  <2> QED  BY <1>1, <1>2, <1>6, <1>7, <2>1, <2>2, <2>3 DEF StageOK, Stages
<1> QED  BY <1>3, <1>4, <1>8

(* Rows are inserted in the order of the texts, each with its vector.       *)
LEMMA InsertSound ==
  ASSUME NEW T, CallsOK(T), RowsOK(T), StageOK, Insert
  PROVE  CallsOK(T)' /\ RowsOK(T)' /\ StageOK'
<1> DEFINE t == texts[current]
           done == Len(stored)
           last == IF done + InsertRows < Len(t) THEN done + InsertRows ELSE Len(t)
           row == [i \in 1..last - done |->
                     [call |-> current, at |-> done + i,
                      text |-> t[done + i], vector |-> Joined(current)[done + i]]]
<1>1. /\ stage = "inserting" /\ current \in Calls /\ AllAnswered(current)
      /\ Joined(current) = t /\ done <= Len(t)
  BY DEF Insert, StageOK
<1>2. /\ stored' = stored \o row /\ stage' = IF last = Len(t) THEN "done" ELSE stage
      /\ texts' = texts /\ batch' = batch /\ slots' = slots /\ tries' = tries
      /\ size' = size /\ current' = current
  BY DEF Insert
<1>3. t \in Seq(T) /\ Len(t) \in Nat /\ InsertRows \in Nat \ {0}
  BY <1>1, BoundsPositive DEF CallsOK, CallOK
<1>4. stored \in Seq(Row(T)) /\ done \in Nat  BY DEF RowsOK
<1>5. last \in done..Len(t) /\ last \in Nat  BY <1>1, <1>3, <1>4
<1>6. Calls \subseteq Nat  BY CallsNumbered, FS_CardinalityType
<1> HIDE DEF t, done, last
<1>7. \A i \in 1..last - done :
        /\ done + i \in 1..Len(t) /\ t[done + i] \in T
        /\ row[i] = [call |-> current, at |-> done + i, text |-> t[done + i], vector |-> t[done + i]]
  BY <1>1, <1>3, <1>4, <1>5
<1>8. row \in Seq(Row(T)) /\ Len(row) = last - done
  <2>1. \A i \in 1..last - done : row[i] \in Row(T)
    BY <1>1, <1>4, <1>7 DEF Row
  <2>2. last - done \in Nat  BY <1>4, <1>5
  <2>3. row = [i \in 1..last - done |-> row[i]]  OBVIOUS
  <2> HIDE DEF row
  <2> QED  BY <2>1, <2>2, <2>3
<1> HIDE DEF row
<1>9. /\ stored' \in Seq(Row(T)) /\ Len(stored') = last
      /\ \A i \in 1..last : stored'[i] = IF i <= done THEN stored[i] ELSE row[i - done]
  <2>1. /\ stored \o row \in Seq(Row(T)) /\ Len(stored \o row) = Len(stored) + Len(row)
        /\ \A i \in 1..Len(stored) + Len(row) :
             (stored \o row)[i] = IF i <= Len(stored) THEN stored[i] ELSE row[i - Len(stored)]
    BY <1>4, <1>8, ConcatProperties
  <2>2. Len(stored) = done /\ done + Len(row) = last  BY <1>4, <1>5, <1>8 DEF done
  <2> QED  BY <1>2, <2>1, <2>2
<1>10. CallsOK(T)'  BY <1>2 DEF CallsOK, CallOK
<1>11. RowsOK(T)'
  <2> SUFFICES ASSUME NEW i \in 1..last
      PROVE  /\ stored'[i].vector = stored'[i].text
             /\ stored'[i].call = current /\ stored'[i].text = t[i]
             /\ stored'[i].at = i /\ i <= Len(t)
    BY <1>2, <1>9 DEF RowsOK, t
  <2>1. CASE i <= done
    <3>1. i \in 1..done  BY <1>4, <1>5, <2>1
    <3>2. /\ stored[i].vector = stored[i].text
          /\ stored[i].call = current /\ stored[i].text = t[i]
          /\ stored[i].at = i /\ i <= Len(t)
      BY <3>1 DEF RowsOK, t, done
    <3>3. stored'[i] = stored[i]  BY <1>9, <2>1
    <3> QED  BY <3>2, <3>3
  <2>2. CASE ~(i <= done)
    <3>1. i - done \in 1..last - done /\ done + (i - done) = i  BY <1>4, <1>5, <2>2
    <3>2. row[i - done] = [call |-> current, at |-> done + (i - done), text |-> t[done + (i - done)],
                           vector |-> t[done + (i - done)]]
      BY <1>7, <3>1
    <3>3. stored'[i] = row[i - done]  BY <1>9, <2>2
    <3>4. i <= Len(t)  BY <1>3, <1>5
    <3> QED  BY <3>1, <3>2, <3>3, <3>4
  <2> QED  BY <2>1, <2>2
<1>12. StageOK'
  <2>1. Joined(current)' = Joined(current) /\ AllAnswered(current)'
    BY <1>1, <1>2 DEF Joined, AllAnswered, Batches
  <2>2. stage' \in {"inserting", "done"} /\ (stage' = "done" => Len(stored') = Len(t))
    BY <1>1, <1>2, <1>9
  <2>3. Len(stored') <= Len(t)  BY <1>3, <1>5, <1>9
  <2> QED  BY <1>1, <1>2, <2>1, <2>2, <2>3 DEF StageOK, Stages, t
<1> QED  BY <1>10, <1>11, <1>12

(* The requests that are on their way. *)
Requests == UNION {{<<c, b>> : b \in InFlight(c)} : c \in Calls}

PoolsOK ==
  /\ \A c \in Calls : IsFiniteSet(InFlight(c)) /\ Cardinality(InFlight(c)) <= TaskSlots
  /\ IsFiniteSet(Requests) /\ Cardinality(Requests) <= GlobalSlots

(* The requests in flight, one by one. *)
LEMMA RequestsAre == \A x : x \in Requests <=> \E c \in Calls : \E b \in InFlight(c) : x = <<c, b>>
BY DEF Requests

(* Fewer requests keep within the pools. *)
LEMMA PoolsShrink ==
  ASSUME PoolsOK, \A c \in Calls : InFlight(c)' \subseteq InFlight(c)
  PROVE  PoolsOK'
<1>1. ASSUME NEW c \in Calls
      PROVE  IsFiniteSet(InFlight(c)') /\ Cardinality(InFlight(c)') <= TaskSlots
  <2>1. IsFiniteSet(InFlight(c)) /\ Cardinality(InFlight(c)) <= TaskSlots /\ TaskSlots \in Nat
    BY BoundsPositive DEF PoolsOK
  <2>2. InFlight(c)' \in SUBSET InFlight(c)  OBVIOUS
  <2>3. IsFiniteSet(InFlight(c)') /\ Cardinality(InFlight(c)') <= Cardinality(InFlight(c))
    BY <2>1, <2>2, FS_Subset
  <2>4. Cardinality(InFlight(c)') \in Nat /\ Cardinality(InFlight(c)) \in Nat
    BY <2>1, <2>3, FS_CardinalityType
  <2> QED  BY <2>1, <2>3, <2>4
<1>2. Requests' \in SUBSET Requests
  <2>1. \A x : x \in Requests' <=> \E c \in Calls : \E b \in InFlight(c)' : x = <<c, b>>
    BY DEF Requests
  <2> QED  BY <2>1, RequestsAre
<1>3. IsFiniteSet(Requests) /\ Cardinality(Requests) <= GlobalSlots /\ GlobalSlots \in Nat
  BY BoundsPositive DEF PoolsOK
<1>4. IsFiniteSet(Requests') /\ Cardinality(Requests') <= Cardinality(Requests)
  BY <1>2, <1>3, FS_Subset
<1>5. Cardinality(Requests') \in Nat /\ Cardinality(Requests) \in Nat
  BY <1>3, <1>4, FS_CardinalityType
<1> QED  BY <1>1, <1>3, <1>4, <1>5 DEF PoolsOK

(* One request more, that both pools admitted. *)
LEMMA PoolsGrow ==
  ASSUME PoolsOK, NEW c \in Calls, NEW b, Admitted(c),
         InFlight(c)' \subseteq InFlight(c) \union {b},
         \A d \in Calls : d # c => InFlight(d)' \subseteq InFlight(d)
  PROVE  PoolsOK'
<1>1. \A S, x : IsFiniteSet(S) => /\ IsFiniteSet(S \union {x})
                                  /\ Cardinality(S \union {x}) <= Cardinality(S) + 1
                                  /\ Cardinality(S) \in Nat /\ Cardinality(S \union {x}) \in Nat
  <2> TAKE S, x
  <2> SUFFICES ASSUME IsFiniteSet(S)
      PROVE  /\ IsFiniteSet(S \union {x})
             /\ Cardinality(S \union {x}) <= Cardinality(S) + 1
             /\ Cardinality(S) \in Nat /\ Cardinality(S \union {x}) \in Nat
    OBVIOUS
  <2>1. /\ IsFiniteSet(S \union {x})
        /\ Cardinality(S \union {x}) = IF x \in S THEN Cardinality(S) ELSE Cardinality(S) + 1
    BY FS_AddElement
  <2>2. Cardinality(S) \in Nat /\ Cardinality(S \union {x}) \in Nat  BY <2>1, FS_CardinalityType
  <2> QED  BY <2>1, <2>2
<1>2. /\ IsFiniteSet(InFlight(c)) /\ IsFiniteSet(Requests)
      /\ TaskSlots \in Nat /\ GlobalSlots \in Nat
  BY BoundsPositive DEF PoolsOK
<1>3. Cardinality(InFlight(c)) < TaskSlots /\ Cardinality(Requests) < GlobalSlots
  BY DEF Admitted, Requests
<1>4. ASSUME NEW d \in Calls
      PROVE  IsFiniteSet(InFlight(d)') /\ Cardinality(InFlight(d)') <= TaskSlots
  <2>1. CASE d = c
    <3> DEFINE S == InFlight(c) \union {b}
    <3>1. IsFiniteSet(S) /\ Cardinality(S) <= Cardinality(InFlight(c)) + 1
          /\ Cardinality(S) \in Nat /\ Cardinality(InFlight(c)) \in Nat
      BY <1>1, <1>2
    <3>2. InFlight(d)' \in SUBSET S  BY <2>1
    <3> HIDE DEF S
    <3>3. IsFiniteSet(InFlight(d)') /\ Cardinality(InFlight(d)') <= Cardinality(S)
      BY <3>1, <3>2, FS_Subset
    <3>4. Cardinality(InFlight(d)') \in Nat  BY <3>3, FS_CardinalityType
    <3> QED  BY <1>2, <1>3, <3>1, <3>3, <3>4
  <2>2. CASE d # c
    <3>1. IsFiniteSet(InFlight(d)) /\ Cardinality(InFlight(d)) <= TaskSlots  BY DEF PoolsOK
    <3>2. InFlight(d)' \in SUBSET InFlight(d)  BY <2>2
    <3>3. IsFiniteSet(InFlight(d)') /\ Cardinality(InFlight(d)') <= Cardinality(InFlight(d))
      BY <3>1, <3>2, FS_Subset
    <3>4. Cardinality(InFlight(d)') \in Nat /\ Cardinality(InFlight(d)) \in Nat
      BY <3>1, <3>3, FS_CardinalityType
    <3> QED  BY <1>2, <3>1, <3>3, <3>4
  <2> QED  BY <2>1, <2>2
<1>5. Requests' \in SUBSET (Requests \union {<<c, b>>})
  <2>1. \A x : x \in Requests' <=> \E d \in Calls : \E e \in InFlight(d)' : x = <<d, e>>
    BY DEF Requests
  <2>2. ASSUME NEW d \in Calls, NEW e \in InFlight(d)'
        PROVE  <<d, e>> \in Requests \union {<<c, b>>}
    <3>1. CASE d # c  BY <3>1, RequestsAre
    <3>2. CASE d = c
      <4>1. e \in InFlight(c) \/ e = b  BY <3>2
      <4> QED  BY <3>2, <4>1, RequestsAre
    <3> QED  BY <3>1, <3>2
  <2> QED  BY <2>1, <2>2
<1>6. IsFiniteSet(Requests') /\ Cardinality(Requests') <= GlobalSlots
  <2> DEFINE S == Requests \union {<<c, b>>}
  <2>1. IsFiniteSet(S) /\ Cardinality(S) <= Cardinality(Requests) + 1
        /\ Cardinality(S) \in Nat /\ Cardinality(Requests) \in Nat
    BY <1>1, <1>2
  <2>2. Requests' \in SUBSET S  BY <1>5
  <2> HIDE DEF S
  <2>3. IsFiniteSet(Requests') /\ Cardinality(Requests') <= Cardinality(S)
    BY <2>1, <2>2, FS_Subset
  <2>4. Cardinality(Requests') \in Nat  BY <2>3, FS_CardinalityType
  <2> QED  BY <1>2, <1>3, <2>1, <2>3, <2>4
<1> QED  BY <1>4, <1>6 DEF PoolsOK

EmbeddingIInv(T) == CallsOK(T) /\ RowsOK(T) /\ StageOK /\ PoolsOK

(* What a change of one batch is on the way to, and what it leaves alone.   *)
LEMMA BatchChanges ==
  ASSUME NEW T, CallsOK(T), NEW c \in Calls, NEW b \in Batches(c), NEW s,
         batch' = [batch EXCEPT ![c][b] = s]
  PROVE  /\ \A d \in Calls : d # c => batch'[d] = batch[d] /\ InFlight(d)' = InFlight(d)
         /\ InFlight(c)' \subseteq InFlight(c) \union {b}
         /\ s # "sent" => InFlight(c)' \subseteq InFlight(c)
<1>1. /\ batch'[c] = [batch[c] EXCEPT ![b] = s]
      /\ \A d \in Calls : d # c => batch'[d] = batch[d]
  BY DEF CallsOK
<1>2. /\ DOMAIN batch'[c] = DOMAIN batch[c]
      /\ \A i \in DOMAIN batch[c] : batch'[c][i] = IF i = b THEN s ELSE batch[c][i]
  BY <1>1 DEF Batches
<1> QED  BY <1>1, <1>2 DEF InFlight, Batches

(* Every step of a batch. *)
LEMMA SendStep ==
  ASSUME NEW T, EmbeddingIInv(T), NEW c \in Calls, NEW b \in Batches(c), Send(c, b)
  PROVE  EmbeddingIInv(T)'
<1> DEFINE s == IF Left(c) THEN "failed" ELSE "sent"
<1>1. /\ batch[c][b] = "waiting" /\ Admitted(c)
      /\ batch' = [batch EXCEPT ![c][b] = s] /\ tries' = [tries EXCEPT ![c][b] = @ + 1]
      /\ stage' = stage /\ current' = current /\ texts' = texts /\ size' = size
      /\ slots' = slots /\ stored' = stored
  BY DEF Send
<1>2. s \in {"waiting", "sent", "failed"} /\ s # "waiting"  OBVIOUS
<1> HIDE DEF s
<1>3. CallsOK(T) /\ RowsOK(T) /\ StageOK /\ PoolsOK  BY DEF EmbeddingIInv
<1>4. tries[c][b] < Retries  BY <1>1, <1>3 DEF CallsOK, CallOK, Batches
<1>5. CallsOK(T)'  BY <1>1, <1>2, <1>3, <1>4, BatchMoves
<1>6. /\ \A d \in Calls : d # c => batch'[d] = batch[d] /\ InFlight(d)' = InFlight(d)
      /\ InFlight(c)' \subseteq InFlight(c) \union {b}
  BY <1>1, <1>3, BatchChanges
<1>7. RowsOK(T)' /\ StageOK'
  BY <1>1, <1>3, <1>6, StageMoves
<1>8. PoolsOK'  BY <1>1, <1>3, <1>6, PoolsGrow
<1> QED  BY <1>5, <1>7, <1>8 DEF EmbeddingIInv

(* An answer fills the slot of its own batch. *)
LEMMA AnswerStep ==
  ASSUME NEW T, EmbeddingIInv(T), NEW c \in Calls, NEW b \in Batches(c), Answer(c, b)
  PROVE  EmbeddingIInv(T)'
<1>1. CallsOK(T) /\ RowsOK(T) /\ StageOK /\ PoolsOK  BY DEF EmbeddingIInv
<1>2. /\ batch[c][b] = "sent" /\ batch' = [batch EXCEPT ![c][b] = "answered"]
      /\ stage' = stage /\ current' = current /\ texts' = texts /\ stored' = stored
      /\ \E kept : slots' = [slots EXCEPT ![c] = kept]
  BY DEF Answer
<1>3. CallsOK(T)'  BY <1>1, AnswerKept
<1>4. /\ \A d \in Calls : d # c => batch'[d] = batch[d] /\ InFlight(d)' = InFlight(d)
      /\ InFlight(c)' \subseteq InFlight(c)
  <2>1. PICK s : s = "answered" /\ batch' = [batch EXCEPT ![c][b] = s]  BY <1>2
  <2>2. s # "sent"  BY <2>1
  <2> QED  BY <1>1, <2>1, <2>2, BatchChanges
<1>5. \A d \in Calls : d # c => slots'[d] = slots[d]  BY <1>1, <1>2 DEF CallsOK
<1>6. RowsOK(T)' /\ StageOK'  BY <1>1, <1>2, <1>4, <1>5, StageMoves
<1>7. PoolsOK'  BY <1>1, <1>4, PoolsShrink
<1> QED  BY <1>3, <1>6, <1>7 DEF EmbeddingIInv

(* A lost or refused batch leaves its slot alone. *)
LEMMA LossStep ==
  ASSUME NEW T, EmbeddingIInv(T), NEW c \in Calls, NEW b \in Batches(c),
         DropAnswer(c, b) \/ RefuseBatch(c, b)
  PROVE  EmbeddingIInv(T)'
<1>1. CallsOK(T) /\ RowsOK(T) /\ StageOK /\ PoolsOK  BY DEF EmbeddingIInv
<1>2. /\ batch[c][b] = "sent"
      /\ current' = current /\ texts' = texts /\ stored' = stored
      /\ size' = size /\ slots' = slots /\ tries' = tries
      /\ stage' = stage \/ (c = current /\ stage = "sending" /\ stage' = "failed")
      /\ \/ batch' = [batch EXCEPT ![c][b] = "failed"]
         \/ batch' = [batch EXCEPT ![c][b] = "waiting"] /\ tries[c][b] < Retries
  BY DEF DropAnswer, RefuseBatch, Broken
<1>3. PICK s \in {"waiting", "failed"} :
        batch' = [batch EXCEPT ![c][b] = s] /\ (s = "waiting" => tries[c][b] < Retries)
  BY <1>2
<1>4. CallsOK(T)'  BY <1>1, <1>2, <1>3, BatchMoves
<1>5. /\ \A d \in Calls : d # c => batch'[d] = batch[d] /\ InFlight(d)' = InFlight(d)
      /\ InFlight(c)' \subseteq InFlight(c)
  BY <1>1, <1>3, BatchChanges
<1>6. RowsOK(T)' /\ StageOK'  BY <1>1, <1>2, <1>5, StageMoves
<1>7. PoolsOK'  BY <1>1, <1>5, PoolsShrink
<1> QED  BY <1>4, <1>6, <1>7 DEF EmbeddingIInv

(* A step of a call, of whatever its texts are. *)
LEMMA CallStepKeeps ==
  ASSUME NEW T, EmbeddingIInv(T), CallStep
  PROVE  EmbeddingIInv(T)'
<1>1. CallsOK(T) /\ RowsOK(T) /\ StageOK /\ PoolsOK  BY DEF EmbeddingIInv
<1>2. CASE \E c \in Calls : \E b \in Batches(c) :
             Send(c, b) \/ Answer(c, b) \/ DropAnswer(c, b) \/ RefuseBatch(c, b)
  BY <1>2, SendStep, AnswerStep, LossStep
<1>3. CASE Collect \/ Insert
  <2>1. CallsOK(T)' /\ RowsOK(T)' /\ StageOK'  BY <1>1, <1>3, CollectSound, InsertSound
  <2>2. batch' = batch  BY <1>3 DEF Collect, Insert
  <2>3. \A d \in Calls : InFlight(d)' = InFlight(d)  BY <2>2 DEF InFlight, Batches
  <2>4. PoolsOK'  BY <1>1, <2>3, PoolsShrink
  <2> QED  BY <2>1, <2>4 DEF EmbeddingIInv
<1>4. CASE InsertFails
  <2>1. /\ stage = "inserting" /\ stage' = "failed" /\ current' = current /\ texts' = texts
        /\ size' = size /\ batch' = batch /\ tries' = tries /\ slots' = slots /\ stored' = stored
    BY <1>4 DEF InsertFails
  <2>2. CallsOK(T)'  BY <1>1, <2>1 DEF CallsOK, CallOK
  <2>3. RowsOK(T)'  BY <1>1, <2>1 DEF RowsOK
  <2>4. StageOK'  BY <1>1, <2>1 DEF StageOK, Stages
  <2>5. \A d \in Calls : InFlight(d)' = InFlight(d)  BY <2>1 DEF InFlight, Batches
  <2>6. PoolsOK'  BY <1>1, <2>5, PoolsShrink
  <2> QED  BY <2>2, <2>3, <2>4, <2>6 DEF EmbeddingIInv
<1> QED  BY <1>2, <1>3, <1>4 DEF CallStep

(* The stage starts, or starts again, with other texts. *)
LEMMA StartCallKeeps ==
  ASSUME NEW T, EmbeddingIInv(T), NEW given \in Seq(T), StartCall(given)
  PROVE  EmbeddingIInv(T)'
<1>1. CallsOK(T) /\ RowsOK(T) /\ StageOK /\ PoolsOK  BY DEF EmbeddingIInv
<1>2. CallsOK(T)' /\ RowsOK(T)' /\ StageOK'  BY <1>1, CallBegins
<1>3. batch' = [batch EXCEPT ![current + 1] = [b \in 1..BatchCount(Len(given)) |-> "waiting"]]
  BY DEF StartCall
<1>4. ASSUME NEW d \in Calls PROVE InFlight(d)' \subseteq InFlight(d)
  <2>1. CASE d = current + 1
    <3>1. batch'[d] = [b \in 1..BatchCount(Len(given)) |-> "waiting"]
      BY <1>1, <1>3, <2>1 DEF CallsOK
    <3>2. \A b \in DOMAIN batch'[d] : batch'[d][b] # "sent"  BY <3>1
    <3> QED  BY <3>2 DEF InFlight, Batches
  <2>2. CASE d # current + 1
    <3>1. batch'[d] = batch[d]  BY <1>1, <1>3, <2>2 DEF CallsOK
    <3> QED  BY <3>1 DEF InFlight, Batches
  <2> QED  BY <2>1, <2>2
<1>5. PoolsOK'  BY <1>1, <1>4, PoolsShrink
<1> QED  BY <1>2, <1>5 DEF EmbeddingIInv

(* Nothing happens to the vectors. *)
LEMMA EmbeddingRests ==
  ASSUME NEW T, EmbeddingIInv(T), UNCHANGED embeddingVars
  PROVE  EmbeddingIInv(T)'
<1>1. CallsOK(T) /\ RowsOK(T) /\ StageOK /\ PoolsOK  BY DEF EmbeddingIInv
<1>2. /\ stage' = stage /\ current' = current /\ texts' = texts /\ size' = size /\ batch' = batch
      /\ tries' = tries /\ slots' = slots /\ stored' = stored
  BY DEF embeddingVars
<1>3. CallsOK(T)'  BY <1>1, <1>2 DEF CallsOK, CallOK
<1>4. RowsOK(T)'  BY <1>1, <1>2 DEF RowsOK
<1>5. StageOK'  BY <1>1, <1>2 DEF StageOK, Joined, AllAnswered, Batches
<1>6. \A d \in Calls : InFlight(d)' = InFlight(d)  BY <1>2 DEF InFlight, Batches
<1>7. PoolsOK'  BY <1>1, <1>6, PoolsShrink
<1> QED  BY <1>3, <1>4, <1>5, <1>7 DEF EmbeddingIInv

(* At first nothing is on its way. *)
LEMMA EmbeddingStart ==
  ASSUME NEW T, EmbeddingInit
  PROVE  EmbeddingIInv(T)
<1>1. CallsOK(T) /\ RowsOK(T) /\ StageOK  BY CallsStart
<1>2. \A c \in Calls : InFlight(c) = {}
  <2>1. \A c \in Calls : DOMAIN batch[c] = {}
    <3>1. DOMAIN <<>> = {}  OBVIOUS
    <3> QED  BY <3>1 DEF EmbeddingInit
  <2> QED  BY <2>1 DEF InFlight, Batches
<1>3. Requests = {}  BY <1>2, RequestsAre
<1>4. IsFiniteSet({}) /\ Cardinality({}) = 0 /\ TaskSlots \in Nat /\ GlobalSlots \in Nat
  BY FS_EmptySet, BoundsPositive
<1>5. PoolsOK  BY <1>2, <1>3, <1>4 DEF PoolsOK
<1> QED  BY <1>1, <1>5 DEF EmbeddingIInv

(* The invariant of the vectors, at every time. *)
LEMMA EmbeddingInvariant == EmbeddingSpec => []EmbeddingIInv(Texts)
<1>1. EmbeddingInit => EmbeddingIInv(Texts)  BY EmbeddingStart
<1>2. EmbeddingIInv(Texts) /\ [EmbeddingNext]_embeddingVars => EmbeddingIInv(Texts)'
  BY CallStepKeeps, StartCallKeeps, EmbeddingRests DEF EmbeddingNext
<1> QED  BY <1>1, <1>2, PTL DEF EmbeddingSpec

(* Every row is right, by the invariant. *)
LEMMA RowsMatch ==
  ASSUME NEW T, EmbeddingIInv(T)
  PROVE  VectorsMatch
<1>1. RowsOK(T) /\ StageOK  BY DEF EmbeddingIInv
<1>2. DOMAIN stored = 1..Len(stored)  BY <1>1 DEF RowsOK
<1> QED  BY <1>1, <1>2 DEF VectorsMatch, RowsOK, StageOK

(* The batches have their types and stay within the pools. *)
LEMMA BatchesTyped ==
  ASSUME NEW T, EmbeddingIInv(T)
  PROVE  EmbeddingTypeOK
<1>1. CallsOK(T) /\ StageOK /\ PoolsOK  BY DEF EmbeddingIInv
<1>2. ASSUME NEW c \in Calls
      PROVE  /\ \A b \in Batches(c) : batch[c][b] \in BatchStates /\ tries[c][b] \in 0..Retries
             /\ DOMAIN tries[c] = Batches(c) /\ DOMAIN slots[c] = Batches(c)
             /\ Cardinality(InFlight(c)) <= TaskSlots
  <2>1. CallOK(T, c)  BY <1>1 DEF CallsOK
  <2>2. DOMAIN slots[c] = 1..Len(slots[c])  BY <2>1 DEF CallOK
  <2> QED  BY <1>1, <2>1, <2>2 DEF CallOK, Batches, PoolsOK
<1> QED  BY <1>1, <1>2 DEF EmbeddingTypeOK, StageOK, PoolsOK, Requests

(* Every row has the vector of its own text, and a stage that is done has   *)
(* stored each text of its call once, in order.                             *)
THEOREM VectorsBelong == EmbeddingSpec => []VectorsMatch
<1>1. EmbeddingIInv(Texts) => VectorsMatch  BY RowsMatch
<1> QED  BY <1>1, EmbeddingInvariant, PTL

(* Type correctness; the requests stay within both pools and their tries.   *)
THEOREM EmbeddingTyped == EmbeddingSpec => []EmbeddingTypeOK
<1>1. EmbeddingIInv(Texts) => EmbeddingTypeOK  BY BatchesTyped
<1> QED  BY <1>1, EmbeddingInvariant, PTL
=============================================================================
