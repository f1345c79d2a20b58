------------------------- MODULE FilePipelineProofs -------------------------
(***************************************************************************)
(* Proofs about FilePipeline for every number of files and runs, every      *)
(* capacity of the gate, every set of faults and of client habits.          *)
(*                                                                         *)
(* TypeOK is inductive.  GateBalanced is inductive relative to it.          *)
(* ProcessingHasRun is not: that the clean-up at start-up hands over to     *)
(* service needs to know that no run survives a restart and that Recover    *)
(* left no file in process (Restart).                                       *)
(***************************************************************************)
EXTENDS FilePipeline, TLAPS, FiniteSetTheorems

-----------------------------------------------------------------------------
(* What the tables and the helpers return.                                  *)

(* The tables map stages to stages, failure statuses and artifacts. *)
LEMMA TableTypes ==
  /\ Succ \in [Stages -> Stages]
  /\ Failed \in [Stages -> FailedStates]
  /\ Product \in [Stages -> Artifacts]
<1>1. Succ \in [Stages -> Stages]  BY DEF Succ, Stages, RetryStages
<1>2. Failed \in [Stages -> FailedStates]  BY DEF Failed, FailedStates
<1>3. Product \in [Stages -> Artifacts]
  BY DEF Product, Stages, RetryStages, Artifacts
<1> QED  BY <1>1, <1>2, <1>3

(* A failure status is neither a status of a file in process nor one of a   *)
(* file without a row.                                                      *)
LEMMA FailedIsFinal ==
  ASSUME NEW s \in Stages
  PROVE  Failed[s] \in Statuses /\ Failed[s] \notin Processing
<1>1. Failed[s] \in FailedStates  BY TableTypes
<1>2. Failed[s] \notin Stages /\ Failed[s] # "queued"
  BY DEF Failed, Stages, RetryStages
<1> QED  BY <1>1, <1>2 DEF Statuses, Processing

(* Put writes the status of an existing row and touches no other file.      *)
LEMMA PutResult ==
  ASSUME progress \in [Files -> Statuses], NEW f \in Files, NEW v \in Statuses
  PROVE  /\ Put(f, v) \in [Files -> Statuses]
         /\ \A g \in Files \ {f} : Put(f, v)[g] = progress[g]
         /\ Put(f, v)[f] \in {v, "deleted"}
<1>1. CASE progress[f] = "deleted"  BY <1>1 DEF Put
<1>2. CASE progress[f] # "deleted"  BY <1>2 DEF Put
<1> QED  BY <1>1, <1>2

(* Storing keeps the type of the store. *)
LEMMA RaiseType ==
  ASSUME store \in [Files -> [Artifacts -> Levels]],
         NEW f \in Files, NEW a \in Artifacts, NEW l \in Levels
  PROVE  Raise(f, a, l) \in [Files -> [Artifacts -> Levels]]
BY DEF Raise

(* Deleting keeps the type of the store. *)
LEMMA EraseType ==
  ASSUME store \in [Files -> [Artifacts -> Levels]], NEW f \in Files, NEW S
  PROVE  Erase(f, S) \in [Files -> [Artifacts -> Levels]]
BY DEF Erase, Levels

(* Storing one result more keeps the type of the store. *)
LEMMA GrownType ==
  ASSUME store \in [Files -> [Artifacts -> Levels]],
         NEW f \in Files, NEW a \in Artifacts
  PROVE  Grown(f, a) \in [Files -> [Artifacts -> Levels]]
BY RaiseType DEF Grown, Levels

(* There is a file, so an idle run has a job to show. *)
LEMMA NoJobType == NoJob \in Jobs
<1>1. (CHOOSE f \in Files : TRUE) \in Files  BY FilesNonempty
<1> QED  BY <1>1 DEF NoJob, Jobs

(* What a document yields is made of artifacts. *)
LEMMA DocsType ==
  ASSUME NEW d \in Docs
  PROVE  d \in SUBSET Artifacts
BY DocsCoherent

-----------------------------------------------------------------------------
(* Type correctness.                                                        *)

(* The part of TypeOK about the runs, for an action that moves one run.     *)
RunsOK ==
  /\ job \in [Runs -> Jobs]
  /\ stage \in [Runs -> Stages]
  /\ pc \in [Runs -> PCs]

(* A run moves to a place in the code. *)
LEMMA GotoType ==
  ASSUME TypeOK, NEW r \in Runs, NEW p \in PCs, Goto(r, p)
  PROVE  pc' \in [Runs -> PCs]
BY DEF TypeOK, Goto

(* Ending a run keeps the types of its bookkeeping. *)
LEMMA EndType ==
  ASSUME TypeOK, NEW r \in Runs, End(r)
  PROVE  RunsOK'
BY NoJobType DEF TypeOK, End, RunsOK, PCs, Stages

(* Losing a run keeps the types of its bookkeeping. *)
LEMMA LoseType ==
  ASSUME TypeOK, NEW r \in Runs, Lose(r)
  PROVE  RunsOK'
BY DEF TypeOK, Lose, Goto, RunsOK, PCs

(* The initial state has the right types. *)
LEMMA TypeInit == Init => TypeOK
BY NoJobType, MaxCrashesNat
DEF Init, TypeOK, Statuses, Artifacts, Levels, PCs, Stages

(* TypeOK is inductive: one step per action. *)
LEMMA TypeStep == TypeOK /\ [Next]_vars => TypeOK'
<1> SUFFICES ASSUME TypeOK, [Next]_vars PROVE TypeOK'
  OBVIOUS
<1> USE DEF fileVars, gateVars, runVars, procVars
<1>t. /\ progress \in [Files -> Statuses]
      /\ doc \in [Files -> SUBSET Artifacts]
      /\ store \in [Files -> [Artifacts -> Levels]]
      /\ sweeps \in SUBSET Files
      /\ job \in [Runs -> Jobs]
      /\ stage \in [Runs -> Stages]
      /\ pc \in [Runs -> PCs]
      /\ phase \in {"down", "recovered", "up"}
      /\ crashes \in 0..MaxCrashes
      /\ world \in Worlds
  BY DEF TypeOK
<1>j. \A r \in Runs : FileOf(r) \in Files
  BY <1>t DEF FileOf, Jobs
<1>s. \A f \in Files, v \in Statuses : Put(f, v) \in [Files -> Statuses]
  BY <1>t, PutResult
<1>a. /\ "queued" \in Statuses /\ "complete" \in Statuses /\ "deleted" \in Statuses
      /\ \A s \in Stages : s \in Statuses /\ Failed[s] \in Statuses
  BY FailedIsFinal DEF Statuses
<1>g. \A r \in Runs, p \in PCs : Goto(r, p) => pc' \in [Runs -> PCs]
  BY GotoType
<1>e. \A f \in Files : \A S : Erase(f, S) \in [Files -> [Artifacts -> Levels]]
  BY <1>t, EraseType
<1>r. \A f \in Files, a \in Artifacts, l \in Levels :
        Raise(f, a, l) \in [Files -> [Artifacts -> Levels]]
  BY <1>t, RaiseType
<1>w. \A f \in Files, a \in Artifacts : Grown(f, a) \in [Files -> [Artifacts -> Levels]]
  BY <1>t, GrownType
<1>1. ASSUME NEW r \in Runs, Request(r) PROVE TypeOK'
  <2>0. PICK f \in Files, m \in Modes :
          Submit(r, f, m) \/ \E s \in RetryStages : Retry(r, f, s, m)
    BY <1>1 DEF Request
  <2>m. m \in {"async", "stream", "sync"}
    BY ModesKnown
  <2>1. CASE Submit(r, f, m)
    <3>1. doc' \in [Files -> SUBSET Artifacts]
      <4>1. PICK d \in Docs : doc' = [doc EXCEPT ![f] = d]
        BY <2>1 DEF Submit
      <4>2. d \in SUBSET Artifacts
        BY DocsType
      <4>3. [doc EXCEPT ![f] = d] \in [Files -> SUBSET Artifacts]
        BY <4>2, <1>t
      <4> QED  BY <4>1, <4>3
    <3>2. job' \in [Runs -> Jobs]
      BY <2>1, <2>m, <1>t DEF Submit, Jobs
    <3>3. pc' \in [Runs -> PCs]
      BY <2>1, <1>g DEF Submit, PCs
    <3> QED  BY <2>1, <3>1, <3>2, <3>3, <1>t, <1>a DEF Submit, TypeOK
  <2>2. ASSUME NEW s \in RetryStages, Retry(r, f, s, m) PROVE TypeOK'
    <3>1. job' \in [Runs -> Jobs]
      BY <2>2, <2>m, <1>t DEF Retry, Jobs
    <3>2. stage' \in [Runs -> Stages]
      BY <2>2, <1>t DEF Retry, Stages
    <3>3. pc' \in [Runs -> PCs]
      BY <2>2, <1>g DEF Retry, PCs
    <3> QED  BY <2>2, <3>1, <3>2, <3>3, <1>t DEF Retry, TypeOK
  <2> QED  BY <2>0, <2>1, <2>2
<1>2. ASSUME NEW r \in Runs, Arrive(r) PROVE TypeOK'
  BY <1>2, <1>t, <1>g DEF Arrive, TypeOK, PCs
<1>3. ASSUME NEW r \in Runs, MarkQueued(r) PROVE TypeOK'
  <2>1. progress' \in [Files -> Statuses]
    BY <1>3, <1>t, <1>s, <1>j, <1>a DEF MarkQueued
  <2>2. pc' \in [Runs -> PCs]  BY <1>3, <1>g DEF MarkQueued, PCs
  <2> QED  BY <1>3, <2>1, <2>2, <1>t DEF MarkQueued, TypeOK
<1>4. ASSUME NEW r \in Runs, Ask(r) PROVE TypeOK'
  <2>1. pc' \in [Runs -> PCs]  BY <1>4, <1>g DEF Ask, PCs
  <2> QED  BY <1>4, <2>1, <1>t DEF Ask, TypeOK
<1>5. ASSUME NEW r \in Runs, Admit(r) PROVE TypeOK'
  BY <1>5, <1>t, <1>g DEF Admit, TypeOK, PCs
<1>6. ASSUME NEW r \in Runs, Enter(r) PROVE TypeOK'
  <2>1. pc' \in [Runs -> PCs]  BY <1>6, <1>g DEF Enter, PCs
  <2> QED  BY <1>6, <2>1, <1>t DEF Enter, TypeOK
<1>7. ASSUME NEW r \in Runs, Clean(r) PROVE TypeOK'
  <2>1. store' \in [Files -> [Artifacts -> Levels]]
    BY <1>7, <1>t, <1>e, <1>j DEF Clean
  <2>2. pc' \in [Runs -> PCs]  BY <1>7, <1>g DEF Clean, PCs
  <2> QED  BY <1>7, <2>1, <2>2, <1>t DEF Clean, TypeOK
<1>8. ASSUME NEW r \in Runs, Load(r) PROVE TypeOK'
  <2>1. pc' \in [Runs -> PCs]  BY <1>8, <1>g DEF Load, PCs
  <2> QED  BY <1>8, <2>1, <1>t DEF Load, TypeOK
<1>9. ASSUME NEW r \in Runs, Begin(r) PROVE TypeOK'
  <2> DEFINE s == IF pc[r] = "begin" THEN stage[r] ELSE Succ[stage[r]]
  <2>0. s \in Stages  BY <1>t, TableTypes
  <2>1. stage' \in [Runs -> Stages]
    <3>1. stage' = [stage EXCEPT ![r] = s]  BY <1>9 DEF Begin
    <3> QED  BY <3>1, <2>0, <1>t
  <2>2. progress' \in [Files -> Statuses]
    <3>1. progress' = Put(FileOf(r), s) \/ UNCHANGED progress
      BY <1>9 DEF Begin
    <3>2. Put(FileOf(r), s) \in [Files -> Statuses]
      BY <2>0, <1>s, <1>j, <1>a
    <3> QED  BY <3>1, <3>2, <1>t
  <2>3. pc' \in [Runs -> PCs]  BY <1>9, <1>g DEF Begin, PCs
  <2> QED  BY <1>9, <2>1, <2>2, <2>3, <1>t DEF Begin, TypeOK
<1>10. ASSUME NEW r \in Runs, Save(r) PROVE TypeOK'
  <2>0. Product[stage[r]] \in Artifacts /\ "all" \in Levels
    BY <1>t, TableTypes DEF Levels
  <2>1. store' \in {store, Raise(FileOf(r), Product[stage[r]], "all")}
    BY <1>10 DEF Save
  <2>2. pc' \in [Runs -> PCs]
    BY <1>10, <1>g DEF Save, PCs
  <2> QED  BY <1>10, <2>0, <2>1, <2>2, <1>t, <1>r, <1>j DEF Save, TypeOK
<1>11. ASSUME NEW r \in Runs, Embed(r) PROVE TypeOK'
  <2>0. "vectors" \in Artifacts /\ {"all", "dup", "part"} \subseteq Levels
    BY DEF Artifacts, Levels
  <2>1. store' \in {store} \cup {Raise(FileOf(r), "vectors", l) : l \in {"all", "dup", "part"}}
    BY <1>11 DEF Embed
  <2>2. pc' \in [Runs -> PCs]  BY <1>11, <1>g DEF Embed, PCs
  <2>3. store' \in [Files -> [Artifacts -> Levels]]
    BY <2>0, <2>1, <1>t, <1>r, <1>j
  <2> QED  BY <1>11, <2>2, <2>3, <1>t DEF Embed, TypeOK
<1>12. ASSUME NEW r \in Runs, StoreSome(r) PROVE TypeOK'
  <2>0. Product[stage[r]] \in Artifacts
    BY <1>t, TableTypes
  <2>1. store' \in {store, Grown(FileOf(r), Product[stage[r]])}
    BY <1>12 DEF StoreSome
  <2>2. pc' \in [Runs -> PCs]  BY <1>12, <1>g DEF StoreSome, PCs
  <2> QED  BY <1>12, <2>0, <2>1, <2>2, <1>t, <1>w, <1>j DEF StoreSome, TypeOK
<1>13. ASSUME NEW r \in Runs, ExtractRest(r) PROVE TypeOK'
  <2>1. store' \in {store, Grown(FileOf(r), "extraction")} /\ "extraction" \in Artifacts
    BY <1>13 DEF ExtractRest, Artifacts
  <2>2. pc' \in [Runs -> PCs]  BY <1>13, <1>g DEF ExtractRest, PCs
  <2> QED  BY <1>13, <2>1, <2>2, <1>t, <1>w, <1>j DEF ExtractRest, TypeOK
<1>14. ASSUME NEW r \in Runs, AnalyzeRest(r) PROVE TypeOK'
  <2>1. store' \in {store, Grown(FileOf(r), "analysis")} /\ "analysis" \in Artifacts
    BY <1>14 DEF AnalyzeRest, Artifacts
  <2>2. pc' \in [Runs -> PCs]  BY <1>14, <1>g DEF AnalyzeRest, PCs
  <2>3. progress' \in [Files -> Statuses]
    BY <1>14, <1>t, <1>s, <1>j, <1>a DEF AnalyzeRest
  <2> QED  BY <1>14, <2>1, <2>2, <2>3, <1>t, <1>w, <1>j DEF AnalyzeRest, TypeOK
<1>15. ASSUME NEW r \in Runs, Seal(r) PROVE TypeOK'
  <2>1. progress' \in [Files -> Statuses]
    BY <1>15, <1>t, <1>s, <1>j, <1>a DEF Seal
  <2>2. pc' \in [Runs -> PCs]  BY <1>15, <1>g DEF Seal, PCs
  <2> QED  BY <1>15, <2>1, <2>2, <1>t DEF Seal, TypeOK
<1>16. ASSUME NEW r \in Runs, InnerMark(r) PROVE TypeOK'
  <2>1. progress' \in [Files -> Statuses]
    BY <1>16, <1>t, <1>s, <1>j, <1>a DEF InnerMark
  <2>2. pc' \in [Runs -> PCs]  BY <1>16, <1>g DEF InnerMark, PCs
  <2> QED  BY <1>16, <2>1, <2>2, <1>t DEF InnerMark, TypeOK
<1>17. ASSUME NEW r \in Runs, OuterMark(r) PROVE TypeOK'
  <2>1. progress' \in [Files -> Statuses]
    BY <1>17, <1>t, <1>s, <1>j, <1>a DEF OuterMark
  <2>2. RunsOK'
    BY <1>17, <1>t, <1>g, LoseType DEF OuterMark, RunsOK, PCs
  <2> QED  BY <1>17, <2>1, <2>2, <1>t DEF OuterMark, TypeOK, RunsOK
<1>18. ASSUME NEW r \in Runs, Leave(r) PROVE TypeOK'
  <2>1. RunsOK'  BY <1>18, EndType DEF Leave
  <2> QED  BY <1>18, <2>1, <1>t DEF Leave, TypeOK, RunsOK
<1>19. ASSUME NEW r \in Runs, UnstartedMark(r) PROVE TypeOK'
  <2>1. progress' \in [Files -> Statuses]
    BY <1>19, <1>t, <1>s, <1>j, <1>a DEF UnstartedMark
  <2>2. RunsOK'  BY <1>19, EndType, LoseType DEF UnstartedMark
  <2> QED  BY <1>19, <2>1, <2>2, <1>t DEF UnstartedMark, TypeOK, RunsOK
<1>20. ASSUME NEW r \in Runs, Cancel(r) PROVE TypeOK'
  <2>1. RunsOK'
    <3>1. CASE Goto(r, IF HandlesEarlyEnd(r) THEN "unstarted" ELSE "lost")
               /\ UNCHANGED <<job, stage>>
      BY <3>1, <1>t, <1>g DEF RunsOK, PCs
    <3>2. CASE /\ Goto(r, "outer") /\ UNCHANGED job
               /\ stage' \in {stage, [stage EXCEPT ![r] = Succ[@]]}
      <4>1. stage' \in [Runs -> Stages]  BY <3>2, <1>t, TableTypes
      <4> QED  BY <3>2, <4>1, <1>t, <1>g DEF RunsOK, PCs
    <3>3. CASE Lose(r)  BY <3>3, LoseType
    <3> QED  BY <1>20, <3>1, <3>2, <3>3 DEF Cancel
  <2> QED  BY <1>20, <2>1, <1>t DEF Cancel, TypeOK, RunsOK
<1>21. ASSUME NEW r \in Runs, Close(r) PROVE TypeOK'
  <2>1. RunsOK'  BY <1>21, LoseType DEF Close
  <2> QED  BY <1>21, <2>1, <1>t DEF Close, TypeOK, RunsOK
<1>22. ASSUME NEW f \in Files, Delete(f) PROVE TypeOK'
  BY <1>22, <1>t, <1>e, <1>a DEF Delete, TypeOK
<1>23. ASSUME NEW f \in Files, Sweep(f) PROVE TypeOK'
  BY <1>23, <1>t, <1>e DEF Sweep, TypeOK
<1>24. ASSUME Crash PROVE TypeOK'
  <2>1. store' \in [Files -> [Artifacts -> Levels]]
    <3>1. "vectors" \in Artifacts /\ "part" \in Levels  BY DEF Artifacts, Levels
    <3> QED  BY <1>24, <3>1, <1>t, <1>r, <1>j DEF Crash
  <2>2. RunsOK'
    BY <1>24, NoJobType DEF Crash, RunsOK, PCs, Stages
  <2>3. crashes' \in 0..MaxCrashes
    BY <1>24, <1>t, MaxCrashesNat DEF Crash
  <2> QED  BY <1>24, <2>1, <2>2, <2>3, <1>t DEF Crash, TypeOK, RunsOK
<1>25. ASSUME Recover PROVE TypeOK'
  <2>1. progress' \in [Files -> Statuses]
    <3>1. "parsing_failed" \in Statuses
      BY DEF Statuses, FailedStates, Failed, Stages
    <3> QED  BY <1>25, <3>1, <1>t, <1>a DEF Recover
  <2> QED  BY <1>25, <2>1, <1>t DEF Recover, TypeOK
<1>26. ASSUME CleanUp PROVE TypeOK'
  <2>1. store' \in [Files -> [Artifacts -> Levels]]
    BY <1>26, <1>t DEF CleanUp, Levels
  <2> QED  BY <1>26, <2>1, <1>t DEF CleanUp, TypeOK
<1>27. ASSUME UNCHANGED vars PROVE TypeOK'
  BY <1>27, <1>t DEF vars, TypeOK
<1> QED
  BY <1>1, <1>2, <1>3, <1>4, <1>5, <1>6, <1>7, <1>8, <1>9, <1>10, <1>11, <1>12,
     <1>13, <1>14, <1>15, <1>16, <1>17, <1>18, <1>19, <1>20, <1>21, <1>22, <1>23,
     <1>24, <1>25, <1>26, <1>27
  DEF Next, RunStep

(* The columns and the runs' bookkeeping keep their types under every fault. *)
THEOREM PipelineTypeOK == Spec => []TypeOK
BY TypeInit, TypeStep, PTL DEF Spec

-----------------------------------------------------------------------------
(* The gate.  A step of a run keeps its place, takes a slot, queues, or     *)
(* gives up whatever it has.                                                *)

(* Only runs hold slots, so their number is a number, and the gate is free  *)
(* when it is below the limit.                                              *)
LEMMA HoldersFinite ==
  ASSUME GateBalanced
  PROVE  /\ IsFiniteSet(holders) /\ Cardinality(holders) \in Nat
         /\ Gate!Free <=> Cardinality(holders) < Limit
<1>1. holders \in SUBSET Runs  BY DEF GateBalanced
<1>2. IsFiniteSet(holders)  BY <1>1, RunsFinite, FS_Subset
<1>3. Cardinality(holders) \in Nat  BY <1>2, FS_CardinalityType
<1>4. Gate!Free <=> Cardinality(holders) < Limit
  BY DEF Gate!Free, Gate!Cardinality, Cardinality
<1> QED  BY <1>2, <1>3, <1>4

(* A step that leaves the run on the same side of the gate, and the gate    *)
(* alone.                                                                   *)
LEMMA KeepsPlace ==
  ASSUME TypeOK, GateBalanced, NEW r \in Runs, NEW p \in PCs,
         Goto(r, p), UNCHANGED gateVars,
         pc[r] \in Inside <=> p \in Inside, pc[r] = "wait" <=> p = "wait"
  PROVE  GateBalanced'
<1>1. holders' = holders /\ waiting' = waiting  BY DEF gateVars
<1>2. /\ \A q \in Runs : pc'[q] \in Inside <=> pc[q] \in Inside
      /\ \A q \in Runs : pc'[q] = "wait" <=> pc[q] = "wait"
  BY DEF TypeOK, Goto
<1>3. /\ {q \in Runs : pc'[q] \in Inside} = {q \in Runs : pc[q] \in Inside}
      /\ {q \in Runs : pc'[q] = "wait"} = {q \in Runs : pc[q] = "wait"}
  BY <1>2
<1> QED  BY <1>1, <1>3 DEF GateBalanced

(* A step that takes a free slot, from outside or from the queue. *)
LEMMA TakesSlot ==
  ASSUME TypeOK, GateBalanced, NEW r \in Runs, Goto(r, "enter"),
         pc[r] \notin Inside, Gate!Free,
         holders' = holders \cup {r}, waiting' = waiting \ {r}
  PROVE  GateBalanced'
<1>1. "enter" \in Inside /\ "enter" # "wait"  BY DEF Inside
<1>2. pc' = [pc EXCEPT ![r] = "enter"] /\ pc \in [Runs -> PCs]
  BY DEF Goto, TypeOK
<1>3. holders' = {q \in Runs : pc'[q] \in Inside}
  BY <1>1, <1>2 DEF GateBalanced
<1>4. waiting' = {q \in Runs : pc'[q] = "wait"}
  BY <1>1, <1>2 DEF GateBalanced
<1>5. Cardinality(holders') <= Limit
  <2>1. r \notin holders  BY DEF GateBalanced
  <2>2. Cardinality(holders') = Cardinality(holders) + 1
    BY <2>1, HoldersFinite, FS_AddElement
  <2> QED  BY <2>2, HoldersFinite, LimitPositive
<1> QED  BY <1>3, <1>4, <1>5 DEF GateBalanced

(* A step into the queue. *)
LEMMA QueuesUp ==
  ASSUME TypeOK, GateBalanced, NEW r \in Runs, Goto(r, "wait"),
         pc[r] \notin Inside,
         holders' = holders, waiting' = waiting \cup {r}
  PROVE  GateBalanced'
<1>1. "wait" \notin Inside  BY DEF Inside, Body
<1>2. pc' = [pc EXCEPT ![r] = "wait"] /\ pc \in [Runs -> PCs]
  BY DEF Goto, TypeOK
<1>3. holders' = {q \in Runs : pc'[q] \in Inside}
  BY <1>1, <1>2 DEF GateBalanced
<1>4. waiting' = {q \in Runs : pc'[q] = "wait"}
  BY <1>1, <1>2 DEF GateBalanced
<1> QED  BY <1>3, <1>4 DEF GateBalanced

(* A step out of the gate, by LeaveGate, from wherever the run stood. *)
LEMMA GivesUp ==
  ASSUME TypeOK, GateBalanced, NEW r \in Runs, NEW p \in PCs,
         Goto(r, p), LeaveGate(r), p \notin Inside, p # "wait"
  PROVE  GateBalanced'
<1>1. "wait" \notin Inside  BY DEF Inside, Body
<1>2. pc' = [pc EXCEPT ![r] = p] /\ pc \in [Runs -> PCs]
  BY DEF Goto, TypeOK
<1>3. r \notin holders \/ r \notin waiting  BY <1>1 DEF GateBalanced
<1>4. holders' = holders \ {r} /\ waiting' = waiting \ {r}
  <2>1. CASE Gate!Release(r)  BY <2>1, <1>3 DEF Gate!Release
  <2>2. CASE Gate!Quit(r)  BY <2>2, <1>3 DEF Gate!Quit
  <2>3. CASE r \notin holders \cup waiting /\ UNCHANGED gateVars
    BY <2>3 DEF gateVars
  <2> QED  BY <2>1, <2>2, <2>3 DEF LeaveGate
<1>5. holders' = {q \in Runs : pc'[q] \in Inside}
  BY <1>2, <1>4 DEF GateBalanced
<1>6. waiting' = {q \in Runs : pc'[q] = "wait"}
  BY <1>2, <1>4 DEF GateBalanced
<1>7. Cardinality(holders') <= Limit
  <2>1. Cardinality(holders') \in {Cardinality(holders), Cardinality(holders) - 1}
    BY <1>4, HoldersFinite, FS_RemoveElement
  <2>2. Cardinality(holders) <= Limit  BY DEF GateBalanced
  <2> QED  BY <2>1, <2>2, HoldersFinite, LimitPositive
<1> QED  BY <1>5, <1>6, <1>7 DEF GateBalanced

(* Inside the slot, and outside of the gate altogether, steps keep the place.*)
Away == {"idle", "arrive", "mark", "ask", "unstarted", "lost"}

(* Between two places inside the slot. *)
LEMMA MovesInside ==
  ASSUME TypeOK, GateBalanced, NEW r \in Runs, UNCHANGED gateVars,
         pc[r] \in Inside, \E p \in Inside : Goto(r, p)
  PROVE  GateBalanced'
<1>1. Inside \subseteq PCs /\ "wait" \notin Inside  BY DEF Inside, Body, PCs
<1> QED  BY <1>1, KeepsPlace

(* Between two places away from the gate. *)
LEMMA MovesAway ==
  ASSUME TypeOK, GateBalanced, NEW r \in Runs, UNCHANGED gateVars,
         pc[r] \in Away, \E p \in Away : Goto(r, p)
  PROVE  GateBalanced'
<1>1. /\ Away \subseteq PCs /\ "wait" \notin Away
      /\ \A p \in Away : p \notin Inside
  BY DEF Away, Inside, Body, PCs
<1> QED  BY <1>1, KeepsPlace

(* Both ways to end a run return what it has. *)
LEMMA EndsInGate ==
  ASSUME TypeOK, GateBalanced, NEW r \in Runs, End(r) \/ Lose(r)
  PROVE  GateBalanced'
<1>1. {"idle", "lost"} \subseteq PCs \ (Inside \cup {"wait"})
  BY DEF PCs, Inside, Body
<1>2. CASE End(r)  BY <1>1, <1>2, GivesUp DEF End, Goto
<1>3. CASE Lose(r)  BY <1>1, <1>3, GivesUp DEF Lose
<1> QED  BY <1>2, <1>3

(* At first nobody is in the gate. *)
LEMMA GateInit == Init => GateBalanced
<1> SUFFICES ASSUME Init PROVE GateBalanced
  OBVIOUS
<1>1. "idle" \notin Inside  BY DEF Inside, Body
<1>2. {r \in Runs : pc[r] \in Inside} = {} /\ {r \in Runs : pc[r] = "wait"} = {}
  BY <1>1 DEF Init
<1>3. Cardinality(holders) = 0  BY FS_EmptySet DEF Init
<1> QED  BY <1>2, <1>3, LimitPositive DEF Init, GateBalanced

(* GateBalanced is inductive relative to TypeOK: one step per action. *)
LEMMA GateStep == TypeOK /\ GateBalanced /\ [Next]_vars => GateBalanced'
<1> SUFFICES ASSUME TypeOK, GateBalanced, [Next]_vars PROVE GateBalanced'
  OBVIOUS
<1>t. /\ job \in [Runs -> Jobs] /\ stage \in [Runs -> Stages] /\ pc \in [Runs -> PCs]
      /\ holders \cap waiting = {}
  BY DEF TypeOK, GateBalanced, Inside, Body
<1>1. ASSUME NEW r \in Runs, Request(r) PROVE GateBalanced'
  <2>1. pc[r] = "idle" /\ UNCHANGED gateVars /\ Goto(r, "arrive")
    BY <1>1 DEF Request, Submit, Retry
  <2> QED  BY <2>1, MovesAway DEF Away
<1>2. ASSUME NEW r \in Runs, Arrive(r) PROVE GateBalanced'
  <2>1. CASE Gate!Free /\ Gate!Arrive(r) /\ Goto(r, "enter")
    <3>1. pc[r] \notin Inside  BY <1>2 DEF Arrive, Inside, Body
    <3>2. holders' = holders \cup {r} /\ waiting' = waiting \ {r}
      BY <2>1 DEF Gate!Arrive
    <3> QED  BY <2>1, <3>1, <3>2, TakesSlot
  <2>2. CASE Goto(r, "mark") /\ UNCHANGED gateVars
    BY <1>2, <2>2, MovesAway DEF Arrive, Away
  <2> QED  BY <1>2, <2>1, <2>2 DEF Arrive
<1>3. ASSUME NEW r \in Runs, MarkQueued(r) PROVE GateBalanced'
  BY <1>3, MovesAway DEF MarkQueued, Away
<1>4. ASSUME NEW r \in Runs, Ask(r) PROVE GateBalanced'
  <2>1. pc[r] \notin Inside /\ Gate!Arrive(r)  BY <1>4 DEF Ask, Inside, Body
  <2>2. CASE Gate!Free
    <3>1. holders' = holders \cup {r} /\ waiting' = waiting \ {r}
      BY <2>1, <2>2 DEF Gate!Arrive
    <3> QED  BY <1>4, <2>1, <2>2, <3>1, TakesSlot DEF Ask
  <2>3. CASE ~Gate!Free
    <3>1. holders' = holders /\ waiting' = waiting \cup {r}
      BY <2>1, <2>3 DEF Gate!Arrive
    <3> QED  BY <1>4, <2>1, <2>3, <3>1, QueuesUp DEF Ask
  <2> QED  BY <2>2, <2>3
<1>5. ASSUME NEW r \in Runs, Admit(r) PROVE GateBalanced'
  <2>1. pc[r] \notin Inside  BY <1>5 DEF Admit, Inside, Body
  <2>2. Gate!Free /\ holders' = holders \cup {r} /\ waiting' = waiting \ {r}
    BY <1>5 DEF Admit, Gate!Grant
  <2> QED  BY <1>5, <2>1, <2>2, TakesSlot DEF Admit
<1>6. ASSUME NEW r \in Runs, Enter(r) PROVE GateBalanced'
  <2>1. pc[r] \in Inside /\ UNCHANGED gateVars
    BY <1>6 DEF Enter, Inside, Body
  <2>2. \E p \in Inside : Goto(r, p)
    BY <1>6 DEF Enter, Inside, Body
  <2> QED  BY <2>1, <2>2, MovesInside
<1>7. ASSUME NEW r \in Runs, Clean(r) PROVE GateBalanced'
  <2>1. pc[r] \in Inside /\ UNCHANGED gateVars
    BY <1>7 DEF Clean, Inside, Body
  <2>2. \E p \in Inside : Goto(r, p)
    BY <1>7 DEF Clean, Inside, Body
  <2> QED  BY <2>1, <2>2, MovesInside
<1>8. ASSUME NEW r \in Runs, Load(r) PROVE GateBalanced'
  <2>1. pc[r] \in Inside /\ UNCHANGED gateVars
    BY <1>8 DEF Load, Inside, Body
  <2>2. \E p \in Inside : Goto(r, p)
    BY <1>8 DEF Load, Inside, Body
  <2> QED  BY <2>1, <2>2, MovesInside
<1>9. ASSUME NEW r \in Runs, Begin(r) PROVE GateBalanced'
  <2>1. pc[r] \in Inside /\ UNCHANGED gateVars
    BY <1>9 DEF Begin, Inside, Body
  <2>2. \E p \in Inside : Goto(r, p)
    BY <1>9 DEF Begin, Inside, Body
  <2> QED  BY <2>1, <2>2, MovesInside
<1>10. ASSUME NEW r \in Runs, Save(r) PROVE GateBalanced'
  <2>1. pc[r] \in Inside /\ UNCHANGED gateVars
    BY <1>10 DEF Save, Inside, Body
  <2>2. \E p \in Inside : Goto(r, p)
    BY <1>10 DEF Save, Inside, Body
  <2> QED  BY <2>1, <2>2, MovesInside
<1>11. ASSUME NEW r \in Runs, Embed(r) PROVE GateBalanced'
  <2>1. pc[r] \in Inside /\ UNCHANGED gateVars
    BY <1>11 DEF Embed, Inside, Body
  <2>2. \E p \in Inside : Goto(r, p)
    BY <1>11 DEF Embed, Inside, Body
  <2> QED  BY <2>1, <2>2, MovesInside
<1>12. ASSUME NEW r \in Runs, StoreSome(r) PROVE GateBalanced'
  <2>1. pc[r] \in Inside /\ UNCHANGED gateVars
    BY <1>12 DEF StoreSome, Inside, Body
  <2>2. \E p \in Inside : Goto(r, p)
    BY <1>12 DEF StoreSome, Inside, Body
  <2> QED  BY <2>1, <2>2, MovesInside
<1>13. ASSUME NEW r \in Runs, ExtractRest(r) PROVE GateBalanced'
  <2>1. pc[r] \in Inside /\ UNCHANGED gateVars
    BY <1>13 DEF ExtractRest, Inside, Body
  <2>2. \E p \in Inside : Goto(r, p)
    BY <1>13 DEF ExtractRest, Inside, Body
  <2> QED  BY <2>1, <2>2, MovesInside
<1>14. ASSUME NEW r \in Runs, AnalyzeRest(r) PROVE GateBalanced'
  <2>1. pc[r] \in Inside /\ UNCHANGED gateVars
    BY <1>14 DEF AnalyzeRest, Inside, Body
  <2>2. \E p \in Inside : Goto(r, p)
    BY <1>14 DEF AnalyzeRest, Inside, Body
  <2> QED  BY <2>1, <2>2, MovesInside
<1>15. ASSUME NEW r \in Runs, Seal(r) PROVE GateBalanced'
  <2>1. pc[r] \in Inside /\ UNCHANGED gateVars
    BY <1>15 DEF Seal, Inside, Body
  <2>2. \E p \in Inside : Goto(r, p)
    BY <1>15 DEF Seal, Inside, Body
  <2> QED  BY <2>1, <2>2, MovesInside
<1>16. ASSUME NEW r \in Runs, InnerMark(r) PROVE GateBalanced'
  <2>1. pc[r] \in Inside /\ UNCHANGED gateVars
    BY <1>16 DEF InnerMark, Inside, Body
  <2>2. \E p \in Inside : Goto(r, p)
    BY <1>16 DEF InnerMark, Inside, Body
  <2> QED  BY <2>1, <2>2, MovesInside
<1>17. ASSUME NEW r \in Runs, OuterMark(r) PROVE GateBalanced'
  <2>1. CASE Goto(r, "leave") /\ UNCHANGED gateVars
    BY <1>17, <2>1, MovesInside DEF OuterMark, Inside, Body
  <2> QED  BY <1>17, <2>1, EndsInGate DEF OuterMark
<1>18. ASSUME NEW r \in Runs, Leave(r) \/ UnstartedMark(r) \/ Close(r) PROVE GateBalanced'
  BY <1>18, EndsInGate DEF Leave, UnstartedMark, Close
<1>19. ASSUME NEW r \in Runs, Cancel(r) PROVE GateBalanced'
  <2>1. CASE LeaveGate(r) /\ \E p \in {"unstarted", "lost"} : Goto(r, p)
    BY <2>1, GivesUp DEF PCs, Inside, Body
  <2>2. CASE pc[r] \in Body /\ Goto(r, "outer") /\ UNCHANGED gateVars
    BY <2>2, MovesInside DEF Inside, Body
  <2>3. CASE Lose(r)  BY <2>3, EndsInGate
  <2> QED  BY <1>19, <2>1, <2>2, <2>3 DEF Cancel
<1>20. ASSUME UNCHANGED <<pc, gateVars>> PROVE GateBalanced'
  BY <1>20 DEF GateBalanced, gateVars
<1>21. ASSUME NEW f \in Files, Delete(f) \/ Sweep(f) PROVE GateBalanced'
  BY <1>21, <1>20 DEF Delete, Sweep, runVars
<1>22. ASSUME Crash PROVE GateBalanced'
  <2>1. "idle" \notin Inside  BY DEF Inside, Body
  <2>2. /\ {r \in Runs : pc'[r] \in Inside} = {}
        /\ {r \in Runs : pc'[r] = "wait"} = {}
    BY <1>22, <2>1 DEF Crash
  <2>3. holders' = {} /\ waiting' = {}  BY <1>22 DEF Crash
  <2>4. Cardinality(holders') <= Limit  BY <2>3, FS_EmptySet, LimitPositive
  <2> QED  BY <2>2, <2>3, <2>4 DEF GateBalanced
<1>23. ASSUME Recover \/ CleanUp PROVE GateBalanced'
  BY <1>23, <1>20 DEF Recover, CleanUp, runVars
<1>24. ASSUME UNCHANGED vars PROVE GateBalanced'
  BY <1>24, <1>20 DEF vars, runVars
<1> QED
  BY <1>1, <1>2, <1>3, <1>4, <1>5, <1>6, <1>7, <1>8, <1>9, <1>10, <1>11, <1>12,
     <1>13, <1>14, <1>15, <1>16, <1>17, <1>18, <1>19, <1>20, <1>21, <1>22, <1>23, <1>24
  DEF Next, RunStep

(* No path through pipeline_slot, no failure, no cancellation, no closed    *)
(* stream and no restart leaks a slot of global_pipeline or returns one     *)
(* twice, and never more than the configured number of runs is inside.      *)
THEOREM PipelineGateBalanced == Spec => []GateBalanced
BY GateInit, GateStep, PipelineTypeOK, PTL DEF Spec
-----------------------------------------------------------------------------
(* Files shown in process.                                                  *)

(* A run that has yet to write the final status of its file. *)
Owing(r) == pc[r] \notin {"idle", "notify", "leave"}

(* The process starts with no run, and its recovery leaves no file in       *)
(* process.                                                                 *)
Restart ==
  /\ phase # "up" => \A r \in Runs : pc[r] = "idle"
  /\ phase = "recovered" => \A f \in Files : progress[f] \notin Processing

Accounted == Restart /\ ProcessingHasRun

(* What a step of one run must do for every file in process to stay         *)
(* accounted for: keep owing, or settle the status of its file, or have     *)
(* owed nothing.                                                            *)
LEMMA RunKeeps ==
  ASSUME TypeOK, Accounted, NEW r \in Runs, pc[r] # "idle", UNCHANGED phase,
         \A q \in Runs \ {r} : job'[q] = job[q] /\ pc'[q] = pc[q],
         \A g \in Files \ {FileOf(r)} : progress'[g] = progress[g],
         \/ Owing(r)' /\ job'[r] = job[r]
         \/ progress'[FileOf(r)] \notin Processing
         \/ ~Owing(r) /\ UNCHANGED progress
  PROVE  Accounted'
<1>1. phase = "up" /\ phase' = "up"  BY DEF Accounted, Restart, TypeOK
<1>2. ASSUME NEW f \in Files, progress'[f] \in Processing
      PROVE  \E q \in Runs : FileOf(q)' = f /\ Owing(q)'
  <2>1. CASE FileOf(r) = f /\ Owing(r)' /\ job'[r] = job[r]
    BY <2>1 DEF FileOf
  <2>2. CASE FileOf(r) # f \/ (~Owing(r) /\ UNCHANGED progress)
    <3>1. progress[f] \in Processing  BY <1>2, <2>2
    <3>2. PICK q \in Runs : FileOf(q) = f /\ Owing(q)
      BY <1>1, <3>1 DEF Accounted, ProcessingHasRun, Owing
    <3>3. CASE q # r
      BY <3>2, <3>3 DEF FileOf, Owing
    <3>4. CASE q = r  BY <2>2, <3>2, <3>4
    <3> QED  BY <3>3, <3>4
  <2> QED  BY <1>2, <2>1, <2>2
<1> QED  BY <1>1, <1>2 DEF Accounted, Restart, ProcessingHasRun, Owing

(* The statuses that settle a file. *)
LEMMA PutSettles ==
  ASSUME TypeOK, NEW f \in Files, NEW v \in Statuses \ Processing
  PROVE  Put(f, v)[f] \notin Processing
<1>1. Put(f, v)[f] \in {v, "deleted"}  BY PutResult DEF TypeOK
<1>2. "deleted" \notin Processing  BY DEF Processing, Stages, RetryStages
<1> QED  BY <1>1, <1>2

(* At first no file is in process. *)
LEMMA AccountedInit == Init => Accounted
BY DEF Init, Accounted, Restart, ProcessingHasRun, Processing, Stages, RetryStages

(* The steps that end, or go on, with the outcome on record. *)
LEMMA Settles ==
  ASSUME TypeOK, Accounted, NEW r \in Runs, pc[r] # "idle", UNCHANGED phase,
         NEW v \in Statuses \ Processing, progress' = Put(FileOf(r), v),
         (UNCHANGED job /\ \E p \in PCs : Goto(r, p)) \/ End(r)
  PROVE  Accounted'
<1>1. FileOf(r) \in Files  BY DEF TypeOK, Jobs, FileOf
<1>2. \A q \in Runs \ {r} : job'[q] = job[q] /\ pc'[q] = pc[q]
  BY DEF TypeOK, Goto, End
<1>3. \A g \in Files \ {FileOf(r)} : progress'[g] = progress[g]
  BY <1>1, PutResult DEF TypeOK
<1>4. progress'[FileOf(r)] \notin Processing
  BY <1>1, PutSettles
<1> QED  BY <1>2, <1>3, <1>4, RunKeeps

(* The steps after which the run still owes the final status. *)
LEMMA StaysOwing ==
  ASSUME TypeOK, Accounted, NEW r \in Runs, pc[r] # "idle", UNCHANGED <<job, phase>>,
         \E p \in PCs \ {"idle", "notify", "leave"} : Goto(r, p),
         UNCHANGED progress \/ \E v \in Statuses : progress' = Put(FileOf(r), v)
  PROVE  Accounted'
<1>1. FileOf(r) \in Files  BY DEF TypeOK, Jobs, FileOf
<1>2. \A q \in Runs \ {r} : job'[q] = job[q] /\ pc'[q] = pc[q]
  BY DEF TypeOK, Goto
<1>3. \A g \in Files \ {FileOf(r)} : progress'[g] = progress[g]
  BY <1>1, PutResult DEF TypeOK
<1>4. Owing(r)' /\ job'[r] = job[r]
  BY DEF TypeOK, Goto, Owing
<1> QED  BY <1>2, <1>3, <1>4, RunKeeps

(* A run that is lost still owes the final status. *)
LEMMA LosesOwing ==
  ASSUME TypeOK, Accounted, NEW r \in Runs, pc[r] # "idle", UNCHANGED <<progress, phase>>,
         Lose(r)
  PROVE  Accounted'
BY StaysOwing DEF Lose, PCs

(* Accounted is inductive relative to TypeOK: one step per action. *)
LEMMA AccountedStep == TypeOK /\ Accounted /\ [Next]_vars => Accounted'
<1> SUFFICES ASSUME TypeOK, Accounted, [Next]_vars PROVE Accounted'
  OBVIOUS
<1> USE DEF fileVars, procVars
<1>t. /\ job \in [Runs -> Jobs] /\ stage \in [Runs -> Stages] /\ pc \in [Runs -> PCs]
      /\ progress \in [Files -> Statuses]
  BY DEF TypeOK
<1>p. "queued" \in Statuses /\ \A s \in Stages : s \in Statuses
  BY DEF Statuses
<1>f. \A s \in Stages : Failed[s] \in Statuses \ Processing
  BY FailedIsFinal
<1>c. "complete" \in Statuses \ Processing
  BY DEF Statuses, Processing, Stages, RetryStages
<1>1. ASSUME NEW r \in Runs, Request(r) PROVE Accounted'
  <2>0. PICK f \in Files : (\E m \in Modes : Submit(r, f, m))
                           \/ (UNCHANGED progress /\ \E m \in Modes, s \in RetryStages : Retry(r, f, s, m))
    BY <1>1 DEF Request, Retry
  <2>1. /\ pc[r] = "idle" /\ phase = "up" /\ UNCHANGED phase
        /\ \A q \in Runs \ {r} : job'[q] = job[q] /\ pc'[q] = pc[q]
    BY <2>0, <1>t DEF Submit, Retry, Goto
  <2>2. ASSUME NEW g \in Files, progress'[g] \in Processing, progress'[g] = progress[g]
        PROVE  \E q \in Runs : FileOf(q)' = g /\ Owing(q)'
    <3>1. PICK q \in Runs : FileOf(q) = g /\ Owing(q)
      BY <2>1, <2>2 DEF Accounted, ProcessingHasRun, Owing
    <3>2. q # r  BY <3>1, <2>1 DEF Owing
    <3> QED  BY <3>1, <3>2, <2>1 DEF FileOf, Owing
  <2>3. ASSUME NEW g \in Files, progress'[g] # progress[g]
        PROVE  \E q \in Runs : FileOf(q)' = g /\ Owing(q)'
    <3>1. PICK m \in Modes : Submit(r, f, m)  BY <2>0, <2>3
    <3>2. g = f  BY <3>1, <2>3, <1>t DEF Submit
    <3>3. FileOf(r)' = f /\ pc'[r] = "arrive"
      BY <3>1, <1>t DEF Submit, Goto, FileOf
    <3> QED  BY <3>2, <3>3 DEF Owing
  <2>4. ProcessingHasRun'  BY <2>2, <2>3 DEF ProcessingHasRun, Owing
  <2> QED  BY <2>1, <2>4 DEF Accounted, Restart
<1>2. ASSUME NEW r \in Runs, Arrive(r) PROVE Accounted'
  <2>1. pc[r] # "idle" /\ UNCHANGED <<job, phase>>
    BY <1>2 DEF Arrive
  <2>2. \E p \in PCs \ {"idle", "notify", "leave"} : Goto(r, p)
    BY <1>2 DEF Arrive, PCs
  <2>3. UNCHANGED progress  BY <1>2 DEF Arrive
  <2> QED  BY <2>1, <2>2, <2>3, StaysOwing
<1>3. ASSUME NEW r \in Runs, MarkQueued(r) PROVE Accounted'
  <2>1. pc[r] # "idle" /\ UNCHANGED <<job, phase>>
    BY <1>3 DEF MarkQueued
  <2>2. \E p \in PCs \ {"idle", "notify", "leave"} : Goto(r, p)
    BY <1>3 DEF MarkQueued, PCs
  <2>3. UNCHANGED progress \/ \E v \in Statuses : progress' = Put(FileOf(r), v)
    BY <1>3, <1>t, <1>p, <1>f DEF MarkQueued
  <2> QED  BY <2>1, <2>2, <2>3, StaysOwing
<1>4. ASSUME NEW r \in Runs, Ask(r) PROVE Accounted'
  <2>1. pc[r] # "idle" /\ UNCHANGED <<job, phase>>
    BY <1>4 DEF Ask
  <2>2. \E p \in PCs \ {"idle", "notify", "leave"} : Goto(r, p)
    BY <1>4 DEF Ask, PCs
  <2>3. UNCHANGED progress  BY <1>4 DEF Ask
  <2> QED  BY <2>1, <2>2, <2>3, StaysOwing
<1>5. ASSUME NEW r \in Runs, Admit(r) PROVE Accounted'
  <2>1. pc[r] # "idle" /\ UNCHANGED <<job, phase>>
    BY <1>5 DEF Admit
  <2>2. \E p \in PCs \ {"idle", "notify", "leave"} : Goto(r, p)
    BY <1>5 DEF Admit, PCs
  <2>3. UNCHANGED progress  BY <1>5 DEF Admit
  <2> QED  BY <2>1, <2>2, <2>3, StaysOwing
<1>6. ASSUME NEW r \in Runs, Enter(r) PROVE Accounted'
  <2>1. pc[r] # "idle" /\ UNCHANGED <<job, phase>>
    BY <1>6 DEF Enter
  <2>2. \E p \in PCs \ {"idle", "notify", "leave"} : Goto(r, p)
    BY <1>6 DEF Enter, PCs
  <2>3. UNCHANGED progress  BY <1>6 DEF Enter
  <2> QED  BY <2>1, <2>2, <2>3, StaysOwing
<1>7. ASSUME NEW r \in Runs, Clean(r) PROVE Accounted'
  <2>1. pc[r] # "idle" /\ UNCHANGED <<job, phase>>
    BY <1>7 DEF Clean
  <2>2. \E p \in PCs \ {"idle", "notify", "leave"} : Goto(r, p)
    BY <1>7 DEF Clean, PCs
  <2>3. UNCHANGED progress  BY <1>7 DEF Clean
  <2> QED  BY <2>1, <2>2, <2>3, StaysOwing
<1>8. ASSUME NEW r \in Runs, Load(r) PROVE Accounted'
  <2>1. pc[r] # "idle" /\ UNCHANGED <<job, phase>>
    BY <1>8 DEF Load
  <2>2. \E p \in PCs \ {"idle", "notify", "leave"} : Goto(r, p)
    BY <1>8 DEF Load, PCs
  <2>3. UNCHANGED progress  BY <1>8 DEF Load
  <2> QED  BY <2>1, <2>2, <2>3, StaysOwing
<1>9. ASSUME NEW r \in Runs, Begin(r) PROVE Accounted'
  <2>1. pc[r] # "idle" /\ UNCHANGED <<job, phase>>
    BY <1>9 DEF Begin
  <2>2. \E p \in PCs \ {"idle", "notify", "leave"} : Goto(r, p)
    BY <1>9 DEF Begin, PCs
  <2>3. UNCHANGED progress \/ \E v \in Statuses : progress' = Put(FileOf(r), v)
    <3> DEFINE s == IF pc[r] = "begin" THEN stage[r] ELSE Succ[stage[r]]
    <3>1. s \in Statuses  BY <1>t, <1>p, TableTypes
    <3>2. UNCHANGED progress \/ progress' = Put(FileOf(r), s)
      BY <1>9 DEF Begin
    <3> QED  BY <3>1, <3>2
  <2> QED  BY <2>1, <2>2, <2>3, StaysOwing
<1>10. ASSUME NEW r \in Runs, Save(r) PROVE Accounted'
  <2>1. pc[r] # "idle" /\ UNCHANGED <<job, phase>>
    BY <1>10 DEF Save
  <2>2. \E p \in PCs \ {"idle", "notify", "leave"} : Goto(r, p)
    BY <1>10 DEF Save, PCs
  <2>3. UNCHANGED progress  BY <1>10 DEF Save
  <2> QED  BY <2>1, <2>2, <2>3, StaysOwing
<1>11. ASSUME NEW r \in Runs, Embed(r) PROVE Accounted'
  <2>1. pc[r] # "idle" /\ UNCHANGED <<job, phase>>
    BY <1>11 DEF Embed
  <2>2. \E p \in PCs \ {"idle", "notify", "leave"} : Goto(r, p)
    BY <1>11 DEF Embed, PCs
  <2>3. UNCHANGED progress  BY <1>11 DEF Embed
  <2> QED  BY <2>1, <2>2, <2>3, StaysOwing
<1>12. ASSUME NEW r \in Runs, StoreSome(r) PROVE Accounted'
  <2>1. pc[r] # "idle" /\ UNCHANGED <<job, phase>>
    BY <1>12 DEF StoreSome
  <2>2. \E p \in PCs \ {"idle", "notify", "leave"} : Goto(r, p)
    BY <1>12 DEF StoreSome, PCs
  <2>3. UNCHANGED progress  BY <1>12 DEF StoreSome
  <2> QED  BY <2>1, <2>2, <2>3, StaysOwing
<1>13. ASSUME NEW r \in Runs, ExtractRest(r) PROVE Accounted'
  <2>1. pc[r] # "idle" /\ UNCHANGED <<job, phase>>
    BY <1>13 DEF ExtractRest
  <2>2. \E p \in PCs \ {"idle", "notify", "leave"} : Goto(r, p)
    BY <1>13 DEF ExtractRest, PCs
  <2>3. UNCHANGED progress  BY <1>13 DEF ExtractRest
  <2> QED  BY <2>1, <2>2, <2>3, StaysOwing
<1>14. ASSUME NEW r \in Runs, InnerMark(r) PROVE Accounted'
  <2>1. pc[r] # "idle" /\ UNCHANGED <<job, phase>>
    BY <1>14 DEF InnerMark
  <2>2. \E p \in PCs \ {"idle", "notify", "leave"} : Goto(r, p)
    BY <1>14 DEF InnerMark, PCs
  <2>3. UNCHANGED progress \/ \E v \in Statuses : progress' = Put(FileOf(r), v)
    BY <1>14, <1>t, <1>p, <1>f DEF InnerMark
  <2> QED  BY <2>1, <2>2, <2>3, StaysOwing
<1>15. ASSUME NEW r \in Runs, AnalyzeRest(r) PROVE Accounted'
  <2>1. pc[r] # "idle" /\ UNCHANGED <<job, phase>>
    BY <1>15 DEF AnalyzeRest
  <2>2. CASE progress' = Put(FileOf(r), "complete") /\ Goto(r, "seal")
    BY <2>1, <2>2, <1>c, Settles DEF PCs
  <2>3. CASE UNCHANGED progress /\ Goto(r, "inner")
    BY <2>1, <2>3, StaysOwing DEF PCs
  <2> QED  BY <1>15, <2>2, <2>3 DEF AnalyzeRest
<1>16. ASSUME NEW r \in Runs, Seal(r) PROVE Accounted'
  <2>1. pc[r] # "idle" /\ UNCHANGED <<job, phase>>
    BY <1>16 DEF Seal
  <2>2. CASE progress' = Put(FileOf(r), "complete") /\ Goto(r, "notify")
    BY <2>1, <2>2, <1>c, Settles DEF PCs
  <2>3. CASE UNCHANGED progress /\ Goto(r, "inner")
    BY <2>1, <2>3, StaysOwing DEF PCs
  <2> QED  BY <1>16, <2>2, <2>3 DEF Seal
<1>17. ASSUME NEW r \in Runs, OuterMark(r) PROVE Accounted'
  <2>1. pc[r] # "idle" /\ UNCHANGED phase
    BY <1>17 DEF OuterMark
  <2>2. CASE /\ progress' = Put(FileOf(r), Failed[stage[r]])
             /\ Goto(r, "leave") /\ UNCHANGED job
    BY <2>1, <2>2, <1>t, <1>f, Settles DEF PCs
  <2>3. CASE UNCHANGED progress /\ Lose(r)
    BY <2>1, <2>3, LosesOwing
  <2> QED  BY <1>17, <2>2, <2>3 DEF OuterMark
<1>18. ASSUME NEW r \in Runs, UnstartedMark(r) PROVE Accounted'
  <2>1. pc[r] # "idle" /\ UNCHANGED phase
    BY <1>18 DEF UnstartedMark
  <2>2. CASE progress' = Put(FileOf(r), Failed[stage[r]]) /\ End(r)
    BY <2>1, <2>2, <1>t, <1>f, Settles
  <2>3. CASE UNCHANGED progress /\ Lose(r)
    BY <2>1, <2>3, LosesOwing
  <2> QED  BY <1>18, <2>2, <2>3 DEF UnstartedMark
<1>19. ASSUME NEW r \in Runs, Leave(r) PROVE Accounted'
  <2>1. pc[r] # "idle" /\ ~Owing(r) /\ UNCHANGED <<progress, phase>>
    BY <1>19 DEF Leave, Owing
  <2>2. \A q \in Runs \ {r} : job'[q] = job[q] /\ pc'[q] = pc[q]
    BY <1>19, <1>t DEF Leave, End
  <2> QED  BY <2>1, <2>2, RunKeeps
<1>20. ASSUME NEW r \in Runs, Cancel(r) PROVE Accounted'
  <2>1. pc[r] # "idle" /\ UNCHANGED <<progress, phase>>
    BY <1>20 DEF Cancel, Body
  <2>2. CASE Goto(r, IF HandlesEarlyEnd(r) THEN "unstarted" ELSE "lost") /\ UNCHANGED job
    BY <2>1, <2>2, StaysOwing DEF PCs
  <2>3. CASE Goto(r, "outer") /\ UNCHANGED job
    BY <2>1, <2>3, StaysOwing DEF PCs
  <2>4. CASE Lose(r)  BY <2>1, <2>4, LosesOwing
  <2> QED  BY <1>20, <2>2, <2>3, <2>4 DEF Cancel
<1>21. ASSUME NEW r \in Runs, Close(r) PROVE Accounted'
  BY <1>21, LosesOwing DEF Close
<1>22. ASSUME NEW f \in Files, Delete(f) PROVE Accounted'
  <2>1. phase = "up" /\ UNCHANGED <<job, pc, phase>>
    BY <1>22 DEF Delete, runVars
  <2>2. progress' = [progress EXCEPT ![f] = "deleted"] /\ "deleted" \notin Processing
    BY <1>22 DEF Delete, Processing, Stages, RetryStages
  <2>3. \A g \in Files : progress'[g] \in Processing => progress[g] \in Processing
    BY <2>2, <1>t
  <2> QED  BY <2>1, <2>3 DEF Accounted, Restart, ProcessingHasRun, FileOf
<1>23. ASSUME UNCHANGED <<progress, job, pc, phase>> PROVE Accounted'
  BY <1>23 DEF Accounted, Restart, ProcessingHasRun, FileOf
<1>24. ASSUME NEW f \in Files, Sweep(f) PROVE Accounted'
  BY <1>24, <1>23 DEF Sweep, runVars
<1>25. ASSUME Crash PROVE Accounted'
  BY <1>25 DEF Crash, Accounted, Restart, ProcessingHasRun
<1>26. ASSUME Recover PROVE Accounted'
  <2>1. phase' = "recovered" /\ \A r \in Runs : pc'[r] = "idle"
    BY <1>26 DEF Recover, runVars, Accounted, Restart
  <2>2. ASSUME NEW f \in Files PROVE progress'[f] \notin Processing
    <3>1. "parsing_failed" \notin Processing
      BY DEF Processing, Stages, RetryStages
    <3>2. CASE progress[f] = "queued"  BY <1>26, <3>1, <3>2 DEF Recover, Stages, RetryStages
    <3>3. CASE progress[f] \in Stages
      <4>1. progress[f] # "queued"  BY <3>3 DEF Stages, RetryStages
      <4>2. progress'[f] = Failed[progress[f]]  BY <1>26, <3>3, <4>1 DEF Recover
      <4> QED  BY <3>3, <4>2, <1>f
    <3>4. CASE progress[f] \notin Processing
      BY <1>26, <3>4 DEF Recover, Processing
    <3> QED  BY <3>2, <3>3, <3>4 DEF Processing
  <2> QED  BY <2>1, <2>2 DEF Accounted, Restart, ProcessingHasRun
<1>27. ASSUME CleanUp PROVE Accounted'
  <2>1. /\ phase = "recovered" /\ phase' \in {"up", "down"}
        /\ UNCHANGED <<progress, job, pc>>
    BY <1>27 DEF CleanUp, runVars
  <2>2. \A f \in Files : progress[f] \notin Processing
    BY <2>1 DEF Accounted, Restart
  <2> QED  BY <2>1, <2>2 DEF Accounted, Restart, ProcessingHasRun
<1>28. ASSUME UNCHANGED vars PROVE Accounted'
  BY <1>28, <1>23 DEF vars, runVars
<1> QED
  BY <1>1, <1>2, <1>3, <1>4, <1>5, <1>6, <1>7, <1>8, <1>9, <1>10, <1>11,
     <1>12, <1>13, <1>14, <1>15, <1>16, <1>17, <1>18, <1>19, <1>20,
     <1>21, <1>22, <1>23, <1>24, <1>25, <1>26, <1>27, <1>28
  DEF Next, RunStep

(* After any interleaving of requests on any number of files, any failures, *)
(* cancellations, deletions and restarts, a file that the service shows as  *)
(* queued or in a stage is in the hands of a run that has yet to write its  *)
(* final status, or of one that the code let go without writing it.         *)
THEOREM PipelineProcessingHasRun == Spec => []ProcessingHasRun
<1>1. Spec => []Accounted
  BY AccountedInit, AccountedStep, PipelineTypeOK, PTL DEF Spec
<1>2. Accounted => ProcessingHasRun  BY DEF Accounted
<1> QED  BY <1>1, <1>2, PTL

-----------------------------------------------------------------------------
(***************************************************************************)
(* What FilePipeline stores: that a stage never finds what it would collide *)
(* with, that a complete file has everything its document yields and a      *)
(* failed one all that its retry needs, and that a deleted file leaves      *)
(* nothing.                                                                 *)
(*                                                                         *)
(* All of it is about clients that wait for a file's run to end before they *)
(* ask for another one (Polite) and, from CompleteIsWhole on, that retry    *)
(* nothing but the stage that failed (Careful).  The argument has three     *)
(* layers, each inductive relative to those before it: a file has one run   *)
(* at a time (Alone); what the run is about to store is not there yet       *)
(* (Vacancy); the status, the run and the store agree (Agreement).          *)
(***************************************************************************)

-----------------------------------------------------------------------------
(* The tables.                                                              *)

(* What a stage and the later ones store, in each case. *)
LEMMA AheadCases ==
  /\ Ahead("parsing") = {"content", "tables", "chunks", "vectors", "extraction", "analysis"}
  /\ Ahead("tableing") = {"tables", "chunks", "vectors", "extraction", "analysis"}
  /\ Ahead("chunking") = {"chunks", "vectors", "extraction", "analysis"}
  /\ Ahead("embedding") = {"vectors", "extraction", "analysis"}
  /\ Ahead("extracting") = {"extraction", "analysis"}
  /\ Ahead("analyzing") = {"analysis"}
<1>1. \A k \in 1..6 : k \in {1, 2, 3, 4, 5, 6}  OBVIOUS
<1>2. /\ StageOrder[1] = "parsing" /\ StageOrder[2] = "tableing"
      /\ StageOrder[3] = "chunking" /\ StageOrder[4] = "embedding"
      /\ StageOrder[5] = "extracting" /\ StageOrder[6] = "analyzing"
  BY DEF StageOrder
<1>3. /\ Product["parsing"] = "content" /\ Product["tableing"] = "tables"
      /\ Product["chunking"] = "chunks" /\ Product["embedding"] = "vectors"
      /\ Product["extracting"] = "extraction" /\ Product["analyzing"] = "analysis"
  BY DEF Product, Stages, RetryStages
<1> DEFINE From(s) == {k \in 1..6 : \E j \in 1..k : StageOrder[j] = s}
<1>4. /\ From("parsing") = {1, 2, 3, 4, 5, 6} /\ From("tableing") = {2, 3, 4, 5, 6}
      /\ From("chunking") = {3, 4, 5, 6} /\ From("embedding") = {4, 5, 6}
      /\ From("extracting") = {5, 6} /\ From("analyzing") = {6}
  BY <1>2
<1>5. \A s : Ahead(s) = {Product[StageOrder[i]] : i \in From(s)}
  BY DEF Ahead
<1> HIDE DEF From
<1> QED  BY <1>2, <1>3, <1>4, <1>5

(* How the tables fit together: a stage stores the first of what lies ahead *)
(* of it, a retry deletes all of that, and the clean-up at start-up no more.*)
LEMMA AheadFits ==
  /\ Ahead("parsing") = Artifacts
  /\ \A s \in Stages : Product[s] \in Ahead(s) /\ Ahead(s) \subseteq Artifacts
  /\ \A s \in Stages \ {"analyzing"} : Ahead(Succ[s]) = Ahead(s) \ {Product[s]}
  /\ \A s \in RetryStages : Downstream[s] = Ahead(s)
  /\ \A s \in Stages : Garbage[s] \subseteq Ahead(s)
<1>1. Ahead("parsing") = Artifacts  BY AheadCases DEF Artifacts
<1>2. \A s \in Stages : Product[s] \in Ahead(s) /\ Ahead(s) \subseteq Artifacts
  BY AheadCases DEF Product, Stages, RetryStages, Artifacts
<1>3. \A s \in Stages \ {"analyzing"} : Ahead(Succ[s]) = Ahead(s) \ {Product[s]}
  BY AheadCases DEF Product, Succ, Stages, RetryStages
<1>4. \A s \in RetryStages : Downstream[s] = Ahead(s)
  BY AheadCases DEF Downstream, RetryStages
<1>5. \A s \in Stages : Garbage[s] \subseteq Ahead(s)
  BY AheadCases DEF Garbage, Stages, RetryStages
<1> QED  BY <1>1, <1>2, <1>3, <1>4, <1>5

(* A failure status tells the stage that failed, and is none of the others. *)
LEMMA FailedTells ==
  /\ \A s \in Stages, t \in Stages : Failed[s] = Failed[t] => s = t
  /\ \A s \in Stages : Failed[s] \notin Stages \cup {"unused", "deleted", "queued", "complete"}
  /\ \A s \in Stages : s \notin {"unused", "deleted", "queued", "complete"}
  /\ Failed["parsing"] = "parsing_failed"
<1>1. \A s \in Stages, t \in Stages : Failed[s] = Failed[t] => s = t
  BY DEF Failed, Stages, RetryStages
<1>2. \A s \in Stages : Failed[s] \notin Stages \cup {"unused", "deleted", "queued", "complete"}
  BY DEF Failed, Stages, RetryStages
<1>3. \A s \in Stages : s \notin {"unused", "deleted", "queued", "complete"}
  BY DEF Stages, RetryStages
<1>4. Failed["parsing"] = "parsing_failed"  BY DEF Failed, Stages
<1> QED  BY <1>1, <1>2, <1>3, <1>4

-----------------------------------------------------------------------------
(* A step of a run.                                                         *)

(* A run at work on its file. *)
Active(r) == pc[r] \notin {"idle", "lost"}

(* What a step of run r leaves alone. *)
Local(r) ==
  LET f == FileOf(r)
  IN /\ Active(r)
     /\ UNCHANGED <<doc, sweeps, phase, world>>
     /\ \A q \in Runs \ {r} : job'[q] = job[q] /\ stage'[q] = stage[q] /\ pc'[q] = pc[q]
     /\ \A g \in Files \ {f} : progress'[g] = progress[g] /\ store'[g] = store[g]
     /\ progress'[f] = progress[f] \/ progress'[f] \notin {"unused", "deleted"}
     /\ Active(r)' => job'[r] = job[r]

(* Put writes one file's status, or nothing. *)
LEMMA PutLocal ==
  ASSUME TypeOK, NEW f \in Files, NEW v
  PROVE  /\ \A g \in Files \ {f} : Put(f, v)[g] = progress[g]
         /\ Put(f, v)[f] = progress[f] \/ Put(f, v)[f] = v
         /\ progress[f] # "deleted" => Put(f, v)[f] = v
BY DEF Put, TypeOK

(* Moving, ending and losing a run concern no other. *)
LEMMA OneRunMoves ==
  ASSUME TypeOK, NEW r \in Runs,
         \/ UNCHANGED job /\ (\E p : Goto(r, p))
              /\ (UNCHANGED stage \/ \E s : stage' = [stage EXCEPT ![r] = s])
         \/ End(r)
         \/ Lose(r)
  PROVE  /\ \A q \in Runs \ {r} : job'[q] = job[q] /\ stage'[q] = stage[q] /\ pc'[q] = pc[q]
         /\ Active(r)' => job'[r] = job[r]
<1>1. CASE UNCHANGED job /\ (\E p : Goto(r, p))
             /\ (UNCHANGED stage \/ \E s : stage' = [stage EXCEPT ![r] = s])
  BY <1>1 DEF TypeOK, Goto
<1>2. CASE End(r)
  BY <1>2 DEF TypeOK, End, Active
<1>3. CASE Lose(r)
  BY <1>3 DEF TypeOK, Lose, Goto
<1> QED  BY <1>1, <1>2, <1>3

(* Storing and deleting concern one file. *)
LEMMA OneFileStored ==
  ASSUME TypeOK, NEW f \in Files
  PROVE  \A g \in Files \ {f} :
           /\ \A a, l : Raise(f, a, l)[g] = store[g]
           /\ \A a : Grown(f, a)[g] = store[g]
           /\ \A S : Erase(f, S)[g] = store[g]
BY DEF Raise, Grown, Erase, TypeOK

(* Every step of a run, cancelled and closed ones included, is local. *)
LEMMA StepIsLocal ==
  ASSUME TypeOK, NEW r \in Runs, RunStep(r) \/ Cancel(r) \/ Close(r)
  PROVE  Local(r)
<1> DEFINE f == FileOf(r)
<1> USE DEF fileVars, procVars
<1>t. f \in Files /\ stage[r] \in Stages  BY DEF TypeOK, Jobs, FileOf
<1>p. \A s \in Stages : s \notin {"unused", "deleted"} /\ Failed[s] \notin {"unused", "deleted"}
  BY FailedTells
<1>s. Succ[stage[r]] \in Stages  BY <1>t, TableTypes
<1> DEFINE Alone1 == \A q \in Runs \ {r} : job'[q] = job[q] /\ stage'[q] = stage[q] /\ pc'[q] = pc[q]
           Keep == Active(r)' => job'[r] = job[r]
           Status == /\ \A g \in Files \ {f} : progress'[g] = progress[g]
                     /\ progress'[f] = progress[f] \/ progress'[f] \notin {"unused", "deleted"}
           Stored == \A g \in Files \ {f} : store'[g] = store[g]
<1>g. ASSUME Active(r), UNCHANGED <<doc, sweeps, phase, world>>, Alone1, Keep, Status, Stored
      PROVE  Local(r)
  BY <1>g DEF Local
<1>u. ASSUME UNCHANGED progress PROVE Status
  BY <1>u
<1>v. ASSUME NEW v \in (Stages \cup FailedStates \cup {"queued", "complete"}),
             progress' = Put(f, v)
      PROVE  Status
  <2>1. v \notin {"unused", "deleted"}
    BY <1>p DEF FailedStates
  <2> HIDE DEF f
  <2> QED  BY <1>v, <2>1, <1>t, PutLocal
<1>w. Failed[stage[r]] \in FailedStates  BY <1>t, TableTypes
<1>x. ASSUME UNCHANGED store PROVE Stored
  BY <1>x
<1> USE DEF Active, Body
<1>1. CASE Arrive(r)
  <2>1. Alone1 /\ Keep  BY <1>1, OneRunMoves DEF Arrive
  <2> QED  BY <1>1, <2>1, <1>g, <1>u, <1>x DEF Arrive
<1>2. CASE MarkQueued(r)
  <2>1. Alone1 /\ Keep  BY <1>2, OneRunMoves DEF MarkQueued
  <2>2. Status  BY <1>2, <1>u, <1>v DEF MarkQueued
  <2> QED  BY <1>2, <2>1, <2>2, <1>g, <1>x DEF MarkQueued
<1>3. CASE Ask(r)
  <2>1. Alone1 /\ Keep  BY <1>3, OneRunMoves DEF Ask
  <2> QED  BY <1>3, <2>1, <1>g, <1>u, <1>x DEF Ask
<1>4. CASE Admit(r)
  <2>1. Alone1 /\ Keep  BY <1>4, OneRunMoves DEF Admit
  <2> QED  BY <1>4, <2>1, <1>g, <1>u, <1>x DEF Admit
<1>5. CASE Enter(r)
  <2>1. Alone1 /\ Keep  BY <1>5, OneRunMoves DEF Enter
  <2> QED  BY <1>5, <2>1, <1>g, <1>u, <1>x DEF Enter
<1>6. CASE Clean(r)
  <2>1. Alone1 /\ Keep  BY <1>6, OneRunMoves DEF Clean
  <2>2. Stored  BY <1>6, <1>t, OneFileStored DEF Clean
  <2> QED  BY <1>6, <2>1, <2>2, <1>g, <1>u DEF Clean
<1>7. CASE Load(r)
  <2>1. Alone1 /\ Keep  BY <1>7, OneRunMoves DEF Load
  <2> QED  BY <1>7, <2>1, <1>g, <1>u, <1>x DEF Load
<1>8. CASE Begin(r)
  <2> DEFINE s == IF pc[r] = "begin" THEN stage[r] ELSE Succ[stage[r]]
  <2>1. Alone1 /\ Keep
    <3>1. UNCHANGED job /\ (\E p : Goto(r, p)) /\ stage' = [stage EXCEPT ![r] = s]
      BY <1>8 DEF Begin
    <3> QED  BY <3>1, OneRunMoves
  <2>2. Status
    <3>1. s \in Stages  BY <1>t, <1>s
    <3>2. UNCHANGED progress \/ progress' = Put(f, s)  BY <1>8 DEF Begin
    <3> QED  BY <3>1, <3>2, <1>u, <1>v
  <2> QED  BY <1>8, <2>1, <2>2, <1>g, <1>x DEF Begin
<1>9. CASE Save(r)
  <2>1. Alone1 /\ Keep  BY <1>9, OneRunMoves DEF Save
  <2>2. Stored  BY <1>9, <1>t, OneFileStored DEF Save
  <2> QED  BY <1>9, <2>1, <2>2, <1>g, <1>u DEF Save
<1>10. CASE Embed(r)
  <2>1. Alone1 /\ Keep  BY <1>10, OneRunMoves DEF Embed
  <2>2. Stored  BY <1>10, <1>t, OneFileStored DEF Embed
  <2> QED  BY <1>10, <2>1, <2>2, <1>g, <1>u DEF Embed
<1>11. CASE StoreSome(r)
  <2>1. Alone1 /\ Keep  BY <1>11, OneRunMoves DEF StoreSome
  <2>2. Stored  BY <1>11, <1>t, OneFileStored DEF StoreSome
  <2> QED  BY <1>11, <2>1, <2>2, <1>g, <1>u DEF StoreSome
<1>12. CASE ExtractRest(r)
  <2>1. Alone1 /\ Keep  BY <1>12, OneRunMoves DEF ExtractRest
  <2>2. Stored  BY <1>12, <1>t, OneFileStored DEF ExtractRest
  <2> QED  BY <1>12, <2>1, <2>2, <1>g, <1>u DEF ExtractRest
<1>13. CASE AnalyzeRest(r)
  <2>1. Alone1 /\ Keep  BY <1>13, OneRunMoves DEF AnalyzeRest
  <2>2. Stored  BY <1>13, <1>t, OneFileStored DEF AnalyzeRest
  <2>3. Status  BY <1>13, <1>u, <1>v DEF AnalyzeRest
  <2> QED  BY <1>13, <2>1, <2>2, <2>3, <1>g DEF AnalyzeRest
<1>14. CASE Seal(r)
  <2>1. Alone1 /\ Keep  BY <1>14, OneRunMoves DEF Seal
  <2>2. Status  BY <1>14, <1>u, <1>v DEF Seal
  <2> QED  BY <1>14, <2>1, <2>2, <1>g, <1>x DEF Seal
<1>15. CASE InnerMark(r)
  <2>1. Alone1 /\ Keep  BY <1>15, OneRunMoves DEF InnerMark
  <2>2. Status  BY <1>15, <1>u, <1>v, <1>w DEF InnerMark
  <2> QED  BY <1>15, <2>1, <2>2, <1>g, <1>x DEF InnerMark
<1>16. CASE OuterMark(r)
  <2>1. Alone1 /\ Keep  BY <1>16, OneRunMoves DEF OuterMark
  <2>2. Status  BY <1>16, <1>u, <1>v, <1>w DEF OuterMark
  <2> QED  BY <1>16, <2>1, <2>2, <1>g, <1>x DEF OuterMark
<1>17. CASE Leave(r)
  <2>1. Alone1 /\ Keep  BY <1>17, OneRunMoves DEF Leave
  <2> QED  BY <1>17, <2>1, <1>g, <1>u, <1>x DEF Leave
<1>18. CASE UnstartedMark(r)
  <2>1. Alone1 /\ Keep  BY <1>18, OneRunMoves DEF UnstartedMark
  <2>2. Status  BY <1>18, <1>u, <1>v, <1>w DEF UnstartedMark
  <2> QED  BY <1>18, <2>1, <2>2, <1>g, <1>x DEF UnstartedMark
<1>19. CASE Cancel(r)
  <2>1. Alone1 /\ Keep
    <3>1. \/ UNCHANGED job /\ (\E p : Goto(r, p))
               /\ (UNCHANGED stage \/ stage' = [stage EXCEPT ![r] = Succ[@]])
          \/ Lose(r)
      BY <1>19 DEF Cancel
    <3>2. [stage EXCEPT ![r] = Succ[@]] = [stage EXCEPT ![r] = Succ[stage[r]]]
      BY DEF TypeOK
    <3> QED  BY <3>1, <3>2, OneRunMoves
  <2> QED  BY <1>19, <2>1, <1>g, <1>u, <1>x DEF Cancel
<1>20. CASE Close(r)
  <2>1. Alone1 /\ Keep  BY <1>20, OneRunMoves DEF Close
  <2> QED  BY <1>20, <2>1, <1>g, <1>u, <1>x DEF Close
<1> QED
  BY <1>1, <1>2, <1>3, <1>4, <1>5, <1>6, <1>7, <1>8, <1>9, <1>10, <1>11,
     <1>12, <1>13, <1>14, <1>15, <1>16, <1>17, <1>18, <1>19, <1>20 DEF RunStep

-----------------------------------------------------------------------------
(* One run at a time.                                                       *)

(* A file has at most one run at work on it, and then it has a row. *)
Alone ==
  /\ \A r \in Runs : Active(r) => progress[FileOf(r)] \notin {"unused", "deleted"}
  /\ \A q \in Runs, r \in Runs :
       Active(q) /\ Active(r) /\ FileOf(q) = FileOf(r) => q = r

(* A file no run is at work on. *)
LEMMA LiveEmpty ==
  ASSUME NEW f \in Files
  PROVE  Live(f) = {} <=> \A r \in Runs : FileOf(r) = f => ~Active(r)
BY DEF Live, Active

(* Polite clients ask only for files nobody is at work on. *)
LEMMA AskedIsFree ==
  ASSUME Polite, Alone, NEW r \in Runs, NEW f \in Files, NEW m \in Modes,
         Submit(r, f, m) \/ \E s \in RetryStages : Retry(r, f, s, m)
  PROVE  \A q \in Runs : FileOf(q) = f => ~Active(q)
<1>1. CASE Submit(r, f, m)  BY <1>1 DEF Submit, Alone
<1>2. CASE \E s \in RetryStages : Retry(r, f, s, m)
  <2>1. PICK s \in RetryStages : Retry(r, f, s, m)  BY <1>2
  <2>2. Live(f) = {}  BY <2>1 DEF Retry, MayRetry, Polite
  <2> QED  BY <2>2, LiveEmpty
<1> QED  BY <1>1, <1>2

(* What a request does to the runs and to the file it is about. *)
LEMMA RequestMoves ==
  ASSUME TypeOK, NEW r \in Runs, NEW f \in Files, NEW m \in Modes,
         Submit(r, f, m) \/ \E s \in RetryStages : Retry(r, f, s, m)
  PROVE  /\ \A q \in Runs \ {r} : job'[q] = job[q] /\ stage'[q] = stage[q] /\ pc'[q] = pc[q]
         /\ FileOf(r)' = f /\ pc[r] = "idle" /\ pc'[r] = "arrive"
         /\ \A g \in Files \ {f} : progress'[g] = progress[g] /\ doc'[g] = doc[g]
         /\ progress'[f] \notin {"unused", "deleted"}
         /\ UNCHANGED <<store, sweeps, phase, world>> /\ phase = "up"
<1>1. CASE Submit(r, f, m)
  BY <1>1 DEF Submit, TypeOK, Goto, FileOf, procVars
<1>2. CASE \E s \in RetryStages : Retry(r, f, s, m)
  <2>1. PICK s \in RetryStages : Retry(r, f, s, m)  BY <1>2
  <2> QED  BY <2>1 DEF Retry, TypeOK, Goto, FileOf, fileVars, procVars
<1> QED  BY <1>1, <1>2

(* Recovery turns no status into "unused" or "deleted", nor any of these    *)
(* into another.                                                            *)
LEMMA RecoverResult ==
  ASSUME TypeOK, Recover, NEW f \in Files
  PROVE  /\ progress[f] = "queued" => progress'[f] = Failed["parsing"]
         /\ progress[f] \in Stages => progress'[f] = Failed[progress[f]]
         /\ progress[f] \notin Stages \cup {"queued"} => progress'[f] = progress[f]
<1>1. progress[f] \in Stages => progress[f] # "queued"  BY FailedTells
<1>2. CASE progress[f] = "queued"  BY <1>1, <1>2, FailedTells DEF Recover
<1>3. CASE progress[f] \in Stages  BY <1>1, <1>3 DEF Recover
<1>4. CASE progress[f] \notin Stages \cup {"queued"}  BY <1>4 DEF Recover
<1> QED  BY <1>1, <1>2, <1>3, <1>4

(* A behaviour stays in its world, so polite clients stay polite.           *)
LEMMA WorldStays ==
  ASSUME TypeOK, [Next]_vars
  PROVE  UNCHANGED world
<1>1. ASSUME NEW r \in Runs, RunStep(r) \/ Cancel(r) \/ Close(r) PROVE UNCHANGED world
  BY <1>1, StepIsLocal DEF Local
<1>2. ASSUME NEW r \in Runs, Request(r) PROVE UNCHANGED world
  <2>1. PICK f \in Files, m \in Modes :
          Submit(r, f, m) \/ \E s \in RetryStages : Retry(r, f, s, m)
    BY <1>2 DEF Request
  <2> QED  BY <2>1, RequestMoves
<1>3. ASSUME NEW f \in Files, Delete(f) \/ Sweep(f) PROVE UNCHANGED world
  BY <1>3 DEF Delete, Sweep, procVars
<1>4. ASSUME Crash \/ Recover \/ CleanUp PROVE UNCHANGED world
  BY <1>4 DEF Crash, Recover, CleanUp
<1>5. ASSUME UNCHANGED vars PROVE UNCHANGED world
  BY <1>5 DEF vars, procVars
<1> QED  BY <1>1, <1>2, <1>3, <1>4, <1>5 DEF Next

(* What the habits of clients say of a step.                                *)
LEMMA HabitsStay ==
  ASSUME TypeOK, [Next]_vars
  PROVE  (Polite' <=> Polite) /\ (Careful' <=> Careful)
BY WorldStays DEF Polite, Careful

(* At first no run is at work. *)
LEMMA AloneInit == Init => Alone
BY DEF Init, Alone, Active

(* Alone is inductive, given polite clients. *)
LEMMA AloneStep ==
  ASSUME Polite, TypeOK, Accounted, Alone, [Next]_vars
  PROVE  Alone'
<1>1. ASSUME NEW r \in Runs, Local(r) PROVE Alone'
  <2>1. FileOf(r) \in Files  BY DEF TypeOK, Jobs, FileOf
  <2>2. \A q \in Runs : Active(q)' => Active(q) /\ FileOf(q)' = FileOf(q)
    BY <1>1 DEF Local, Active, FileOf
  <2>3. ASSUME NEW q \in Runs, Active(q)' PROVE progress'[FileOf(q)] \notin {"unused", "deleted"}
    <3>1. Active(q) /\ FileOf(q) \in Files  BY <2>2, <2>3 DEF TypeOK, Jobs, FileOf
    <3>2. CASE FileOf(q) = FileOf(r)
      BY <1>1, <3>1, <3>2 DEF Local, Alone
    <3>3. CASE FileOf(q) # FileOf(r)
      BY <1>1, <3>1, <3>3 DEF Local, Alone
    <3> QED  BY <3>2, <3>3
  <2> QED  BY <2>2, <2>3 DEF Alone
<1>2. ASSUME NEW r \in Runs, Request(r) PROVE Alone'
  <2>1. PICK f \in Files, m \in Modes :
          Submit(r, f, m) \/ \E s \in RetryStages : Retry(r, f, s, m)
    BY <1>2 DEF Request
  <2>2. \A q \in Runs : FileOf(q) = f => ~Active(q)  BY <2>1, AskedIsFree
  <2>3. /\ \A q \in Runs \ {r} : job'[q] = job[q] /\ pc'[q] = pc[q]
        /\ FileOf(r)' = f /\ progress'[f] \notin {"unused", "deleted"}
        /\ \A g \in Files \ {f} : progress'[g] = progress[g]
    BY <2>1, RequestMoves
  <2>4. \A q \in Runs \ {r} :
          Active(q)' => Active(q) /\ FileOf(q)' = FileOf(q) /\ FileOf(q) \in Files \ {f}
    BY <2>2, <2>3 DEF Active, FileOf, TypeOK, Jobs
  <2> QED  BY <2>3, <2>4 DEF Alone
<1>3. ASSUME UNCHANGED <<job, pc>>,
             \A f \in Files : progress'[f] # progress[f] =>
               \/ progress'[f] \notin {"unused", "deleted"}
               \/ \A r \in Runs : FileOf(r) = f => ~Active(r)
      PROVE  Alone'
  <2>1. \A r \in Runs : FileOf(r)' = FileOf(r) /\ (Active(r)' <=> Active(r)) /\ FileOf(r) \in Files
    BY <1>3 DEF FileOf, Active, TypeOK, Jobs
  <2> QED  BY <1>3, <2>1 DEF Alone
<1>4. ASSUME NEW f \in Files, Delete(f) PROVE Alone'
  <2>1. \A r \in Runs : FileOf(r) = f => ~Active(r)
    BY <1>4, LiveEmpty DEF Delete, Polite, Breaks
  <2>2. UNCHANGED <<job, pc>> /\ \A g \in Files \ {f} : progress'[g] = progress[g]
    BY <1>4 DEF Delete, runVars, TypeOK
  <2> QED  BY <2>1, <2>2, <1>3
<1>5. ASSUME NEW f \in Files, Sweep(f) PROVE Alone'
  BY <1>5, <1>3 DEF Sweep, runVars
<1>6. ASSUME Crash PROVE Alone'
  BY <1>6 DEF Crash, Alone, Active
<1>7. ASSUME Recover PROVE Alone'
  <2>1. UNCHANGED <<job, pc>>  BY <1>7 DEF Recover, runVars
  <2>2. \A f \in Files : progress'[f] # progress[f] => progress'[f] \notin {"unused", "deleted"}
    BY <1>7, RecoverResult, FailedTells DEF Stages
  <2> QED  BY <2>1, <2>2, <1>3
<1>8. ASSUME CleanUp PROVE Alone'
  BY <1>8, <1>3 DEF CleanUp, runVars
<1>9. ASSUME UNCHANGED vars PROVE Alone'
  BY <1>9, <1>3 DEF vars, fileVars, runVars
<1> QED
  BY <1>1, <1>2, <1>4, <1>5, <1>6, <1>7, <1>8, <1>9, StepIsLocal DEF Next

(* The invariant behind everything below: polite clients, whatever fails.   *)
LEMMA SpecAlone == Spec => [](TypeOK /\ Accounted /\ (Polite => Alone))
<1>1. TypeOK /\ Accounted /\ (Polite => Alone) /\ [Next]_vars => (Polite => Alone)'
  BY AloneStep, HabitsStay
<1>2. Spec => []Accounted
  BY AccountedInit, AccountedStep, PipelineTypeOK, PTL DEF Spec
<1> QED  BY <1>1, <1>2, AloneInit, PipelineTypeOK, PTL DEF Spec

-----------------------------------------------------------------------------
(* What a deleted file leaves.                                              *)

(* The background sweep is about deleted files, and until it is done only   *)
(* vectors are left; after it only those that Milvus kept or that a restart *)
(* orphaned.                                                                *)
Gone(f) ==
  /\ f \in sweeps => progress[f] = "deleted"
  /\ progress[f] = "deleted" => \A a \in Artifacts :
       \/ store[f][a] = "none"
       \/ a = "vectors" /\ (f \in sweeps \/ Breaks({"milvus", "crash"}))

(* At first nothing is deleted. *)
LEMMA GoneInit == Init => \A f \in Files : Gone(f)
BY DEF Init, Gone

(* Deleting artifacts of a file, one by one. *)
LEMMA EraseResult ==
  ASSUME TypeOK, NEW f \in Files, NEW S
  PROVE  /\ \A a \in Artifacts : Erase(f, S)[f][a] = IF a \in S THEN "none" ELSE store[f][a]
         /\ \A g \in Files \ {f} : Erase(f, S)[g] = store[g]
BY DEF Erase, TypeOK

(* A file that neither gets deleted nor gets anything stored stays as it is.*)
LEMMA GoneKept ==
  ASSUME TypeOK, NEW f \in Files, Gone(f),
         f \in sweeps' <=> f \in sweeps,
         UNCHANGED world,
         progress'[f] = "deleted" <=> progress[f] = "deleted",
         progress[f] = "deleted" =>
           \A a \in Artifacts : store'[f][a] \in {store[f][a], "none"}
  PROVE  Gone(f)'
BY DEF Gone, Breaks

(* Gone is inductive, given polite clients: no run can bring back what was  *)
(* deleted, since none is at work on the file.                              *)
LEMMA GoneStep ==
  ASSUME Polite, TypeOK, Accounted, Alone, \A f \in Files : Gone(f), [Next]_vars
  PROVE  \A f \in Files : Gone(f)'
<1> SUFFICES ASSUME NEW g \in Files PROVE Gone(g)'
  OBVIOUS
<1>0. Gone(g)  OBVIOUS
<1>w. UNCHANGED world  BY WorldStays
<1> USE <1>w DEF Breaks
<1>1. ASSUME NEW r \in Runs, Local(r) PROVE Gone(g)'
  <2>1. g \in sweeps' <=> g \in sweeps  BY <1>1 DEF Local
  <2>2. CASE FileOf(r) = g
    <3>1. progress[g] # "deleted"  BY <1>1, <2>2 DEF Local, Alone
    <3>2. progress'[g] # "deleted"  BY <1>1, <2>2, <3>1 DEF Local
    <3> QED  BY <1>0, <2>1, <3>1, <3>2 DEF Gone
  <2>3. CASE FileOf(r) # g
    BY <1>0, <1>1, <2>1, <2>3, GoneKept DEF Local
  <2> QED  BY <2>2, <2>3
<1>2. ASSUME NEW r \in Runs, Request(r) PROVE Gone(g)'
  <2>1. PICK f \in Files, m \in Modes :
          Submit(r, f, m) \/ \E s \in RetryStages : Retry(r, f, s, m)
    BY <1>2 DEF Request
  <2>2. progress[f] # "deleted"  BY <2>1 DEF Submit, Retry
  <2>3. /\ progress'[f] \notin {"unused", "deleted"}
        /\ \A h \in Files \ {f} : progress'[h] = progress[h]
        /\ UNCHANGED <<store, sweeps>>
    BY <2>1, RequestMoves
  <2> QED  BY <1>0, <2>2, <2>3, GoneKept
<1>3. ASSUME NEW f \in Files, Delete(f) PROVE Gone(g)'
  <2>1. /\ progress' = [progress EXCEPT ![f] = "deleted"] /\ sweeps' = sweeps \cup {f}
        /\ store' = Erase(f, Artifacts \ {"vectors"})
    BY <1>3 DEF Delete
  <2>2. CASE g = f
    <3>1. \A a \in Artifacts \ {"vectors"} : store'[g][a] = "none"
      BY <2>1, <2>2, EraseResult
    <3>2. g \in sweeps' /\ progress'[g] = "deleted"
      BY <2>1, <2>2 DEF TypeOK
    <3> QED  BY <3>1, <3>2 DEF Gone
  <2>3. CASE g # f
    <3>1. store'[g] = store[g]  BY <2>1, <2>3, EraseResult
    <3>2. progress'[g] = progress[g]  BY <2>1, <2>3 DEF TypeOK
    <3> QED  BY <1>0, <2>1, <2>3, <3>1, <3>2, GoneKept
  <2> QED  BY <2>2, <2>3
<1>4. ASSUME NEW f \in Files, Sweep(f) PROVE Gone(g)'
  <2>1. sweeps' = sweeps \ {f} /\ UNCHANGED progress /\ f \in sweeps
    BY <1>4 DEF Sweep
  <2>2. store' = Erase(f, {"vectors"}) \/ (Breaks({"milvus"}) /\ UNCHANGED store)
    BY <1>4 DEF Sweep
  <2>3. CASE store' = Erase(f, {"vectors"})
    <3>1. CASE g = f
      <4>1. \A a \in Artifacts :
              store'[g][a] = IF a \in {"vectors"} THEN "none" ELSE store[g][a]
        BY <2>3, <3>1, EraseResult
      <4> QED  BY <1>0, <2>1, <3>1, <4>1 DEF Gone
    <3>2. CASE g # f
      <4>1. store'[g] = store[g]  BY <2>3, <3>2, EraseResult
      <4> QED  BY <1>0, <2>1, <3>2, <4>1, GoneKept
    <3> QED  BY <3>1, <3>2
  <2>4. CASE Breaks({"milvus"}) /\ UNCHANGED store
    <3>1. Breaks({"milvus", "crash"})  BY <2>4 DEF Breaks
    <3> QED  BY <1>0, <2>1, <2>4, <3>1 DEF Gone
  <2> QED  BY <2>2, <2>3, <2>4
<1>5. ASSUME Crash PROVE Gone(g)'
  <2>1. sweeps' = {} /\ UNCHANGED progress /\ Breaks({"milvus", "crash"})
    BY <1>5 DEF Crash, Breaks
  <2>2. progress[g] = "deleted" => store'[g] = store[g]
    <3> SUFFICES ASSUME progress[g] = "deleted" PROVE store'[g] = store[g]
      OBVIOUS
    <3>1. \A r \in Runs : pc[r] = "work" => FileOf(r) # g /\ FileOf(r) \in Files
      BY DEF Alone, Active, TypeOK, Jobs, FileOf
    <3>2. \A h \in Files : h # g => Raise(h, "vectors", "part")[g] = store[g]
      BY OneFileStored
    <3> QED  BY <1>5, <3>1, <3>2 DEF Crash
  <2> QED  BY <1>0, <2>1, <2>2 DEF Gone
<1>6. ASSUME Recover PROVE Gone(g)'
  <2>1. UNCHANGED <<store, sweeps>>  BY <1>6 DEF Recover
  <2>2. progress'[g] = "deleted" <=> progress[g] = "deleted"
    BY <1>6, RecoverResult, FailedTells DEF Stages
  <2> QED  BY <1>0, <2>1, <2>2, GoneKept
<1>7. ASSUME CleanUp PROVE Gone(g)'
  <2>1. UNCHANGED <<progress, sweeps>>  BY <1>7 DEF CleanUp
  <2>2. \A a \in Artifacts : store'[g][a] \in {store[g][a], "none"}
    BY <1>7 DEF CleanUp
  <2> QED  BY <1>0, <2>1, <2>2, GoneKept
<1>8. ASSUME UNCHANGED vars PROVE Gone(g)'
  BY <1>0, <1>8, GoneKept DEF vars, fileVars
<1> QED
  BY <1>1, <1>2, <1>3, <1>4, <1>5, <1>6, <1>7, <1>8, StepIsLocal DEF Next

AllGone == \A f \in Files : Gone(f)

(* It holds of every state polite clients can bring about.                  *)
LEMMA SpecGone == Spec => [](Polite => AllGone)
<1>1. Init => AllGone  BY GoneInit DEF AllGone
<1>2. TypeOK /\ Accounted /\ (Polite => Alone) /\ (Polite => AllGone) /\ [Next]_vars
        => (Polite => AllGone)'
  BY GoneStep, HabitsStay DEF AllGone
<1> QED  BY <1>1, <1>2, SpecAlone, PTL DEF Spec

(* For clients that do not delete a file in process: when the background    *)
(* sweep of a deleted file is over, nothing stored for it is left, whatever *)
(* fails and however requests interleave; vectors may outlive a Milvus      *)
(* failure or a restart.                                                    *)
THEOREM DeletedIsGone == Spec => [](Polite => DeletedLeavesNothing)
<1>1. Polite /\ AllGone => DeletedLeavesNothing
  BY DEF AllGone, Gone, DeletedLeavesNothing
<1> QED  BY <1>1, SpecGone, PTL

-----------------------------------------------------------------------------
(* What a stage finds.                                                      *)

(* Nothing of the artifact is stored, or vectors that Milvus did not delete.*)
Empty(f, a) == store[f][a] = "none" \/ (a = "vectors" /\ Breaks({"milvus"}))

(* Before a run is inside the slot. *)
Early == {"arrive", "mark", "ask", "wait", "enter"}

(* What a run is yet to store is not there: for a parse from the start, for *)
(* a retry from its clean-up on, and from each stage to the next.           *)
Vacant(r) ==
  LET f == FileOf(r)
      s == stage[r]
  IN /\ pc[r] = "idle" => s = "parsing"
     /\ pc[r] \in Early /\ job[r].kind = "parse" =>
          s = "parsing" /\ \A a \in Artifacts : Empty(f, a)
     /\ pc[r] \in Early /\ job[r].kind = "retry" => s \in RetryStages
     /\ pc[r] \in {"clean", "load"} => s \in RetryStages
     /\ pc[r] \in {"load", "begin", "work"} => \A a \in Ahead(s) : Empty(f, a)
     /\ pc[r] = "more" => \A a \in Ahead(s) \ {Product[s]} : Empty(f, a)
     /\ pc[r] = "next" =>
          s # "analyzing" /\ \A a \in Ahead(s) \ {Product[s]} : Empty(f, a)

(* Nothing is stored for a file that was never submitted. *)
Fresh(f) == progress[f] = "unused" => \A a \in Artifacts : store[f][a] = "none"

Vacancy == (\A r \in Runs : Vacant(r)) /\ (\A f \in Files : Fresh(f))

(* Where Vacant has nothing to say. *)
LEMMA VacantElsewhere ==
  ASSUME NEW r \in Runs, pc'[r] = "idle" => stage'[r] = "parsing",
         pc'[r] \notin Early \cup {"clean", "load", "begin", "work", "more", "next"}
  PROVE  Vacant(r)'
BY DEF Vacant

(* A run whose file only loses artifacts, or that moves within Early, stays *)
(* as it is.                                                                *)
LEMMA VacantKept ==
  ASSUME NEW r \in Runs, Vacant(r), job'[r] = job[r], stage'[r] = stage[r],
         pc'[r] = pc[r] \/ (pc[r] \in Early /\ pc'[r] \in Early),
         stage[r] \in Stages, UNCHANGED world,
         \A a \in Artifacts : store'[FileOf(r)][a] \in {store[FileOf(r)][a], "none"}
  PROVE  Vacant(r)'
<1>1. FileOf(r)' = FileOf(r)  BY DEF FileOf
<1>2. \A a \in Artifacts : Empty(FileOf(r), a) => Empty(FileOf(r), a)'
  BY <1>1 DEF Empty, Breaks
<1>3. Ahead(stage[r]) \subseteq Artifacts  BY AheadFits
<1>4. Ahead(stage[r])' = Ahead(stage[r])  BY DEF Ahead, Product
<1>5. \A p \in Early : p \notin {"idle", "clean", "load", "begin", "work", "more", "next"}
  BY DEF Early
<1> QED  BY <1>1, <1>2, <1>3, <1>4, <1>5 DEF Vacant

(* A local step concerns only the run that makes it. *)
LEMMA VacancyLocal ==
  ASSUME TypeOK, Alone, Vacancy, NEW r \in Runs, Local(r), Vacant(r)'
  PROVE  Vacancy'
<1>1. ASSUME NEW q \in Runs, q # r PROVE Vacant(q)'
  <2>1. job'[q] = job[q] /\ stage'[q] = stage[q] /\ pc'[q] = pc[q]
    BY <1>1 DEF Local
  <2>2. CASE Active(q)
    <3>1. FileOf(q) # FileOf(r) /\ FileOf(q) \in Files /\ stage[q] \in Stages
      BY <1>1, <2>2 DEF Local, Alone, TypeOK, Jobs, FileOf
    <3>2. store'[FileOf(q)] = store[FileOf(q)] /\ UNCHANGED world  BY <3>1 DEF Local
    <3> QED  BY <2>1, <3>1, <3>2, VacantKept DEF Vacancy
  <2>3. CASE ~Active(q)
    <3>1. pc[q] \in {"idle", "lost"}  BY <2>3 DEF Active
    <3>2. pc'[q] = "idle" => stage'[q] = "parsing"
      BY <2>1 DEF Vacancy, Vacant
    <3> QED  BY <2>1, <3>1, <3>2, VacantElsewhere DEF Early
  <2> QED  BY <2>2, <2>3
<1>2. ASSUME NEW f \in Files PROVE Fresh(f)'
  <2>1. CASE f = FileOf(r)
    BY <2>1 DEF Local, Alone, Fresh
  <2>2. CASE f # FileOf(r)
    BY <2>2 DEF Local, Fresh, Vacancy
  <2> QED  BY <2>1, <2>2
<1> QED  BY <1>1, <1>2 DEF Vacancy

(* At first no run is anywhere and nothing is stored. *)
LEMMA VacancyInit == Init => Vacancy
BY DEF Init, Vacancy, Vacant, Fresh, Early

(* Storing an artifact changes no other. *)
LEMMA OneArtifactStored ==
  ASSUME TypeOK, NEW f \in Files, NEW a \in Artifacts, NEW b \in Artifacts \ {a}
  PROVE  (\A l : Raise(f, a, l)[f][b] = store[f][b]) /\ Grown(f, a)[f][b] = store[f][b]
BY DEF Raise, Grown, TypeOK

(* After a stage has stored: what is ahead but for its product is as it was.*)
LEMMA StoredOne ==
  ASSUME TypeOK, NEW r \in Runs, Active(r),
         UNCHANGED <<job, stage, world>>,
         pc[r] \in {"work", "more"}, Vacant(r),
         \/ UNCHANGED store
         \/ \E l : store' = Raise(FileOf(r), Product[stage[r]], l)
         \/ store' = Grown(FileOf(r), Product[stage[r]]),
         pc'[r] = "more" \/ (pc'[r] = "next" /\ stage[r] # "analyzing")
  PROVE  Vacant(r)'
<1> DEFINE f == FileOf(r)
           s == stage[r]
<1>1. f \in Files /\ s \in Stages  BY DEF TypeOK, Jobs, FileOf
<1>2. Product[s] \in Artifacts /\ Ahead(s) \subseteq Artifacts
  BY <1>1, TableTypes, AheadFits
<1>3. \A a \in Artifacts \ {Product[s]} : store'[f][a] = store[f][a]
  <2> HIDE DEF f, s
  <2> QED  BY <1>1, <1>2, OneArtifactStored DEF f, s
<1>4. \A a \in Ahead(s) \ {Product[s]} : Empty(f, a)  BY DEF Vacant
<1>5. FileOf(r)' = f /\ stage'[r] = s  BY DEF FileOf
<1>6. \A a \in Ahead(s) \ {Product[s]} : Empty(f, a)'
  BY <1>2, <1>3, <1>4, <1>5 DEF Empty, Breaks
<1>7. Ahead(s)' = Ahead(s)  BY <1>5 DEF Ahead, Product
<1> QED  BY <1>5, <1>6, <1>7 DEF Vacant, Early

(* A step of a run keeps what it is about to do possible.                   *)
LEMMA VacantStep ==
  ASSUME TypeOK, NEW r \in Runs, Active(r), Vacant(r),
         RunStep(r) \/ Cancel(r) \/ Close(r)
  PROVE  Vacant(r)'
<1> DEFINE f == FileOf(r)
           s == stage[r]
           Elsewhere == /\ pc'[r] \notin Early \cup {"clean", "load", "begin", "work", "more", "next"}
                        /\ pc'[r] = "idle" => stage'[r] = "parsing"
<1>t. /\ f \in Files /\ s \in Stages /\ pc \in [Runs -> PCs] /\ stage \in [Runs -> Stages]
      /\ job[r].kind \in {"parse", "retry"}
  BY DEF TypeOK, Jobs, FileOf
<1>g. \A p : Goto(r, p) => pc'[r] = p  BY <1>t DEF Goto
<1>w. UNCHANGED world  BY StepIsLocal DEF Local
<1> USE <1>w DEF Breaks
<1>e. ASSUME Elsewhere PROVE Vacant(r)'
  BY <1>e, VacantElsewhere
<1>k. ASSUME UNCHANGED <<store, job, stage>>, pc[r] \in Early, pc'[r] \in Early
      PROVE  Vacant(r)'
  BY <1>k, <1>t, VacantKept
<1>n. /\ \A p \in {"outer", "inner", "seal", "notify", "leave", "lost", "unstarted"} :
           p # "idle"
      /\ \A p \in {"outer", "inner", "seal", "notify", "leave", "idle", "lost", "unstarted"} :
           p \notin Early \cup {"clean", "load", "begin", "work", "more", "next"}
  BY DEF Early
<1>l. Lose(r) \/ End(r) => Elsewhere
  BY <1>n, <1>t, <1>g DEF Lose, End
<1>1. CASE Arrive(r)
  BY <1>1, <1>g, <1>k DEF Arrive, fileVars, Early
<1>2. CASE MarkQueued(r)
  BY <1>2, <1>g, <1>k DEF MarkQueued, Early
<1>3. CASE Ask(r)
  BY <1>3, <1>g, <1>k DEF Ask, fileVars, Early
<1>4. CASE Admit(r)
  BY <1>4, <1>g, <1>k DEF Admit, fileVars, Early
<1>5. CASE Enter(r)
  <2>1. pc[r] = "enter" /\ UNCHANGED <<store, job, stage>>
    BY <1>5 DEF Enter, fileVars
  <2>2. "enter" \in Early /\ "begin" \notin Early /\ "clean" \notin Early  BY DEF Early
  <2>3. CASE job[r].kind = "parse"
    <3>1. pc'[r] = "begin"  BY <1>5, <2>3, <1>g DEF Enter
    <3>2. s = "parsing" /\ \A a \in Artifacts : Empty(f, a)
      BY <2>1, <2>2, <2>3 DEF Vacant
    <3>3. \A a \in Ahead(s) : Empty(f, a)  BY <3>2, AheadFits
    <3>4. (\A a \in Ahead(s) : Empty(f, a))' <=> \A a \in Ahead(s) : Empty(f, a)
      BY <2>1 DEF Ahead, Product, Empty, FileOf
    <3> QED  BY <2>2, <3>1, <3>3, <3>4 DEF Vacant
  <2>4. CASE job[r].kind = "retry"
    <3>1. pc'[r] = "clean"  BY <1>5, <2>4, <1>g DEF Enter
    <3>2. s \in RetryStages  BY <2>1, <2>2, <2>4 DEF Vacant
    <3> QED  BY <2>1, <2>2, <3>1, <3>2 DEF Vacant
  <2> QED  BY <2>3, <2>4, <1>t
<1>6. CASE Clean(r)
  <2>1. pc[r] = "clean" /\ UNCHANGED <<job, stage>>  BY <1>6 DEF Clean
  <2>2. s \in RetryStages /\ Downstream[s] = Ahead(s) /\ Ahead(s) \subseteq Artifacts
    BY <2>1, <1>t, AheadFits DEF Vacant
  <2>3. CASE Elsewhere  BY <2>3, <1>e
  <2>4. CASE /\ pc'[r] = "load"
             /\ \/ store' = Erase(f, Ahead(s))
                \/ Breaks({"milvus"}) /\ store' = Erase(f, Ahead(s) \ {"vectors"})
    <3>1. \A a \in Ahead(s) : store'[f][a] = "none" \/ (a = "vectors" /\ Breaks({"milvus"}))
      <4> HIDE DEF f
      <4> QED  BY <2>2, <2>4, <1>t, EraseResult
    <3>2. FileOf(r)' = f /\ stage'[r] = s /\ Ahead(s)' = Ahead(s)
      BY <2>1 DEF FileOf, Ahead, Product
    <3>3. \A a \in Ahead(s) : Empty(f, a)'
      BY <3>1, <3>2 DEF Empty
    <3> QED  BY <2>2, <2>4, <3>2, <3>3 DEF Vacant, Early
  <2>5. (pc'[r] = "load" /\ (\/ store' = Erase(f, Downstream[s])
                             \/ Breaks({"milvus"}) /\ store' = Erase(f, Downstream[s] \ {"vectors"})))
        \/ pc'[r] = "outer"
    BY <1>6, <1>g DEF Clean
  <2> QED  BY <2>2, <2>3, <2>4, <2>5, <1>n
<1>7. CASE Load(r)
  <2>1. pc[r] = "load" /\ UNCHANGED <<store, job, stage>>  BY <1>7 DEF Load, fileVars
  <2>2. pc'[r] \in {"begin", "outer"}  BY <1>7, <1>g DEF Load
  <2>3. CASE pc'[r] = "begin"
    <3>1. \A a \in Ahead(s) : Empty(f, a)  BY <2>1 DEF Vacant
    <3>2. FileOf(r)' = f /\ stage'[r] = s /\ Ahead(s)' = Ahead(s)
          /\ \A a : Empty(f, a)' <=> Empty(f, a)
      BY <2>1 DEF FileOf, Ahead, Product, Empty
    <3> QED  BY <2>3, <3>1, <3>2 DEF Vacant, Early
  <2> QED  BY <2>2, <2>3, <1>e, <1>n
<1>8. CASE Begin(r)
  <2> DEFINE n == IF pc[r] = "begin" THEN s ELSE Succ[s]
  <2>1. /\ pc[r] \in {"begin", "next"} /\ UNCHANGED <<store, job>> /\ stage'[r] = n
        /\ pc'[r] \in {"work", "outer"}
    BY <1>8, <1>g, <1>t DEF Begin
  <2>2. CASE pc'[r] = "work"
    <3>1. \A a \in Ahead(n) : Empty(f, a)
      <4>1. CASE pc[r] = "begin"  BY <4>1 DEF Vacant
      <4>2. CASE pc[r] = "next"
        <5>1. s \in Stages \ {"analyzing"}
          BY <4>2, <1>t DEF Vacant
        <5>2. Ahead(Succ[s]) = Ahead(s) \ {Product[s]}  BY <5>1, AheadFits
        <5>3. n = Succ[s]  BY <4>2
        <5>4. \A a \in Ahead(s) \ {Product[s]} : Empty(f, a)  BY <4>2 DEF Vacant
        <5> QED  BY <5>2, <5>3, <5>4
      <4> QED  BY <2>1, <4>1, <4>2
    <3>2. FileOf(r)' = f /\ (\A a : Empty(f, a)' <=> Empty(f, a))
      BY <2>1 DEF FileOf, Empty
    <3>3. Ahead(stage[r])' = Ahead(n)  BY <2>1 DEF Ahead, Product
    <3> QED  BY <2>2, <3>1, <3>2, <3>3 DEF Vacant, Early
  <2> QED  BY <2>1, <2>2, <1>e, <1>n
<1>9. CASE Save(r)
  <2>1. /\ pc[r] = "work" /\ s # "analyzing" /\ UNCHANGED <<job, stage>>
        /\ pc'[r] \in {"next", "inner", "outer"}
    BY <1>9, <1>g DEF Save
  <2>2. UNCHANGED store \/ \E l : store' = Raise(f, Product[s], l)
    BY <1>9 DEF Save
  <2>3. CASE pc'[r] = "next"  BY <2>1, <2>2, <2>3, StoredOne
  <2> QED  BY <2>1, <2>3, <1>e, <1>n
<1>10. CASE Embed(r)
  <2>1. /\ pc[r] = "work" /\ s = "embedding" /\ UNCHANGED <<job, stage>>
        /\ pc'[r] \in {"next", "inner", "outer"}
    BY <1>10, <1>g DEF Embed
  <2>2. Product[s] = "vectors"  BY <2>1 DEF Product, Stages, RetryStages
  <2>3. UNCHANGED store \/ \E l : store' = Raise(f, Product[s], l)
    BY <1>10, <2>2 DEF Embed
  <2>4. CASE pc'[r] = "next"  BY <2>1, <2>3, <2>4, StoredOne
  <2> QED  BY <2>1, <2>4, <1>e, <1>n
<1>11. CASE StoreSome(r)
  <2>1. /\ pc[r] = "work" /\ UNCHANGED <<job, stage>> /\ pc'[r] \in {"more", "inner"}
    BY <1>11, <1>g DEF StoreSome
  <2>2. UNCHANGED store \/ store' = Grown(f, Product[s])
    BY <1>11 DEF StoreSome
  <2>3. CASE pc'[r] = "more"  BY <2>1, <2>2, <2>3, StoredOne
  <2> QED  BY <2>1, <2>3, <1>e, <1>n
<1>12. CASE ExtractRest(r)
  <2>1. /\ pc[r] = "more" /\ s = "extracting" /\ UNCHANGED <<job, stage>>
        /\ pc'[r] \in {"next", "inner"}
    BY <1>12, <1>g DEF ExtractRest
  <2>2. Product[s] = "extraction"  BY <2>1 DEF Product, Stages, RetryStages
  <2>3. UNCHANGED store \/ store' = Grown(f, Product[s])
    BY <1>12, <2>2 DEF ExtractRest
  <2>4. CASE pc'[r] = "next"  BY <2>1, <2>3, <2>4, StoredOne
  <2> QED  BY <2>1, <2>4, <1>e, <1>n
<1>13. CASE AnalyzeRest(r)
  BY <1>13, <1>g, <1>e, <1>n DEF AnalyzeRest
<1>14. CASE Seal(r)
  BY <1>14, <1>g, <1>e, <1>n DEF Seal
<1>15. CASE InnerMark(r)
  BY <1>15, <1>g, <1>e, <1>n DEF InnerMark
<1>16. CASE OuterMark(r)
  BY <1>16, <1>g, <1>e, <1>n, <1>l DEF OuterMark
<1>17. CASE Leave(r)
  BY <1>17, <1>e, <1>l DEF Leave
<1>18. CASE UnstartedMark(r)
  BY <1>18, <1>e, <1>l DEF UnstartedMark
<1>19. CASE Cancel(r)
  <2>1. pc'[r] \in {"unstarted", "lost", "outer"} \/ Lose(r)
    BY <1>19, <1>g DEF Cancel
  <2> QED  BY <2>1, <1>e, <1>n, <1>l
<1>20. CASE Close(r)
  BY <1>20, <1>e, <1>l DEF Close
<1> QED
  BY <1>1, <1>2, <1>3, <1>4, <1>5, <1>6, <1>7, <1>8, <1>9, <1>10, <1>11,
     <1>12, <1>13, <1>14, <1>15, <1>16, <1>17, <1>18, <1>19, <1>20 DEF RunStep

(* Vacancy is inductive, given polite clients. *)
LEMMA VacancyStep ==
  ASSUME Polite, TypeOK, Accounted, Alone, Vacancy, [Next]_vars
  PROVE  Vacancy'
<1>t. \A r \in Runs : FileOf(r) \in Files /\ stage[r] \in Stages
  BY DEF TypeOK, Jobs, FileOf
<1>w. UNCHANGED world  BY WorldStays
<1> USE <1>w DEF Breaks
<1>1. ASSUME NEW r \in Runs, RunStep(r) \/ Cancel(r) \/ Close(r) PROVE Vacancy'
  <2>1. Local(r)  BY <1>1, StepIsLocal
  <2>2. Vacant(r)'
    BY <1>1, <2>1, VacantStep DEF Local, Vacancy
  <2> QED  BY <2>1, <2>2, VacancyLocal
<1>2. ASSUME NEW r \in Runs, Request(r) PROVE Vacancy'
  <2>1. PICK f \in Files, m \in Modes :
          Submit(r, f, m) \/ \E s \in RetryStages : Retry(r, f, s, m)
    BY <1>2 DEF Request
  <2>2. /\ \A q \in Runs \ {r} : job'[q] = job[q] /\ stage'[q] = stage[q] /\ pc'[q] = pc[q]
        /\ FileOf(r)' = f /\ pc[r] = "idle" /\ pc'[r] = "arrive"
        /\ \A g \in Files \ {f} : progress'[g] = progress[g]
        /\ progress'[f] \notin {"unused", "deleted"} /\ UNCHANGED store /\ phase = "up"
    BY <2>1, RequestMoves
  <2>3. ASSUME NEW q \in Runs, q # r PROVE Vacant(q)'
    BY <1>t, <2>2, <2>3, VacantKept DEF Vacancy
  <2>4. Vacant(r)'
    <3>1. CASE Submit(r, f, m)
      <4>1. job'[r].kind = "parse" /\ stage'[r] = stage[r] /\ progress[f] = "unused"
        BY <3>1 DEF Submit, TypeOK
      <4>2. stage[r] = "parsing"
        BY <2>2 DEF Vacancy, Vacant
      <4>3. \A a \in Artifacts : Empty(f, a)'
        BY <2>2, <4>1 DEF Vacancy, Fresh, Empty
      <4> QED  BY <2>2, <4>1, <4>2, <4>3 DEF Vacant, Early
    <3>2. CASE \E s \in RetryStages : Retry(r, f, s, m)
      <4>1. job'[r].kind = "retry" /\ stage'[r] \in RetryStages
        BY <3>2 DEF Retry, TypeOK
      <4> QED  BY <2>2, <4>1 DEF Vacant, Early
    <3> QED  BY <2>1, <3>1, <3>2
  <2>5. \A g \in Files : Fresh(g)'
    BY <2>2 DEF Vacancy, Fresh
  <2> QED  BY <2>3, <2>4, <2>5 DEF Vacancy
<1>3. ASSUME UNCHANGED <<job, stage, pc>>,
             \A f \in Files : \A a \in Artifacts : store'[f][a] \in {store[f][a], "none"},
             \A f \in Files : progress'[f] = "unused" => progress[f] = "unused"
      PROVE  Vacancy'
  <2>1. \A r \in Runs : Vacant(r)'
    BY <1>3, <1>t, VacantKept DEF Vacancy
  <2>2. \A f \in Files : Fresh(f)'
    BY <1>3 DEF Vacancy, Fresh
  <2> QED  BY <2>1, <2>2 DEF Vacancy
<1>e. \A f \in Files, S \in SUBSET Artifacts : \A g \in Files : \A a \in Artifacts :
        Erase(f, S)[g][a] \in {store[g][a], "none"}
  BY DEF Erase, TypeOK
<1>4. ASSUME NEW f \in Files, Delete(f) PROVE Vacancy'
  <2>1. /\ UNCHANGED <<job, stage, pc>> /\ store' = Erase(f, Artifacts \ {"vectors"})
        /\ progress' = [progress EXCEPT ![f] = "deleted"]
    BY <1>4 DEF Delete, runVars
  <2>2. \A g \in Files : progress'[g] = "unused" => progress[g] = "unused"
    BY <2>1 DEF TypeOK
  <2> QED  BY <2>1, <2>2, <1>e, <1>3
<1>5. ASSUME NEW f \in Files, Sweep(f) PROVE Vacancy'
  <2>1. /\ UNCHANGED <<job, stage, pc, progress>>
        /\ store' = Erase(f, {"vectors"}) \/ UNCHANGED store
    BY <1>5 DEF Sweep, runVars
  <2>2. {"vectors"} \in SUBSET Artifacts  BY DEF Artifacts
  <2> QED  BY <2>1, <2>2, <1>e, <1>3
<1>6. ASSUME Crash PROVE Vacancy'
  <2>1. \A r \in Runs : pc'[r] = "idle" /\ stage'[r] = "parsing"
    BY <1>6 DEF Crash
  <2>2. ASSUME NEW g \in Files PROVE Fresh(g)'
    <3>1. UNCHANGED progress  BY <1>6 DEF Crash
    <3>2. progress[g] = "unused" => store'[g] = store[g]
      <4> SUFFICES ASSUME progress[g] = "unused" PROVE store'[g] = store[g]
        OBVIOUS
      <4>1. \A r \in Runs : pc[r] = "work" => FileOf(r) # g
        BY DEF Alone, Active
      <4>2. \A h \in Files : h # g => Raise(h, "vectors", "part")[g] = store[g]
        BY OneFileStored
      <4> QED  BY <1>6, <1>t, <4>1, <4>2 DEF Crash
    <3> QED  BY <3>1, <3>2 DEF Vacancy, Fresh
  <2> QED  BY <2>1, <2>2, VacantElsewhere DEF Vacancy, Early
<1>7. ASSUME Recover PROVE Vacancy'
  <2>1. UNCHANGED <<store, job, stage, pc>>  BY <1>7 DEF Recover, runVars
  <2>2. \A f \in Files : progress'[f] = "unused" => progress[f] = "unused"
    BY <1>7, RecoverResult, FailedTells DEF Stages
  <2> QED  BY <2>1, <2>2, <1>3
<1>8. ASSUME CleanUp PROVE Vacancy'
  <2>1. UNCHANGED <<progress, job, stage, pc>>  BY <1>8 DEF CleanUp, runVars
  <2>2. \A f \in Files : \A a \in Artifacts : store'[f][a] \in {store[f][a], "none"}
    BY <1>8 DEF CleanUp
  <2> QED  BY <2>1, <2>2, <1>3
<1>9. ASSUME UNCHANGED vars PROVE Vacancy'
  BY <1>9, <1>3 DEF vars, fileVars, runVars
<1> QED
  BY <1>1, <1>2, <1>4, <1>5, <1>6, <1>7, <1>8, <1>9 DEF Next

(* It holds of every state polite clients can bring about.                  *)
LEMMA SpecVacancy == Spec => [](Polite => Vacancy)
<1>1. TypeOK /\ Accounted /\ (Polite => Alone) /\ (Polite => Vacancy) /\ [Next]_vars
        => (Polite => Vacancy)'
  BY VacancyStep, HabitsStay
<1> QED  BY <1>1, SpecAlone, VacancyInit, PTL DEF Spec

(* For clients that send one request per file at a time, whichever stage    *)
(* they retry: no stage ever starts on top of what it or a later one        *)
(* stored, after any sequence of failures, cancellations, lost runs and     *)
(* restarts.                                                                *)
THEOREM StagesFindCleanSlate == Spec => [](Polite => CleanSlate)
<1>1. Vacancy => CleanSlate
  BY DEF Vacancy, Vacant, Empty, CleanSlate
<1> QED  BY <1>1, SpecVacancy, PTL

-----------------------------------------------------------------------------
(* The status and the run.                                                  *)

(* The status of a file whose run has not committed the start of its stage. *)
Waiting(r) ==
  \/ progress[FileOf(r)] = "queued"
  \/ stage[r] \in RetryStages /\ progress[FileOf(r)] = Failed[stage[r]]

(* The status of a file whose run has stored its last result. *)
Finished(r) == stage[r] = "analyzing" /\ progress[FileOf(r)] = "complete"

(* What the status of a file is, by where its run stands. *)
Track(r) ==
  LET p == progress[FileOf(r)]
      s == stage[r]
  IN /\ pc[r] \in Early \cup {"unstarted", "clean", "load", "begin"} => Waiting(r)
     /\ pc[r] \in Early /\ job[r].kind = "parse" => p = "queued"
     /\ pc[r] \in {"work", "more", "next"} => p = s
     /\ pc[r] \in {"seal", "notify"} => Finished(r)
     /\ pc[r] = "inner" => p = s \/ Finished(r)
     /\ pc[r] = "outer" =>
          \/ Waiting(r) \/ Finished(r)
          \/ p = s \/ p = Failed[s] \/ (p \in Stages /\ s = Succ[p])

(* Where Track has nothing to say. *)
LEMMA TrackElsewhere ==
  ASSUME NEW r \in Runs, pc'[r] \in {"idle", "lost", "leave"}
  PROVE  Track(r)'
BY DEF Track, Early

(* Track of a run is about its own file. *)
LEMMA TrackLocal ==
  ASSUME TypeOK, Alone, \A q \in Runs : Track(q), NEW r \in Runs, Local(r), Track(r)'
  PROVE  \A q \in Runs : Track(q)'
<1> SUFFICES ASSUME NEW q \in Runs, q # r PROVE Track(q)'
  OBVIOUS
<1>1. job'[q] = job[q] /\ stage'[q] = stage[q] /\ pc'[q] = pc[q]
  BY DEF Local
<1>2. CASE Active(q)
  <2>1. FileOf(q) # FileOf(r) /\ FileOf(q) \in Files
    BY <1>2 DEF Local, Alone, TypeOK, Jobs, FileOf
  <2>2. progress'[FileOf(q)] = progress[FileOf(q)]  BY <2>1 DEF Local
  <2> QED  BY <1>1, <2>2 DEF Track, Waiting, Finished, FileOf
<1>3. CASE ~Active(q)
  BY <1>1, <1>3, TrackElsewhere DEF Active
<1> QED  BY <1>2, <1>3

(* At first no run is anywhere. *)
LEMMA TrackInit == Init => \A r \in Runs : Track(r)
BY DEF Init, Track, Early

(* A step of a run keeps its status and its place in step. *)
LEMMA TrackStep ==
  ASSUME TypeOK, Alone, NEW r \in Runs, Active(r), Track(r),
         RunStep(r) \/ Cancel(r) \/ Close(r)
  PROVE  Track(r)'
<1> DEFINE f == FileOf(r)
           p == progress[f]
           s == stage[r]
<1>t. /\ f \in Files /\ s \in Stages /\ pc \in [Runs -> PCs] /\ stage \in [Runs -> Stages]
      /\ p # "deleted"
  BY DEF TypeOK, Jobs, FileOf, Alone
<1>g. \A x : Goto(r, x) => pc'[r] = x  BY <1>t DEF Goto
<1>p. \A v : progress' = Put(f, v) => progress'[f] = v
  <2> HIDE DEF f
  <2> QED  BY <1>t, PutLocal DEF f
<1>f. UNCHANGED job => FileOf(r)' = f  BY DEF FileOf
<1>n. \A x \in Early : x \notin {"idle", "lost", "leave", "unstarted", "clean", "load", "begin",
                                 "work", "more", "next", "seal", "notify", "inner", "outer"}
  BY DEF Early
<1>l. Lose(r) \/ End(r) => pc'[r] \in {"idle", "lost", "leave"}
  BY <1>t, <1>g DEF Lose, End
<1>w. UNCHANGED <<progress, job, stage>> =>
        (Waiting(r)' <=> Waiting(r)) /\ (Finished(r)' <=> Finished(r))
  BY DEF Waiting, Finished, FileOf
<1>k. ASSUME UNCHANGED <<progress, job, stage>>, pc[r] \in Early, pc'[r] \in Early
      PROVE  Track(r)'
  BY <1>k, <1>f, <1>n, <1>w DEF Track
<1>o. ASSUME UNCHANGED <<progress, job, stage>>, pc'[r] = "outer",
             pc[r] \in {"clean", "load", "begin", "work", "more", "next", "seal", "notify", "inner"}
      PROVE  Track(r)'
  <2>1. Waiting(r) \/ Finished(r) \/ p = s  BY <1>o DEF Track
  <2>2. Waiting(r)' \/ Finished(r)' \/ progress'[f] = stage'[r]  BY <1>o, <1>w, <2>1
  <2> QED  BY <1>o, <1>f, <1>n, <2>2 DEF Track
<1>s. ASSUME UNCHANGED <<progress, job, stage>>, pc'[r] \in {"inner", "more", "next"},
             pc[r] \in {"work", "more", "next"}
      PROVE  Track(r)'
  BY <1>s, <1>f, <1>n DEF Track
<1>1. CASE Arrive(r)
  BY <1>1, <1>g, <1>k DEF Arrive, fileVars, Early
<1>2. CASE MarkQueued(r)
  <2>1. pc'[r] = "ask" /\ pc[r] = "mark" /\ UNCHANGED <<job, stage>>
    BY <1>2, <1>g DEF MarkQueued
  <2>2. CASE progress' = Put(f, "queued")
    <3>1. progress'[f] = "queued"  BY <2>2, <1>p
    <3> QED  BY <2>1, <3>1, <1>f DEF Track, Waiting
  <2>3. CASE UNCHANGED progress  BY <2>1, <2>3, <1>k DEF Early
  <2> QED  BY <1>2, <2>2, <2>3 DEF MarkQueued
<1>3. CASE Ask(r)
  BY <1>3, <1>g, <1>k DEF Ask, fileVars, Early
<1>4. CASE Admit(r)
  BY <1>4, <1>g, <1>k DEF Admit, fileVars, Early
<1>5. CASE Enter(r)
  <2>1. pc[r] = "enter" /\ UNCHANGED <<progress, job, stage>> /\ pc'[r] \in {"begin", "clean"}
    BY <1>5, <1>g DEF Enter, fileVars
  <2>2. Waiting(r)'  BY <2>1, <1>w DEF Track, Early
  <2> QED  BY <2>1, <2>2, <1>n DEF Track
<1>6. CASE Clean(r)
  <2>1. pc[r] = "clean" /\ UNCHANGED <<progress, job, stage>> /\ pc'[r] \in {"load", "outer"}
    BY <1>6, <1>g DEF Clean
  <2>2. Waiting(r)'  BY <2>1, <1>w DEF Track
  <2> QED  BY <2>1, <2>2, <1>n DEF Track
<1>7. CASE Load(r)
  <2>1. pc[r] = "load" /\ UNCHANGED <<progress, job, stage>> /\ pc'[r] \in {"begin", "outer"}
    BY <1>7, <1>g DEF Load, fileVars
  <2>2. Waiting(r)'  BY <2>1, <1>w DEF Track
  <2> QED  BY <2>1, <2>2, <1>n DEF Track
<1>8. CASE Begin(r)
  <2> DEFINE n == IF pc[r] = "begin" THEN s ELSE Succ[s]
  <2>1. pc[r] \in {"begin", "next"} /\ UNCHANGED job /\ stage'[r] = n
    BY <1>8, <1>t DEF Begin
  <2>2. CASE progress' = Put(f, n) /\ Goto(r, "work")
    <3>1. progress'[f] = n /\ pc'[r] = "work"  BY <2>2, <1>p, <1>g
    <3> QED  BY <2>1, <3>1, <1>f, <1>n DEF Track
  <2>3. CASE UNCHANGED progress /\ Goto(r, "outer")
    <3>1. pc'[r] = "outer"  BY <2>3, <1>g
    <3>2. CASE pc[r] = "begin"
      BY <2>1, <2>3, <3>1, <3>2, <1>f, <1>n DEF Track, Waiting
    <3>3. CASE pc[r] = "next"
      <4>1. p = s /\ stage'[r] = Succ[s]  BY <2>1, <3>3 DEF Track
      <4> QED  BY <2>1, <2>3, <3>1, <4>1, <1>t, <1>f, <1>n DEF Track
    <3> QED  BY <2>1, <3>2, <3>3
  <2> QED  BY <1>8, <2>2, <2>3 DEF Begin
<1>9. CASE Save(r)
  <2>1. /\ pc[r] = "work" /\ UNCHANGED <<progress, job, stage>>
        /\ pc'[r] \in {"next", "inner", "outer"}
    BY <1>9, <1>g DEF Save
  <2> QED  BY <2>1, <1>s, <1>o
<1>10. CASE Embed(r)
  <2>1. /\ pc[r] = "work" /\ UNCHANGED <<progress, job, stage>>
        /\ pc'[r] \in {"next", "inner", "outer"}
    BY <1>10, <1>g DEF Embed
  <2> QED  BY <2>1, <1>s, <1>o
<1>11. CASE StoreSome(r)
  <2>1. /\ pc[r] = "work" /\ UNCHANGED <<progress, job, stage>> /\ pc'[r] \in {"more", "inner"}
    BY <1>11, <1>g DEF StoreSome
  <2> QED  BY <2>1, <1>s
<1>12. CASE ExtractRest(r)
  <2>1. /\ pc[r] = "more" /\ UNCHANGED <<progress, job, stage>> /\ pc'[r] \in {"next", "inner"}
    BY <1>12, <1>g DEF ExtractRest
  <2> QED  BY <2>1, <1>s
<1>13. CASE AnalyzeRest(r)
  <2>1. pc[r] = "more" /\ s = "analyzing" /\ UNCHANGED <<job, stage>>  BY <1>13 DEF AnalyzeRest
  <2>2. CASE progress' = Put(f, "complete") /\ Goto(r, "seal")
    <3>1. progress'[f] = "complete" /\ pc'[r] = "seal"  BY <2>2, <1>p, <1>g
    <3> QED  BY <2>1, <3>1, <1>f, <1>n DEF Track, Finished
  <2>3. CASE UNCHANGED progress /\ Goto(r, "inner")
    BY <2>1, <2>3, <1>g, <1>s
  <2> QED  BY <1>13, <2>2, <2>3 DEF AnalyzeRest
<1>14. CASE Seal(r)
  <2>1. pc[r] = "seal" /\ s = "analyzing" /\ UNCHANGED <<job, stage>>
    BY <1>14 DEF Seal, Track, Finished
  <2>2. CASE progress' = Put(f, "complete") /\ Goto(r, "notify")
    <3>1. progress'[f] = "complete" /\ pc'[r] = "notify"  BY <2>2, <1>p, <1>g
    <3> QED  BY <2>1, <3>1, <1>f, <1>n DEF Track, Finished
  <2>3. CASE UNCHANGED progress /\ Goto(r, "inner")
    <3>1. Finished(r)' /\ pc'[r] = "inner"  BY <2>1, <2>3, <1>w, <1>g DEF Track
    <3> QED  BY <3>1, <1>n DEF Track
  <2> QED  BY <1>14, <2>2, <2>3 DEF Seal
<1>15. CASE InnerMark(r)
  <2>1. pc[r] = "inner" /\ UNCHANGED <<job, stage>> /\ pc'[r] = "outer"
    BY <1>15, <1>g DEF InnerMark
  <2>2. CASE progress' = Put(f, Failed[s])
    <3>1. progress'[f] = Failed[s]  BY <2>2, <1>p
    <3> QED  BY <2>1, <3>1, <1>f, <1>n DEF Track
  <2>3. CASE UNCHANGED progress  BY <2>1, <2>3, <1>o
  <2> QED  BY <1>15, <2>2, <2>3 DEF InnerMark
<1>16. CASE OuterMark(r)
  <2>1. pc'[r] \in {"idle", "lost", "leave"}  BY <1>16, <1>g, <1>l DEF OuterMark
  <2> QED  BY <2>1, TrackElsewhere
<1>17. CASE Leave(r)
  BY <1>17, <1>l, TrackElsewhere DEF Leave
<1>18. CASE UnstartedMark(r)
  BY <1>18, <1>l, TrackElsewhere DEF UnstartedMark
<1>19. CASE Cancel(r)
  <2>0. UNCHANGED progress  BY <1>19 DEF Cancel, fileVars
  <2>1. CASE /\ pc[r] \in {"mark", "ask", "wait", "enter"} /\ UNCHANGED <<job, stage>>
             /\ pc'[r] \in {"unstarted", "lost"}
    <3>1. Waiting(r)'  BY <2>0, <2>1, <1>w DEF Track, Early
    <3> QED  BY <2>1, <3>1, <1>n DEF Track
  <2>2. CASE pc[r] \in Body \ {"outer"} /\ pc'[r] = "outer" /\ UNCHANGED <<job, stage>>
    BY <2>0, <2>2, <1>o DEF Body
  <2>3. CASE pc[r] = "next" /\ pc'[r] = "outer" /\ UNCHANGED job /\ stage'[r] = Succ[s]
    <3>1. p = s  BY <2>3 DEF Track
    <3> QED  BY <2>0, <2>3, <3>1, <1>t, <1>f, <1>n DEF Track
  <2>4. CASE Lose(r)  BY <2>4, <1>l, TrackElsewhere
  <2>5. \/ Lose(r)
        \/ /\ pc[r] \in {"mark", "ask", "wait", "enter"} /\ UNCHANGED <<job, stage>>
           /\ pc'[r] \in {"unstarted", "lost"}
        \/ /\ pc[r] \in Body \ {"outer"} /\ pc'[r] = "outer" /\ UNCHANGED job
           /\ UNCHANGED stage \/ (pc[r] = "next" /\ stage'[r] = Succ[s])
    <3>1. [stage EXCEPT ![r] = Succ[@]][r] = Succ[s]  BY <1>t
    <3> QED  BY <1>19, <1>g, <3>1 DEF Cancel
  <2> QED  BY <2>1, <2>2, <2>3, <2>4, <2>5
<1>20. CASE Close(r)
  BY <1>20, <1>l, TrackElsewhere DEF Close
<1> QED
  BY <1>1, <1>2, <1>3, <1>4, <1>5, <1>6, <1>7, <1>8, <1>9, <1>10, <1>11,
     <1>12, <1>13, <1>14, <1>15, <1>16, <1>17, <1>18, <1>19, <1>20 DEF RunStep

-----------------------------------------------------------------------------
(* What is stored behind a run.                                             *)

(* What the stages before s store is complete. *)
Before(f, s) == \A a \in Artifacts \ Ahead(s) : Right(f, a)

(* Nothing is stored that the document does not yield. *)
Yielded(f) == \A a \in Artifacts \ doc[f] : store[f][a] = "none"

(* A status tells what is stored: a stage, failed or under way, that        *)
(* everything before it is; "complete", that everything is.                 *)
Kept(f) ==
  /\ Yielded(f)
  /\ \A s \in Stages : progress[f] \in {s, Failed[s]} => Before(f, s)
  /\ progress[f] = "complete" => Whole(f)

(* So does the place where a run stands. *)
Built(r) ==
  LET f == FileOf(r)
      a == Product[stage[r]]
  IN /\ pc[r] \notin {"idle", "lost", "leave"} => Before(f, stage[r])
     /\ pc[r] = "next" => Right(f, a)
     /\ pc[r] = "more" /\ a \in doc[f] =>
          store[f][a] = "part" \/ (stage[r] = "analyzing" /\ Breaks({"db"}))
     /\ pc[r] \in {"seal", "notify"} => Whole(f)

(* The stage after a complete one has everything before it. *)
LEMMA BeforeNext ==
  ASSUME NEW f, NEW s \in Stages \ {"analyzing"}, Before(f, s), Right(f, Product[s])
  PROVE  Before(f, Succ[s])
<1>1. Ahead(Succ[s]) = Ahead(s) \ {Product[s]}  BY AheadFits
<1> QED  BY <1>1 DEF Before

(* The last stage complete, everything is. *)
LEMMA BeforeLast ==
  ASSUME NEW f, Before(f, "analyzing"), Right(f, "analysis")
  PROVE  Whole(f)
<1>1. Ahead("analyzing") = {"analysis"}  BY AheadCases
<1> QED  BY <1>1 DEF Before, Whole

(* Before any stage there is nothing to be complete. *)
LEMMA BeforeFirst == \A f : Before(f, "parsing")
<1>1. Ahead("parsing") = Artifacts  BY AheadFits
<1> QED  BY <1>1 DEF Before

(* What a step stores ahead of a stage does not touch what is before it. *)
LEMMA BeforeKept ==
  ASSUME NEW f \in Files, NEW s \in Stages, Before(f, s), doc'[f] = doc[f], UNCHANGED world,
         \A a \in Artifacts \ Ahead(s) : store'[f][a] = store[f][a]
  PROVE  Before(f, s)'
<1>1. Ahead(s)' = Ahead(s)  BY DEF Ahead, Product
<1> QED  BY <1>1 DEF Before, Right, Breaks

(* A file of which only the status changes. *)
LEMMA KeptStatus ==
  ASSUME NEW f \in Files, Kept(f), doc'[f] = doc[f], store'[f] = store[f], UNCHANGED world,
         \/ progress'[f] \in {progress[f], "queued", "deleted"}
         \/ \E s \in Stages : progress'[f] \in {s, Failed[s]} /\ Before(f, s)
         \/ progress'[f] = "complete" /\ Whole(f)
  PROVE  Kept(f)'
<1>1. Yielded(f)'  BY DEF Kept, Yielded
<1>2. ASSUME NEW s \in Stages, progress'[f] \in {s, Failed[s]} PROVE Before(f, s)'
  <2>1. Before(f, s)
    BY <1>2, FailedTells DEF Kept
  <2> QED  BY <2>1, BeforeKept
<1>3. ASSUME progress'[f] = "complete" PROVE Whole(f)'
  <2>1. Whole(f)  BY <1>3, FailedTells DEF Kept
  <2> QED  BY <2>1 DEF Whole, Right, Breaks
<1> QED  BY <1>1, <1>2, <1>3 DEF Kept, Stages

(* A file whose status is about stage s, of which something ahead changes.  *)
LEMMA KeptAhead ==
  ASSUME NEW f \in Files, NEW s \in Stages, Kept(f), Before(f, s), doc'[f] = doc[f], UNCHANGED world,
         \A a \in Artifacts \ Ahead(s) : store'[f][a] = store[f][a],
         Yielded(f)', progress'[f] \in {"queued", "deleted", s, Failed[s]}
  PROVE  Kept(f)'
<1>1. Before(f, s)'  BY BeforeKept
<1>2. \A t \in Stages : progress'[f] \in {t, Failed[t]} => t = s
  BY FailedTells
<1>3. progress'[f] # "complete"  BY FailedTells
<1> QED  BY <1>1, <1>2, <1>3 DEF Kept

(* A run that ends. *)
LEMMA BuiltElsewhere ==
  ASSUME NEW r \in Runs, pc'[r] \in {"idle", "lost", "leave"}
  PROVE  Built(r)'
BY DEF Built

(* A run of which only what is before its stage matters. *)
LEMMA BuiltPlain ==
  ASSUME NEW r \in Runs, NEW f \in Files, NEW s \in Stages, FileOf(r)' = f, stage'[r] = s,
         pc'[r] \notin {"next", "more", "seal", "notify"}, Before(f, s)'
  PROVE  Built(r)'
BY DEF Built

(* What the storing of an artifact leaves. *)
LEMMA StoreResult ==
  ASSUME TypeOK, NEW f \in Files, NEW a \in Artifacts
  PROVE  /\ \A l : Raise(f, a, l)[f][a] = l
         /\ \A l : \A b \in Artifacts \ {a} : Raise(f, a, l)[f][b] = store[f][b]
         /\ a \notin doc[f] => Grown(f, a) = store
         /\ a \in doc[f] =>
              /\ Grown(f, a)[f][a] = IF store[f][a] = "none" THEN "part" ELSE "all"
              /\ \A b \in Artifacts \ {a} : Grown(f, a)[f][b] = store[f][b]
BY DEF Raise, Grown, TypeOK

(* A step of a run keeps its file and what is stored behind it in order.    *)
LEMMA BuiltStep ==
  ASSUME TypeOK, Alone, NEW r \in Runs, Active(r), Vacant(r), Track(r), Built(r),
         NEW f \in Files, FileOf(r) = f, Kept(f),
         Local(r), RunStep(r) \/ Cancel(r) \/ Close(r)
  PROVE  Built(r)' /\ Kept(f)'
<1> PICK s \in Stages : stage[r] = s
  BY DEF TypeOK
<1> DEFINE a == Product[s]
<1>t. /\ pc \in [Runs -> PCs] /\ stage \in [Runs -> Stages] /\ doc'[f] = doc[f]
      /\ progress[f] # "deleted" /\ Kept(f)
  BY DEF TypeOK, Alone, Local
<1>w. UNCHANGED world  BY DEF Local
<1> USE <1>w DEF Breaks
<1>g. \A x : Goto(r, x) => pc'[r] = x  BY <1>t DEF Goto
<1>p. \A v : progress' = Put(f, v) => progress'[f] = v
  BY <1>t, PutLocal
<1>f. UNCHANGED job => FileOf(r)' = f  BY DEF FileOf
<1>b. pc[r] # "leave" => Before(f, s)
  BY DEF Built, Active
<1>a. a \in Artifacts /\ a \in Ahead(s)  BY TableTypes, AheadFits
<1>y. Yielded(f)  BY <1>t DEF Kept
<1>d. /\ progress[f] \in {"queued", s, Failed[s]}
           \/ pc[r] \notin {"clean", "load", "begin", "work", "more", "next"}
  BY DEF Track, Waiting
<1>l. Lose(r) \/ End(r) => pc'[r] \in {"idle", "lost", "leave"}
  BY <1>t, <1>g DEF Lose, End
<1>k. UNCHANGED <<store, progress>> => Kept(f)'
  BY <1>t, KeptStatus
<1>j. UNCHANGED store /\ pc[r] # "leave" => Before(f, s)'
  BY <1>t, <1>b, BeforeKept
<1>x. ASSUME UNCHANGED <<store, progress, job, stage>>, pc[r] # "leave",
             pc'[r] \notin {"next", "more", "seal", "notify"}
      PROVE  Built(r)' /\ Kept(f)'
  BY <1>x, <1>f, <1>j, <1>k, BuiltPlain
<1> USE DEF fileVars
<1>1. CASE Arrive(r)
  BY <1>1, <1>g, <1>x DEF Arrive
<1>2. CASE MarkQueued(r)
  <2>1. pc[r] = "mark" /\ pc'[r] = "ask" /\ UNCHANGED <<store, job, stage>>
    BY <1>2, <1>g DEF MarkQueued
  <2>2. progress'[f] \in {progress[f], "queued"}  BY <1>2, <1>p DEF MarkQueued
  <2>3. Kept(f)'  BY <2>1, <2>2, <1>t, KeptStatus
  <2>4. Built(r)'  BY <2>1, <1>f, <1>j, BuiltPlain
  <2> QED  BY <2>1, <2>3, <2>4
<1>3. CASE Ask(r)
  <2>1. pc[r] = "ask" /\ pc'[r] \in {"enter", "wait"} /\ UNCHANGED <<store, progress, job, stage>>
    BY <1>3, <1>g DEF Ask
  <2> QED  BY <2>1, <1>x
<1>4. CASE Admit(r)
  BY <1>4, <1>g, <1>x DEF Admit
<1>5. CASE Enter(r)
  <2>1. pc[r] = "enter" /\ pc'[r] \in {"begin", "clean"} /\ UNCHANGED <<store, progress, job, stage>>
    BY <1>5, <1>g DEF Enter
  <2> QED  BY <2>1, <1>x
<1>6. CASE Clean(r)
  <2>1. /\ pc[r] = "clean" /\ UNCHANGED <<progress, job, stage>> /\ pc'[r] \in {"load", "outer"}
    BY <1>6, <1>g DEF Clean
  <2>2. s \in RetryStages  BY <2>1 DEF Vacant
  <2>3. Downstream[s] = Ahead(s)  BY <2>2, AheadFits
  <2>4. UNCHANGED store \/ \E S \in SUBSET Ahead(s) : store' = Erase(f, S)
    <3>1. \/ UNCHANGED store \/ store' = Erase(f, Ahead(s))
          \/ store' = Erase(f, Ahead(s) \ {"vectors"})
          \/ store' = Erase(f, Ahead(s) \cap {"vectors"})
      BY <1>6, <2>3 DEF Clean
    <3> QED  BY <3>1
  <2>5. \A b \in Artifacts : store'[f][b] = store[f][b] \/ (b \in Ahead(s) /\ store'[f][b] = "none")
    BY <2>4, EraseResult
  <2>6. \A b \in Artifacts \ Ahead(s) : store'[f][b] = store[f][b]  BY <2>5
  <2>7. Yielded(f)'  BY <2>5, <1>y, <1>t DEF Yielded
  <2>8. progress'[f] \in {"queued", s, Failed[s]}  BY <2>1, <1>d
  <2>9. Before(f, s)  BY <2>1, <1>b
  <2>10. Kept(f)'  BY <2>6, <2>7, <2>8, <2>9, <1>t, KeptAhead
  <2>11. Before(f, s)'  BY <2>6, <2>9, <1>t, BeforeKept
  <2>12. Built(r)'  BY <2>1, <2>11, <1>f, BuiltPlain
  <2> QED  BY <2>1, <2>10, <2>12
<1>7. CASE Load(r)
  <2>1. pc[r] = "load" /\ pc'[r] \in {"begin", "outer"} /\ UNCHANGED <<store, progress, job, stage>>
    BY <1>7, <1>g DEF Load
  <2> QED  BY <2>1, <1>x
<1>8. CASE Begin(r)
  <2>1. /\ pc[r] \in {"begin", "next"} /\ UNCHANGED <<store, job>>
        /\ stage'[r] = IF pc[r] = "begin" THEN s ELSE Succ[s]
        /\ pc'[r] \in {"work", "outer"}
    BY <1>8, <1>t, <1>g DEF Begin
  <2> PICK n \in Stages : stage'[r] = n
    BY <2>1, TableTypes
  <2>2. Before(f, n)
    <3>1. CASE pc[r] = "begin"  BY <3>1, <2>1, <1>b
    <3>2. CASE pc[r] = "next"
      <4>1. s # "analyzing" /\ Right(f, a)  BY <3>2 DEF Vacant, Built
      <4>2. Before(f, Succ[s])  BY <4>1, <2>1, <1>b, BeforeNext
      <4>3. n = Succ[s]  BY <2>1, <3>2
      <4> QED  BY <4>2, <4>3
    <3> QED  BY <3>1, <3>2, <2>1
  <2>3. progress'[f] \in {progress[f], n}
    <3>1. UNCHANGED progress \/ progress' = Put(f, n)
      BY <1>8, <2>1 DEF Begin
    <3> QED  BY <3>1, <1>p
  <2>4. Kept(f)'  BY <2>1, <2>2, <2>3, <1>t, KeptStatus
  <2>5. Before(f, n)'  BY <2>1, <2>2, <1>t, BeforeKept
  <2>6. Built(r)'  BY <2>1, <2>5, <1>f, BuiltPlain
  <2> QED  BY <2>1, <2>4, <2>6
<1>e. ASSUME pc[r] \in {"work", "more"}, UNCHANGED <<progress, job, stage>>,
             \A b \in Artifacts \ {a} : store'[f][b] = store[f][b],
             a \notin doc[f] => store'[f][a] = "none"
      PROVE  Before(f, s)' /\ Kept(f)'
  <2>1. \A b \in Artifacts \ Ahead(s) : store'[f][b] = store[f][b]  BY <1>e, <1>a
  <2>2. Yielded(f)'  BY <1>e, <1>y, <1>t DEF Yielded
  <2>3. progress'[f] \in {"queued", s, Failed[s]}  BY <1>e, <1>d
  <2>4. Before(f, s)  BY <1>e, <1>b
  <2> QED  BY <2>1, <2>2, <2>3, <2>4, <1>t, KeptAhead, BeforeKept
<1>E. ASSUME pc[r] \in {"work", "more"}, UNCHANGED <<progress, job, stage>>,
             Before(f, s)' /\ Kept(f)',
             pc'[r] \in {"inner", "outer", "next", "more"},
             pc'[r] = "next" => Right(f, a)',
             pc'[r] = "more" /\ a \in doc[f] =>
               store'[f][a] = "part" \/ (s = "analyzing" /\ Breaks({"db"}))
      PROVE  Built(r)' /\ Kept(f)'
  <2>1. FileOf(r)' = f /\ stage'[r] = s  BY <1>E, <1>f
  <2>2. Product[stage[r]]' = a  BY <2>1 DEF Product
  <2> QED  BY <1>E, <2>1, <2>2, <1>t DEF Built
<1>v. \A b \in Ahead(s) : pc[r] = "work" => Empty(f, b)
  BY DEF Vacant
<1>9. CASE Save(r)
  <2> DEFINE clash == s # "parsing" /\ a \in doc[f] /\ store[f][a] # "none"
             saved == IF a \in doc[f] /\ ~clash THEN Raise(f, a, "all") ELSE store
  <2>1. /\ pc[r] = "work" /\ s \in {"parsing", "tableing", "chunking"}
        /\ UNCHANGED <<progress, job, stage>> /\ pc'[r] \in {"next", "inner", "outer"}
        /\ store' \in {store, saved} /\ (pc'[r] = "next" => ~clash /\ store' = saved)
    BY <1>9, <1>g DEF Save
  <2>2. \A b \in Artifacts \ {a} : store'[f][b] = store[f][b]
    BY <2>1, <1>a, StoreResult
  <2>3. a \notin doc[f] => store'[f][a] = "none"
    BY <2>1, <1>a, <1>y DEF Yielded
  <2>4. pc'[r] = "next" => Right(f, a)'
    <3> SUFFICES ASSUME pc'[r] = "next" PROVE store'[f][a] = IF a \in doc'[f] THEN "all" ELSE "none"
      BY DEF Right
    <3>1. CASE a \in doc[f]  BY <3>1, <2>1, <1>a, <1>t, StoreResult
    <3>2. CASE a \notin doc[f]  BY <3>2, <2>3, <1>t
    <3> QED  BY <3>1, <3>2
  <2>5. Before(f, s)' /\ Kept(f)'  BY <2>1, <2>2, <2>3, <1>e
  <2> HIDE DEF saved, clash
  <2> QED  BY <2>1, <2>4, <2>5, <1>E
<1>10. CASE Embed(r)
  <2>1. /\ pc[r] = "work" /\ s = "embedding" /\ UNCHANGED <<progress, job, stage>>
        /\ pc'[r] \in {"next", "inner", "outer"}
    BY <1>10, <1>g DEF Embed
  <2>2. a = "vectors" /\ "vectors" \in Artifacts
    BY <2>1 DEF Product, Stages, RetryStages, Artifacts
  <2>3. CASE a \in doc[f]
    <3>1. /\ UNCHANGED store \/ \E l : store' = Raise(f, a, l)
          /\ pc'[r] = "next" =>
               store' = Raise(f, a, IF store[f][a] = "none" THEN "all" ELSE "dup")
      BY <1>10, <2>2, <2>3, <1>g DEF Embed
    <3>2. \A b \in Artifacts \ {a} : store'[f][b] = store[f][b]
      BY <3>1, <1>a, StoreResult
    <3>3. ASSUME pc'[r] = "next" PROVE Right(f, a)'
      <4>1. store'[f][a] = IF store[f][a] = "none" THEN "all" ELSE "dup"
        BY <3>1, <3>3, <1>a, StoreResult
      <4>2. store[f][a] = "none" \/ Breaks({"milvus"})
        BY <2>1, <1>a, <1>v DEF Empty
      <4>3. a \in doc'[f]  BY <2>3, <1>t
      <4> HIDE DEF a
      <4> QED  BY <4>1, <4>2, <4>3, <2>2 DEF Right
    <3>4. Before(f, s)' /\ Kept(f)'  BY <2>1, <2>3, <3>2, <1>e
    <3> QED  BY <2>1, <3>3, <3>4, <1>E
  <2>4. CASE a \notin doc[f]
    <3>1. UNCHANGED store  BY <1>10, <2>2, <2>4 DEF Embed
    <3>2. store'[f][a] = "none"  BY <3>1, <2>4, <1>a, <1>y DEF Yielded
    <3>3. Right(f, a)'  BY <3>2, <2>4, <1>t DEF Right
    <3>4. Before(f, s)' /\ Kept(f)'  BY <2>1, <3>1, <3>2, <1>e
    <3> QED  BY <2>1, <3>3, <3>4, <1>E
  <2> QED  BY <2>3, <2>4
<1>11. CASE StoreSome(r)
  <2>1. /\ pc[r] = "work" /\ s \in {"extracting", "analyzing"} /\ UNCHANGED <<progress, job, stage>>
        /\ pc'[r] \in {"more", "inner"}
        /\ store' \in {store, Grown(f, a)}
        /\ pc'[r] = "more" /\ store[f][a] = "none" =>
             \/ store' = Grown(f, a) \/ (s = "analyzing" /\ Breaks({"db"}))
    BY <1>11, <1>g DEF StoreSome
  <2>2. a # "vectors"  BY <2>1 DEF Product, Stages, RetryStages
  <2>3. store[f][a] = "none"  BY <2>1, <2>2, <1>a, <1>v DEF Empty
  <2>4. \A b \in Artifacts \ {a} : store'[f][b] = store[f][b]
    BY <2>1, <1>a, StoreResult
  <2>5. a \notin doc[f] => store'[f][a] = "none"
    BY <2>1, <2>3, <1>a, StoreResult
  <2>6. pc'[r] = "more" /\ a \in doc[f] =>
          store'[f][a] = "part" \/ (s = "analyzing" /\ Breaks({"db"}))
    BY <2>1, <2>3, <1>a, StoreResult
  <2>7. Before(f, s)' /\ Kept(f)'  BY <2>1, <2>4, <2>5, <1>e
  <2> HIDE DEF a
  <2> QED  BY <2>1, <2>6, <2>7, <1>E
<1>12. CASE ExtractRest(r)
  <2>1. pc[r] = "more" /\ s = "extracting"  BY <1>12 DEF ExtractRest
  <2>2. a = "extraction"  BY <2>1 DEF Product, Stages, RetryStages
  <2>3. /\ UNCHANGED <<progress, job, stage>> /\ pc'[r] \in {"next", "inner"}
        /\ store' \in {store, Grown(f, a)} /\ (pc'[r] = "next" => store' = Grown(f, a))
    BY <1>12, <2>2, <1>g DEF ExtractRest
  <2>4. a \in doc[f] => store[f][a] = "part"  BY <2>1 DEF Built
  <2>5. a \notin doc[f] => store'[f][a] = "none"
    BY <2>3, <1>a, <1>y, StoreResult DEF Yielded
  <2>6. \A b \in Artifacts \ {a} : store'[f][b] = store[f][b]
    BY <2>3, <1>a, StoreResult
  <2>7. pc'[r] = "next" => Right(f, a)'
    <3> SUFFICES ASSUME pc'[r] = "next" PROVE store'[f][a] = IF a \in doc'[f] THEN "all" ELSE "none"
      BY DEF Right
    <3>1. CASE a \in doc[f]  BY <3>1, <2>3, <2>4, <1>a, <1>t, StoreResult
    <3>2. CASE a \notin doc[f]  BY <3>2, <2>5, <1>t
    <3> QED  BY <3>1, <3>2
  <2>8. Before(f, s)' /\ Kept(f)'  BY <2>1, <2>3, <2>5, <2>6, <1>e
  <2> HIDE DEF a
  <2> QED  BY <2>1, <2>3, <2>7, <2>8, <1>E
<1>13. CASE AnalyzeRest(r)
  <2>1. /\ pc[r] = "more" /\ s = "analyzing" /\ UNCHANGED <<job, stage>>
    BY <1>13 DEF AnalyzeRest
  <2>2. a = "analysis"  BY <2>1 DEF Product, Stages, RetryStages
  <2>3. store' = Grown(f, a) \/ (Breaks({"db"}) /\ UNCHANGED store)
    BY <1>13, <2>2 DEF AnalyzeRest
  <2>4. a \in doc[f] => store[f][a] = "part" \/ Breaks({"db"})  BY <2>1 DEF Built
  <2>5. a \notin doc[f] => store'[f][a] = "none"
    BY <2>3, <1>a, <1>y, StoreResult DEF Yielded
  <2>6. \A b \in Artifacts \ {a} : store'[f][b] = store[f][b]
    BY <2>3, <1>a, StoreResult
  <2>7. Right(f, a)'
    <3>1. CASE a \notin doc[f]  BY <3>1, <2>5, <1>t DEF Right
    <3>2. CASE a \in doc[f] /\ Breaks({"db"})
      <4> HIDE DEF a
      <4> QED  BY <3>2, <2>2, <1>t DEF Right
    <3>3. CASE a \in doc[f] /\ ~Breaks({"db"})
      <4>1. store'[f][a] = "all"  BY <3>3, <2>3, <2>4, <1>a, StoreResult
      <4> QED  BY <3>3, <4>1, <1>t DEF Right
    <3> QED  BY <3>1, <3>2, <3>3
  <2>8. CASE progress' = Put(f, "complete") /\ Goto(r, "seal")
    <3>1. progress'[f] = "complete" /\ pc'[r] = "seal"  BY <2>8, <1>p, <1>g
    <3>2. \A b \in Artifacts \ Ahead(s) : store'[f][b] = store[f][b]  BY <2>6, <1>a
    <3>3. Before(f, s)'  BY <3>2, <2>1, <1>b, <1>t, BeforeKept
    <3>4. Whole(f)'
      <4>1. (\A b \in Artifacts \ Ahead(s) : Right(f, b))'  BY <3>3 DEF Before
      <4>2. Ahead(s) = {"analysis"}  BY <2>1, AheadCases
      <4>3. Ahead(s)' = Ahead(s)  BY DEF Ahead, Product
      <4>4. \A b \in Artifacts : Right(f, b)'  BY <4>1, <4>2, <4>3, <2>2, <2>7
      <4>5. Whole(f)' <=> \A b \in Artifacts : Right(f, b)'  BY DEF Whole, Right
      <4> QED  BY <4>4, <4>5
    <3>5. Yielded(f)'  BY <2>5, <2>6, <1>y, <1>t DEF Yielded
    <3>6. Kept(f)'  BY <3>1, <3>4, <3>5, FailedTells DEF Kept
    <3>7. FileOf(r)' = f /\ stage'[r] = s  BY <2>1, <1>f
    <3> QED  BY <3>1, <3>3, <3>4, <3>6, <3>7 DEF Built
  <2>9. CASE UNCHANGED progress /\ Goto(r, "inner")
    <3>1. pc'[r] = "inner"  BY <2>9, <1>g
    <3>2. Before(f, s)' /\ Kept(f)'  BY <2>1, <2>5, <2>6, <2>9, <1>e
    <3> QED  BY <2>1, <2>9, <3>1, <3>2, <1>E
  <2> QED  BY <1>13, <2>8, <2>9 DEF AnalyzeRest
<1>14. CASE Seal(r)
  <2>1. pc[r] = "seal" /\ Whole(f) /\ UNCHANGED <<store, job, stage>>
    BY <1>14 DEF Seal, Built
  <2>2. progress'[f] \in {progress[f], "complete"}  BY <1>14, <1>p DEF Seal
  <2>3. Kept(f)'  BY <2>1, <2>2, <1>t, KeptStatus
  <2>4. Before(f, s)' /\ Whole(f)' /\ FileOf(r)' = f /\ stage'[r] = s
    BY <2>1, <1>t, <1>j, <1>f DEF Whole, Right
  <2>5. pc'[r] \in {"notify", "inner"}  BY <1>14, <1>g DEF Seal
  <2> QED  BY <2>3, <2>4, <2>5 DEF Built
<1>15. CASE InnerMark(r)
  <2>1. pc[r] = "inner" /\ pc'[r] = "outer" /\ UNCHANGED <<store, job, stage>>
    BY <1>15, <1>g DEF InnerMark
  <2>2. progress'[f] \in {progress[f], Failed[s]}  BY <1>15, <1>p DEF InnerMark
  <2>3. Kept(f)'  BY <2>1, <2>2, <1>b, <1>t, KeptStatus
  <2>4. Built(r)'  BY <2>1, <1>f, <1>j, BuiltPlain
  <2> QED  BY <2>1, <2>3, <2>4
<1>m. ASSUME UNCHANGED store, progress'[f] \in {progress[f], Failed[s]},
             pc[r] # "leave" \/ UNCHANGED progress
      PROVE  Kept(f)'
  BY <1>m, <1>b, <1>t, KeptStatus
<1>z. ASSUME Kept(f)', pc'[r] \in {"idle", "lost", "leave"}
      PROVE  Built(r)' /\ Kept(f)'
  BY <1>z, BuiltElsewhere
<1>16. CASE OuterMark(r)
  <2>1. pc[r] = "outer" /\ UNCHANGED store /\ pc'[r] \in {"idle", "lost", "leave"}
    BY <1>16, <1>g, <1>l DEF OuterMark
  <2>2. progress'[f] \in {progress[f], Failed[s]}  BY <1>16, <1>p DEF OuterMark
  <2> QED  BY <2>1, <2>2, <1>m, <1>z
<1>17. CASE Leave(r)
  BY <1>17, <1>l, <1>k, <1>z DEF Leave
<1>18. CASE UnstartedMark(r)
  <2>1. pc[r] = "unstarted" /\ UNCHANGED store /\ pc'[r] \in {"idle", "lost", "leave"}
    BY <1>18, <1>g, <1>l DEF UnstartedMark
  <2>2. progress'[f] \in {progress[f], Failed[s]}  BY <1>18, <1>p DEF UnstartedMark
  <2> QED  BY <2>1, <2>2, <1>m, <1>z
<1>19. CASE Cancel(r)
  <2>0. UNCHANGED <<progress, store>>  BY <1>19 DEF Cancel
  <2>1. Kept(f)'  BY <2>0, <1>k
  <2>2. CASE Lose(r)  BY <2>1, <2>2, <1>l, <1>z
  <2>3. CASE UNCHANGED <<job, stage>> /\ pc[r] # "leave" /\ pc'[r] \in {"unstarted", "lost", "outer"}
    BY <2>0, <2>3, <1>x
  <2>4. CASE pc[r] = "next" /\ pc'[r] = "outer" /\ UNCHANGED job /\ stage'[r] = Succ[s]
    <3>1. s # "analyzing" /\ Right(f, a)  BY <2>4 DEF Vacant, Built
    <3>2. Before(f, Succ[s])  BY <2>4, <3>1, <1>b, BeforeNext
    <3> PICK n \in Stages : n = Succ[s]  BY TableTypes
    <3>3. Before(f, n)'  BY <2>0, <3>2, <1>t, BeforeKept
    <3> QED  BY <2>1, <2>4, <3>3, <1>f, BuiltPlain
  <2>5. \/ Lose(r)
        \/ UNCHANGED <<job, stage>> /\ pc[r] # "leave" /\ pc'[r] \in {"unstarted", "lost", "outer"}
        \/ pc[r] = "next" /\ pc'[r] = "outer" /\ UNCHANGED job /\ stage'[r] = Succ[s]
    <3>1. [stage EXCEPT ![r] = Succ[@]][r] = Succ[s]  BY <1>t
    <3> QED  BY <1>19, <1>g, <3>1 DEF Cancel, Body
  <2> QED  BY <2>2, <2>3, <2>4, <2>5
<1>20. CASE Close(r)
  BY <1>20, <1>l, <1>k, <1>z DEF Close
<1> QED
  BY <1>1, <1>2, <1>3, <1>4, <1>5, <1>6, <1>7, <1>8, <1>9, <1>10, <1>11,
     <1>12, <1>13, <1>14, <1>15, <1>16, <1>17, <1>18, <1>19, <1>20 DEF RunStep

-----------------------------------------------------------------------------
(* The status, the runs and the store agree.                                *)

Agreement ==
  /\ \A r \in Runs : Track(r) /\ Built(r)
  /\ \A f \in Files : Kept(f)

(* Everything that Agreement is inductive relative to. *)
Ground ==
  TypeOK /\ Accounted /\ Alone /\ Vacancy /\ AllGone

(* At first there is nothing to agree about. *)
LEMMA AgreementInit == Init => Agreement
<1> SUFFICES ASSUME Init PROVE Agreement
  OBVIOUS
<1>1. \A r \in Runs : Track(r) /\ Built(r)
  BY TrackInit DEF Init, Built
<1>2. ASSUME NEW f \in Files PROVE Kept(f)
  <2>1. progress[f] = "unused"  BY DEF Init
  <2>2. Yielded(f)  BY DEF Init, Yielded
  <2> QED  BY <2>1, <2>2, FailedTells DEF Kept
<1> QED  BY <1>1, <1>2 DEF Agreement

(* A run that does not move, on a file that does not change. *)
LEMMA RunUntouched ==
  ASSUME Agreement, NEW q \in Runs,
         job'[q] = job[q], stage'[q] = stage[q], pc'[q] = pc[q], UNCHANGED world,
         Active(q) => /\ progress'[FileOf(q)] = progress[FileOf(q)]
                      /\ store'[FileOf(q)] = store[FileOf(q)]
                      /\ doc'[FileOf(q)] = doc[FileOf(q)]
  PROVE  Track(q)' /\ Built(q)'
<1>1. CASE ~Active(q)
  BY <1>1, TrackElsewhere, BuiltElsewhere DEF Active
<1>2. CASE Active(q)
  <2>1. /\ FileOf(q)' = FileOf(q) /\ progress'[FileOf(q)] = progress[FileOf(q)]
        /\ store'[FileOf(q)] = store[FileOf(q)] /\ doc'[FileOf(q)] = doc[FileOf(q)]
    BY <1>2 DEF FileOf
  <2>2. Track(q)'
    BY <2>1 DEF Agreement, Track, Waiting, Finished
  <2>3. /\ Ahead(stage[q])' = Ahead(stage[q])
        /\ Product[stage[q]]' = Product[stage[q]]
    BY DEF Ahead, Product
  <2>4. /\ Before(FileOf(q), stage[q])' <=> Before(FileOf(q), stage[q])
        /\ Right(FileOf(q), Product[stage[q]])' <=> Right(FileOf(q), Product[stage[q]])
        /\ Whole(FileOf(q))' <=> Whole(FileOf(q))
    BY <2>1, <2>3 DEF Before, Right, Whole, Breaks
  <2>5. Built(q)'
    BY <2>1, <2>3, <2>4 DEF Agreement, Built, Breaks
  <2> QED  BY <2>2, <2>5
<1> QED  BY <1>1, <1>2

(* Agreement is inductive relative to Ground, given careful clients. *)
LEMMA AgreementStep ==
  ASSUME Careful, Ground, Agreement, [Next]_vars
  PROVE  Agreement'
<1>t. /\ TypeOK /\ Accounted /\ Alone /\ Vacancy /\ Polite
      /\ \A r \in Runs : FileOf(r) \in Files /\ stage[r] \in Stages
  BY DEF Ground, Careful, TypeOK, Jobs, FileOf
<1>w. UNCHANGED world  BY <1>t, WorldStays
<1> USE <1>w DEF Breaks
<1>1. ASSUME NEW r \in Runs, RunStep(r) \/ Cancel(r) \/ Close(r) PROVE Agreement'
  <2> PICK f \in Files : FileOf(r) = f  BY <1>t
  <2>1. Local(r)  BY <1>1, <1>t, StepIsLocal
  <2>2. Active(r) /\ Vacant(r) /\ Track(r) /\ Built(r) /\ Kept(f)
    BY <2>1, <1>t DEF Local, Vacancy, Agreement
  <2>3. Track(r)'  BY <1>1, <1>t, <2>2, TrackStep
  <2>4. Built(r)' /\ Kept(f)'  BY <1>1, <1>t, <2>1, <2>2, BuiltStep
  <2>5. ASSUME NEW q \in Runs, q # r PROVE Track(q)' /\ Built(q)'
    <3>1. job'[q] = job[q] /\ stage'[q] = stage[q] /\ pc'[q] = pc[q]
      BY <2>1, <2>5 DEF Local
    <3>2. Active(q) => FileOf(q) # f  BY <2>1, <2>5, <1>t DEF Local, Alone
    <3>3. Active(q) => /\ progress'[FileOf(q)] = progress[FileOf(q)]
                       /\ store'[FileOf(q)] = store[FileOf(q)]
                       /\ doc'[FileOf(q)] = doc[FileOf(q)]
      BY <2>1, <3>2, <1>t DEF Local
    <3> QED  BY <3>1, <3>3, RunUntouched
  <2>6. ASSUME NEW g \in Files, g # f PROVE Kept(g)'
    BY <2>1, <2>6, KeptStatus DEF Local, Agreement
  <2> QED  BY <2>3, <2>4, <2>5, <2>6 DEF Agreement
<1>2. ASSUME NEW r \in Runs, Request(r) PROVE Agreement'
  <2>1. PICK f \in Files, m \in Modes :
          Submit(r, f, m) \/ \E s \in RetryStages : Retry(r, f, s, m)
    BY <1>2 DEF Request
  <2>2. \A q \in Runs : FileOf(q) = f => ~Active(q)  BY <2>1, <1>t, AskedIsFree
  <2>3. /\ \A q \in Runs \ {r} : job'[q] = job[q] /\ stage'[q] = stage[q] /\ pc'[q] = pc[q]
        /\ FileOf(r)' = f /\ pc[r] = "idle" /\ pc'[r] = "arrive"
        /\ \A g \in Files \ {f} : progress'[g] = progress[g] /\ doc'[g] = doc[g]
        /\ UNCHANGED store
    BY <2>1, <1>t, RequestMoves
  <2>4. ASSUME NEW q \in Runs, q # r PROVE Track(q)' /\ Built(q)'
    BY <2>2, <2>3, <2>4, <1>t, RunUntouched
  <2>5. ASSUME NEW g \in Files, g # f PROVE Kept(g)'
    BY <2>3, <2>5, KeptStatus DEF Agreement
  <2>6. CASE Submit(r, f, m)
    <3>1. /\ progress[f] = "unused" /\ progress'[f] = "queued"
          /\ stage'[r] = stage[r] /\ job'[r].kind = "parse"
      BY <2>6, <1>t DEF Submit, TypeOK
    <3>2. stage'[r] = "parsing"  BY <2>3, <3>1, <1>t DEF Vacancy, Vacant
    <3>3. Yielded(f)'
      BY <2>3, <3>1, <1>t DEF Vacancy, Fresh, Yielded
    <3>4. Kept(f)'
      BY <3>1, <3>3, FailedTells DEF Kept
    <3>5. Ahead("parsing") = Artifacts /\ Ahead("parsing")' = Ahead("parsing")
      BY AheadFits DEF Ahead, Product
    <3>6. Before(f, "parsing")'  BY <3>5 DEF Before
    <3>7. "parsing" \in Stages  BY DEF Stages
    <3>8. Built(r)'  BY <2>3, <3>2, <3>6, <3>7, BuiltPlain
    <3>9. Track(r)'  BY <2>3, <3>1 DEF Track, Waiting
    <3> QED  BY <2>4, <2>5, <3>4, <3>8, <3>9 DEF Agreement
  <2>7. CASE \E s \in RetryStages : Retry(r, f, s, m)
    <3>1. PICK s \in RetryStages : Retry(r, f, s, m)  BY <2>7
    <3>2. /\ UNCHANGED <<progress, doc>> /\ stage'[r] = s /\ job'[r].kind = "retry"
      BY <3>1, <1>t DEF Retry, fileVars, TypeOK
    <3>3. progress[f] = Failed[s]
      BY <3>1 DEF Retry, MayRetry, Careful, Polite
    <3>4. s \in Stages  BY DEF Stages
    <3>5. Before(f, s)  BY <3>3, <3>4 DEF Agreement, Kept
    <3>6. Before(f, s)'  BY <2>3, <3>2, <3>4, <3>5, BeforeKept
    <3>7. Built(r)'  BY <2>3, <3>2, <3>4, <3>6, BuiltPlain
    <3>8. Track(r)'
      <4>1. Waiting(r)'  BY <2>3, <3>2, <3>3 DEF Waiting
      <4> QED  BY <2>3, <3>2, <4>1 DEF Track
    <3>9. Kept(f)'  BY <2>3, <3>2, KeptStatus DEF Agreement
    <3> QED  BY <2>4, <2>5, <3>7, <3>8, <3>9 DEF Agreement
  <2> QED  BY <2>1, <2>6, <2>7
<1>3. ASSUME NEW f \in Files, UNCHANGED <<job, stage, pc, doc>>,
             \A r \in Runs : FileOf(r) = f => ~Active(r),
             \A g \in Files \ {f} : progress'[g] = progress[g] /\ store'[g] = store[g],
             progress'[f] = "deleted", 
             \A a \in Artifacts : store'[f][a] \in {store[f][a], "none"}
      PROVE  Agreement'
  <2>1. \A r \in Runs : Track(r)' /\ Built(r)'  BY <1>3, <1>t, RunUntouched
  <2>2. \A g \in Files \ {f} : Kept(g)'  BY <1>3, KeptStatus DEF Agreement
  <2>3. Yielded(f)'  BY <1>3 DEF Agreement, Kept, Yielded
  <2>4. Kept(f)'  BY <1>3, <2>3, FailedTells DEF Kept
  <2> QED  BY <2>1, <2>2, <2>4 DEF Agreement
<1>4. ASSUME NEW f \in Files, Delete(f) PROVE Agreement'
  <2>1. \A r \in Runs : FileOf(r) = f => ~Active(r)
    BY <1>4, <1>t, LiveEmpty DEF Delete, Polite, Breaks
  <2>2. /\ UNCHANGED <<job, stage, pc, doc>> /\ store' = Erase(f, Artifacts \ {"vectors"})
        /\ progress' = [progress EXCEPT ![f] = "deleted"]
    BY <1>4 DEF Delete, runVars
  <2>3. /\ progress'[f] = "deleted" /\ \A g \in Files \ {f} : progress'[g] = progress[g]
    BY <2>2, <1>t DEF TypeOK
  <2> QED  BY <2>1, <2>2, <2>3, <1>3, <1>t, EraseResult
<1>5. ASSUME NEW f \in Files, Sweep(f) PROVE Agreement'
  <2>1. progress[f] = "deleted"  BY <1>5 DEF Sweep, Ground, AllGone, Gone
  <2>2. \A r \in Runs : FileOf(r) = f => ~Active(r)  BY <2>1, <1>t DEF Alone
  <2>3. UNCHANGED <<progress, doc, job, stage, pc>>  BY <1>5 DEF Sweep, runVars
  <2>4. store' = Erase(f, {"vectors"}) \/ UNCHANGED store  BY <1>5 DEF Sweep
  <2>5. /\ \A g \in Files \ {f} : store'[g] = store[g]
        /\ \A a \in Artifacts : store'[f][a] \in {store[f][a], "none"}
    BY <2>4, <1>t, EraseResult
  <2> QED  BY <2>1, <2>2, <2>3, <2>5, <1>3
<1>q. ASSUME \A r \in Runs : pc'[r] = "idle", \A f \in Files : Kept(f)'
      PROVE  Agreement'
  BY <1>q, TrackElsewhere, BuiltElsewhere DEF Agreement
<1>6. ASSUME Crash PROVE Agreement'
  <2>1. ASSUME NEW g \in Files PROVE Kept(g)'
    <3>1. UNCHANGED <<progress, doc>>  BY <1>6 DEF Crash
    <3>2. CASE store'[g] = store[g]  BY <3>1, <3>2, KeptStatus DEF Agreement
    <3>3. CASE store'[g] # store[g]
      <4>1. PICK r \in Runs : /\ pc[r] = "work" /\ stage[r] = "embedding"
                              /\ "vectors" \in doc[FileOf(r)]
                              /\ store' = Raise(FileOf(r), "vectors", "part")
        BY <1>6, <3>3 DEF Crash
      <4>2. FileOf(r) = g  BY <4>1, <3>3, <1>t, OneFileStored
      <4>3. progress[g] = "embedding"  BY <4>1, <4>2 DEF Agreement, Track
      <4>4. "embedding" \in Stages /\ "vectors" \in Artifacts /\ "vectors" \in Ahead("embedding")
        BY AheadCases DEF Stages, RetryStages, Artifacts
      <4>5. Before(g, "embedding") /\ Yielded(g)  BY <4>3, <4>4 DEF Agreement, Kept
      <4>6. \A a \in Artifacts \ {"vectors"} : store'[g][a] = store[g][a]
        BY <4>1, <4>2, <4>4, <1>t, OneArtifactStored
      <4>7. Yielded(g)'  BY <3>1, <4>1, <4>2, <4>5, <4>6 DEF Yielded
      <4>8. \A a \in Artifacts \ Ahead("embedding") : store'[g][a] = store[g][a]
        BY <4>4, <4>6
      <4> QED  BY <3>1, <4>3, <4>4, <4>5, <4>7, <4>8, KeptAhead DEF Agreement
    <3> QED  BY <3>2, <3>3
  <2> QED  BY <1>6, <2>1, <1>q DEF Crash
<1>7. ASSUME Recover PROVE Agreement'
  <2>1. \A r \in Runs : pc'[r] = "idle"
    BY <1>7, <1>t DEF Recover, runVars, Accounted, Restart
  <2>2. ASSUME NEW g \in Files PROVE Kept(g)'
    <3>1. UNCHANGED <<doc, store>> /\ Kept(g)  BY <1>7 DEF Recover, Agreement
    <3>2. CASE progress[g] = "queued"
      <4>1. progress'[g] = Failed["parsing"]  BY <1>7, <3>2, <1>t, RecoverResult
      <4>2. "parsing" \in Stages  BY DEF Stages
      <4> QED  BY <3>1, <4>1, <4>2, BeforeFirst, KeptStatus
    <3>3. CASE progress[g] \in Stages
      <4>1. progress'[g] = Failed[progress[g]]  BY <1>7, <3>3, <1>t, RecoverResult
      <4>2. Before(g, progress[g])  BY <3>1, <3>3 DEF Kept
      <4> QED  BY <3>1, <3>3, <4>1, <4>2, KeptStatus
    <3>4. CASE progress[g] \notin Stages \cup {"queued"}
      <4>1. progress'[g] = progress[g]  BY <1>7, <3>4, <1>t, RecoverResult
      <4> QED  BY <3>1, <4>1, KeptStatus
    <3> QED  BY <3>2, <3>3, <3>4
  <2> QED  BY <2>1, <2>2, <1>q
<1>8. ASSUME CleanUp PROVE Agreement'
  <2>1. /\ \A r \in Runs : pc'[r] = "idle"
        /\ UNCHANGED <<progress, doc>>
    BY <1>8, <1>t DEF CleanUp, runVars, Accounted, Restart
  <2>2. ASSUME NEW g \in Files PROVE Kept(g)'
    <3>1. Kept(g) /\ store \in [Files -> [Artifacts -> Levels]]
      BY <1>t DEF Agreement, TypeOK
    <3>2. \A a \in Artifacts : store'[g][a] \in {store[g][a], "none"}
      BY <1>8 DEF CleanUp
    <3>3. Yielded(g)'  BY <2>1, <3>1, <3>2 DEF Kept, Yielded
    <3>4. CASE \E s \in Stages : progress[g] = Failed[s]
      <4> PICK s \in Stages : progress[g] = Failed[s]  BY <3>4
      <4>1. \A a \in Artifacts \ Ahead(s) : store'[g][a] = store[g][a]
        <5>1. Garbage[s] \subseteq Ahead(s)  BY AheadFits
        <5>2. \A t \in Stages : progress[g] = Failed[t] => t = s  BY FailedTells
        <5> QED  BY <1>8, <5>1, <5>2 DEF CleanUp
      <4>2. Before(g, s)  BY <3>1 DEF Kept
      <4> QED  BY <2>1, <3>1, <3>3, <4>1, <4>2, KeptAhead
    <3>5. CASE \A s \in Stages : progress[g] # Failed[s]
      <4>1. \A a \in Artifacts : store'[g][a] = store[g][a]
        BY <1>8, <3>5 DEF CleanUp
      <4>2. ASSUME NEW s \in Stages, progress'[g] \in {s, Failed[s]} PROVE Before(g, s)'
        <5>1. Before(g, s)  BY <2>1, <3>1, <4>2 DEF Kept
        <5> QED  BY <2>1, <4>1, <5>1, BeforeKept
      <4>3. progress'[g] = "complete" => Whole(g)'
        BY <2>1, <3>1, <4>1 DEF Kept, Whole, Right
      <4> QED  BY <3>3, <4>2, <4>3 DEF Kept
    <3> QED  BY <3>4, <3>5
  <2> QED  BY <2>1, <2>2, <1>q
<1>9. ASSUME UNCHANGED vars PROVE Agreement'
  <2>1. UNCHANGED <<progress, store, doc, job, stage, pc>>
    BY <1>9 DEF vars, fileVars, runVars
  <2> QED  BY <2>1, RunUntouched, KeptStatus DEF Agreement
<1> QED
  BY <1>1, <1>2, <1>4, <1>5, <1>6, <1>7, <1>8, <1>9 DEF Next

(* Both hold of every state careful clients can bring about. *)
LEMMA SpecAgrees == Spec => [](Careful => Ground /\ Agreement)
<1>1. Spec => [](TypeOK /\ (Careful => Ground))
  <2>1. TypeOK /\ Accounted /\ (Polite => Alone) /\ (Polite => Vacancy) /\ (Polite => AllGone)
          => TypeOK /\ (Careful => Ground)
    BY DEF Ground, Careful
  <2> QED  BY <2>1, SpecAlone, SpecVacancy, SpecGone, PTL
<1>2. /\ TypeOK /\ (Careful => Ground) /\ (Careful => Agreement) /\ [Next]_vars
      => (Careful => Agreement)'
  BY AgreementStep, HabitsStay
<1> QED  BY <1>1, <1>2, AgreementInit, PTL DEF Spec

(* For clients that send one request per file at a time and retry only the  *)
(* stage that failed: a file shown as complete has everything its document  *)
(* yields and nothing else, at every moment, however often its stages       *)
(* failed, were cancelled, lost or cut short by a restart before.           *)
THEOREM CompleteFilesAreWhole == Spec => []CompleteIsWhole
<1>1. (Careful => Agreement) => CompleteIsWhole
  BY DEF Agreement, Kept, CompleteIsWhole
<1> QED  BY <1>1, SpecAgrees, PTL

(* For the same clients, what the documentation says a caller may read of a *)
(* complete file is there, restarts included.                               *)
THEOREM CompleteFilesAreReadable == Spec => [](Careful => CompleteIsReadable)
<1>1. CompleteIsWhole => (Careful => CompleteIsReadable)
  BY DEF CompleteIsWhole, CompleteIsReadable
<1> QED  BY <1>1, CompleteFilesAreWhole, PTL

(* For the same clients, a failure status is a sound offer to retry: of the *)
(* stage it names every input is stored in full, whichever step failed, was *)
(* cancelled, lost or cut short by a restart, and whoever wrote the status: *)
(* the stage's handler, the run's, a cancelled request or the recovery.     *)
THEOREM FailuresAreRetryable == Spec => []FailedHasInputs
<1>1. (Careful => Agreement) => FailedHasInputs
  BY DEF Agreement, Kept, Before, FailedHasInputs
<1> QED  BY <1>1, SpecAgrees, PTL
=============================================================================
