--------------------------- MODULE FieldExtraction --------------------------
(***************************************************************************)
(* The extraction of the fields of ONE file (service/extraction_service.py).*)
(*                                                                         *)
(* A PASS is one call of run_extraction or run_extraction_stream (a stage   *)
(* pass, which stores its results) or of iter_temporary_extraction_results  *)
(* (a debug pass, which only hands them out).  Nothing keeps several passes *)
(* off one file.  A pass runs its basic fields, then its advanced fields,   *)
(* which quote the basic ones.  Every field of a group is a worker task     *)
(* under two pools: the file's own, found by name in a registry, and        *)
(* `global_extraction`.  The pass takes the results in the order in which   *)
(* they come, one at a time.                                                *)
(*                                                                         *)
(* A pass is two nested asynchronous generators and their consumer.  A      *)
(* generator that is dropped at a `yield` is closed later, by the event     *)
(* loop, the outer one before the inner one: meanwhile the workers run on.  *)
(***************************************************************************)
EXTENDS Naturals, FiniteSets

CONSTANTS Passes,
          Basic, Advanced,   \* the enabled fields, by is_advanced
          TaskLimit,         \* concurrency.task_extraction
          GlobalLimit,       \* concurrency.global_extraction
          Faults             \* what may go wrong, see FaultKinds

FaultKinds ==
  {"db",      \* a MySQL statement of a pass fails
   "cancel",  \* the task that runs a pass is cancelled
   "close"}   \* a streaming client goes away

ASSUME PassesFinite == IsFiniteSet(Passes)
ASSUME FieldsFinite == IsFiniteSet(Basic) /\ IsFiniteSet(Advanced)
ASSUME FieldsDisjoint == Basic \cap Advanced = {}
ASSUME LimitsPositive == TaskLimit \in Nat \ {0} /\ GlobalLimit \in Nat \ {0}
ASSUME FaultsKnown == Faults \subseteq FaultKinds

Fields == Basic \cup Advanced

VARIABLES debug,       \* the passes that are debug passes
          place,       \* where the consumer of each pass stands
          closing,     \* how far the generators of an ended pass are closed
          task,        \* what became of each field in each pass
          known,       \* field_values: basic fields an advanced one can quote
          rows,        \* fields with a row in extraction_result
          pool,        \* the file's pool as each pass got it, 0 for none
          registered,  \* the pool under the file's name, 0 for none
          made,        \* pools made for this file so far
          view         \* the rows as each pass saw them when it began

vars == <<debug, place, closing, task, known, rows, pool, registered, made, view>>

Groups == {"basic", "advanced"}
Members(g) == IF g = "basic" THEN Basic ELSE Advanced

(* A worker waits for the file's pool, then for the global one, then works; *)
(* its result waits, is being stored, is with the consumer, is done with.   *)
Active  == {"queued", "admitted", "running"}
Saving  == {"inserting", "updating"}
Handed  == {"handed", "taken"}
TaskStates == {"none", "computed", "stopped"} \cup Active \cup Saving \cup Handed

Places == {"idle", "stopping", "done", "failed"} \cup Groups

(* "outer", "inner": that generator is to be closed; "stopping": the        *)
(* workers have been cancelled.                                             *)
Closings == {"no", "outer", "inner", "stopping"}

Init ==
  /\ debug \in SUBSET Passes
  /\ place = [p \in Passes |-> "idle"]
  /\ closing = [p \in Passes |-> "no"]
  /\ task = [p \in Passes |-> [f \in Fields |-> "none"]]
  /\ known = [p \in Passes |-> {}]
  /\ rows = {}
  /\ pool = [p \in Passes |-> 0]
  /\ registered = 0
  /\ made = 0
  /\ view = [p \in Passes |-> {}]

-----------------------------------------------------------------------------
(* Groups *)

(* Mutant of Register: the registry is not looked at. *)
MutRegisterAlwaysNew(p) ==
  /\ made' = made + 1
  /\ registered' = made + 1
  /\ pool' = [pool EXCEPT ![p] = made + 1]

(* register_task_limiter: the pool under the file's name, or a new one. *)
Register(p) ==
  IF registered = 0
    THEN /\ made' = made + 1
         /\ registered' = made + 1
         /\ pool' = [pool EXCEPT ![p] = made + 1]
    ELSE /\ pool' = [pool EXCEPT ![p] = registered]
         /\ UNCHANGED <<registered, made>>

(* A pass enters a group: _iter_field_group registers and makes the tasks.  *)
(* Before the first one it has read its fields: its transaction sees the    *)
(* rows of that moment until it commits (REPEATABLE READ).                  *)
Enter(p, g) ==
  /\ place' = [place EXCEPT ![p] = g]
  /\ task' = [task EXCEPT ![p] =
       [f \in Fields |-> IF f \in Members(g) THEN "queued" ELSE task[p][f]]]
  /\ Register(p)
  /\ view' = IF place[p] = "idle" THEN [view EXCEPT ![p] = rows] ELSE view
  /\ UNCHANGED <<closing, known, rows, debug>>

(* The `finally` of a pass: the name is removed, whoever uses the pool. *)
Unregister == registered' = 0 /\ UNCHANGED <<pool, made>>

Finish(p) ==
  /\ place' = [place EXCEPT ![p] = "done"]
  /\ Unregister
  /\ UNCHANGED <<closing, task, known, rows, debug, view>>

(* Empty groups are skipped. *)
Start(p) ==
  /\ place[p] = "idle"
  /\ IF Fields = {}
       THEN Finish(p)
       ELSE Enter(p, IF Basic # {} THEN "basic" ELSE "advanced")

(* Mutant of NextGroup: the barrier waits for the workers, not for their    *)
(* results.                                                                 *)
MutNextGroupWhenComputed(p) ==
  /\ place[p] \in Groups
  /\ closing[p] = "no"
  /\ \A f \in Members(place[p]) : task[p][f] \in {"computed"} \cup Handed
  /\ IF place[p] = "basic" /\ Advanced # {}
       THEN Enter(p, "advanced")
       ELSE Finish(p)

(* Every result of the group was taken: the inner generator returns.  This  *)
(* is the barrier between basic and advanced fields.                        *)
NextGroup(p) ==
  /\ place[p] \in Groups
  /\ closing[p] = "no"
  /\ \A f \in Members(place[p]) : task[p][f] = "taken"
  /\ IF place[p] = "basic" /\ Advanced # {}
       THEN Enter(p, "advanced")
       ELSE Finish(p)

-----------------------------------------------------------------------------
(* Workers *)

Set(p, f, s) == task' = [task EXCEPT ![p][f] = s]

UsesPool(n) ==
  {w \in Passes \X Fields :
     pool[w[1]] = n /\ task[w[1]][w[2]] \in {"admitted", "running"}}

Running == {w \in Passes \X Fields : task[w[1]][w[2]] = "running"}

Works(p) == closing[p] # "stopping"

TakeTask(p, f) ==
  /\ Works(p)
  /\ task[p][f] = "queued"
  /\ Cardinality(UsesPool(pool[p])) < TaskLimit
  /\ Set(p, f, "admitted")
  /\ UNCHANGED <<place, closing, known, rows, pool, registered, made, debug, view>>

TakeGlobal(p, f) ==
  /\ Works(p)
  /\ task[p][f] = "admitted"
  /\ Cardinality(Running) < GlobalLimit
  /\ Set(p, f, "running")
  /\ UNCHANGED <<place, closing, known, rows, pool, registered, made, debug, view>>

(* Mutant of Compute: a failed attempt is repeated, however often. *)
MutComputeRepeats(p, f) ==
  /\ Works(p)
  /\ task[p][f] = "running"
  /\ Set(p, f, "computed") \/ Set(p, f, "queued")
  /\ UNCHANGED <<place, closing, known, rows, pool, registered, made, debug, view>>

(* The field was extracted or the attempt failed: either is a result, and   *)
(* both pools are left.                                                     *)
Compute(p, f) ==
  /\ Works(p)
  /\ task[p][f] = "running"
  /\ Set(p, f, "computed")
  /\ UNCHANGED <<place, closing, known, rows, pool, registered, made, debug, view>>

(* A cancelled worker unwinds through both pools. *)
Stop(p, f) ==
  /\ closing[p] = "stopping"
  /\ task[p][f] \in Active
  /\ Set(p, f, "stopped")
  /\ UNCHANGED <<place, closing, known, rows, pool, registered, made, debug, view>>

-----------------------------------------------------------------------------
(* Results *)

(* The consumer waits for the next completed worker. *)
Waits(p) ==
  /\ place[p] \in Groups
  /\ closing[p] = "no"
  /\ \A f \in Fields : task[p][f] \notin Saving \cup {"handed"}

(* The rows a pass sees: those of its start until it has saved a field. *)
Seen(p) == IF \E f \in Fields : task[p][f] \in Handed THEN rows ELSE view[p]

(* Mutant of Deliver: is_advanced is not looked at. *)
MutDeliverQuotesAll(p, f) ==
  /\ Waits(p)
  /\ task[p][f] = "computed"
  /\ known' = [known EXCEPT ![p] = @ \cup {f}]
  /\ Set(p, f, IF p \in debug THEN "handed"
               ELSE IF f \in Seen(p) THEN "updating" ELSE "inserting")
  /\ UNCHANGED <<place, closing, rows, pool, registered, made, debug, view>>

(* _format_field_computation makes a basic field quotable.  Then a debug    *)
(* pass hands the item out; a stage pass looks for the field's row.         *)
Deliver(p, f) ==
  /\ Waits(p)
  /\ task[p][f] = "computed"
  /\ known' = [known EXCEPT ![p] = @ \cup ({f} \cap Basic)]
  /\ Set(p, f, IF p \in debug THEN "handed"
               ELSE IF f \in Seen(p) THEN "updating" ELSE "inserting")
  /\ UNCHANGED <<place, closing, rows, pool, registered, made, debug, view>>

(* The commit; an insert beside a row of another pass breaks the key. *)
Persist(p, f) ==
  /\ \/ task[p][f] = "updating"
     \/ task[p][f] = "inserting" /\ f \notin rows
  /\ place[p] \in Groups
  /\ rows' = rows \cup {f}
  /\ Set(p, f, "handed")
  /\ UNCHANGED <<place, closing, known, pool, registered, made, debug, view>>

(* The callback of the stage is answered, the client asks for more. *)
Resume(p, f) ==
  /\ place[p] \in Groups
  /\ task[p][f] = "handed"
  /\ Set(p, f, "taken")
  /\ UNCHANGED <<place, closing, known, rows, pool, registered, made, debug, view>>

-----------------------------------------------------------------------------
(* Ways out *)

(* An exception in _persist_field_computation: the key collides, MySQL      *)
(* fails or the task is cancelled, and then the row may be there all the    *)
(* same.  `async for` does not close the inner generator it leaves.         *)
FailSave(p, f) ==
  /\ place[p] \in Groups
  /\ task[p][f] \in Saving
  /\ \/ task[p][f] = "inserting" /\ f \in rows /\ UNCHANGED rows
     \/ /\ Faults \cap {"db", "cancel"} # {}
        /\ rows' \in {rows, rows \cup {f}}
  /\ Set(p, f, "stopped")
  /\ place' = [place EXCEPT ![p] = "failed"]
  /\ closing' = [closing EXCEPT ![p] = "inner"]
  /\ Unregister
  /\ UNCHANGED <<known, debug, view>>

(* Mutant of Cancel: no `except BaseException` around the results. *)
MutCancelForgetsWorkers(p) ==
  /\ "cancel" \in Faults
  /\ Waits(p)
  /\ place' = [place EXCEPT ![p] = "failed"]
  /\ Unregister
  /\ UNCHANGED <<closing, task, known, rows, debug, view>>

(* CancelledError while the consumer waits for a worker: the workers are    *)
(* cancelled and waited for.                                                *)
Cancel(p) ==
  /\ "cancel" \in Faults
  /\ Waits(p)
  /\ place' = [place EXCEPT ![p] = "stopping"]
  /\ closing' = [closing EXCEPT ![p] = "stopping"]
  /\ UNCHANGED <<task, known, rows, pool, registered, made, debug, view>>

(* The workers are gone, or a second cancellation ends the wait for them. *)
Unwound(p) ==
  /\ place[p] = "stopping"
  /\ \/ "cancel" \in Faults
     \/ \A f \in Fields : task[p][f] \notin Active
  /\ place' = [place EXCEPT ![p] = "failed"]
  /\ Unregister
  /\ UNCHANGED <<closing, task, known, rows, debug, view>>

(* The consumer is cancelled in its callback, or closed at its own `yield`, *)
(* while the outer generator is suspended.                                  *)
Drop(p) ==
  /\ Faults \cap {"cancel", "close"} # {}
  /\ place[p] \in Groups
  /\ \E f \in Fields : task[p][f] = "handed"
  /\ place' = [place EXCEPT ![p] = "failed"]
  /\ closing' = [closing EXCEPT ![p] = "outer"]
  /\ UNCHANGED <<task, known, rows, pool, registered, made, debug, view>>

(* The event loop closes the outer generator: its `finally` runs, the inner *)
(* one is dropped.                                                          *)
CloseOuter(p) ==
  /\ closing[p] = "outer"
  /\ closing' = [closing EXCEPT ![p] = "inner"]
  /\ Unregister
  /\ UNCHANGED <<place, task, known, rows, debug, view>>

(* GeneratorExit at the inner `yield` cancels the workers. *)
CloseInner(p) ==
  /\ closing[p] = "inner"
  /\ closing' = [closing EXCEPT ![p] = "stopping"]
  /\ UNCHANGED <<place, task, known, rows, pool, registered, made, debug, view>>

-----------------------------------------------------------------------------

FieldStep(p, f) ==
  \/ TakeTask(p, f) \/ TakeGlobal(p, f) \/ Compute(p, f) \/ Stop(p, f)
  \/ Deliver(p, f) \/ Persist(p, f) \/ Resume(p, f) \/ FailSave(p, f)

PassStep(p) ==
  \/ Start(p) \/ NextGroup(p)
  \/ Cancel(p) \/ Unwound(p)
  \/ Drop(p) \/ CloseOuter(p) \/ CloseInner(p)

(* Every pass has ended and left no worker: nothing happens any more. *)
Quiet == \A p \in Passes : \A f \in Fields :
           /\ place[p] \in {"done", "failed"}
           /\ closing[p] \in {"no", "stopping"}
           /\ task[p][f] \notin Active

Next ==
  \/ \E p \in Passes : PassStep(p) \/ \E f \in Fields : FieldStep(p, f)
  \/ Quiet /\ UNCHANGED vars

Spec == Init /\ [][Next]_vars

(* Workers and consumers run when they can: LLM calls, MySQL and callbacks  *)
(* have timeouts, a client takes the next item or goes away, and the event  *)
(* loop closes what was dropped.  Requests and faults are never forced.     *)
Fairness ==
  \A p \in Passes :
    /\ WF_vars(NextGroup(p))
    /\ WF_vars(Unwound(p))
    /\ WF_vars(CloseOuter(p))
    /\ WF_vars(CloseInner(p))
    /\ \A f \in Fields : WF_vars(FieldStep(p, f))

FairSpec == Spec /\ Fairness

-----------------------------------------------------------------------------
(* Properties *)

(* Type correctness; a pool in use or in the registry was made before. *)
TypeOK ==
  /\ debug \subseteq Passes
  /\ place \in [Passes -> Places]
  /\ closing \in [Passes -> Closings]
  /\ task \in [Passes -> [Fields -> TaskStates]]
  /\ known \in [Passes -> SUBSET Basic]
  /\ rows \subseteq Fields
  /\ made \in Nat
  /\ pool \in [Passes -> 0..made]
  /\ registered \in 0..made
  /\ view \in [Passes -> SUBSET Fields]

(* The barrier of _iter_extraction_results: an advanced field starts only   *)
(* when every basic field of its pass can be quoted and, in a stage pass,   *)
(* is stored; otherwise it would quote an empty value.                      *)
BarrierRespected ==
  \A p \in Passes : \A f \in Advanced :
    task[p][f] # "none" =>
      known[p] = Basic /\ (p \notin debug => Basic \subseteq rows)

(* No worker is forgotten: a pass that is done has none, and the workers a  *)
(* failed pass leaves behind are cancelled or about to be, on every way out *)
(* of the two generators.                                                   *)
NoStragglers ==
  \A p \in Passes : \A f \in Fields :
    task[p][f] \in Active =>
      place[p] \notin {"idle", "done"} /\ (place[p] = "failed" => closing[p] # "no")

InFile == {w \in Passes \X Fields : task[w[1]][w[2]] \in {"admitted", "running"}}

(* Overlapping passes share the file's pool, so that the file stays within  *)
(* task_extraction, as long as none of them has left.                       *)
SharedCap ==
  (\A p \in Passes : place[p] \notin {"done", "failed"}) =>
    Cardinality(InFile) <= TaskLimit

(* The cap of one file without that condition: at most task_extraction      *)
(* fields of a file are in work.                                            *)
FileCap == Cardinality(InFile) <= TaskLimit

(* A pass that was started ends, and its workers with it: no wait for one   *)
(* of the two pools or for the consumer is for ever.                        *)
PassEnds ==
  \A p \in Passes :
    place[p] \in Groups ~>
      /\ place[p] \in {"done", "failed"}
      /\ \A f \in Fields : task[p][f] \notin Active

(* What a pass promises to the pipeline and to a debug request: its results *)
(* are the items handed out, and it is open while its consumer is at work.  *)
Results == [p \in Passes |-> {f \in Fields : task[p][f] \in Handed}]

OutcomeOf(s) == IF s \in {"idle", "done", "failed"} THEN s ELSE "open"
Outcome == [p \in Passes |-> OutcomeOf(place[p])]

Contract == INSTANCE StageContract WITH
              Items <- Fields, results <- Results, outcome <- Outcome

(* Results come one at a time, each field at most once; a pass that is done *)
(* has one for every field, failed ones included; nothing comes after the   *)
(* end, although workers may still run.                                     *)
PassContract == Contract!ContractSpec
=============================================================================
