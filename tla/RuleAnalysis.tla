---------------------------- MODULE RuleAnalysis ----------------------------
(***************************************************************************)
(* The analysis rules of one document type, run over one file.              *)
(*                                                                         *)
(* A CALL is a request to POST /analysis/run, answered when it is done      *)
(* (sync), by a background task that reports to a callback (async) or by an *)
(* event stream (stream), or the analysis stage of a pipeline run (stage).  *)
(* Every rule of a call is a unit of work under nested pools: its own       *)
(* (independent_analysis or the file's task_file_analysis), then            *)
(* global_analysis, then global_llm for each request to the model.          *)
(*                                                                         *)
(* An independent call keeps a row in invocation_log, an async one a row in *)
(* analysis_task as well; `persist` and the stage write analysis_result.    *)
(* The four stores are written by separate sessions, any of which may fail. *)
(***************************************************************************)
EXTENDS Naturals, Sequences, FiniteSets

CONSTANTS Calls,
          Requests,     \* what each call may ask, records of RequestType
          RuleCount,    \* rules of the type, numbered by (priority, rule_id)
          Enabled,      \* the rules that are switched on
          Depends,      \* the fields each rule refers to
          Calc,         \* the rules evaluated without a model
          OwnLimit, GlobalLimit, LlmLimit,
          MaxAttempts,  \* requests to the model for one rule: retry_count
          Faults, MaxFaults  \* what may go wrong (FaultKinds), how often

Rules == 1..RuleCount

FaultKinds ==
  {"log",     \* a write of invocation_log fails
   "db",      \* any other MySQL statement fails
   "cancel",  \* the task that runs a call is cancelled
   "close",   \* a streaming client goes away
   "wipe",    \* a retry or a deletion removes the results of the file
   "crash"}   \* the service stops and starts again

(* ids: whether rules are asked for by name; fields: those with a value;    *)
(* simple: callback_mode; persist: source=file with persist=true.           *)
RequestType ==
  [mode: {"sync", "async", "stream", "stage"},
   ids: {"all", "named"}, named: SUBSET Rules,
   fields: SUBSET UNION {Depends[r] : r \in Rules},
   simple: BOOLEAN, persist: BOOLEAN]

NoRequest == [mode |-> "none"]

ASSUME CallsFinite == IsFiniteSet(Calls)
ASSUME RulesOK == RuleCount \in Nat /\ Enabled \subseteq Rules /\ Calc \subseteq Rules
ASSUME RequestsOK == \A c \in Calls : Requests[c] \subseteq RequestType
ASSUME LimitsPositive ==
  {OwnLimit, GlobalLimit, LlmLimit, MaxAttempts} \subseteq Nat \ {0}
ASSUME FaultsKnown == Faults \subseteq FaultKinds /\ MaxFaults \in Nat

VARIABLES request,  \* what each call asks
          at,       \* where the code that serves each call stands
          task,     \* its row in analysis_task
          log,      \* its row in invocation_log
          unit,     \* where each rule of a call stands
          tries,    \* failed requests to the model, per rule of a call
          seen,     \* the rules with a row, as the call's session sees them
          rows,     \* the rules with a row in analysis_result
          stored,   \* the rules whose row a call has written
          told,     \* the events of a call, in order
          lost,     \* writes of the call's own rows that failed
          server,   \* "up", or the step of start-up that comes next
          faults    \* faults so far

callVars == <<request, at, task, log, unit, tries, seen, stored, told, lost>>
vars == <<callVars, rows, server, faults>>

Held    == {"item", "stage", "asking", "backoff"}
Active  == {"todo"} \cup Held
Over    == {"ok", "failed"}
UnitStates == {"none", "stopped"} \cup Active \cup Over

Ended == {"done", "failed", "cancelled", "refused", "abandoned", "gone"}
Independent == {"idle", "create", "accepted", "greet", "open", "track", "load",
                "rules", "persist", "logdone", "settle", "tell",
                "logfail", "failing", "tellfail", "stopping", "logcancel"}
Staged == {"read", "look", "save", "lookagain", "saveagain", "tellrule", "progress"}

InFlightTask == {"queued", "analyzing"}
InFlightLog  == {"queued", "running"}

Mode(c) == request[c].mode

Init ==
  /\ request = [c \in Calls |-> NoRequest]
  /\ at = [c \in Calls |-> "idle"]
  /\ task = [c \in Calls |-> "none"]
  /\ log = [c \in Calls |-> "none"]
  /\ unit = [c \in Calls |-> [r \in Rules |-> "none"]]
  /\ tries = [c \in Calls |-> [r \in Rules |-> 0]]
  /\ seen = [c \in Calls |-> {}]
  /\ rows = {}
  /\ stored = [c \in Calls |-> {}]
  /\ told = [c \in Calls |-> <<>>]
  /\ lost = [c \in Calls |-> {}]
  /\ server = "up"
  /\ faults = 0

-----------------------------------------------------------------------------
(* Steps of a call *)

At(c, s) == server = "up" /\ at[c] = s
Goto(c, s) == at' = [at EXCEPT ![c] = s]

(* A fault of one of the kinds happens in this step. *)
Fault(kinds) ==
  /\ Faults \cap kinds # {}
  /\ faults < MaxFaults
  /\ faults' = faults + 1

Fine == UNCHANGED faults

SetTask(c, s) == task' = [task EXCEPT ![c] = s]
SetLog(c, s) == log' = [log EXCEPT ![c] = IF @ = "none" THEN @ ELSE s]
Lose(c, row) == lost' = [lost EXCEPT ![c] = @ \cup {row}]
Say(c, e) == told' = [told EXCEPT ![c] = Append(@, e)]

(* An event is its name and, for rule_done, the rule. *)
Event(name) == <<name, 0>>
RuleDone(r) == <<"rule_done", r>>
ToldRules(c) == {r \in Rules : \E i \in DOMAIN told[c] : told[c][i] = RuleDone(r)}

(* safe_update_log: the write takes effect or is lost, the call goes on. *)
SafeLog(c, s) ==
  \/ SetLog(c, s) /\ Fine /\ UNCHANGED lost
  \/ Fault({"log"}) /\ Lose(c, "log") /\ UNCHANGED log

(* run_independent_analysis up to its first branch: create_log, whose       *)
(* failure is swallowed.                                                    *)
Submit(c, q) ==
  /\ At(c, "idle")
  /\ q.mode # "stage"
  /\ request' = [request EXCEPT ![c] = q]
  /\ \/ log' = [log EXCEPT ![c] = "queued"] /\ Fine
     \/ Fault({"log"}) /\ UNCHANGED log
  /\ Goto(c, CASE q.mode = "sync" -> "track"
               [] q.mode = "async" -> "create"
               [] q.mode = "stream" -> "open")
  /\ UNCHANGED <<task, unit, tries, seen, rows, stored, told, lost, server>>

(* run_analysis or run_analysis_stream is called by the pipeline. *)
StartStage(c, q) ==
  /\ At(c, "idle")
  /\ q.mode = "stage"
  /\ request' = [request EXCEPT ![c] = q]
  /\ Goto(c, "read")
  /\ UNCHANGED <<task, log, unit, tries, seen, rows, stored, told, lost, server, faults>>

(* create_task is committed before the answer; a failure is a 500, though   *)
(* the commit may have taken effect.                                        *)
CreateTask(c) ==
  /\ At(c, "create")
  /\ \/ SetTask(c, "queued") /\ Goto(c, "accepted") /\ Fine
     \/ Fault({"db"}) /\ Goto(c, "refused") /\ (SetTask(c, "queued") \/ UNCHANGED task)
  /\ UNCHANGED <<request, log, unit, tries, seen, rows, stored, told, lost, server>>

(* The background task: set_task_state(analyzing), then the first callback. *)
BeginTask(c) ==
  /\ At(c, "accepted")
  /\ \/ SetTask(c, "analyzing") /\ Goto(c, "greet") /\ Fine
     \/ Fault({"db"}) /\ Goto(c, "failing") /\ (SetTask(c, "analyzing") \/ UNCHANGED task)
  /\ UNCHANGED <<request, log, unit, tries, seen, rows, stored, told, lost, server>>

(* The first event: of a background task, or of a stream that is read. *)
Greet(c) ==
  /\ At(c, "greet") \/ At(c, "open")
  /\ Say(c, Event("analyzing"))
  /\ Goto(c, "track")
  /\ UNCHANGED <<request, task, log, unit, tries, seen, rows, stored, lost, server, faults>>

(* track_analysis_call: the log is running before the `try`. *)
Track(c) ==
  /\ At(c, "track")
  /\ SafeLog(c, "running")
  /\ Goto(c, "load")
  /\ UNCHANGED <<request, task, unit, tries, seen, rows, stored, told, server>>

-----------------------------------------------------------------------------
(* The rules of a call *)

(* plan_rules: without names, the enabled rules whose fields have values;   *)
(* named rules run even when disabled or without their fields.  The stage   *)
(* runs every enabled rule.  A file without results is an item error.       *)
Plan(q) ==
  IF q.mode = "stage" THEN Enabled
  ELSE IF q.persist /\ q.fields = {} THEN {}
  ELSE IF q.ids = "all" THEN {r \in Enabled : Depends[r] \subseteq q.fields}
  ELSE q.named

Planned(c) == Plan(request[c])
ItemError(c) == request[c].persist /\ request[c].fields = {}

(* An independent call needs every field, the stage at least one. *)
Missing(c, r) ==
  IF Mode(c) = "stage"
    THEN Depends[r] # {} /\ Depends[r] \cap request[c].fields = {}
    ELSE ~ (Depends[r] \subseteq request[c].fields)

StartUnits(c, q) ==
  unit' = [unit EXCEPT ![c] = [r \in Rules |-> IF r \in Plan(q) THEN "todo" ELSE "none"]]

(* run_analysis_batch reads everything before any rule starts.  Its session *)
(* keeps this snapshot until it commits (REPEATABLE READ).                  *)
Load(c) ==
  /\ At(c, "load")
  /\ \/ seen' = [seen EXCEPT ![c] = rows] /\ StartUnits(c, request[c]) /\ Goto(c, "rules") /\ Fine
     \/ Fault({"db"}) /\ Goto(c, "logfail") /\ UNCHANGED <<seen, unit>>
  /\ UNCHANGED <<request, task, log, tries, rows, stored, told, lost, server>>

(* _load_file_analysis_context, which takes the snapshot the first look for *)
(* a row reads, and the tasks of _compute_file_rules.                       *)
StageLoad(c) ==
  /\ At(c, "read")
  /\ \/ seen' = [seen EXCEPT ![c] = rows] /\ StartUnits(c, request[c]) /\ Goto(c, "rules") /\ Fine
     \/ Fault({"db"}) /\ Goto(c, "failed") /\ UNCHANGED <<seen, unit>>
  /\ UNCHANGED <<request, task, log, tries, rows, stored, told, lost, server>>

Work == UNCHANGED <<request, at, task, log, seen, rows, stored, told, lost, server, faults>>

Units == Calls \X Rules
In(states) == {u \in Units : unit[u[1]][u[2]] \in states}
SamePool(c) == {d \in Calls : (Mode(d) = "stage") <=> (Mode(c) = "stage")}

Move(c, r, from, to) ==
  /\ server = "up" /\ at[c] = "rules"
  /\ unit[c][r] = from
  /\ unit' = [unit EXCEPT ![c][r] = to]

(* The call's own pool: independent_analysis is one for all requests, the   *)
(* stage has the pool of its file.                                          *)
TakeOwn(c, r) ==
  /\ Move(c, r, "todo", "item")
  /\ Cardinality({u \in In(Held) : u[1] \in SamePool(c)}) < OwnLimit
  /\ UNCHANGED tries /\ Work

TakeGlobal(c, r) ==
  /\ Move(c, r, "item", "stage")
  /\ Cardinality(In(Held \ {"item"})) < GlobalLimit
  /\ UNCHANGED tries /\ Work

(* A calculation, or a rule whose fields are missing, needs no model. *)
NeedsModel(c, r) == r \notin Calc /\ ~ Missing(c, r)

(* execute_rule, _compute_file_rule without the model: whatever is wrong    *)
(* with the values, the fields or the rule is a failed result.              *)
Evaluate(c, r) ==
  /\ \/ Move(c, r, "stage", "failed")
     \/ Move(c, r, "stage", "ok") /\ r \in Calc /\ ~ Missing(c, r)
  /\ UNCHANGED tries /\ Work

TakeLlm(c, r) ==
  /\ Move(c, r, "stage", "asking")
  /\ NeedsModel(c, r)
  /\ Cardinality(In({"asking"})) < LlmLimit
  /\ UNCHANGED tries /\ Work

(* The reply is usable, or an error that is not retried: the rule's result. *)
Reply(c, r) ==
  /\ Move(c, r, "asking", "ok") \/ Move(c, r, "asking", "failed")
  /\ UNCHANGED tries /\ Work

(* Mutant of Refuse: attempts are not counted. *)
MutRefuseForever(c, r) ==
  /\ Move(c, r, "asking", "backoff")
  /\ UNCHANGED tries /\ Work

(* Mutant of Refuse: one request too many. *)
MutRefuseOneMore(c, r) ==
  /\ tries[c][r] < MaxAttempts
  /\ Move(c, r, "asking", "backoff")
  /\ tries' = [tries EXCEPT ![c][r] = @ + 1]
  /\ Work

(* chat_completion: a transient error leaves global_llm and waits, the      *)
(* last one fails the rule.                                                 *)
Refuse(c, r) ==
  /\ tries[c][r] + 1 < MaxAttempts
  /\ Move(c, r, "asking", "backoff")
  /\ tries' = [tries EXCEPT ![c][r] = @ + 1]
  /\ Work

Retry(c, r) ==
  /\ Move(c, r, "backoff", "stage")
  /\ UNCHANGED tries /\ Work

(* A cancelled unit unwinds through its pools. *)
StopUnit(c, r) ==
  /\ server = "up"
  /\ at[c] \in {"stopping", "logcancel", "cancelled"}
  /\ unit[c][r] \in Active
  /\ unit' = [unit EXCEPT ![c][r] = "stopped"]
  /\ UNCHANGED tries /\ Work

EventNames == {"analyzing", "rule_done", "task_done", "task_failed", "stage_done"}

Reports(c) ==
  Mode(c) = "stream" \/ (Mode(c) = "async" /\ ~ request[c].simple)

(* as_completed: one result after the other, to callback or stream. *)
Report(c, r) ==
  /\ At(c, "rules")
  /\ Reports(c)
  /\ unit[c][r] \in Over
  /\ r \notin ToldRules(c)
  /\ Say(c, RuleDone(r))
  /\ UNCHANGED <<request, at, task, log, unit, tries, seen, rows, stored, lost, server, faults>>

AfterRules(c) ==
  IF Mode(c) = "stage" THEN "look" ELSE IF request[c].persist THEN "persist" ELSE "logdone"

(* Mutant of Computed: the first result ends the wait. *)
MutComputedAny(c) ==
  /\ At(c, "rules")
  /\ \E r \in Planned(c) : unit[c][r] \in Over
  /\ Reports(c) => ToldRules(c) # {}
  /\ Goto(c, AfterRules(c))
  /\ UNCHANGED <<request, task, log, unit, tries, seen, rows, stored, told, lost, server, faults>>

(* Every rule has a result, and it was reported. *)
Computed(c) ==
  /\ At(c, "rules")
  /\ \A r \in Planned(c) : unit[c][r] \in Over
  /\ Reports(c) => Planned(c) \subseteq ToldRules(c)
  /\ Goto(c, AfterRules(c))
  /\ UNCHANGED <<request, task, log, unit, tries, seen, rows, stored, told, lost, server, faults>>

-----------------------------------------------------------------------------
(* Results *)

(* Rows are inserted or updated as the session sees them; that breaks the   *)
(* key when another session has added one, or misses one it has removed.    *)
FitsRows(c, new) == \A r \in new : r \in seen[c] <=> r \in rows

Write(c, new) ==
  /\ rows' = rows \cup new
  /\ stored' = [stored EXCEPT ![c] = @ \cup new]

(* persist_analysis_results: all rows of the call in one commit, which may  *)
(* have taken effect although it raises.                                    *)
Persist(c) ==
  /\ At(c, "persist")
  /\ LET new == Planned(c) IN
     \/ FitsRows(c, new) /\ Write(c, new) /\ Goto(c, "logdone") /\ Fine
     \/ ~ FitsRows(c, new) /\ Goto(c, "logfail") /\ Fine /\ UNCHANGED <<rows, stored>>
     \/ /\ FitsRows(c, new) /\ Fault({"db"}) /\ Goto(c, "logfail")
        /\ Write(c, new) \/ UNCHANGED <<rows, stored>>
  /\ UNCHANGED <<request, task, log, unit, tries, seen, told, lost, server>>

Flawed(c) == ItemError(c) \/ \E r \in Planned(c) : unit[c][r] = "failed"
Verdict(c) == IF Flawed(c) THEN "partial_failed" ELSE "complete"

(* complete_analysis_log. *)
LogDone(c) ==
  /\ At(c, "logdone")
  /\ SafeLog(c, Verdict(c))
  /\ Goto(c, CASE Mode(c) = "async" -> "settle"
               [] Mode(c) = "stream" -> "tell"
               [] Mode(c) = "sync" -> "done")
  /\ UNCHANGED <<request, task, unit, tries, seen, rows, stored, told, server>>

(* Mutant of Settle: the final state is left to the callback. *)
MutSettleLater(c) ==
  /\ At(c, "settle")
  /\ Goto(c, "tell")
  /\ UNCHANGED <<request, task, log, unit, tries, seen, rows, stored, told, lost, server, faults>>

(* set_task_state(complete) comes before task_done. *)
Settle(c) ==
  /\ At(c, "settle")
  /\ \/ SetTask(c, "complete") /\ Goto(c, "tell") /\ Fine
     \/ Fault({"db"}) /\ Goto(c, "failing") /\ (SetTask(c, "complete") \/ UNCHANGED task)
  /\ UNCHANGED <<request, log, unit, tries, seen, rows, stored, told, lost, server>>

Tell(c) ==
  /\ At(c, "tell")
  /\ Say(c, Event("task_done"))
  /\ Goto(c, "done")
  /\ UNCHANGED <<request, task, log, unit, tries, seen, rows, stored, lost, server, faults>>

-----------------------------------------------------------------------------
(* Results of a stage pass: stored and told one by one, in rule order *)

Unsettled(c) == Planned(c) \ ToldRules(c)

(* Mutant of Turn: the rule order is not kept. *)
MutTurnLast(c) == CHOOSE r \in Unsettled(c) : \A o \in Unsettled(c) : r >= o

Turn(c) == CHOOSE r \in Unsettled(c) : \A o \in Unsettled(c) : r <= o

(* The session has committed nothing and rolled nothing back since it       *)
(* loaded the rules, and so still reads the snapshot of then.               *)
FirstLook(c) == at[c] = "look" /\ ToldRules(c) = {}

(* _persist_file_computation looks for the row ... *)
Look(c) ==
  /\ At(c, "look") \/ At(c, "lookagain")
  /\ IF Unsettled(c) = {}
       THEN Goto(c, "progress") /\ UNCHANGED seen
       ELSE /\ seen' = IF FirstLook(c) THEN seen ELSE [seen EXCEPT ![c] = rows]
            /\ Goto(c, IF at[c] = "look" THEN "save" ELSE "saveagain")
  /\ UNCHANGED <<request, task, log, unit, tries, rows, stored, told, lost, server, faults>>

(* ... and commits it.                                                      *)
Save(c) ==
  /\ At(c, "save") \/ At(c, "saveagain")
  /\ FitsRows(c, {Turn(c)})
  /\ Write(c, {Turn(c)})
  /\ Goto(c, "tellrule")
  /\ UNCHANGED <<request, task, log, unit, tries, seen, told, lost, server, faults>>

(* _persist_file_computation_safely: after a failure the result becomes a   *)
(* failed one and is stored as such; the second failure is swallowed.       *)
SaveFails(c) ==
  /\ At(c, "save") \/ At(c, "saveagain")
  /\ \/ ~ FitsRows(c, {Turn(c)}) /\ Fine /\ UNCHANGED <<rows, stored>>
     \/ /\ FitsRows(c, {Turn(c)}) /\ Fault({"db"})
        /\ Write(c, {Turn(c)}) \/ UNCHANGED <<rows, stored>>
  /\ IF at[c] = "save"
       THEN unit' = [unit EXCEPT ![c][Turn(c)] = "failed"] /\ Goto(c, "lookagain") /\ UNCHANGED lost
       ELSE Lose(c, "row") /\ Goto(c, "tellrule") /\ UNCHANGED unit
  /\ UNCHANGED <<request, task, log, tries, seen, told, server>>

(* Mutant of TellRule: a rule that failed ends the stage. *)
MutTellRuleStops(c) ==
  /\ At(c, "tellrule")
  /\ Say(c, RuleDone(Turn(c)))
  /\ Goto(c, IF unit[c][Turn(c)] = "ok" THEN "look" ELSE "progress")
  /\ UNCHANGED <<request, task, log, unit, tries, seen, rows, stored, lost, server, faults>>

(* rule_done, to callback or stream. *)
TellRule(c) ==
  /\ At(c, "tellrule")
  /\ Say(c, RuleDone(Turn(c)))
  /\ Goto(c, "look")
  /\ UNCHANGED <<request, task, log, unit, tries, seen, rows, stored, lost, server, faults>>

(* The file's progress is complete, which FilePipeline models; stage_done.  *)
FinishStage(c) ==
  /\ At(c, "progress")
  /\ \/ Say(c, Event("stage_done")) /\ Goto(c, "done") /\ Fine
     \/ Fault({"db"}) /\ Goto(c, "failed") /\ UNCHANGED told
  /\ UNCHANGED <<request, task, log, unit, tries, seen, rows, stored, lost, server>>

-----------------------------------------------------------------------------
(* Failures of an independent call *)

(* An exception leaves track_analysis_call. *)
LogFail(c) ==
  /\ At(c, "logfail")
  /\ SafeLog(c, "failed")
  /\ Goto(c, CASE Mode(c) = "async" -> "failing"
               [] Mode(c) = "stream" -> "tellfail"
               [] Mode(c) = "sync" -> "failed")
  /\ UNCHANGED <<request, task, unit, tries, seen, rows, stored, told, server>>

(* Mutant of FailTask: the state is not written. *)
MutFailTaskSilently(c) ==
  /\ At(c, "failing")
  /\ Goto(c, "tellfail")
  /\ UNCHANGED <<request, task, log, unit, tries, seen, rows, stored, told, lost, server, faults>>

(* set_task_state(analysis_failed), whose own failure is only logged. *)
FailTask(c) ==
  /\ At(c, "failing")
  /\ \/ SetTask(c, "analysis_failed") /\ Fine /\ UNCHANGED lost
     \/ Fault({"db"}) /\ Lose(c, "task") /\ UNCHANGED task
  /\ Goto(c, "tellfail")
  /\ UNCHANGED <<request, log, unit, tries, seen, rows, stored, told, server>>

TellFail(c) ==
  /\ At(c, "tellfail")
  /\ Say(c, Event("task_failed"))
  /\ Goto(c, "failed")
  /\ UNCHANGED <<request, task, log, unit, tries, seen, rows, stored, lost, server, faults>>

(* CancelledError inside track_analysis_call marks the log and is raised    *)
(* again; no `except Exception` sees it, so that the task row stays as it   *)
(* is and nothing more is told.                                             *)
Interrupted(c) ==
  IF at[c] \in {"load", "persist", "logdone"} THEN "logcancel"
  ELSE IF at[c] = "rules" THEN "stopping"
  ELSE IF at[c] = "stopping" /\ Mode(c) # "stage" THEN "logcancel"
  ELSE "cancelled"

(* The write that is interrupted may have taken effect. *)
Interrupt(c) ==
  /\ Goto(c, Interrupted(c))
  /\ \/ UNCHANGED <<task, log, rows, stored>>
     \/ /\ \/ at[c] = "accepted" /\ SetTask(c, "analyzing")
           \/ at[c] = "settle" /\ SetTask(c, "complete")
           \/ at[c] = "failing" /\ SetTask(c, "analysis_failed")
        /\ UNCHANGED <<log, rows, stored>>
     \/ /\ \/ at[c] = "track" /\ SetLog(c, "running")
           \/ at[c] = "logdone" /\ SetLog(c, Verdict(c))
           \/ at[c] \in {"logfail", "logcancel"} /\ SetLog(c, "failed")
        /\ UNCHANGED <<task, rows, stored>>
     \/ /\ \/ at[c] = "persist" /\ FitsRows(c, Planned(c)) /\ Write(c, Planned(c))
           \/ at[c] \in {"save", "saveagain"} /\ FitsRows(c, {Turn(c)}) /\ Write(c, {Turn(c)})
        /\ UNCHANGED <<task, log>>
  /\ IF at[c] \in {"logcancel", "logfail"} THEN Lose(c, "log") ELSE UNCHANGED lost
  /\ UNCHANGED <<request, unit, tries, seen, told, server>>

Running(c) == at[c] \notin Ended \cup {"idle", "create", "open"}

(* A task is cancelled, or the client of a stream goes away, which cancels  *)
(* its worker.                                                              *)
Cancel(c) ==
  /\ server = "up"
  /\ Running(c)
  /\ Fault(IF Mode(c) = "stream" THEN {"close"} ELSE {"cancel"})
  /\ Interrupt(c)

(* A stream that is never read does not start at all. *)
Abandon(c) ==
  /\ At(c, "open")
  /\ Fault({"close"})
  /\ Goto(c, "abandoned")
  /\ UNCHANGED <<request, task, log, unit, tries, seen, rows, stored, told, lost, server>>

(* The units are gone: on to the log, or out of the stage. *)
Unwound(c) ==
  /\ At(c, "stopping")
  /\ \A r \in Rules : unit[c][r] \notin Active
  /\ Goto(c, IF Mode(c) = "stage" THEN "cancelled" ELSE "logcancel")
  /\ UNCHANGED <<request, task, log, unit, tries, seen, rows, stored, told, lost, server, faults>>

LogCancel(c) ==
  /\ At(c, "logcancel")
  /\ SafeLog(c, "failed")
  /\ Goto(c, "cancelled")
  /\ UNCHANGED <<request, task, unit, tries, seen, rows, stored, told, server>>

-----------------------------------------------------------------------------
(* The file's rows, and the service *)

(* A retry from an earlier stage, or a deletion, see FilePipeline. *)
Wipe ==
  /\ server = "up"
  /\ Fault({"wipe"})
  /\ rows # {}
  /\ rows' = {}
  /\ UNCHANGED <<callVars, server>>

(* Whatever runs is gone; what is committed stays. *)
Crash ==
  /\ Fault({"crash"})
  /\ server' = "tasks"
  /\ at' = [c \in Calls |-> IF at[c] \in Ended \cup {"idle"} THEN at[c] ELSE "gone"]
  /\ unit' = [c \in Calls |-> [r \in Rules |->
                IF unit[c][r] \in Active THEN "stopped" ELSE unit[c][r]]]
  /\ UNCHANGED <<request, task, log, tries, seen, stored, told, lost, rows>>

(* Mutant of RecoverTasks: queued tasks are taken for not yet started. *)
MutRecoverTasksAnalyzing ==
  /\ server = "tasks"
  /\ task' = [c \in Calls |-> IF task[c] = "analyzing" THEN "analysis_failed" ELSE task[c]]
  /\ server' = "logs"
  /\ UNCHANGED <<request, at, log, unit, tries, seen, stored, told, lost, rows, faults>>

(* recover_interrupted_tasks and recover_interrupted_logs, each committed,  *)
(* before requests are served.                                              *)
RecoverTasks ==
  /\ server = "tasks"
  /\ task' = [c \in Calls |-> IF task[c] \in InFlightTask THEN "analysis_failed" ELSE task[c]]
  /\ server' = "logs"
  /\ UNCHANGED <<request, at, log, unit, tries, seen, stored, told, lost, rows, faults>>

RecoverLogs ==
  /\ server = "logs"
  /\ log' = [c \in Calls |-> IF log[c] \in InFlightLog THEN "failed" ELSE log[c]]
  /\ server' = "up"
  /\ UNCHANGED <<request, at, task, unit, tries, seen, stored, told, lost, rows, faults>>

-----------------------------------------------------------------------------

RuleStep(c, r) ==
  \/ TakeOwn(c, r) \/ TakeGlobal(c, r) \/ Evaluate(c, r) \/ TakeLlm(c, r)
  \/ Reply(c, r) \/ Refuse(c, r) \/ Retry(c, r) \/ StopUnit(c, r) \/ Report(c, r)

CallStep(c) ==
  \/ CreateTask(c) \/ BeginTask(c) \/ Greet(c) \/ Track(c) \/ Load(c) \/ Computed(c)
  \/ Persist(c) \/ LogDone(c) \/ Settle(c) \/ Tell(c)
  \/ LogFail(c) \/ FailTask(c) \/ TellFail(c) \/ Unwound(c) \/ LogCancel(c)
  \/ StageLoad(c) \/ Look(c) \/ Save(c) \/ SaveFails(c) \/ TellRule(c) \/ FinishStage(c)

Progress(c) == CallStep(c) \/ \E r \in Rules : RuleStep(c, r)

(* Nothing is left to do. *)
Quiet ==
  /\ server = "up"
  /\ \A c \in Calls : at[c] \in Ended /\ \A r \in Rules : unit[c][r] \notin Active

Next ==
  \/ \E c \in Calls :
       \/ \E q \in Requests[c] : Submit(c, q) \/ StartStage(c, q)
       \/ Progress(c)
       \/ Cancel(c) \/ Abandon(c)
  \/ Wipe \/ Crash \/ RecoverTasks \/ RecoverLogs
  \/ Quiet /\ UNCHANGED vars

Spec == Init /\ [][Next]_vars

(* Code that can run does: model, MySQL and callback requests have          *)
(* timeouts, a client reads on or goes away, a service that stopped is      *)
(* started again.  Requests and faults are never forced.                    *)
Fairness ==
  /\ \A c \in Calls : WF_vars(Progress(c))
  /\ WF_vars(RecoverTasks)
  /\ WF_vars(RecoverLogs)

FairSpec == Spec /\ Fairness

-----------------------------------------------------------------------------
(* Properties *)

(* Type correctness. *)
TypeOK ==
  /\ request \in [Calls -> RequestType \cup {NoRequest}]
  /\ \A c \in Calls : request[c] \in Requests[c] \cup {NoRequest}
  /\ at \in [Calls -> Ended \cup Independent \cup Staged]
  /\ task \in [Calls -> {"none", "complete", "analysis_failed"} \cup InFlightTask]
  /\ log \in [Calls -> {"none", "complete", "partial_failed", "failed"} \cup InFlightLog]
  /\ unit \in [Calls -> [Rules -> UnitStates]]
  /\ tries \in [Calls -> [Rules -> 0..(MaxAttempts - 1)]]
  /\ seen \in [Calls -> SUBSET Rules]
  /\ rows \subseteq Rules
  /\ stored \in [Calls -> SUBSET Rules]
  /\ told \in [Calls -> Seq(EventNames \X (0..RuleCount))]
  /\ lost \in [Calls -> SUBSET {"log", "task", "row"}]
  /\ server \in {"up", "tasks", "logs"}
  /\ faults \in 0..MaxFaults

Terminal == {"task_done", "task_failed", "stage_done"}
Says(c, e) == \E i \in DOMAIN told[c] : told[c][i] = e

(* What a receiver of events may rely on: "analyzing" is only ever first,   *)
(* nothing follows a terminal event, no rule is reported twice or without   *)
(* having run, a success comes after the reports of all planned rules, and  *)
(* the stage reports in rule order, whatever order the rules ended in.      *)
EventsInOrder ==
  \A c \in Calls : \A i, j \in DOMAIN told[c] :
    /\ told[c][i] = Event("analyzing") => i = 1
    /\ told[c][i][1] \in Terminal => i = Len(told[c])
    /\ i < j => told[c][i] # told[c][j]
    /\ \A r \in Rules : told[c][i] = RuleDone(r) => unit[c][r] \in Over
    /\ told[c][i][1] = "stage_done" \/ (told[c][i][1] = "task_done" /\ Reports(c)) =>
         ToldRules(c) = Planned(c)
    /\ \A r, q \in Rules :
         Mode(c) = "stage" /\ told[c][i] = RuleDone(r) /\ told[c][j] = RuleDone(q) /\ i < j
           => r < q

(* A task is announced as done only when it is stored as complete, and then *)
(* for good; one stored as complete has a log that is not failed, unless    *)
(* the log's own write was lost (docstring of set_task_state: the result is *)
(* committed before the final callback).                                    *)
DoneIsStored ==
  \A c \in Calls :
    /\ Says(c, Event("task_done")) /\ Mode(c) = "async" => task[c] = "complete"
    /\ task[c] = "complete" =>
         log[c] \in {"none", "complete", "partial_failed"} \/ "log" \in lost[c]

(* A log that reads complete or partial_failed tells the truth: every       *)
(* planned rule has a result, one of them failed exactly when it says so,   *)
(* and the results of a call with persist=true were all committed.          *)
LogIsTrue ==
  \A c \in Calls : log[c] \in {"complete", "partial_failed"} =>
    /\ \A r \in Planned(c) : unit[c][r] \in Over
    /\ log[c] = "partial_failed" <=> Flawed(c)
    /\ request[c].persist => Planned(c) = stored[c]

(* An ended call leaves no row in flight, except: a log whose write failed  *)
(* or whose call never came to its rules; a task that was cancelled, or     *)
(* whose last write failed, or that create_task stored as queued and then   *)
(* refused.  Nobody is at work on these, whatever their status says, until  *)
(* a restart, which leaves none at all.                                     *)
Settled ==
  server = "up" => \A c \in Calls :
    /\ at[c] \in Ended /\ log[c] \in InFlightLog =>
         /\ at[c] # "gone"
         /\ "log" \in lost[c] \/ \A r \in Rules : unit[c][r] = "none"
    /\ at[c] \in Ended /\ task[c] \in InFlightTask =>
         \/ at[c] = "cancelled"
         \/ at[c] = "refused" /\ task[c] = "queued"
         \/ at[c] = "failed" /\ "task" \in lost[c]

(* Whatever pools its rules wait for, and whoever holds them, a call that   *)
(* was accepted ends, and no rule of it stays in work.                      *)
CallsEnd ==
  \A c \in Calls :
    at[c] # "idle" ~> at[c] \in Ended /\ \A r \in Rules : unit[c][r] \notin Active

(* What a stage promises to the pipeline: its results are the rules told;   *)
(* the other calls are none of its passes.                                  *)
StageResults == [c \in Calls |-> IF Mode(c) = "stage" THEN ToldRules(c) ELSE {}]

StageOutcome ==
  [c \in Calls |->
     IF Mode(c) # "stage" THEN "idle"
     ELSE IF at[c] = "done" THEN "done" ELSE IF at[c] \in Ended THEN "failed" ELSE "open"]

Contract == INSTANCE StageContract WITH
              Passes <- Calls, Items <- Enabled,
              results <- StageResults, outcome <- StageOutcome

(* The analysis stage gives its results one at a time, each rule once, has  *)
(* one for every enabled rule when it is done, also for those that could    *)
(* not be evaluated or stored, and gives none after its end.                *)
StageKeepsContract == Contract!ContractSpec
=============================================================================
