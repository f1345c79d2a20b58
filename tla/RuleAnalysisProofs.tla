------------------------- MODULE RuleAnalysisProofs -------------------------
(***************************************************************************)
(* Proofs about the calls that run analysis rules (module RuleAnalysis),    *)
(* for every number of calls and rules, every pool size and every number of *)
(* faults.                                                                  *)
(*                                                                         *)
(* The stores of a call are written by separate sessions, so that what may  *)
(* be relied on depends on how far the call has come.  CallInv says what is *)
(* true of ONE call at each of its steps; a step of a call keeps it for     *)
(* that call, and for the others by the frame lemma.                        *)
(***************************************************************************)
EXTENDS RuleAnalysis, TLAPS, WellFoundedInduction

-----------------------------------------------------------------------------
(* Where a call of each kind may stand *)

AnyPlaces == {"rules", "stopping", "done", "failed", "cancelled", "gone"}
CallPlaces == AnyPlaces \cup {"track", "load", "persist", "logdone", "logfail", "logcancel"}

Places(mode) ==
  CASE mode = "sync" -> CallPlaces
    [] mode = "async" ->
         CallPlaces \cup {"create", "accepted", "greet", "settle", "tell",
                          "failing", "tellfail", "refused"}
    [] mode = "stream" -> CallPlaces \cup {"open", "tell", "tellfail", "abandoned"}
    [] mode = "stage" -> AnyPlaces \cup Staged

Placed(c) ==
  \/ at[c] = "idle" /\ request[c] = NoRequest
  \/ request[c] \in Requests[c] /\ at[c] \in Places(Mode(c))

(* Before its rules start a call has no result, no verdict, no row.         *)
Early == {"idle", "create", "accepted", "greet", "open", "track", "load", "read"}
Fresh(c) ==
  at[c] \in Early \cup {"refused", "abandoned"} =>
    (\A r \in Rules : unit[c][r] = "none") /\ stored[c] = {}

(* Only an asynchronous call has a task, only an independent one a log.     *)
OwnStores(c) ==
  /\ task[c] # "none" => request[c] # NoRequest /\ Mode(c) = "async"
  /\ log[c] # "none" => request[c] # NoRequest /\ Mode(c) # "stage"

Verdicts == {"complete", "partial_failed"}
Lost(c, row) == row \in lost[c]

(* The places of a call whose log may have its verdict.                     *)
AfterVerdict == {"settle", "tell", "done", "failing", "tellfail", "failed",
                 "logcancel", "cancelled", "gone"}

LogKept(c) == log[c] \in {"none"} \cup Verdicts \/ Lost(c, "log")

(* From the final state of the task to its announcement.                    *)
TaskDone(c) ==
  /\ Says(c, Event("task_done")) => at[c] = "done"
  /\ at[c] \in {"tell", "done"} /\ request[c] # NoRequest /\ Mode(c) = "async" =>
       task[c] = "complete"
  /\ task[c] = "complete" =>
       at[c] \in {"tell", "done", "failing", "tellfail", "failed", "cancelled", "gone"} /\ LogKept(c)
  /\ at[c] = "settle" => LogKept(c)

(* From the last result to the verdict of the log.                          *)
Truthful(c) ==
  /\ \A r \in Planned(c) : unit[c][r] \in Over
  /\ log[c] = "partial_failed" <=> Flawed(c)
  /\ request[c].persist => Planned(c) = stored[c]

LogDoneRight(c) ==
  /\ at[c] \in {"persist", "logdone"} => \A r \in Planned(c) : unit[c][r] \in Over
  /\ request[c] # NoRequest /\ Mode(c) # "stage" => stored[c] \subseteq Planned(c)
  /\ at[c] = "logdone" /\ request[c].persist => stored[c] = Planned(c)
  /\ log[c] \in Verdicts => at[c] \in AfterVerdict /\ Truthful(c)

(* A call that goes no further has no row in flight, but for a lost write.  *)
NotInFlight(c) ==
  /\ at[c] \in {"settle", "tell", "failing", "tellfail"} \cup (Ended \ {"gone"}) =>
       log[c] \notin InFlightLog \/ Lost(c, "log") \/ \A r \in Rules : unit[c][r] = "none"
  /\ at[c] \in {"tellfail", "failed"} => task[c] \notin InFlightTask \/ Lost(c, "task")
  /\ at[c] \in {"abandoned", "create", "open"} => task[c] = "none"
  /\ at[c] = "refused" => task[c] # "analyzing"
  /\ at[c] = "gone" => /\ log[c] \in InFlightLog => server # "up"
                       /\ task[c] \in InFlightTask => server = "tasks"

CallInv(c) ==
  /\ Placed(c) /\ Fresh(c) /\ OwnStores(c) /\ TaskDone(c) /\ LogDoneRight(c)
  /\ NotInFlight(c)

(* While a result of the stage is being stored, one is left to be told.     *)
Storing(c) ==
  at[c] \in {"save", "saveagain", "tellrule"} => Unsettled(c) # {}

CallsInv == TypeOK /\ \A c \in Calls : CallInv(c) /\ Storing(c)

-----------------------------------------------------------------------------
(* A set of rules that is not empty has a first one. *)
LEMMA LeastRule ==
  ASSUME NEW T, T \subseteq Nat, T # {}
  PROVE  \E x \in T : \A y \in T : x <= y
<1>1. PICK x \in T : \A y \in T : ~(<<y, x>> \in OpToRel(<, Nat))
  BY WFMin, NatLessThanWellFounded
<1>2. \A y \in T : ~(y < x)  BY <1>1 DEF OpToRel
<1> QED  BY <1>2

(* The rule whose turn it is is one that is left. *)
LEMMA TurnIsUnsettled ==
  ASSUME NEW c \in Calls, Unsettled(c) # {}, Planned(c) \subseteq Rules
  PROVE  /\ Turn(c) \in Unsettled(c) /\ Turn(c) \in Rules
         /\ \A o \in Unsettled(c) : Turn(c) <= o
<1>1. Unsettled(c) \subseteq Nat  BY RulesOK DEF Unsettled, Rules
<1>2. \E r \in Unsettled(c) : \A o \in Unsettled(c) : r <= o  BY <1>1, LeastRule
<1> QED  BY <1>2 DEF Turn, Unsettled

(* What a call plans are rules. *)
LEMMA PlanIsRules ==
  ASSUME NEW c \in Calls, NEW q \in Requests[c]
  PROVE  /\ Plan(q) \subseteq Rules
         /\ q.mode \in {"sync", "async", "stream", "stage"}
         /\ q # NoRequest
<1>1. q \in RequestType  BY RequestsOK
<1>2. q.mode \in {"sync", "async", "stream", "stage"} /\ q.named \in SUBSET Rules
      /\ q.ids \in {"all", "named"} /\ q.persist \in BOOLEAN
  BY <1>1 DEF RequestType
<1>3. NoRequest.mode = "none"  BY DEF NoRequest
<1>4. Enabled \subseteq Rules  BY RulesOK
<1>5. CASE q.mode = "stage"  BY <1>2, <1>3, <1>4, <1>5 DEF Plan
<1>6. CASE q.mode # "stage"
  <2>1. CASE q.persist /\ q.fields = {}  BY <1>2, <1>3, <1>6, <2>1 DEF Plan
  <2>2. CASE ~(q.persist /\ q.fields = {}) /\ q.ids = "all"
    BY <1>2, <1>3, <1>4, <1>6, <2>2 DEF Plan
  <2>3. CASE ~(q.persist /\ q.fields = {}) /\ q.ids # "all"
    BY <1>2, <1>3, <1>6, <2>3 DEF Plan
  <2> QED  BY <2>1, <2>2, <2>3
<1> QED  BY <1>5, <1>6

(* What is true of a call stays true while its own state does not change.   *)
LEMMA Frame ==
  ASSUME NEW c \in Calls, CallInv(c), Storing(c),
         request'[c] = request[c], at'[c] = at[c], task'[c] = task[c], log'[c] = log[c],
         unit'[c] = unit[c], stored'[c] = stored[c], told'[c] = told[c],
         lost'[c] = lost[c], server' = server
  PROVE  CallInv(c)' /\ Storing(c)'
<1>1. /\ Mode(c)' = Mode(c) /\ Planned(c)' = Planned(c) /\ Flawed(c)' = Flawed(c)
      /\ ToldRules(c)' = ToldRules(c)
  BY DEF Mode, Planned, Flawed, ItemError, ToldRules
<1>2. Says(c, Event("task_done"))' = Says(c, Event("task_done"))  BY DEF Says
<1>3. Truthful(c)' = Truthful(c)  BY <1>1 DEF Truthful
<1>4. LogKept(c)' = LogKept(c)  BY DEF LogKept, Lost
<1>5. Storing(c)'  BY <1>1 DEF Storing, Unsettled
<1> QED
  BY <1>1, <1>2, <1>3, <1>4, <1>5
  DEF CallInv, Placed, Fresh, OwnStores, TaskDone, LogDoneRight, NotInFlight, Lost
-----------------------------------------------------------------------------
(* Types *)

LogStates == {"none", "complete", "partial_failed", "failed"} \cup InFlightLog
TaskStates == {"none", "complete", "analysis_failed"} \cup InFlightTask
PlaceNames == Ended \cup Independent \cup Staged

(* Faults stay within their bound. *)
LEMMA FaultType ==
  ASSUME TypeOK, NEW kinds, Fault(kinds) \/ Fine
  PROVE  faults' \in 0..MaxFaults
BY FaultsKnown DEF TypeOK, Fault, Fine

(* Assigning to one call. *)
LEMMA Assign ==
  ASSUME TypeOK, NEW c \in Calls
  PROVE  /\ \A s \in PlaceNames : Goto(c, s) => at' \in [Calls -> PlaceNames]
         /\ \A s \in TaskStates : SetTask(c, s) => task' \in [Calls -> TaskStates]
         /\ \A s \in LogStates : SetLog(c, s) => log' \in [Calls -> LogStates]
         /\ \A row \in {"log", "task", "row"} :
              Lose(c, row) => lost' \in [Calls -> SUBSET {"log", "task", "row"}]
         /\ \A e \in EventNames \X (0..RuleCount) :
              Say(c, e) => told' \in [Calls -> Seq(EventNames \X (0..RuleCount))]
         /\ \A new \in SUBSET Rules :
              Write(c, new) => rows' \subseteq Rules /\ stored' \in [Calls -> SUBSET Rules]
<1>1. \A s \in PlaceNames : Goto(c, s) => at' \in [Calls -> PlaceNames]
  BY DEF TypeOK, Goto, PlaceNames
<1>2. \A s \in TaskStates : SetTask(c, s) => task' \in [Calls -> TaskStates]
  BY DEF TypeOK, SetTask, TaskStates
<1>3. \A s \in LogStates : SetLog(c, s) => log' \in [Calls -> LogStates]
  BY DEF TypeOK, SetLog, LogStates
<1>4. \A row \in {"log", "task", "row"} :
        Lose(c, row) => lost' \in [Calls -> SUBSET {"log", "task", "row"}]
  BY DEF TypeOK, Lose
<1>5. \A e \in EventNames \X (0..RuleCount) :
        Say(c, e) => told' \in [Calls -> Seq(EventNames \X (0..RuleCount))]
  BY DEF TypeOK, Say
<1>6. \A new \in SUBSET Rules :
        Write(c, new) => rows' \subseteq Rules /\ stored' \in [Calls -> SUBSET Rules]
  BY DEF TypeOK, Write
<1> QED  BY <1>1, <1>2, <1>3, <1>4, <1>5, <1>6

(* The events are events. *)
LEMMA EventTypes ==
  /\ \A name \in EventNames : Event(name) \in EventNames \X (0..RuleCount)
  /\ \A r \in Rules : RuleDone(r) \in EventNames \X (0..RuleCount)
BY RulesOK DEF EventNames, Event, RuleDone, Rules

(* The first steps of a call. *)
LEMMA TypeStart ==
  ASSUME TypeOK, NEW c \in Calls,
         \/ \E q \in Requests[c] : Submit(c, q) \/ StartStage(c, q)
         \/ CreateTask(c) \/ BeginTask(c) \/ Greet(c) \/ Track(c) \/ Abandon(c)
  PROVE  TypeOK'
<1>1. ASSUME NEW q \in Requests[c], Submit(c, q)
      PROVE  TypeOK'
  <2>1. /\ request' \in [Calls -> RequestType \cup {NoRequest}]
        /\ \A d \in Calls : request'[d] \in Requests[d] \cup {NoRequest}
    BY <1>1, RequestsOK DEF Submit, TypeOK
  <2>2. log' \in [Calls -> LogStates]
    BY <1>1 DEF Submit, TypeOK, LogStates, InFlightLog
  <2>3. at' \in [Calls -> PlaceNames]
    <3>1. q.mode \in {"sync", "async", "stream"}  BY <1>1, PlanIsRules DEF Submit
    <3>2. CASE q.mode = "sync"  BY <1>1, <3>2, Assign DEF Submit, PlaceNames, Independent
    <3>3. CASE q.mode = "async"  BY <1>1, <3>3, Assign DEF Submit, PlaceNames, Independent
    <3>4. CASE q.mode = "stream"  BY <1>1, <3>4, Assign DEF Submit, PlaceNames, Independent
    <3> QED  BY <3>1, <3>2, <3>3, <3>4
  <2>4. faults' \in 0..MaxFaults  BY <1>1, FaultType DEF Submit
  <2> QED  BY <1>1, <2>1, <2>2, <2>3, <2>4 DEF Submit, TypeOK, LogStates, PlaceNames
<1>2. ASSUME NEW q \in Requests[c], StartStage(c, q)
      PROVE  TypeOK'
  <2>1. /\ request' \in [Calls -> RequestType \cup {NoRequest}]
        /\ \A d \in Calls : request'[d] \in Requests[d] \cup {NoRequest}
    BY <1>2, RequestsOK DEF StartStage, TypeOK
  <2>2. at' \in [Calls -> PlaceNames]  BY <1>2, Assign DEF StartStage, PlaceNames, Staged
  <2> QED  BY <1>2, <2>1, <2>2 DEF StartStage, TypeOK, PlaceNames
<1>3. CASE CreateTask(c)
  <2>1. faults' \in 0..MaxFaults  BY <1>3, FaultType DEF CreateTask
  <2>2. at' \in [Calls -> PlaceNames]
    BY <1>3, Assign DEF CreateTask, PlaceNames, Independent, Ended
  <2>3. task' \in [Calls -> TaskStates]
    BY <1>3, Assign DEF CreateTask, TypeOK, TaskStates, InFlightTask
  <2> QED  BY <1>3, <2>1, <2>2, <2>3 DEF CreateTask, TypeOK, PlaceNames, TaskStates
<1>4. CASE BeginTask(c)
  <2>1. faults' \in 0..MaxFaults  BY <1>4, FaultType DEF BeginTask
  <2>2. at' \in [Calls -> PlaceNames]  BY <1>4, Assign DEF BeginTask, PlaceNames, Independent
  <2>3. task' \in [Calls -> TaskStates]
    BY <1>4, Assign DEF BeginTask, TypeOK, TaskStates, InFlightTask
  <2> QED  BY <1>4, <2>1, <2>2, <2>3 DEF BeginTask, TypeOK, PlaceNames, TaskStates
<1>5. CASE Greet(c)
  <2>1. at' \in [Calls -> PlaceNames]  BY <1>5, Assign DEF Greet, PlaceNames, Independent
  <2>2. told' \in [Calls -> Seq(EventNames \X (0..RuleCount))]
    BY <1>5, Assign, EventTypes DEF Greet, EventNames
  <2> QED  BY <1>5, <2>1, <2>2 DEF Greet, TypeOK, PlaceNames
<1>6. CASE Track(c)
  <2>1. faults' \in 0..MaxFaults  BY <1>6, FaultType DEF Track, SafeLog
  <2>2. at' \in [Calls -> PlaceNames]  BY <1>6, Assign DEF Track, PlaceNames, Independent
  <2>3. /\ log' \in [Calls -> LogStates]
        /\ lost' \in [Calls -> SUBSET {"log", "task", "row"}]
    BY <1>6, Assign DEF Track, SafeLog, TypeOK, LogStates, InFlightLog
  <2> QED  BY <1>6, <2>1, <2>2, <2>3 DEF Track, TypeOK, PlaceNames, LogStates
<1>7. CASE Abandon(c)
  <2>1. faults' \in 0..MaxFaults  BY <1>7, FaultType DEF Abandon
  <2>2. at' \in [Calls -> PlaceNames]  BY <1>7, Assign DEF Abandon, PlaceNames, Ended
  <2> QED  BY <1>7, <2>1, <2>2 DEF Abandon, TypeOK, PlaceNames
<1> QED  BY <1>1, <1>2, <1>3, <1>4, <1>5, <1>6, <1>7
(* What a call plans are rules, also before it has a request.               *)
LEMMA PlannedRules ==
  ASSUME TypeOK, NEW c \in Calls, Placed(c), at[c] # "idle"
  PROVE  Planned(c) \subseteq Rules
BY PlanIsRules DEF Placed, Planned

(* The rules of a call are loaded and worked on. *)
LEMMA TypeRules ==
  ASSUME TypeOK, NEW c \in Calls,
         \/ Load(c) \/ StageLoad(c) \/ Computed(c) \/ Unwound(c)
         \/ \E r \in Rules : RuleStep(c, r)
  PROVE  TypeOK'
<1>1. \A q : StartUnits(c, q) => unit' \in [Calls -> [Rules -> UnitStates]]
  BY DEF StartUnits, TypeOK, UnitStates, Active
<1>2. CASE Load(c)
  <2>1. faults' \in 0..MaxFaults  BY <1>2, FaultType DEF Load
  <2>2. at' \in [Calls -> PlaceNames]  BY <1>2, Assign DEF Load, PlaceNames, Independent
  <2>3. seen' \in [Calls -> SUBSET Rules]  BY <1>2 DEF Load, TypeOK
  <2>4. unit' \in [Calls -> [Rules -> UnitStates]]  BY <1>1, <1>2 DEF Load, TypeOK
  <2> QED  BY <1>2, <2>1, <2>2, <2>3, <2>4 DEF Load, TypeOK, PlaceNames
<1>3. CASE StageLoad(c)
  <2>1. faults' \in 0..MaxFaults  BY <1>3, FaultType DEF StageLoad
  <2>2. at' \in [Calls -> PlaceNames]
    BY <1>3, Assign DEF StageLoad, PlaceNames, Independent, Ended
  <2>3. unit' \in [Calls -> [Rules -> UnitStates]]  BY <1>1, <1>3 DEF StageLoad, TypeOK
  <2> QED  BY <1>3, <2>1, <2>2, <2>3 DEF StageLoad, TypeOK, PlaceNames
<1>4. CASE Computed(c)
  <2>1. AfterRules(c) \in PlaceNames  BY DEF AfterRules, PlaceNames, Independent, Staged
  <2>2. at' \in [Calls -> PlaceNames]  BY <1>4, <2>1, Assign DEF Computed
  <2> QED  BY <1>4, <2>2 DEF Computed, TypeOK, PlaceNames
<1>5. CASE Unwound(c)
  <2>1. at' \in [Calls -> PlaceNames]
    BY <1>5, Assign DEF Unwound, PlaceNames, Independent, Ended
  <2> QED  BY <1>5, <2>1 DEF Unwound, TypeOK, PlaceNames
<1>6. ASSUME NEW r \in Rules, RuleStep(c, r)
      PROVE  TypeOK'
  <2>1. \A from : \A to \in UnitStates :
          Move(c, r, from, to) => unit' \in [Calls -> [Rules -> UnitStates]]
    BY DEF Move, TypeOK
  <2> USE DEF UnitStates, Active, Held, Over
  <2>2. CASE TakeOwn(c, r)  BY <2>1, <2>2 DEF TakeOwn, Work, TypeOK
  <2>3. CASE TakeGlobal(c, r)  BY <2>1, <2>3 DEF TakeGlobal, Work, TypeOK
  <2>4. CASE Evaluate(c, r)  BY <2>1, <2>4 DEF Evaluate, Work, TypeOK
  <2>5. CASE TakeLlm(c, r)  BY <2>1, <2>5 DEF TakeLlm, Work, TypeOK
  <2>6. CASE Reply(c, r)  BY <2>1, <2>6 DEF Reply, Work, TypeOK
  <2>7. CASE Refuse(c, r)
    <3>1. unit' \in [Calls -> [Rules -> UnitStates]]  BY <2>1, <2>7 DEF Refuse
    <3>2. tries' \in [Calls -> [Rules -> 0..(MaxAttempts - 1)]]
      <4>1. tries[c][r] \in 0..(MaxAttempts - 1) /\ MaxAttempts \in Nat
        BY LimitsPositive DEF TypeOK
      <4>2. tries[c][r] + 1 \in 0..(MaxAttempts - 1)  BY <2>7, <4>1 DEF Refuse
      <4> QED  BY <2>7, <4>2 DEF Refuse, TypeOK
    <3> QED  BY <2>7, <3>1, <3>2 DEF Refuse, Work, TypeOK
  <2>8. CASE Retry(c, r)  BY <2>1, <2>8 DEF Retry, Work, TypeOK
  <2>9. CASE StopUnit(c, r)
    <3>1. unit' \in [Calls -> [Rules -> UnitStates]]  BY <2>9 DEF StopUnit, TypeOK
    <3> QED  BY <2>9, <3>1 DEF StopUnit, Work, TypeOK
  <2>10. CASE Report(c, r)
    <3>1. told' \in [Calls -> Seq(EventNames \X (0..RuleCount))]
      BY <2>10, Assign, EventTypes DEF Report
    <3> QED  BY <2>10, <3>1 DEF Report, TypeOK
  <2> QED
    BY <1>6, <2>2, <2>3, <2>4, <2>5, <2>6, <2>7, <2>8, <2>9, <2>10 DEF RuleStep
<1> QED  BY <1>2, <1>3, <1>4, <1>5, <1>6

(* The results of an independent call, and its failures. *)
LEMMA TypeResults ==
  ASSUME TypeOK, NEW c \in Calls, Placed(c),
         \/ Persist(c) \/ LogDone(c) \/ Settle(c) \/ Tell(c)
         \/ LogFail(c) \/ FailTask(c) \/ TellFail(c) \/ LogCancel(c)
  PROVE  TypeOK'
<1> USE DEF PlaceNames, Independent, Ended, LogStates, TaskStates, InFlightTask, InFlightLog
<1>1. at[c] # "idle" => Planned(c) \subseteq Rules  BY PlannedRules
<1>2. CASE Persist(c)
  <2>1. faults' \in 0..MaxFaults  BY <1>2, FaultType DEF Persist
  <2>2. at' \in [Calls -> PlaceNames]  BY <1>2, Assign DEF Persist
  <2>3. rows' \subseteq Rules /\ stored' \in [Calls -> SUBSET Rules]
    <3>1. Planned(c) \in SUBSET Rules  BY <1>1, <1>2 DEF Persist, At
    <3> QED  BY <1>2, <3>1, Assign DEF Persist, TypeOK
  <2> QED  BY <1>2, <2>1, <2>2, <2>3 DEF Persist, TypeOK
<1>3. CASE LogDone(c)
  <2>1. faults' \in 0..MaxFaults  BY <1>3, FaultType DEF LogDone, SafeLog
  <2>2. at' \in [Calls -> PlaceNames]
    <3>1. Mode(c) \in {"sync", "async", "stream"}
      BY <1>3, PlanIsRules DEF LogDone, At, Placed, Places, Mode, AnyPlaces, Staged
    <3>2. CASE Mode(c) = "sync"  BY <1>3, <3>2, Assign DEF LogDone
    <3>3. CASE Mode(c) = "async"  BY <1>3, <3>3, Assign DEF LogDone
    <3>4. CASE Mode(c) = "stream"  BY <1>3, <3>4, Assign DEF LogDone
    <3> QED  BY <3>1, <3>2, <3>3, <3>4
  <2>3. /\ log' \in [Calls -> LogStates]
        /\ lost' \in [Calls -> SUBSET {"log", "task", "row"}]
    <3>1. Verdict(c) \in LogStates  BY DEF Verdict
    <3> QED  BY <1>3, <3>1, Assign DEF LogDone, SafeLog, TypeOK
  <2> QED  BY <1>3, <2>1, <2>2, <2>3 DEF LogDone, TypeOK
<1>4. CASE Settle(c)
  <2>1. faults' \in 0..MaxFaults  BY <1>4, FaultType DEF Settle
  <2>2. at' \in [Calls -> PlaceNames]  BY <1>4, Assign DEF Settle
  <2>3. task' \in [Calls -> TaskStates]  BY <1>4, Assign DEF Settle, TypeOK
  <2> QED  BY <1>4, <2>1, <2>2, <2>3 DEF Settle, TypeOK
<1>5. CASE Tell(c)
  <2>1. at' \in [Calls -> PlaceNames]  BY <1>5, Assign DEF Tell
  <2>2. told' \in [Calls -> Seq(EventNames \X (0..RuleCount))]
    BY <1>5, Assign, EventTypes DEF Tell, EventNames
  <2> QED  BY <1>5, <2>1, <2>2 DEF Tell, TypeOK
<1>6. CASE LogFail(c)
  <2>1. faults' \in 0..MaxFaults  BY <1>6, FaultType DEF LogFail, SafeLog
  <2>2. at' \in [Calls -> PlaceNames]
    <3>1. Mode(c) \in {"sync", "async", "stream"}
      BY <1>6, PlanIsRules DEF LogFail, At, Placed, Places, Mode, AnyPlaces, Staged
    <3>2. CASE Mode(c) = "sync"  BY <1>6, <3>2, Assign DEF LogFail
    <3>3. CASE Mode(c) = "async"  BY <1>6, <3>3, Assign DEF LogFail
    <3>4. CASE Mode(c) = "stream"  BY <1>6, <3>4, Assign DEF LogFail
    <3> QED  BY <3>1, <3>2, <3>3, <3>4
  <2>3. /\ log' \in [Calls -> LogStates]
        /\ lost' \in [Calls -> SUBSET {"log", "task", "row"}]
    BY <1>6, Assign DEF LogFail, SafeLog, TypeOK
  <2> QED  BY <1>6, <2>1, <2>2, <2>3 DEF LogFail, TypeOK
<1>7. CASE FailTask(c)
  <2>1. faults' \in 0..MaxFaults  BY <1>7, FaultType DEF FailTask
  <2>2. at' \in [Calls -> PlaceNames]  BY <1>7, Assign DEF FailTask
  <2>3. /\ task' \in [Calls -> TaskStates]
        /\ lost' \in [Calls -> SUBSET {"log", "task", "row"}]
    BY <1>7, Assign DEF FailTask, TypeOK
  <2> QED  BY <1>7, <2>1, <2>2, <2>3 DEF FailTask, TypeOK
<1>8. CASE TellFail(c)
  <2>1. at' \in [Calls -> PlaceNames]  BY <1>8, Assign DEF TellFail
  <2>2. told' \in [Calls -> Seq(EventNames \X (0..RuleCount))]
    BY <1>8, Assign, EventTypes DEF TellFail, EventNames
  <2> QED  BY <1>8, <2>1, <2>2 DEF TellFail, TypeOK
<1>9. CASE LogCancel(c)
  <2>1. faults' \in 0..MaxFaults  BY <1>9, FaultType DEF LogCancel, SafeLog
  <2>2. at' \in [Calls -> PlaceNames]  BY <1>9, Assign DEF LogCancel
  <2>3. /\ log' \in [Calls -> LogStates]
        /\ lost' \in [Calls -> SUBSET {"log", "task", "row"}]
    BY <1>9, Assign DEF LogCancel, SafeLog, TypeOK
  <2> QED  BY <1>9, <2>1, <2>2, <2>3 DEF LogCancel, TypeOK
<1> QED  BY <1>2, <1>3, <1>4, <1>5, <1>6, <1>7, <1>8, <1>9

(* The results of a stage. *)
LEMMA TypeStage ==
  ASSUME TypeOK, NEW c \in Calls, Placed(c), Storing(c),
         Look(c) \/ Save(c) \/ SaveFails(c) \/ TellRule(c) \/ FinishStage(c)
  PROVE  TypeOK'
<1> USE DEF PlaceNames, Staged, Ended
<1>1. at[c] \in {"save", "saveagain", "tellrule"} => Turn(c) \in Rules
  BY PlannedRules, TurnIsUnsettled DEF Storing
<1>2. CASE Look(c)
  <2>1. at' \in [Calls -> PlaceNames]  BY <1>2, Assign DEF Look
  <2>2. seen' \in [Calls -> SUBSET Rules]  BY <1>2 DEF Look, TypeOK
  <2> QED  BY <1>2, <2>1, <2>2 DEF Look, TypeOK
<1>3. CASE Save(c)
  <2>1. at' \in [Calls -> PlaceNames]  BY <1>3, Assign DEF Save
  <2>2. {Turn(c)} \in SUBSET Rules  BY <1>1, <1>3 DEF Save, At
  <2>3. rows' \subseteq Rules /\ stored' \in [Calls -> SUBSET Rules]
    BY <1>3, <2>2, Assign DEF Save
  <2> QED  BY <1>3, <2>1, <2>3 DEF Save, TypeOK
<1>4. CASE SaveFails(c)
  <2>1. at' \in [Calls -> PlaceNames]  BY <1>4, Assign DEF SaveFails
  <2>2. {Turn(c)} \in SUBSET Rules /\ Turn(c) \in Rules  BY <1>1, <1>4 DEF SaveFails, At
  <2>3. rows' \subseteq Rules /\ stored' \in [Calls -> SUBSET Rules]
    BY <1>4, <2>2, Assign DEF SaveFails, TypeOK
  <2>4. unit' \in [Calls -> [Rules -> UnitStates]]
    <3>1. unit' = [unit EXCEPT ![c][Turn(c)] = "failed"] \/ unit' = unit
      BY <1>4 DEF SaveFails
    <3>2. "failed" \in UnitStates  BY DEF UnitStates, Over
    <3>3. unit \in [Calls -> [Rules -> UnitStates]]  BY DEF TypeOK
    <3>4. ASSUME NEW r \in Rules, unit' = [unit EXCEPT ![c][r] = "failed"]
          PROVE  unit' \in [Calls -> [Rules -> UnitStates]]
      BY <3>2, <3>3, <3>4
    <3> QED  BY <2>2, <3>1, <3>3, <3>4
  <2>5. lost' \in [Calls -> SUBSET {"log", "task", "row"}]
    BY <1>4, Assign DEF SaveFails, TypeOK
  <2>6. faults' \in 0..MaxFaults  BY <1>4, FaultType DEF SaveFails
  <2> QED  BY <1>4, <2>1, <2>3, <2>4, <2>5, <2>6 DEF SaveFails, TypeOK
<1>5. CASE TellRule(c)
  <2>1. at' \in [Calls -> PlaceNames]  BY <1>5, Assign DEF TellRule
  <2>2. told' \in [Calls -> Seq(EventNames \X (0..RuleCount))]
    BY <1>1, <1>5, Assign, EventTypes DEF TellRule, At
  <2> QED  BY <1>5, <2>1, <2>2 DEF TellRule, TypeOK
<1>6. CASE FinishStage(c)
  <2>1. at' \in [Calls -> PlaceNames]  BY <1>6, Assign DEF FinishStage
  <2>2. told' \in [Calls -> Seq(EventNames \X (0..RuleCount))]
    BY <1>6, Assign, EventTypes DEF FinishStage, EventNames, TypeOK
  <2>3. faults' \in 0..MaxFaults  BY <1>6, FaultType DEF FinishStage
  <2> QED  BY <1>6, <2>1, <2>2, <2>3 DEF FinishStage, TypeOK
<1> QED  BY <1>2, <1>3, <1>4, <1>5, <1>6
(* A call is cancelled. *)
LEMMA TypeCancel ==
  ASSUME TypeOK, NEW c \in Calls, Placed(c), Storing(c), Cancel(c)
  PROVE  TypeOK'
<1>1. faults' \in 0..MaxFaults  BY FaultType DEF Cancel
<1>2. Interrupt(c) /\ at[c] # "idle"  BY DEF Cancel, Running
<1>3. at' \in [Calls -> PlaceNames]
  <2>1. Interrupted(c) \in PlaceNames  BY DEF Interrupted, PlaceNames, Independent, Ended
  <2> QED  BY <1>2, <2>1, Assign DEF Interrupt
<1>4. log' \in [Calls -> LogStates]
  <2>1. Verdict(c) \in LogStates /\ "running" \in LogStates
    BY DEF Verdict, LogStates, InFlightLog
  <2>2. log' = log \/ SetLog(c, "running") \/ SetLog(c, Verdict(c)) \/ SetLog(c, "failed")
    BY <1>2 DEF Interrupt
  <2>3. "failed" \in LogStates  BY DEF LogStates
  <2> QED  BY <2>1, <2>2, <2>3, Assign DEF TypeOK, LogStates
<1>5. rows' \subseteq Rules /\ stored' \in [Calls -> SUBSET Rules]
  <2>1. \/ rows' = rows /\ stored' = stored
        \/ Write(c, Planned(c))
        \/ at[c] \in {"save", "saveagain"} /\ Write(c, {Turn(c)})
    BY <1>2 DEF Interrupt
  <2>2. CASE rows' = rows /\ stored' = stored  BY <2>2 DEF TypeOK
  <2>3. CASE Write(c, Planned(c))
    <3>1. Planned(c) \in SUBSET Rules  BY <1>2, PlannedRules
    <3> QED  BY <2>3, <3>1, Assign
  <2>4. CASE at[c] \in {"save", "saveagain"} /\ Write(c, {Turn(c)})
    <3>1. {Turn(c)} \in SUBSET Rules  BY <1>2, <2>4, PlannedRules, TurnIsUnsettled DEF Storing
    <3> QED  BY <2>4, <3>1, Assign
  <2> QED  BY <2>1, <2>2, <2>3, <2>4
<1>6. lost' \in [Calls -> SUBSET {"log", "task", "row"}]
  <2>1. Lose(c, "log") \/ lost' = lost  BY <1>2 DEF Interrupt
  <2> QED  BY <2>1, Assign DEF TypeOK
<1>7. task' \in [Calls -> TaskStates]
  <2>1. task' = task \/ \E x \in {"analyzing", "complete", "analysis_failed"} : SetTask(c, x)
    BY <1>2 DEF Interrupt
  <2>2. {"analyzing", "complete", "analysis_failed"} \subseteq TaskStates  BY DEF TaskStates, InFlightTask
  <2> QED  BY <2>1, <2>2, Assign DEF TypeOK, TaskStates
<1> QED
  BY <1>1, <1>2, <1>3, <1>4, <1>5, <1>6, <1>7
  DEF Interrupt, TypeOK, PlaceNames, LogStates, TaskStates

(* The file's rows are wiped; the service stops, and starts again. *)
LEMMA TypeService ==
  ASSUME TypeOK, Wipe \/ Crash \/ RecoverTasks \/ RecoverLogs
  PROVE  TypeOK'
<1>1. CASE Wipe
  <2>1. faults' \in 0..MaxFaults  BY <1>1, FaultType DEF Wipe
  <2> QED  BY <1>1, <2>1 DEF Wipe, callVars, TypeOK
<1>2. CASE Crash
  <2>1. faults' \in 0..MaxFaults  BY <1>2, FaultType DEF Crash
  <2>2. at' \in [Calls -> PlaceNames]  BY <1>2 DEF Crash, TypeOK, PlaceNames, Ended
  <2>3. unit' \in [Calls -> [Rules -> UnitStates]]  BY <1>2 DEF Crash, TypeOK, UnitStates
  <2> QED  BY <1>2, <2>1, <2>2, <2>3 DEF Crash, TypeOK, PlaceNames
<1>3. CASE RecoverTasks
  <2>1. task' \in [Calls -> TaskStates]  BY <1>3 DEF RecoverTasks, TypeOK, TaskStates
  <2> QED  BY <1>3, <2>1 DEF RecoverTasks, TypeOK, TaskStates
<1>4. CASE RecoverLogs
  <2>1. log' \in [Calls -> LogStates]  BY <1>4 DEF RecoverLogs, TypeOK, LogStates
  <2> QED  BY <1>4, <2>1 DEF RecoverLogs, TypeOK, LogStates
<1> QED  BY <1>1, <1>2, <1>3, <1>4

(* Every step keeps the types. *)
LEMMA TypeStep ==
  ASSUME CallsInv, [Next]_vars
  PROVE  TypeOK'
<1>1. TypeOK /\ \A c \in Calls : Placed(c) /\ Storing(c)  BY DEF CallsInv, CallInv
<1>2. CASE UNCHANGED vars  BY <1>1, <1>2 DEF vars, callVars, TypeOK
<1>3. ASSUME NEW c \in Calls, Progress(c)
      PROVE  TypeOK'
  BY <1>1, <1>3, TypeStart, TypeRules, TypeResults, TypeStage DEF Progress, CallStep
<1>4. ASSUME NEW c \in Calls, \E q \in Requests[c] : Submit(c, q) \/ StartStage(c, q)
      PROVE  TypeOK'
  BY <1>1, <1>4, TypeStart
<1> QED
  BY <1>1, <1>2, <1>3, <1>4, TypeStart, TypeCancel, TypeService DEF Next
-----------------------------------------------------------------------------
(* A step of one call *)

(* Nothing that CallInv says of the other calls is touched. *)
OnlyOf(c) ==
  /\ server' = server
  /\ \A d \in Calls \ {c} :
       /\ request'[d] = request[d] /\ at'[d] = at[d] /\ task'[d] = task[d]
       /\ log'[d] = log[d] /\ unit'[d] = unit[d] /\ stored'[d] = stored[d]
       /\ told'[d] = told[d] /\ lost'[d] = lost[d]

(* It is enough to look at the call that moves. *)
LEMMA OthersKeep ==
  ASSUME CallsInv, NEW c \in Calls, OnlyOf(c), CallInv(c)', Storing(c)', TypeOK'
  PROVE  CallsInv'
<1>1. ASSUME NEW d \in Calls, d # c
      PROVE  CallInv(d)' /\ Storing(d)'
  BY <1>1, Frame DEF CallsInv, OnlyOf
<1> QED  BY <1>1 DEF CallsInv

(* What follows from the request alone, and from the request and the units. *)
LEMMA SameRequest ==
  ASSUME NEW c \in Calls, request'[c] = request[c]
  PROVE  /\ Mode(c)' = Mode(c) /\ Planned(c)' = Planned(c)
         /\ unit'[c] = unit[c] => Flawed(c)' = Flawed(c) /\ Verdict(c)' = Verdict(c)
         /\ told'[c] = told[c] =>
              /\ Says(c, Event("task_done"))' = Says(c, Event("task_done"))
              /\ ToldRules(c)' = ToldRules(c) /\ Unsettled(c)' = Unsettled(c)
BY DEF Mode, Planned, Flawed, Verdict, ItemError, Says, ToldRules, Unsettled

(* An event more. *)
LEMMA OneMore ==
  ASSUME TypeOK, NEW c \in Calls, NEW e, told' = [told EXCEPT ![c] = Append(@, e)]
  PROVE  /\ \A x : Says(c, x)' <=> Says(c, x) \/ x = e
         /\ ToldRules(c)' = ToldRules(c) \cup {r \in Rules : e = RuleDone(r)}
<1>1. told[c] \in Seq(EventNames \X (0..RuleCount)) /\ told'[c] = Append(told[c], e)
  BY DEF TypeOK
<1>2. /\ DOMAIN told[c] = 1..Len(told[c]) /\ Len(told[c]) \in Nat
      /\ DOMAIN told'[c] = 1..Len(told[c]) + 1
      /\ \A i \in 1..Len(told[c]) : told'[c][i] = told[c][i]
      /\ told'[c][Len(told[c]) + 1] = e
  BY <1>1
<1>3. \A x : (\E i \in DOMAIN told'[c] : told'[c][i] = x)
              <=> (\E i \in DOMAIN told[c] : told[c][i] = x) \/ x = e
  BY <1>2
<1>4. \A x : Says(c, x)' <=> Says(c, x) \/ x = e  BY <1>3 DEF Says
<1>5. ToldRules(c)' = ToldRules(c) \cup {r \in Rules : e = RuleDone(r)}
  BY <1>3 DEF ToldRules
<1> QED  BY <1>4, <1>5

(* The kind of a call tells where it may stand. *)
LEMMA ByMode ==
  ASSUME NEW c \in Calls, Placed(c)
  PROVE  /\ at[c] = "idle" <=> request[c] = NoRequest
         /\ request[c] # NoRequest =>
              /\ request[c] \in Requests[c]
              /\ Mode(c) \in {"sync", "async", "stream", "stage"}
              /\ Mode(c) = "sync" => at[c] \in CallPlaces
              /\ Mode(c) = "async" =>
                   at[c] \in CallPlaces \cup {"create", "accepted", "greet", "settle", "tell",
                                           "failing", "tellfail", "refused"}
              /\ Mode(c) = "stream" =>
                   at[c] \in CallPlaces \cup {"open", "tell", "tellfail", "abandoned"}
              /\ Mode(c) = "stage" => at[c] \in AnyPlaces \cup Staged
<1>1. CASE at[c] = "idle" /\ request[c] = NoRequest  BY <1>1
<1>2. CASE request[c] \in Requests[c] /\ at[c] \in Places(Mode(c))
  <2>1. Mode(c) \in {"sync", "async", "stream", "stage"} /\ request[c] # NoRequest
    BY <1>2, PlanIsRules DEF Mode
  <2> USE DEF Places, CallPlaces, AnyPlaces, Staged
  <2>2. CASE Mode(c) = "sync"  BY <1>2, <2>1, <2>2
  <2>3. CASE Mode(c) = "async"  BY <1>2, <2>1, <2>3
  <2>4. CASE Mode(c) = "stream"  BY <1>2, <2>1, <2>4
  <2>5. CASE Mode(c) = "stage"  BY <1>2, <2>1, <2>5
  <2> QED  BY <2>1, <2>2, <2>3, <2>4, <2>5
<1> QED  BY <1>1, <1>2 DEF Placed

(* The other way round. *)
LEMMA PlaceOf ==
  ASSUME NEW c \in Calls, NEW q \in Requests[c], NEW s,
         q.mode = "sync" => s \in CallPlaces,
         q.mode = "async" =>
           s \in CallPlaces \cup {"create", "accepted", "greet", "settle", "tell",
                               "failing", "tellfail", "refused"},
         q.mode = "stream" => s \in CallPlaces \cup {"open", "tell", "tellfail", "abandoned"},
         q.mode = "stage" => s \in AnyPlaces \cup Staged
  PROVE  s \in Places(q.mode)
<1>1. q.mode \in {"sync", "async", "stream", "stage"}  BY PlanIsRules
<1> QED  BY <1>1 DEF Places

(* A request. *)
LEMMA SubmitKeeps ==
  ASSUME CallsInv, NEW c \in Calls, NEW q \in Requests[c], Submit(c, q) \/ StartStage(c, q)
  PROVE  CallInv(c)' /\ Storing(c)' /\ OnlyOf(c)
<1> USE DEF CallsInv
<1>1. at[c] = "idle" /\ CallInv(c)  BY DEF Submit, StartStage, At
<1>0. /\ request[c] = NoRequest /\ task[c] = "none" /\ log[c] = "none"
      /\ stored[c] = {} /\ ~Says(c, Event("task_done"))
      /\ \A r \in Rules : unit[c][r] = "none"
  BY <1>1, ByMode DEF CallInv, Fresh, OwnStores, TaskDone, Early
<1>2. /\ request'[c] = q /\ task'[c] = "none" /\ stored'[c] = {} /\ told'[c] = told[c]
      /\ unit'[c] = unit[c] /\ log'[c] \in {"none", "queued"} /\ server' = server
      /\ log'[c] # "none" => q.mode # "stage"
  BY <1>0 DEF TypeOK, Submit, StartStage
<1>3. /\ q.mode \in {"sync", "async", "stream", "stage"} /\ q # NoRequest
      /\ at'[c] = CASE q.mode = "sync" -> "track" [] q.mode = "async" -> "create"
                     [] q.mode = "stream" -> "open" [] q.mode = "stage" -> "read"
  BY PlanIsRules DEF TypeOK, Submit, StartStage, Goto
<1>4. at'[c] \in Places(q.mode) /\ at'[c] \in {"track", "create", "open", "read"}
  <2>1. CASE q.mode = "sync"  BY <1>3, <2>1 DEF Places, CallPlaces
  <2>2. CASE q.mode = "async"  BY <1>3, <2>2 DEF Places
  <2>3. CASE q.mode = "stream"  BY <1>3, <2>3 DEF Places
  <2>4. CASE q.mode = "stage"  BY <1>3, <2>4 DEF Places, Staged
  <2> QED  BY <1>3, <2>1, <2>2, <2>3, <2>4
<1>5. ~Says(c, Event("task_done"))'  BY <1>0, <1>2 DEF Says
<1>6. Placed(c)' /\ Fresh(c)' /\ OwnStores(c)'
  BY <1>0, <1>2, <1>3, <1>4 DEF Placed, Fresh, OwnStores, Mode
<1>7. TaskDone(c)' /\ LogDoneRight(c)' /\ NotInFlight(c)'
  BY <1>2, <1>4, <1>5 DEF TaskDone, LogDoneRight, NotInFlight, Ended, Verdicts
<1>8. Storing(c)'  BY <1>4 DEF Storing
<1>9. OnlyOf(c)
  <2>1. CASE Submit(c, q)
    <3>1. \A d \in Calls \ {c} :
            request'[d] = request[d] /\ at'[d] = at[d] /\ log'[d] = log[d]
      BY <2>1 DEF Submit, Goto, TypeOK
    <3> QED  BY <2>1, <3>1 DEF OnlyOf, Submit
  <2>2. CASE StartStage(c, q)  BY <2>2 DEF OnlyOf, StartStage, Goto, TypeOK
  <2> QED  BY <2>1, <2>2
<1> QED  BY <1>6, <1>7, <1>8, <1>9 DEF CallInv
(* The steps of a call before its rules. *)
LEMMA StartKeeps ==
  ASSUME CallsInv, NEW c \in Calls,
         CreateTask(c) \/ BeginTask(c) \/ Greet(c) \/ Track(c) \/ Abandon(c)
  PROVE  CallInv(c)' /\ Storing(c)' /\ OnlyOf(c)
<1> DEFINE q == request[c]
<1>1. TypeOK /\ CallInv(c) /\ Placed(c)  BY DEF CallsInv, CallInv
<1>2. /\ at[c] \in {"create", "accepted", "greet", "open", "track"}
      /\ at'[c] \in {"accepted", "refused", "greet", "failing", "track", "load", "abandoned"}
      /\ at[c] = "create" => at'[c] \in {"accepted", "refused"}
      /\ at[c] = "accepted" => at'[c] \in {"greet", "failing"}
      /\ at[c] = "greet" => at'[c] = "track"
      /\ at[c] = "open" => at'[c] \in {"track", "abandoned"}
      /\ at[c] = "track" => at'[c] = "load"
  BY <1>1 DEF CreateTask, BeginTask, Greet, Track, Abandon, At, Goto, TypeOK
<1>3. /\ request'[c] = q /\ stored'[c] = stored[c] /\ unit'[c] = unit[c] /\ server' = server
      /\ at[c] # "track" => log'[c] = log[c] /\ lost'[c] = lost[c]
      /\ at[c] \notin {"create", "accepted"} => task'[c] = task[c]
  BY <1>1 DEF CreateTask, BeginTask, Greet, Track, Abandon, At, TypeOK
<1>4. /\ at[c] \in {"create", "accepted"} => task'[c] \in {task[c], "queued", "analyzing"}
      /\ at'[c] = "refused" => task'[c] \in {task[c], "queued"}
      /\ at[c] = "track" => log'[c] \in {log[c], "none", "running"} /\ (log[c] = "none" => log'[c] = "none")
  BY <1>1 DEF CreateTask, BeginTask, Greet, Track, Abandon, SafeLog, SetTask, SetLog, At, Goto, TypeOK
<1>5. /\ q \in Requests[c] /\ q # NoRequest /\ Mode(c) \in {"sync", "async", "stream"}
      /\ at[c] \in {"create", "accepted", "greet"} => Mode(c) = "async"
      /\ at[c] = "open" => Mode(c) = "stream"
  BY <1>1, <1>2, ByMode DEF CallPlaces, AnyPlaces, Staged
<1>6. ~Says(c, Event("task_done")) /\ ~Says(c, Event("task_done"))'
  <2>1. ~Says(c, Event("task_done"))  BY <1>1, <1>2 DEF CallInv, TaskDone
  <2>2. told' = told \/ told' = [told EXCEPT ![c] = Append(@, Event("analyzing"))]
    BY DEF CreateTask, BeginTask, Greet, Track, Abandon, Say
  <2>3. Event("analyzing") # Event("task_done")  BY DEF Event
  <2>4. CASE told' = told  BY <2>1, <2>4 DEF Says
  <2>5. CASE told' = [told EXCEPT ![c] = Append(@, Event("analyzing"))]
    BY <1>1, <2>1, <2>3, <2>5, OneMore
  <2> QED  BY <2>1, <2>2, <2>4, <2>5
<1>7. Mode(c)' = Mode(c)  BY <1>3 DEF Mode
<1>8. Placed(c)'
  <2>1. at'[c] \in Places(q.mode)
    BY <1>2, <1>5, PlaceOf DEF Mode, CallPlaces
  <2> QED  BY <1>3, <1>5, <1>7, <2>1 DEF Placed, Mode
<1>9. /\ \A r \in Rules : unit[c][r] = "none"
      /\ stored[c] = {} /\ task[c] # "complete" /\ log[c] \notin Verdicts
  BY <1>1, <1>2 DEF CallInv, Fresh, Early, TaskDone, LogDoneRight, AfterVerdict
<1>10. Fresh(c)'  BY <1>3, <1>9 DEF Fresh
<1>11. OwnStores(c)'
  BY <1>1, <1>2, <1>3, <1>4, <1>5, <1>7 DEF CallInv, OwnStores
<1>12. TaskDone(c)'
  BY <1>2, <1>3, <1>4, <1>6, <1>9 DEF TaskDone
<1>13. LogDoneRight(c)'
  BY <1>2, <1>3, <1>4, <1>9 DEF LogDoneRight, Verdicts
<1>14. NotInFlight(c)'
  BY <1>1, <1>2, <1>3, <1>4, <1>5, <1>9 DEF CallInv, NotInFlight, OwnStores, Ended
<1>15. Storing(c)'  BY <1>2 DEF Storing
<1>16. OnlyOf(c)
  BY <1>1, <1>3 DEF OnlyOf, CreateTask, BeginTask, Greet, Track, Abandon, SafeLog, SetTask, SetLog,
     Lose, Say, Goto, TypeOK
<1> QED  BY <1>8, <1>10, <1>11, <1>12, <1>13, <1>14, <1>15, <1>16 DEF CallInv
(* The rules are loaded: nothing of the call is finished yet. *)
LEMMA LoadKeeps ==
  ASSUME CallsInv, NEW c \in Calls, Load(c) \/ StageLoad(c)
  PROVE  CallInv(c)' /\ Storing(c)' /\ OnlyOf(c)
<1> DEFINE q == request[c]
<1>1. TypeOK /\ CallInv(c) /\ Placed(c)  BY DEF CallsInv, CallInv
<1>2. /\ at[c] \in {"load", "read"}
      /\ at[c] = "load" => at'[c] \in {"rules", "logfail"}
      /\ at[c] = "read" => at'[c] \in {"rules", "failed"}
      /\ at'[c] = "failed" => unit'[c] = unit[c]
  BY <1>1 DEF Load, StageLoad, At, Goto, TypeOK
<1>3. /\ request'[c] = q /\ stored'[c] = stored[c] /\ server' = server /\ told'[c] = told[c]
      /\ log'[c] = log[c] /\ lost'[c] = lost[c] /\ task'[c] = task[c]
  BY <1>1 DEF Load, StageLoad
<1>4. /\ q \in Requests[c] /\ q # NoRequest /\ Mode(c) \in {"sync", "async", "stream", "stage"}
      /\ at[c] = "read" <=> Mode(c) = "stage"
  BY <1>1, <1>2, ByMode DEF CallPlaces, AnyPlaces, Staged
<1>5. Mode(c)' = Mode(c) /\ Says(c, Event("task_done"))' = Says(c, Event("task_done"))
  BY <1>3 DEF Mode, Says
<1>6. /\ \A r \in Rules : unit[c][r] = "none"
      /\ stored[c] = {} /\ task[c] # "complete" /\ log[c] \notin Verdicts
      /\ ~Says(c, Event("task_done"))
  BY <1>1, <1>2 DEF CallInv, Fresh, Early, TaskDone, LogDoneRight, AfterVerdict
<1>7. Placed(c)'
  <2>1. at'[c] \in Places(q.mode)
    BY <1>2, <1>4, PlaceOf DEF Mode, CallPlaces, AnyPlaces, Staged
  <2> QED  BY <1>3, <1>4, <1>5, <2>1 DEF Placed, Mode
<1>8. Fresh(c)'  BY <1>2 DEF Fresh, Early
<1>9. OwnStores(c)'  BY <1>1, <1>3, <1>5 DEF CallInv, OwnStores
<1>10. TaskDone(c)'  BY <1>2, <1>3, <1>5, <1>6 DEF TaskDone
<1>11. LogDoneRight(c)'  BY <1>2, <1>3, <1>6 DEF LogDoneRight
<1>12. NotInFlight(c)'
  BY <1>1, <1>2, <1>3, <1>4, <1>6 DEF CallInv, NotInFlight, OwnStores, Ended, InFlightTask
<1>13. Storing(c)'  BY <1>2 DEF Storing
<1>14. OnlyOf(c)  BY <1>1, <1>3 DEF OnlyOf, Load, StageLoad, StartUnits, Goto, TypeOK
<1> QED  BY <1>7, <1>8, <1>9, <1>10, <1>11, <1>12, <1>13, <1>14 DEF CallInv

(* A rule moves on, or is stopped: no result is undone by it. *)
LEMMA UnitKeeps ==
  ASSUME CallsInv, NEW c \in Calls, NEW r \in Rules,
         \/ TakeOwn(c, r) \/ TakeGlobal(c, r) \/ Evaluate(c, r) \/ TakeLlm(c, r)
         \/ Reply(c, r) \/ Refuse(c, r) \/ Retry(c, r) \/ StopUnit(c, r)
  PROVE  CallInv(c)' /\ Storing(c)' /\ OnlyOf(c)
<1>1. TypeOK /\ CallInv(c) /\ Storing(c)  BY DEF CallsInv, CallInv
<1>2. /\ at[c] \in {"rules", "stopping", "logcancel", "cancelled"}
      /\ unit[c][r] \in Active
      /\ \E to : unit' = [unit EXCEPT ![c][r] = to]
  BY DEF TakeOwn, TakeGlobal, Evaluate, TakeLlm, Reply, Refuse, Retry, StopUnit, Move, Active, Held
<1>3. Work
  BY DEF TakeOwn, TakeGlobal, Evaluate, TakeLlm, Reply, Refuse, Retry, StopUnit
<1>4. /\ request' = request /\ at' = at /\ task' = task /\ log' = log /\ stored' = stored
      /\ told' = told /\ lost' = lost /\ server' = server
  BY <1>3 DEF Work
<1>5. \A o \in Rules : o # r => unit'[c][o] = unit[c][o]
  BY <1>1, <1>2 DEF TypeOK
<1>6. unit[c][r] \notin Over /\ unit[c][r] # "none"  BY <1>2 DEF Active, Held, Over
<1>7. /\ Mode(c)' = Mode(c) /\ Planned(c)' = Planned(c) /\ ItemError(c)' = ItemError(c)
      /\ Says(c, Event("task_done"))' = Says(c, Event("task_done"))
      /\ Unsettled(c)' = Unsettled(c)
  BY <1>4 DEF Mode, Planned, ItemError, Says, Unsettled, ToldRules
<1>8. log[c] \in Verdicts => Truthful(c)'
  <2>1. SUFFICES ASSUME log[c] \in Verdicts
        PROVE  Truthful(c)'
    OBVIOUS
  <2>2. Truthful(c) /\ at[c] # "idle"
    BY <1>1, <1>2, <2>1 DEF CallInv, LogDoneRight
  <2>3. Planned(c) \subseteq Rules  BY <1>1, <2>2, PlannedRules DEF CallInv
  <2>4. r \notin Planned(c)  BY <1>6, <2>2 DEF Truthful
  <2>5. \A o \in Planned(c) : unit'[c][o] = unit[c][o]  BY <1>5, <2>3, <2>4
  <2>6. Flawed(c)' <=> Flawed(c)  BY <1>7, <2>5 DEF Flawed
  <2> QED  BY <1>4, <1>7, <2>2, <2>5, <2>6 DEF Truthful
<1>9. Placed(c)' /\ Fresh(c)' /\ OwnStores(c)'
  BY <1>1, <1>2, <1>4, <1>7 DEF CallInv, Placed, Fresh, Early, OwnStores
<1>10. TaskDone(c)'
  BY <1>1, <1>4, <1>7 DEF CallInv, TaskDone, LogKept, Lost
<1>11. LogDoneRight(c)'
  BY <1>1, <1>2, <1>4, <1>7, <1>8 DEF CallInv, LogDoneRight
<1>12. NotInFlight(c)'
  BY <1>1, <1>2, <1>4, <1>6 DEF CallInv, NotInFlight, Lost
<1>13. Storing(c)'  BY <1>1, <1>4, <1>7 DEF Storing
<1>14. OnlyOf(c)  BY <1>1, <1>2, <1>4 DEF OnlyOf, TypeOK
<1> QED  BY <1>9, <1>10, <1>11, <1>12, <1>13, <1>14 DEF CallInv

(* A result is reported, all are there, or all units are gone. *)
LEMMA RulesKeep ==
  ASSUME CallsInv, NEW c \in Calls,
         Computed(c) \/ Unwound(c) \/ \E r \in Rules : Report(c, r)
  PROVE  CallInv(c)' /\ Storing(c)' /\ OnlyOf(c)
<1> DEFINE q == request[c]
<1>1. TypeOK /\ CallInv(c) /\ Placed(c)  BY DEF CallsInv, CallInv
<1>2. /\ at[c] \in {"rules", "stopping"}
      /\ at[c] = "stopping" => at'[c] = IF Mode(c) = "stage" THEN "cancelled" ELSE "logcancel"
      /\ at[c] = "rules" =>
           \/ at'[c] = "rules"
           \/ at'[c] = AfterRules(c) /\ \A r \in Planned(c) : unit[c][r] \in Over
  BY <1>1 DEF Computed, Unwound, Report, At, Goto, TypeOK
<1>3. /\ request'[c] = q /\ stored'[c] = stored[c] /\ server' = server /\ unit'[c] = unit[c]
      /\ log'[c] = log[c] /\ lost'[c] = lost[c] /\ task'[c] = task[c]
  BY <1>1 DEF Computed, Unwound, Report
<1>4. q \in Requests[c] /\ q # NoRequest /\ Mode(c) \in {"sync", "async", "stream", "stage"}
  BY <1>1, <1>2, ByMode
<1>5. Mode(c)' = Mode(c) /\ Planned(c)' = Planned(c)  BY <1>3 DEF Mode, Planned
<1>6. /\ at[c] = "rules" => task[c] # "complete" /\ log[c] \notin Verdicts
      /\ at[c] = "stopping" => task[c] # "complete" /\ log[c] \notin Verdicts
      /\ ~Says(c, Event("task_done"))
  BY <1>1, <1>2 DEF CallInv, TaskDone, LogDoneRight, AfterVerdict
<1>7. ~Says(c, Event("task_done"))'
  <2>1. told' = told \/ \E r \in Rules : told' = [told EXCEPT ![c] = Append(@, RuleDone(r))]
    BY DEF Computed, Unwound, Report, Say
  <2>2. \A r : RuleDone(r) # Event("task_done")  BY DEF RuleDone, Event
  <2>3. CASE told' = told  BY <1>6, <2>3 DEF Says
  <2>4. ASSUME NEW e, e # Event("task_done"), told' = [told EXCEPT ![c] = Append(@, e)]
        PROVE  ~Says(c, Event("task_done"))'
    <3>1. \A x : Says(c, x)' <=> Says(c, x) \/ x = e  BY ONLY <1>1, <2>4, OneMore
    <3> QED  BY <1>6, <2>4, <3>1
  <2>5. ASSUME NEW r \in Rules, told' = [told EXCEPT ![c] = Append(@, RuleDone(r))]
        PROVE  ~Says(c, Event("task_done"))'
    BY <2>2, <2>4, <2>5
  <2> QED  BY <2>1, <2>3, <2>5
<1>8. at'[c] \in {"rules", "look", "persist", "logdone", "cancelled", "logcancel"}
  BY <1>2 DEF AfterRules
<1>9. Placed(c)'
  <2>1. at'[c] \in Places(q.mode)
    BY <1>2, <1>4, PlaceOf DEF Mode, CallPlaces, AnyPlaces, Staged, AfterRules
  <2> QED  BY <1>3, <1>4, <1>5, <2>1 DEF Placed, Mode
<1>10. Fresh(c)'  BY <1>8 DEF Fresh, Early
<1>11. OwnStores(c)'  BY <1>1, <1>3, <1>5 DEF CallInv, OwnStores
<1>12. TaskDone(c)'  BY <1>2, <1>3, <1>6, <1>7, <1>8 DEF TaskDone
<1>13. LogDoneRight(c)'
  <2>1. at'[c] \in {"persist", "logdone"} => \A r \in Planned(c) : unit[c][r] \in Over
    BY <1>2 DEF AfterRules
  <2>2. at'[c] = "logdone" => ~q.persist  BY <1>2 DEF AfterRules
  <2> QED  BY <1>1, <1>2, <1>3, <1>5, <1>6, <2>1, <2>2 DEF CallInv, LogDoneRight
<1>14. NotInFlight(c)'
  <2>1. at'[c] = "cancelled" => log[c] = "none"
    BY <1>1, <1>2, <1>4, <1>8 DEF CallInv, OwnStores, AfterRules
  <2> QED  BY <1>3, <1>8, <2>1 DEF NotInFlight, Ended, InFlightLog
<1>15. Storing(c)'  BY <1>8 DEF Storing
<1>16. OnlyOf(c)  BY <1>1, <1>3 DEF OnlyOf, Computed, Unwound, Report, Say, Goto, TypeOK
<1> QED  BY <1>9, <1>10, <1>11, <1>12, <1>13, <1>14, <1>15, <1>16 DEF CallInv

(* The results of an independent call are committed. *)
LEMMA PersistKeeps ==
  ASSUME CallsInv, NEW c \in Calls, Persist(c)
  PROVE  CallInv(c)' /\ Storing(c)' /\ OnlyOf(c)
<1> DEFINE q == request[c]
<1>1. TypeOK /\ CallInv(c) /\ Placed(c)  BY DEF CallsInv, CallInv
<1>2. at[c] = "persist" /\ at'[c] \in {"logdone", "logfail"}
  BY <1>1 DEF Persist, At, Goto, TypeOK
<1>3. /\ request'[c] = q /\ unit'[c] = unit[c] /\ server' = server /\ task'[c] = task[c]
      /\ log'[c] = log[c] /\ lost'[c] = lost[c] /\ told'[c] = told[c]
  BY <1>1 DEF Persist
<1>4. /\ q \in Requests[c] /\ q # NoRequest /\ Mode(c) \in {"sync", "async", "stream"}
  BY <1>1, <1>2, ByMode DEF CallPlaces, AnyPlaces, Staged
<1>5. /\ Mode(c)' = Mode(c) /\ Planned(c)' = Planned(c)
      /\ Says(c, Event("task_done"))' = Says(c, Event("task_done"))
  BY <1>3, SameRequest
<1>6. /\ task[c] # "complete" /\ log[c] \notin Verdicts /\ ~Says(c, Event("task_done"))
      /\ stored[c] \subseteq Planned(c)
  BY <1>1, <1>2, <1>4 DEF CallInv, TaskDone, LogDoneRight, AfterVerdict
<1>7. /\ stored'[c] \subseteq Planned(c)
      /\ at'[c] = "logdone" => stored'[c] = Planned(c)
  <2>1. stored \in [Calls -> SUBSET Rules] /\ at \in [Calls -> PlaceNames]
    BY <1>1 DEF TypeOK, PlaceNames
  <2>2. \/ Write(c, Planned(c))
        \/ stored' = stored /\ Goto(c, "logfail")
    BY DEF Persist
  <2>3. CASE Write(c, Planned(c))  BY <1>6, <2>1, <2>3 DEF Write
  <2>4. CASE stored' = stored /\ Goto(c, "logfail")  BY <1>6, <2>1, <2>4 DEF Goto
  <2> QED  BY <2>2, <2>3, <2>4
<1>8. Placed(c)'
  <2>1. at'[c] \in Places(q.mode)  BY <1>2, <1>4, PlaceOf DEF Mode, CallPlaces
  <2> QED  BY <1>3, <1>4, <1>5, <2>1 DEF Placed, Mode
<1>9. Fresh(c)'  BY <1>2 DEF Fresh, Early
<1>10. OwnStores(c)'  BY <1>1, <1>3, <1>5 DEF CallInv, OwnStores
<1>11. TaskDone(c)'  BY <1>2, <1>3, <1>5, <1>6 DEF TaskDone
<1>12. LogDoneRight(c)'
  BY <1>1, <1>2, <1>3, <1>5, <1>6, <1>7 DEF CallInv, LogDoneRight
<1>13. NotInFlight(c)'  BY <1>2 DEF NotInFlight, Ended
<1>14. Storing(c)'  BY <1>2 DEF Storing
<1>15. OnlyOf(c)  BY <1>1, <1>3 DEF OnlyOf, Persist, Write, Goto, TypeOK
<1> QED  BY <1>8, <1>9, <1>10, <1>11, <1>12, <1>13, <1>14, <1>15 DEF CallInv

(* The verdict of the log: it is true, or the write is lost. *)
LEMMA LogDoneKeeps ==
  ASSUME CallsInv, NEW c \in Calls, LogDone(c)
  PROVE  CallInv(c)' /\ Storing(c)' /\ OnlyOf(c)
<1> DEFINE q == request[c]
<1>1. TypeOK /\ CallInv(c) /\ Placed(c)  BY DEF CallsInv, CallInv
<1>2. at[c] = "logdone"  BY DEF LogDone, At
<1>3. /\ request'[c] = q /\ unit'[c] = unit[c] /\ server' = server /\ task'[c] = task[c]
      /\ stored'[c] = stored[c] /\ told'[c] = told[c]
  BY <1>1 DEF LogDone
<1>4. /\ q \in Requests[c] /\ q # NoRequest /\ Mode(c) \in {"sync", "async", "stream"}
  BY <1>1, <1>2, ByMode DEF CallPlaces, AnyPlaces, Staged
<1>5. /\ at'[c] \in {"settle", "tell", "done"}
      /\ Mode(c) = "async" <=> at'[c] = "settle"
      /\ Mode(c) = "stream" <=> at'[c] = "tell"
  BY <1>1, <1>4 DEF LogDone, Goto, TypeOK
<1>6. \/ log'[c] \in {Verdict(c), "none"} /\ log'[c] = (IF log[c] = "none" THEN "none" ELSE Verdict(c))
      \/ log'[c] = log[c] /\ Lost(c, "log")'
  BY <1>1 DEF LogDone, SafeLog, SetLog, Lose, Lost, TypeOK
<1>7. /\ Mode(c)' = Mode(c) /\ Planned(c)' = Planned(c) /\ Flawed(c)' = Flawed(c)
      /\ Says(c, Event("task_done"))' = Says(c, Event("task_done"))
  BY <1>3, SameRequest
<1>8. /\ task[c] # "complete" /\ log[c] \notin Verdicts /\ ~Says(c, Event("task_done"))
      /\ stored[c] \subseteq Planned(c) /\ (q.persist => stored[c] = Planned(c))
      /\ \A r \in Planned(c) : unit[c][r] \in Over
  BY <1>1, <1>2, <1>4 DEF CallInv, TaskDone, LogDoneRight, AfterVerdict
<1>9. Verdict(c) \in Verdicts /\ (Verdict(c) = "partial_failed" <=> Flawed(c))
  BY DEF Verdict, Verdicts
<1>10. Placed(c)'
  <2>1. at'[c] \in Places(q.mode)
    BY <1>4, <1>5, PlaceOf DEF Mode, CallPlaces, AnyPlaces
  <2> QED  BY <1>3, <1>4, <1>7, <2>1 DEF Placed, Mode
<1>11. Fresh(c)'  BY <1>5 DEF Fresh, Early
<1>12. OwnStores(c)'  BY <1>1, <1>3, <1>4, <1>7 DEF CallInv, OwnStores
<1>13. TaskDone(c)'
  <2>1. LogKept(c)'  BY <1>6, <1>9 DEF LogKept, Lost
  <2> QED  BY <1>3, <1>5, <1>7, <1>8, <2>1 DEF TaskDone
<1>14. LogDoneRight(c)'
  <2>1. log'[c] \in Verdicts => Truthful(c)'
    BY <1>3, <1>6, <1>7, <1>8, <1>9 DEF Truthful, Verdicts
  <2> QED  BY <1>3, <1>5, <1>7, <1>8, <2>1 DEF LogDoneRight, AfterVerdict
<1>15. NotInFlight(c)'
  BY <1>5, <1>6, <1>9 DEF NotInFlight, Verdicts, InFlightLog, Lost
<1>16. Storing(c)'  BY <1>5 DEF Storing
<1>17. OnlyOf(c)
  BY <1>1, <1>3 DEF OnlyOf, LogDone, SafeLog, SetLog, Lose, Goto, TypeOK
<1> QED  BY <1>10, <1>11, <1>12, <1>13, <1>14, <1>15, <1>16, <1>17 DEF CallInv

(* The final state of a task, and its announcement. *)
LEMMA SettleKeeps ==
  ASSUME CallsInv, NEW c \in Calls, Settle(c) \/ Tell(c)
  PROVE  CallInv(c)' /\ Storing(c)' /\ OnlyOf(c)
<1> DEFINE q == request[c]
<1>1. TypeOK /\ CallInv(c) /\ Placed(c)  BY DEF CallsInv, CallInv
<1>2. /\ at[c] \in {"settle", "tell"}
      /\ at[c] = "settle" => at'[c] \in {"tell", "failing"} /\ told'[c] = told[c]
      /\ at[c] = "tell" => at'[c] = "done" /\ task'[c] = task[c]
      /\ at'[c] = "tell" => task'[c] = "complete"
      /\ task'[c] \in {"complete", task[c]}
  BY <1>1 DEF Settle, Tell, SetTask, At, Goto, TypeOK
<1>3. /\ request'[c] = q /\ unit'[c] = unit[c] /\ server' = server /\ log'[c] = log[c]
      /\ stored'[c] = stored[c] /\ lost'[c] = lost[c]
  BY <1>1 DEF Settle, Tell
<1>4. /\ q \in Requests[c] /\ q # NoRequest /\ Mode(c) \in {"async", "stream"}
      /\ at[c] = "settle" => Mode(c) = "async"
  BY <1>1, <1>2, ByMode DEF CallPlaces, AnyPlaces, Staged
<1>5. /\ Mode(c)' = Mode(c) /\ Planned(c)' = Planned(c) /\ Flawed(c)' = Flawed(c)
      /\ at[c] = "settle" => Says(c, Event("task_done"))' = Says(c, Event("task_done"))
  BY <1>2, <1>3, SameRequest
<1>6. /\ at[c] = "settle" => ~Says(c, Event("task_done"))
      /\ at[c] = "tell" /\ Mode(c) = "async" => task[c] = "complete"
      /\ at[c] = "settle" \/ task[c] = "complete" => LogKept(c)
  BY <1>1, <1>4 DEF CallInv, TaskDone
<1>7. Placed(c)'
  <2>1. at'[c] \in Places(q.mode)
    BY <1>2, <1>4, PlaceOf DEF Mode, CallPlaces, AnyPlaces
  <2> QED  BY <1>3, <1>4, <1>5, <2>1 DEF Placed, Mode
<1>8. Fresh(c)'  BY <1>2 DEF Fresh, Early
<1>9. OwnStores(c)'
  BY <1>1, <1>2, <1>3, <1>4, <1>5, <1>6 DEF CallInv, OwnStores
<1>10. LogKept(c)' <=> LogKept(c)  BY <1>3 DEF LogKept, Lost
<1>11. TaskDone(c)'  BY <1>2, <1>3, <1>5, <1>6, <1>10 DEF TaskDone
<1>12. LogDoneRight(c)'
  <2>1. Truthful(c)' <=> Truthful(c)  BY <1>3, <1>5 DEF Truthful
  <2> QED
    BY <1>1, <1>2, <1>3, <1>5, <2>1 DEF CallInv, LogDoneRight, AfterVerdict
<1>13. NotInFlight(c)'
  BY <1>1, <1>2, <1>3 DEF CallInv, NotInFlight, Lost
<1>14. Storing(c)'  BY <1>2 DEF Storing
<1>15. OnlyOf(c)  BY <1>1, <1>3 DEF OnlyOf, Settle, Tell, SetTask, Say, Goto, TypeOK
<1> QED  BY <1>7, <1>8, <1>9, <1>11, <1>12, <1>13, <1>14, <1>15 DEF CallInv

(* The log of a call that failed or was cancelled. *)
LEMMA LogEndKeeps ==
  ASSUME CallsInv, NEW c \in Calls, LogFail(c) \/ LogCancel(c)
  PROVE  CallInv(c)' /\ Storing(c)' /\ OnlyOf(c)
<1> DEFINE q == request[c]
<1>1. TypeOK /\ CallInv(c) /\ Placed(c)  BY DEF CallsInv, CallInv
<1>2. /\ at[c] \in {"logfail", "logcancel"}
      /\ at[c] = "logcancel" => at'[c] = "cancelled"
  BY <1>1 DEF LogFail, LogCancel, At, Goto, TypeOK
<1>3. /\ request'[c] = q /\ unit'[c] = unit[c] /\ server' = server /\ task'[c] = task[c]
      /\ stored'[c] = stored[c] /\ told'[c] = told[c]
  BY <1>1 DEF LogFail, LogCancel
<1>4. /\ q \in Requests[c] /\ q # NoRequest /\ Mode(c) \in {"sync", "async", "stream"}
  BY <1>1, <1>2, ByMode DEF CallPlaces, AnyPlaces, Staged
<1>5. at[c] = "logfail" =>
        /\ at'[c] \in {"failing", "tellfail", "failed"}
        /\ Mode(c) = "async" <=> at'[c] = "failing"
        /\ Mode(c) = "stream" <=> at'[c] = "tellfail"
  BY <1>1, <1>4 DEF LogFail, LogCancel, At, Goto, TypeOK
<1>6. \/ log'[c] \in {"failed", "none"} /\ (log[c] = "none" => log'[c] = "none")
      \/ log'[c] = log[c] /\ Lost(c, "log")'
  BY <1>1 DEF LogFail, LogCancel, SafeLog, SetLog, Lose, Lost, TypeOK
<1>7. /\ Mode(c)' = Mode(c) /\ Planned(c)' = Planned(c) /\ Flawed(c)' = Flawed(c)
      /\ Says(c, Event("task_done"))' = Says(c, Event("task_done"))
  BY <1>3, SameRequest
<1>8. /\ task[c] # "complete" /\ ~Says(c, Event("task_done"))
      /\ at[c] = "logfail" => log[c] \notin Verdicts
  BY <1>1, <1>2, <1>4 DEF CallInv, TaskDone, LogDoneRight, AfterVerdict
<1>9. Placed(c)'
  <2>1. at'[c] \in Places(q.mode)
    BY <1>2, <1>4, <1>5, PlaceOf DEF Mode, CallPlaces, AnyPlaces
  <2> QED  BY <1>3, <1>4, <1>7, <2>1 DEF Placed, Mode
<1>10. Fresh(c)'  BY <1>2, <1>5 DEF Fresh, Early
<1>11. OwnStores(c)'  BY <1>1, <1>3, <1>4, <1>7 DEF CallInv, OwnStores
<1>12. TaskDone(c)'  BY <1>2, <1>3, <1>5, <1>7, <1>8 DEF TaskDone
<1>13. LogDoneRight(c)'
  <2>1. Truthful(c) /\ log'[c] = log[c] => Truthful(c)'  BY <1>3, <1>7 DEF Truthful
  <2>2. log'[c] \in Verdicts => log'[c] = log[c]  BY <1>6 DEF Verdicts
  <2> QED
    BY <1>1, <1>2, <1>3, <1>5, <1>7, <1>8, <2>1, <2>2
    DEF CallInv, LogDoneRight, AfterVerdict
<1>14. NotInFlight(c)'
  <2>1. log'[c] \notin InFlightLog \/ Lost(c, "log")'  BY <1>6 DEF InFlightLog
  <2>2. Mode(c) # "async" => task[c] = "none"  BY <1>1 DEF CallInv, OwnStores
  <2> QED  BY <1>2, <1>3, <1>5, <2>1, <2>2 DEF NotInFlight, InFlightTask
<1>15. Storing(c)'  BY <1>2, <1>5 DEF Storing
<1>16. OnlyOf(c)
  BY <1>1, <1>3 DEF OnlyOf, LogFail, LogCancel, SafeLog, SetLog, Lose, Goto, TypeOK
<1> QED  BY <1>9, <1>10, <1>11, <1>12, <1>13, <1>14, <1>15, <1>16 DEF CallInv

(* The task of a call that failed, and the announcement. *)
LEMMA FailKeeps ==
  ASSUME CallsInv, NEW c \in Calls, FailTask(c) \/ TellFail(c)
  PROVE  CallInv(c)' /\ Storing(c)' /\ OnlyOf(c)
<1> DEFINE q == request[c]
<1>1. TypeOK /\ CallInv(c) /\ Placed(c)  BY DEF CallsInv, CallInv
<1>2. /\ at[c] \in {"failing", "tellfail"}
      /\ at[c] = "failing" => at'[c] = "tellfail" /\ told'[c] = told[c]
      /\ at[c] = "tellfail" => at'[c] = "failed" /\ task'[c] = task[c] /\ lost'[c] = lost[c]
  BY <1>1 DEF FailTask, TellFail, At, Goto, TypeOK
<1>3. /\ request'[c] = q /\ unit'[c] = unit[c] /\ server' = server /\ log'[c] = log[c]
      /\ stored'[c] = stored[c]
  BY <1>1 DEF FailTask, TellFail
<1>4. /\ q \in Requests[c] /\ q # NoRequest /\ Mode(c) \in {"async", "stream"}
      /\ at[c] = "failing" => Mode(c) = "async"
  BY <1>1, <1>2, ByMode DEF CallPlaces, AnyPlaces, Staged
<1>5. Mode(c)' = Mode(c) /\ Planned(c)' = Planned(c) /\ Flawed(c)' = Flawed(c)
  BY <1>3, SameRequest
<1>6. at[c] = "failing" =>
        \/ task'[c] = "analysis_failed" /\ lost'[c] = lost[c]
        \/ task'[c] = task[c] /\ lost'[c] = lost[c] \cup {"task"}
  BY <1>1, <1>2 DEF FailTask, TellFail, SetTask, Lose, At, TypeOK
<1>7. Lost(c, "log")' <=> Lost(c, "log")  BY <1>2, <1>6 DEF Lost
<1>8. ~Says(c, Event("task_done"))'
  <2>1. ~Says(c, Event("task_done"))  BY <1>1, <1>2 DEF CallInv, TaskDone
  <2>2. told' = told \/ told' = [told EXCEPT ![c] = Append(@, Event("task_failed"))]
    BY DEF FailTask, TellFail, Say
  <2>3. Event("task_failed") # Event("task_done")  BY DEF Event
  <2>4. CASE told' = told  BY <2>1, <2>4 DEF Says
  <2>5. CASE told' = [told EXCEPT ![c] = Append(@, Event("task_failed"))]
    BY <1>1, <2>1, <2>3, <2>5, OneMore
  <2> QED  BY <2>2, <2>4, <2>5
<1>9. Placed(c)'
  <2>1. at'[c] \in Places(q.mode)
    BY <1>2, <1>4, PlaceOf DEF Mode, CallPlaces, AnyPlaces
  <2> QED  BY <1>3, <1>4, <1>5, <2>1 DEF Placed, Mode
<1>10. Fresh(c)'  BY <1>2 DEF Fresh, Early
<1>11. OwnStores(c)'
  BY <1>1, <1>2, <1>3, <1>4, <1>5, <1>6 DEF CallInv, OwnStores
<1>12. TaskDone(c)'
  <2>1. LogKept(c)' <=> LogKept(c)  BY <1>3, <1>7 DEF LogKept
  <2> QED  BY <1>1, <1>2, <1>3, <1>6, <1>8, <2>1 DEF CallInv, TaskDone
<1>13. LogDoneRight(c)'
  <2>1. Truthful(c)' <=> Truthful(c)  BY <1>3, <1>5 DEF Truthful
  <2> QED
    BY <1>1, <1>2, <1>3, <1>5, <2>1 DEF CallInv, LogDoneRight, AfterVerdict
<1>14. NotInFlight(c)'
  <2>1. log'[c] \notin InFlightLog \/ Lost(c, "log")' \/ \A r \in Rules : unit'[c][r] = "none"
    BY <1>1, <1>2, <1>3, <1>7 DEF CallInv, NotInFlight
  <2>2. task'[c] \notin InFlightTask \/ Lost(c, "task")'
    BY <1>1, <1>2, <1>6 DEF CallInv, NotInFlight, InFlightTask, Lost
  <2> QED  BY <1>2, <2>1, <2>2 DEF NotInFlight
<1>15. Storing(c)'  BY <1>2 DEF Storing
<1>16. OnlyOf(c)
  BY <1>1, <1>3 DEF OnlyOf, FailTask, TellFail, SetTask, Lose, Say, Goto, TypeOK
<1> QED  BY <1>9, <1>10, <1>11, <1>12, <1>13, <1>14, <1>15, <1>16 DEF CallInv

(* A stage has neither a task nor a log. *)
LEMMA StageKeeps ==
  ASSUME CallsInv, NEW c \in Calls,
         Look(c) \/ Save(c) \/ SaveFails(c) \/ TellRule(c) \/ FinishStage(c)
  PROVE  CallInv(c)' /\ Storing(c)' /\ OnlyOf(c)
<1> DEFINE q == request[c]
<1>1. TypeOK /\ CallInv(c) /\ Placed(c) /\ Storing(c)  BY DEF CallsInv, CallInv
<1>2. /\ at[c] \in {"look", "lookagain", "save", "saveagain", "tellrule", "progress"}
      /\ at'[c] \in {"look", "lookagain", "save", "saveagain", "tellrule", "progress",
                    "done", "failed"}
      /\ at'[c] \in {"save", "saveagain"} => Unsettled(c) # {}
      /\ at'[c] = "tellrule" => at[c] \in {"save", "saveagain"}
      /\ at'[c] \in {"save", "saveagain", "tellrule"} => told'[c] = told[c]
  BY <1>1 DEF Look, Save, SaveFails, TellRule, FinishStage, At, Goto, TypeOK
<1>3. /\ request'[c] = q /\ server' = server /\ log'[c] = log[c] /\ task'[c] = task[c]
  BY <1>1 DEF Look, Save, SaveFails, TellRule, FinishStage
<1>4. q \in Requests[c] /\ q # NoRequest /\ Mode(c) = "stage"
  BY <1>1, <1>2, ByMode DEF CallPlaces, AnyPlaces
<1>5. Mode(c)' = Mode(c)  BY <1>3, SameRequest
<1>6. task[c] = "none" /\ log[c] = "none" /\ ~Says(c, Event("task_done"))
  BY <1>1, <1>2, <1>4 DEF CallInv, OwnStores, TaskDone
<1>7. ~Says(c, Event("task_done"))'
  <2>1. \/ told' = told
        \/ \E e : e # Event("task_done") /\ told' = [told EXCEPT ![c] = Append(@, e)]
    <3>1. \A r : RuleDone(r) # Event("task_done")  BY DEF RuleDone, Event
    <3>2. Event("stage_done") # Event("task_done")  BY DEF Event
    <3> QED  BY <3>1, <3>2 DEF Look, Save, SaveFails, TellRule, FinishStage, Say
  <2>2. CASE told' = told  BY <1>6, <2>2 DEF Says
  <2>3. ASSUME NEW e, e # Event("task_done"), told' = [told EXCEPT ![c] = Append(@, e)]
        PROVE  ~Says(c, Event("task_done"))'
    <3>1. \A x : Says(c, x)' <=> Says(c, x) \/ x = e  BY ONLY <1>1, <2>3, OneMore
    <3> QED  BY <1>6, <2>3, <3>1
  <2> QED  BY <2>1, <2>2, <2>3
<1>8. Placed(c)'
  <2>1. at'[c] \in Places(q.mode)
    BY <1>2, <1>4, PlaceOf DEF Mode, AnyPlaces, Staged
  <2> QED  BY <1>3, <1>4, <1>5, <2>1 DEF Placed, Mode
<1>9. Fresh(c)'  BY <1>2 DEF Fresh, Early
<1>10. OwnStores(c)'  BY <1>3, <1>6 DEF OwnStores
<1>11. TaskDone(c)'  BY <1>2, <1>3, <1>4, <1>5, <1>6, <1>7 DEF TaskDone
<1>12. LogDoneRight(c)'
  BY <1>2, <1>3, <1>4, <1>5, <1>6 DEF LogDoneRight, Verdicts
<1>13. NotInFlight(c)'
  BY <1>2, <1>3, <1>6 DEF NotInFlight, InFlightLog, InFlightTask
<1>14. Storing(c)'
  <2>1. SUFFICES ASSUME at'[c] \in {"save", "saveagain", "tellrule"}
        PROVE  Unsettled(c)' # {}
    BY DEF Storing
  <2>2. Unsettled(c)' = Unsettled(c)  BY <1>2, <1>3, <2>1, SameRequest
  <2> QED  BY <1>1, <1>2, <2>1, <2>2 DEF Storing
<1>15. OnlyOf(c)
  <2>1. CASE Look(c)  BY <1>1, <2>1 DEF OnlyOf, Look, Goto, TypeOK
  <2>2. CASE Save(c)  BY <1>1, <2>2 DEF OnlyOf, Save, Write, Goto, TypeOK
  <2>3. CASE SaveFails(c)
    <3>1. \A d \in Calls \ {c} : unit'[d] = unit[d]
      <4>1. \/ unit' = unit
            \/ \E r : unit' = [unit EXCEPT ![c][r] = "failed"]
        BY <2>3 DEF SaveFails
      <4> QED  BY <1>1, <4>1 DEF TypeOK
    <3> QED  BY <1>1, <2>3, <3>1 DEF OnlyOf, SaveFails, Write, Lose, Goto, TypeOK
  <2>4. CASE TellRule(c)  BY <1>1, <2>4 DEF OnlyOf, TellRule, Say, Goto, TypeOK
  <2>5. CASE FinishStage(c)  BY <1>1, <2>5 DEF OnlyOf, FinishStage, Say, Goto, TypeOK
  <2> QED  BY <2>1, <2>2, <2>3, <2>4, <2>5
<1> QED  BY <1>8, <1>9, <1>10, <1>11, <1>12, <1>13, <1>14, <1>15 DEF CallInv

-----------------------------------------------------------------------------
(* A cancellation, and what befalls all calls at once *)

(* Where a cancelled call goes, and what its interrupted write may have     *)
(* done: nothing is written of a stage's log, no result of a call that has  *)
(* its verdict.                                                             *)
LEMMA InterruptOutcome ==
  ASSUME CallsInv, NEW c \in Calls, Cancel(c)
  PROVE  /\ at[c] \notin Ended \cup {"idle", "create", "open"}
         /\ at'[c] = Interrupted(c)
         /\ request' = request /\ unit' = unit /\ told' = told
         /\ server' = server
         /\ \/ task'[c] = task[c]
            \/ at[c] = "accepted" /\ task'[c] = "analyzing"
            \/ at[c] = "settle" /\ task'[c] = "complete" /\ log'[c] = log[c]
            \/ at[c] = "failing" /\ task'[c] = "analysis_failed"
         /\ lost'[c] = IF at[c] \in {"logcancel", "logfail"} THEN lost[c] \cup {"log"}
                       ELSE lost[c]
         /\ \/ log'[c] = log[c]
            \/ at[c] = "track" /\ log'[c] = "running" /\ log[c] # "none"
            \/ at[c] = "logdone" /\ log'[c] = Verdict(c) /\ log[c] # "none"
            \/ at[c] \in {"logfail", "logcancel"} /\ log'[c] = "failed" /\ log[c] # "none"
         /\ \/ stored'[c] = stored[c]
            \/ at[c] = "persist" /\ stored'[c] = stored[c] \cup Planned(c)
            \/ at[c] \in {"save", "saveagain"} /\ log'[c] = log[c]
         /\ OnlyOf(c)
<1>1. TypeOK  BY DEF CallsInv
<1>2. Interrupt(c) /\ at[c] \notin Ended \cup {"idle", "create", "open"}
  BY DEF Cancel, Running
<1>3. at'[c] = Interrupted(c) /\ \A d \in Calls \ {c} : at'[d] = at[d]
  BY <1>1, <1>2 DEF Interrupt, Goto, TypeOK
<1>4. /\ lost'[c] = IF at[c] \in {"logcancel", "logfail"} THEN lost[c] \cup {"log"} ELSE lost[c]
      /\ \A d \in Calls \ {c} : lost'[d] = lost[d]
  BY <1>1, <1>2 DEF Interrupt, Lose, TypeOK
<1>5. /\ request' = request /\ unit' = unit /\ told' = told
      /\ server' = server
  BY <1>2 DEF Interrupt
<1>6. /\ \/ log' = log
         \/ at[c] = "track" /\ SetLog(c, "running") /\ stored' = stored
         \/ at[c] = "logdone" /\ SetLog(c, Verdict(c)) /\ stored' = stored
         \/ at[c] \in {"logfail", "logcancel"} /\ SetLog(c, "failed") /\ stored' = stored
      /\ \/ stored' = stored
         \/ at[c] = "persist" /\ Write(c, Planned(c))
         \/ at[c] \in {"save", "saveagain"} /\ Write(c, {Turn(c)}) /\ log' = log
      /\ \/ task' = task
         \/ at[c] = "accepted" /\ SetTask(c, "analyzing")
         \/ at[c] = "settle" /\ SetTask(c, "complete") /\ log' = log
         \/ at[c] = "failing" /\ SetTask(c, "analysis_failed")
  BY <1>2 DEF Interrupt
<1>7. /\ \/ log'[c] = log[c]
         \/ at[c] = "track" /\ log'[c] = "running" /\ log[c] # "none"
         \/ at[c] = "logdone" /\ log'[c] = Verdict(c) /\ log[c] # "none"
         \/ at[c] \in {"logfail", "logcancel"} /\ log'[c] = "failed" /\ log[c] # "none"
      /\ \A d \in Calls \ {c} : log'[d] = log[d]
  BY <1>1, <1>6 DEF SetLog, TypeOK
<1>8. /\ \/ stored'[c] = stored[c]
         \/ at[c] = "persist" /\ stored'[c] = stored[c] \cup Planned(c)
         \/ at[c] \in {"save", "saveagain"} /\ log'[c] = log[c]
      /\ \A d \in Calls \ {c} : stored'[d] = stored[d]
  BY <1>1, <1>6 DEF Write, TypeOK
<1>9. /\ \/ task'[c] = task[c]
         \/ at[c] = "accepted" /\ task'[c] = "analyzing"
         \/ at[c] = "settle" /\ task'[c] = "complete" /\ log'[c] = log[c]
         \/ at[c] = "failing" /\ task'[c] = "analysis_failed"
      /\ \A d \in Calls \ {c} : task'[d] = task[d]
  BY <1>1, <1>6 DEF SetTask, TypeOK
<1>10. OnlyOf(c)  BY <1>3, <1>4, <1>5, <1>7, <1>8, <1>9 DEF OnlyOf
<1> QED  BY <1>2, <1>3, <1>4, <1>5, <1>7, <1>8, <1>9, <1>10

(* A cancelled call leaves its log without a verdict that is not true. *)
LEMMA CancelKeeps ==
  ASSUME CallsInv, NEW c \in Calls, Cancel(c)
  PROVE  CallInv(c)' /\ Storing(c)' /\ OnlyOf(c)
<1> DEFINE q == request[c]
<1>1. TypeOK /\ CallInv(c) /\ Placed(c)  BY DEF CallsInv, CallInv
<1>2. /\ at[c] \notin Ended \cup {"idle", "create", "open"}
      /\ at'[c] = Interrupted(c)
      /\ request' = request /\ unit' = unit /\ told' = told
      /\ server' = server
  BY InterruptOutcome
<1>3. /\ lost'[c] = IF at[c] \in {"logcancel", "logfail"} THEN lost[c] \cup {"log"} ELSE lost[c]
      /\ \/ log'[c] = log[c]
         \/ at[c] = "track" /\ log'[c] = "running" /\ log[c] # "none"
         \/ at[c] = "logdone" /\ log'[c] = Verdict(c) /\ log[c] # "none"
         \/ at[c] \in {"logfail", "logcancel"} /\ log'[c] = "failed" /\ log[c] # "none"
      /\ \/ task'[c] = task[c]
         \/ at[c] = "accepted" /\ task'[c] = "analyzing"
         \/ at[c] = "settle" /\ task'[c] = "complete" /\ log'[c] = log[c]
         \/ at[c] = "failing" /\ task'[c] = "analysis_failed"
  BY InterruptOutcome
<1>4. /\ \/ stored'[c] = stored[c]
         \/ at[c] = "persist" /\ stored'[c] = stored[c] \cup Planned(c)
         \/ at[c] \in {"save", "saveagain"} /\ log'[c] = log[c]
  BY InterruptOutcome
<1>5. /\ q \in Requests[c] /\ q # NoRequest /\ Mode(c) \in {"sync", "async", "stream", "stage"}
      /\ Mode(c) = "stage" => at[c] \in AnyPlaces \cup Staged
      /\ Mode(c) # "stage" => at[c] \notin Staged
      /\ at[c] \in {"accepted", "greet", "settle", "failing"} => Mode(c) = "async"
  BY <1>1, <1>2, ByMode DEF CallPlaces, AnyPlaces, Staged
<1>6. /\ at'[c] \in {"logcancel", "stopping", "cancelled"}
      /\ at'[c] = "logcancel" => Mode(c) # "stage"
      /\ at'[c] = "stopping" => at[c] = "rules"
      /\ at'[c] = "cancelled" =>
           /\ at[c] \notin {"load", "persist", "logdone", "rules"}
           /\ at[c] = "stopping" => Mode(c) = "stage"
  BY <1>2, <1>5 DEF Interrupted, AnyPlaces, Staged
<1>7. /\ Mode(c)' = Mode(c) /\ Planned(c)' = Planned(c) /\ Flawed(c)' = Flawed(c)
      /\ Says(c, Event("task_done"))' = Says(c, Event("task_done"))
  BY <1>2, SameRequest
<1>8. ~Says(c, Event("task_done"))  BY <1>1, <1>2 DEF CallInv, TaskDone, Ended
<1>9. Placed(c)'
  <2>1. at'[c] \in Places(q.mode)
    BY <1>5, <1>6, PlaceOf DEF Mode, CallPlaces, AnyPlaces
  <2> QED  BY <1>2, <1>5, <1>7, <2>1 DEF Placed, Mode
<1>10. Fresh(c)'  BY <1>6 DEF Fresh, Early
<1>11. OwnStores(c)'
  BY <1>1, <1>2, <1>3, <1>5, <1>7 DEF CallInv, OwnStores
<1>12. TaskDone(c)'
  <2>1. task'[c] = "complete" =>
          at[c] \in {"settle", "tell", "failing", "tellfail"} /\ LogKept(c)
    BY <1>1, <1>2, <1>3 DEF CallInv, TaskDone, Ended
  <2>2. task'[c] = "complete" => at'[c] = "cancelled" /\ log'[c] = log[c]
    BY <1>2, <1>3, <2>1 DEF Interrupted
  <2>3. Lost(c, "log") => Lost(c, "log")'  BY <1>3 DEF Lost
  <2>4. task'[c] = "complete" => LogKept(c)'  BY <2>1, <2>2, <2>3 DEF LogKept
  <2> QED  BY <1>2, <1>6, <1>7, <1>8, <2>2, <2>4 DEF TaskDone
<1>13. LogDoneRight(c)'
  <2>1. Mode(c) # "stage" => stored'[c] \subseteq Planned(c)
    BY <1>1, <1>4, <1>5 DEF CallInv, LogDoneRight, Staged
  <2>2. ASSUME log'[c] \in Verdicts
        PROVE  at'[c] \in AfterVerdict /\ Truthful(c)'
    <3>1. CASE log'[c] = log[c]
      <4>1. at[c] \in AfterVerdict /\ Truthful(c)
        BY <1>1, <2>2, <3>1 DEF CallInv, LogDoneRight
      <4>2. Mode(c) # "stage"  BY <1>1, <2>2, <3>1 DEF CallInv, OwnStores, Verdicts
      <4>3. stored'[c] = stored[c]
        BY <1>4, <1>5, <4>1, <4>2 DEF AfterVerdict, Staged
      <4>4. Truthful(c)'  BY <1>2, <1>7, <3>1, <4>1, <4>3 DEF Truthful
      <4> QED  BY <1>6, <4>1, <4>4 DEF AfterVerdict
    <3>2. CASE at[c] = "track" /\ log'[c] = "running"  BY <2>2, <3>2 DEF Verdicts
    <3>3. CASE at[c] = "logdone" /\ log'[c] = Verdict(c)
      <4>1. stored'[c] = stored[c]  BY <1>4, <3>3
      <4>2. /\ \A r \in Planned(c) : unit[c][r] \in Over
            /\ q.persist => stored[c] = Planned(c)
        BY <1>1, <1>5, <3>3 DEF CallInv, LogDoneRight
      <4>3. Verdict(c) = "partial_failed" <=> Flawed(c)  BY DEF Verdict
      <4>4. Truthful(c)'  BY <1>2, <1>7, <3>3, <4>1, <4>2, <4>3 DEF Truthful
      <4> QED  BY <1>6, <3>3, <4>4 DEF AfterVerdict
    <3>4. log'[c] # "failed"  BY <2>2 DEF Verdicts
    <3> QED  BY <1>3, <3>1, <3>2, <3>3, <3>4
  <2> QED  BY <1>2, <1>6, <1>7, <2>1, <2>2 DEF LogDoneRight
<1>14. NotInFlight(c)'
  <2>1. ASSUME at'[c] = "cancelled"
        PROVE  log'[c] \notin InFlightLog \/ Lost(c, "log")' \/ \A r \in Rules : unit'[c][r] = "none"
    <3>1. CASE at[c] \in {"logcancel", "logfail"}  BY <1>3, <3>1 DEF Lost
    <3>2. CASE at[c] \in Early  BY <1>1, <1>2, <3>2 DEF CallInv, Fresh
    <3>3. CASE at[c] \in {"settle", "tell", "failing", "tellfail"}
      <4>1. log'[c] = log[c] /\ (Lost(c, "log") => Lost(c, "log")')
        BY <1>3, <3>3 DEF Lost
      <4> QED  BY <1>1, <1>2, <3>3, <4>1 DEF CallInv, NotInFlight
    <3>4. CASE Mode(c) = "stage"
      <4>1. log[c] = "none"  BY <1>1, <3>4 DEF CallInv, OwnStores
      <4> QED  BY <1>3, <4>1 DEF InFlightLog
    <3>5. \/ at[c] \in {"logcancel", "logfail"} \cup Early
          \/ at[c] \in {"settle", "tell", "failing", "tellfail"}
          \/ Mode(c) = "stage"
      BY <1>1, <1>2, <1>5, <1>6, <2>1
      DEF TypeOK, Independent, Ended, Early
    <3> QED  BY <3>1, <3>2, <3>3, <3>4, <3>5
  <2> QED  BY <1>6, <2>1 DEF NotInFlight, Ended
<1>15. Storing(c)'  BY <1>6 DEF Storing
<1>16. OnlyOf(c)  BY InterruptOutcome
<1> QED  BY <1>9, <1>10, <1>11, <1>12, <1>13, <1>14, <1>15, <1>16 DEF CallInv

(* The service stops: every call that runs is gone. *)
LEMMA CrashKeeps ==
  ASSUME CallsInv, Crash
  PROVE  \A c \in Calls : CallInv(c)' /\ Storing(c)'
<1> SUFFICES ASSUME NEW c \in Calls
             PROVE  CallInv(c)' /\ Storing(c)'
  OBVIOUS
<1> DEFINE q == request[c]
<1>1. TypeOK /\ CallInv(c) /\ Placed(c)  BY DEF CallsInv, CallInv
<1>2. /\ at'[c] = IF at[c] \in Ended \cup {"idle"} THEN at[c] ELSE "gone"
      /\ server' = "tasks"
      /\ request' = request /\ task' = task /\ log' = log /\ stored' = stored
      /\ told' = told /\ lost' = lost
  BY DEF Crash
<1>3. \A r \in Rules : unit'[c][r] = IF unit[c][r] \in Active THEN "stopped" ELSE unit[c][r]
  BY DEF Crash
<1>4. /\ \A r \in Rules : unit[c][r] = "none" => unit'[c][r] = "none"
      /\ \A r \in Rules : unit[c][r] \in Over => unit'[c][r] = unit[c][r]
      /\ \A r \in Rules : unit'[c][r] = "failed" <=> unit[c][r] = "failed"
  BY <1>3 DEF Active, Held, Over
<1>5. Mode(c)' = Mode(c) /\ Planned(c)' = Planned(c)
      /\ Says(c, Event("task_done"))' = Says(c, Event("task_done"))
  BY <1>2, SameRequest
<1>6. Placed(c)'
  <2>1. CASE at[c] = "idle"  BY <1>1, <1>2, <2>1, ByMode DEF Placed
  <2>2. CASE at[c] # "idle"
    <3>1. q \in Requests[c] /\ q # NoRequest /\ at[c] \in Places(q.mode)
      BY <1>1, <2>2, ByMode DEF Placed, Mode
    <3>2. "gone" \in Places(q.mode)
      BY <3>1, PlaceOf DEF CallPlaces, AnyPlaces
    <3> QED  BY <1>2, <1>5, <3>1, <3>2 DEF Placed, Mode
  <2> QED  BY <2>1, <2>2
<1>7. Fresh(c)'
  BY <1>1, <1>2, <1>4 DEF CallInv, Fresh, Early, Ended
<1>8. OwnStores(c)'  BY <1>1, <1>2, <1>5 DEF CallInv, OwnStores
<1>9. TaskDone(c)'
  <2>1. LogKept(c)' <=> LogKept(c)  BY <1>2 DEF LogKept, Lost
  <2> QED  BY <1>1, <1>2, <1>5, <2>1 DEF CallInv, TaskDone, Ended
<1>10. LogDoneRight(c)'
  <2>1. ASSUME log[c] \in Verdicts
        PROVE  at'[c] \in AfterVerdict /\ Truthful(c)'
    <3>1. at[c] \in AfterVerdict /\ Truthful(c)  BY <1>1, <2>1 DEF CallInv, LogDoneRight
    <3>2. Planned(c) \subseteq Rules  BY <1>1, <3>1, PlannedRules DEF AfterVerdict
    <3>3. Flawed(c)' <=> Flawed(c)
      BY <1>2, <1>4, <1>5, <3>2 DEF Flawed, ItemError
    <3>4. Truthful(c)'  BY <1>2, <1>4, <1>5, <3>1, <3>2, <3>3 DEF Truthful
    <3> QED  BY <1>2, <3>1, <3>4 DEF AfterVerdict
  <2> QED  BY <1>1, <1>2, <1>5, <2>1 DEF CallInv, LogDoneRight, Ended
<1>11. NotInFlight(c)'
  <2>1. Lost(c, "log")' = Lost(c, "log") /\ Lost(c, "task")' = Lost(c, "task")
    BY <1>2 DEF Lost
  <2> QED  BY <1>1, <1>2, <1>4, <2>1 DEF CallInv, NotInFlight, Ended
<1>12. Storing(c)'  BY <1>2 DEF Storing, Ended
<1> QED  BY <1>6, <1>7, <1>8, <1>9, <1>10, <1>11, <1>12 DEF CallInv

(* It starts again: the tasks in flight are failed, then the logs. *)
LEMMA RecoverKeeps ==
  ASSUME CallsInv, RecoverTasks \/ RecoverLogs
  PROVE  \A c \in Calls : CallInv(c)' /\ Storing(c)'
<1> SUFFICES ASSUME NEW c \in Calls
             PROVE  CallInv(c)' /\ Storing(c)'
  OBVIOUS
<1>1. TypeOK /\ CallInv(c) /\ Storing(c)  BY DEF CallsInv
<1>2. /\ request' = request /\ at' = at /\ unit' = unit /\ stored' = stored
      /\ told' = told /\ lost' = lost
  BY DEF RecoverTasks, RecoverLogs
<1>3. \/ /\ server = "tasks" /\ server' = "logs" /\ log' = log
         /\ task'[c] = IF task[c] \in InFlightTask THEN "analysis_failed" ELSE task[c]
      \/ /\ server = "logs" /\ server' = "up" /\ task' = task
         /\ log'[c] = IF log[c] \in InFlightLog THEN "failed" ELSE log[c]
  BY DEF RecoverTasks, RecoverLogs
<1>4. /\ task'[c] = "none" <=> task[c] = "none"
      /\ task'[c] = "complete" <=> task[c] = "complete"
      /\ task'[c] \in InFlightTask => task[c] \in InFlightTask /\ server' = "up" /\ server = "logs"
      /\ log'[c] = "none" <=> log[c] = "none"
      /\ log'[c] \in Verdicts <=> log[c] \in Verdicts
      /\ log'[c] = "partial_failed" <=> log[c] = "partial_failed"
      /\ log'[c] \in InFlightLog => log[c] \in InFlightLog /\ server' # "up"
  BY <1>3 DEF InFlightTask, InFlightLog, Verdicts
<1>5. /\ Mode(c)' = Mode(c) /\ Planned(c)' = Planned(c) /\ Flawed(c)' = Flawed(c)
      /\ Says(c, Event("task_done"))' = Says(c, Event("task_done"))
      /\ Unsettled(c)' = Unsettled(c)
  BY <1>2, SameRequest
<1>6. Lost(c, "log")' = Lost(c, "log") /\ Lost(c, "task")' = Lost(c, "task")
  BY <1>2 DEF Lost
<1>7. Placed(c)' /\ Fresh(c)' /\ OwnStores(c)' /\ Storing(c)'
  BY <1>1, <1>2, <1>4, <1>5 DEF CallInv, Placed, Fresh, OwnStores, Storing
<1>8. TaskDone(c)'
  <2>1. LogKept(c) => LogKept(c)'  BY <1>4, <1>6 DEF LogKept
  <2> QED  BY <1>1, <1>2, <1>4, <1>5, <2>1 DEF CallInv, TaskDone
<1>9. LogDoneRight(c)'
  <2>1. Truthful(c)' <=> Truthful(c)  BY <1>2, <1>4, <1>5 DEF Truthful
  <2> QED  BY <1>1, <1>2, <1>4, <1>5, <2>1 DEF CallInv, LogDoneRight
<1>10. NotInFlight(c)'
  <2>1. at[c] = "gone" => task'[c] \notin InFlightTask
    BY <1>1, <1>4 DEF CallInv, NotInFlight
  <2>2. at[c] = "refused" => task'[c] # "analyzing"
    BY <1>1, <1>3 DEF CallInv, NotInFlight
  <2> QED  BY <1>1, <1>2, <1>4, <1>6, <2>1, <2>2 DEF CallInv, NotInFlight
<1> QED  BY <1>7, <1>8, <1>9, <1>10 DEF CallInv

(* At the beginning. *)
LEMMA CallsInvInit ==
  ASSUME Init
  PROVE  CallsInv
<1>1. TypeOK
  <2>1. 0 \in 0..(MaxAttempts - 1)  BY LimitsPositive
  <2>2. 0 \in 0..MaxFaults  BY FaultsKnown
  <2>3. <<>> \in Seq(EventNames \X (0..RuleCount))  OBVIOUS
  <2>4. request \in [Calls -> RequestType \cup {NoRequest}]
    BY DEF Init
  <2> QED
    BY <2>1, <2>2, <2>3, <2>4
    DEF Init, TypeOK, Independent, UnitStates, InFlightTask, InFlightLog
<1>2. ASSUME NEW c \in Calls
      PROVE  CallInv(c) /\ Storing(c)
  <2>1. ~Says(c, Event("task_done"))  BY DEF Init, Says
  <2> QED
    BY <2>1 DEF Init, CallInv, Storing, Placed, Fresh, OwnStores, TaskDone, LogDoneRight,
       NotInFlight, Verdicts, Ended
<1> QED  BY <1>1, <1>2 DEF CallsInv

(* Every step. *)
LEMMA CallsInvStep ==
  ASSUME CallsInv, [Next]_vars
  PROVE  CallsInv'
<1>1. TypeOK'  BY TypeStep
<1>2. CASE UNCHANGED vars
  <2>1. ASSUME NEW c \in Calls PROVE CallInv(c)' /\ Storing(c)'
    BY <1>2, Frame DEF vars, callVars, CallsInv
  <2> QED  BY <1>1, <2>1 DEF CallsInv
<1>3. ASSUME NEW c \in Calls, \E q \in Requests[c] : Submit(c, q) \/ StartStage(c, q)
      PROVE  CallsInv'
  BY <1>1, <1>3, SubmitKeeps, OthersKeep
<1>4. ASSUME NEW c \in Calls, CallStep(c) \/ Cancel(c) \/ Abandon(c)
      PROVE  CallsInv'
  <2>1. CallInv(c)' /\ Storing(c)' /\ OnlyOf(c)
    BY <1>4, StartKeeps, LoadKeeps, RulesKeep, PersistKeeps, LogDoneKeeps, SettleKeeps,
       LogEndKeeps, FailKeeps, StageKeeps, CancelKeeps
    DEF CallStep
  <2> QED  BY <1>1, <2>1, OthersKeep
<1>5. ASSUME NEW c \in Calls, NEW r \in Rules, RuleStep(c, r)
      PROVE  CallsInv'
  <2>1. CallInv(c)' /\ Storing(c)' /\ OnlyOf(c)
    BY <1>5, UnitKeeps, RulesKeep DEF RuleStep
  <2> QED  BY <1>1, <2>1, OthersKeep
<1>6. CASE Wipe
  <2>1. ASSUME NEW c \in Calls PROVE CallInv(c)' /\ Storing(c)'
    BY <1>6, Frame DEF Wipe, callVars, CallsInv
  <2> QED  BY <1>1, <2>1 DEF CallsInv
<1>7. CASE Crash  BY <1>1, <1>7, CrashKeeps DEF CallsInv
<1>8. CASE RecoverTasks \/ RecoverLogs  BY <1>1, <1>8, RecoverKeeps DEF CallsInv
<1> QED  BY <1>2, <1>3, <1>4, <1>5, <1>6, <1>7, <1>8 DEF Next, Progress

(* CallsInv is an invariant. *)
LEMMA CallsInvHolds == Spec => []CallsInv
BY CallsInvInit, CallsInvStep, PTL DEF Spec

-----------------------------------------------------------------------------
(* The results *)

(* The variables keep their types. *)
THEOREM CallTypes == Spec => []TypeOK
<1>1. CallsInv => TypeOK  BY DEF CallsInv
<1> QED  BY <1>1, CallsInvHolds, PTL

(* A background task is announced as done only after its row says complete, *)
(* the row stays so whatever fails afterwards, and the log of the same call *)
(* does not contradict it unless its write was lost.                        *)
THEOREM DoneTasksAreStored == Spec => []DoneIsStored
<1>1. CallsInv => DoneIsStored
  <2> SUFFICES ASSUME CallsInv, NEW c \in Calls
               PROVE  /\ Says(c, Event("task_done")) /\ Mode(c) = "async" => task[c] = "complete"
                      /\ task[c] = "complete" =>
                           log[c] \in {"none", "complete", "partial_failed"} \/ "log" \in lost[c]
    BY DEF DoneIsStored
  <2>1. CallInv(c)  BY DEF CallsInv
  <2>2. at[c] = "done" => request[c] # NoRequest  BY <2>1, ByMode DEF CallInv
  <2> QED  BY <2>1, <2>2 DEF CallInv, TaskDone, LogKept, Verdicts, Lost
<1> QED  BY <1>1, CallsInvHolds, PTL

(* A log that reads complete or partial_failed tells what became of the     *)
(* rules and of the results, for any interleaving of calls, cancellations,  *)
(* lost writes and restarts.                                                *)
THEOREM LogsAreTrue == Spec => []LogIsTrue
<1>1. CallsInv => LogIsTrue
  BY DEF CallsInv, CallInv, LogDoneRight, Truthful, LogIsTrue, Verdicts
<1> QED  BY <1>1, CallsInvHolds, PTL

(* Only the listed ways leave a row in flight behind an ended call, and     *)
(* none survives a restart.                                                 *)
THEOREM EndedCallsAreSettled == Spec => []Settled
<1>1. CallsInv => Settled
  <2> SUFFICES ASSUME CallsInv, server = "up", NEW c \in Calls
               PROVE  /\ at[c] \in Ended /\ log[c] \in InFlightLog =>
                           /\ at[c] # "gone"
                           /\ "log" \in lost[c] \/ \A r \in Rules : unit[c][r] = "none"
                      /\ at[c] \in Ended /\ task[c] \in InFlightTask =>
                           \/ at[c] = "cancelled"
                           \/ at[c] = "refused" /\ task[c] = "queued"
                           \/ at[c] = "failed" /\ "task" \in lost[c]
    BY DEF Settled
  <2>1. CallInv(c)  BY DEF CallsInv
  <2>2. at[c] \in Ended /\ log[c] \in InFlightLog =>
          at[c] # "gone" /\ ("log" \in lost[c] \/ \A r \in Rules : unit[c][r] = "none")
    BY <2>1 DEF CallInv, NotInFlight, Lost
  <2>3. ASSUME at[c] \in Ended, task[c] \in InFlightTask
        PROVE  \/ at[c] = "cancelled"
               \/ at[c] = "refused" /\ task[c] = "queued"
               \/ at[c] = "failed" /\ "task" \in lost[c]
    <3>1. task[c] # "none" /\ task[c] # "complete"  BY <2>3 DEF InFlightTask
    <3>2. request[c] # NoRequest /\ Mode(c) = "async"
      BY <2>1, <3>1 DEF CallInv, OwnStores
    <3>3. at[c] # "done"  BY <2>1, <3>1, <3>2 DEF CallInv, TaskDone
    <3>4. at[c] # "abandoned" /\ (at[c] = "refused" => task[c] = "queued")
      BY <2>1, <2>3, <3>1 DEF CallInv, NotInFlight, InFlightTask
    <3>5. at[c] # "gone"  BY <2>1, <2>3 DEF CallInv, NotInFlight
    <3> QED  BY <2>1, <2>3, <3>3, <3>4, <3>5 DEF CallInv, NotInFlight, Ended, Lost
  <2> QED  BY <2>2, <2>3
<1> QED  BY <1>1, CallsInvHolds, PTL
-----------------------------------------------------------------------------
(* What has been told *)

(* Nothing has been told yet: the call is not greeted.                      *)
Unheard == {"idle", "create", "accepted", "greet", "open", "read", "refused", "abandoned"}

(* Everything has been told, but for the end.                               *)
ToldAll(c) ==
  \/ at[c] = "progress"
  \/ at[c] \in {"persist", "logdone", "settle", "tell"} /\ Reports(c)

(* Before its rules a call has told at most that it analyzes.               *)
Greeted(c) ==
  /\ at[c] \in Unheard => told[c] = <<>>
  /\ at[c] \in {"track", "load"} => ToldRules(c) = {}

(* The shape of the sequence: a beginning, an end, nothing twice.           *)
Shape(c) ==
  \A i \in DOMAIN told[c] :
    /\ told[c][i] = Event("analyzing") => i = 1
    /\ told[c][i][1] \in Terminal => i = Len(told[c]) /\ at[c] \in {"done", "failed"}
    /\ \A j \in DOMAIN told[c] : i < j => told[c][i] # told[c][j]

(* Only what is planned is worked on.                                       *)
Worked(c) == \A r \in Rules : unit[c][r] # "none" => r \in Planned(c)

(* The rules that were told are planned and over, and all of them when the  *)
(* call has come to its end.                                                *)
Reported(c) ==
  /\ \A r \in ToldRules(c) : r \in Planned(c) /\ unit[c][r] \in Over
  /\ at[c] \in Staged \ {"read"} => \A r \in Planned(c) : unit[c][r] \in Over
  /\ ToldAll(c) => ToldRules(c) = Planned(c)
  /\ \A i \in DOMAIN told[c] :
       told[c][i][1] = "stage_done" \/ (told[c][i][1] = "task_done" /\ Reports(c)) =>
         ToldRules(c) = Planned(c)
  /\ at[c] = "done" /\ Mode(c) = "stage" => ToldRules(c) = Planned(c)

(* The stage tells the rules in order: what is left comes after what was    *)
(* told.                                                                    *)
InTurn(c) ==
  Mode(c) = "stage" =>
    /\ \A r \in ToldRules(c), q \in Unsettled(c) : r < q
    /\ \A i, j \in DOMAIN told[c] : \A r, q \in Rules :
         told[c][i] = RuleDone(r) /\ told[c][j] = RuleDone(q) /\ i < j => r < q

HeardInv(c) == Greeted(c) /\ Shape(c) /\ Worked(c) /\ Reported(c) /\ InTurn(c)
AllHeard == \A c \in Calls : HeardInv(c)

(* Nothing is told, nothing that matters to what was told changes.          *)
LEMMA HeardSame ==
  ASSUME NEW c \in Calls, HeardInv(c),
         request'[c] = request[c], at'[c] = at[c], unit'[c] = unit[c], told'[c] = told[c]
  PROVE  HeardInv(c)'
<1>1. /\ Mode(c)' = Mode(c) /\ Planned(c)' = Planned(c) /\ Reports(c)' = Reports(c)
      /\ ToldRules(c)' = ToldRules(c) /\ Unsettled(c)' = Unsettled(c)
  BY DEF Mode, Planned, Reports, ToldRules, Unsettled
<1>2. ToldAll(c)' = ToldAll(c)  BY <1>1 DEF ToldAll
<1>3. Greeted(c)' /\ Shape(c)'  BY <1>1 DEF HeardInv, Greeted, Shape
<1>4. Reported(c)'  BY <1>1, <1>2 DEF HeardInv, Reported
<1>5. InTurn(c)'  BY <1>1 DEF HeardInv, InTurn
<1>6. Worked(c)'  BY <1>1 DEF HeardInv, Worked
<1> QED  BY <1>3, <1>4, <1>5, <1>6 DEF HeardInv

(* A call moves and tells nothing.                                          *)
LEMMA HeardSilence ==
  ASSUME NEW c \in Calls, HeardInv(c), request'[c] = request[c], told'[c] = told[c],
         \A r \in ToldRules(c) : unit'[c][r] \in Over,
         \A r \in Rules : unit'[c][r] # "none" => unit[c][r] # "none" \/ r \in Planned(c),
         at'[c] \in Unheard => told[c] = <<>>,
         at'[c] \in {"track", "load"} => ToldRules(c) = {},
         at[c] \in {"done", "failed"} => at'[c] \in {"done", "failed"},
         at'[c] \in Staged \ {"read"} => \A r \in Planned(c) : unit'[c][r] \in Over,
         at'[c] = "progress" => ToldRules(c) = Planned(c),
         at'[c] \in {"persist", "logdone", "settle", "tell"} /\ Reports(c) =>
           ToldRules(c) = Planned(c),
         at'[c] = "done" /\ Mode(c) = "stage" => ToldRules(c) = Planned(c)
  PROVE  HeardInv(c)'
<1>1. /\ Mode(c)' = Mode(c) /\ Planned(c)' = Planned(c) /\ Reports(c)' = Reports(c)
      /\ ToldRules(c)' = ToldRules(c) /\ Unsettled(c)' = Unsettled(c)
  BY DEF Mode, Planned, Reports, ToldRules, Unsettled
<1>2. Greeted(c)'  BY <1>1 DEF Greeted
<1>3. Shape(c)'  BY DEF HeardInv, Shape
<1>4. Reported(c)'  BY <1>1 DEF HeardInv, Reported, ToldAll
<1>5. InTurn(c)'  BY <1>1 DEF HeardInv, InTurn
<1>6. Worked(c)'  BY <1>1 DEF HeardInv, Worked
<1> QED  BY <1>2, <1>3, <1>4, <1>5, <1>6 DEF HeardInv

(* A call tells an event: the greeting first, a rule that is left and whose *)
(* turn it is, or the end.                                                  *)
LEMMA HeardEvent ==
  ASSUME TypeOK, NEW c \in Calls, HeardInv(c), NEW e, Say(c, e),
         request'[c] = request[c], unit'[c] = unit[c],
         Planned(c) \subseteq Rules, at[c] \notin {"done", "failed"}, at'[c] \notin Unheard,
         \/ e = Event("analyzing") /\ told[c] = <<>> /\ at'[c] = "track"
         \/ \E r \in Unsettled(c) \cap Rules :
              /\ e = RuleDone(r) /\ unit[c][r] \in Over
              /\ Mode(c) = "stage" => \A q \in Unsettled(c) : r <= q
              /\ at'[c] \in {"rules", "look"}
              /\ at'[c] = "look" => at[c] \in Staged \ {"read"}
         \/ /\ \E name \in Terminal : e = Event(name)
            /\ at'[c] \in {"done", "failed"}
            /\ (\/ e = Event("stage_done")
                \/ e = Event("task_done") /\ Reports(c)
                \/ at'[c] = "done" /\ Mode(c) = "stage")
               => ToldRules(c) = Planned(c)
  PROVE  HeardInv(c)'
<1> DEFINE n == Len(told[c])
<1>1. /\ Mode(c)' = Mode(c) /\ Planned(c)' = Planned(c) /\ Reports(c)' = Reports(c)
  BY DEF Mode, Planned, Reports
<1>2. /\ n \in Nat /\ DOMAIN told[c] = 1..n /\ DOMAIN told'[c] = 1..n + 1
      /\ Len(told'[c]) = n + 1
      /\ \A i \in 1..n : told'[c][i] = told[c][i]
      /\ told'[c][n + 1] = e
  <2>1. told[c] \in Seq(EventNames \X (0..RuleCount)) /\ told'[c] = Append(told[c], e)
    BY DEF TypeOK, Say
  <2> QED  BY <2>1
<1>3. ToldRules(c)' = ToldRules(c) \cup {r \in Rules : e = RuleDone(r)}
  BY OneMore DEF Say
<1>4. /\ \A r : RuleDone(r)[1] = "rule_done" /\ RuleDone(r)[2] = r
      /\ \A name : Event(name)[1] = name
      /\ \A name, r : RuleDone(r) = Event(name) => r = 0
      /\ \A r \in Rules : r # 0
  BY DEF RuleDone, Event, Rules
<1>5. \A r, q : RuleDone(r) = RuleDone(q) => r = q  BY <1>4
<1>6. ToldRules(c) \subseteq Planned(c)  BY DEF HeardInv, Reported
<1>7. \A i \in 1..n : told[c][i][1] \notin Terminal
  BY <1>2 DEF HeardInv, Shape
<1> HIDE DEF n
<1>8. \A i \in 1..n : told[c][i] # e
  <2>1. CASE told[c] = <<>>  BY <1>2, <2>1 DEF n
  <2>2. ASSUME NEW r \in Unsettled(c) \cap Rules, e = RuleDone(r)
        PROVE  \A i \in 1..n : told[c][i] # e
    BY <1>2, <2>2 DEF Unsettled, ToldRules
  <2>3. CASE \E name \in Terminal : e = Event(name)
    BY <1>4, <1>7, <2>3
  <2> QED  BY <2>1, <2>2, <2>3
<1>9. Shape(c)'
  <2>1. ASSUME NEW i \in 1..n + 1
        PROVE  /\ told'[c][i] = Event("analyzing") => i = 1
               /\ told'[c][i][1] \in Terminal => i = n + 1 /\ at'[c] \in {"done", "failed"}
               /\ \A j \in 1..n + 1 : i < j => told'[c][i] # told'[c][j]
    <3>1. CASE i \in 1..n
      <4>1. /\ told[c][i] = Event("analyzing") => i = 1
            /\ \A j \in 1..n : i < j => told[c][i] # told[c][j]
        BY <1>2, <3>1 DEF HeardInv, Shape
      <4>2. \A j \in 1..n + 1 : j \in 1..n \/ j = n + 1  BY <1>2
      <4> QED  BY <1>2, <1>7, <1>8, <3>1, <4>1, <4>2
    <3>2. CASE i = n + 1
      <4>1. e = Event("analyzing") => n = 0
        <5>1. Event("analyzing") # e \/ told[c] = <<>>
          BY <1>4 DEF Terminal
        <5> QED  BY <5>1 DEF n
      <4>2. e[1] \in Terminal => at'[c] \in {"done", "failed"}
        BY <1>4 DEF Terminal
      <4> QED  BY <1>2, <3>2, <4>1, <4>2
    <3> QED  BY <1>2, <3>1, <3>2
  <2> QED  BY <1>2, <2>1 DEF Shape
<1>10. Greeted(c)'
  <2>1. at'[c] \in {"track", "load"} => told[c] = <<>> /\ e = Event("analyzing")
    OBVIOUS
  <2>2. told[c] = <<>> => ToldRules(c) = {}  BY DEF ToldRules
  <2>3. e = Event("analyzing") => {r \in Rules : e = RuleDone(r)} = {}  BY <1>4
  <2> QED  BY <1>3, <2>1, <2>2, <2>3 DEF Greeted
<1>11. \A r \in ToldRules(c)' : r \in Planned(c) /\ unit[c][r] \in Over
  <2>1. ASSUME NEW r \in Rules, e = RuleDone(r)
        PROVE  r \in Planned(c) /\ unit[c][r] \in Over
    <3>1. e # Event("analyzing") /\ \A name : e # Event(name)  BY <1>4, <2>1
    <3>2. PICK q \in Unsettled(c) \cap Rules : e = RuleDone(q) /\ unit[c][q] \in Over
      BY <3>1
    <3> QED  BY <1>5, <2>1, <3>2 DEF Unsettled
  <2>2. \A r \in ToldRules(c) : r \in Planned(c) /\ unit[c][r] \in Over
    BY DEF HeardInv, Reported
  <2> QED  BY <1>3, <2>1, <2>2
<1>12. e[1] \in Terminal => ToldRules(c)' = ToldRules(c)
  BY <1>3, <1>4 DEF Terminal
<1>13. Reported(c)'
  <2>1. at'[c] \in Staged \ {"read"} => \A r \in Planned(c) : unit[c][r] \in Over
    BY DEF HeardInv, Reported, Staged
  <2>2. ~ToldAll(c)'  BY DEF ToldAll
  <2>3. ASSUME NEW i \in 1..n + 1,
               told'[c][i][1] = "stage_done" \/ (told'[c][i][1] = "task_done" /\ Reports(c))
        PROVE  ToldRules(c)' = Planned(c)
    <3>1. i = n + 1 /\ e[1] \in Terminal  BY <1>2, <1>7, <2>3 DEF Terminal
    <3>2. PICK name \in Terminal : e = Event(name)  BY <1>4, <3>1 DEF Terminal
    <3>3. ToldRules(c) = Planned(c)
      BY <1>2, <1>4, <2>3, <3>1, <3>2 DEF Terminal
    <3> QED  BY <1>12, <3>1, <3>3
  <2>4. at'[c] = "done" /\ Mode(c) = "stage" => ToldRules(c)' = Planned(c)
    <3>1. SUFFICES ASSUME at'[c] = "done", Mode(c) = "stage"
          PROVE  ToldRules(c)' = Planned(c)
      OBVIOUS
    <3>2. PICK name \in Terminal : e = Event(name)  BY <3>1
    <3> QED  BY <1>4, <1>12, <3>1, <3>2
  <2> QED  BY <1>1, <1>2, <1>11, <2>1, <2>2, <2>3, <2>4 DEF Reported
<1>14. InTurn(c)'
  <2> SUFFICES ASSUME Mode(c) = "stage"
               PROVE  /\ \A r \in ToldRules(c)', q \in Unsettled(c)' : r < q
                      /\ \A i, j \in 1..n + 1 : \A r, q \in Rules :
                           told'[c][i] = RuleDone(r) /\ told'[c][j] = RuleDone(q) /\ i < j => r < q
    BY <1>1, <1>2 DEF InTurn
  <2>1. Unsettled(c)' \subseteq Unsettled(c)  BY <1>1, <1>3 DEF Unsettled
  <2>2. \A r \in ToldRules(c), q \in Unsettled(c) : r < q  BY DEF HeardInv, InTurn
  <2>3. ASSUME NEW r \in Rules, e = RuleDone(r)
        PROVE  /\ r \in Unsettled(c) /\ \A q \in Unsettled(c) : r <= q
    <3>1. \A name : e # Event(name)  BY <1>4, <2>3
    <3>2. PICK q \in Unsettled(c) \cap Rules :
            e = RuleDone(q) /\ (Mode(c) = "stage" => \A o \in Unsettled(c) : q <= o)
      BY <3>1
    <3> QED  BY <1>5, <2>3, <3>2
  <2>4. ASSUME NEW r \in ToldRules(c)', NEW q \in Unsettled(c)'
        PROVE  r < q
    <3>1. CASE r \in ToldRules(c)  BY <2>1, <2>2, <2>4, <3>1
    <3>2. CASE r \in Rules /\ e = RuleDone(r)
      <4>1. r \in ToldRules(c)' /\ q \notin ToldRules(c)'
        BY <2>4 DEF Unsettled
      <4>2. r <= q /\ r # q  BY <2>1, <2>3, <2>4, <3>2, <4>1
      <4>3. r \in Nat /\ q \in Nat  BY <2>1, <2>4, <3>2, RulesOK DEF Unsettled, Rules
      <4> QED  BY <4>2, <4>3
    <3> QED  BY <1>3, <2>4, <3>1, <3>2
  <2>5. ASSUME NEW i \in 1..n + 1, NEW j \in 1..n + 1, NEW r \in Rules, NEW q \in Rules,
               told'[c][i] = RuleDone(r), told'[c][j] = RuleDone(q), i < j
        PROVE  r < q
    <3>1. i \in 1..n /\ told[c][i] = RuleDone(r)  BY <1>2, <2>5
    <3>2. CASE j \in 1..n
      BY <1>2, <2>5, <3>1, <3>2 DEF HeardInv, InTurn
    <3>3. CASE j = n + 1
      <4>1. r \in ToldRules(c)  BY <1>2, <3>1 DEF ToldRules
      <4>2. q \in Unsettled(c)  BY <1>2, <2>3, <2>5, <3>3
      <4> QED  BY <2>2, <4>1, <4>2
    <3> QED  BY <1>2, <3>2, <3>3
  <2> QED  BY <2>4, <2>5
<1>15. Worked(c)'  BY <1>1 DEF HeardInv, Worked
<1> QED  BY <1>9, <1>10, <1>13, <1>14, <1>15 DEF HeardInv

(* A request: nothing was told, and nothing is told.                        *)
LEMMA HeardRequest ==
  ASSUME CallsInv, NEW c \in Calls, HeardInv(c),
         NEW q \in Requests[c], Submit(c, q) \/ StartStage(c, q)
  PROVE  HeardInv(c)'
<1>1. at[c] = "idle" /\ told'[c] = told[c]
  BY DEF Submit, StartStage, At, CallsInv, TypeOK
<1>2. told'[c] = <<>>  BY <1>1 DEF HeardInv, Greeted, Unheard
<1>3. ToldRules(c)' = {} /\ DOMAIN told'[c] = {}  BY <1>2 DEF ToldRules
<1>4. at'[c] \in {"track", "create", "open", "read"}
  BY PlanIsRules DEF CallsInv, TypeOK, Submit, StartStage, Goto
<1>5. Greeted(c)'  BY <1>2, <1>3 DEF Greeted
<1>6. Shape(c)'  BY <1>3 DEF Shape
<1>7. Reported(c)'  BY <1>3, <1>4 DEF Reported, ToldAll, Staged
<1>8. InTurn(c)'  BY <1>3 DEF InTurn
<1>9. Worked(c)'
  <2>1. \A r \in Rules : unit[c][r] = "none"
    BY <1>1 DEF CallsInv, CallInv, Fresh, Early
  <2>2. unit' = unit  BY DEF Submit, StartStage
  <2> QED  BY <2>1, <2>2 DEF Worked
<1> QED  BY <1>5, <1>6, <1>7, <1>8, <1>9 DEF HeardInv

(* A call that has not come to its rules.                                   *)
LEMMA HeardStart ==
  ASSUME CallsInv, NEW c \in Calls, HeardInv(c),
         \/ CreateTask(c) \/ BeginTask(c) \/ Greet(c) \/ Track(c) \/ Abandon(c)
         \/ Load(c) \/ StageLoad(c)
  PROVE  HeardInv(c)'
<1>1. TypeOK /\ Placed(c)  BY DEF CallsInv, CallInv
<1>2. at[c] \in Unheard => told[c] = <<>> /\ ToldRules(c) = {}
  BY DEF HeardInv, Greeted, ToldRules
<1>3. CASE Greet(c)
  <2>1. at[c] \in {"greet", "open"} /\ at'[c] = "track"
    BY <1>1, <1>3 DEF Greet, At, Goto, TypeOK
  <2>2. Planned(c) \subseteq Rules  BY <1>1, <2>1, PlannedRules
  <2> QED  BY <1>1, <1>2, <1>3, <2>1, <2>2, HeardEvent DEF Greet, Unheard
<1>4. CASE ~Greet(c)
  <2>1. /\ at[c] \in {"create", "accepted", "open", "track", "load", "read"}
        /\ at'[c] \in {"accepted", "refused", "greet", "failing", "load", "abandoned",
                      "rules", "logfail", "failed"}
        /\ at'[c] \in {"accepted", "refused", "greet", "abandoned"} =>
             at[c] \in {"create", "accepted", "open"}
        /\ request'[c] = request[c] /\ told'[c] = told[c]
        /\ \A r \in Rules :
             unit'[c][r] # "none" => unit[c][r] # "none" \/ r \in Planned(c)
    BY <1>1, <1>4
    DEF CreateTask, BeginTask, Track, Abandon, Load, StageLoad, At, Goto, TypeOK,
        StartUnits, Planned
  <2>2. ToldRules(c) = {}  BY <1>2, <2>1 DEF HeardInv, Greeted, Unheard
  <2>3. at'[c] \in Unheard => told[c] = <<>>  BY <1>2, <2>1 DEF Unheard
  <2> QED  BY <2>1, <2>2, <2>3, HeardSilence DEF Staged
<1> QED  BY <1>3, <1>4

(* A rule moves, or its result is reported.                                 *)
LEMMA HeardUnit ==
  ASSUME CallsInv, NEW c \in Calls, HeardInv(c), NEW r \in Rules, RuleStep(c, r)
  PROVE  HeardInv(c)'
<1>1. TypeOK /\ Placed(c)  BY DEF CallsInv, CallInv
<1>2. CASE Report(c, r)
  <2>1. at[c] = "rules" /\ at'[c] = "rules"  BY <1>2 DEF Report, At
  <2>2. Planned(c) \subseteq Rules  BY <1>1, <2>1, PlannedRules
  <2>4. r \in Planned(c)
    <3>1. unit[c][r] \in Over  BY <1>2 DEF Report
    <3> QED  BY <3>1 DEF HeardInv, Worked, Over
  <2>5. Mode(c) # "stage"  BY <1>2 DEF Report, Reports
  <2> QED
    BY <1>1, <1>2, <2>1, <2>2, <2>4, <2>5, HeardEvent DEF Report, Unheard, Unsettled
<1>3. CASE ~Report(c, r)
  <2>1. /\ request' = request /\ at' = at /\ told' = told
        /\ \A o \in Rules : unit[c][o] \in Over => unit'[c][o] \in Over
        /\ \A o \in Rules : unit'[c][o] # "none" => unit[c][o] # "none"
    <3>1. \A o \in Rules : unit[c][o] \in UnitStates  BY <1>1 DEF TypeOK
    <3>2. PICK from \in Active, to \in UnitStates :
            unit[c][r] = from /\ to # "none" /\ unit' = [unit EXCEPT ![c][r] = to]
      BY <1>3
      DEF RuleStep, TakeOwn, TakeGlobal, Evaluate, TakeLlm, Reply, Refuse, Retry, StopUnit,
          Move, UnitStates, Active, Held, Over
    <3>3. request' = request /\ at' = at /\ told' = told
      BY <1>3
      DEF RuleStep, TakeOwn, TakeGlobal, Evaluate, TakeLlm, Reply, Refuse, Retry, StopUnit, Work
    <3> QED  BY <1>1, <3>2, <3>3 DEF TypeOK, Active, Held, Over
  <2>2. \A o \in ToldRules(c) : o \in Rules /\ unit[c][o] \in Over
    BY DEF HeardInv, Reported, ToldRules
  <2>3. at[c] \in Staged \ {"read"} => \A o \in Planned(c) : unit[c][o] \in Over
    BY DEF HeardInv, Reported
  <2>4. \A o \in Planned(c) : at[c] \in Staged \ {"read"} => unit'[c][o] \in Over
    <3>1. at[c] \in Staged => Planned(c) \subseteq Rules
      BY <1>1, PlannedRules DEF Staged
    <3> QED  BY <2>1, <2>3, <3>1
  <2> QED
    BY <2>1, <2>2, <2>4, HeardSilence DEF HeardInv, Greeted, Reported, ToldAll
<1> QED  BY <1>2, <1>3

(* The end of an independent call, and a call that is unwound.              *)
LEMMA HeardResults ==
  ASSUME CallsInv, NEW c \in Calls, HeardInv(c),
         \/ Computed(c) \/ Persist(c) \/ LogDone(c) \/ Settle(c)
         \/ LogFail(c) \/ FailTask(c) \/ Unwound(c) \/ LogCancel(c)
  PROVE  HeardInv(c)'
<1>1. TypeOK /\ Placed(c)  BY DEF CallsInv, CallInv
<1>2. /\ request'[c] = request[c] /\ told'[c] = told[c] /\ unit'[c] = unit[c]
  BY DEF Computed, Persist, LogDone, Settle, LogFail, FailTask, Unwound, LogCancel
<1>3. /\ \A r \in ToldRules(c) : unit[c][r] \in Over /\ r \in Planned(c)
      /\ ToldAll(c) => ToldRules(c) = Planned(c)
  BY DEF HeardInv, Reported
<1>4. CASE Computed(c)
  <2>1. /\ at'[c] = AfterRules(c) /\ at[c] = "rules"
        /\ Reports(c) => Planned(c) \subseteq ToldRules(c)
        /\ \A r \in Planned(c) : unit[c][r] \in Over
    BY <1>1, <1>4 DEF Computed, Goto, At, TypeOK
  <2>2. at'[c] \in {"look", "persist", "logdone"}  BY <2>1 DEF AfterRules
  <2>3. Reports(c) => ToldRules(c) = Planned(c)  BY <1>3, <2>1
  <2> QED  BY <1>2, <1>3, <2>1, <2>2, <2>3, HeardSilence DEF Unheard
<1>5. CASE Persist(c) \/ LogDone(c) \/ Settle(c)
  <2>1. /\ at[c] \in {"persist", "logdone", "settle"}
        /\ Mode(c) \in {"sync", "async", "stream"}
    <3>1. at[c] \in {"persist", "logdone", "settle"}
      BY <1>5 DEF Persist, LogDone, Settle, At
    <3> QED  BY <1>1, <3>1, ByMode DEF AnyPlaces, Staged
  <2>2. at'[c] \in {"logdone", "logfail", "settle", "tell", "done", "failing"}
    BY <1>1, <1>5, <2>1 DEF Persist, LogDone, Settle, Goto, TypeOK
  <2>3. Reports(c) => ToldRules(c) = Planned(c)  BY <1>3, <2>1 DEF ToldAll
  <2> QED  BY <1>2, <1>3, <2>1, <2>2, <2>3, HeardSilence DEF Unheard, Staged
<1>6. CASE LogFail(c) \/ FailTask(c) \/ Unwound(c) \/ LogCancel(c)
  <2>1. at[c] \in {"logfail", "failing", "stopping", "logcancel"}
    BY <1>6 DEF LogFail, FailTask, Unwound, LogCancel, At
  <2>2. at[c] = "logfail" => Mode(c) \in {"sync", "async", "stream"}
    BY <1>1, <2>1, ByMode DEF AnyPlaces, Staged
  <2>3. at'[c] \in {"failing", "tellfail", "failed", "cancelled", "logcancel"}
    BY <1>1, <1>6, <2>1, <2>2 DEF LogFail, FailTask, Unwound, LogCancel, At, Goto, TypeOK
  <2> QED  BY <1>2, <1>3, <2>1, <2>3, HeardSilence DEF Unheard, Staged
<1> QED  BY <1>4, <1>5, <1>6

(* The last event of an independent call.                                   *)
LEMMA HeardEnd ==
  ASSUME CallsInv, NEW c \in Calls, HeardInv(c), Tell(c) \/ TellFail(c)
  PROVE  HeardInv(c)'
<1>1. TypeOK /\ Placed(c)  BY DEF CallsInv, CallInv
<1>2. /\ at[c] \in {"tell", "tellfail"} /\ at'[c] \in {"done", "failed"}
      /\ at'[c] = "done" => at[c] = "tell"
      /\ request'[c] = request[c] /\ unit'[c] = unit[c]
  BY <1>1 DEF Tell, TellFail, At, Goto, TypeOK
<1>3. Planned(c) \subseteq Rules  BY <1>1, <1>2, PlannedRules
<1>4. Mode(c) # "stage"
  BY <1>1, <1>2, ByMode DEF AnyPlaces, Staged
<1>5. at[c] = "tell" /\ Reports(c) => ToldRules(c) = Planned(c)
  BY DEF HeardInv, Reported, ToldAll
<1>6. CASE Tell(c)
  <2>1. Say(c, Event("task_done")) /\ at[c] = "tell"  BY <1>6 DEF Tell, At
  <2>2. Event("task_done") # Event("stage_done")  BY DEF Event
  <2> QED
    BY <1>1, <1>2, <1>3, <1>4, <1>5, <2>1, <2>2, HeardEvent DEF Unheard, Terminal
<1>7. CASE TellFail(c)
  <2>1. Say(c, Event("task_failed"))  BY <1>7 DEF TellFail
  <2>2. Event("task_failed") \notin {Event("stage_done"), Event("task_done")}
    BY DEF Event
  <2> QED
    BY <1>1, <1>2, <1>3, <1>4, <2>1, <2>2, HeardEvent DEF Unheard, Terminal
<1> QED  BY <1>6, <1>7

(* The results of a stage.                                                  *)
LEMMA HeardStage ==
  ASSUME CallsInv, NEW c \in Calls, HeardInv(c),
         Look(c) \/ Save(c) \/ SaveFails(c) \/ TellRule(c) \/ FinishStage(c)
  PROVE  HeardInv(c)'
<1>1. TypeOK /\ Placed(c) /\ Storing(c)  BY DEF CallsInv, CallInv
<1>2. /\ at[c] \in {"look", "lookagain", "save", "saveagain", "tellrule", "progress"}
      /\ at'[c] \in {"look", "lookagain", "save", "saveagain", "tellrule", "progress",
                    "done", "failed"}
      /\ request'[c] = request[c]
  BY <1>1 DEF Look, Save, SaveFails, TellRule, FinishStage, At, Goto, TypeOK
<1>3. Planned(c) \subseteq Rules  BY <1>1, <1>2, PlannedRules
<1>4. /\ Mode(c) = "stage" /\ ~Reports(c)
  BY <1>1, <1>2, ByMode DEF CallPlaces, AnyPlaces, Reports
<1>5. /\ \A r \in ToldRules(c) : unit[c][r] \in Over /\ r \in Planned(c)
      /\ \A r \in Planned(c) : unit[c][r] \in Over
      /\ at[c] = "progress" => ToldRules(c) = Planned(c)
  BY <1>2 DEF HeardInv, Reported, ToldAll, Staged
<1>6. CASE Look(c) \/ Save(c)
  <2>1. /\ told'[c] = told[c] /\ unit'[c] = unit[c]
        /\ at'[c] \in {"progress", "save", "saveagain", "tellrule"}
        /\ at'[c] = "progress" => Unsettled(c) = {}
    BY <1>1, <1>2, <1>6 DEF Look, Save, Goto, TypeOK
  <2>2. at'[c] = "progress" => ToldRules(c) = Planned(c)
    BY <1>5, <2>1 DEF Unsettled
  <2> QED  BY <1>2, <1>4, <1>5, <2>1, <2>2, HeardSilence DEF Unheard
<1>7. CASE SaveFails(c)
  <2>1. /\ told'[c] = told[c] /\ at'[c] \in {"lookagain", "tellrule"}
        /\ at[c] \in {"save", "saveagain"}
    BY <1>1, <1>7 DEF SaveFails, At, Goto, TypeOK
  <2>2. Turn(c) \in Unsettled(c) /\ Turn(c) \in Rules
    BY <1>1, <1>3, <2>1, TurnIsUnsettled DEF Storing
  <2>3. \/ unit'[c] = unit[c]
        \/ \A r \in Rules : unit'[c][r] = IF r = Turn(c) THEN "failed" ELSE unit[c][r]
    <3>1. \/ unit' = unit
          \/ unit' = [unit EXCEPT ![c][Turn(c)] = "failed"]
      BY <1>7 DEF SaveFails
    <3> QED  BY <1>1, <2>2, <3>1 DEF TypeOK
  <2>4. /\ \A r \in Rules : unit[c][r] \in Over => unit'[c][r] \in Over
        /\ \A r \in Rules : unit'[c][r] # "none" => unit[c][r] # "none" \/ r \in Planned(c)
    BY <2>2, <2>3 DEF Over, Unsettled
  <2> QED  BY <1>2, <1>3, <1>4, <1>5, <2>1, <2>4, HeardSilence DEF Unheard
<1>8. CASE TellRule(c)
  <2>1. /\ Say(c, RuleDone(Turn(c))) /\ unit'[c] = unit[c]
        /\ at'[c] = "look" /\ at[c] = "tellrule"
    BY <1>1, <1>8 DEF TellRule, At, Goto, TypeOK
  <2>2. /\ Turn(c) \in Unsettled(c) \cap Rules
        /\ \A o \in Unsettled(c) : Turn(c) <= o
    BY <1>1, <1>3, <2>1, TurnIsUnsettled DEF Storing
  <2>3. unit[c][Turn(c)] \in Over  BY <1>5, <2>2 DEF Unsettled
  <2> QED
    BY <1>1, <1>2, <1>3, <1>4, <2>1, <2>2, <2>3, HeardEvent DEF Unheard, Staged
<1>9. CASE FinishStage(c)
  <2>1. at[c] = "progress" /\ unit'[c] = unit[c]  BY <1>9 DEF FinishStage, At
  <2>2. CASE Say(c, Event("stage_done")) /\ Goto(c, "done")
    <3>1. at'[c] = "done"  BY <1>1, <2>2 DEF Goto, TypeOK
    <3> QED
      BY <1>1, <1>2, <1>3, <1>5, <2>1, <2>2, <3>1, HeardEvent DEF Unheard, Terminal
  <2>3. CASE told' = told /\ Goto(c, "failed")
    <3>1. at'[c] = "failed"  BY <1>1, <2>3 DEF Goto, TypeOK
    <3> QED  BY <1>2, <1>5, <2>1, <2>3, <3>1, HeardSilence DEF Unheard, Staged
  <2> QED  BY <1>9, <2>2, <2>3 DEF FinishStage
<1> QED  BY <1>6, <1>7, <1>8, <1>9

(* A cancelled call tells nothing more.                                     *)
LEMMA HeardCancel ==
  ASSUME CallsInv, NEW c \in Calls, HeardInv(c), Cancel(c)
  PROVE  HeardInv(c)'
<1>1. /\ at[c] \notin Ended /\ at'[c] = Interrupted(c)
      /\ request'[c] = request[c] /\ told'[c] = told[c] /\ unit'[c] = unit[c]
  BY DEF Cancel, Running, Interrupt, Goto, CallsInv, TypeOK
<1>2. at'[c] \in {"logcancel", "stopping", "cancelled"}  BY <1>1 DEF Interrupted
<1>3. \A r \in ToldRules(c) : unit[c][r] \in Over  BY DEF HeardInv, Reported
<1> QED  BY <1>1, <1>2, <1>3, HeardSilence DEF Unheard, Ended, Staged

(* What befalls all calls tells them nothing.                               *)
LEMMA HeardService ==
  ASSUME CallsInv, NEW c \in Calls, HeardInv(c), Wipe \/ Crash \/ RecoverTasks \/ RecoverLogs
  PROVE  HeardInv(c)'
<1>1. CASE Wipe \/ RecoverTasks \/ RecoverLogs
  BY <1>1, HeardSame DEF Wipe, RecoverTasks, RecoverLogs, callVars
<1>2. CASE Crash
  <2>1. /\ at'[c] = IF at[c] \in Ended \cup {"idle"} THEN at[c] ELSE "gone"
        /\ request'[c] = request[c] /\ told'[c] = told[c]
        /\ \A r \in Rules :
             unit'[c][r] = IF unit[c][r] \in Active THEN "stopped" ELSE unit[c][r]
    BY <1>2 DEF Crash
  <2>2. /\ \A r \in Rules : unit[c][r] \in Over => unit'[c][r] \in Over
        /\ \A r \in Rules : unit'[c][r] # "none" => unit[c][r] # "none"
    BY <2>1 DEF Active, Held, Over
  <2>3. /\ at[c] \in Unheard => told[c] = <<>>
        /\ at[c] = "done" /\ Mode(c) = "stage" => ToldRules(c) = Planned(c)
        /\ \A r \in ToldRules(c) : r \in Rules /\ unit[c][r] \in Over
    BY DEF HeardInv, Greeted, Reported, ToldRules
  <2> QED  BY <2>1, <2>2, <2>3, HeardSilence DEF Ended, Staged, Unheard
<1> QED  BY <1>1, <1>2

(* Every step. *)
LEMMA HeardStep ==
  ASSUME CallsInv, AllHeard, [Next]_vars
  PROVE  AllHeard'
<1>1. ASSUME NEW c \in Calls, OnlyOf(c), HeardInv(c)'
      PROVE  AllHeard'
  BY <1>1, HeardSame DEF AllHeard, OnlyOf
<1>2. CASE UNCHANGED vars  BY <1>2, HeardSame DEF vars, callVars, AllHeard
<1>3. ASSUME NEW c \in Calls, NEW q \in Requests[c], Submit(c, q) \/ StartStage(c, q)
      PROVE  AllHeard'
  BY <1>1, <1>3, SubmitKeeps, HeardRequest DEF AllHeard
<1>4. ASSUME NEW c \in Calls, CallStep(c) \/ Cancel(c) \/ Abandon(c)
      PROVE  AllHeard'
  <2>1. OnlyOf(c)
    BY <1>4, StartKeeps, LoadKeeps, RulesKeep, PersistKeeps, LogDoneKeeps, SettleKeeps,
       LogEndKeeps, FailKeeps, StageKeeps, CancelKeeps
    DEF CallStep
  <2>2. HeardInv(c)'
    BY <1>4, HeardStart, HeardResults, HeardEnd, HeardStage, HeardCancel
    DEF CallStep, AllHeard
  <2> QED  BY <1>1, <2>1, <2>2
<1>5. ASSUME NEW c \in Calls, NEW r \in Rules, RuleStep(c, r)
      PROVE  AllHeard'
  <2>1. OnlyOf(c)  BY <1>5, UnitKeeps, RulesKeep DEF RuleStep
  <2>2. HeardInv(c)'  BY <1>5, HeardUnit DEF AllHeard
  <2> QED  BY <1>1, <2>1, <2>2
<1>6. CASE Wipe \/ Crash \/ RecoverTasks \/ RecoverLogs
  BY <1>6, HeardService DEF AllHeard
<1> QED  BY <1>2, <1>3, <1>4, <1>5, <1>6 DEF Next, Progress

(* AllHeard is an invariant. *)
LEMMA AllHeardHolds == Spec => []AllHeard
<1>1. Init => AllHeard
  BY DEF Init, AllHeard, HeardInv, Greeted, Shape, Worked, Reported, InTurn, ToldRules,
     ToldAll, Staged
<1> QED  BY <1>1, CallsInvHolds, HeardStep, PTL DEF Spec

(* A receiver of events may rely on their order, whether they come from a   *)
(* request, a background task, a stream or the stage, and whatever is       *)
(* cancelled, lost or restarted in between.                                 *)
THEOREM EventsComeInOrder == Spec => []EventsInOrder
<1>1. AllHeard => EventsInOrder
  <2> SUFFICES ASSUME AllHeard, NEW c \in Calls,
                      NEW i \in DOMAIN told[c], NEW j \in DOMAIN told[c]
               PROVE
        /\ told[c][i] = Event("analyzing") => i = 1
        /\ told[c][i][1] \in Terminal => i = Len(told[c])
        /\ i < j => told[c][i] # told[c][j]
        /\ \A r \in Rules : told[c][i] = RuleDone(r) => unit[c][r] \in Over
        /\ told[c][i][1] = "stage_done" \/ (told[c][i][1] = "task_done" /\ Reports(c)) =>
             ToldRules(c) = Planned(c)
        /\ \A r, q \in Rules :
             Mode(c) = "stage" /\ told[c][i] = RuleDone(r) /\ told[c][j] = RuleDone(q) /\ i < j
               => r < q
    BY DEF EventsInOrder
  <2>1. HeardInv(c)  BY DEF AllHeard
  <2>2. \A r \in Rules : told[c][i] = RuleDone(r) => r \in ToldRules(c)  BY DEF ToldRules
  <2> QED  BY <2>1, <2>2 DEF HeardInv, Shape, Reported, InTurn
<1> QED  BY <1>1, AllHeardHolds, PTL

-----------------------------------------------------------------------------
(* The stage implements its contract *)

RuleContractStep == [Contract!ContractNext]_(Contract!contractVars)

(* What the contract sees of one call.                                      *)
ResultsOf(c) == IF Mode(c) = "stage" THEN ToldRules(c) ELSE {}
OutcomeOf(c) ==
  IF Mode(c) # "stage" THEN "idle"
  ELSE IF at[c] = "done" THEN "done" ELSE IF at[c] \in Ended THEN "failed" ELSE "open"

(* No call changes before the contract's eyes.                              *)
LEMMA SeesNothing ==
  ASSUME \A c \in Calls : ResultsOf(c)' = ResultsOf(c) /\ OutcomeOf(c)' = OutcomeOf(c)
  PROVE  RuleContractStep
<1>1. StageResults' = StageResults  BY DEF StageResults, ResultsOf
<1>2. StageOutcome' = StageOutcome  BY DEF StageOutcome, OutcomeOf
<1> QED  BY <1>1, <1>2 DEF RuleContractStep, Contract!contractVars

(* Some calls that are open end together.                                   *)
LEMMA SeesAborts ==
  ASSUME NEW some \in SUBSET Calls,
         \A c \in Calls : ResultsOf(c)' = ResultsOf(c),
         \A c \in some : OutcomeOf(c) = "open" /\ OutcomeOf(c)' = "failed",
         \A c \in Calls \ some : OutcomeOf(c)' = OutcomeOf(c)
  PROVE  RuleContractStep
<1>1. StageResults' = StageResults  BY DEF StageResults, ResultsOf
<1>2. \A c \in some : StageOutcome[c] = "open"  BY DEF StageOutcome, OutcomeOf
<1>3. StageOutcome' = [c \in Calls |-> IF c \in some THEN "failed" ELSE StageOutcome[c]]
  BY DEF StageOutcome, OutcomeOf
<1>4. Contract!Abort(some)  BY <1>1, <1>2, <1>3 DEF Contract!Abort
<1> QED  BY <1>4 DEF RuleContractStep, Contract!ContractNext

(* The other calls, while one moves.                                        *)
LEMMA SeesOne ==
  ASSUME NEW c \in Calls, OnlyOf(c)
  PROVE  \A d \in Calls \ {c} : ResultsOf(d)' = ResultsOf(d) /\ OutcomeOf(d)' = OutcomeOf(d)
BY DEF OnlyOf, ResultsOf, OutcomeOf, Mode, ToldRules

(* A stage opens, or a call of another kind begins.                         *)
LEMMA SeesRequest ==
  ASSUME CallsInv, NEW c \in Calls, HeardInv(c),
         NEW q \in Requests[c], Submit(c, q) \/ StartStage(c, q)
  PROVE  RuleContractStep
<1>1. TypeOK /\ Placed(c) /\ at[c] = "idle"
  BY DEF CallsInv, CallInv, Submit, StartStage, At
<1>2. Mode(c) = "none"  BY <1>1, ByMode DEF Mode, NoRequest
<1>3. ToldRules(c) = {} /\ told' = told
  BY <1>1 DEF HeardInv, Greeted, Unheard, ToldRules, Submit, StartStage
<1>4. ResultsOf(c) = {} /\ OutcomeOf(c) = "idle" /\ ResultsOf(c)' = {}
  BY <1>2, <1>3 DEF ResultsOf, OutcomeOf, ToldRules
<1>5. \A d \in Calls \ {c} : ResultsOf(d)' = ResultsOf(d) /\ OutcomeOf(d)' = OutcomeOf(d)
  BY SubmitKeeps, SeesOne
<1>6. Mode(c)' = q.mode  BY <1>1 DEF Mode, TypeOK, Submit, StartStage
<1>7. CASE Submit(c, q)
  <2>1. OutcomeOf(c)' = "idle"  BY <1>6, <1>7 DEF OutcomeOf, Submit
  <2> QED  BY <1>4, <1>5, <2>1, SeesNothing
<1>8. CASE StartStage(c, q)
  <2>1. at'[c] = "read" /\ q.mode = "stage"  BY <1>1, <1>8 DEF StartStage, Goto, TypeOK
  <2>2. OutcomeOf(c)' = "open"  BY <1>6, <2>1 DEF OutcomeOf, Ended
  <2>3. StageResults' = StageResults  BY <1>4, <1>5 DEF StageResults, ResultsOf
  <2>4. StageOutcome' = [StageOutcome EXCEPT ![c] = "open"] /\ StageOutcome[c] = "idle"
    BY <1>4, <1>5, <2>2 DEF StageOutcome, OutcomeOf
  <2>5. Contract!Open(c)  BY <2>3, <2>4 DEF Contract!Open
  <2> QED  BY <2>5 DEF RuleContractStep, Contract!ContractNext
<1> QED  BY <1>7, <1>8

(* A call that tells nothing and is not done by this step.                  *)
LEMMA SeesMove ==
  ASSUME NEW c \in Calls, OnlyOf(c), request'[c] = request[c],
         Mode(c) = "stage" =>
           /\ told'[c] = told[c]
           /\ at'[c] = at[c] \/ (at[c] \notin Ended /\ at'[c] # "done")
  PROVE  RuleContractStep
<1>1. Mode(c)' = Mode(c)  BY DEF Mode
<1>2. ResultsOf(c)' = ResultsOf(c)  BY <1>1 DEF ResultsOf, ToldRules
<1>3. \A d \in Calls \ {c} : ResultsOf(d)' = ResultsOf(d) /\ OutcomeOf(d)' = OutcomeOf(d)
  BY SeesOne
<1>4. \/ OutcomeOf(c)' = OutcomeOf(c)
      \/ OutcomeOf(c) = "open" /\ OutcomeOf(c)' = "failed"
  BY <1>1 DEF OutcomeOf, Ended
<1>5. CASE OutcomeOf(c)' = OutcomeOf(c)  BY <1>2, <1>3, <1>5, SeesNothing
<1>6. CASE OutcomeOf(c) = "open" /\ OutcomeOf(c)' = "failed"
  <2>1. /\ {c} \in SUBSET Calls
        /\ \A d \in Calls : ResultsOf(d)' = ResultsOf(d)
        /\ \A d \in {c} : OutcomeOf(d) = "open" /\ OutcomeOf(d)' = "failed"
        /\ \A d \in Calls \ {c} : OutcomeOf(d)' = OutcomeOf(d)
    BY <1>2, <1>3, <1>6
  <2> HIDE DEF OutcomeOf, ResultsOf
  <2> QED  BY <2>1, SeesAborts
<1> QED  BY <1>4, <1>5, <1>6

(* One result, or the end of a stage.                                       *)
LEMMA SeesStage ==
  ASSUME CallsInv, NEW c \in Calls, HeardInv(c), TellRule(c) \/ FinishStage(c)
  PROVE  RuleContractStep
<1>1. TypeOK /\ Placed(c) /\ Storing(c)  BY DEF CallsInv, CallInv
<1>2. at[c] \in {"tellrule", "progress"} /\ request' = request
  BY DEF TellRule, FinishStage, At
<1>3. Mode(c) = "stage" /\ Planned(c) = Enabled /\ Planned(c) \subseteq Rules
  <2>1. Mode(c) = "stage"  BY <1>1, <1>2, ByMode DEF CallPlaces, AnyPlaces
  <2> QED  BY <1>1, <1>2, <2>1, PlannedRules DEF Planned, Plan, Mode
<1>4. Mode(c)' = "stage"  BY <1>2, <1>3 DEF Mode
<1>5. OnlyOf(c)  BY StageKeeps
<1>6. \A d \in Calls \ {c} : ResultsOf(d)' = ResultsOf(d) /\ OutcomeOf(d)' = OutcomeOf(d)
  BY <1>5, SeesOne
<1>7. OutcomeOf(c) = "open"  BY <1>2, <1>3 DEF OutcomeOf, Ended
<1>8. CASE TellRule(c)
  <2>1. Turn(c) \in Unsettled(c) /\ Turn(c) \in Rules
    BY <1>1, <1>3, <1>8, TurnIsUnsettled DEF Storing, TellRule, At
  <2>2. \A r \in Rules : RuleDone(Turn(c)) = RuleDone(r) <=> r = Turn(c)
    BY DEF RuleDone
  <2>3. ToldRules(c)' = ToldRules(c) \cup {Turn(c)}
    <3>1. ToldRules(c)' = ToldRules(c) \cup {r \in Rules : RuleDone(Turn(c)) = RuleDone(r)}
      BY <1>1, <1>8, OneMore DEF TellRule, Say
    <3> QED  BY <2>1, <2>2, <3>1
  <2>4. OutcomeOf(c)' = "open"
    BY <1>1, <1>4, <1>8 DEF OutcomeOf, TellRule, Goto, TypeOK, Ended
  <2>5. StageOutcome' = StageOutcome /\ StageOutcome[c] = "open"
    BY <1>6, <1>7, <2>4 DEF StageOutcome, OutcomeOf
  <2>6. /\ StageResults' = [StageResults EXCEPT ![c] = @ \cup {Turn(c)}]
        /\ StageResults[c] = ToldRules(c)
    BY <1>3, <1>4, <1>6, <2>3 DEF StageResults, ResultsOf
  <2>7. Turn(c) \in Enabled /\ Turn(c) \notin StageResults[c]
    BY <1>3, <2>1, <2>6 DEF Unsettled
  <2>8. Contract!Record(c, Turn(c))  BY <2>5, <2>6, <2>7 DEF Contract!Record
  <2> QED  BY <2>7, <2>8 DEF RuleContractStep, Contract!ContractNext
<1>9. CASE FinishStage(c) /\ told' = told
  <2>1. at'[c] = "failed" \/ told'[c] = Append(told[c], Event("stage_done"))
    BY <1>1, <1>9 DEF FinishStage, Goto, Say, TypeOK
  <2>2. told'[c] # Append(told[c], Event("stage_done"))
    <3>1. told[c] \in Seq(EventNames \X (0..RuleCount))  BY <1>1 DEF TypeOK
    <3>2. Len(Append(told[c], Event("stage_done"))) = Len(told[c]) + 1 /\ Len(told[c]) \in Nat
      BY <3>1
    <3> QED  BY <1>9, <3>2
  <2> QED  BY <1>2, <1>5, <1>9, <2>1, <2>2, SeesMove DEF Ended
<1>10. CASE FinishStage(c) /\ Say(c, Event("stage_done")) /\ Goto(c, "done")
  <2>1. ToldRules(c)' = ToldRules(c)
    <3>1. ToldRules(c)' = ToldRules(c) \cup {r \in Rules : Event("stage_done") = RuleDone(r)}
      BY <1>1, <1>10, OneMore DEF Say
    <3>2. \A r : Event("stage_done") # RuleDone(r)  BY DEF Event, RuleDone
    <3> QED  BY <3>1, <3>2
  <2>2. ToldRules(c) = Enabled
    BY <1>3, <1>10 DEF HeardInv, Reported, ToldAll, FinishStage, At
  <2>3. OutcomeOf(c)' = "done"  BY <1>1, <1>4, <1>10 DEF OutcomeOf, Goto, TypeOK
  <2>4. /\ StageOutcome' = [StageOutcome EXCEPT ![c] = "done"]
        /\ StageOutcome[c] = "open"
    BY <1>6, <1>7, <2>3 DEF StageOutcome, OutcomeOf
  <2>5. StageResults' = StageResults /\ StageResults[c] = Enabled
    BY <1>3, <1>4, <1>6, <2>1, <2>2 DEF StageResults, ResultsOf
  <2>6. Contract!Finish(c)  BY <2>4, <2>5 DEF Contract!Finish
  <2> QED  BY <2>6 DEF RuleContractStep, Contract!ContractNext
<1> QED  BY <1>8, <1>9, <1>10 DEF FinishStage

(* The calls that a restart cuts off end together.                          *)
LEMMA SeesCrash ==
  ASSUME CallsInv, Crash
  PROVE  RuleContractStep
<1> DEFINE some == {c \in Calls : OutcomeOf(c) = "open"}
<1>1. ASSUME NEW c \in Calls
      PROVE  /\ ResultsOf(c)' = ResultsOf(c)
             /\ OutcomeOf(c) = "open" => OutcomeOf(c)' = "failed"
             /\ OutcomeOf(c) # "open" => OutcomeOf(c)' = OutcomeOf(c)
  <2>1. /\ at'[c] = IF at[c] \in Ended \cup {"idle"} THEN at[c] ELSE "gone"
        /\ request' = request /\ told' = told
    BY DEF Crash
  <2>2. Mode(c)' = Mode(c) /\ ToldRules(c)' = ToldRules(c)
    BY <2>1 DEF Mode, ToldRules
  <2>3. Mode(c) = "stage" => at[c] # "idle"
    <3>1. at[c] = "idle" => request[c] = NoRequest
      BY ByMode DEF CallsInv, CallInv
    <3> QED  BY <3>1 DEF Mode, NoRequest
  <2> QED  BY <2>1, <2>2, <2>3 DEF ResultsOf, OutcomeOf, Ended
<1>2. /\ some \in SUBSET Calls
      /\ \A c \in Calls : ResultsOf(c)' = ResultsOf(c)
      /\ \A c \in some : OutcomeOf(c) = "open" /\ OutcomeOf(c)' = "failed"
      /\ \A c \in Calls \ some : OutcomeOf(c)' = OutcomeOf(c)
  BY <1>1
<1> HIDE DEF some
<1> QED  BY <1>2, SeesAborts

(* Any other step of a call.                                                *)
LEMMA SeesCall ==
  ASSUME CallsInv, NEW c \in Calls,
         \/ CallStep(c) /\ ~TellRule(c) /\ ~FinishStage(c)
         \/ Cancel(c) \/ Abandon(c)
  PROVE  RuleContractStep
<1>1. TypeOK /\ Placed(c)  BY DEF CallsInv, CallInv
<1>2. OnlyOf(c)
  BY StartKeeps, LoadKeeps, RulesKeep, PersistKeeps, LogDoneKeeps, SettleKeeps,
     LogEndKeeps, FailKeeps, StageKeeps, CancelKeeps
  DEF CallStep
<1>3. request'[c] = request[c]
  BY DEF CallStep, CreateTask, BeginTask, Greet, Track, Load, Computed, Persist, LogDone,
     Settle, Tell, LogFail, FailTask, TellFail, Unwound, LogCancel, StageLoad, Look, Save,
     SaveFails, Cancel, Interrupt, Abandon
<1>4. ASSUME Mode(c) = "stage"
      PROVE  /\ told'[c] = told[c]
             /\ at[c] \notin Ended /\ at'[c] # "done"
  <2>1. at[c] \in AnyPlaces \cup Staged
    <3>1. request[c] # NoRequest  BY <1>4 DEF Mode, NoRequest
    <3> QED  BY <1>1, <1>4, <3>1, ByMode
  <2>2. \/ Computed(c) \/ Unwound(c) \/ StageLoad(c) \/ Look(c) \/ Save(c) \/ SaveFails(c)
        \/ Cancel(c)
    BY <2>1
    DEF AnyPlaces, Staged, CallStep, CreateTask, BeginTask, Greet, Track, Load, Persist,
        LogDone, Settle, Tell, LogFail, FailTask, TellFail, LogCancel, Abandon, At
  <2>3. CASE Cancel(c)
    <3>1. at[c] \notin Ended /\ at'[c] = Interrupted(c) /\ told' = told
      BY <1>1, <2>3 DEF Cancel, Running, Interrupt, Goto, TypeOK
    <3> QED  BY <3>1 DEF Interrupted
  <2>4. CASE Computed(c) \/ Unwound(c) \/ StageLoad(c) \/ Look(c) \/ Save(c) \/ SaveFails(c)
    <3>1. /\ told' = told
          /\ at[c] \in {"rules", "stopping", "read", "look", "lookagain", "save", "saveagain"}
          /\ at'[c] \in {AfterRules(c), "cancelled", "logcancel", "rules", "failed", "progress",
                        "save", "saveagain", "tellrule", "lookagain"}
      BY <1>1, <2>4
      DEF Computed, Unwound, StageLoad, Look, Save, SaveFails, At, Goto, TypeOK
    <3> QED  BY <3>1 DEF AfterRules, Ended
  <2> QED  BY <2>2, <2>3, <2>4
<1> QED  BY <1>2, <1>3, <1>4, SeesMove

(* The work on one rule: what is told in it belongs to other calls than a   *)
(* stage.                                                                   *)
LEMMA SeesUnit ==
  ASSUME CallsInv, NEW c \in Calls, NEW r \in Rules, RuleStep(c, r)
  PROVE  RuleContractStep
<1>1. OnlyOf(c)  BY UnitKeeps, RulesKeep DEF RuleStep
<1>2. request' = request /\ at' = at
  BY DEF RuleStep, TakeOwn, TakeGlobal, Evaluate, TakeLlm, Reply, Refuse, Retry, StopUnit,
     Report, Work
<1>3. Mode(c) = "stage" => told' = told
  BY DEF RuleStep, TakeOwn, TakeGlobal, Evaluate, TakeLlm, Reply, Refuse, Retry, StopUnit,
     Report, Reports, Work
<1>4. /\ request'[c] = request[c]
      /\ Mode(c) = "stage" =>
           /\ told'[c] = told[c]
           /\ at'[c] = at[c] \/ (at[c] \notin Ended /\ at'[c] # "done")
  BY <1>2, <1>3
<1> QED  BY <1>1, <1>4, SeesMove

(* Every step of the code is a step of the contract or a stutter.           *)
LEMMA SeesStep ==
  ASSUME CallsInv, AllHeard, [Next]_vars
  PROVE  RuleContractStep
<1>1. ASSUME UNCHANGED <<request, at, told>>
      PROVE  RuleContractStep
  BY <1>1, SeesNothing DEF ResultsOf, OutcomeOf, Mode, ToldRules
<1>2. CASE UNCHANGED vars \/ Wipe \/ RecoverTasks \/ RecoverLogs
  BY <1>1, <1>2 DEF vars, callVars, Wipe, RecoverTasks, RecoverLogs
<1>3. ASSUME NEW c \in Calls, NEW q \in Requests[c], Submit(c, q) \/ StartStage(c, q)
      PROVE  RuleContractStep
  BY <1>3, SeesRequest DEF AllHeard
<1>4. ASSUME NEW c \in Calls, CallStep(c) \/ Cancel(c) \/ Abandon(c)
      PROVE  RuleContractStep
  BY <1>4, SeesCall, SeesStage DEF AllHeard
<1>5. ASSUME NEW c \in Calls, NEW r \in Rules, RuleStep(c, r)
      PROVE  RuleContractStep
  BY <1>5, SeesUnit
<1> QED  BY <1>2, <1>3, <1>4, <1>5, SeesCrash DEF Next, Progress

(* The analysis stage implements the contract of a stage, for any number of *)
(* stages at work, beside any other calls, under every fault.               *)
THEOREM StageImplementsContract == Spec => StageKeepsContract
<1>1. Init => Contract!ContractInit
  BY DEF Init, Contract!ContractInit, StageResults, StageOutcome, Mode, NoRequest
<1>2. CallsInv /\ AllHeard /\ [Next]_vars => [Contract!ContractNext]_(Contract!contractVars)
  BY SeesStep DEF RuleContractStep
<1> QED
  BY <1>1, <1>2, CallsInvHolds, AllHeardHolds, PTL
  DEF Spec, StageKeepsContract, Contract!ContractSpec
=============================================================================
