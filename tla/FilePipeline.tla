----------------------------- MODULE FilePipeline ---------------------------
(***************************************************************************)
(* The life of a file: the requests that parse, retry and delete it, the    *)
(* runs that carry it through the six stages, what each stage stores, and   *)
(* the recovery at start-up.                                                *)
(*                                                                         *)
(* A RUN is one call of run_pipeline / run_pipeline_stream (kind "parse")   *)
(* or run_from_stage / run_from_stage_stream (kind "retry") with the code   *)
(* of blue_print/file_router.py around it.  All runs share one event loop;  *)
(* a step is what a run does between two awaits whose order matters to      *)
(* others: a commit, a wait for the gate, a stage's external work.  Several *)
(* runs may work on one file: nothing in the code forbids it.               *)
(*                                                                         *)
(* The global_pipeline gate is composed from its contract, SlotPool, which  *)
(* Limiter implements.  MySQL rows and Milvus vectors are kept per artifact *)
(* as a level, not as rows.                                                 *)
(***************************************************************************)
EXTENDS Naturals, FiniteSets

CONSTANTS Files, Runs,
          Limit,       \* concurrency.global_pipeline
          Modes,       \* which of "async", "stream", "sync" clients use
          Docs,        \* what a document yields: sets of artifacts
          Worlds,      \* what may go wrong and what clients ask for
          MaxCrashes   \* bound on restarts of the process

ASSUME FilesNonempty == Files # {}
ASSUME RunsFinite == IsFiniteSet(Runs)
ASSUME LimitPositive == Limit \in Nat \ {0}
ASSUME MaxCrashesNat == MaxCrashes \in Nat
ASSUME ModesKnown == Modes \subseteq {"async", "stream", "sync"}

FaultKinds ==
  {"work",      \* MinerU, an LLM or the embedding service fails
   "db",        \* a MySQL statement of a stage fails
   "mark",      \* the write of a failure status fails, retries included
   "milvus",    \* Milvus refuses a connection, an insert or a delete
   "cancel",    \* asyncio cancels a run once
   "close",     \* a streaming client goes away
   "crash",     \* the process dies
   "delete",    \* a client deletes a file no run works on
   "deletebusy"} \* a client deletes a file whatever happens to it

(* When clients ask for a retry, see MayRetry. *)
Habits == {"any", "failed", "earlier", "complete"}

ASSUME WorldsKnown ==
  Worlds \subseteq [faults : SUBSET FaultKinds, retries : SUBSET Habits]

RetryStages == {"tableing", "chunking", "embedding", "extracting", "analyzing"}
Stages == {"parsing"} \cup RetryStages
Artifacts == {"content", "tables", "chunks", "vectors", "extraction", "analysis"}

(* "part": some rows or vectors only; "dup": vectors stored twice.          *)
Levels == {"none", "part", "all", "dup"}

Succ == [s \in Stages |->
  CASE s = "parsing" -> "tableing"
    [] s = "tableing" -> "chunking"
    [] s = "chunking" -> "embedding"
    [] s = "embedding" -> "extracting"
    [] OTHER -> "analyzing"]

Failed == [s \in Stages |->
  CASE s = "parsing" -> "parsing_failed"
    [] s = "tableing" -> "tableing_failed"
    [] s = "chunking" -> "chunking_failed"
    [] s = "embedding" -> "embedding_failed"
    [] s = "extracting" -> "extracting_failed"
    [] s = "analyzing" -> "analyzing_failed"]

FailedStates == {Failed[s] : s \in Stages}

Product == [s \in Stages |->
  CASE s = "parsing" -> "content"
    [] s = "tableing" -> "tables"
    [] s = "chunking" -> "chunks"
    [] s = "embedding" -> "vectors"
    [] s = "extracting" -> "extraction"
    [] s = "analyzing" -> "analysis"]

(* Mutant of Downstream: the product of the retried stage itself is kept.   *)
MutDownstreamAfter == [s \in RetryStages |->
  CASE s = "tableing" -> {"chunks", "vectors", "extraction", "analysis"}
    [] s = "chunking" -> {"vectors", "extraction", "analysis"}
    [] s = "embedding" -> {"extraction", "analysis"}
    [] s = "extracting" -> {"analysis"}
    [] s = "analyzing" -> {}]

(* What a retry from s deletes before it starts. *)
Downstream == [s \in RetryStages |->
  CASE s = "tableing" -> {"tables", "chunks", "vectors", "extraction", "analysis"}
    [] s = "chunking" -> {"chunks", "vectors", "extraction", "analysis"}
    [] s = "embedding" -> {"vectors", "extraction", "analysis"}
    [] s = "extracting" -> {"extraction", "analysis"}
    [] s = "analyzing" -> {"analysis"}]

(* What cleanup_garbage_data deletes for a file in state Failed[s]. *)
Garbage == [s \in Stages |->
  CASE s = "parsing" -> {"content", "tables", "chunks", "vectors"}
    [] s = "tableing" -> {"tables", "chunks", "vectors", "extraction", "analysis"}
    [] s = "chunking" -> {"chunks", "vectors"}
    [] s = "embedding" -> {"vectors"}
    [] s = "extracting" -> {"extraction"}
    [] s = "analyzing" -> {"analysis"}]

ASSUME DocsCoherent ==
  \A d \in Docs : /\ d \subseteq Artifacts /\ "content" \in d
                  /\ "vectors" \in d => "chunks" \in d

Statuses == {"unused", "deleted", "queued", "complete"} \cup Stages \cup FailedStates

(* Where a run stands.                                                      *)
(*   idle       no request;            arrive  accepted, not yet started    *)
(*   mark, ask, wait   in pipeline_slot: writing "queued", calling acquire, *)
(*              waiting in it                                               *)
(*   enter      holds a slot, session and log record being opened           *)
(*   clean, load   a retry deletes downstream data, reads what it builds on *)
(*   begin, next   before the commit that starts its stage / the following  *)
(*   work, more    in the stage, before / after its first stored result     *)
(*   seal       "complete" is committed once, the second commit to come     *)
(*   inner, outer  writing the failure status, in the stage's handler / in  *)
(*              the run's                                                   *)
(*   notify, leave   callbacks after success / after the failure was stored *)
(*   unstarted  cancelled before the run began, writing the failure status  *)
(*   lost       ended without having written how                            *)
PCs == {"idle", "arrive", "mark", "ask", "wait", "enter", "clean", "load",
        "begin", "next", "work", "more", "seal", "inner", "outer", "notify",
        "leave", "unstarted", "lost"}
Outside == {"idle", "arrive", "mark", "ask", "wait", "unstarted", "lost"}
Body == {"clean", "load", "begin", "next", "work", "more", "seal", "inner",
         "outer", "notify"}
Inside == {"enter", "leave"} \cup Body

VARIABLES progress,  \* files.progress
          doc,       \* what the file's document yields
          store,     \* level of each artifact of each file
          sweeps,    \* files whose background clean-up after DELETE is pending
          job,       \* file, kind and mode of each run
          stage,     \* current_stage of each run
          pc,        \* where each run stands
          holders, waiting,   \* the global_pipeline gate
          phase,     \* of the process: "down", "recovered" (statuses), "up"
          crashes,
          world      \* the world of this behaviour, which never changes

fileVars == <<progress, doc, store, sweeps>>
gateVars == <<holders, waiting>>
runVars == <<job, stage, pc>>
procVars == <<phase, crashes, world>>
vars == <<fileVars, runVars, gateVars, procVars>>

Gate == INSTANCE SlotPool WITH
          Clients <- Runs, Limits <- {Limit}, limit <- Limit

Jobs == [file : Files, kind : {"parse", "retry"}, mode : {"async", "stream", "sync"}]
NoJob == [file |-> CHOOSE f \in Files : TRUE, kind |-> "parse", mode |-> "sync"]

Init ==
  /\ progress = [f \in Files |-> "unused"]
  /\ doc = [f \in Files |-> {}]
  /\ store = [f \in Files |-> [a \in Artifacts |-> "none"]]
  /\ sweeps = {}
  /\ job = [r \in Runs |-> NoJob]
  /\ stage = [r \in Runs |-> "parsing"]
  /\ pc = [r \in Runs |-> "idle"]
  /\ holders = {}
  /\ waiting = {}
  /\ phase = "up"
  /\ crashes = 0
  /\ world \in Worlds

-----------------------------------------------------------------------------
(* Helpers.                                                                 *)

FileOf(r) == job[r].file
Live(f) == {r \in Runs : FileOf(r) = f /\ pc[r] \notin {"idle", "lost"}}
Goto(r, p) == pc' = [pc EXCEPT ![r] = p]
Breaks(kinds) == kinds \cap world.faults # {}

(* UPDATE files ... WHERE file_id: no row, no effect and no error. *)
Put(f, v) == IF progress[f] = "deleted" THEN progress
             ELSE [progress EXCEPT ![f] = v]

Raise(f, a, level) == [store EXCEPT ![f][a] = level]
Erase(f, S) ==
  [store EXCEPT ![f] = [a \in Artifacts |-> IF a \in S THEN "none" ELSE store[f][a]]]

(* Leaving pipeline_slot from wherever the run stands in it. *)
LeaveGate(r) ==
  \/ Gate!Release(r)
  \/ Gate!Quit(r)
  \/ r \notin holders \cup waiting /\ UNCHANGED gateVars

(* The run is over and its outcome is on record. *)
End(r) ==
  /\ pc' = [pc EXCEPT ![r] = "idle"]
  /\ job' = [job EXCEPT ![r] = NoJob]
  /\ stage' = [stage EXCEPT ![r] = "parsing"]
  /\ LeaveGate(r)

(* The run is over and nobody wrote how. *)
Lose(r) ==
  /\ Goto(r, "lost")
  /\ LeaveGate(r)
  /\ UNCHANGED <<job, stage>>

-----------------------------------------------------------------------------
(* Requests.                                                                *)

(* POST /file/parse: a fresh file_id, its row committed as "queued".        *)
Submit(r, f, m) ==
  /\ phase = "up" /\ pc[r] = "idle" /\ progress[f] = "unused"
  /\ progress' = [progress EXCEPT ![f] = "queued"]
  /\ \E d \in Docs : doc' = [doc EXCEPT ![f] = d]
  /\ job' = [job EXCEPT ![r] = [file |-> f, kind |-> "parse", mode |-> m]]
  /\ Goto(r, "arrive")
  /\ UNCHANGED <<store, sweeps, stage, gateVars, procVars>>

(* The endpoint accepts every stage but parsing for every file; these are   *)
(* the habits of clients: retry the stage that failed, an earlier stage, a  *)
(* complete file, or anything at any time.                                  *)
MayRetry(f, s) ==
  \/ "any" \in world.retries
  \/ /\ Live(f) = {}
     /\ \/ "failed" \in world.retries /\ progress[f] = Failed[s]
        \/ "earlier" \in world.retries
             /\ \E x \in RetryStages : progress[f] = Failed[x] /\ Product[x] \in Downstream[s]
        \/ "complete" \in world.retries /\ progress[f] = "complete"

(* POST /file/{file_id}/retry/{stage}: looks at the row, writes nothing.    *)
Retry(r, f, s, m) ==
  /\ phase = "up" /\ pc[r] = "idle" /\ progress[f] \notin {"unused", "deleted"}
  /\ MayRetry(f, s)
  /\ job' = [job EXCEPT ![r] = [file |-> f, kind |-> "retry", mode |-> m]]
  /\ stage' = [stage EXCEPT ![r] = s]
  /\ Goto(r, "arrive")
  /\ UNCHANGED <<fileVars, gateVars, procVars>>

(* Mutant of Delete: the rows of file_chunk are forgotten. *)
MutDeleteKeepsChunks(f) ==
  /\ phase = "up" /\ progress[f] \notin {"unused", "deleted"}
  /\ Breaks({"deletebusy"}) \/ (Breaks({"delete"}) /\ Live(f) = {})
  /\ progress' = [progress EXCEPT ![f] = "deleted"]
  /\ store' = Erase(f, Artifacts \ {"vectors", "chunks"})
  /\ sweeps' = sweeps \cup {f}
  /\ UNCHANGED <<doc, runVars, gateVars, procVars>>

(* DELETE /file/{file_id}: the rows at once, the vectors in the background. *)
Delete(f) ==
  /\ phase = "up" /\ progress[f] \notin {"unused", "deleted"}
  /\ Breaks({"deletebusy"}) \/ (Breaks({"delete"}) /\ Live(f) = {})
  /\ progress' = [progress EXCEPT ![f] = "deleted"]
  /\ store' = Erase(f, Artifacts \ {"vectors"})
  /\ sweeps' = sweeps \cup {f}
  /\ UNCHANGED <<doc, runVars, gateVars, procVars>>

(* _cleanup_file_artifacts: a Milvus failure is logged and forgotten. *)
Sweep(f) ==
  /\ f \in sweeps
  /\ sweeps' = sweeps \ {f}
  /\ \/ store' = Erase(f, {"vectors"})
     \/ Breaks({"milvus"}) /\ UNCHANGED store
  /\ UNCHANGED <<progress, doc, runVars, gateVars, procVars>>

-----------------------------------------------------------------------------
(* pipeline_slot.                                                           *)

(* available() and the acquire that follows it run without an await between *)
(* them when there is a slot; otherwise the status is written first.        *)
Arrive(r) ==
  /\ pc[r] = "arrive"
  /\ \/ Gate!Free /\ Gate!Arrive(r) /\ Goto(r, "enter")
     \/ ~Gate!Free /\ Goto(r, "mark") /\ UNCHANGED gateVars
  /\ UNCHANGED <<fileVars, job, stage, procVars>>

(* mark_file_queued, whose failure is only logged. *)
MarkQueued(r) ==
  /\ pc[r] = "mark"
  /\ \/ progress' = Put(FileOf(r), "queued")
     \/ Breaks({"db"}) /\ UNCHANGED progress
  /\ Goto(r, "ask")
  /\ UNCHANGED <<doc, store, sweeps, job, stage, gateVars, procVars>>

(* acquire, by then perhaps without waiting. *)
Ask(r) ==
  /\ pc[r] = "ask"
  /\ Gate!Arrive(r)
  /\ Goto(r, IF Gate!Free THEN "enter" ELSE "wait")
  /\ UNCHANGED <<fileVars, job, stage, procVars>>

Admit(r) ==
  /\ pc[r] = "wait"
  /\ Gate!Grant(r)
  /\ Goto(r, "enter")
  /\ UNCHANGED <<fileVars, job, stage, procVars>>

(* The session and the log record are open: the run itself begins. *)
Enter(r) ==
  /\ pc[r] = "enter"
  /\ Goto(r, IF job[r].kind = "parse" THEN "begin" ELSE "clean")
  /\ UNCHANGED <<fileVars, job, stage, gateVars, procVars>>

-----------------------------------------------------------------------------
(* The stages.                                                              *)

(* A retry first deletes what the stages it will redo have stored.  Milvus  *)
(* is asked before the commit of the MySQL deletes; that it fails to delete *)
(* is only logged, that it cannot be reached ends the run.                  *)
Clean(r) ==
  LET f == FileOf(r)
      S == Downstream[stage[r]]
  IN /\ pc[r] = "clean"
     /\ \/ store' = Erase(f, S) /\ Goto(r, "load")
        \/ Breaks({"milvus"}) /\ store' = Erase(f, S \ {"vectors"}) /\ Goto(r, "load")
        \/ Breaks({"milvus"}) /\ UNCHANGED store /\ Goto(r, "outer")
        \/ Breaks({"db"}) /\ store' = Erase(f, S \cap {"vectors"}) /\ Goto(r, "outer")
     /\ UNCHANGED <<progress, doc, sweeps, job, stage, gateVars, procVars>>

(* The retry reads the parsed text; tableing and chunking cannot do without. *)
Load(r) ==
  LET usable == stage[r] \in {"tableing", "chunking"} => store[FileOf(r)]["content"] # "none"
  IN /\ pc[r] = "load"
     /\ \/ usable /\ Goto(r, "begin")
        \/ (~usable \/ Breaks({"db"})) /\ Goto(r, "outer")
     /\ UNCHANGED <<fileVars, job, stage, gateVars, procVars>>

(* The commit that shows the stage.  A retry reads the chunks back before   *)
(* it embeds and refuses a document without any.                            *)
Begin(r) ==
  LET f == FileOf(r)
      s == IF pc[r] = "begin" THEN stage[r] ELSE Succ[stage[r]]
      unusable == s = "embedding" /\ job[r].kind = "retry" /\ store[f]["chunks"] = "none"
  IN /\ pc[r] \in {"begin", "next"}
     /\ stage' = [stage EXCEPT ![r] = s]
     /\ \/ ~unusable /\ progress' = Put(f, s) /\ Goto(r, "work")
        \/ (unusable \/ Breaks({"db"})) /\ UNCHANGED progress /\ Goto(r, "outer")
     /\ UNCHANGED <<doc, store, sweeps, job, gateVars, procVars>>

(* Parsing, tableing and chunking compute in memory and store in one        *)
(* commit.  Rows of tables and chunks have primary keys that a second       *)
(* insert violates; the parsed text is updated in place.  A failing commit  *)
(* may have taken effect, and so may the save before the end time is        *)
(* written.  save_file_content runs outside the handler of the stage.       *)
Save(r) ==
  LET f == FileOf(r)
      a == Product[stage[r]]
      clash == stage[r] # "parsing" /\ a \in doc[f] /\ store[f][a] # "none"
      saved == IF a \in doc[f] /\ ~clash THEN Raise(f, a, "all") ELSE store
  IN /\ pc[r] = "work" /\ stage[r] \in {"parsing", "tableing", "chunking"}
     /\ \/ ~clash /\ store' = saved /\ Goto(r, "next")
        \/ (clash \/ Breaks({"work"})) /\ UNCHANGED store /\ Goto(r, "inner")
        \/ /\ Breaks({"db"})
           /\ store' \in {store, saved}
           /\ \E p \in {"inner"} \cup (IF stage[r] = "parsing" THEN {"outer"} ELSE {}) : Goto(r, p)
     /\ UNCHANGED <<progress, doc, sweeps, job, stage, gateVars, procVars>>

(* Embedding: the batches go to Milvus in one synchronous call, which adds  *)
(* to whatever vectors the file has.  Skipped when the type disables it.    *)
Embed(r) ==
  LET f == FileOf(r)
      level == store[f]["vectors"]
      full == Raise(f, "vectors", IF level = "none" THEN "all" ELSE "dup")
      some == Raise(f, "vectors", IF level = "none" THEN "part" ELSE "dup")
  IN /\ pc[r] = "work" /\ stage[r] = "embedding"
     /\ IF "vectors" \in doc[f]
          THEN \/ store' = full /\ Goto(r, "next")
               \/ Breaks({"work", "milvus"}) /\ UNCHANGED store /\ Goto(r, "inner")
               \/ Breaks({"milvus"}) /\ store' = some /\ Goto(r, "inner")
               \/ Breaks({"db"}) /\ store' = full /\ Goto(r, "inner")
          ELSE /\ UNCHANGED store
               /\ Goto(r, "next") \/ (Breaks({"db"}) /\ Goto(r, "outer"))
     /\ UNCHANGED <<progress, doc, sweeps, job, stage, gateVars, procVars>>

(* Extraction and analysis commit one field or rule at a time, updating a   *)
(* row that exists.  StoreSome stands for the first half of them,           *)
(* ExtractRest and AnalyzeRest for the others.  A rule that cannot be       *)
(* stored is skipped; a field that cannot ends the stage.                   *)
Grown(f, a) ==
  IF a \notin doc[f] THEN store
  ELSE Raise(f, a, IF store[f][a] = "none" THEN "part" ELSE "all")

StoreSome(r) ==
  LET f == FileOf(r)
      a == Product[stage[r]]
  IN /\ pc[r] = "work" /\ stage[r] \in {"extracting", "analyzing"}
     /\ \/ store' = (IF store[f][a] = "none" THEN Grown(f, a) ELSE store) /\ Goto(r, "more")
        \/ stage[r] = "analyzing" /\ Breaks({"db"}) /\ UNCHANGED store /\ Goto(r, "more")
        \/ Breaks({"work", "db"}) /\ UNCHANGED store /\ Goto(r, "inner")
     /\ UNCHANGED <<progress, doc, sweeps, job, stage, gateVars, procVars>>

ExtractRest(r) ==
  LET f == FileOf(r)
  IN /\ pc[r] = "more" /\ stage[r] = "extracting"
     /\ \/ store' = Grown(f, "extraction") /\ Goto(r, "next")
        \/ Breaks({"work", "db"}) /\ store' \in {store, Grown(f, "extraction")} /\ Goto(r, "inner")
     /\ UNCHANGED <<progress, doc, sweeps, job, stage, gateVars, procVars>>

(* run_analysis itself commits "complete"; its caller commits it again with *)
(* the end time (Seal).                                                     *)
AnalyzeRest(r) ==
  LET f == FileOf(r)
  IN /\ pc[r] = "more" /\ stage[r] = "analyzing"
     /\ store' \in {Grown(f, "analysis")} \cup (IF Breaks({"db"}) THEN {store} ELSE {})
     /\ \/ progress' = Put(f, "complete") /\ Goto(r, "seal")
        \/ Breaks({"work", "db"}) /\ UNCHANGED progress /\ Goto(r, "inner")
     /\ UNCHANGED <<doc, sweeps, job, stage, gateVars, procVars>>

(* Mutant of Seal: a status nobody knows. *)
MutSealMisspelled(r) ==
  /\ pc[r] = "seal"
  /\ progress' = Put(FileOf(r), "completed") /\ Goto(r, "notify")
  /\ UNCHANGED <<doc, store, sweeps, job, stage, gateVars, procVars>>

Seal(r) ==
  /\ pc[r] = "seal"
  /\ \/ progress' = Put(FileOf(r), "complete") /\ Goto(r, "notify")
     \/ Breaks({"db"}) /\ UNCHANGED progress /\ Goto(r, "inner")
  /\ UNCHANGED <<doc, store, sweeps, job, stage, gateVars, procVars>>

-----------------------------------------------------------------------------
(* Failure, cancellation, end.                                              *)

(* mark_file_failed in the handler of the stage: never raises. *)
InnerMark(r) ==
  /\ pc[r] = "inner"
  /\ \/ progress' = Put(FileOf(r), Failed[stage[r]])
     \/ Breaks({"mark"}) /\ UNCHANGED progress
  /\ Goto(r, "outer")
  /\ UNCHANGED <<doc, store, sweeps, job, stage, gateVars, procVars>>

(* Mutant of OuterMark: current_stage was advanced before the stage ended. *)
MutOuterMarkBlamesNext(r) ==
  /\ pc[r] = "outer"
  /\ \/ /\ progress' = Put(FileOf(r), Failed[Succ[stage[r]]])
        /\ Goto(r, "leave")
        /\ UNCHANGED <<job, stage, gateVars>>
     \/ Breaks({"mark"}) /\ UNCHANGED progress /\ Lose(r)
  /\ UNCHANGED <<doc, store, sweeps, procVars>>

(* mark_file_failed_with_retry in the handler of the run; its False, after  *)
(* four attempts, is not looked at.                                         *)
OuterMark(r) ==
  /\ pc[r] = "outer"
  /\ \/ /\ progress' = Put(FileOf(r), Failed[stage[r]])
        /\ Goto(r, "leave")
        /\ UNCHANGED <<job, stage, gateVars>>
     \/ Breaks({"mark"}) /\ UNCHANGED progress /\ Lose(r)
  /\ UNCHANGED <<doc, store, sweeps, procVars>>

(* Mutant of Leave: the slot is not given back. *)
MutLeaveKeepsSlot(r) ==
  /\ pc[r] \in {"notify", "leave"}
  /\ pc' = [pc EXCEPT ![r] = "idle"]
  /\ job' = [job EXCEPT ![r] = NoJob]
  /\ stage' = [stage EXCEPT ![r] = "parsing"]
  /\ UNCHANGED <<fileVars, gateVars, procVars>>

(* The last callback is out; the slot is given back. *)
Leave(r) ==
  /\ pc[r] \in {"notify", "leave"}
  /\ End(r)
  /\ UNCHANGED <<fileVars, procVars>>

(* The background task and the parse stream write a status themselves when  *)
(* they are cancelled before the run; the retry stream and the synchronous  *)
(* endpoints do not.                                                        *)
HandlesEarlyEnd(r) ==
  job[r].mode = "async" \/ (job[r].mode = "stream" /\ job[r].kind = "parse")

UnstartedMark(r) ==
  /\ pc[r] = "unstarted"
  /\ \/ progress' = Put(FileOf(r), Failed[stage[r]]) /\ End(r)
     \/ Breaks({"mark"}) /\ UNCHANGED progress /\ Lose(r)
  /\ UNCHANGED <<doc, store, sweeps, procVars>>

(* asyncio cancels the run at its current await. *)
Cancel(r) ==
  /\ Breaks({"cancel"})
  /\ \/ /\ pc[r] \in {"mark", "ask", "wait", "enter"}
        /\ LeaveGate(r)
        /\ Goto(r, IF HandlesEarlyEnd(r) THEN "unstarted" ELSE "lost")
        /\ UNCHANGED <<job, stage>>
     \/ /\ pc[r] \in Body \ {"outer"}
        /\ Goto(r, "outer")
        /\ stage' \in {stage} \cup
             (IF pc[r] = "next" THEN {[stage EXCEPT ![r] = Succ[@]]} ELSE {})
        /\ UNCHANGED <<job, gateVars>>
     \/ pc[r] \in {"arrive", "unstarted", "outer"} /\ Lose(r)
  /\ UNCHANGED <<fileVars, procVars>>

(* Mutant of Close: the slot of a closed generator is not given back. *)
MutCloseKeepsSlot(r) ==
  /\ Breaks({"close"})
  /\ job[r].mode = "stream"
  /\ pc[r] \notin {"idle", "lost", "notify", "leave"}
  /\ Goto(r, "lost")
  /\ UNCHANGED <<fileVars, job, stage, gateVars, procVars>>

(* A streaming client goes away: the generator is closed at its yield, or   *)
(* cancelled again at every await of its handlers.  The slot is given back, *)
(* no status is written.                                                    *)
Close(r) ==
  /\ Breaks({"close"})
  /\ job[r].mode = "stream"
  /\ pc[r] \notin {"idle", "lost", "notify", "leave"}
  /\ Lose(r)
  /\ UNCHANGED <<fileVars, procVars>>

-----------------------------------------------------------------------------
(* The process.                                                             *)

(* Every run and every background task is gone; an insert into Milvus may   *)
(* have been half done.                                                     *)
Crash ==
  /\ Breaks({"crash"}) /\ phase # "down" /\ crashes < MaxCrashes
  /\ crashes' = crashes + 1
  /\ phase' = "down"
  /\ pc' = [r \in Runs |-> "idle"]
  /\ job' = [r \in Runs |-> NoJob]
  /\ stage' = [r \in Runs |-> "parsing"]
  /\ holders' = {} /\ waiting' = {} /\ sweeps' = {}
  /\ store' \in {store} \cup
       {Raise(FileOf(r), "vectors", "part") : r \in
          {q \in Runs : /\ pc[q] = "work" /\ stage[q] = "embedding"
                        /\ "vectors" \in doc[FileOf(q)]
                        /\ store[FileOf(q)]["vectors"] = "none"}}
  /\ UNCHANGED <<progress, doc, world>>

(* Mutant of Recover: no entry for "queued" in the mapping. *)
MutRecoverForgetsQueued ==
  /\ phase = "down"
  /\ phase' = "recovered"
  /\ progress' = [f \in Files |->
       IF progress[f] \in Stages THEN Failed[progress[f]] ELSE progress[f]]
  /\ UNCHANGED <<doc, store, sweeps, runVars, gateVars, crashes, world>>

(* recover_abnormal_status, one commit. *)
Recover ==
  /\ phase = "down"
  /\ phase' = "recovered"
  /\ progress' = [f \in Files |->
       CASE progress[f] = "queued" -> "parsing_failed"
         [] progress[f] \in Stages -> Failed[progress[f]]
         [] OTHER -> progress[f]]
  /\ UNCHANGED <<doc, store, sweeps, runVars, gateVars, crashes, world>>

(* cleanup_garbage_data, one commit.  A vector deletion that fails is only  *)
(* logged; Milvus out of reach aborts the start of the service.             *)
CleanUp ==
  /\ phase = "recovered"
  /\ \/ /\ phase' = "up"
        /\ \E kept \in SUBSET (IF Breaks({"milvus"}) THEN Files ELSE {}) :
             store' = [f \in Files |-> [a \in Artifacts |->
               IF /\ \E s \in Stages : progress[f] = Failed[s] /\ a \in Garbage[s]
                  /\ ~(a = "vectors" /\ f \in kept)
                 THEN "none" ELSE store[f][a]]]
     \/ Breaks({"milvus", "db"}) /\ phase' = "down" /\ UNCHANGED store
  /\ UNCHANGED <<progress, doc, sweeps, runVars, gateVars, crashes, world>>

-----------------------------------------------------------------------------

RunStep(r) ==
  \/ Arrive(r) \/ MarkQueued(r) \/ Ask(r) \/ Admit(r) \/ Enter(r)
  \/ Clean(r) \/ Load(r) \/ Begin(r) \/ Save(r) \/ Embed(r)
  \/ StoreSome(r) \/ ExtractRest(r) \/ AnalyzeRest(r) \/ Seal(r)
  \/ InnerMark(r) \/ OuterMark(r) \/ Leave(r) \/ UnstartedMark(r)

Request(r) ==
  \E f \in Files, m \in Modes :
    Submit(r, f, m) \/ \E s \in RetryStages : Retry(r, f, s, m)

Next ==
  \/ \E r \in Runs : Request(r) \/ RunStep(r) \/ Cancel(r) \/ Close(r)
  \/ \E f \in Files : Delete(f) \/ Sweep(f)
  \/ Crash \/ Recover \/ CleanUp

Spec == Init /\ [][Next]_vars

(* The event loop runs what is ready, and every external call of a run has  *)
(* a timeout, so a run that can step does.  Nothing obliges clients to send *)
(* requests, and faults need not happen.                                    *)
FairSpec == Spec /\ \A r \in Runs : WF_vars(RunStep(r))

-----------------------------------------------------------------------------
(* Properties.                                                              *)

(* Types of the columns and of the runs' bookkeeping; the only type         *)
(* invariant of the module.                                                 *)
TypeOK ==
  /\ progress \in [Files -> Statuses]
  /\ doc \in [Files -> SUBSET Artifacts]
  /\ store \in [Files -> [Artifacts -> Levels]]
  /\ sweeps \in SUBSET Files
  /\ job \in [Runs -> Jobs]
  /\ stage \in [Runs -> Stages]
  /\ pc \in [Runs -> PCs]
  /\ phase \in {"down", "recovered", "up"}
  /\ crashes \in 0..MaxCrashes
  /\ world \in Worlds

(* The slots of global_pipeline in use are exactly those of the runs that   *)
(* are between acquire and release, never more than configured: no failure, *)
(* cancellation or closed stream on any path through pipeline_slot leaks a  *)
(* slot or gives one back twice.                                            *)
GateBalanced ==
  /\ holders = {r \in Runs : pc[r] \in Inside}
  /\ waiting = {r \in Runs : pc[r] = "wait"}
  /\ Cardinality(holders) <= Limit

Processing == {"queued"} \cup Stages

(* A file shown as in process is in the hands of a run that will still      *)
(* write its final status, however many runs overlap on the file and        *)
(* whatever fails; the only exception is a run that was lost: cancelled or  *)
(* closed where the code has no handler, or unable to write the status.     *)
ProcessingHasRun ==
  phase = "up" => \A f \in Files : progress[f] \in Processing =>
    \E r \in Runs : FileOf(r) = f /\ pc[r] \notin {"idle", "notify", "leave"}

StageOrder == <<"parsing", "tableing", "chunking", "embedding", "extracting", "analyzing">>

(* What s and the stages after it store. *)
Ahead(s) ==
  {Product[StageOrder[i]] : i \in {k \in 1..6 : \E j \in 1..k : StageOrder[j] = s}}

(* Clients that wait for a file's run to end before they ask for another,   *)
(* and those that moreover retry nothing but the stage that failed.         *)
Polite == "any" \notin world.retries /\ "deletebusy" \notin world.faults
Careful == Polite /\ world.retries \subseteq {"failed"}

(* A run that is about to do a stage finds nothing that this stage or a     *)
(* later one stored: the clean-up of a retry and of a restart removes what  *)
(* save_tables and save_chunks would collide with and what would make       *)
(* Milvus hold a vector twice.  For clients that run one request per file.  *)
(* Vectors are left out where Milvus may refuse the deletion.               *)
CleanSlate ==
  \A r \in Runs : pc[r] = "work" =>
    \A a \in Ahead(stage[r]) :
      store[FileOf(r)][a] = "none" \/ (a = "vectors" /\ Breaks({"milvus"}))

(* Of artifact a the file has what its document yields, and nothing stale   *)
(* beside it.  An analysis result that MySQL refused is missing by design;  *)
(* vectors are double after a deletion that Milvus refused.                 *)
Right(f, a) ==
  \/ store[f][a] = IF a \in doc[f] THEN "all" ELSE "none"
  \/ a = "analysis" /\ a \in doc[f] /\ Breaks({"db"})
  \/ a = "vectors" /\ a \in doc[f] /\ Breaks({"milvus"}) /\ store[f][a] = "dup"

Whole(f) == \A a \in Artifacts : Right(f, a)

(* A complete file is whole, at every moment, after every sequence of       *)
(* failures, restarts and retries of clients that retry the failed stage.   *)
CompleteIsWhole ==
  Careful => \A f \in Files : progress[f] = "complete" => Whole(f)

(* A failure status names a stage that can be retried: whatever failed, was *)
(* cancelled or cut off by a restart, every artifact that the stages before *)
(* that one store is there in full, so the retry misses none of its inputs. *)
FailedHasInputs ==
  Careful => \A f \in Files, s \in Stages : progress[f] = Failed[s] =>
    \A a \in Artifacts \ Ahead(s) : Right(f, a)

(* docs/API_FULL_REFERENCE.md: of a file that is complete the caller reads  *)
(* extraction, analysis and detail.  What the service shows as complete,    *)
(* with no run at work on it and none lost, has them.                       *)
CompleteIsReadable ==
  \A f \in Files :
    (/\ phase = "up" /\ progress[f] = "complete"
     /\ \A r \in Runs : FileOf(r) = f => pc[r] = "idle") => Whole(f)

(* The same as long as the process is not restarted, whichever stage of a   *)
(* failed or complete file is retried.                                      *)
ReadableUntilRestart == crashes = 0 => CompleteIsReadable

(* When requests stop coming, every run ends: none waits for ever for a     *)
(* slot or inside its handlers.                                             *)
Drains ==
  <>[](\A r \in Runs : pc[r] # "arrive")
    => \A r \in Runs : <>[](pc[r] \in {"idle", "lost"})

(* DELETE /file/{file_id} promises to delete the file and everything stored *)
(* for it; once its background sweep and the runs on it are over nothing is *)
(* left.  Vectors may survive a restart or a Milvus failure.                *)
DeletedLeavesNothing ==
  \A f \in Files :
    (progress[f] = "deleted" /\ f \notin sweeps /\ Live(f) = {}) =>
      \A a \in Artifacts :
        store[f][a] = "none" \/ (a = "vectors" /\ Breaks({"milvus", "crash"}))

(* init_service.py says that a file found "queued" at start-up is put in a  *)
(* failed status so that the user can retry it explicitly: the stage of     *)
(* that status is one the retry endpoint accepts.                           *)
QueuedStaysRetryable ==
  [][\A f \in Files : (phase = "down" /\ phase' = "recovered" /\ progress[f] = "queued")
       => progress'[f] \in {Failed[s] : s \in RetryStages}]_vars
=============================================================================
