# 析卷 AI in TLA+

This directory holds a TLA+ model of the server in `src/`: a FastAPI service
that takes a PDF through parsing (MinerU), table naming (LLM), chunking,
embedding (Milvus), field extraction and rule analysis, and keeps every result
in MySQL. One asyncio worker process serves all requests; there is no job queue
on disk, so a restart loses every running task and start-up repairs what the
tasks left behind.

    tlc -workers 2 -config MCPipeline.cfg MCFilePipeline.tla
    tlc -workers 2 -config MCDocument.cfg MCDocument.tla
    tlapm RuleAnalysisProofs.tla
    tlapm DocumentProofs.tla

## 1. The system

### Components, their state and their operations

| Component | Code | State | Operations |
|---|---|---|---|
| Concurrency pools | `utils/concurrency.py` | per pool `_limit`, `_active`, `_queued`, a Condition; registry by name and loop | acquire, release, set_limit, wake-ups, register / unregister, snapshot |
| Pipeline gate | `service/pipeline_gate.py` | none of its own; the pool `global_pipeline` | `pipeline_slot`, `mark_file_queued` |
| File pipeline | `service/pipeline_service.py` | `files.progress`, `current_stage` of each run | `run_pipeline`, `run_from_stage`, and a streaming form of each |
| Failure status | `service/stage_status.py` | `files.progress`, `files.error` | `mark_file_failed`, `..._with_retry` |
| File requests | `blue_print/file_router.py` | rows of `files` | parse, retry, delete, in mode async, stream or sync |
| Parsing | `service/parse_service.py`, `mineru_client.py` | `file_content` | MinerU call, save |
| Tables, chunks, vectors | `table_`, `chunk_`, `subchunk_`, `embedding_service.py`, `utils/milvus_client.py` | `file_table`, `file_chunk`, Milvus | compute in memory, one commit, or batches of vectors |
| Extraction | `service/extraction_service.py`, `vl_service/` | `extraction_result` | basic fields, then advanced fields, as concurrent workers; each persisted as it ends |
| Analysis | `service/analysis_service.py` | `analysis_result`, `progress` | rules as concurrent workers; commits `complete` |
| Start-up | `service/init_service.py` | all of the above | schema, status recovery, garbage clean-up, orphan PDFs |
| Analysis tasks | `analysis_run_service.py`, `analysis_task_store.py`, `analysis_router.py` | `analysis_task` | run in three modes, persist, callbacks, events, restart |
| Invocation log | `invocation_log_service.py` | `invocation_log` | open, running, verdict, failure, recovery |
| Retention | `retention_service.py` | `uploads/*.pdf` | delete by age and volume |
| Settings | `settings_service.py`, `utils/config.py` | `config.yaml`, the live configuration | versioned save, replacement of the pool capacities |
| Login and access | `settings_auth_service.py`, `access_control_service.py`, `auth_middleware.py` | sessions, keys, failed attempts | login, key and address management |
| Configuration data | `doctype_router.py`, `extraction_router.py`, `analysis_router.py`, `type_params.py` | document types, projects, fields, rules, parameters | save, delete, copy, import, export, templates, version probe |
| Page mapping | `utils/page_mapping.py` | `files.page_mapping` | anchors from MinerU's blocks, look-ups by position |
| Evidence | `extraction_service.py`, `utils/empty_retry.py`, `vl_service/locate.py` | none (per attempt) | channels, hybrid search, repetitions, vision |
| Search | `search_*.py`, `text_matching.py`, `file_vector_index.py` | none | by keyword, rule, chunk, page and vector |
| Clients | `utils/llm_client.py`, `vl_client.py`, `web_search.py` | none | chat, embeddings, images, with retries |
| Callbacks, monitoring, API docs, `ui/js`, `scripts` | as named | none or read-only | |

### How they interact

A request creates a row and a *run* (a background task, a streaming generator,
or the request's own coroutine). The run enters `pipeline_slot`, which takes a
token of the pool `global_pipeline` for its whole length, opens a session and a
log record, and calls one of the four pipeline functions. Each stage commits the
new `progress`, does its external work (under further pools), and commits its
product. `progress` in MySQL is the only channel between a run, the user
interface, a later retry and the recovery. Deletion and retry act on the same
rows with no regard for a run that is alive.

### What is hard

* **Interleaving.** All runs share an event loop; between two awaits anything
  may happen to the row, to the gate or to the file's data. Newcomers may
  overtake waiters of a pool, and wake-ups are separate tasks.
* **Ways out.** A run ends by success, by a failure (of the stage or of the
  commit), by cancellation at any await, by a generator closed at a yield, by a
  second cancellation inside a handler, or with the process. Each must give back
  the slot and should leave a final status.
* **Restart.** Background tasks are lost; statuses in process become failures;
  half-stored products are deleted, and nothing that a retry needs.
* **Two stores.** MySQL is transactional, Milvus is not: deletions that fail are
  only logged, inserts are batched.
* **Overlap.** Two runs on one file, a deletion under a run.

The `hazards` of PROJECT.json name the lines.

### What makes each component correct

* Pools: exact counters, never above capacity, no lost wake-up, no idle slot
  beside a waiter.
* Gate and pipeline: no slot leaks; a file in process is in somebody's hands;
  a stage that failed leaves the inputs of its retry; a complete file has all of
  its results; deletion leaves nothing; every run ends.
* Extraction: advanced fields run after the basic ones they quote, a pass that
  is done has a result for every field, no worker is forgotten, no result is
  stored after the pass was given up.
* Analysis: the same, with results in rule order; task row, log row, results and
  events of a call agree whatever statement fails, and every call ends.
* Index: every vector stands beside its text, nothing but separators is lost on
  the way from the text to the vectors, positions and pages belong to the text,
  searches return the best and every keyword.
* Evidence: a field is shown what its configuration says and no more; only an
  honest empty answer is repeated, within one budget.
* Settings: no save overwrites an unseen document, a withdrawn key is refused,
  what is in force is what the file says.
* Login: a lockout and a session hold whatever other clients do.
* Configuration: a field refers to fields that exist, in its own type and
  evaluated before it; the editor's probe sees every change.

## 2. Modules

### SlotPool — what a pool promises

`limit`, `holders`, `waiting`; a client asks (`Arrive`), is given a free slot
(`Grant`), gives up (`Quit`) or returns one (`Release`); the capacity may change
(`Resize`). No order among waiters is promised, because the code has none.

### Limiter — `ObservableLimiter`

One action per stretch between two suspension points of the code:

| Action | Code |
|---|---|
| `Enter` | `acquire` from its first line to the token, or to `Condition.wait` |
| `Rerun` | `acquire` when its `wait` returns: the `while` tests again |
| `CancelWaiter` | `except BaseException` around the wait |
| `Exit` | `release`: counters, then a scheduled `_wake_waiters` |
| `SetLimit` | `set_limit`: the capacity, then a scheduled `_wake_waiters` |
| `Wake` | `_wake_waiters`: `notify_all` |

`release` and `set_limit` only schedule the notification, so between a release
and its `Wake`, and between `Wake` and `Rerun`, other tasks run. `wakes` counts
the scheduled notifications; `MaxWakes` bounds it. `Limiter` implements
`SlotPool` (`PoolContract`): holders hold a token, waiters are parked or woken.

### FilePipeline — requests, runs, stages, recovery

The gate is the instance `Gate` of SlotPool with a fixed capacity; the actions
`Arrive`, `Ask`, `Admit` and `LeaveGate` are its actions joined with a step of a
run. The rest of the state:

| Variable | Meaning |
|---|---|
| `progress[f]` | `files.progress`; `"unused"` before the row, `"deleted"` after |
| `store[f][a]` | rows or vectors of artifact `a`: none, part, all, dup (vectors twice) |
| `doc[f]` | which artifacts the document yields |
| `sweeps` | pending background clean-ups of deleted files |
| `job`, `stage`, `pc` | of each run: file, kind and mode; `current_stage`; place in the code |
| `phase` | of the process: down, recovered (statuses only), up |

The four pipeline functions differ in what they announce, not in what they
commit, so one set of actions stands for all; the differences that matter are
kept: the *kind* (a retry cleans up, loads, and refuses to embed a file without
chunks) and the *mode* (who writes a status when the run is cancelled before it
began, `HandlesEarlyEnd`; who can be closed, `Close`).

| Action | Code |
|---|---|
| `Submit`, `Retry`, `Delete`, `Sweep` | the endpoints and `_cleanup_file_artifacts` |
| `Arrive`, `MarkQueued`, `Ask`, `Admit` | `pipeline_slot`: the test of `available()`, the status, `acquire` |
| `Enter` | session and log record open |
| `Clean`, `Load` | the first part of `run_from_stage` |
| `Begin` | the commit that shows a stage |
| `Save` | parsing, tables, chunks: compute, then one commit |
| `Embed` | batches to Milvus |
| `StoreSome`, `ExtractRest`, `AnalyzeRest` | results one by one; the first commit of `complete` |
| `Seal` | the second commit of `complete` |
| `InnerMark`, `OuterMark` | the failure status, in the stage's handler and in the run's |
| `Leave`, `UnstartedMark`, `Cancel`, `Close` | the ways out |
| `Crash`, `Recover`, `CleanUp` | the process, `recover_abnormal_status`, `cleanup_garbage_data` |

What the code does not promise is left to a *world*, one of the constant
`Worlds`, which each behaviour draws at its start and keeps (`world`). Its
`faults` say what may go wrong: external work, MySQL, the write of a failure
status, Milvus, cancellation, closed streams, restarts, deletion of an idle or of
a busy file. Its `retries` say when clients ask for a retry; the endpoint itself
accepts any stage but parsing at any time (`"any"`). `Docs` says what documents
yield: everything; no tables; no chunk; no fields and rules. `Polite` and
`Careful` say of a world what its clients do not do.

Faults are read by the properties only where the code gives in to them by
design: a Milvus deletion that is refused is only logged, and an analysis
result that MySQL refuses is skipped (`Right`). So that this hides nothing
else, every kind of client is also run in a world without these two faults,
where the properties make no exemption.

A run that was *lost* (cancelled or closed where no handler writes a status, or
unable to write it) keeps its place in the model, so that `ProcessingHasRun` can
say that this is the only way to leave a file in process. The lost run excuses
its file for good: a second status lost on the same file is not told apart from
the first.

### StageContract and FieldExtraction — the fields of one file

`StageContract` is what a stage of many items promises: results one at a time,
each item at most once, all of them when it is done, none after the end.

`FieldExtraction` is the code of the extraction for one file. A *pass* is a call
of `run_extraction` or `run_extraction_stream` (both store their results) or of
`iter_temporary_extraction_results` (a debug request for a rule, which does not);
`debug` says which. Nothing keeps passes off a file that has one.

| Variable | Meaning |
|---|---|
| `place[p]` | the consumer: idle, in a group, waiting for cancelled workers, done, failed |
| `task[p][f]` | a field: its worker (queued for the file's pool, admitted, running), its result (computed, being inserted or updated, handed to the consumer, taken), or stopped |
| `closing[p]` | of the two nested generators of an ended pass, which is still to be closed |
| `known[p]` | `field_values`, from which advanced fields are resolved |
| `rows`, `view[p]` | rows of `extraction_result`; those the pass saw when it began |
| `pool[p]`, `registered`, `made` | the limiter each pass holds, the one under the file's name, how many were made |

| Action | Code |
|---|---|
| `Start`, `NextGroup` | the loop over the groups in `_iter_extraction_results`; `Enter` is the first part of `_iter_field_group`, `Register` its `register_task_limiter` |
| `TakeTask`, `TakeGlobal`, `Compute`, `Stop` | `_worker`; a failed attempt is a result too |
| `Deliver` | `_format_field_computation`, then the lookup of the row |
| `Persist`, `FailSave` | the commit; it fails, or a row of another pass is in the way |
| `Resume` | the callback of the stage, the next request of a streaming client |
| `Cancel`, `Unwound` | `except BaseException` in `_iter_field_group`: cancel and gather |
| `Drop`, `CloseOuter`, `CloseInner` | a generator left at a `yield`, closed later by the event loop's hook |

A pass reads under REPEATABLE READ: until its first commit it looks for a field's
row among those of its beginning (`Seen`), and two passes may then insert the same
one although the first has already committed it.

The pools are counted directly: each is a set of workers below a limit. Deletion
of rows by a retry belongs to `FilePipeline`.

### PageMap, Passages, Retrieval — pure algorithms

Operators without state. A document is a sequence of *cells* ("ink", separators, table marks);
`[text, start, end]` is a passage with the positions the code computes for it.

* `PageMap`: MinerU's blocks are found at sets of positions: those of the whole
  text of a block (`full`), of its beginning (`begin`) and of one of the fragments it
  is made of (`frag`). What is found once makes an anchor (`Candidate`), a longest
  non-decreasing subsequence is kept (`Kept`), blocks that are found once between
  their neighbours, whole or by a fragment, are added (`Windowed`, `Claim`), tables
  over several pages get an anchor behind them (`CrossPage`). `Label`, `BoxPages`,
  `Segments` and `RangeSlice` are the look-ups. `LayoutOK` is what MinerU returns:
  pages in order, nothing found of a block without text, as every shell is.
* `Passages`: `split_text_with_positions` with its separators, nested splits and
  overlap, tables kept whole or split, names put before them, the remainder
  behind the last table; the subchunks that are embedded. The code recurses over
  the separators that are left; `Splitter` builds the same function from the
  finest separator up, as a fold, and `Gather` is the loop over the parts of one
  separator.
* `Retrieval`: windows round hits, merge of overlapping windows, weights and
  scores, round-robin truncation, hits by chunk, best parents of vector hits. A
  keyword may be listed twice: groups and weights are dictionaries, so it has one of
  each (`Firsts`), but the hits by chunk are collected once per entry of the list.

### Embedding and Indexing — from the text to the vectors

`Embedding` is `get_embeddings` and `submit_to_milvus`: batches wait for the task
and the global pool, are sent together, answered in any order (`Answer`), dropped
or refused and sent again (`DropAnswer`, `RefuseBatch`), joined in order
(`Collect`) and inserted by groups of rows (`Insert`, `InsertFails`). A service
may also answer with too few vectors. `Indexing` puts the chain together: `Begin`
for a first run, `Again` for a retry (which embeds chunks without their places,
section 5), then the searches over what is stored. `DocumentSearchable` is the
conjunction of what they promise: nothing lost, sizes, spans, the pages of spans
(`PagesAgree`), the anchors (`AnchorsStay`: completing a mapping costs none that was
there; `AnchorsExact`: blocks that are found once, whole and in order have their own
page), ranges of pages (`RangesHold`), a hit for every keyword (`EveryKeywordKept`)
and the best parents (`BestParents`). Its parts claim what the code keeps: `SpansHold`
allows for the name of a split table and for a start moved by overlaps. What the
docstrings promise beyond that is stated as `SubchunksInherit` (rows have the pages
of their chunks) and `PositionsAbsolute` (spans lie in the document), which
`lost_pages` and `negative_start` violate. The documents are in `MCIndexing`.

### FieldEvidence — one field

`field` is one of `Configs`; `phase` goes from `Resolve` (the pages of a linked
field) over the channels (`RunChannel`, `Skip`, `RunSingle`) to `Answered` or
`ModelFails`, and back for another attempt (`Repeats`). `merged` is the evidence
of a union with its length; `ended` the attempts; `runs` the calls per channel.
A channel by pages returns *pieces*: `PagePieces` are the texts of single pages and
the tables with all the pages they span, and `Meeting` are those that meet the range
asked for. A table comes whole, so a field can be shown pages outside its range; that
is what the code does, and no property denies it. The vision model is different: it
renders single pages, and `SheetsKept` says that they are pages of its field, whatever
it reported of the contact sheets. `ConfigsOK` leaves out the vision model in a union
and twice in a fallback: the editor offers neither, and the executor raises
(extraction_service.py:2989-2992).

### RuleAnalysis — the calls that run rules

One *call* is a synchronous, asynchronous or streaming request or the stage of a
run. `at[c]` names the place in the code that serves it, `unit[c][r]` where a rule
stands among the pools; `task`, `log`, `rows` are the three tables, `told` the
events. `seen` is the snapshot of `rows` the call's session works on (REPEATABLE
READ), which decides between insert and update (`FitsRows`). `lost` records the
writes the code gave up on, for the properties. `Cancel` interrupts wherever the
call stands, and the interrupted statement, of the task row, the log or the results,
may have taken effect; so may a commit that raises. The snapshot of a stage is taken
when it loads the rules (`StageLoad`) and serves its first look for a row
(`FirstLook`). `Crash` and the two recoveries are the process. The stage implements `StageContract`
(`StageKeepsContract`).

### Settings, AdminLogin, TypeConfig — administration

`Settings`: two services write one YAML file under one lock, a save in four steps
(`BeginSave`, `Write`, `ApplyLimits`, `ApplyConfig`), operators edit the file by
hand under none. `AdminLogin`: capped tables of failures and sessions, the latter
from a token to its end and the credentials it was opened with; the check
of a password is a step of its own, between `Attempt` and `Match` or `Mismatch`,
because the credentials can be replaced meanwhile. `TypeConfig`: the tables of
types, fields, rules, parameters, files and projects as functions; saving a field
is checked (`CheckSave`) and committed (`CommitSave`) with other requests in
between; `copy_configs` and `import_configs` as one step each, with the mapping of
identifiers and references they compute. `second` is the clock of the database,
which stamps rows (`at`) to the second.

## 3. Runs

| Run | Question | Instance |
|---|---|---|
| `pipeline_overlap` | may two runs on one file, at any time and under every fault, leak a slot or leave a file in process; does every run end once requests stop, also one that waits for the slot of the other | 1 file, 2 runs, capacity 1, every fault, 1 restart; 2.7 M states |
| `pipeline` | with one request per file at a time: does a failure leave the inputs of its retry, is a complete file whole, does each stage find a clean slate, is a complete file readable until a restart whatever is retried, does deletion leave nothing | 1 file, 2 runs, 4 kinds of documents, all modes, 4 worlds (retries of the failed stage only, or of earlier stages and complete files too; every fault but deletion of a busy file, or also without those of MySQL and Milvus), 2 restarts; 3.4 M states |
| `document` | two passes over the fields of a file (barrier, forgotten workers, shared cap, done passes); its text cut, embedded and searched; the evidence and the attempts of one field | three parts without shared state in one module, each with its own initial states: every choice of stage and debug passes, 2 basic and 1 advanced field, 2 and 3 places; some 3,000 small documents; 122 field configurations; 527 k states |
| `analysis` | do task, log, rows and events of a call agree, is the stage's contract kept, does every call end; of the limiter under their pools: are the counters exact, is no wake-up lost, is a free slot used, is it the pool of SlotPool | two parts without shared state: an asynchronous call beside one of each kind, 2 rules, one fault of any kind anywhere; 3 tasks, capacities 1 and 2, 2 pending wake-ups; 345 k states |
| `administration` | settings, logins and configuration | 2 administrators, one key, 4 saves; 3 addresses, 2 tracked, 4 ticks, 5 logins; 7 initial configurations, 4 steps each; 1.3 M states |
| `queued_restart`, `delete_busy`, `retry_complete`, `field_cap`, `hybrid_copy`, `lost_pages`, `negative_start` | seven statements of the documentation that the code does not keep (section 5) | the smallest instance that shows each |

**Bounds.** Two runs and capacity 1 give every relation two runs can have: both
on the file, one waiting for the other, one overtaking the other, one
succeeding the other; a third run adds no new pair. In `pipeline_overlap` a retry may
come while the first run holds the only slot, so that runs find the gate taken, are marked as
queued, ask and wait, which is what `GateBalanced` and `Drains` are about. One file suffices where the
property speaks about a file, since runs on different files meet only in the
gate, which does not look at them. Two restarts allow a restart during the recovery
of another. Every stage occurs in every run; the documents differ in the
artifacts for which the code has a case. The limiter needs three tasks: a
holder, a waiter and a newcomer. For the extraction, two basic fields make one
result wait for another and leave a worker behind when its pass fails, and four
workers compete for two, then three places; `field_cap` needs a third pass, which
comes after one has left and while one is at work.

For the analysis, the second call decides which of the four kinds meets the
first; one fault per behaviour is enough for every pair of a statement that
fails and the handler that follows, and two faults were tried once (2 M states,
no error). Three login addresses are one more than the table holds. The
documents are all texts of up to five cells over three letters, with tables up
to three, one that is split at four separators in turn, and the layouts with repeated blocks that the anchors are made for.

**Symmetry.** `RunSymmetry` permutes the runs, `ActorSymmetry` the editors and
the addresses; they are used only where no liveness property is checked
(`pipeline_overlap`, which checks `Drains`, has none).

**Deadlock.** The pipeline runs switch the check off: there are finitely many
files and runs, and once all are used up and no run is left the model stops,
which stands for a server without requests; so does `administration`, where the bounds on
saves, logins and steps run out. `lost_pages` and `negative_start` stop
at their violation. `document` and `analysis` keep it on; a state with nothing left to do
(`Quiet`) has a step of its own there, so any other stop is an error.

**Fairness.** `LimiterFairSpec` has weak fairness of `Wake` and of `Rerun`:
the event loop runs every task that is ready. Holders need not finish.
`FilePipeline!FairSpec` has weak fairness of each run's own steps: whatever a
run awaits has a timeout in the configuration (MinerU, LLM, embedding, MySQL), so
it comes back, as a success or as a failure. `FieldExtraction!FairSpec` has the same for
each worker, for the consumer of a pass and for the hook that closes generators,
and `RuleAnalysis!FairSpec` for each call and for the steps of start-up.
Requests, cancellations, closed streams, deletions and restarts are never forced. `Drains` is stated for the
time after requests stop coming: a limiter that lets newcomers overtake starves a waiter under endless
load, and the code does not claim otherwise.

## 4. Proofs

TLAPS checks these for all values of the constants that satisfy the ASSUMEs:

* of the runs and calls: finitely many tasks, runs, passes, fields and calls;
  disjoint groups of fields; positive capacities; at least one file; documents that
  have a text and no vectors without chunks; requests that name rules of the type;
* of the administration: finitely many identifiers, positive limits of the login,
  "no parent" is not a type, fields that are saved as ordinary ones have no
  references (`ContentsSound`, the editor's form), and initial configurations whose
  rows are well formed and refer only to what exists (`StartSound`);
* of a document: hits of positive length (`LengthsPositive`: the searches return no
  empty text), limits that are natural numbers, field configurations such as the
  editor accepts (`ConfigsOK`), calls that are numbered one after the other,
  positive sizes of batches and pools, separators that are kinds of cells, a positive
  `SUBCHUNK_SIZE`, and documents that are sequences of cells, cut by a positive size
  and any overlap, with a layout as MinerU returns it, tables that end one behind the
  other, and queries with limits that are natural numbers (`DocumentsTyped`).

| Theorem | Module |
|---|---|
| `LimiterTypes`, `LimiterCountersExact`, `LimiterNoLostWakeup` | LimiterProofs |
| `LimiterImplementsPool`: `Spec => Pool!PoolSpec` | LimiterProofs |
| `ExtractionTypeOK`, `ExtractionBarrier`, `ExtractionNoStragglers`, `ExtractionSharedCap` | DocumentProofs |
| `ExtractionImplementsContract`: `Spec => PassContract` | DocumentProofs |
| `PipelineTypeOK` | FilePipelineProofs |
| `PipelineGateBalanced`, `PipelineProcessingHasRun` | FilePipelineProofs |
| `DeletedIsGone`, `StagesFindCleanSlate` (in `Polite` worlds) | FilePipelineProofs |
| `CompleteFilesAreWhole`, `CompleteFilesAreReadable`, `FailuresAreRetryable` (in `Careful` worlds) | FilePipelineProofs |
| `CallTypes`, `DoneTasksAreStored`, `LogsAreTrue`, `EndedCallsAreSettled`, `EventsComeInOrder` | RuleAnalysisProofs |
| `StageImplementsContract`: `Spec => StageKeepsContract` | RuleAnalysisProofs |
| `SettingsTypes`, `NoSaveIsBlind`, `WithdrawnKeysRefused`, `FileInForce` | AdministrationProofs |
| `LoginTyped`, `LockedOut`, `SessionsLast` | AdministrationProofs |
| `ConfigTyped`, `ReferencesHold`, `ClosureExact`, `ProbeSees` | AdministrationProofs |
| `AdminTypes`, of the three composed | AdministrationProofs |
| `EvidenceRetriesHonest`, `FallbackTakesFirst`, `EvidenceHolds`, `EvidenceTyped` | DocumentProofs |
| `VectorsBelong`, `EmbeddingTyped` | DocumentProofs |
| `CellsSurvive`, `SizesAreKept`, `SpansStayWithin`, `IndexVectors` | IndexingProofs |
| `DocTypes`, of fields, index and evidence composed | IndexingProofs |
| `KeywordsAreKept`, `ParentsAreBest` | SearchProofs |
| `SpansNamePages`, `BlocksKeepPages`, `RangesAreExact` | PageProofs |
| `DocumentFound`: `IndexSpec => []DocumentSearchable` | PageProofs |

*Limiter.* `LimiterTypeOK` alone is not inductive: that `queued - 1` stays a natural
number needs the counter to be the number of waiters. The invariant is
`Counting`, `LimiterTypeOK` with `CountersExact`; each step moves one task from one
place to another, and the lemmas `Move`, `Absent` and `OnePlace` say what that
does to the sets and their cardinalities. `NoLostWakeup` follows with it: a step
that frees a slot schedules a wake-up in the same step. For the refinement each
action is mapped to an action of the pool, `Wake` and a `Rerun` in vain to a
stutter.

*Extraction.* The invariant is a predicate of one pass, `PassInv`: where the pass
stands says what became of either group (`InOrder`), workers of an ended pass
are about to be cancelled (`Tidy`), delivered basic fields are known and stored
(`Recorded`), and with these the barrier is inductive. Steps of one pass only add
rows for the others (`OtherPass`), so each step is checked against its own pass.
`SharedCap` needs `OnePool`: as long as no pass has left, whoever is at work
uses the pool in the registry, so the test for a free place in that pool speaks
about all workers of the file. The condition cannot be dropped: `field_cap`. For the
refinement each step gives one result, opens or ends a pass, or is a stutter.

*Gate.* Every step of a run does one of four things to the gate, and one lemma
each says that `GateBalanced` survives: `KeepsPlace`, `TakesSlot`, `QueuesUp`,
`GivesUp`. The step lemma sorts the actions.

*Files in process.* `ProcessingHasRun` is not inductive: after `CleanUp` it must
hold for a service that has no run. `Restart` adds that no run exists while the
process is not up and that `Recover` left no file in process. `RunKeeps` is the
heart: a run may only settle the status of its file, or go on owing it, or have
owed nothing; that is what keeps the other runs' files out of the argument.

*What is stored.* These theorems are about the clients of a world: `Polite` ones wait
for the run on a file to end before they ask for another or delete the file, `Careful`
ones moreover retry only the stage that failed. Without the first `delete_busy`
violates `DeletedLeavesNothing`; without the second `retry_complete` violates
`CompleteIsReadable`. Everything may fail, be cancelled, closed or cut short by a
restart. The argument has three layers, each inductive relative to those before.
`Alone`: a file has one run at a time, and a file with a run has a row; with it
a step of a run (`Local`) leaves every other run and file out of the argument,
and a deleted file stays as the deletion left it (`Gone`). `Vacancy`: what a run
is yet to store is not there, because a parse starts from nothing, a retry
deletes everything ahead of its stage, and a stage stores only its own product.
`Agreement`: the status, the place of the run and the store tell the same.
`Track` says which statuses are possible at each place, `Kept` what each status
says about the store (a stage, under way or failed: all stages before it are
complete), `Built` the same of each place. `Kept` of a failed status is what
makes a retry sound: the stages it does not redo are whole. `Garbage` lies within
`Ahead` of the stage that failed (`AheadFits`), so the clean-up at start-up
keeps it. `FailuresAreRetryable` reads `Kept` of the failed statuses.

*Analysis calls.* None of the four properties is inductive: what the task row may
say depends on how far the call has come. `CallInv` says it of one call:
`Placed` (a call of a kind is only at the places of its kind), `Fresh` (nothing
has a result before the rules are loaded), `OwnStores` (who has a task and a log),
`TaskDone`, `LogDoneRight` and `NotInFlight` (the three properties, place by
place). A step of a call touches only its own rows (`OnlyOf`), so the others keep
their part by the lemma `Frame`; `Crash` and the recoveries move all calls and
are proved for each. `Storing` adds that a stage that stores a result has one
left to tell, without which `Turn` would be a choice from nothing. The proof
showed one step the first version of the model lacked: a call that is cancelled
a second time while its rules unwind still writes its log.

*Events.* `EventsInOrder` speaks about a sequence, and is proved from what may
still be said. `HeardInv`, on top of `CallInv`, has five parts: nothing is told
before the greeting and no rule before the rules are loaded (`Greeted`); nothing
is told twice, and an end only in a call that is at its end (`Shape`); only
planned rules are worked on (`Worked`); a rule that is told is over, and all are
told where an end may follow (`Reported`); in a stage, the rules left come after
those told (`InTurn`). A step either tells nothing (`HeardSilence`) or one event that is
the greeting, a rule that is left, or an end (`HeardEvent`); each action is sorted
into these two.

*The stage's contract.* With both invariants every step gives one result, opens a
stage, ends some, or is a stutter. A restart ends all stages that are open in one
step, which is why `Abort` of the contract takes a set of passes; the run, with
one stage, could not tell.

*Settings.* The invariant joins the types, the lock (at most one page past
`idle`), what the holder of the lock may assume (its form is the document, or an
edit by hand is being lost) and where a withdrawn key may still stand: in no
document that can come into force.

*Login.* `LockoutHolds` is about times that are stored nowhere: those of the failed
attempts of a client (`wrong`), within any `LOCK_SECONDS`. The table keeps
a count and the time of the last, and forgets a client when it is old or when the table is
full. `LockoutInv` relates the two: what is counted are the last of the attempts
(`Counted`), those no longer counted are `LOCK_SECONDS` older than the first that
is (`Aged`), who has used up the count is locked from the last on (`Exhausted`).
Then attempts `MAX_FAILURES` apart are `LOCK_SECONDS` apart (`Spaced`), and no
window holds more (`WindowHolds`). The table forgets soundly because `Attended`
shows that only clients whose failures are all old are removed. `SessionsStand`
follows from `TokenInv`: tokens grow, so what is evicted at the cap is the session
with the smallest, and no two browsers hold the same.

*Configuration.* `ReferencesSound` is inductive once the request between its check
and its commit is covered: `DraftChecked` says that what was checked still holds
unless someone else committed in between, which marks the draft stale, and a
stale commit is one of the gaps. A save, a deletion, a deletion of types, a copy and
an import each have a lemma; the last two follow a reference through the mapping of
identifiers back to its source (`BackToSource`). `ProbeSeesChanges` needs
`PageHolds`: rows older than a page are on it unchanged. If the version (latest
stamps and numbers of rows) is the same, all rows are older, and equally many,
hence the same. `ClosureIsDescendants` is about a fixed-point loop written as
a recursive function: what holds of its rounds is shown at the least round where it
fails, and the loop reaches its end because each round that is not the last finds a new
type (`ClosureReaches`). `AdminTypes` composes the three modules, whose steps leave
each other's variables alone.

*Evidence.* `RetriesHonest` needs that every attempt before the last ended empty
and unbroken, and that a channel ran at most once per attempt (`inner` stays 0,
because channels have no budget of their own). `FirstTaken` follows the
channels: once one is adopted, the rest is skipped. For the union, the
evidence is cut and joined by two folds over the hits of a reply. A fold of the
community modules is unfolded to its values on prefixes (`PrefixesOf`), and what holds
of each prefix is shown by the least one: each piece is part of its hit (`Piece`), a
piece taken whole is remembered and not taken again (`Once`, `Remembered`), and the
room that is left never goes below the separator that the last piece did not need
(`RoomLeft`). `SheetsKept` follows from `Truthful`: the sheets of the vision model
cover the pages it was given and no others, and what it looks at closely was on one.

*Vectors.* `VectorsMatch` is proved from the slots of a call. `CallOK` says of
each batch that its slot holds an initial part of the vectors of its own
texts, empty until an answer came. The batches adjoin, so the slots joined in
order have as many vectors as there are texts only if every slot is full
(`AnswersWhole`), and then the joined sequence is the texts. The code checks just this
number before it inserts. `RowsOK` and `StageOK` carry it to the rows;
`PoolsOK` counts the requests in flight against both pools.

*Passages.* `NothingLost`, `SizesKept` and `SpansHold` follow from one statement about
a text and the chunks it is cut into (`Cuts`): the chunks end one behind the other, each
starts at most an overlap before the text, is no longer than it may be, and its last cell
is the last of its span; no cell but a separator is in none of them. The statement is shown for windows
(`UnseparatedCuts`), for the loop that joins parts (`GatherCuts`, whose invariant is
`InLoop`), for the overlap that is put before a chunk (`OverlappedCuts`), and so, from the finest
separator up, for the whole splitter (`SplitterCuts`); each level adds one overlap
and one separator to the length (`Longest`). The bound on the negative start
of section 5 is part of it. Around the splitter, `TablesInOrder` says that the
tables found are disjoint and in order, so that the prose between them and the tables
make up the document (`ChunksCut`). `IndexInv` carries this through the runs: the chunks are those
of the document as it was cut last, and the texts of the last call are their subchunks.

*Searches.* What a search returns is described by where each hit comes from. Sorting
rearranges places (`Rearranged`, `Permutes`: where an element stands is how many stand
before it, `RanksOnto`), cutting keeps some of them, the round robin takes from each
group its first, second, third hit (`RoundTaken`), and no step has a place twice
(`Taken`, `Reshaped`). So a hit is one of its keyword's group, windows of one keyword
stay as far apart as `Merged` put them (`MergedSpread`), and each group has a hit as long
as the limits leave room for one of each (`RankedTaken`). For the search by vectors,
`Topmost` says that no element that is left out is better than one that is there;
sorting makes it true, and the floor, the ratio and the limit keep it.

*Pages.* A mapping is right if neither position nor page decreases along it
(`Mapped`). `Kept` makes it so whatever was found (`KeptRow`): the links it follows
back never lead to a higher page, and where no page is lower than one before it, it
keeps all. What `Windowed` adds lies between two anchors that stand next to each
other, of blocks whose pages bound those of the blocks between them (`WindowFits`,
`Gapped`), so the completed anchors still ascend (`CompletedRises`) and the second
`Kept` drops none: `AnchorsStay`. Looking up a position finds the last anchor at or
before it (`AnchorAtHas`); from this and the order follow the labels (`SpansAgree`), the
slices, which are disjoint and cover what has a page (`SlicesApart`), and the pieces of
a projection. `AnchorsExact` assumes that blocks are found in order and that a table
that is paired ends between what precedes and what follows it. Then all anchors of the first round
go forward together (`ExactOnward`), `Kept` keeps all, every block has its anchor, and
nothing is left to add (`EachHeld`).

Only model-checked: `ReadableUntilRestart` for clients that retry earlier stages or complete files. Liveness (`FreeSlotIsUsed`, `Drains`, `PassEnds`, `CallsEnd`),
which is beyond the prover, as is ENABLED.

## 5. Where the code and its documentation disagree

* **queued_restart.** A file found queued at start-up is set to
  `parsing_failed` "so that the user can retry it explicitly"; the retry
  endpoint does not accept parsing. When the queued run was the retry of a
  finished file, the garbage clean-up that follows deletes its content too.
* **delete_busy.** "Deletes the file and all data associated with it": a run
  that is at work goes on and stores rows and vectors for a file that no longer
  exists, and no clean-up looks for them.
* **retry_complete.** A retry deletes the old results in a commit of its own
  before the status changes; a restart between the two leaves a file shown as
  complete without results.
* **field_cap.** Field extraction is said to be limited per file and globally.
  Passes that overlap on a file find each other's pool by name, and the first to
  end removes the name: the next pass makes a second pool beside the one in use.
* **hybrid_copy.** Copying a field "remaps all placeholders" and reports
  references that are not copied along; the channels nested in a hybrid search
  are neither rewritten nor reported.
* **lost_pages.** `run_from_stage` reads chunks back with five columns
  (pipeline_service.py:1352, streaming twin 931), without `start_pos`, `end_pos`
  and `page_num`; `split_into_subchunks` documents that children inherit them and
  then stores 0, 0 and "". After any retry that reaches embedding, `POST /search`
  answers without pages. Extraction is not affected: it maps hits to the chunks in
  MySQL.
* **negative_start.** `split_text_with_positions` promises absolute positions in the
  document (chunk_service.py:131). An overlap that is taken from a chunk with overlaps
  counts more cells than it covers, and the start of the next chunk is moved too far
  (line 203): with the default sizes and four levels of separators, `start_pos` can be
  negative. The document of the run (`Nested`) is such a text in small.

The following were seen while modelling and have no run of their own; the models
follow the code.

* *Status.* The diagram of docs/reference/enums.md (98-108) has no step out of
  `complete`, which the retry endpoint accepts like any other status, and blames every failure on the stage that is shown. The
  code commits `complete` twice (analysis_service.py:791, then its caller), so that a
  failure or cancellation in between makes a complete file `analyzing_failed`; and it
  advances `current_stage` before the commit that shows the stage
  (pipeline_service.py:497), so that a failure there is blamed on the stage that has
  not begun. `FailedHasInputs` says what holds instead: whichever stage is blamed, its
  retry has its inputs.
* *Positions.* `lookup_page_num` takes `end_pos` as inclusive, `split_span_by_pages`
  as exclusive; a nested split adds its overlap at each level, so a chunk may exceed
  its size by several overlaps; the name of an oversized table shifts the positions
  of its parts. The properties of `Indexing` carry these slacks.
* *Embeddings.* `get_embeddings` ignores the `index` the service returns, and
  `submit_to_milvus` returns silently when no vector came back at all.
* *Analysis calls.* A log stays in flight until a restart after a failed
  `create_task`, a failure before tracking, or a cancellation at `track`; a task
  that was cancelled keeps `analyzing`, which docs/api/analysis.md:538 explains as "being
  executed"; a `create_task` whose commit takes effect and raises leaves a `queued` row
  behind a request answered with 500 (`Settled` lists these). `task_failed` may be
  sent although the row says `complete`, when the final write took effect and
  raised. Results may be committed although the call fails.
* *Evidence.* A fallback that reaches the vision model adopts it even without a
  value, so that later channels are skipped and the field fails. Locate sheets
  that all failed count as "no page found". A range of pages returns tables that cross its
  ends whole, with text of pages outside it (page_mapping.py:305-317, as its docstring says).
* *Settings.* A save of the access control reads and puts in force the whole document, but only a
  save of the settings replaces the capacities of the pools: a capacity changed by hand in
  the file is then in the live configuration while the pools keep the old one, until the
  next save of the settings or restart. `LiveFollowsDisk` exempts this gap (`lagging`).
* *Configuration.* Renaming a type leaves its parameters behind; saving a field or
  a rule does not check that the type exists; two overlapping saves, or an ordinary
  field made advanced, can leave a field that refers to itself or to an advanced
  one; deleting a type leaves its children with a parent that is gone; the version
  probe misses an edit within the second of the last. `ReferencesSound` and
  `ProbeSeesChanges` name these as their exceptions.
* *Login.* The fingerprint of the credentials is taken after the password was
  checked: credentials replaced in between give the session the new fingerprint.

## 6. Not modelled

PROJECT.json lists every component with what its modules leave out. In short:

* *Text heuristics and model answers*: normalisation before matching, probes cut
  from blocks, prompts, the parsing of JSON answers, the evaluation of formulas and
  judgements. A block is found at a set of positions, an answer is a value or none,
  a rule succeeds or fails.
* *Retention*: PDFs deleted by age and volume, whatever their file's progress; it
  meets the rest only through a PDF that is missing, which is a reply in
  `FieldEvidence`.
* *The log rows of file runs*, derived from `files.progress`, and the deletion of
  old rows.
* *Composition of the pools of all stages at once*: each module has the pools its
  own workers nest (`FieldExtraction`, `RuleAnalysis`, `Embedding`), and each shows
  that its workers end; pools are only ever taken in the order file or kind, global,
  model, so that no circle can close between modules.
* *Callbacks, monitoring, API documentation, the browser client and scripts*:
  presentation or fire-and-forget, without state that others read.
