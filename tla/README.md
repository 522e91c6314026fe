# AntiSentinel in TLA+

Specifications of AntiSentinel: the runner of approved plans, the runtime loop of a diagnosis
session, the service that starts sessions and streams their events, the code map with its queue, its
clone, its parser's cutting and resolution and its queries, the pipeline that turns an operator's
message into an effect, the projections of code into a full-text and a vector index and the searches
on them, memory, the context of a model call, skills, and the records that are kept. Each component
has modules that are translated from the Python source and a small instance that TLC checks; where a
promise to its readers can be told apart from the way it is kept, there is an abstract specification
that the detailed one implements. The eight components whose processes race with each other, and
most of the smaller machines, have proofs that TLAPS checks for all values of their parameters.

Paths below are relative to `src/antisentinel/` unless they begin with `docs/`, `scripts/` or `tests/`.

1. [The system](#1-the-system)
2. [The modules and the code](#2-the-modules-and-the-code)
3. [What the runs check](#3-what-the-runs-check)
4. [Fairness](#4-fairness)
5. [What is proved](#5-what-is-proved)
6. [Where code and documents disagree](#6-where-code-and-documents-disagree)
7. [What is not modelled](#7-what-is-not-modelled)
8. [Plan](#8-plan)

## 1. The system

AntiSentinel diagnoses incidents. An operator, or an alert, opens a diagnosis session for an
incident; a model works on it in turns, in which it may call tools that read logs, metrics, code
and memory. Follow-up messages become *intents*: a question is answered from what is there, a
request for new evidence becomes a *plan* (a graph of tool calls), and "stop" becomes a cancel
of a running task. Code is indexed in the background: a daemon watches repositories, builds
snapshots of their commits, publishes them as retrieval projections and embeds them. It is one
Python process with threads over a handful of SQLite files, with Redis and Qdrant beside it.
Every durable step is an SQLite transaction, and every component can be killed between two.

| component | state it keeps | operations | talks to |
|---|---|---|---|
| **Plan execution** `orchestration/` | one snapshot per run in `plan_runs`, a `flock` per run; a thread pool and its futures in memory | `PlanRuntime.run`, the loop of `DAGScheduler`, the saves of `SQLitePlanStore` | tools through `ToolExecutor`; called by the intent routes; asks a callback whether it is cancelled |
| **Model runtime loop** `worker/runtime/` | session, turns, tasks and tool calls in memory, a snapshot in the checkpoint store | `RuntimeEngine.run` (new or resumed), the turns of `RuntimeLoop.run` | model gateway, tools; run in a thread of the session service |
| **Context of a call** `worker/runtime/pack.py`, `source_pins.py` | source pins and recent turns, with references to them in the checkpoint | assemble, degrade, refill; pin, age, fold a turn | the loop |
| **Code map** `code_map/` | repositories, scan jobs, a worker slot, snapshots, generations, bindings, all in one SQLite file; a bare clone per repository | scheduler: claim / sync / complete a check; worker: claim / build / publish / fail a job; administrator: pause, resume, build, retry; diagnosis: bind, query | git, the parsers; publication feeds retrieval |
| **Intent pipeline** `control/`, `entry/live_intents.py`, `persistence/intent_store.py` | heads, revisions, messages, outbox and receipts in the intent store; deliveries, plans and executions in the routes' store | submit a message, merge, validate, resolve or ask, commit, dispatch, accept, save a receipt, execute a plan | plan execution; the session's cancel flag |
| **Retrieval** `retrieval/` | manifests, documents and a pointer per scope; runs and leased tasks, a vector cache, points in the index; a coordinator thread | begin, write, publish; claim, embed, cache, upsert, complete, fail, unblock, reconcile; search, expand, read evidence | the embedder, Qdrant, code map, tools |
| **Diagnosis sessions and events** `entry/application.py`, `runtime/events.py` | active and finished runs, cancel flags, result per session, event buffers | start, cancel, control status, stream | runs the loop, feeds the API |
| **Memory** `memory/` | a sorted set and hashes in Redis; records, a timeline and projections in SQLite; preferences in three copies | enqueue, claim with a lease, acknowledge, retry, fail; record a session; recall, fuse, project, embed | recorder of session results, the loop |
| **Skills and tools** `capabilities/`, `tools/` | releases on disk with an index, the state of a session's skills, registered tools | build a release, load, read a reference, checkpoint, validate arguments | the application, the loop |
| **Model adapters** `adapters/llm/` | none between calls | post a request, read, repair | the provider |
| **Stores and entities** `persistence/`, `domain/` | tables, files, events of an entity | open and migrate, import, copy for audit; the lifecycles | everything |
| conversation, policy, tracing, evaluation, front end | files, values | input and output | |

**What is hard.** Several processes work on the same rows, each under a lease that may lapse
while its holder is only slow (code map, embedding, memory jobs). Work goes through pairs of
databases that no transaction spans (intents and routes; embedding tasks and the index; a
plan's snapshot and the effects of its tools; a record and its copy). Every process may die
between two steps and is started again, and what it did last may be unknown (was the write done?).
Cancel requests arrive from other threads and are polled at a few places. Messages and requests
are repeated, at once or much later. Limits of tokens, bytes, lines and characters meet in one
function. `PROJECT.json` lists these hazards at the lines where they bite, with the properties that
would show them going wrong.

**What makes each component correct.**

* Plan execution: a write tool is called at most once, whatever dies; nothing is called that the
  stored run does not know of; dependencies come first; one execution at a time; a cancel request
  closes the run and lets at most one more node start.
* Runtime loop: the calls on record and the keys of completed invocations are the same; what a
  checkpoint knows to have succeeded is never done again; at most one tool runs after a cancel
  request; every way out of the loop leaves session, turn, tasks and calls in agreement; it ends.
* Context: a request that is sent fits the window, or is one whose source was put back; its tools,
  turns and slices keep their floors and limits; pins survive a resumption as references.
* Code map: one build at a time; a job's status tells the truth about its snapshot; a complete
  snapshot never changes; a commit that was observed has a job; what a diagnosis is bound to stays
  readable; pieces of a symbol tile it; a name that is resolved is the one that is meant; jobs
  settle and heads get observed.
* Intents: only the latest revision of an intent takes effect, and once; receipts only
  advance; a cancelled plan stays cancelled; a prohibition stays through corrections; questions end.
* Retrieval: a lease protects its task; the index holds what the cache holds; a ready run is
  complete; the pointer of a scope names a whole projection; a search returns verified rows only
  and says when it is degraded; what it found can be read under the same bindings.
* Sessions: one run per incident; what a client was told is never taken back; streams end.
* Memory: an acknowledged job is stored, no job is forgotten, no two live leases on one; preferences
  agree in their three copies or say that they are stale; only trusted memories are recalled.
* Records: the events of an entity tell its status; a database is at a whole version; an
  import accounts for every item; the copy for audit agrees with the store or is known not to.

## 2. The modules and the code

`PROJECT.json` maps every definition to the lines it stands for. The notes here say how state and
steps correspond. A step is as large as the code lets nobody interleave: one SQLite transaction,
one poll, one call of a tool.

Some operators are preceded by a second one marked *Mutant*: it is a faulty variant, used by no
action, which `PROJECT.json` pairs with the property that catches it when it takes the place of
the real one. They record what each property is sensitive to.

### Plan execution: `PlanDag`, `PlanLedger`, `PlanExecution`

`PlanDag` holds what is common: the graph (`Node`, `Deps`), which tools only read, which need an
approval, `MaxAttempts`, node records and the set of nodes that are ready or blocked.

`PlanLedger` is the abstract specification: the stored run alone, with no runner, thread or lock.
It says which transitions a reader of `plan_runs` may ever see; a run in a terminal status never
changes, a node starts only after its dependencies succeeded and within its budget, only a read
is ever retried, an interrupted write becomes `uncertain`.

`PlanExecution` is the code. `run` and `node` are the row of `plan_runs`; `lock` is the flock;
`mem`, `cancelled`, `current`, `batch`, `fut` are locals of one call of `PlanRuntime.run` and of
`DAGScheduler.run`, for each runner; `pc` is where it is. Every save of the store is one step
that writes `mem` and the row together. `BeginTool` and `EndTool` are the pool's threads: a
future is queued, executing, then has an outcome, which the scheduler collects with `wait()` in
batches. `Abort` is any exception between two steps (`with pool` joins the threads before the
lock goes), `Crash` the death of the process. `cancelRequested` may rise at any time; it is
monotone, as for a request of the operator (`live_intent_routes.cancelled` may also answer yes
because an authorization was withdrawn, and then no again; that flip is left out). `effects`
and `lateStarts` are history variables. Abstracted: the hashes that bind a run to its plan,
scope and catalog (a run is resumed only with the ones it was created with), arguments, results
and the event rows, which are written with each save and never read back.

### Runtime loop: `RuntimeLoop`

One session. `pc` is the place in `RuntimeLoop.run`; `plan` and `todo` are what is left of the
model's reply, `tasks` and `calls` what the session has, `done` the keys of
`completed_invocations`, `called`, `fresh` and `duplicateOnly` the flags by which a loop of
duplicate replies is broken. `saved` is the checkpoint, which is written at one place only, at
the end of a turn (`EndTurn`). `Crash` keeps `saved` and nothing else; `Resume` is
`RuntimeEngine.run(resume=True)` after a death, or after a failure that left a checkpoint; a
resumption without a checkpoint starts afresh. The model's reply is any element of `Plan`, a final
answer, or a failure. A tool that ran (`ToolSucceeds`) and the recording of its success are two
steps, so that the process can die between them.

The shipped callers never use a cancel flag and a checkpoint in the same run: `WorkerHandler`
passes no cancel callback, and the application no checkpoint store. The engine accepts both, and
the module has both. `Denied` stands for the tools that a turn does not disclose and the
arguments that are refused; it is fixed here, while the visible set may change per turn, with the
same effect on a call. `Reading` and `Evidence` are the calls whose success pins sources and those of
`read_evidence`, which leaves pinned ones out: once something was read, such a call may be answered
with its pins (`ReusePins`, a call that is "reused") or rejected for lack of room, before the loop
asks whether it has completed; which sources are pinned is left open. Two exceptions leave the loop
(`pc` is "raised"): what `memory_context_provider` raises (`ContextRaises`), and the refusal of a
failed task to wait for an approval (`ApprovalRaises`). Left out: what the context contains (working
set, token budget, skills), events, metrics, and the attempts, which repeat what the status of the
calls says; and the exceptions of a sink of events, of a checkpoint store, of a candidate whose range
has no hash, and of evidence that does not match its slice (`loop.py:675`; the tool makes both in one
call), of which all but the second leave a call running behind them.

### Code map queue: `SnapshotCatalog`, `CodeMap`

`SnapshotCatalog` is the promise to readers: per build input, a history of generations that only
grows and stops at the first complete one. `CodeMap` is `SQLiteCodeMapStore` with the processes
around it. Time is what the comparisons with `now` tell: a lease is live or lapsed, a check is
due or not. A heartbeat only moves the expiry of a live lease, so it is the absence of
`LapseJob`. `ClaimCheck`, `Sync`, `CompleteCheck` are one tick of the scheduler; `ClaimJob`,
`Build`, `Publish`, `FailJob` one round of a worker; `Pause`, `Resume`, `SubmitBuild`, `RetryJob`
the administrator's commands. `bind_incident` reads the snapshot before it opens its transaction
and is two steps (`ReadForBinding`, `WriteBinding`). A token is a fresh element of `Token`, which
stands for `uuid4`; the assumption asks for enough of them. Left out: the rows of a snapshot, the
second registration of a repository with other rules, interval arithmetic.

### Code map contents: `GitCache`, `SnapshotBuild`, `SourceChunks`, `CodeMapQuery`

* `GitCache` is the bare clone: the lock file, `init`, `fetch`, `rev-parse`, `pin` as steps of
  processes that die or whose git fails, against pushes and pruning. `synced` is history: every
  commit that was ever returned by a sync.
* `SnapshotBuild` is a function from a lease and a tree to the rows that are staged: which entries
  are read, which languages a revision takes, what the cache of file facts gives, the relation
  resolver that is chosen, the budget of files and bytes. `BuildIsSound` says that a build after an
  earlier one, with its cache, gives what a build without it gives. What its calls mean is resolved
  here too: the tables of bindings, the lookup through scopes, the module a relative import names,
  and the edges, against a reference, `IsMeant`, that is stated from what the language does.
* `SourceChunks` cuts a symbol into chunks by lines and bytes (`_chunks_for`), reads an archived
  chunk back as text, and cuts that again into search documents. A source is a sequence of bytes,
  of which only "begins a character", "continues one" and "ends a line" can be told apart.
* `CodeMapQuery` is symbols by name, neighbours by breadth-first search with a budget, and the
  source of a chunk, each refused outside the allowed repositories. A chunk is "whole" when its bytes
  are whole characters, which `WholeText` of `SourceChunks` says of a piece; one that is not cannot be
  decoded, and `read_source` raises.

### Intents: `IntentHandoff`, `IntentDelivery`, `IntentResolution`

`IntentHandoff` is the promise: an intent is a sequence of revisions, only the latest may take
effect, and at most once. `IntentDelivery` has the two databases (`head`, `request`,
`message`, `context`, `outbox`, `receipt` / `delivery`, `plan`, `execution`), the session's
runtime as a task (`run`), and the threads that serve requests (`caller`). A request is
`Prepare`, `Resolve` (with `Commit` of the revision), `Dispatch` (the fresh checks), `Lookup`,
`Accept`, `SaveReceipt`, and for a question `NeedEvidence`, `Reroute`, `KeepContext`. Any message
may be sent again at any time (`Prepare` of a known message). `FailRequest` ends a request
anywhere, `Restart` ends all of them and forgets the session's runtime. Words are abstracted to
the route that a candidate resolves to. Left out: the query operation of a control (it changes
nothing), authorization, and the step that stops a write before a read-only correction (the live
context never names an active write task).

`IntentResolution` is where those routes come from: the latest revision of one intent and what a
message with a candidate makes of it. `Merge` inherits constraints, entities and targets,
`Validated` checks the candidate's claims against the message and the known fields, before the
merge and after it, `Resolved` decides between dispatch, question and refusal, `Keep` stores the
question with its rounds and its expiry (`Elapse`). It is instantiated three times, each with the
alphabet its properties tell apart: prohibitions with an alias, controls of two tasks, and questions.
The text patterns that find prohibitions and task ids, objective, reason and confidence are left
out; a claim that cannot be quoted from the message is refused and changes nothing.

### Embedding and vectors: `EmbeddingProjection`, `VectorSearch`

`task[t]` is a row of the task table; the claim token is its attempt number, and a vector is
named by the attempt that embedded it, so that two workers' vectors differ. `point` is the index.
`Claim` sweeps lapsed leases in the same transaction, as the code does; `Embed`, `CacheVector`,
`Upsert`, `Complete` and `Fail` follow the worker; `Reconcile`, `Inspect`, `Publish` and
`SetRunState` are the end of its round: the index is read outside any transaction, and what was
read is passed to `Publish`. `Lose` is a point that disappears from the index, `Supersede` the
publication of another revision, `Unblock` the operator. Left out: enqueueing the same run again
(it changes nothing) and the checks of text and vectors, which end in the blocking failure that is
there.

`VectorSearch` extends it by what meets it: the enqueue that begins the run, the publisher without
leases that writes the same projection (`EmbeddingTaskStore`, used by diagnostics), and a search
that reads the status, asks the index and verifies the rows, at three times. The index may answer
with any of its points, and with a *strange* row, one that was not written for this projection: it
stands for the comparisons of document, digest and payload fields in `verify_vector_rows`.

### Publication and coordinator: `RetrievalCoordinator`

The tables are the manifest, the documents and the pointer of each scope; `Begin`, `Write` and
`Publish` are one transaction each, and a manifest remembers the pointer it began over. Two publishers
take these steps: the coordinator's thread (choose a scope, resolve, read, begin, write, publish,
enqueue, work) and another one on the same tables. Around the thread are `start`, `stop` with its
bounded wait, queries that take turns with it under one lock with a deadline, and a crash. The
full-text rows are written with the documents and go unmentioned.

### Code search: `CodeSearch`

The functions of a search: rank fusion over exact fractions (`Combine` against a reference that
counts), the selection after an expansion, the modes with what they answer when a channel is
absent or down, the tool around it (`SearchTool`: the encoder's outcomes and the deadline), the
summary the model is given, the assembly of evidence within a budget, the expansion of the graph,
and the bindings of an incident: `Bind`, `ScopeOf`, `BoundIdentity` and `Rehydrated` say which
generation a search, a read and a later reading of evidence are of.

### Sessions and events: `DiagnosisSessions`

`DiagnosisApplicationService` and `RuntimeEventBus` in one module, since what is interesting lies
between them. `starter[s]` is a request inside `start_session` (`Admit`, `BuildFails`, `Register`,
`Launch`), `worker[s]` the thread of the session, at each of its saves and announcements;
`sessions`, `results`, `asked`, `finished` are the service's memory, `storedSession`, `storedResult`
the tables, `events`, `terminal`, `sequence` the bus; a buffer and a batch are sets, as the bus
numbers its events. `stream[r]` is a client with its cursor; it may leave, come back with its last
id, and stop reading at a keep-alive, which holds the bus's lock (`holders`; `lost` when another
thread closed such a stream). `inquiry[r]` is the same client asking for a status: the event of a
cancellation (`Ask`), the result (`ReadResult`) and `_finished_runs` (`Answer`, with the rest) are
read one after the other without a lock, and `overtaken` is history: the session was launched, or its
result kept, in between. Bounds: the sessions in `Watched` are asked for, and a client follows or
asks. The engine is one step per outcome. A restart keeps the tables only.
Left out: the wiring of `from_environment`, incidents and messages without a session.

### Memory: `MemoryJobs`, `PreferenceGraph`, `MemoryRecall`, `SessionTimeline`, `VectorProjection`

* `MemoryJobs`: the claim script of Redis is one step, and every other command is one of its own:
  the enqueue (hash, then set), the acknowledgement, the retry and the failure with their reads
  and writes in the order of the code; the candidates of a job that are `left` to write are a set, their
  order being free. `late` and `torn` are history: jobs whose lease lapsed under a
  worker, and jobs whose sequence of commands was broken off. `stop()` reads what it reads.
* `PreferenceGraph`: a preference in the store, the cache and the object; `todo` is what is left of
  an upsert. A refused write makes the copies `stale`.
* `MemoryRecall`: three ranked channels, each may be bypassed, and their fusion, with exact fractions
  for the sums; and one recall step by step: the rows are read (`ReadRows`), ranked (`Rank`, any order
  of any of them), the clock is read (`ReadClock`), and the gates of trust take the copies one by one
  (`Gate`), looking up evidence as it is by then. Rows are written, evidence arrives and time passes
  between any two of these; bound: `MaxLater` rows are written while a recall goes on, of `Later`.
* `SessionTimeline`: the tree of a session's events in any order of arrival (each hangs under the
  first node of the narrowest object of its own that the tree knew), the digest under a budget, and
  `record()` save by save, for three results of one incident, each stopping anywhere.
* `VectorProjection`: blocks of turns, batches, the model's projection and its repair, and the
  requests of the embedder with retries, deadline and the check of what came back.

### Context, model and skills: `ContextPack`, `SourcePins`, `ModelAdapter`, `SkillCatalog`, `SkillRuntime`

* `ContextPack` packs a turn's context: costs in tokens are given with the pieces, and a text's
  quotes say how much it grows when it is escaped, once in a channel's estimate and twice on the
  wire. `Degraded` lowers limits round by round, `Refilled` gives room back.
* `SourcePins` is the machine over turns: reads that are made or rejected, pins with their ageing,
  the fold of old turns into a digest, checkpoints with references and the resumption.
* `ModelAdapter`: roles and names on the wire, what of a reply is accepted, the one repair and its
  tokens, the errors, and the extraction of JSON for intents. A reply may lack its message, or have
  one that is no object; what that raises, and a content without a length beside native calls, is
  the error "raised", which is not the adapter's.
* `SkillCatalog`: manifests, assembly of the catalog, which skills a policy leaves available,
  inference and validation of tool arguments, and `build_local_package` step by step for two builders
  that may die, and whose writes, moves and removals may fail (`Fails`; `spoiled` is history: what has
  failed of the index and of a stage's removal). `SkillRuntime`: load, reference, checkpoint and
  resumption with a bounded cache over files that may change.

### Records: `DomainLifecycles`, `SQLiteStores`, `LegacyImport`

* `DomainLifecycles`: one entity of each class with its operations, the event of each move, and
  what comes back from the dictionary it was saved as.
* `SQLiteStores`: `SQLiteDatabase.initialize()` for two processes, the first script statement
  by statement, the migrations a transaction each, the tables refer to each other; and beside it the
  copy for audit: the primary's commit, the reading and the writing of the copy as three steps of
  threads that share no lock, with a death that leaves half a line.
* `LegacyImport`: record, save, ledger; death in between and the second import, while the
  application writes too.

## 3. What the runs check

Machines that share nothing are checked in one run when each is small: a behaviour begins with a
choice (`part` or `machine`) of what it is about, and the rest stands still. The properties of
such a run are conjunctions of named parts, one for each component in it. Functions have no
behaviour: all inputs of a set that the MC module names are quantified over inside the invariant, in
the one state that asks for them.

| run | model | states | checks |
|---|---|---|---|
| `plan_safety` | two reads joined by a write, a gated read; 2 callers, 2 threads, 2 attempts, 2 crashes or errors, cancel at any time. Beside it the code map's queue with 2 commits, 2 workers, 1 push, 1 command, 1 fault | 909 thousand | `TypeOK` `WriteAtMostOnce` `EffectsRecorded` `ExclusiveExecution` `DependenciesFirst` `LateStartBound`, `LedgerSpec` (refinement); `CodeMapProgresses` (liveness) |
| `runtime_loop` | up to 3 turns a run, 4 calls, 1 resumption; eight replies over two reads of sources, one of them of evidence, one call denied and one gated; exceptions. Beside it a plan of a read that feeds a write and a gated read, 2 callers, 1 crash | 797 thousand | `TypeOK` `OneSuccessPerInvocation` `CheckpointedCallsAreNotRepeated` `RepeatsNeedAResumption` `LateCallsAreBounded` `ResultAgrees` `CheckpointIsSettled`; `RunsSettle` (liveness of both) |
| `codemap_queue` | 1 repository, 2 commits, 1 scheduler, 2 workers, 1 diagnosis, 2 commands, 1 fault; 2 processes on one clone; a search beside 2 workers on 1 task, and beside 1 worker on 2; sources, name tables, trees and maps for the functions | 1.7 million | `CodeMapAgrees` `FactsAreSound` `SearchesAreVerified`, `CatalogSpec` (refinement) |
| `intent_safety` | 2 requests at a time, 2 messages, 1 intent, 3 revisions, 1 fault; chains of messages over two prohibitions and an alias, over two tasks and two services, over three rounds of questions | 1.9 million | `RequestsAgree` `ReceiptsAdvance` `CancelIsFinal`, `HandoffSpec` (refinement) |
| `embedding_run` | 2 workers, 2 tasks, 2 attempts; any number of crashes, lapses, losses and unblockings | 761 thousand | `ProjectionAgrees` `LeaseProtects` `RunSettles` |
| `memory` | 2 workers, 2 jobs, 1 fault; 2 preferences, 4 upserts; a recall that reads 2 of twelve kinds of rows over 3 moments, 1 row written meanwhile; eight events of a timeline; 3 results recorded beside each other; batches of an embedder; channels of 3 records; turns of up to 4 texts | 1.1 million | `JobsAreSound` `MemoriesAgree` `OverStaysOver` `JobsSettle` |
| `sessions` | 2 sessions of an incident, 1 client that follows either or asks for one, a buffer of 2 events, failures at every save, 1 restart | 1.7 million | `SessionsAgree` `ClientsAreNotMisled` `RunsAndStreamsEnd` |
| `foundations` | 2 scopes, 2 revisions, 1 query, stops, 1 crash and another publisher; pins over 4 turns and 1 resumption; skills over 5 operations; 2 builders whose steps may fail; entities of 6 events; 2 processes that migrate; an import of nine items with 2 deaths; 2 threads that copy; fifteen sets of inputs of functions | 708 thousand | `SearchesAreSound` `RequestsAreSound` `SourcesAndSkillsAgree` `RecordsAgree` `PublicationsAreOrderly` `ThreadsSettle` |
| `intent_replay`, `intent_evidence`, `embedding_blocked`, `chunk_cutting` | as above | | one statement of the documents each, which the code violates (section 6) |

**What the merged properties say.** `CodeMapAgrees`: one live build, job and snapshot agree, an
observed commit has a job, bindings are readable. `FactsAreSound`: pieces tile a symbol, resolved
names are meant, a cached build is the build, queries answer what is near, the clone keeps what was
synced. `RequestsAgree`: the outbox holds the latest revision only, and its message would deliver it
again, a completed cancel of the runtime has ended it, prohibitions stay, what is dispatched has its
required fields, a control is of the task its message names, questions end. `ProjectionAgrees`:
points hold the cached vector, a ready run is complete, the budget of attempts is exact.
`SessionsAgree`: one run per incident, a finished run is stored and told as one and the same, an
open session that nobody runs has one of three known causes, the two views of a session agree.
`ClientsAreNotMisled`: a final status stays, what a client was told as final is that status unless one
of two races was lost (section 6), and no stream leaves out an event that the bus holds.
`OneSuccessPerInvocation`: the calls and the completed keys agree, one call of a key succeeds by running
its tool, and only `read_evidence` is answered from pins. `ResultAgrees`: what a returned run says of
its session, turn, tasks and calls; and of one that raised, that its calls have ended and that its
session and turn have not. `MemoriesAgree` has of a recall that what is told was read as active, is of
the right operator, incident and session, was valid by the clock and rests on evidence that is there;
a memory that was superseded after the rows were read is told. `SourcesAndSkillsAgree` has of a
publication that the index names what is released, that while builds do not overlap and none dies no
build misses the release, and that an unreadable index, a second content or a stage in the way each
come of a failed write or removal.
`JobsAreSound` and `OverStaysOver`: no job is forgotten, one holder, an acknowledged job is stored,
the attempts are bounded, a drained queue was drained, unless the job's lease lapsed under a worker
or its commands were torn. (The bound of attempts is for jobs that were never late. For a late one
it is false with three workers: one that read the attempts long ago puts them back, after one that
read them since.) `CodeMapProgresses` is liveness, and one thing more: after a pause at most one
check that was under way still observes a commit.

**Bounds.** Every bound is a constant and appears in a guard, or is the set of inputs named in the
MC module.

* Plans: the hazards need a write with more than one dependency, two nodes in flight at a time,
  something gated, a second attempt, and a second runner who recovers what the first one left.
  The four nodes, two threads, two attempts, two runners and two interruptions have all of
  these; the theorems of section 5 remove the bound for the safety properties.
* Runtime loop: three turns allow two duplicate-only turns after one that ran a call; one
  resumption shows what a checkpoint keeps and what it loses; four calls make the total limit
  bite inside a reply. The replies contain every case that `StartTask` and `StartCall` tell
  apart: no call, the same call twice, in one task or in two, a denied and a gated call after
  another one, a task too many and a call too many. The theorems remove these bounds too.
* Code map: two workers are enough for a stale holder and its successor, two commits for a
  head that moves under a check; one fault leaves a lease behind and six tokens are always
  enough (`QueueAssumption`). Two commands allow a pause with a resumption, or a retry of a
  partial build while a diagnosis reads. Limits of the functions are scaled down with their inputs
  (a chunk of 4 bytes and 2 lines for sources of six characters), so that both limits meet.
* Intents: two requests race for the same message or for two revisions of an intent, three
  revisions leave one between the oldest and the latest, and the fault may hit between any two
  of the steps. The chains of `IntentResolution` have no bound: their state is the latest revision.
* Embedding: two tasks tell a failure of one from the state of the run, two attempts make the
  second one the last. Crashes are not bounded. `VectorSearch` needs either two workers or two
  tasks, and not both: what a search verifies is per row, what makes a run ready is per task.
* Memory: one row written during a recall is any of the two it read or one it did not, in time for the
  ranking or too late. One fault is a lapse under a worker, or a break between two commands; a third worker
  would only repeat what the second does. Four upserts make a conflict, its repetition and its reversal.
* Sessions: two sessions of one incident are what `start_session` excludes, a buffer of two drops
  an event, one restart leaves orphans. The status of one session is asked for (`Watched`): what a
  request reads is of one session alone, and the other may be run before it or after it.
* Foundations: a second scope shows that an error of one does not stop the other; the publisher may
  come between any two steps of the coordinator. Budgets and limits are small with the inputs, so
  that each of them is met, exceeded and met exactly.

**Symmetry** is used over runners, workers, commits, callers, messages and intents, which no
action or property tells apart; nodes, tasks and tools are told apart and are not permuted. No
liveness property is checked over a permuted set: in `plan_safety` the runners are permuted, and the
only temporal property is about the queue, whose states contain no runner.

**Deadlock** is checked except where the system really stops: `runtime_loop` (a run that has
returned, with no resumption left), the code map (a paused repository with no command left has
nothing to do), `memory`, `sessions` and `foundations` (jobs that are over, sessions that ended,
threads that were stopped; a function has no next step). In `plan_safety` the queue alone may rest.

Some operators are preceded by a second one marked *Mutant*, as said in section 2; every property
of a run has at least one, and the properties that are conjunctions have one for most of their parts.

## 4. Fairness

* Plans (`RunsSettle` in `runtime_loop`): threads run and handlers return (`WF` of each runner's own
  steps and of each tool; tools have timeouts in their adapters); a caller whose run is not settled
  submits it again (`WF` of some `Acquire`): `execute_plan` accepts the same plan version again and
  runs it on (`control/live_intent_routes.py:156`). This is a premise about the caller, and it matters
  for `CancelSettles` only: a run whose process died is closed by whoever submits it next.
  `Abort`, `Crash` and `RequestCancel` have no fairness.
* Runtime loop (`RunsSettle`): the thread of a run takes its next step; model and tools answer,
  because their clients time out. Nothing makes a session be resumed.
* Code map (`CodeMapProgresses` in `plan_safety`): daemons go round (`WF` of claiming and of each step
  of a worker and a scheduler), time passes (`WF` of the lapse of a lease and of a check becoming
  due). An exception that ends the daemon's thread, such as the lost lease of a check, is followed by
  the restart of the process by its supervisor; the model has the lost check and goes on.
* `embedding_run`: `WF` of each worker's step, of the lapse of a lease and of a retry becoming
  due. Workers may crash again and again, so `BlockInactive`, the step by which a superseded
  run is closed, needs `SF`: a process is not killed every time just before it.
* `memory` (`JobsSettle`): `WF` of each worker's next command, of a retry coming due and of a lease
  lapsing. The property excuses a system in which every worker was stopped.
* `sessions` (`RunsAndStreamsEnd`): `WF` of each session's thread, whose calls time out, and of each
  client's reading. `KeepAlive` and `ReadOn` have none: a client may stay in the keep-alive for ever,
  and the property says what that keeps from ending (the keep-alive hazard).
* `foundations` (`ThreadsSettle`): `WF` of the rest of `start`, of the end of a query's work and of
  its wait, which is over when it gets the lock or its deadline passes; `SF` of the coordinator's
  thread, because its lock is taken and given back by queries again and again: the premise is that a
  thread that waits for a lock gets it in the end. `Stop`, crashes and the other publisher have no
  fairness.

## 5. What is proved

Eight modules hold the proofs; each is about one component and, where said, about smaller machines and
functions near it. What they prove holds for every value of the constants: any number of processes, jobs,
messages and clients, any graph, reply, tree, scope and catalog, any number of crashes, lapses and losses.
TLC checked each property, and the inductive invariants of the eight components, on the states of the
runs before they were proved.

| module `..._proofs` | theorem | property |
|---|---|---|
| `PlanExecution` | `TypeCorrect` | `TypeOK` |
| | `WritesHappenAtMostOnce` | `WriteAtMostOnce` |
| | `CallsAreRecorded` | `EffectsRecorded` |
| | `ExecutionIsExclusive` | `ExclusiveExecution` |
| | `DependenciesComeFirst` | `DependenciesFirst` |
| | `LateStartsAreBounded` | `LateStartBound` |
| | `ImplementsLedger` | `LedgerSpec`: every behaviour of the runner is one of `PlanLedger` |
| `RuntimeLoop` | `TypeCorrect` | `TypeOK` |
| | `SuccessesAreUnique` | `OneSuccessPerInvocation` |
| | `CheckpointedCallsStay` | `CheckpointedCallsAreNotRepeated` |
| | `RepeatsAreBounded` | `RepeatsNeedAResumption` |
| | `LateCallsBounded` | `LateCallsAreBounded` |
| | `ResultsAgree` | `ResultAgrees` |
| | `CheckpointsAreSettled` | `CheckpointIsSettled` |
| | `SkillsStayAllowed` | `SkillsHold`, a part of `SourcesAndSkillsAgree` |
| | `TurnsStayAccounted` | `TurnsAreAccounted`, a part of `SourcesAndSkillsAgree` |
| | `PublishedIsReleased` | `PublicationIsWhole`, a part of `SourcesAndSkillsAgree` |
| | `AvailabilityIsExact` | `AvailableIsAllowed`, a part of `RequestsAreSound` |
| | `CheckedArgumentsAreCallable` | `ArgumentsAreChecked`, a part of `RequestsAreSound` |
| `CodeMap` | `CodeMapsAgree` | `CodeMapAgrees` |
| | `ImplementsCatalog` | `CatalogSpec`: queue, workers and leases are a `SnapshotCatalog` |
| | `PausesHold` | `PauseLetsOneCheckPass`, a part of `CodeMapProgresses` |
| | `CloneStaysSound` | `CloneIsSound`, a part of `FactsAreSound` |
| | `BuildsStaySound` | `BuildIsSound`, a part of `FactsAreSound` |
| `IntentDelivery` | `DeliveriesAgreeHolds` | `DeliveriesAgree`, a part of `RequestsAgree` |
| | `ImplementsHandoff` | `HandoffSpec`: the two databases and their threads are an `IntentHandoff` |
| | `ReceiptsOnlyAdvance` | `ReceiptsAdvance` |
| | `CancelsAreFinal` | `CancelIsFinal` |
| | `RequestsStayComplete` | the other four parts of `RequestsAgree` |
| `EmbeddingProjection` | `ProjectionsAgree` | `ProjectionAgrees` |
| | `LeasesProtect` | `LeaseProtects` |
| | `ReadyStaysReady` | `ReadyIsReady`, a part of `SearchesAreVerified` |
| | `SearchesStayVerified` | `OthersAreLeftAlone`, the other part of it |
| `MemoryJobs` | `JobsStaySound` | `JobsAreSound` |
| | `WhatIsOverStaysOver` | `OverStaysOver` |
| | `PreferencesStayOne` | `PreferencesAgree`, a part of `MemoriesAgree` |
| | `VectorsAreOfTheirTexts` | `EmbeddingHolds`, a part of `MemoriesAgree` |
| | `TimelinesStayTrees` | `TimelineIsATree`, a part of `MemoriesAgree` |
| | `RecordingsStayFounded` | `FactsComeFirst`, a part of `MemoriesAgree` |
| `Foundations` | `RetrievalStaysSound` | `RetrievalIsSound`, a part of `SearchesAreSound` |
| | `PublicationsStayOrderly` | `PublicationsAreOrderly` |
| | `EventsStayTrue` | `EventsTellTheStatus`, a part of `RecordsAgree` |
| | `ImportStaysSound` | `ImportIsSound`, a part of `RecordsAgree` |
| | `AuditStaysObservable` | `AuditIsObservable`, a part of `RecordsAgree` |
| | `SchemaStaysWhole` | `SchemaIsWhole`, a part of `RecordsAgree` |
| | `DegradedSearchesSaySo` | `DegradationIsTold`, a part of `SearchesAreSound` |
| | `SearchToolStaysHonest` | `ToolIsHonest`, a part of `SearchesAreSound` |
| | `BindingsStayOne`, `ScopesStayReadable`, `EvidenceIsReadAgain` | the parts of `ReadsAreBound`, in `SearchesAreSound` |
| `DiagnosisSessions` | `SessionsStayAgreed` | `SessionsAgree` |
| | `ClientsAreToldTheTruth` | `ClientsAreNotMisled` |

**Assumptions.** `PlanExecution`: the nodes are finitely many, their dependencies are nodes and form
no cycle (`plan_validator`), `MaxAttempts` and `MaxWorkers` lie in the ranges the code validates,
and `None` is neither a runner nor a node. `RuntimeLoop`: the limits lie in the ranges
`RuntimeConfig` validates, and a reply has at least one task. `CodeMap` (`QueueAssumption`): the
sets are finite and there are enough tokens for `uuid4` to find a new one; the bounds of pushes,
commands and faults are numbers, any ones. `IntentDelivery`: the runtime of a session is no plan.
`EmbeddingProjection`: tasks are ordered as the rows are (by number), and `MaxAttempts` is between 1
and 3 (`embedding_jobs.py`). `MemoryJobs`: a job has a sequence of candidates of the two kinds.
`Foundations`, for the coordinator: a generation has documents under a revision, tables may have some left
over, and the places of the lock are no queries. `DiagnosisSessions`: a session has an incident and the
buffer has room for an event. All of them assume that the constant for "none" is not one of the
values it is to be told from.

The smaller machines state their assumptions as `ConstantsOK`, which the theorems name and the MC modules
have TLC evaluate. Beside the constants for "none" they say: confidences are numbers
(`PreferenceGraph`); the lists of a message are finite (`IntentResolution`); an imported item is of a kind
the importer knows, has an identity of its own, and comes after the item it refers to, as the files
are read in that order (`LegacyImport`); processes are finitely many (`SQLiteStores`); a batch has room
for a text and a phase takes time (`VectorProjection`, whose constructor refuses others). `BuildsStaySound`
needs `ContentHolds` (a parser names a symbol's parent by a symbol of the same file), `IsTree` (no
path is twice in a tree, as git has it) and `SameLanguages` (the language follows from the path,
`language_for_path`). `TimelinesStayTrees` needs `EventsAreRouted` (the recorder's `_route` gives every
event the session's identity), `AvailabilityIsExact` that skills ask for tools that exist (the catalog
refuses others), the searches that bindings are finitely many.

**Plan execution.** The properties are about the stored run and about calls of handlers; neither is
inductive, because what a runner may do next depends on what it remembers. `IInv` adds what each
line of the scheduler may rely on:

* `LockInv`: a runner that is not idle holds the lock, so there is at most one;
* `CopyInv`, `FreshInv`: what a working runner remembers is the stored row, which is open; one
  that has not loaded it remembers nothing;
* `FutureInv`: the loop has a future for exactly the nodes that are stored as running, and there
  is none left over when a run is recovered;
* `CurrentInv`: the node about to be launched is still ready, the one about to be retried still a
  failed read with attempts left, although other steps came in between;
* `AttemptInv`: a pending node has an attempt left, a write has at most one, and what was
  attempted has its dependencies succeeded;
* `EffectInv`: every call of a handler is paid for by an attempt, and the attempt of a queued
  future is not spent yet;
* `PhaseInv`: nothing is left to block once the pass has begun to start nodes, and nothing to
  start or to wait for when it finishes.

`EffectInv` carries the main argument: a write is called by the one future submitted for it,
the future is submitted after its attempt was saved, and a stored attempt of a write is never
given back, since recovery turns it into `uncertain` and only reads are retried. The lemmas are
one per action and conjunct that the action can disturb. The refinement maps each save to the
`PlanLedger` action of its name and every other step to a stutter. `LateInv` bounds late starts
by a separate invariant.

**Runtime loop.** `IInv` has `SavedInv` and `CountInv` (the checkpoint is a record of an earlier
moment; turns of all runs are bounded by `MaxTurns` a run), `PhaseInv` and `CallInv` (a session
that runs is active, and an exception leaves it so; the call being made is the last one and its key
is not yet done),
`EndedInv` (all calls but the one being made, and all tasks but the current one, have ended),
`SuccessInv` (calls and keys agree, in memory and in the checkpoint, and the checkpoint's keys
are among the session's; a call that pins answered counts as answered, `Agree`, but not as one that
ran), `EffectInv` and `LateInv`. `EffectInv` needs the case of a call whose
tool has run and that is not recorded yet: at that place, and there only, an invocation that is
not done may have run once more than the session was resumed. `CheckpointedCallsStay` follows
from `CallInv` and from `saved.done \subseteq done`, which is what `Resume` restores.

**Code map.** What a worker may still do after its lease lapsed depends on where its token can be
found. `IInv` has `TokenInv` for that (a job has a token just while it runs; a worker finds its
token at the job it claimed or nowhere; no two jobs have the same), beside `ProcessInv` (types),
`OrderInv` (a job comes with its snapshot), `CatalogInv` (what a reader is shown is the last
generation that was published), `BindInv` (a generation that was read can be read again), and the
three properties themselves. `FreshIsNew` is the lemma about `uuid4`: where fewer tokens are in use
than there are, one is new. A late worker therefore publishes nothing: `Publish` is the only step
that maps to one of `SnapshotCatalog`, and needs the token. `fail_job` does not look at the expiry,
so `TokenInv` cannot say that a lease is live, only whose it is.

**Intents.** A thread remembers a key and a receipt while others come in between. `CallerInv` says
what these are worth at each place, and `HandStays` that no step of another thread makes them worth
less, because all that a step does is `Grows`: revisions, messages and contexts are kept, receipts
advance, a plan that ended stays so. `DeliveryInv` says that the effect has happened once exactly
where the delivery is on record, which is the refinement of `IntentHandoff`; `PlanInv` ties status,
version and run of a plan together; `PendingIsLatest` and `PendingIsRetried` are what the outbox is
for: the entry that is pending is of the latest revision, and the message of that entry leads to it
again, after a reroute too.

**Embedding.** A claim is fenced by its attempt number. `TokenInv` says that no worker's number is
ahead of its task's and that no two workers share one, so that a worker whose row still shows its
number is the only one; `ClaimInv` says what such a worker knows at each place (that its vector is
the cached one, that its point was written or was lost since). `PointsHoldTheCachedVector`,
`BudgetIsExact` and `ReadyInv` follow from these step by step. `Claim` takes the least row by a
total order; that there is one is `MinIsMember`.

**Memory jobs.** No command but the claim looks at who holds a lease. What keeps jobs apart is
`PlaceInv`: until its lease lapses under a worker, a job is in one place (not yet listed, listed,
left in the processing set by a worker that died, held by one worker, over or torn). `WorkerInv`
says that what a worker had to keep is stored or still left to write. After a lapse nothing of this
is claimed, as the code does not keep it (section 6).

**Coordinator.** `Tables` (a revision that is ready was published, and its documents are those its
manifest expects) is kept by the steps of any publisher; `MemoryInv` says who has the
lock, what the thread has in hand and how far `stop` has come; `ScopeInv` relates the thread's
scope to the tables, which another publisher changes under it.

**Sessions.** `RunInv`: a request in `start_session` and a run of the same incident exclude each
other (`BusyInv`), the session, the result and the store are at each place of a thread what the save
before it left (`RequestInv`, `ThreadInv`), and a stored result is of a stored session (`StoreInv`).
`BusInv`: events have numbers of their own that were given out, and nothing follows the event that
ends a run. `StreamInv`: a batch is all that lies between the client's last event and those that
came after the batch was read; it needs `KeepLastKeeps` (a full buffer drops its oldest event, never
the newest). Final control statuses stay over restarts by `FinalStatusIs`: such a status is of a run
that was told, or of a session found in the store, and a restart moves the first kind to the second.
`AskInv` is of the requests for a status: what one has read is what there is, unless its session was
launched or had its result kept since, which is `overtaken`; and what it told is the status from then
on, or one of the races. It rests on the three others, and `AskHolds` is its theorem.

**Clone and builds.** `GitInv`: the holder of the lock is the one process that is at a step, and
what it has fetched or found is its own ref's and is in the clone (`LockInv`); what a sync returned
is pinned, and a pin's objects stay (`PinInv`), so that a prune takes nothing from a reader. A build
has no steps to induct over: `BuildsStaySound` goes by the rows. A row is known by its file and the
place of its symbol (`RowIs`, `RowsDiffer`), a row from the cache is the row a parser would give
(`CachedIsParsed`), since a cache key names all that parsing reads; and `ParsedRows` says which rows
there are.

**Resolution of intents.** `RequestInv`: the latest revision has every prohibition that was stated,
and every field that was ever asked for is present or still required; a route that acts requires
nothing more. `QuestionInv`: each question but the one after the third round is one request more,
and a question is superseded when the revision it asked about no longer asks. The lemmas follow the
code's order: what the merge inherits, what the checks before and after it let pass, and what is
decided of the rest.

**Vector search.** `SearchInv` takes from the invariant of `EmbeddingProjection` what a publisher
without leases leaves true (`CoreInv`; not that every point is some worker's). `PublishInv` says
whose the run is and that a publisher reports all its points before it makes the run ready, `FitInv`
that a collection of another schema holds nothing, `RowsInv` that a row once found has the vector
its task has had since, or the publisher's.

**Preferences and vectors of texts.** `UpsertInv` says, while nothing is stale, how far an upsert
has come: each write that is left yields a list that may be read, and the process has what the store
will have. `CallInv` of the embedder: what was returned is the first texts in whole batches, and the
requests made fit the batches; an answer with as many items as texts and no index twice has every
text, by counting (`EveryIndexIsThere`).

**Timelines and recordings.** `TreeInv` adds to the property that every node is of the session: so
the first node is about the session, every later event finds a node, and only the first is a root.
`RelatedIsFirst` is the lemma about `_find_related`. `RecordInv` says what is stored by each step of
a recording; one that broke off stays where it was.

**Skills and turns.** `SkillInv`: what is in memory, stored and in the checkpoint is each a state a
run may be in (`Held`: no skill twice, references of loaded skills only, all that is required
allowed), and what is stored is what memory has, as a load takes back what it could not save.
`ReleaseInv` says that what is named was released, whoever else builds; `OneBuildInv` what there is
at each step of a single build, and what it may have ended in: of the index always, of the release
and the stages as long as no write of an index, or no removal, has failed. `TurnsInv` says by the
numbers of the turns that the remembered ones end with the latest.

**Records and searches.** `LifecycleInv`: the events of an entity and of its stored copy are steps
of the class (`Tells`); `Classes` states what the six classes have in common. `ImportInv` counts: an
item that is not in the ledger was saved once for each death at most. `AuditInv`: every line of the
copy is of a version the primary had, and unless disturbed each gap is in some thread's hands or
reported. `SchemaInv`: the version says which tables there are (`TablesInv`), and what a process has
read of it can only be behind (`OpeningOK`). The theorems about searches and bindings are of
functions: by the cases of mode and channel, and by counting the generations that are bound.

**Model-checked only.** All liveness properties, which rest on fairness (the provers have no `ENABLED`).
And what is computed by folding, selecting, sorting or recursing over data, for which the provers
have no induction: cutting, resolution of names and the queries (the rest of `FactsAreSound`); trusted recall
and fusion of channels, digests, blocks and projections of turns, the order of recorded events (the
rest of `MemoriesAgree`); fusion, expansion, selection, the summary and the assembly of evidence (the rest of
`SearchesAreSound`; `ReadsAreBound` folds `Bind` over a list, the theorem is of one binding);
packing, replies and schemas (the rest of `RequestsAreSound`); the list of pins, which a read folds
over, and the byte budgets of the cache of skills (the rest of `SourcesAndSkillsAgree`). `RecordsAgree`,
`RequestsAgree` and `SearchesAreVerified` are proved in all their parts; the runs check them as
conjunctions over one choice of machines, and no single theorem states the conjunction.

## 6. Where code and documents disagree

Each of these four is a run whose counterexample was also followed by running the code.

1. `intent_replay`: a cancel whose receipt was lost is refused when it is sent again: its own
   effect has moved the version of the task it is bound to, and the checks come before the lookup
   of the delivery. The design promises the original receipt.
2. `intent_evidence`: a question that continues an earlier request and turns out to need evidence
   fails: it is resolved again in a context whose version was just changed, while the provenance
   of what it inherits names the old one. The guide says that it becomes a new revision, routed to
   a plan.
3. `embedding_blocked`: `fail()` sets the status of the run from its own failure, so a transient
   failure of a second worker reopens a run that was blocked for an authorization failure. The
   document says that claiming stops until `unblock`.
4. `chunk_cutting`: `_chunks_for` (`code_map/python_parser.py:99`) counts lines from the symbol's
   first line. A symbol with more than 16,384 bytes behind its first 200 lines is cut for ever, and the
   build is killed at its timeout; this repository has two (`SQLiteCodeMapStore`, `RuntimeLoop`).

What follows was met while translating the code. The models do what the code does; where the
document's statement is not one that holds, the property is the one that does.

**Code map.**
* `fail_job` checks owner and token but not expiry (`code_map/store.py:323`), and the worker calls it
  after `publish` has answered `lease_lost`;
  `docs/superpowers/specs/2026-09-07-prd005a-code-map-design.md:185` says that the old holder may not
  write a final state. `complete_check` does not look at `enabled` (`store.py:173`), so a check in
  flight commits its observation and a job for a repository that has been paused. A pause cancels
  the queued job of a commit that is already observed (`store.py:591`), and neither resuming nor
  `retry_job` brings it back.
* The cache of file facts never hits in the service, which forks a process for each build
  (`worker.py:45-60`); the design (about line 169) lets unchanged files reuse their facts.
* With one supported file that is not Python a repository loses `RelationResolver`: calls are
  resolved by their bare last name, where the design (165) says "不按同名直接连边". In Python alone,
  `import a.b; a.f()` is resolved to the module `a.b` (`relations.py:21`, `:76`), and arguments of a
  lambda, `except … as f`, captures of a match, another function's `global` and bindings of a class
  body are in no table. `ResolvedIsMeant` is about the statements the tables do know; dotted imports
  are its premise (`Told`).
* `list_tree` counts every blob: one file above 1 MiB, source or not, refuses the whole build. An
  `init` that was interrupted leaves a directory that is taken for a clone, so that every later sync
  fails; a `git init` that times out raises out of `sync_ref`.
* A piece that is cut at 16,384 bytes may begin or end within a character (`python_parser.py:101`):
  `read_source` decodes it strictly and raises `UnicodeDecodeError` (`query.py:129`), though the bytes
  have their hash; the search documents snap to characters.
* Pieces behind the first 200 lines do not keep the limit of lines; the last snapped chunk may be
  empty; the limit of `find_symbols` counts rows of chunks.
* `bind_incident` without a session never replaces a row, since NULLs are distinct: an incident
  bound again after a republication has two generations, and `scope()` and `read_source` answer
  `retrieval_scope_ambiguous` and `ambiguous_binding` from then on, with no argument that tells
  generations apart. A session bound again between a checkpoint and its resumption has its evidence
  refused (`scope_mismatch`), where
  `docs/superpowers/specs/2026-09-07-prd005-code-retrieval-design.md:48` keeps historical bindings
  readable.

**Intents.** After three rounds of questions and the expiry of the last one an intent can never be
dispatched: every follow-up is a stale clarification, a paused question keeps its expiry, and the
rounds are not reset by a revision that was resolved. A continuation that restates one of
several known constraints from the context is refused, because the merge shifts its index
(`intents.py:97-102`) while the prompt (`deepseek_intent.py:74`) allows such sources. A required
`/control/target` is never filled by a continuation, since objective and entities alone count. A
continuation of a control without a target binds the single task that is listed by then. An
incoming constraint of kind `other` drops the earlier ones of that kind, and a prohibition stated in
a question is neither checked nor kept.

**Runtime loop and context.** `docs/prd/PRD-002 Model Runtime Loop.md` (132, 140) asks for a
checkpoint before and after each model call, and that a resumed run repeats no call that succeeded;
the code saves at the end of a turn, so that a death inside a turn makes its calls be repeated
(`RepeatsNeedAResumption` is the bound that does hold). `docs/prd/PRD-002B Context Working Set and
Token Budget.md` (173) says that a resumption deducts the turns already used; the turn numbers
begin at 1 again. The 16 rounds of degradation may be used up before the tools give, and a request is
refused that would fit without its source slice; the refill puts source back at its soft cap
without checking (`pack.py:601`), so that one that fitted is refused: the docstring at `pack.py:433` and
`docs/superpowers/specs/2026-09-09-prd-002b-phase-b-context-budget-design.md` (239, 426) say
otherwise. `messages.py:28` tells the model to read an ephemeral body again if it is needed, and the
same call is rejected as a duplicate (`loop.py:600-610`), or as pinned when only a pointer is left
(`loop.py:565-575`). Such a call of evidence that is pinned is answered as succeeded before
`completed_invocations` is asked (`loop.py:566`, `:600`): one key then has two calls that succeeded, of
which one ran; where the pins leave no room it is rejected, completed or not. A call that needs an
approval, in a task that an earlier call has failed, is denied, and `wait_for_approval()` raises out of
the loop (`loop.py:642`, `domain/task.py:81`): no result, the turn and the session stay open. The same
becomes of a turn whose `memory_context_provider` raises anything but `ValueError`.

**Sessions.** `session_control_status()` reads the event, the result and `_finished_runs` without a lock
(`entry/application.py:398-402`): a run that ends in between is told as `failed` once, and as what it
was from then on. A request that finds no event, as the session is not launched yet, and a thread that
is quick, is told the final status from memory, which a failing store may never keep. After the
exception handler of a run the control status says `running` for ever, as `_finished_runs` lacks the
session. A cancelled session's stream never ends: `publish()` knows `diagnosis.completed` and
`runtime.failed` as ends only
(`docs/superpowers/specs/2026-09-03-prd-002a-runtime-integration-smoke-test-design.md:175` asks for
one). An open session whose process died blocks its incident, and two of them may exist. The
keep-alive is yielded inside the condition.

**Retrieval.** Failures of an embedder are to bypass the vectors
(`docs/superpowers/specs/2026-09-05-hybrid-memory-retrieval-design.md:52`), and a phase that ran out
of time and an invalid answer are raised instead (`local_vector_memory.py:77-83`). In the same way a
hybrid code search fails as a whole for an HTTP error or an invalid vector (`tools.py:114-116`),
where the design of code retrieval (46) has it degrade. A `hybrid_graph` search without a graph
returns more than `top_k`. `stop()` between two checks of the thread makes a clean stop `failed`,
and during `start` it leaves `running` behind. Left-over documents make a publication fail for ever,
a revision that once conflicted can never be published, and a quarantined scope waits for a restart.
A report read before a repair sends the repaired task back (`embedding_jobs.py:176`). Scripts that
enqueue tasks of another form beside a worker's make every search of a projection raise.

**Memory.** A recall checks the copies it read before the ranking, which may be a request over the
network (`memory/recall.py:50-60`): a memory that is superseded, or rejected, meanwhile is told.
`retry`, `fail` and `ack` of a worker whose lease has lapsed are not fenced: they put
back or fail a job its successor has acknowledged
(`docs/superpowers/plans/2026-09-05-trusted-memory-foundation.md:107`). A job whose candidate was stored
and not acknowledged can only end as failed. A refused write in the middle of an upsert leaves two
active preferences. `to_namespace()` passes the session, so that memories that name an earlier one are
never recalled. Nothing in the service writes `memory_vectors`. The recorder's saves are
transactions of their own, and what an exception leaves undone stays undone.

**Skills and adapters.** `build_local_package` runs at every start of a session with a skill: a
death while staging makes every later build answer `publish_conflict`, a death between the rename
and the index makes every later one fail, and two builds at once may publish two contents of a
version. Without any of these, a write of the index that fails after the move (`package.py:62`) leaves
the release with no index or half of one: later builds of the content fail to move, those of another
content publish a second release of the version, and half an index is read as JSON and raises.
A removal of the stage that fails leaves `publish_conflict` behind. The saved state names the last
skill loaded as selected, the memory the first (`runtime_state.py:76`, `:82`). A bad `usage` of a
reply pays for a repair that can never be used; more than eight native calls raise an error that is
not the adapter's, and so does a message that is no object (`openai_compatible.py:93`: `get` of a
null, behind the `try`; the extraction for intents does the same in `deepseek_intent.py`), or a
content without a length beside native calls.

**Records.** `fail(error)` with an error that is no JSON moves the status and records no event. The
loser of a race of migrations raises `IntegrityError`. A crash between `save()` and the ledger
stores a message twice or overwrites a row the application wrote since; a malformed line raises out
of `run()`. A torn line makes every later copy of the audit fail, and a replacement loses a
concurrent append.

## 7. What is not modelled

* *Conversation entry*: appends of messages and the assembly of a view; the messages that carry
  intents are in `IntentDelivery`.
* *Policy and planning stubs*: skeletons, no state changes.
* *Tracing and metrics*: observation only, nothing reads it back.
* *Evaluation harnesses*: offline scripts that score models and retrieval. They are a large part of
  the repository's lines, and no part of the running system.
* *Front end, deployment and vendored code.*

Of the components that are modelled, these parts are left out:

* code map: the grammars (`ast` and tree-sitter give symbols and bindings), import edges found by
  text, a git child that outlives its parent, the fallback of `read_generation` for snapshots of
  version 4, which reads five tables without a transaction;
* intents: text patterns, authorization, the query operation of a control;
* retrieval: the index itself, matching and ranking of full text, schemas of the tools, health reports;
* memory: `InMemoryMemoryJobQueue` (each call is one step under a lock), the rule projector's
  patterns, the model's classification, the rollout cache, rebuilding, the Redis index;
* context: the counting of tokens from text, the byte budget of a read, several calls in one turn;
* skills and tools: symbolic links, discovery by import, health checks, the command line;
* adapters: HTTP itself, the client's time-outs, the interfaces;
* stores: full-text indexes, time-outs of locks, the evaluation store, the replay of events;
* domain: evidence, checkpoints and identifiers.

## 8. Plan

Done: the models of section 2 and the proofs of section 5. What is left would say most in this order:

1. `SourcePins`: that a checkpoint's references survive a resumption; `pins` is rebuilt by a fold.
2. `MemoryRecall`: that a recall gives nothing its trust gates refuse; rows are filtered and ranked.
3. `CodeSearch`: that fusion is the reference, for lists of any length.

All three need induction over sequences; with a prover for the library's induction theorems the
lemmas about `Upsert`, `SelectSeq` and `FoldLeft` come first.
