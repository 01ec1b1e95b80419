# Skygest: specifications, model checks and proofs

Skygest polls the Bluesky repositories of a list of experts, keeps the posts
that match its topics in a D1 database, enriches and curates them, and serves
them over HTTP and MCP. It runs on Cloudflare: Durable Objects, Workflows, D1.
Concurrency, crashes and retries decide whether the data is right in three
places: the ingest pipeline, curation with the enrichment it sets off, and the
search index kept behind the entity snapshots. This directory is about them: TLA+ modules that follow
the TypeScript source, the configurations under which TLC checks them, and
theorems that TLAPS checks for every value of the constants.

Paths below are those of the repository; `ingest/` is `src/ingest/`,
`d1/` is `src/services/d1/`, `store/` is `packages/ontology-store/src/`.

## 1. The system's parts

| Part | State it keeps | Operations | Talks to |
|---|---|---|---|
| Task queue `ingest/ExpertPollCoordinatorState.ts` | `{current, pending}` per expert | enqueue head / backfill / reconcile, take, clear, continue, count down | pure functions of the coordinator |
| Coordinator `ingest/ExpertPollCoordinatorDo.ts` | the queue in Durable Object storage, one alarm | three enqueue RPCs, `alarm()` | executor, `ingest_run_items` |
| Run workflow `ingest/IngestRunWorkflow.ts` | a position in its steps | prepare, create items, mark dispatching, dispatch until terminal, finalize, compensate | both tables, coordinators, repair |
| Run tables `d1/IngestRunsRepoD1.ts`, `d1/IngestRunItemsRepoD1.ts` | `ingest_runs`, `ingest_run_items` | one SQL statement each | - |
| Launcher `ingest/IngestWorkflowLauncher.ts` | - | `start`, `startCronHeadSweep` | run table, workflow engine |
| Repair `ingest/IngestRepairService.ts` | - | `repairLiveRun` (inside the dispatch step), `repairHistoricalRuns` (an operator's request) | both tables |
| Executor `ingest/ExpertPollExecutor.ts` | `expert_sync_state`, `posts` | head, backfill and reconcile windows, sync state, deletes | `listRecords`, post store |
| Enrichment runs, planning and quality gate `src/enrichment/` | `post_enrichment_runs`, `post_enrichments` | queue, run, review, retry, repair | workflow engine, payload tables |
| Curation and payloads `src/services/CurationService.ts`, `d1/CandidatePayloadRepoD1.ts` | `post_curation`, `post_payloads` | flag, decide, staged capture, import | post clients, enrichment launcher |
| Entity snapshots, reindex queue, projection drain `store/` | `entity_snapshots`, `reindex_queue`, its dead letters | save, coalescing schedule, batch, retry, bury | D1, AI Search |
| DCAT harness `ingest/dcat-harness/` and adapters | the tree of entity files, `.entity-ids.json` | fetch, index, build, write, save ids | catalogue APIs, file system |
| Data-layer registry and sync `resolution/dataLayerRegistry.ts`, `data-layer/` | entity tables | load and validate the tree, upsert it | the tree, D1 |
| Editorial picks, entity backfill, migrations | picks, cursors, ledger tables | upsert, retract, page by page | D1 |
| Routers, MCP tools, clients, text processing, web client | - | decoding and dispatch | services |

How a poll happens. The launcher inserts a run and creates a workflow instance.
The workflow inserts one item row per expert, then loops: repair stale rows,
count the active ones, list as many queued rows as its fan-out leaves room for,
call each expert's coordinator and mark the row dispatched, until no row is
incomplete; then it closes the run with the verdict of its rows. A coordinator
queues the request in storage and sets an alarm. Each alarm claims one task,
marks its rows running, has the executor process one chunk, reloads the queue,
writes the rows, and saves a queue without the task, or with what is left of it.
Nothing but the two tables connects a coordinator's result with the workflow.

How a post is enriched. Ingestion flags a post. A curator's request reads its
payload, fetches and captures one if there is none, marks it picked, writes the
status last, and queues an enrichment run: a row and a workflow instance of the
same id. The workflow marks its phases, plans from what is stored, stores its
result and closes its row; a vision run queues the post's source attribution
before it closes. An operator starts runs, retries closed ones and repairs stale ones.

How the index follows. A writer saves a snapshot and schedules a row of the
queue; requests of one entity within a window are coalesced into one row. A cron
or an operator drains: each row's snapshot is loaded and uploaded and its row
deleted, or the failure counted and, at the third, the row moved to the dead letters.

How a catalogue is ingested. A script fetches the listing page by page, loads the
tree into an index, builds a node for every entity, with the id and the file name the
index knows or new ones, checks that the nodes refer to each other only, and writes one
file after another in the order of their references, the id ledger last. The registry
loads the tree as a whole, for readers and for the sync into D1, or refuses it.

What is hard about it:

- **Awaits.** A Durable Object runs other requests while `alarm()` awaits D1 or a
  PDS. Enqueues therefore arrive between the claim, the reload and the save.
- **Separate statements.** Workflow and repair read, decide and write with one
  D1 statement each, while coordinators write the same rows.
- **Crashes and retries.** An object is evicted at any await and its alarm runs
  again; a workflow step starts over from its first statement; `workflow.create`
  may take effect without a reply.
- **Time.** A row without progress is taken for dead, dead or not.
- **Rows that change hands.** A queue row may take a new request while a drain works
  on it; an enrichment row may be closed by a repair, and retried, while its workflow
  still runs; a post may be decided by two curators, and imported, in one moment.
- **A repository, or a catalogue, that changes between two pages**, and dates its author chose.
- **A tree without transactions.** An ingest that stops leaves some of its files; the
  next one has only those to start from.

What makes each part correct: the queue has one task per key, loses nothing it
accepted and never refills a budget; the coordinator leaves no row running for a
run it forgot, and is never asleep with work; the workflow keeps to its fan-out and
closes every run, once, with the verdict of its rows; the executor leaves
no hole behind its cursors and marks only removed posts deleted; no decision of a
curator is undone by a poll, nothing is enriched that was not picked, sources are
attributed after the images were read, and every enrichment run is closed; a
queue row is as strong as what was coalesced into it and leaves the queue only
answered or buried; the tree has one file per entity and no reference into the void at any
moment, and what a crash left out is made good by the next ingest that completes.

## 2. Modules

| Module | Models | Uses |
|---|---|---|
| `PollTasks` | the queue functions | - |
| `ExpertPollCoordinator` | the Durable Object and the item rows it writes | extends `PollTasks` |
| `IngestRun` | launcher, workflow, repair, composed with the coordinators | extends `ExpertPollCoordinator` |
| `RunLedger` | what readers of the two tables may rely on (abstract) | instantiated by `IngestRun` |
| `ExpertPollExecutor` | one executor, its sync state and stored posts, a changing repository | - |
| `EntityProjection` | snapshots, their writers, the queue, its drains, the index | - |
| `Enrichment` | enrichment runs: rows, workflows, launcher, operator | - |
| `EnrichmentLedger` | what readers of the run table may rely on (abstract) | instantiated by `Enrichment` |
| `Curation` | curation and payloads, composed with the runs | extends `Enrichment` |
| `DcatIngest` | ingests of one catalogue, run after run, into the tree of files | - |
| `MC...`, one for each of the six specifications above that is checked | values for TLC | |
| `PollTasksProofs`, `ExpertPollCoordinatorProofs`, `ItemRowsProofs`, `IngestRunProofs` (each extends the one before), `ExpertPollExecutorProofs`, `EntityProjectionProofs`, `CurationProofs`, `DcatIngestProofs` | theorems | |

### PollTasks

A task is `[mode, runIds, remaining, cursor]`. A run polls in one mode (and one
depth for reconcile), so the task keys `head`, `backfill:<run>` and
`reconcile:<run>:<depth>` are the pair of mode and runs (`SameKey`). Request
times, totals, `maxAgeDays`, and the fields that are written and never read
(`lastCompletedRunId`, `lastFailure`) are left out. `EnqueueTask`,
`TakeNextTask`, `ClearCurrentTask`, `InsertContinuationTask` and `Progressed`
are the functions of the state module; `Outcomes` is what the executor can
answer for one chunk, read off `fetchWindow`.

### ExpertPollCoordinator

`store` and `alarm` are the object's storage and survive an eviction; `pc`,
`claimed`, `latest`, `outcome`, `todo` are the local variables of `alarm()`.
One action per await:

| Action | `alarm()` |
|---|---|
| `AlarmIgnored`, `AlarmClaims` | load, `takeNextTask`; return, or save the claim |
| `MarkRunning` | `markRunning` for each run of the task |
| `ExecuteChunk`, `ExecuteFails` | the executor; then reload, or the catch block's reload |
| `MarkProgress`, `MarkComplete` | the loops over the reloaded task's runs |
| `SaveSettled` | continuation or not, save of the *reloaded* state, alarm |
| `SettleWriteFails`, `MarkFailed`, `SaveFailed` | the catch block |
| `HandlerDies` | an eviction, or a throw outside the `try` block: the runtime sets the alarm again |

The enqueue RPCs await storage only, which closes the object's input gate, so
`Enqueue` is one step; `EnqueueCutShort` is an eviction between its save and
its `setAlarm`. Between `ExecuteChunk` and `SaveSettled` the input gate is open
(the awaits are on D1), and that is where `Enqueue` meets a state that
`alarm()` has already read.

### IngestRun and RunLedger

`run` and `items` are rows of the two tables, `launch` a launcher's request, `at`
and `loc` a workflow instance and what its step has read, `hist` an
operator's repair and what it has read. Each D1 statement or RPC is an action;
`StepStart` says where a step that is started over begins again. An expert's did
is a number because two statements order by it. `stale` abstracts
`last_progress_at`: `AgeItem` lets a row pass the repair threshold at any moment, or,
under `Prompt`, when its coordinator has lost the run or is wedged: an object that died
with a claim accepts requests and takes no task any more (`Wedged`).

`RunLedger` is the abstract specification: results per expert that come and may be
hidden again, a verdict that is given once, on a full set of results or by giving
up, and a complete run that never changes. The refinement maps a row to its
result, or to "open" while it has none.

### ExpertPollExecutor

A post is its record key; a page is the `PageSize` highest posts below the
cursor. `Publish` and `Remove` run between any two steps. `Pages` gives both
answers `listRecords` has at the end of a repository: no cursor, or one that leads
to an empty page. `CreatedAt[p] = 0` is a record whose date does not decode.
The coordinator's part (the budget and the cursor it passes, dropping a completed
task) is in `task`.

### EntityProjection

A snapshot is its version. `saved` holds the writers between the two statements
of `EntityIngestionWriter`; `queue` and `dead` are the two tables; `tasks` are
the rows that a drain has pulled and what it knows of them; `index` is AI Search.
`reached`, `asked` and `merged` are history: the newest version ever uploaded,
and which requests a row answers. Time is relative: a row's `wait` is the time to its
`next_attempt_at`, and `open` says that its coalescing bucket is the current one.

| Action | Code |
|---|---|
| `Save`, `Schedule`, `WriterDies` | the writer's two statements; `schedule` refuses what is too deep |
| `SaveAndSchedule` | the post backfill's one batch |
| `DrainNext` | `nextBatch` |
| `Load`, `Upload`, `ProjectFails` | the projection of a row; `Effect.forEach` bounds how many at a time |
| `MarkComplete`, `CompleteFails` | the delete, and its failure, which counts as one of the row's |
| `MarkFailed`, `Bury` | the update, and the batch at the third failure |
| `DrainDies` | an eviction, or a failing write of `markFailed`, ends the drain |
| `Tick` | a second; at the end of a window rows stop taking requests |

### Enrichment, EnrichmentLedger and Curation

`runs` and `results` are the two tables, per post and kind; `flows` is where a
workflow instance stands, `operator` what an operator's request is at. The row
updates (`MarkPhase`, `MarkComplete`, `MarkFailed`, `ResetForRetry`, ...) carry the
`WHERE status IN (...)` of their statements, and everything that goes right beside a
repair or a retry goes right because of them. `LaunchStep` is one step of
`queueRun`, used by a curator, an operator and the vision workflow alike; its two writes may
fail (`LaunchWriteFails`), and a curator's request swallows that. `Plan` is the
planner's decision; the quality gate's verdict is open. A failing step that is
tried again has no effect here, `StepExhausted` is the last failure.

`Curation` adds `curation`, the rows of `post_curation`, and `requests`, what each
curator's request is about to do: `Decide`, `ReadPayload`, `Capture`, `MarkPicked`,
`UpdateStatus` and `QueueEnrichment` are the statements of `curatePost` in their
order, `FlagBatch` and `ImportPayload` what ingestion and imports write beside them.

`EnrichmentLedger` is the abstract specification of the run table: a run is queued
once, taken up again only after it failed or was sent to review, and complete for good,
with its result. The refinement is the identity on the two tables; what it has
to show is that no instance, operator or repair leaves it, however late its update.

### DcatIngest

The harness with the ODRE adapter. `files` is the tree: of an entity it keeps the kind, the file
name, the id, the key the index finds it by, the ids that the graph of a run must
resolve (`refs`) and those that only the registry does (`names`). An id is the run and the row it was
minted for. A distribution that exists keeps the service it names (`AccessService`), another
names the service of the run. `at`, `rows`, `nodes` and `todo` are the run's local state.

| Action | Code |
|---|---|
| `Publish`, `Withdraw`, `Move` | the catalogue changes its listing |
| `FetchPage` | one round of `fetchCatalog`, with a row that does not decode |
| `Plan` | index, candidates and graph; refused for duplicates or missing references |
| `Write` | `writeNode`: the id in the file must be the node's; the file is renamed into place |
| `SaveLedger` | load, merge and save of `.entity-ids.json` |
| `RunDies` | a process that stops, a request or a write that fails |

`Before` are the edges of the graph; the order among unrelated nodes is left open,
`Graph.topo` being a library's. Each kind has a directory, and the adapter's suffixes
(`-api`, `-cr`, `-series`) one per kind, so a slug is the name without it. Entities
are left with what the checks look at: titles, dates, other aliases and the one agent,
which exists before and is rewritten as it was, are left out, and so is finding a series by its title.
`RegistryAccepts` is what the registry, hence the sync, asks of the tree: references resolve,
a dataset and what it names refer to each other, and so do a service and the datasets it
serves. `LoadsBut` is the same with some ids missing. Runs are not concurrent: the script is an operator's.

## 3. What TLC checks

All runs are exhaustive. Every property has a mutant of the code that breaks it.

| Run | Bounds | Shows |
|---|---|---|
| `Coordinator` | one expert, two head runs, a backfill and a reconcile; budget 4 in chunks of 3; one eviction or failing write | seven safety properties of queue and rows; no work without an alarm; without a fault the queue drains |
| `RunFaults` | one run, two experts, any single fault of eight kinds, stale rows, operator repairs | an ended workflow leaves a closed run |
| `RunsFinish` | two runs, two experts, fan-out 1, stale rows, one failing launch or exhausted step | every launched run is closed; refinement of `RunLedger`; fan-out |
| `ExecutorCursors` | 5 posts, one off topic, one too old; 2 pages of 1, chunks of 3 | no cursor that is stored skips history, a continued backfill goes down, no hole above a head poll that came down to its marker |
| `ExecutorReconciles` | 4 posts, 2 of them on topic; 2 pages of 1, chunks of 2 | deleted posts are gone, and posts removed among the newest a chunk reads are marked in the end |
| `EntityProjection` | one entity, two versions, two drains of limit 2 and 1, three requests of unlike strength, one fault | rows coalesce to the strongest, leave only answered or buried, and the index catches up |
| `Curation` | one post (with images, or a tweet of text), a curator, an operator, both kinds of run, one fault | decisions, payloads and runs agree; refinement of `EnrichmentLedger`; every run settles |
| `DcatIngest` | two datasets of one family, one of them known by hand under another name, pages of one, four runs, two crashes or changes of the listing | one file per entity, resolved references and a true ledger at every moment; completed runs leave a whole tree that loads, but for a lost service; no crash makes a run refuse |
| `AcceptedWorkLost`, `ClaimWedged`, `ContinuationDeletes`, `LostService` | as above or smaller | the four disagreements of section 5 |

**Why the bounds suffice.** Experts share nothing inside the coordinator model,
so one is enough for it; two head runs are the least that join a head task, and one
backfill and one reconcile the least that queue behind one another. A budget of 4 in
chunks of 3 gives a chunk that ends with budget left, one that ends the budget
and one whose limit is the rest. One fault reaches every crash position (a second
one starts from a state that requests also reach). Fan-out 1 with two experts
makes the second one wait; two runs make them share coordinators and, in a
head task's place, an order. Five posts are the least for a backfill that begins at the cursor of
a head poll of two and has to go on: two pages of one post do not fill a chunk of three. (In the
code two pages of 100 fill a chunk of 200 exactly; one falls short through records that do not
decode, which a smaller page stands for.) They also exceed a window, so that the page
limit, continuations, budgets and posts that arrive or go between two pages all occur. `ExecutorReconciles` has four posts where a
chunk reads two, so that a reconcile stops above half of the repository; `RecentIsDeleted` is about the
newest half, section 6 about the other. A retry and an exhausted step count as faults.
Entities share no row and no step but a drain's limit, which two rows of one entity from two
windows meet as well; two versions are the least that can be uploaded in the
wrong order, and two drains, one of which takes one row at a time, the least that
hold overlapping rows. Posts share nothing but the operator's list of stale
runs, and the two runs of a post are two; one curator meets ingestion, the
workflows and the operator at each statement. The instance with two curators and no fault
(1.5 million states) satisfies the safety properties as well and is too large to be
a run; the theorems of section 4 hold for any number.
For the tree, two datasets make a family, and so a series, and one of them alone makes none; with pages of
one row a change falls between two pages of the listing and gives a row twice or not at
all; four runs leave two after two crashes. An instance with three faults
(6.2 million states) satisfies the same properties.

**What each property is about** is stated above its definition. Three of them carry
conditions a reader should know. `LedgerSpec` and `ActiveWithinFanout` hold
while nothing is started over and, as in this run, `Prompt` holds; `LedgerSpec` also needs that
nothing fails after the run was closed. Section 4 names these conditions, section 6 what happens without them.
`RunsFinish` assumes `Prompt`: `markDispatched` reaches D1 before the chunk it
started is settled, and a row goes stale only for a queue that has forgotten the
run or is wedged. Both are needed. Without the first, a late mark makes a finished row look
dispatched again, which stale repair answers with another round, and TLC finds a
schedule where that never ends; without the second it finds one where a row is
called stale at every turn. It also assumes that no coordinator dies: one that
dies with a claim stays wedged, its dispatched rows are sent to it again for ever and the
run never ends (section 6). `NoHole` is
about polls whose pages came down to their marker, and `NothingSkipped` about the stretch
of history between a cursor that is stored and the one its chunk began at: what a head
poll left out above that, at its page limit or at a page it could not read, no later cursor
makes up for (section 6).

`CuratedIsQueued`, `NoneStranded`, `SpentIsBuried` and `IndexCatchesUp` are excused by a
fault, a dead letter or a row that a fault stranded, and by nothing else. So they say nothing of
what such a fault leaves: a curator's launch whose insert fails, which is swallowed, a run whose
launcher died, a row whose drain died at its third failure are in section 6. `UploadedBeforeDropped`
is about the version a row was first written for, not about what was coalesced into it later.
`WorkHasAlarm` is about the time before the first eviction or failing write. `EndedRunIsClosed` says that a run is closed,
not that its verdict is that of its rows.
`IndexCatchesUp` starts where no drain has begun on the entity's rows: what happens
when two of them have is in section 6. `RunSettles` allows
that a run ends *stranded*, and `NoneStranded` says when that may be.

**Fairness.** `WF` on `AlarmStep`: the runtime fires due alarms and awaits return.
`WF` on workflow, launcher and repair steps: the engine resumes instances and
requests end. `WF` on `AgeItem`: time passes. Requests, faults, publications and
removals have none. `ExecutorReconciles` needs `SF` for the reconcile steps, because head
polls and backfills compete for the one executor and each step may fail: it says
that reconciles keep being asked for and that no step of theirs fails for ever.
`EntityProjection` has `WF` on the clock, on the second statement of a writer, on each drain's
pull (the cron comes again) and on the rows in its hands (requests have timeouts);
nothing is assumed of saves or faults. `Curation` has `WF` on each workflow,
because the engine resumes instances, and on what a curator or an operator has
begun; nobody is bound to begin anything, and no failure is bound to stop.
`DcatIngest` has no liveness property: nothing in the code starts the next ingest.
`CHECK_DEADLOCK FALSE` is where the system may really stop: runs that are closed with a
launcher that is done, an index with nothing to follow, posts that are all decided, ingests that are all done.

`CompletedIsWhole`, `CompletedLoads` and `RefusedHasCause` are excused by a disturbed listing: one that
lost a dataset or an undecodable row, or moved under the pages of a run.
Section 6 says what such a listing does to later runs. `CompletedIsWhole` also lets
distributions name a service of an earlier run that was never written
(`EarlierServices`), and asks everything else of the tree; `CompletedLoads` asks that as well and is violated.

## 4. What is proved

For any set of experts, runs, entities, drains, posts, curators, any kinds,
budgets, limits, windows, fault kinds and number of faults, from the named assumptions of
the specifications (`TaskConstants`, `FaultBound` and `RunConstants`,
`ExecutorConstants`, `ProjectionAssumption`, `EnrichmentAssumption`, `SeedsAssumption`,
`CatalogueAssumption`).
Experts and posts are finite in number and numbers themselves, because the code orders by
them; five theorems have hypotheses of their own, given below the table.

| Theorem | States |
|---|---|
| `TypeCorrect` | `Spec => []TypeOK` |
| `TasksStayUnique` | `Spec => []UniqueTasks` |
| `ClaimStaysCurrent` | `Spec => []CurrentIsClaimed` |
| `RunningStaysHeld` | `Spec => []RunningIsHeld` |
| `NoneDroppedUnsettled` | `Spec => SettledBeforeDropped` |
| `WorkStaysAwake` | `Spec => []WorkHasAlarm`, which speaks of the time up to the first fault |
| `ProgressStays`, `HeadStaysAhead` | `Spec =>` the action properties `ProgressKept`, `HeadNotOvertaken` |
| `IngestRunProofs`: `RunTypeCorrect`, `EndedRunStaysClosed` | `RunSpec => []` of `RunTypeOK`, `EndedRunIsClosed` |
| `FanoutHolds` | `RunSpec => []ActiveWithinFanout`, if `Undisturbed` |
| `RunsAreALedger` | `RunSpec => LedgerSpec`, the refinement of `RunLedger`, if `Undoubted` |
| `ExpertPollExecutorProofs`: `ExecutorTypeCorrect` | `Spec => []TypeOK` |
| `CursorSkipsNothing`, `HeadLeavesNoHole`, `BackfillDescends` | `Spec =>` the action properties `NothingSkipped`, `NoHole`, `BackfillMovesDown` |
| `OnlyGoneAreDeleted` | `Spec => []DeletedAreGone`, if `DatedInOrder` and `OneChunk` |
| `EntityProjectionProofs`: `TypesHold`, `KeysStayUnique`, `CoalescingKeepsTheStrongest`, `SpentRowsAreBuried` | `Spec => []` of `TypeOK`, `OneRowPerKey`, `NoWeakerWork`, `SpentIsBuried` |
| `NoneDroppedUnanswered` | `Spec => UploadedBeforeDropped` |
| `CurationProofs`: `TypesHold`, `PayloadBeforeStatus`, `ResultsOfPickedPosts`, `VisionFirst`, `PassedOn`, `RunsAreOwned`, `CuratedIsLaunched` | `Spec => []` of `TypeOK`, `CuratedIsPicked`, `EnrichedIsPicked`, `AttributedAfterVision`, `CompleteIsPassedOn`, `NoneStranded`, `CuratedIsQueued` |
| `DecisionsKept` | `Spec => DecisionStands` |
| `RunsAreALedger` (of `CurationProofs`) | `Spec => LedgerSpec`, the refinement of `EnrichmentLedger` |
| `DcatIngestProofs`: `TreeStaysConsistent`, `LedgerStaysTrue` | `Spec => []` of `TreeConsistent`, `LedgerNamesFiles` |
| `CompletedRunsAreWhole` | `Spec => []CompletedIsWhole`, if `SeedsLoad` |
| `RefusedOnlyForCause` | `Spec => []RefusedHasCause`, if `SeedsFit` |

*Queue lemmas* (`PollTasksProofs`). `SoundQueue` is a queue of tasks somebody
waits for, with distinct keys. `EnqueueQueue`, `TakeQueue`, `ClearQueue` and
`ContinueQueue` show that each operation keeps a queue sound, `EnqueueHolds`,
`TakeHolds`, `ClearHolds`, `ContinueHolds` which runs it keeps. They rest on
what `SelectInSeq` and `InsertAt` return (`SelectHead`, `SelectBulk`,
`InsertAtProperties`); the least index exists because the naturals are well founded.

*First invariant* (`IInv`, `ExpertPollCoordinatorProofs`). `UniqueTasks` is not
inductive: `alarm()` overwrites the queue with one computed from its reload, so
the reload has to be sound too, and putting the task back is harmless only
because the task is the reload's current one, whose key differs from the pending
ones. `ObjectInv` therefore speaks of both copies, ties the claim to both current
tasks by key (by key only: runs may join), and keeps the loops over runs from
running empty.

*Second invariant* (`RInv`, `ItemRowsProofs`). `RunningIsHeld` needs to know that a
row running in the stored queue is also held by the reload that will replace it,
hence that nobody but `alarm()` itself marks rows running, for runs of the
reloaded task. `SettledBeforeDropped` needs the state of the loops: every run of
the task about to be dropped is either still to be written or terminal. What may
be lost at `SaveSettled` is then exactly what arrived after the reload, which is
the first disagreement below.

*Wake-ups and order* (`AwakeInv`, `OrderedInv`, `ExpertPollCoordinatorProofs`). Without a
fault an idle object has no claim, which is why its next alarm takes a task: with that,
`WorkHasAlarm` is inductive. The two action properties compare a queue before a step with the queue
after it, and `SaveSettled` replaces the queue by one computed from the reload, for an outcome of
the task that was claimed much earlier. `OrderInv` carries that over the awaits: the
claimed task has the progress of the stored current one, the outcome is one of the claimed task's,
and the stored queue differs from the reload by requests only (`Keeps`).

*The run and its tables* (`RunInv`, `CoordInv`, `FanoutInv`, `LedgerInv`, `IngestRunProofs`).
`RunInv` adds to the coordinators' `IInv` what the position of a workflow says of its row, and
gives the types and `EndedRunIsClosed` without any hypothesis. `CoordInv` is about the other
writer of the rows: whether a coordinator may still mark one, given its loops. `FanoutInv` bounds
not the active rows but a window of experts: those active (no coordinator being wedged, `NoneWedged`), those queued whose
coordinator already holds the run, since it may mark them running before the workflow marks them
dispatched, and the batch at hand. It supposes `Undisturbed`: `Prompt` (rows
go stale only for lost work or a wedged coordinator, marks are not late), no operator's repair, no eviction
(hence no wedged coordinator), no dispatch step that starts over. `LedgerInv` adds when rows are final and what the closing
step has read, and supposes `Undoubted` besides: no failure after the run was closed, no lost
reply of `workflow.create`, and no write of a coordinator that fails. The last of these came out of the
proof: a coordinator that has marked a row complete and whose next write fails marks the row
failed in its catch block, and by then the workflow may have closed the run as complete.
All these are cases the code meets, and the two theorems say nothing of them: `RunFaults` has them, and
what they do to a closed run is in section 6.

*The executor* (`ExecInv`, `ExpertPollExecutorProofs`). `NothingMissed` is the core: of the
posts that are in the repository and were there when the chunk began to list (`Older`), those the
listing has passed are in the window, whatever was published or removed between two pages. It
needs keys in the order of publication (`InOrderOfKeys`) and the place of the window's
cursor (`WindowPlace`). The three action properties follow at `Persist`.
`DeletedAreGone` needs the window to be the whole of what it is compared with (`WholeWindows`):
the theorem supposes that dates agree with the order of publication
(`DatedInOrder`) and that one chunk reads the whole repository (`OneChunk`); `ContinuationDeletes`
shows what happens without the second. Greatest and least posts exist because
the naturals are well founded (`LeastOf`, `GreatestOf`).

*Queue and index* (`IInv`, `EntityProjectionProofs`). A row may be dropped because
the snapshot a drain loaded is at least as new as what the row was first written for.
That is an invariant of three parts: a row, and a writer who is about to schedule, ask
for versions that were saved (`AskedIsSaved`); a row in the hands of a drain was
pulled from the queue or is gone from it, and what was loaded for it is as new as what
it asks, and uploaded where the drain says so (`LoadedIsRecent`); ids are never handed
out twice (`IdsIssued`), so a row that a drain still holds cannot turn into another.

*Curation and runs* (`IInv`, `CurationProofs`). What a workflow or a request has
read must still justify what it is about to write. `RowsFirst` and `OneCreator`
say that a run has a row before anybody creates its instance and that only one
does; `PlanStands`, `ResultFirst` and `RequestsSound` tie each control point to the
stored stage and results that led there, and hold because stages and results never
go back; `OneInHand` and `QueuedIsFresh` keep the operator and the workflows apart, without
which `NoneStranded` does not follow. The refinement then needs one step per action:
each maps to one of the ledger's moves of one run or to a stutter, `MarkComplete` to
`Complete` because of `ResultFirst`.

*The tree* (`IInv`, `DcatIngestProofs`). `NodesHavePlaces` is the heart of it: a node takes
both its id and its file name from the index or both afresh, and new ones depend on
the key alone, so nodes of one entity agree on a place among themselves and with the
tree (`NodesAreIndexed`, `KnownOrNew`); new ids are told from old ones by the run
(`Ages`). `PlanSound` then carries a run through its writes: the plan refers to itself, and
what is no longer to do is in its place, so that a node's references are there by the
time it is written. `SeedsAssumption` asks the same of the files written by hand, and
that a catalogue or service among them has the name the adapter gives it: the adapter
takes these two names from constants and would write a second file otherwise.

*Runs that complete* (`WholeInv`, `DcatIngestProofs`). `CompletedIsWhole` says two things of a
run that is done. Every dataset it fetched has its distribution, record, catalogue and
service: the plan has them (`Covers`), each node of the plan says of the others what the
adapter put there (`NodeShape`, `NodesSound`), and what was written stays as written, since
the plan has one node for an id. And the whole tree is as the registry wants it, but for services
that distributions name and an earlier run minted without writing them, if the listing
lost no dataset and did not shift under the pages. A crash leaves files the registry
refuses, so the second half rests on `Loose`: a file that does not load belongs to a dataset
that is still listed, and such a file the next run to finish writes again, because an undisturbed
run fetches the listing itself: `RowsListed`, that the rows so far are its first `offset` entries,
which stays true when a dataset is added or moved behind the offset. The theorem supposes
`SeedsLoad`: the files written by hand load, a distribution refers to the
dataset under which the index files it and to nothing else and names services only, datasets name
distributions or downloads only, and no service but the catalogue's serves a dataset the catalogue may list.

*Runs that are refused* (`FitInv`, `DcatIngestProofs`). A run is refused at its plan, for two
entities under one key, a row that comes twice or a reference that does not resolve, or at a write, for
a file of another entity in the place of its own. What excludes all four in an undisturbed
run, however many runs have died before it, is that the files fit the listing (`Fits`): the service serves listed
datasets only, a dataset is in no series that the listed datasets do not make, and a file
name that a run may make is that of the entity it is made for. The rows are then a listing without
repetition, every reference meets a node (`CandidatesResolve`), a new node's name is nobody's
and a known one's its own (`CandidatesClear`). The files stay fitting because a write leaves a
file of every entity that had one (`WriteKeepsEntities`), because what a node refers to is a file
when it is written (`EarlierAreFiles`: the order of the writes, with the datasets before the
service, is needed here), and because an undisturbed listing only grows. The theorem
supposes `SeedsFit`: the catalogue lists no dataset twice at first, and the files written by
hand fit whatever it lists. Without it the property is false: a run is refused as long as a hand-written
service serves a dataset nobody lists, or the file of one dataset has the name of another that is listed.

All these invariants were also model-checked, on the instances of their runs or smaller
ones, and so were the hypotheses: each is met by a run that passes.

**Model-checked only.** Liveness (TLAPS does not reason about fairness here): `QueueDrains`,
`RunsFinish`, `RecentIsDeleted`, `IndexCatchesUp`, `RunSettles`. Every safety property of a
passing run has a theorem.

## 5. Disagreements between code and documents

Each is shown by a run that TLC finds violated; PROJECT.json quotes the lines.

1. `AcceptedWorkLost`: an enqueue accepted while `alarm()` writes its rows is
   overwritten by the save at its end. The stale-row repair sends it again much later
   (`RunsFinish` holds in spite of it).
2. `ClaimWedged`: an eviction, or a failing `markRunning` or `markFailed`, leaves
   `current` set. The retried alarm sees it, returns and sets no alarm: the expert's
   queue stands still until somebody edits the storage.
3. `ContinuationDeletes`: the second chunk of a reconcile compares its older
   records with the newest stored posts and marks those deleted. `ExecutorReconciles`
   checks the same property where no reconcile is continued (readable dates, two pages
   that fill the chunk), and there it holds.
4. `LostService`: a distribution keeps the service id that the run which first wrote it had
   minted. If that run died before it wrote the service, the next one mints another id for it, and
   the registry refuses the tree from then on, although every later run completes.

## 6. Further behaviour met while modelling

Some of it disagrees with a document as well. TLC shows each of these on a variant of the runs
above; they follow from one place of the code each and have no run of their own:

- a chunk that reaches its post limit counts as the end of the whole backfill or reconcile
  (`ingest/ExpertPollExecutor.ts:271-274`). A backfill ends there with budget and history left, though
  `docs/architecture/2026-03-12-current-implementation-architecture.md:362-363` has it continue
  until complete; a reconcile ends there and the next one starts at the top again, so what is removed below
  the newest posts that one chunk reads stays active for ever, though line 373 of the same document has it scan the
  remote history;
- a head request that arrives while a backfill is at work is appended behind the bulk tasks that
  wait already, and waits for all chunks of the current task and of the one before it: an unfinished task
  goes back in front of the first pending bulk task. `docs/archive/plans/2026-03-08-polling-workflow-redesign.md:261`
  has it run after the current chunk, and line 164 puts head polls before bulk work. A head request that
  finds no bulk task waiting does run then (`HeadNotOvertaken`);
- a row dispatched to a coordinator that died with a claim (`ClaimWedged`) goes stale, is queued and is
  dispatched to it again, without a limit: its run never ends, though line 621 of the architecture lists the
  repair of stale ingest state. Only what was running there is failed.

Of the rest no document says otherwise, or in general terms only:

- a bulk task whose executor call hangs holds up every request behind it, head requests as well;
- an item that is requeued as stale may still be at work: the run then has more
  experts active than its fan-out, and the expert is polled twice for it;
- a run with an item that was never dispatched is left alone by
  `repairHistoricalRuns`, also when its workflow is dead;
- a launcher that dies between its insert and `workflow.create` leaves a queued
  run that nothing looks at again;
- a lost reply of `workflow.create`, or a finalize step that fails after its last
  statement, turns a complete run into a failed or a running one: for a time, since the
  workflow's own end closes it again (`EndedRunIsClosed`), or, if the launcher learns of its failure
  after that end, a failed one for good;
- a head poll ends at a page without one readable record, and a gap of more than two
  pages between two head polls is never filled;
- a post its author dates in the past widens the date range of the reconcile that
  fetches it, and stored posts outside the window are marked deleted; the last post
  of a repository, once removed, stays active, because an empty window compares
  nothing.

In the index and its queue (documents: `docs/plans/2026-04-27-energy-intel-entity-graph-architecture.md:938-980`):

- two drains that hold rows of one entity may upload in the wrong order: the index
  keeps the older version until the entity is saved again;
- a request coalesced into a row while a drain works on it goes with the row
  when `markComplete` deletes it by its id, and one that is coalesced between the update and
  the batch of a third failure goes to the dead letters with it;
- a writer that dies between save and schedule, or is refused for its depth after
  the save, leaves an index that is behind;
- a drain that dies between a row's third failure and the batch strands the row:
  `nextBatch` does not see it, and only a new request of the same window revives it.

In curation and enrichment:

- a run whose `create` failed can never run: a restart finds no instance, and
  `createQueuedIfAbsent` finds a row. A curator's failed launch is logged and not tried again,
  and a decision that stands is returned as it is: when the insert of the run fails, no death is needed to leave a
  curated post without one;
- an attribution whose `create` failed is found as a row by the step's next attempt, so the vision
  run completes beside a failed attribution (`CompleteIsPassedOn` speaks of a row, not of its success);
- a tweet that is curated before its media are stored is never picked nor enriched;
- a workflow that a repair could not terminate runs on beside a retry, and may store
  its result over that of a run that is complete; an attribution is not
  repeated when vision is.

In the catalogue ingest (documents: `docs/contributor/adding-a-data-adapter.md:109` calls its writes idempotent, which they are):

- a run that misses a known dataset (withdrawn, undecodable, or skipped by shifted
  pages) is refused, because the service still serves it, and so is every later run
  until the dataset is back; a row of a known dataset that comes twice is refused as well;
- a new dataset that comes twice makes a family of two: its series and a file that
  names the series are written before the second file is refused, and while
  the family has one member no later run builds the series node it needs;
- datasets written by a run that died before its service keep naming a service
  that never came, if they are withdrawn before the next run: the registry then refuses the tree;
- a second service, written by hand, that serves datasets of the catalogue is refused by the registry once
  a run has rewritten these: the adapter sets their `dataServiceIds` to its own service;
- two names that differ in `_`, `/` and `-` only get one slug, and each run is refused;
- the sync leaves rows that the tree no longer has, and its upserts clear `deleted_at`:
  an entity that an administrator deleted comes back with the next change of its file.

## 7. Not modelled, and why

- Counters, summaries, error texts and rollups: nothing branches on them.
- Endpoint resolution, caching and rate limits of the Bluesky client: a failing
  request is `ExecuteFails` in one model, `Fail` in the other.
- Topic matching: `Matched` is any set of posts.
- Search, threads, links and the full-text index; the HTTP, MCP and web layers:
  sequential, or without state.
- The catalogue ingest: dry runs, validation failures (they refuse the run before any write), reports,
  variables and series of observations, and the other adapters, which differ in what
  they fetch and build; temporary files, which no reader sees.
- Enrichment: the providers and what they answer (a result is there or not),
  schema versions other than the default one, phases and counters, how long a run has been
  without progress (any active run may be called stale), posts deleted under a run
  (abstracted into `StepExhausted`); that an import of a post overwrites the embed of its payload, and with it which
  enrichments the post calls for (a post's traits are constants). Grounding runs are in the model and not in the instance.
- Curation: lists and exports, expiry of candidates by query, the relevance of a
  flag.
- The entity graph beyond snapshots (edges, evidence), and paging of the entity backfill;
  the backfill's batch is `SaveAndSchedule`.
- Editorial picks, the sync's transaction, migrations: sequential statements whose
  hazards are those of one SQL statement.

## 8. Plan

Done: the ingest pipeline (`PollTasks`, `ExpertPollCoordinator`, `IngestRun` with
`RunLedger`, `ExpertPollExecutor`), the index (`EntityProjection`), enrichment and curation
(`Enrichment` with `EnrichmentLedger`, `Curation`), the catalogue ingest (`DcatIngest`), and the proofs of section 4. Left:

1. `EditorialPicks` and the paging of the entity backfill, with its cursor and resumption.
2. The sync with concurrent edits by administrators; the larger adapters (EIA), whose runs share
   the harness modelled here.
3. The pure decisions of matching and the enrichment planner as operators against
   reference definitions.
