# Verification of the MEV explorer

TLA+ models of the parts of this repository in which the order of events
decides the result, the TLC configurations that check them on small instances,
and theorems about them that the TLA+ proof system (TLAPS) checks for every
value of the constants. Paths below are relative to the repository root.

Contents: [the system](#the-system) ·
[modules](#modules-and-the-code-they-model) · [runs](#runs) ·
[bounds](#bounds) · [fairness](#fairness) · [proofs](#proofs) ·
[disagreements](#disagreements-between-the-code-and-its-comments) ·
[plan](#plan)

To repeat the work, in this directory:

    tlc -workers 2 -config MCRunScheduler.cfg MCRunScheduler.tla   # a run
    tlapm RunScheduler_proofs.tla                                  # the proofs

`PROJECT.json` lists components, runs, the lines each definition models
(`map`), the hazards the properties are for, and for each property a mutant: a
definition with a slip in it, written beside the one it mutates and named
`..._Bug...`, under which TLC finds the property violated.

## The system

Four services on Node.js share one PostgreSQL database and talk to an Ethereum
node. JavaScript runs each callback to completion, so what interleaves inside a
process is what lies between two `await`s; between processes it is statements
and transactions.

| Component | State it keeps | Operations | Status |
| --- | --- | --- | --- |
| agent-api run scheduler (`apps/agent-api/src/scheduler.ts`) | slots taken, keys in use, the waiting array, one permit for each running job | `run`, `drain`, `complete`, `runChild` | modelled |
| agent-api Discovery conversations (`server.ts`, `runner.ts`, `store.ts`) | live pi sessions by key, the durable row of a conversation, abort signals | a turn: read the row, queue, load or prompt, settle, save; abort; restart | partly: other routes, job and bundle tables, and the tools of a turn other than the child it may start are left out |
| explorer-api block inspector (`apps/explorer-api/src/inspector.ts`) | the `inFlight` map, the `backgroundTail` promise chain | `inspectBlockIfNeeded`, `withTimeout`, `backgroundInspect` | modelled |
| inspect: fetching and persisting a block (`packages/inspect/src`) | rows of a block, its evidence artifacts | fetch, DELETE, upsert, INSERTs, COMMIT, evidence puts | partly: whose rows they are, not what is in them |
| explorer-api backfill (`backfill.ts`) | `status`, `stopRequested`, `runPromise` | `startBackfill`, `stopBackfill`, `run` | modelled |
| explorer-api fill worker and head-follower (`backfill.ts`, `inspectorLoop.ts`) | a cursor, a scan target, `lastInspected` | `fillLoop`, `nextUncovered`, `tick` | modelled |
| schema migrations (`packages/db/src`) | an advisory lock, the ledger, one memoised promise for each subset of migrations | `retryableOnce`, `runMigrations` | modelled; the DDL only as how often it was committed |
| agent-api contract analysis (`contractAnalysis.ts`, `analysisEvidence.ts`) | in-flight map over the bundle tables | ask for evidence, look up, join, start a child, save, list an address | modelled |
| trace-api candidate evidence (`candidateAnalysis.ts`) | none | pseudocode, else bare bytecode | partly: verified sources end at once and are left out |
| trace-api decompilation gateway (`decompiler.ts`) | in-flight map, the artifact rows with their retry times | look up, call with a timeout, store | modelled |
| decompiler-api (`service.ts`, `runner.ts`) | worker slots, child processes | accept or refuse, spawn, SIGTERM, SIGKILL, collect | partly: validation and sanitising are pure functions |
| trace-api workspace (`workspace.ts`) | runs by incident, the discovery queue, the enrichment cache, two files | poll, first request, discovery, import, names, restart | modelled |
| discovery runner (`scripts/discovery-runner.cjs`) | a queue of jobs, a child process | queue, spawn, kill, answer | modelled |
| trace-api evidence import (`contractEvidence.ts`) | none between imports | code, deployment, source, relation | partly: `contractPresentation` only reads |
| evidence store (`packages/evidence/src/postgres.ts`) | content-addressed rows, sources, relations, artifacts | the transactions of its puts | partly: those an import and the gateway use; reads, traces, flows and summaries are left out |
| agent-api candidate catalogue (`candidateCatalog.ts`) | a cache with an expiry and a bound | load, prune, look up | not modelled, see [the plan](#plan) |
| agent-api job leases and bundle store (`store.ts`) | leases with expiry, bundle versions | claim, heartbeat, complete, store | the leases have no caller yet; bundles are in `ContractAnalysis` |
| agent-api prompts, signatures, tool arguments | none | validation, wording | not modelled: pure |
| explorer-api mempool watcher (`mempoolWatcher.ts`) | `filterId`, `firstSeenAt`, when it started | `start`, poll, recreate, evict, `classify` | modelled |
| explorer-api read side and lookups; trace-api trace evidence, trace cache, routes | read-through caches | queries, arithmetic, translation | not modelled: nothing a later request depends on |
| inspect: decoding and detection | none | one block to its facts | arbitrages and sandwiches planned; ABI decoding not modelled |
| trace-graph, flat-store, config, rpc, eth | none, or files of one caller | pure functions, file operations, one provider | not modelled |
| web front ends, deployment scripts | browser state | rendering, deployment | not modelled |

How they interact: the explorer's HTTP handlers, backfill, fill worker and
head-follower all ask the block inspector, which talks to the node and writes
the block's facts in one transaction and its evidence after it. The Discovery
handler reads and writes its conversation around a call of the scheduler, and a
turn may lend its permit to a contract analysis, whose evidence comes from
trace-api, which asks decompiler-api when there is only bytecode. trace-api in
turn sends the addresses of an incident to the discovery runner, a process of
its own, and turns what it finds into shared evidence. All services start with the
migrations of the database they share.

What is hard about it, and what correct means there:

* **Scheduler.** `drain` skips a job whose session is busy and starts a later
  one. Turns of one session must neither overlap nor change places, a slot must
  not be lost or left idle, and a child must not wait for its parent's slot.
* **Discovery.** The row is read before a turn is queued and written after it
  has settled; between the two run other turns, evictions, aborts and restarts.
  The model must be shown one selection's turns, each once, and each turn must
  end.
* **Inspector.** The map is read after an `await`; a timeout rejects the
  promise but leaves its work running, which may commit later. Success must mean
  committed facts, and no request may wait for ever.
* **Backfill.** Three module variables are shared by activations that wait for
  each other. A stop must not be forgotten, the status must be true, and a
  finished range must be covered.
* **Fill worker.** It acts on a head that may be old and on a scan cut in
  windows, skips failures, and forgets everything on restart. No confirmed
  block may be left behind for good.
* **Migrations.** Services of different versions start at once, connections
  break around COMMIT, and processes die while they hold the lock. DDL must be
  committed once and nobody may go on without it.
* **Contract analysis.** Three services, each with its map of what is in flight,
  each able to time out, restart or lose an answer while the others go on. One
  child must run for one bundle, what a model is told must be stored, pseudocode
  that was paid for must not be forgotten, and neither a call nor a worker slot
  may be lost.
* **Mempool watcher.** Polls overlap, and one that fails gives up the filter of
  another. "Private" is concluded from what was not seen, so it must not be said
  while the watcher could not have seen, and the watcher must get its filter back.
* **Workspace.** A poll finds no run, awaits, and starts one; an aborted run
  leaves its job with the runner; files outlive both processes. What is called
  ready must be on disk, of one snapshot, and an error must not be the end.
* **Evidence import.** Two incidents of a block import the same contract by
  transactions that insert, lock and compare. What is committed must stay, and
  no import may wait for another's rows for ever.


## Modules and the code they model

An action is what runs between two awaits, or between two answers of the
database where several connections matter. A mapped definition stands beside
the lines it models in `PROJECT.json`; those that model a library, the node or
the database from how the code uses it are marked external there.

**`RunScheduler`** models `scheduler.ts`. `Run(j)` is a call of `run`,
`Complete(j, outcome)` the settlement of its task; each contains the `drain` it
ends with. `active` and `activeKeys` are the fields of those names. The array
`waiting` is the set of jobs in phase `"waiting"` ordered by `ticket`, the
number of their push; `splice` takes a job out and keeps the order of the rest.
`Started` says which jobs a `drain` starts without its loop; `DrainLoop` in
`MCRunScheduler` is that loop and `DrainIsLoop` compares the two. `RunChild`,
`ChildDone` and `RefuseNested` are `runChild` of a permit. `SessionLanes` is
what the scheduler promises: a lane of jobs for each session, of which only the
head runs, and no idle slot while a head could run. A lane is what stands
`Ahead` of each job in it.

**`DiscoverySession`** instantiates `RunScheduler` and surrounds it by one
conversation: `Read` (the handler reads the row), the submission with the
scheduler's `Run`, `Answer` (what a started turn does next: skip, create or
rehydrate a session, prompt, save), `PromptReturns` with the settlement, `Abort`
(the client disconnects while the signal that `runAnalysis` was given can tell)
and `Crash`. `live` and `order` are the runner's map
of live sessions with its eviction order, `row` the durable row. A conversation
is the sequence of turns the model has been shown; texts, events and tool calls
are left out, a child task excepted.

**`Inspector`** models `inspector.ts` down to the transaction of
`inspectBlock.ts` and `writeBlock.ts`. The request of a caller (`pc`) and the
work it has started (`work`) are two processes, because `withTimeout` rejects
the first and leaves the second running. Under READ COMMITTED a DELETE takes
its snapshot when it starts and then waits for row locks, so it is two actions,
`Delete` and `DeleteReturns`, and `doomed` is what it found. Rows of a
block with random keys are modelled as whose transaction wrote them: two owners
mean facts stored twice. `InspectorPromise` is what callers may rely on.

**`Backfill`** models `startBackfill`, `stopBackfill` and `run` of
`backfill.ts`, with `status`, `stopRequested` and `runPromise` shared by several
activations; **`FillWorker`** models `fillLoop` and `nextUncovered` of the same
file and `tick` of `inspectorLoop.ts`, over one table. Both take the inspector's
answers from `InspectorPromise`: a success covers the block, and a block may be
covered at any time for somebody else, a page view or work that was given up
(`CoveredMeanwhile`, `CoveredElsewhere`). `Corpus` holds what
the two share, the table and the life of the process. In `FillWorker` a
node answers with a head up to `Lag` blocks old (`HeadAnswers`), and the query of
a window answers with its first gap (`ScanTo`).

**`Migrations`** models `runMigrations` and `retryableOnce` of `packages/db`.
A slot is one memoised promise of one process, and its run: `Ensure` starts it,
`Migrate` is its next statement, `StatementFails`, `ConnectionLost` and `Crash`
interrupt it, a COMMIT whose answer is lost included. `SchemaLedger` is what
the database shows: a migration's DDL and its row appear together and stay.

**`ContractAnalysis`** models the tool `request_contract_analysis`. A call is at
one of `Places`, each an `await` of `analyze` in `contractAnalysis.ts`; `found`
is what the cache answered before the map is looked at. `inFlight` is the map;
its entry is the call that owns the child, and `Settle` answers all that share
its promise. `stored`, `newest` and `listed` are the bundle tables, `Choose` the
`getBundles` that `addBundleAddresses` ends with. **`Decompilation`** models the
gateway and the service behind it: `flight` is the gateway's map, `artifact` its
row, `process`, `signalled` and `heard` the worker slots, the signals, and
whether a client still listens. **`Analysis`** composes the two: the evidence a
call resolves is the gateway's answer, and a call that gave up leaves its request
behind. The verified sources of `candidateAnalysis.ts` would end `resolving` at
once and are left out.

**`Workspace`** models `workspace.ts` and the discovery runner. A poll is a tab's
`getWorkspaceStatus`, cut at its awaits (`Poll`, `Resolve`, `Look`, `Decide`,
`Enrich`); a run is `prepareWorkspace` (`Traces`, `Post`, `Check`, `Record`).
`turns` is trace-api's `discoveryQueue`, `jobs` the runner's; a job whose `for`
is `None` has lost its client. `discovered` and `recorded` are the two files, by
the snapshot they are of. `Abort` is the timeout of the post, `Restart` that of
trace-api.

**`EvidenceImport`** models `importDiscoveryEvidence` of several incidents over
the transactions of the evidence store, one statement at a time: `stored` is
committed, `pending` is what an open transaction holds. `Keep` is insert-if-absent
and compare, `Lock` and `Write` are the look-up `FOR UPDATE` and the upsert of a
source, `Throw` a rollback with the import's `catch`.

**`MempoolWatcher`** models `mempoolWatcher.ts` and the node's filters. A poll is
at one of `Places`: its filter is being created, it asks one, or an error is on
its way. `Failed` is the `catch`, which sets `filterId` to null whatever it holds
by then. `entered` and `minedAt` are when a transaction came to the public mempool
and the timestamp of its block; `noted` is history, what has come since a filter
was created. `classify` is a function of the state, so what a block view would be
told is asked in every state.

`MC...` modules only choose constants, except for what is said above of
`MCRunScheduler`; `MCWorkspace` also chooses what is on disk at first. `..._proofs` modules hold the theorems.

## Runs

| Run | What it shows |
| --- | --- |
| `scheduler` | No slot is lost or left idle, turns of a session neither overlap nor change places, a permit carries one child at most, a job settles once. Slots, exclusion, order and conservation are parts of `IndInv`, the invariant of the proofs; `ImplementsLanes` is the refinement of `SessionLanes`, `DrainIsLoop` justifies `Started`. |
| `discovery` | Whatever is evicted, reset, aborted, restarted or selected in between: the model sees turns of one selection (`NeverStale`), each once and the asked one last (`TurnsOnce`); a turn whose client left in the queue is never started or saved, nor part of what a later turn goes on with (`LeftIsSkipped`); each turn ends (`EveryTurnEnds`); and the turns keep the lanes of `SessionLanes`, emptied by a restart (`KeepsLanes`). The proofs' `IndInv` adds that the scheduler keeps its invariant under all this, that no session is at work for two turns, and that a turn waits only for one that can move (`WaitsForTurn`). |
| `inspector` | With a node that may hang: the background queue is serial, one promise for each block, success means committed rows, each request is answered, and the code keeps `InspectorPromise`. Over failures and restarts facts are stored once, unless a request for their block timed out (`FactsOnceInTime`). |
| `inspector_facts_once` | Violated: `FactsOnce`, once a request has timed out. |
| `backfill` | Requests one after the other: the status is true, a finished range is covered but for blocks that failed twice and its tally adds up (`DoneMeansCovered`), a stop stands (`StopStands`), and each accepted request gets its run; `BackfillIndInv` is the invariant of the proofs. |
| `fill_worker` | No gap is lost by the windows or the jumps (`PassComplete`), neither loop asks for an unconfirmed block, the follower goes forward, and each confirmed block is eventually inspected while the process lives. |
| `migrations` | The lock is exclusive, DDL is committed once, a service goes on only with its migrations, the code keeps `SchemaLedger`, and each run ends. |
| `analysis` | Through three services with timeouts, refusals, restarts, failing statements and clients that leave: one child for each bundle (`IndInv`), what a model is told is stored (`ToldIsStored`), stored pseudocode is not forgotten (`NeverForgotten`), each call ends (`EveryCallEnds`), each worker slot comes back (`SlotsReturn`). |
| `workspace` | Over aborts, failures, restarts, a reorganised block and any files left on disk: the two queues agree (`TurnsAgree`, checked with the rest of the proofs' `IndInv`), a ready workspace is on disk (`ReadyIsOnDisk`), the names told are of the snapshot told (`ToldTogether`), and a workspace that is polled becomes ready once nothing more fails (`BecomesReady`). The last three except `disturbed` projects, see below; the fourth also the workspace whose import conflicts for good, which the run `evidence_retry` shows: here a failed import may be retried with success. |
| `evidence_import` | Statement by statement, with failures and lost answers of COMMIT: an import that ended well has stored what it found, and a conflict is about the relation of another incident (`OutcomeTrue`); committed evidence stays (`EvidenceStands`); whoever holds the row another waits for can go on (`WaitsEnd`); no import waits for ever (`EveryImportEnds`). |
| `evidence_retry` | Violated: `RetrySucceeds`. |
| `mempool` | A public transaction is called private only if it came more than a retention before its block is looked at, or came since the watcher started and its report was lost with a filter or has not been read (`PrivateIsTrue`); the watcher ends up with a filter the node knows and keeps it (`WatchResumes`). |

## Bounds

| Run | Instance | Why it is enough |
| --- | --- | --- |
| `scheduler` | 4 jobs: two of one session, one of another, one ephemeral; limit 2; 186 thousand states | A blocked session is overtaken while a slot is free, and a job waits behind two running ones, with and without a child. |
| `discovery` | 3 turns, one of another selection, one with a reset; limit 1, one live session, one restart, one disconnect; 81 thousand states | Two fingerprints compete for the row and for the one place in the cache, so eviction and rehydration happen between read, start and save. |
| `inspector` | A view and the fill worker on one block, the follower on another; one failure, one restart; 452 thousand states | Direct and queued requests meet at one block, two queued ones at the queue, and work outlives its request. |
| `backfill` | Ranges 1–2, 2–2 and 1–1; two failures, one rejected query, one stop; any block covered meanwhile; 15 thousand states | A block can fail both its attempts, and a third request meets a run that is being stopped. |
| `fill_worker` | Floor 0, windows of 2, chain from 3 to 5, lag 1, catch-up 1, 1 confirmation; one failure, rejected query and restart; any block covered elsewhere at any time; 258 thousand states | Three windows, the last one cut; the head may go back; the follower leaves blocks out; blocks appear before and behind each cursor. The real window is 10,000 and the real catch-up 25: the proofs are for every value. |
| `migrations` | 4 promises in 3 processes over 2 migrations, one with another checksum; 2 faults; 98 thousand states | Different subsets and different code meet at one ledger, and a failed COMMIT can be followed by another failure. |
| `analysis` | 2 calls of one turn for one codehash; 2 artifactRefs; 1 slot; one fault of agent-api or its database, one loss of the others; 64 thousand states | The calls meet at each map and at the permit; a slot is kept by a process nobody listens to, so the next call is refused; evidence changes from bytecode to pseudocode between two calls. Turns differ only in the permit and in leaving. |
| `workspace` | 2 tabs of one incident or of two; 2 blocks, one reorganisation; 2 run states at once; one fault; 521 thousand states | Two polls miss a run at once; a job that was given up is ahead of the next run's; files of the other snapshot are found, and a run is overtaken by a restart. |
| `evidence_import` | 2 incidents, 2 answers of the code endpoint, 2 faults; 19 thousand states | Each statement of one import meets each of the other, with both or neither verified, and a repeated import is interrupted again. |
| `evidence_retry` | 2 incidents, no fault; 1,551 states | The shortest history of the conflict. |
| `mempool` | 1 transaction, 2 polls, a retention of 2 ticks of 5, 2 faults; 434 thousand states | Transactions do not influence each other. A second poll is in flight while the first fails, creates or asks; the clock passes a restart, a whole warm-up after it, and an eviction. |

Bounds are the constants whose names begin with `Max` (but `MaxLive` and
`MaxCatchup`, which the code has), `LastHead` and `Polls`; each is named in the guard of
the one action it stops. `Overlapping` says whether clients post while a post
is unanswered (`FALSE` in the run, see the disagreements).
Deadlock is checked in every run; a model that may stop says where (`Idle`,
`Quiet`, `Gone`).

## Fairness

* `Inspector`, `HangFairness`: callbacks run and timers fire, and nothing is
  assumed of the node; `EveryRequestAnswered` needs no more.
* `DiscoverySession`: weak fairness of what a turn does after an answer; strong
  fairness of `PromptReturns`, because a prompt makes finitely many tool calls
  before it returns, and without it a model could start children for ever.
* `Backfill`: weak fairness of a run's steps; `FillWorker`: of the worker's
  steps. Nothing is assumed of the follower, which is optional, nor of the
  chain. Failures are bounded, so an inspection is not failed for ever.
* `Migrations`: weak fairness of a run's statements, strong fairness of `Lock`,
  because PostgreSQL queues those that wait for an advisory lock.
* `Analysis`: weak fairness of what the event loop, the database and the timers
  do next; that a child at the model provider ends, well or not; and that the
  kernel ends a process that got SIGKILL. Nothing is assumed of a decompiler
  process that was not killed: it may ignore SIGTERM.
* `Workspace`: weak fairness of a tab's polls, of a run's steps and of the
  runner's child, which `discovery-runner.cjs` kills after its timeout.
* `EvidenceImport`: strong fairness of an import's statements, because
  PostgreSQL gives a row to those that wait for it in turn; weak fairness of
  `Start`, because a browser asks for its workspace again.
* `MempoolWatcher`: weak fairness of the interval and of each poll, whose request
  is answered or fails. That an error arrives in the same batch as the id of a
  new filter, and is handled before the filter is asked, is a coincidence, and
  counted as a fault (`CreatedInBatch`): for ever, it would undo every filter.
* `RunScheduler` on its own has safety properties only; that a job is started
  follows from `WorkConserving` when tasks end, and is checked of turns
  (`EveryTurnEnds`).

## Proofs

TLAPS proves, for every value of the constants that satisfies the named
assumptions of the modules, what `PROJECT.json` lists under `theorems`. Each
proofs module proves its `IndInv` inductive, one lemma for each action, and
draws the theorems from it. The same `IndInv` is an invariant of a run, but for
those of `EvidenceImport`, `MempoolWatcher` and `Decompilation`, of which runs
check the consequences.

* **`RunScheduler_proofs`** (`LimitAssumption`, `KeyAssumption`): slots,
  exclusion, order, conservation, permits and settlement. The argument turns on
  `WorkConserving`: if no slot was idle before an event, the event frees at most
  one slot or one key, so a `drain` starts at most one job, and it is the oldest
  that can run. `TicketsOrdered` makes "oldest" unique. With that, the tasks that
  run are the heads of their lanes, and all heads when a slot is free (`HeadsRun`):
  a submission is an arrival, a settlement a departure, and the code implements
  `SessionLanes`. `LoopOfDrain` proves of `Started` the rules of the loop it
  stands for, one turn of the loop at a time.
* **`DiscoverySession_proofs`** (`LiveAssumption`, `BoundAssumption`,
  `SchedulerAssumption`): `NeverStale`, `TurnsOnce`, `LeftIsSkipped`. A
  conversation is only ever made from the row, a copy of it or a live session,
  so it suffices that those three are of one selection (`OneSelection`) and hold
  no turn that is still to be asked (`EachOnce`). So a turn whose client leaves
  in the queue is in none of them then; that it never will be, whatever starts,
  is saved or restarts until the scheduler skips it and after, is an induction of
  its own (`StaysGivenUp`). The rest is composition:
  `Proved` is `RunScheduler_proofs` with the turns as its jobs, so each step of
  a turn that calls the scheduler keeps the scheduler's invariant, and a restart
  starts it anew (`SchedulerKept`). A turn is at work only while its job runs
  (`Engaged`); hence no live session is put to work by two turns at once, and
  the provider has `Limit` turns at most (`SessionsApart`). A turn whose job
  runs is also never stuck: so, the scheduler being work-conserving, a turn that
  waits has one before it that moves by itself or when its child ends
  (`NobodyStuck`). And since a step of a turn is a step of the scheduler, or none,
  or a restart, the turns implement `SessionLanes` with restarts that empty the
  lanes (`TurnsInLanes`).
* **`Inspector_proofs`** (`CallerAssumption`, `BoundAssumption`): the queue, the
  map, the meaning of success and the refinement of `InspectorPromise`; that
  queue, map and timer never wait for each other in a circle (`AnswerComes`, the
  part of `EveryRequestAnswered` that needs no fairness); and,
  unless a request for the block has timed out, `FactsOnceInTime` and
  `OneBackgroundInspection`.
  The strengthening says that the chain is the queue (`QueueIsChain`) and that
  the map has an entry exactly while its owner is unanswered; `Punctual` adds
  that work outlives its request only for a block in `late`, the history of
  timeouts.
* **`ExplorerApi_proofs`**, on three modules that share no step.
  * `FillWorker` (`ChainAssumption`, `BoundAssumption`): `PassComplete`,
    `OnlyConfirmed`, `FollowsForward`. Rows are never taken away, and whose they
    are does not matter, so "all below
    the cursor is there or has failed in this pass" (`PassedTo`) is kept by
    windows, jumps and failures; both loops act on targets that were confirmed
    when they were computed, and so stay confirmed.
  * `Backfill` (`RangeAssumption`, `RequestAssumption`): `StatusTrue`,
    `DoneMeansCovered`, `StopStands`. `Walks` says what each activation has left
    behind, and is kept whoever posts when (`NoBlockLeft`); so is `Promised`: nobody
    waits for a run that has returned (`NoneForgotten`). The other parts speak
    of the shared variables, and are kept because then one activation walks at a
    time and at most one waits, for that one (`OneRun`): so only while clients
    post one after the other, which is the hypothesis `~Overlapping` of those
    theorems. With `Overlapping` they are false, see the disagreements.
  * `MempoolWatcher` (`TimeAssumption`, `PollAssumption`: finitely many polls are
    in flight, so a fresh filter id exists): `PrivateIsTrue`. A filter that the
    watcher still relies on is the one in `filterId`, and only that one has been
    asked (`Holders`); so what it has noted is in an answer under way, sighted, or
    older than a retention (`Reported`), however polls overlap and fail.
* **`Migrations_proofs`** (`SlotAssumption`, `NoneAssumption`,
  `BoundAssumption`): exclusion, DDL once, readiness and the refinement of
  `SchemaLedger`. Only the holder of the lock changes the ledger (`LockHeld`), so
  what it has read stays true (`LedgerKnown`) and what is behind it stays
  migrated (`PrefixMigrated`), across lost connections, which release the lock.
* **`EvidenceImport_proofs`** (`NamesDiffer`, `FaultsAssumption`):
  `OutcomeTrue`, `EvidenceStands`. A row is held only inside the transaction that
  wrote it (`RowsFit`), an inserted row only before it is there (`HoldsFit`), and
  an import has written what its place says (`Reached`): so a verified source has
  its body (`SourceHasBody`) and only the relation can conflict. As each import
  takes its rows in the same order, a chain of waits has at most two links
  and ends in a transaction that can go on (`NoDeadlock`).
* **`Workspace_proofs`** (`NoneAssumption`, `BoundAssumption`): `TurnsAgree`,
  `ReadyIsOnDisk`, `ToldTogether`. Only the first run in `turns` is posted, so the
  job of a run joins the runner's queue behind the jobs that were given up
  (`LastJob`): when it has been answered none of them is left to write over its
  file. A project has one run at work (`OneRun`), what a poll saw of its files
  stands until it decides (`SeenStands`), and names are kept only of what is ready
  (`NamesStand`). All this is of projects that are not `disturbed`; the queues
  agree for all.
* **`Analysis_proofs`** (`CallAssumption`, `FaultAssumption`, `SlotAssumption`):
  of `Decompilation`, one promise and one process that is heard for a codehash
  (`OneCall`), and only for an artifact that is not stored (`AsksForMissing`),
  from which `NeverForgotten` follows; its assumptions are stated in each lemma,
  because that module is only instantiated. `ContractAnalysis` keeps
  `AnalysisIndInv` with any evidence; the composition implements it and, with
  calls as requests, `Decompilation`, so that `ToldIsStored`, `NeverForgotten` and
  `IndInv` hold of it.

Left to TLC: liveness under fairness, which the prover does not handle
(`EveryTurnEnds`, `EveryRequestAnswered`, `RequestServed`, `BecomesReady`
and the like), of which the proofs have the part that needs no fairness: whoever
waits, waits for something that can move (`NobodyStuck`, `NoCircle`,
`NoneForgotten`, `NoDeadlock`); and `DrainIsLoop`, because `DrainLoop` is recursive: what the loop
computes for every queue needs an induction over it, of which `LoopOfDrain` is the
step.

## Disagreements between the code and its comments

Two runs expect a violation: each shows what the code does where a comment or a
decision record says something else. The quotations are in `PROJECT.json`.

1. **Facts stored twice after a timeout** (`inspector_facts_once`,
   `writeBlock.ts:44`). The timed-out inspection goes on while the next request
   starts its own; both find nothing to delete and both insert rows with fresh
   UUIDs.
2. **A shared relation names one incident** (`evidence_retry`,
   `contractEvidence.ts:143`). Its metadata has the project's name, and is
   compared with what is stored: the import of every later incident of the block
   conflicts, on every retry, and its workspace never becomes ready.

The following were found while modelling, and are left out of the properties
above rather than made into runs of their own.

* **A live session may lack durable turns** (`runner.ts:202`). The key of a live
  session holds the effort, the row is compared without it. After a turn at
  another effort the older session is found and prompted with the question alone;
  `docs/adr/012` (line 78) calls it a cache over durable state.
* **Two turns of one conversation can lose one** (`server.ts:448–468`). At
  different keys they save the row from what each read.
* **A client that leaves early is not noticed** (`server.ts:368`, `446`). The
  abort signal is created only with the call of `runAnalysis`: a client that
  closes its connection while the row is read has closed it before anybody
  listens, and its turn runs in full.
* **Evidence is not completed** (`writeBlock.ts:71–75`). If a put fails after
  COMMIT the block already counts as inspected, and no later request writes its
  evidence.
* **Two backfills walk together** (`backfill.ts:76`, against the comment at
  66–69). All requests that arrive while a run stops wait for the same promise,
  and none looks again: hence `Overlapping`.
* **A failed query ends the process** (`backfill.ts:229` for the fill worker,
  against 138–139; `backfill.ts:105` for the manual backfill). It is awaited
  outside the `try`, in a loop nobody awaits.
* **The first of two writers of a source may lose** (`postgres.ts:545`).
  `FOR UPDATE` finds no row to lock, and both insert; the second overwrites,
  where `docs/design/wp-shared-evidence-lazy-discovery.md` (lines 121–122) lets
  conflicting hashes fail. `EvidenceStands` says that this is the only way.
* **Two polls that miss at once start two runs** (`workspace.ts:344–352`, against
  the comment at 77–78). `runs.set` comes two awaits after `runs.get`: the later
  run replaces the earlier, whose steps go on over the same files. `disturbed`
  marks such projects, and those found on disk while the runner still had a job
  of theirs. Also, "(run killed)" at 238 is not so while the job waits or runs at
  the runner, and a ready state is kept for the life of the process although its
  block may have been replaced.
* **The newest bundle may be another's** (`contractAnalysis.ts:207`). A candidate
  whose address is not listed yet is handed the newest bundle of its codehash,
  whatever evidence that one is about, and it is recorded under the key of the
  evidence the call resolved.
* **A transaction that was seen is called private** (`mempoolWatcher.ts:104`,
  where the comment at 77–80 says "yet we never saw the tx pending"). A sighting is
  dropped a retention after the transaction was first seen (61), while its block
  counts as covered for a retention after its own timestamp: what was pending for
  two minutes, or whose block is looked at late in its two minutes, has no sighting
  left. Also, the watcher is warm by the time since it started, not since it had a
  filter, so what a lost filter had not reported is called private. Private is a
  definite verdict, and `mempoolStats.ts:31` keeps the first one that is stored.
  `PrivateIsTrue` names these ways, and says there is no other.
* **A second child for a bundle just stored** (`contractAnalysis.ts:202–221`).
  The cache is read, then the map: a call that read before another's save and
  looks after it left the map runs its own, where `docs/adr/016` (line 235) has
  "one durable result". There is still one child at a time, and the result is
  stored.
* **A response cut off is never settled** (`decompiler.ts:109–135`). When the
  connection breaks after a response began, neither `end` nor the request's
  `error` comes: the promise stays in the gateway's map and joins all later
  requests for that contract until trace-api restarts. agent-api's own timeout
  contains it (`EveryCallEnds`).

Smaller: an advisory lock whose release fails on a connection that lives on
(`migrations.ts:155–160`) would go back to the pool with it, which is not
modelled; `onQueued` is called for a job that
the `drain` of the same call starts (`scheduler.ts:56`); the background queue
moves on when a request times out although its work still uses the node, so
the one connection of the comment in `inspector.ts:60–64` is kept only while
nothing times out; a client that closes its connection aborts its run
(`server.ts:898–905`), while ADR-016 (lines 255–259) lets a run go on.

## Plan

Next to model, in this order; a new module may take the place of runs that have
said what they have to say.

1. **Detection**: arbitrages and sandwiches as functions against a reference
   definition over small blocks.
2. **A turn with its analyses**: `DiscoverySession` over `ContractAnalysis`, so
   that `Leave` and the permit come from the turn itself.

Not modelled, and why: the **candidate catalogue** keeps entries under their
fingerprint, so what it returns is what was selected or an error, whenever it was
loaded; **job leases** have no caller; the **read side** and the **lookups** keep
nothing that a later request depends on; **ABI decoding**, **trace-graph**,
prompts and validation are functions without order or state, whose difficulty is
in the data; the **front ends** render.

Next to prove: that `Inspector` composed with `FillWorker` and `Backfill` keeps
what each of them keeps alone. Their side is ready: they use of the inspector
that a success covers the block, and leave it free to cover any other.
