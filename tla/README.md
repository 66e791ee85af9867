# A TLA+ model of ds4_on_spark

`ds4_on_spark` runs large models on a fleet of small machines. A coordinator takes
requests over HTTP, keeps them in a durable SQLite queue, and a background
dispatcher claims them in cohorts, runs the cohorts against vLLM services and
settles the results. Around this core there are stores of KV state, channels that move
tensors and files between nodes, programs that lay out and launch the pipelines, batch
clients and operator tools. This directory holds the TLA+ development beside that code:
the modules, the TLC configurations, the TLAPS proofs and `PROJECT.json`, which maps every
definition to the lines it models.

## Inventory

Paths are below `v2/src`, or `scripts` and `v2/scripts` where the file name says so.

| Part | State | Operations | Hard behaviour | Module |
|---|---|---|---|---|
| Request queue (`queue.py`) | tables `requests`, `batches`, `kv_entries`, `kv_shard_entries`, `compute_leases`; notice files | submit, prepare, claim, refill, finish, transport retry, heartbeat, reap, cancel, status | reads in autocommit before the write transaction, leases that expire under live workers, crashes, eviction under capacity | `InferenceQueue` |
| Batch worker (`worker.py`) | claims in execution, cancel events | run_once, incremental batch, rolling stream, `_finish_pair`, `_heartbeat` | late results, a lost lease inside a run, cancel of one request of a cohort | `InferenceQueue`, `Dispatcher`, `Cohort` |
| Continuous dispatcher (`api.py`, `dispatcher_resident.py`) | pending cohorts, their unfinished ids, plans of resident services, stop flag | tick: finish done, heartbeat, refill; submit cohort; shutdown | cohort threads change the counts while a refill plans with them; heartbeat against settling | `Dispatcher` |
| Endpoints (`api.py`, `api_stream.py`, `api_chat_render.py`) | cursor, pending and streamed ids of a stream | admit, submit, poll, collect, stream | an event log read in pages while attempts are repeated | `ApiClient` |
| Resource governor, memory trim | last sample, cooldown | before_refill, refresh, trim | stale samples stored by another thread | `Governor` |
| External KV registry, KV service (`ds4_kvcache`) | objects, shards, pins, leases | declare, touch, lease, pin, transition, evict, commit, restart | states that callers choose beside states the registry concludes, read-modify-write of pins, evict against pins and leases | `ExternalKv`, `LaunchPlan` |
| KV directives (`kv_cache.py`) | directive, plan and prefix of a request | resolve, accept, batch key | the file changes between resolve and dispatch | `KvDirective` |
| JIT KV prefetch (`jit_kv.py`) | sample window, open_until | prefetch, record, allow | results that arrive after the circuit opened | `JitKv` |
| Runners (`runners.py` and its helpers) | chunks, streams, results of a cohort | chunk, post, split, stream, cancel, early stop, fall back | part of a chunk fails; deltas cut markers anywhere | `Cohort`, `Runners` |
| Topology, pipelines, gate | layers, nodes, services | load, override, assign, ready | remainders, overlap, an override | `Topology` |
| Deployment planning | deployment, scripts, manifest | plan, write, start | the same cut in two programs | `LaunchPlan` |
| Transfer (`ds4_transfer`) | stripes, partial file; queues of a chain | send, receive, rename; feed, copy, forward | retries against a receiver that accepts once; threads that die | `StripedChannel`, `Waterfall` |
| Tensor channel (`ds4_vllm_runtime`) | sequence numbers per peer | metadata, ready message, stripes | both ends choose the transport alone | `TensorChannel` |
| HMA packages (`ds4_hma`), persistent offload (`runtime_mods`) | parts, packages, indexes on disk | write, lookup, load, restore | writers without a lock, a crash between two files | `HmaStore`, `OffloadStore` |
| Lifecycle and relaunch scripts | ranks, pid file, scripts on nodes | stop, write, launch, probe, clean up | ssh fails before or after the script ran | `Lifecycle` |
| Evaluation runner, queue benchmark | pending ids, cursor, answers | submit, poll, grade, abort, collect | log, status and rows read at different times | `BatchClients`, `EvalScoring` |
| Telemetry | counters, CSV, summary, error streaks | scrape, rotate, fetch, combine, show | engines vanish and come back; copies of different age | `NodeMonitor`, `TelemetryView` |
| Uplink | routes, WiFi profile, recorded path, cooldown | monitor run, apply | a run is killed, links change between two commands | `Uplink` |
| SSH proxy | candidate routes, relay | try, read banner, relay | output before the banner, half-closed ends | `SshProxy` |
| CPU batch service (`ds4_tools/cpu_batch.py`) | pool of threads, counters, futures of a batch | run_batch, run an item, time out, settle the claims | a time limit against threads that take items; semaphores inside the pool | `CpuBatch` |
| Agent loop, tool registry (`ds4_agent`, `ds4_tools/registry.py`) | messages, rounds, number of calls | ask, extract calls, invoke, answer | two forms of calls in one message, three ways to end | `AgentLoop` |
| Fleet update (`ds4_update_spark_nodes.sh`) | checkouts, nodes that answered, gateways' runtime and env | guard, probe, update, configure | scripts that go on after their connection broke, people who push and edit | `FleetUpdate` |
| Storage layout (`ds4_layout_*`) | paths on disk, manifest, archive, receipt, alias of the external disk | manifest, check, delete, archive; link or unlink | checks before deletions, hard links, entries within each other, a disk that comes and goes | `LayoutCleanup` |
| Schemas, builders, chat client, calibration, text patches, audits, fixtures | configuration or none | | sequential, pure or I/O | not modelled |

Interaction: endpoints, batch clients and the CLI write requests into the queue; workers (the
dispatcher's cohort threads, `queue-work` processes) are the only ones that claim
them; everything they share goes through the database, one transaction per handler.
Inside the coordinator the dispatcher thread and the cohort threads share
`PendingDispatcherCohort` under a lock, and nothing else; a cohort thread runs the runner
(`Cohort`, `Runners`) and asks the circuit breaker (`JitKv`), the dispatcher asks the governor
(`Governor`). Clients learn of ends only from the event log and the batch status. Transfer,
stores, telemetry, lifecycle, uplink, proxy, fleet update and clean-up are processes of their own that share no
state with the coordinator except files. CPU claims run in a pool of the worker's process; an agent is a client.

What makes each part right:

- queue: one execution of a request at a time while heartbeats are on time and one
  lease holder always; results of an old lease change nothing; settled is final;
  attempts are bounded; one service at a time in a compute domain; KV within
  capacity and not taken from a prepared request; batch rows and notices tell the truth;
  every request settles;
- dispatcher: limits hold although counts are stale, nothing runs twice or is
  forgotten, the thread stays up, a stop drains;
- runners and clients: every member comes back once with its own text, no end is read past,
  cancelling ends a run;
- stores: what an index or a manifest says is there is there, whole, after any crash;
- channels: what arrives is what was sent, in its place, and every copy ends;
- layouts: every layer has one owner, in the plan, the scripts and the environment alike;
- operator tools: what they report was so, and what they leave behind is what they said.

`PROJECT.json` lists the hazards at their lines with the properties that watch them.

## Modules

| Module | Content |
|---|---|
| `RequestLifecycle` | abstract specification: what may happen to one request |
| `InferenceQueue` | the queue and its workers, reaper and clients |
| `QueueProperties` | its properties and fairness; refinement of `RequestLifecycle` |
| `MCQueue` | instances for TLC |
| `QueueProofs` | its theorems: types; leases, attempts, finality, exclusion, batch rows; the queue implements `RequestLifecycle`; between tables: notices, compute leases, KV entries and their capacity, node depth |
| `SumLemmas` | sums over finite sets: induction over subsets, any element last, monotone |
| `Dispatcher` | the dispatcher thread and its cohort threads over the rows of `RequestLifecycle` |
| `DispatcherProperties` | its properties and fairness |
| `MCDispatcher` | instances for TLC |
| `DispatcherProofs` | its theorems: types, exclusion, nothing forgotten, the thread stays up, use of `RequestLifecycle`, window and batch limits |
| `ExternalKv`, `KvDirective`, `JitKv` | KV of requests: registry, directives, prefetch |
| `OffloadStore`, `HmaStore` | KV on disk |
| `Governor` | throttling and trim |
| `Cohort`, `Runners` | a cohort on the engine; streams, batches and payloads below it |
| `ApiClient`, `BatchClients`, `EvalScoring` | clients: endpoints and streams, batch programs, what they compute |
| `StripedChannel`, `Waterfall`, `TensorChannel` | bytes between nodes |
| `Topology`, `LaunchPlan` | layouts: read, overridden, planned, written, started (`LaunchPlan` extends `Topology`) |
| `CpuBatch`, `AgentLoop` | CPU batches of the queue, an agent with its tools |
| `Lifecycle`, `SshProxy`, `Uplink`, `NodeMonitor`, `TelemetryView` | operator tools |
| `FleetUpdate`, `LayoutCleanup` | upkeep of the nodes: their checkouts, their disks |
| `MCParts` | the parts of which safety is asked, one in focus at a time |
| `MCProgress` | the parts of which liveness is asked too, with their fairness |
| `MCRegistry` | the requests the registry gets in `MCParts` |
| `PartsProofs` | theorems about the KV stores, the telemetry and the uplink |
| `ServingProofs` | theorems about KV directives, endpoints and streams, runners and agents |
| `FleetProofs` | theorems about lifecycle, SSH proxy, fleet update and clean-up |
| `ProgressProofs` | theorems about the copies: stripes, waterfall, tensor channel |
| `AnswersProofs` | theorems about prefetches, cohorts, batch clients and CPU batches |

The composition is by contract: `InferenceQueue` is shown to implement
`RequestLifecycle` (`ImplementsLifecycle`, checked and proved), and `Dispatcher` uses
the queue only through steps `RequestLifecycle` allows (`UsesLifecycle`, checked and proved), so
`Dispatcher` can take each queue call as one step.

### InferenceQueue

`requests`, `batches`, `compute_leases`, `kv` and `notices` are the tables and files;
`claims[w]` is what worker `w` executes; `op[p]` the handler process `p` is in.
Python's `sqlite3` opens a transaction at the first write, so what a handler selects
before may be stale: such a handler is an `XRead` action that keeps the selection in
`op` and an `XWrite` action that is the transaction. `Submit` and `Reap` are one action:
`submit_requests` writes first, and `requeue_expired_leases` decides by the condition of its updates. `finish_request` writes its notice
after the commit (`WriteNotice`).

| Code | Actions |
|---|---|
| `submit_requests`, `submit_cpu_requests` | `Submit` (resubmission is a stutter) |
| `prepare_ready`, `_reserve_kv` | `PrepareRead`, `PrepareWrite`, one row at a time |
| `claim_ready_batch` | `ClaimRead` or `RefillRead`, then `ClaimNone`, `ClaimAcquire` or `ClaimExtend` |
| `finish_request`, `_finish_pair` | `FinishRead`, `FinishWrite`, `WriteNotice`, `FinishLost` |
| `retry_transport_failure` | `RetryRead`, `RetryWrite` |
| `heartbeat` | `HeartbeatRead` (the compute leases), `HeartbeatWrite`, `HeartbeatLost` |
| `requeue_expired_leases` | `Reap` |
| `cancel`, `status(refresh=True)` | `CancelRead`/`CancelWrite`, `RefreshRead`/`RefreshWrite` |
| time, death of a worker | `Tick`, `Crash` |

Abstractions. Time is what is left of a lease. A lease id is its attempt number, a
compute lease id one of the claims it was issued with (both as unique as the `uuid4`
they stand for). Order inside a selection (`created_at`, LRU, shape buckets, token
budgets, linger, floors) is left open: these only make a cohort smaller or pick
another victim, so every choice of the code is a choice of the model. `prefilling`
is never set by the code and left out. In a batch run a lost lease is caught and the claims
finish as failed, in a stream it propagates and drops them: `HeartbeatLost` is the
latter. Only model claims ask for a transport retry.

Names. `W[w].by` is the `leased_by` a worker gives. `_acquire_compute_lease` takes the live lease of the same
service and name for its own, so claimers that share a name share leases, and `claim_ready_batch` calls such a lease
new (`queue.py:354`): when none of the selected rows is ready any more it deletes the lease, whoever else runs under it
(`ClaimAcquire`). Workers of the passing runs have distinct names; the cohort threads of a dispatcher do not
(`api.py:659`), nor do the handlers of `/work` (`api.py:418`): see `v_empty_claim`.

### Dispatcher

`row` is a request as the queue keeps it, with the cancel flag and whether its lease
has expired; `pending` the future and `PendingDispatcherCohort` of each cohort
thread; `pc`, `pairs`, `beat` and `plan` the local state of the dispatcher thread in
its tick.

| Code | Actions |
|---|---|
| `_dispatcher_finish_done`, `_finish_pair` | `FinishDone`, `FinishPair` |
| heartbeat of `_dispatcher_tick` | `BeatStart` (reads the claims), `BeatCheck` |
| `_dispatcher_refill` and its demand test, governor | `RefillStart`, `RefillSkip` |
| `_dispatcher_refill_exclusive` | `RefillExclusive` |
| `_dispatcher_refill_resident_multimodel` | `ResidentClaim`, `ResidentPass`, `ResidentEnd`, one service a step |
| cohort threads: `_run_model_batch_incremental` | `Start`, `ItemDone`, `Mark`, `CancelSeen`, `BatchReturn`, `FinalItem`, `End` |
| `_run_refill_stream`, `_claim_refill` | `Start`, `ItemDone`, `Mark`, `CancelSeen`, `RollingRefill`, `End`, `Raise` |
| runs that return pairs | `ReturnPairs`, `Raise` |
| `stop_background_dispatcher`, `_dispatcher_shutdown` | `Stop`, `StopSeen`, `Drained` |
| clients, lease expiry, restart of the coordinator | `Submit`, `Cancel`, `Expire`, `Crash` |

Abstractions. Prepare and claim are one step, counts of a refill are taken in one step
(marks in between only lower them). Which run a cohort gets (rolling: stream or batch;
otherwise batch or pairs) depends on runner and environment and is chosen at `Start`.
Governor, linger and cohort floors are the choice to skip. Weighted deficits, which
break ties between services, are left open. A claim is tended while the
dispatcher counts it unfinished or its thread waits for it: its lease does not expire
then (heartbeats every 2 s against a lease of 900 s), also while a shutdown drains. No
process outside the coordinator reaps.

### KV of requests

- `ExternalKv` (`queue.py`, `external_kv_shards.py`, `api.py`): `object`, `shard`, `kvlease` are the tables; `holds` is what
  clients were granted and may still count on; `kvop` is a handler between its read and its transaction; `wrote` and `sized`
  are history. States of objects and shards come from the request as they are: `KvDeclare`, `KvTransition` (shards any or none),
  `KvTouch` (the object alone), the prefetch endpoint (`PrefetchBody`), `KvCommit` (a list of shards or all; `ShardCommitBody` is the
  one a node posts of its own shard). `KvLease`, `KvRelease`, `KvExpire`, `KvPinRead`/`KvPinWrite`, `KvEvictRead`/`KvEvictWrite`,
  `KvRestart` (recovery at start-up, with its defaults). So the registry says of a manifest what callers say; the property is about
  what it concludes itself, which must stand until a caller enters something else. "absent" stands for no row; no caller uses the word.
- `KvDirective` (`kv_cache.py`): `request` is the input as it stands, `prefixFile` the file its
  reference names, `acceptedKv` what was queued. `ResolveCacheRefs`, `QueueRequest`; the environment
  changes directives and rewrites the file. A digest is the letter it is of.
- `JitKv` (`jit_kv.py`, `runners.py`): `samples` and `openFor` are the breaker, `prestage` the threads.
  `Prestage`, then `PrefetchOk`, `PrefetchRefused` or `PrefetchFailed`; `CircuitPrune`, `CircuitTick`.
- `OffloadStore` (`persistent_disk.py`, `patch_vllm.py`): per rank `files` and `wIndex`, one `sIndex`,
  the CPU blocks in `memory`. `StoreBlock`, `WorkerWritesBlock`, `WorkerIndexesBlock`,
  `SchedulerSaves`, `LoadBlock` (with `Validated`), `EngineDies`, `EngineStarts` (restore, strict or not).
- `HmaStore` (`state_package.py`, `vllm_connector.py`): `part`, `package`, `index` on disk, each
  replaced by itself; `BeginWrite`, `WritePart`, `WritePackage`, `WriteIndex`, `WriterDies`; the connector's
  `Match` and `StartLoad`. Content is the number of the write it comes from.

### Cohorts and clients

- `Cohort` (`runners.py`): `work[i]` is what the thread of a chunk has still to run; a refusal for
  size replaces its head by two halves (`RequestRefused`), a stream fills `text` event by event, a pool
  answers member by member, after the cancel event too with what came before it (`PoolResult`); `answer` and `calls` record `on_result`.
- `Runners`: three machines below it. `member`: one event stream whose deltas cut `</think>` and
  `Answer:` anywhere (`ChatEvent`, `PromptEvent`, stops, errors, cancel). `direct`: a batch posted over
  ssh or to an engine with a fallback endpoint. `asked`: which source every field of a payload comes from.
- `ApiClient` (`api.py`, `api_stream.py`): `Admit` computes the token budget, `SubmitCall` and
  `PollEvents`, `Drain`, `CloseStream`, `Collect`, `GiveUpWaiting` are the handler; the queue is the
  environment that appends events. `unread` is the log after the stream's cursor.
- `BatchClients` (`ds4_eval_api_runner.py`, `ds4_api_queue_benchmark.py`): `evals` and `bench` are the
  two programs, one action per request to the coordinator; `backlog` is the log after the runner's cursor.
- `EvalScoring`: what they compute, as operators over inputs that grow item by item (`ReadItem`): reading
  an answer from a text, selecting and writing cases, attributing usage, shape mixes, cache counters.
- `Governor` (`resource_governor.py`, `dispatcher_memory.py`): `GovAsk` is `before_refill` with trim and
  re-sample; `RefreshStart`, `RefreshStamp`, `RefreshStore` are a status refresh in an HTTP thread.
- `CpuBatch` (`cpu_batch.py`, `worker.py` `_run_cpu_claims`): `call` is the step of a `run_batch`, `item` where
  an item is between submission and its end, `poolQueue` what no thread has taken, `counted` the four counters.
  The lock is held for single updates only, so `CpuUncount`, `CpuBegin`, `CpuFinish` are steps of their own, and a
  timeout (`CpuTimeout`, `CpuSweep`) interleaves with the threads (`CpuTake`, `CpuAcquire`, `CpuServe`).
- `AgentLoop` (`loop.py`, `tool_calls.py`, `registry.py`): `AgentAsks` takes any message with calls in the
  field, in the text or both (`ExtractCalls`), `AgentCalls` answers the next call, `AgentExceeds` and
  `AgentRoundEnds` end a run or a round. Tools are kinds: they run and may fail, or are refused on the way.

### Bytes between nodes

- `StripedChannel`: a byte stands for a chunk; `landed` is the temporary file with the source's index at
  each offset. Connect, chunk, complete, break, both timeouts; `ReceiveEnds` renames, `CopyEnds` looks at the size.
- `Waterfall`: one thread per edge with its queue, the stop event, sentinels, the clean-up, a tool that is
  killed and run again over what is on the disks.
- `TensorChannel`: sender and receiver each walk the dicts of a script and choose the way of a tensor by
  themselves, the sender by `VLLM_DS4_PP_TCP_MIN_BYTES` (`transport.min`) and the receiver without it: a tensor is `Divided` when they
  choose differently. The content of a tensor is its number. Ready messages, stripes by threads, waiting.

### Layouts

- `Topology` (`topology.py`, `pipelines.py`, `dispatcher_resident.py`, `ds4_deployment_gate.py`):
  `ReadTopology` makes `topo` from a raw file and an override; `BindRequest` assigns a node. The layer
  rules (even, tuned preset, list, by node), KV shards, depths and the readiness gate are operators.
- `LaunchPlan` (`ds4_kvcache/service.py`, `deployment.py`) extends it: `WriteLaunchScripts` plans the
  ranks' arguments and environment, `StartScript` runs a script on a node and adds its engine.

### Operator tools

- `Lifecycle` (`ds4_pipeline_lifecycle.py`, `ds4_relaunch_coordinator_api.py`,
  `ds4_stop_coordinator_api.py`): `cmd` is the command and the place it has come to, `ranks` and `forked`
  the processes on the nodes, `coord` the coordinator, its pid file and its relaunch.
- `Uplink`: `run.step` is where the monitor run is; one action per command it runs; `ApplyProfiles`,
  link changes and kills between any two.
- `SshProxy`: candidates in order, what comes before the banner, the relay both ways.
- `NodeMonitor` and `TelemetryView`: counters to rates and rows of a CSV that older versions wrote; then
  rounds of the collector, the summary, and the node states a dashboard draws.
- `FleetUpdate` (`ds4_update_spark_nodes.sh`): `update` is the run, `remote[n]` the git script on a node, `tree[n]`
  its checkout as numbers of commits of main and of its own. One action per command whose order matters;
  `SshBreaks` leaves the script on the node running; `PushMain` and `WorkInTree` are everybody else.
  `RewriteEnv` is the awk program over the lines of the env file.
- `LayoutCleanup` (`ds4_layout_cleanup.py`, `_manifest.py`, `_inventory.py`, `_apply.sh`): `disk` and `sizes` give each
  file its inode and each inode its blocks. `CheckEntry` and `CheckedAll`, then `ApplyEntry` or `DeleteBreaks` entry by
  entry, then `AppliedAll` writes the receipt; `LayoutLook` and `LayoutAct` are the two halves of the layout
  script; `DiskChanges` and `ExternalChanges` happen between any two.

## Runs

| Run | Instance | Shows |
|---|---|---|
| `domain` | 2 workers, 3 requests of 2 services in one domain, 1 crash, quantum | `ComputeDomainExclusive`, `BatchRowExact` |
| `late` | 2 workers, 1 request, a client that cancels, heartbeats may be late | `OneLeaseHolder`, `LateResultIgnored`, `TerminalFinal`, `ImplementsLifecycle` |
| `kv` | 1 worker, 4 requests, 2 nodes, capacity 3 | `KvWithinCapacity`, `KvProtected`, `NodeDepthBound` |
| `settle` | 2 workers, a model and a CPU request, 1 crash, fair | `TypeOK`, `ExclusiveExecution`, `AttemptBudget`, `NoticeTruthful`, `EveryRequestSettles`, `BatchReportsDone`, `NoticeDelivered` |
| `dispatch` | 2 cohorts, 3 requests of a rolling and a plain service, both refill modes, 1 disturbance | `TypeOK`, `WindowBound`, `BatchCaps`, `ExclusiveRun`, `NoOrphans`, `StaysUp` |
| `drain` | the rolling service alone, 2 requests, fair | `UsesLifecycle`, `EverySubmittedSettles`, `StopEnds` |
| `parts` | twenty parts, one in focus at a time | `PartsTypeOK`, `StoresTruthful`, `DirectivesStand`, `LayoutsRight`, `AnswersRight`, `ScoresRight`, `TelemetryHonest`, `FleetInOrder` |
| `progress` | nine parts, one in focus at a time, fair | `ProgressTypeOK`, `CopiesWhole`, `EveryoneAnswered`, `PathHonest`, `PressureEases`, `CopiesEnd`, `CallsEnd` |

`parts` and `progress` put many small machines into one run. `focus` is chosen at the start and never changes;
only the part in focus moves, the others rest in one fixed state, so their states add and do not multiply. Each
property is the conjunction of named parts, stated and commented in the module they are about:

| Property | Parts |
|---|---|
| `StoresTruthful` | `ConclusionsHold`, `LiveLeaseKept` (ExternalKv); `LoadsTruthful`, `RestoreStarts`, `IndexOneToOne` (OffloadStore); `NoMixedPackage`, `IndexedExists`, `FailsClosed` (HmaStore) |
| `DirectivesStand` | `CohortLoadsAlike`, `QueuedVerifiable`, `ResolveIdempotent` (KvDirective) |
| `LayoutsRight` | `LayersOwnedOnce`, `BalancedIsBest`, `OverrideKeepsReady`, `DefaultsCover`, `BoundWhereServed` (Topology); `LaunchedWhole`, `OptionsOnce`, `LayoutsAgree` (LaunchPlan) |
| `AnswersRight` | `FitsWindow`, `FinishAhead`, `FinishedOnce`, `TextOnce` (ApiClient); `CancelNotAnswer`, `StopsAtFirstAnswer`, `VisibleKept`, `RowsMatched`, `PlanToldTwice` (Runners); `CallsAnswered`, `RunsWithinLimits` (AgentLoop) |
| `ScoresRight` | `MarkerDecides`, `SameCases`, `UsageAddsUp`, `MixFair`, `CacheShareSane` (EvalScoring) |
| `TelemetryHonest` | `RatesNeverOver`, `RowsUnderHeader` (NodeMonitor); `DownMeansSilent`, `ShownRecent`, `ServiceShownServed`, `SharesAddUp` (TelemetryView) |
| `FleetInOrder` | `RelaunchFresh`, `EntryLast`, `FailedProbeCleans`, `HealthyIsNew`, `SafetyFromProfile` (Lifecycle); `NothingLeftOpen`, `StreamWhole`, `OrderKept` (SshProxy); `ZeroDrift`, `AbortLeavesRest`, `GatewayReady` (FleetUpdate); `OnlyListedRemoved`, `ReceiptTrue`, `MadeIsAccepted`, `AliasRight` (LayoutCleanup) |
| `CopiesWhole` | `StripedWhole`, `WaterfallDelivers`, `TensorsMatch`, `NoFalseAlarm` |
| `EveryoneAnswered` | `KvOnlyIfFetched` (JitKv); `WithinBudget`, `NobodyForgotten` (Cohort); `EndStillAhead`, `AnsweredOnce`, `NothingLeftRunning`, `BenchTruthful` (BatchClients); `CpuCountsExact`, `CpuClaimsTrue` (CpuBatch) |
| `PressureEases` | `ThrottleServed`, `CoolRefills` (Governor), `CircuitCloses` (JitKv) |
| `CopiesEnd` | `StripedEnds`, `WaterfallEnds`, `DictsArrive` |
| `CallsEnd` | `ResultFinal`, `CancelReturns` (Cohort), `EvalEnds` (BatchClients), `BestPathTaken` (Uplink), `CpuDrains` (CpuBatch) |

Bounds. Two workers cover the races of two handlers on one row, the only ones we know of; the
proofs cover any number. Two requests of one
service and one of another are the least for a refill, a drain and a domain that changes hands.
`TTL = 2` lets a lease be refreshed or missed; one crash exercises recovery, and
`MaxLeaseAttempts = 2` lets a request be recovered once and fail the second time.
Capacity 3 with entries of 3 and 2 forces eviction. In `dispatch` a disturbance is a
cancel, an exception in a thread, a crash of the coordinator or a stop
(`MaxDisturbances`); `Window = 2` against three requests makes the window bind. Attempts, failures and
crashes are capped by `MaxTransportAttempts`, `MaxLeaseAttempts`, `MaxCrashes` and
`MaxDisturbances`. Deadlock checking is off: a behaviour ends when all requests are settled.

Bounds of `parts` and `progress`, and the case each is there for. Stores: two blocks, two
hashes, two ranks and one crash (a block that changes its hash, ranks out of step when the engine dies); two
writers and two writes of two parts (a torn package, a lost index entry). Registry: one object of two stages, two
clients, bodies that name a ready, a failed and an unready state for object and shards alike, with and without bytes and residence. Directives: two requests of one cohort, bundles that differ, a file that changes. Topologies: five layers over two
nodes (a remainder), every partition kind, a second service on overlapping nodes, five overrides, one of them shorter
than the service, one with a node named twice; three nodes where one does not serve. Clients: pages of two events with three unread,
two attempts of two requests (an end on a later page, a delta of a dead attempt). Streams: five tokens, which hold `</think>`
in two halves with an answer on either side. Scoring: four items (two answers with a `</think>` between). Telemetry: three
engines, two file versions, a clock of four, two errors to be down. Fleet: a two-node and a one-node service on shared
nodes, two commands in a row, two relaunches. Copies: four chunks in one or two stripes (an uneven cut), three nodes and two files, one of
them transit, two runs of the tool, so the second works over whatever a killed or failed first one left, with every pair of
manifests behind the source; dicts of one or two tensors in stripes, empty, and below, at and above the smallest size for TCP, which is
1 as in the profiles or 2. Cohorts: up to
four members, chunks of three, a token budget of four (a chunk that is full by number, by tokens, and one request over
the budget by itself), every route where it is looked at (chats that no client streams). Batches: two rows and one, a page of one event, one retried row. Uplink: one change from any state of three links.
CPU batches: two callers on two threads, a batch of more items than its concurrency (a thread that waits inside the pool) and one over
the limit. Agents: two rounds and five calls against messages of up to four calls (each limit ends a run), tools that
are denied, unknown or wrongly called. Updates: two nodes, checkouts behind, ahead, elsewhere or missing, a push or an edit at any step. Clean-up: a
directory of two hard links, a file on the external disk, manifests of two entries within each other or apart, a change by others at any step.
`MaxSamples`, `MaxThrottle`, `MaxPins`, `MaxBacklog`, `MaxUnread`, `MaxNow`, `MaxTokens`, `MaxText`, `MaxSample`, `MaxRuns`,
`MaxCommands`, `MaxRelaunch`, `MaxLinkChanges`, `MaxPushes`, `MaxDiskChanges`, `MaxWrites` and `MaxCrashes` only bound what the environment may do.

Fairness (`FairSpec`). Queue: the worker loops call reap, prepare, claim and heartbeat over and
over, a handler that has begun finishes, runners return because they have timeouts,
time passes. Dispatcher: threads run, the tick goes round, an untended lease expires; strong
fairness for the refills because governor, linger and floors say no only for a while, and
for collecting a finished cohort because each tick looks at all futures. In the queue a worker begins to settle what
a runner returned under strong fairness too: its loop looks at finished futures every round, before it heartbeats. Submissions, cancels, stops,
exceptions and crashes are the environment's and get no fairness.

`progress` states fairness per part (comments in `MCProgress`). The dispatcher asks the governor in each tick and HTTP threads run on;
nothing is assumed of the temperatures. Prefetches have a timeout, so each ends. Both ends of a
stripe have deadlines, and a connection that stands moves a chunk or breaks. Copy commands have timeouts and threads run. Both ranks of a channel
run on and a stripe is carried or fails. Every HTTP call of a cohort ends, except an open stream: with the idle timeouts at
their default 0 only a cancel or the engine ends it, so a stream is fair only once the cancel event is set. The coordinator runs what is queued (what `settle`
and `drain` show of it); the evaluation runner's loop goes on. The uplink timer fires after every run and a run goes on until it ends. Threads of the CPU pool and its callers run and services
return (a command has a timeout); only so many items compete for a semaphore, so weak fairness serves them all; the time limit
of a batch need not fire. Failures, kills,
link changes, cancels, refusals and disconnects get no fairness.

Disagreements the runs show, each with one violated property:

- `v_kv_shared`: two requests with one KV key; the first to finish marks the shared entry idle and a
  prepare purges it under the other (`docs/inference-queue.md`: "Running or ready KV is never purged").
- `v_cancel_ignored`: a running request that was asked to cancel settles as completed or failed.
- `v_empty_claim`: without a client, two claimers of one name select the same row; one runs it under the compute lease, the other finds
  that lease, gets no row and deletes it (`queue.py:354`, `373`), and another service acquires the domain
  (`docs/spark0-api-continuous-dispatcher.md`: "Compute-domain leases still prevent mixing all-Spark services").
- `v_dispatcher_dies`: with `DS4_API_TRANSPORT_MAX_ATTEMPTS` above 1 a heartbeat between
  the requeue of a request and `mark_finished` raises "lost queue lease" out of the tick
  and ends the dispatcher for good. At the default of 1, `dispatch` shows it stays up.

Other behaviours met while modelling, without a run: two workers that prepare at once may
pass the capacity check together; a request failed by the reaper keeps its KV; a cancel
overwrites a row that completed since it was selected (`TerminalFinal` names that step); a crash after
the commit of `finish_request` loses its notice (`NoticeDelivered` excepts it); a stale
recount by `status(refresh=True)` may overwrite newer counts; the dispatcher reaps expired leases only when
something is queued or ready, so requests left running by a crash wait for the next
submission (`Abandoned` in `EverySubmittedSettles`).

## Proofs

TLAPS proves the following for every set of requests, workers, clients, services and nodes and
every bound, from the assumptions named in the modules. Queue and dispatcher: types of the constants,
finite `Requests` and `Nodes`, `None` outside the sets (SQL NULL is no row, no entry, no lease; `NoneIsNoEntry`,
`NoneIsNoCohort`), workers and clients disjoint. Parts: limits are natural numbers and what is counted is finite. Beyond that

- `RegistryAssumption`: the states of requests are among `KvStates`, which also has those the registry itself enters;
- `OffloadSentinel`: a block without a hash is told from every block and hash; `Schemas`: there is a CSV header;
- `DirectiveAssumption`: a load names its transport, one of four (`kv_cache.py:23`), and a prefix file has some content;
- `ClientAssumption`, `AgentAssumption`: pages and windows are not empty; calls are sequences of named tools;
- `RunnersAssumption`: a batch is not empty and its request ids are distinct, none empty;
- `LifecycleAssumption`: the entry node of a service is one of its nodes; `FleetUpdateAssumption`: the fleet list names each node once;
- `CleanupAssumption`: a path is a file or a directory, external files are files; entries of a manifest are of the known paths;
- `WaterfallAssumption`: every node keeps some file (`_load_keep_manifests` refuses an empty manifest), the sentinel is no file;
- `ChannelAssumption`: scripts are sequences of dicts with a tensor each, the smallest size for TCP is at least 1 on both ranks alike;
- `CohortAssumption`, `CpuAssumption`, `BatchClients`' and `JitKv`'s: types.

| Theorem | Statement |
|---|---|
| `TypeCorrect` | `Spec => []TypeOK` |
| `LeaseHolderUnique` | `Spec => []OneLeaseHolder` |
| `AttemptsBounded` | `Spec => []AttemptBudget` |
| `SettledFinal` | `Spec => TerminalFinal` |
| `LateResultsIgnored` | `Spec => LateResultIgnored` |
| `ExecutionExclusive` | `Spec => []ExclusiveExecution`, given `OnTime` |
| `BatchRowsExact` | `Spec => []BatchRowExact`, given no clients |
| `QueueImplementsLifecycle` | `Spec => ImplementsLifecycle` |
| `NoticesTruthful` | `Spec => []NoticeTruthful`, given `OnTime`, no clients |
| `DomainsExclusive` | `Spec => []ComputeDomainExclusive`, given `OnTime`, no clients, a `leased_by` of its own for each worker |
| `KvStaysReserved` | `Spec => []KvProtected`, given `OnTime`, no clients, `KeysApart`, `ServiceBound` |
| `NothingReservedPurged` | `Spec => ReservedKvNotPurged`, given the same and `CpuWithoutKv` |
| `NodeDepthHolds` | `Spec => []NodeDepthBound`, given `ServiceBound`, `OneWorkerPerNode` |
| `CapacityHolds` | `Spec => []KvWithinCapacity`, given the same and `ServiceEntry` |
| `DispatcherTypeCorrect` | `Spec => []TypeOK` |
| `RunExclusive` | `Spec => []ExclusiveRun` |
| `DispatcherUsesLifecycle` | `Spec => UsesLifecycle` |
| `WindowHolds`, `BatchesCapped` | `Spec => []WindowBound`, `Spec => []BatchCaps` |
| `DispatcherStaysUp` | `Spec => StaysUp`, given `OneAttempt` |
| `NothingForgotten` | `Spec => []NoOrphans`, given `OneAttempt` |
| `StoresAreTruthful` | `PartsSpec => []StoresTruthful` |
| `TelemetryIsHonest` | `PartsSpec => []TelemetryHonest` |
| `RecordedPathHonest` | `UplinkSpec => []PathHonest` |
| `DirectivesMeanOneThing` | `PartsSpec => DirectivesStand` |
| `AnswersGiven` | `PartsSpec => []AnswersRight` |
| `FleetStaysInOrder` | `PartsSpec => []FleetInOrder` |
| `ProgressCopiesWhole` | `ProgressSpec => []CopiesWhole` |
| `ProgressEveryoneAnswered` | `ProgressSpec => []EveryoneAnswered` |
| `ProgressResultFinal` | `ProgressSpec => ResultFinal` |

### Argument: one row of the queue

`TypeOK` is inductive; `QueueProofs` has a lemma per group of handlers.
`OneLeaseHolder` is not: two claims could name one attempt unless every claim's
number is at most the row's `attempts`, the row's lease is one of them, and a number is issued once; that is
`LeaseInv`. `AttemptBudget` needs what a retry has read to be still true: while
`op` says "requeue", the row it read is either still running that attempt or the update
matches nothing (`BudgetInv`). `RowSteps` lists, once for all handlers, how one
row can change; finality, late results and the refinement are read off from it.
`ExecutionExclusive` adds that with `OnTime` the row of every claim is running with that lease
until its worker lets go (`ClaimInv`). `QueueImplementsLifecycle` needs one fact more: a cancel
in progress selected only rows that exist (`CancelSeesRows`).

### Argument: between tables

`HeldInv` sharpens `ClaimInv`: with `OnTime` and nobody cancelling, the row of every claim runs under that claim,
unexpired. So the unguarded updates that follow the guarded one in `finish_request` and
`retry_transport_failure` hit what they mean.

- Notices: between the commit and the file the row is already what the notice will say (`NoticePending`).
- Compute leases (`DomainInv`): ids were issued by a claim of the attempt they name and are never issued twice; every
  unexpired running row of a domain runs under the lease in the table (`ActiveLeased`), which has at least its time left
  (`LeaseOutlasts`); and what a claim has read before its transaction is still so where it matters: the rows of its cohort
  have the scope it was selected with, and while a refill extends a lease some claim of its own keeps that lease alive
  (`ExtendStands`). A forced cancel ends that claim between read and write.
  A lease that a worker finds under its own name is its own (`OwnInv`): a refill extends no other, the rows of a claim that finds one
  are still ready, so the claim does not end up empty and delete it, and a heartbeat extends the leases of all claims the worker still has.
  That needs distinct names; without them a worker deletes the lease of another, which is the run `v_empty_claim`.
- KV (`KvInv`): each entry is in a slot of its request and is idle only after that request ended (`EntriesOwned`), and
  the victims a `prepare_ready` selected in autocommit belong to nobody who has not ended (`VictimsSettled`): what has
  ended stays so, hence the selection may be stale without harm. This is where `KeysApart` is needed: the entry
  of a shared key is idled with the first request that ends, which is the run `v_kv_shared`; that run satisfies
  every hypothesis of `NothingReservedPurged` but this one.
- Node depth (`DepthInv`): a worker between its count and its write still has room, because only its own write adds to
  its node; a requeued or reaped row leaves the count. Neither heartbeats nor cancels matter here.
- KV capacity (`CapacityInv`): every pool fits, and whatever else a pool holds by now, the victims a `prepare_ready` has
  selected still make room for what it is about to reserve there (`RoomKept`). Two facts keep that: between selection and
  write no other worker adds to the pool (`PoolsApart`), and all other steps only delete entries or leave their bytes
  (`OthersFit`). Bytes of a pool are a sum in the order `CHOOSE` takes its entries; `SumLemmas` shows by induction over the
  subsets of a finite set that the order does not matter, and pools are finite because a key is that of some request.

The hypotheses. `ServiceBound`: `submit_requests` stores the node with the service (`queue.py:181-191`). `CpuWithoutKv`:
`submit_cpu_requests` names no KV. `OneWorkerPerNode` is a deployment: each worker names its node and no other worker prepares for it; with two
workers of a node both may find room for the last row. `ServiceEntry`: requests of one service have one entry node
(`entry_node_id`, `pipelines.py`), so only that node's worker reserves for the service. `KeysApart` is what the clients must provide: no two requests with one KV key.
"No clients" excludes cancels and recounts only; submissions, crashes and expiry remain. The runs `kv`, `domain` and `settle` have
instances that satisfy the hypotheses of the theorems about their properties.

### Argument: the dispatcher

`RunExclusive` rests on `CohortInv`. Its parts: every claim names an attempt that was issued, claims of
cohorts and pairs in hand are of distinct attempts (`ClaimsIssued`, `ClaimsApart`); what a thread executes or the dispatcher heartbeats still
runs under its lease (`LiveHeld`); the phases of a cohort agree with what it holds (`Phases`, `HeldKept`, `StartedOnce`);
only rows nobody tends are expired (`ExpiredOrphans`). `WindowInv` says that a refill's plan plus what is unfinished fits the
window at each of its steps, `CapInv` the same of the resident limits.

`StandInv` gives `DispatcherStaysUp`: a claim the dispatcher heartbeats runs under its lease or was settled by the thread that had it.
`NothingForgotten` holds from `CohortInv`, `StandInv` and the attempt budget, step by step. Both need `OneAttempt`
(`MaxTransportAttempts = 1`, the default of `DS4_API_TRANSPORT_MAX_ATTEMPTS`): with two attempts the stays-up property fails in
`v_dispatcher_dies`, and `NoOrphans` fails too (see below). `DispatcherUsesLifecycle` needs only that attempts stay within the budget.
So the abstract life of a request is what the queue is proved to provide and what the dispatcher is proved to use.

### Argument: the parts

The parts share no state, so the invariant of each is kept by its own steps and by those of all others (`MCParts` leaves their
variables alone). Each theorem below is about one part at a time, whichever is in focus.

- Registry: per object, what it concluded last still stands (`ObjectStands`), and whoever holds a lease is in the table. The size of an object
  is compared with the sum it was computed from, never computed with.
- Offload store: what is indexed was persisted under that hash (`IndexedPayloads`), a rank's copy of a stored block is the block's
  or not yet validated (`CopiesHold`, `StoredHold`), indexes are one to one; so a kill between any two writes leaves a
  store a restart may believe.
- HMA packages: a writer that has reached the index has its package and all it read on disk, with a number given out before
  (`WritersHonest`, `PackagesStarted`); a request that still needs promised KV waits or has raised (`PromisedFails`).
- Node monitor: the totals it subtracts are those of the engine's present life (`PrevTotals`, `RatesCovered`), and
  rows come after their header (`HeaderFirst`).
- Collector and dashboard: a round in progress is young and knows every service resident since it began (`RoundYoung`); rows in a
  summary are recent (`RecentRows`); a streak together with the error still to be counted is covered by the bad
  summaries since the node was well (`StreakCovered`), which is the clause a second page for the same summary would break. The shares of a
  rate add up by `SumLemmas`.
- Uplink: without a carrier the kernel has no wired route (`NoRouteWithoutLink`), and what an undisturbed run knows at each of its steps
  (`RunKnows`). `UplinkSpec` has the initial states and steps of the focus `uplink` of `progress`.
- Directives (`DirectiveInv`): a prefix that is known is the one its reference named, what was accepted carries a normalized plan, and
  normalizing again changes nothing.
- Endpoints and streams (`ClientInv`): an end is in the log once and only after the row ended (`EndsTold`), a finish was given out only for
  an end that is read (`FinishesTold`), who is pending has none yet (`PendingRight`) and its end is still ahead (`EndAhead`). That no text is told
  twice is a sum over unread deltas, weighed from the back (`Weighs`, `TextBound`).
- Runners: the text of a member is what its stream has sent up to here, its thinking cut (`Received`), so an answer line that is found
  is the first one (`FirstLine`, `SameLine`); rows of a batch fall to the request they are labelled with or stand at; of a payload, every field comes
  from one source and a plan is told by both or neither (`Told`).
- Agents (`AgentInv`): the calls answered, in hand and left make up the calls of the messages, round by round, and what ran is what the log has.
- Lifecycle (`FleetInv`, `CoordInv`): while a stop goes on, selected ranks are left only where the kill has not come to or where it
  failed (`KilledBehind`), the pids it read still tell the ranks it is about to kill (`ReadTells`), after a stop all that run are of this
  command (`OldGone`), and the entry node of a service waits for its others (`EntryWaits`). The new coordinator is started when none is left.
- SSH proxy (`ProxyInv`): routes are sorted by their rank (`Ranked`); what was read and shown are first parts of what the far end sent (`Counted`).
- Fleet update (`UpdateInv`): nodes before the one at hand are done and those behind it untouched (`Border`), gateways come after all
  nodes (`GatewaysLast`), and the rewriting of an env file keeps the other lines and leaves one for the home (`RewriteEnv`, a fold).
- Clean-up (`CleanupInv`): what is gone untouched by others is listed (`GoneListed`), entries before the one at hand are applied
  (`AppliedBehind`, also through directories and hard links), and a manifest that was made of an unchanged disk is accepted (`MadeReady`).

### Argument: copies and answers

- Stripes (`StripesHeld`): a stripe has landed up to the offset its receiver is at, and the stripes cover the file whatever the remainder.
- Waterfall (`WaterfallInv`): no file goes further than it is needed (`NoFurther`), the sentinel is the last of each queue and comes after all
  edges before are done (`SentinelsLast`), and until a thread fails every copy and removal still to be made is ahead (`FilesAhead`). A rerun
  begins with every file ahead again, whatever the runs before it left on the disks, hence any number of them.
- Tensor channel (`ChannelInv`): sequence numbers and groups are counted by rank: the number of tensors of the same lane before a place in the
  script. The receiver's counts are the ranks of its place. The sender's agree in each group of which both think alike (`Agreed`: the CPU group,
  and all of them without TCP); of TCP its count is the rank of its place or of a divided tensor it went by (`CountedTo`). So a ready message that
  is accepted is for the tensor at hand, whatever the smallest size, and a refused one is due to a divided tensor before.
  With a smallest size of 1 nothing is divided and only a broken connection raises.
- Prefetches (`CircuitInv`): what a thread sends is fixed when it is sent. Cohorts (`CohortInv`): what is left to run fits the limits and holds whoever
  has no result, and nobody has two; chunks are folds, shown to lose and repeat nobody.
- Batch clients (`BatchInv`): an end in the log is of a row that ended (`EventsAhead`), the end of a row that waits is ahead (`EndsAhead`), answers are
  final and one each. CPU batches (`CpuInv`): the counters are the cardinalities of what they count, `uncount` and what is still to be submitted included.

### Model-checked only

Everything about liveness and fairness (the prover knows neither fairness nor ENABLED): the temporal properties of `settle`, `drain` and
`progress` that say something happens in the end. Of `parts` and `progress` the types of all parts together (`PartsTypeOK`,
`ProgressTypeOK`): each proof has the shapes it needs in its invariant. And what pure functions compute over their data:
`LayoutsRight` (partitions, overrides, launch plans) and `ScoresRight` (parsers, selection, usage): these are operators over one input, where a
theorem for all inputs is an induction over the input itself, which is out of the prover's reach; TLC enumerates the boundary cases.

## Plan

1. Done: `RequestLifecycle`, `InferenceQueue`, their proofs; `Dispatcher`; the parts of `MCParts` and `MCProgress`.
2. Done: proofs of the dispatcher (types, exclusion, window and limits, nothing forgotten, use of `RequestLifecycle`) and of
   the relations between the queue's tables.
3. Done: proofs of the parts: stores, telemetry, uplink, directives, endpoints, runners, agents, operator tools, copies, cohorts, batch clients
   and CPU batches.
4. `ApiClient` and `BatchClients` over `RequestLifecycle`, so that their environment is the queue's contract.
5. Selection order in the queue (priorities, shape buckets, token limits) against a reference definition.

## Behaviour met while modelling, without a run

These are read from the code and are in the models as the code has them; no property claims otherwise.

- With `DS4_API_TRANSPORT_MAX_ATTEMPTS` of 2 or more a rolling stream may claim again a request it has settled as retried; when another member is then
  cancelled, `_finish_cancelled_pending_futures` (`worker.py:543`) drops the new claim with the old one and the request waits for its lease to expire.
- A cancel between two events of a stream ends it silently: members that have text are reported completed and cut short
  (`runners.py` `_post_sse_json`; `v2/tests/test_llm_runners_web_chat.py` expects "cancelled" for a member without text).
- A forced cancel between the read of a refill and its transaction releases the compute lease, which `_extend_compute_lease` (`queue.py:1197`) then
  extends by its id without effect: the refill runs its rows while another service acquires the domain. `DomainsExclusive` therefore
  has no clients.
- Pins: `external_kv_pin` loses one of two pins at once. `external_kv_evict` (`queue.py:1021`) reads the pins before its transaction and the
  leases not at all: an object that is pinned between the two, or leased, is evicted, although it refuses what it sees pinned (`queue.py:1031`).
- Registry: `touch` and `transition` may call an object ready whose shards are not, and `declare` may give a size its shards do not add up to.
- `</think>` is stripped from each delta by itself, then from the whole: halves of the marker show up in a stream.
- The early stop takes an `Answer:` line inside unfinished thinking for the answer.
- `_iter_chat_stream` waits for its deadline when a request ends as `transport_failed`, which is no terminal state to it.
- A streaming request that is retried gives out the deltas of both attempts.
- A stream whose engine stalls is never given up at the default idle timeouts.
- The batch runner falls back to the row at the same place when ids are missing; a chat cohort sent as completions is never split.
- The fallback endpoint posts again after a timeout, so the engine may run a request twice; a batch goes on after its ssh session timed out.
- A status refresh of `/health` may store an older sample over the one `before_refill` took.
- The receiver of a tensor never looks at `VLLM_DS4_PP_TCP_MIN_BYTES` (`pp_tcp_transport_patch.py:379`), the sender does
  (`pp_tcp_tensor_channel.py:64`): with one value above 1 on both ranks a smaller GPU tensor goes by the group and is awaited on TCP. Then the receiver
  hangs, or the sender is refused at the next tensor over TCP: the two cases `DictsArrive` and `NoFalseAlarm` except, by `Divided`. No document
  or test says what a value above 1 should do; the profiles deployed and the default have 1, at which both hold without exception.
- `estimate` of KV capacity looks at the first node of a service only; storage keys that differ in special characters collide; the manifest of
  `write_launch_scripts` is keyed by node, so two ranks on one node overwrite each other.
- `_max_bytes` lets a request raise its own limit up to the plan's; `ensure_cache_refs_resolved` accepts a stale plan.
- The default window of a deployment counts only services that enter at the queue's node.
- A rerun with `--preserve-request-ids` waits for a batch that does not get the new rows; `parse_eval_cases` drops empty choices between others.
- Rates of a node are too high after one of several engines was away; two browsers on one dashboard each count an error.
- A rank that forks between the reading of pids and the kill survives it; a launch that fails half way is not cleaned up (only a failed probe is).
- A monitor run killed between the default route and `record_path` leaves an old path on record until the next run; `apply` takes no lock.
- A CPU item that is done but not yet collected when the time limit fires is reported as a timeout; items that a thread has taken run on behind the answer, also
  while the queue tries the request again; a batch of small concurrency can hold all threads of the pool while they wait for its semaphore.
- An agent run ended by `max_tool_calls` leaves the calls of its last round out of `rounds`, although they ran.
- An entry under the linked alias `extnvme` resolves to `ds4_nvme/...`, so the clean-up's protection of canonical roots
  (`ds4_layout_cleanup.py:115`; `v2/docs/spark-layout.md`: refuses canonical roots) does not see it while the disk is mounted.
- The clean-up asks `lsof` about a directory by its name, which does not report open files beneath it; a directory that holds a checkout or a mount is not
  protected; a run that raises half-way has deleted some entries and writes no receipt.
- An update links the gateway's runtime and writes its env file before it asks whether the runtime can trim memory; with both status URLs
  down it counts the fleet as idle; a checkout ahead of main counts as updated; main may move between two nodes.
- `_replace_once` in `patch_vllm.py` is called with an argument it does not have in one place.

## Not modelled

- Text patches of vLLM (`ds4_vllm_runtime/patches.py`): they replace text of a third-party tree that is not in the repository; what
  the patched code does cannot be read here.
- Schemas, attachments, builders, command lines, what a CPU service computes, builtin tools: functions of one input without state.
- Chat client, calibration: sequential clients of one request; `ApiClient` has the protocol they use.
- One-shot operations, audits, measurements, installers; model contract fixtures.
- Of modelled parts: telemetry tables, priorities and order within a selection of the queue; rendering of chats and answers;
  parsing of tool calls and usage; rail discovery of `ds4_transfer/service.py`; GPU and power readings. Each component's
  note in `PROJECT.json` says what is left out.

A fleet of node-pinned workers never claims a CPU request
that has no node; the instances include an unpinned worker. A crash between a notice written
inside a transaction (reaper, cancel) and its commit is not modelled.

Running: `tlc -config domain.cfg MCQueue`, `tlc -config dispatch.cfg MCDispatcher`, and so on for the
other configurations; `tlapm QueueProofs.tla` and so on for the proofs (each proof module is checked by itself).
