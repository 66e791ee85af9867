----------------------------- MODULE MCProgress -----------------------------
(***************************************************************************)
(* Instances of the parts of the system of which liveness is asked too.    *)
(* They share no state: a behaviour is one of the part in focus, and so is *)
(* its fairness.                                                           *)
(***************************************************************************)
EXTENDS Governor, JitKv, StripedChannel, Waterfall, TensorChannel, Cohort, BatchClients, Uplink,
        CpuBatch

VARIABLE focus

(* Cohorts: chat or completion prompts, the payload apart from the prompt,  *)
(* estimated tokens.  The route of a profile is looked at for chats that no *)
(* client streams only (Mode).                                              *)
Item(chat, key, tokens) == [chat |-> chat, key |-> key, tokens |-> tokens]
ItemLists ==
    {<<Item(FALSE, "a", 1), Item(FALSE, "a", 1), Item(FALSE, "a", 1), Item(FALSE, "a", 1)>>,
     <<Item(FALSE, "a", 2), Item(FALSE, "a", 2), Item(FALSE, "a", 3)>>,
     <<Item(FALSE, "a", 2), Item(FALSE, "b", 1), Item(FALSE, "a", 1)>>,
     <<Item(TRUE, "a", 1), Item(TRUE, "a", 2)>>,
     <<Item(TRUE, "a", 1), Item(FALSE, "a", 1)>>,
     <<Item(FALSE, "a", 9)>>}
Routes == {"batch_endpoint", "completion_prompts", "parallel_chat_completions", "parallel_completion_prompts"}
MCCohorts ==
    {c \in [items : ItemLists, client : BOOLEAN, cancelable : BOOLEAN, route : Routes] :
        c.client \/ (\E m \in DOMAIN c.items : ~c.items[m].chat) => c.route = "batch_endpoint"}
IdleCohort == [items |-> <<Item(FALSE, "a", 9)>>, client |-> FALSE, cancelable |-> FALSE, route |-> "batch_endpoint"]

(* Manifests that keep files anywhere but on the source, whose own plays no *)
(* part.                                                                    *)
MCManifests == {k \in [Nodes -> (SUBSET Files) \ {{}}] : k[0] = Files}

(* Two dicts of one or two tensors: on the GPU and not, empty, gathered,    *)
(* below and above the sizes that are sent over TCP (1 in the profiles, 2   *)
(* divides the tensors of one byte) and in stripes.                         *)
Of(device, bytes, gather) == [device |-> device, bytes |-> bytes, gather |-> gather]
MCScripts ==
    {<<first, second>> :
        first \in {<<Of("cuda", 3, FALSE), Of("cpu", 1, FALSE)>>, <<Of("cuda", 0, FALSE), Of("cuda", 2, TRUE)>>,
                   <<Of("cpu", 1, FALSE), Of("cuda", 1, FALSE)>>},
        second \in {<<Of("cuda", 1, FALSE)>>, <<Of("cpu", 0, FALSE), Of("cuda", 4, TRUE)>>}}
MCTransports == [tcp : BOOLEAN, staged : BOOLEAN, min : {1, 2}]

(* Evaluation runs without and with every way to end early; a benchmark     *)
(* request may run twice.                                                   *)
MCRunOptions == {[timeout |-> b, progress |-> b, abort |-> b, cancel |-> b] : b \in BOOLEAN}
MCRowRuns == [r \in EvalIds \cup BenchIds |-> IF r \in BenchIds THEN 2 ELSE 1]

(* Two calls to the CPU service: one whose items fill the pool while they   *)
(* wait for each other and one beside it; one that is refused and another.  *)
Asked(items, concurrency) == [items |-> items, concurrency |-> concurrency]
MCCpuMixes ==
    {[c \in {"a", "b"} |-> IF c = "a" THEN first ELSE Asked(1, 1)] : first \in {Asked(2, 1), Asked(1, 3)}}

pressureParts == <<governorVars, circuitVars>>
copyParts == <<stripedVars, waterfallVars, channelVars>>
outerParts == <<cohortVars, batchVars, uplinkVars, cpuVars>>

Foci == {"governor", "circuit", "striped", "waterfall", "channel", "cohort", "batch", "uplink", "cpu"}
ProgressInit ==
    /\ focus \in Foci
    /\ GovernorInit /\ CircuitInit
    /\ IF focus = "striped" THEN StripedInit ELSE StripedStart(0, 1, FALSE)
    /\ IF focus = "waterfall" THEN WaterfallInit ELSE WaterfallStart([n \in Nodes |-> Files], FALSE)
    /\ IF focus = "channel" THEN ChannelInit ELSE ChannelStart(CHOOSE s \in Scripts : TRUE, [tcp |-> FALSE, staged |-> FALSE, min |-> 1])
    /\ IF focus = "cohort" THEN CohortInit ELSE CohortStart(IdleCohort)
    /\ IF focus = "batch" THEN BatchInit ELSE BatchStart(CHOOSE o \in RunOptions : o.timeout)
    /\ IF focus = "uplink"
       THEN \E links \in [Links -> {"ok", "dead", "gone"}], profiles \in SUBSET WifiProfiles : UplinkStart(links, profiles)
       ELSE UplinkStart([l \in Links |-> "ok"], {})
    /\ IF focus = "cpu" THEN CpuInit ELSE CpuStart(CHOOSE mix \in CpuMixes : TRUE)

PressureNext ==
    \/ focus = "governor" /\ GovernorNext /\ UNCHANGED circuitVars
    \/ focus = "circuit" /\ CircuitNext /\ UNCHANGED governorVars
CopyNext ==
    \/ focus = "striped" /\ StripedNext /\ UNCHANGED <<waterfallVars, channelVars>>
    \/ focus = "waterfall" /\ WaterfallNext /\ UNCHANGED <<stripedVars, channelVars>>
    \/ focus = "channel" /\ ChannelNext /\ UNCHANGED <<stripedVars, waterfallVars>>
OuterNext ==
    \/ focus = "cohort" /\ CohortNext /\ UNCHANGED <<batchVars, uplinkVars, cpuVars>>
    \/ focus = "batch" /\ BatchNext /\ UNCHANGED <<cohortVars, uplinkVars, cpuVars>>
    \/ focus = "uplink" /\ UplinkNext /\ UNCHANGED <<cohortVars, batchVars, cpuVars>>
    \/ focus = "cpu" /\ CpuNext /\ UNCHANGED <<cohortVars, batchVars, uplinkVars>>
ProgressNext ==
    \/ PressureNext /\ UNCHANGED <<focus, copyParts, outerParts>>
    \/ CopyNext /\ UNCHANGED <<focus, pressureParts, outerParts>>
    \/ OuterNext /\ UNCHANGED <<focus, pressureParts, copyParts>>

-----------------------------------------------------------------------------
(* Fairness                                                                *)

(* The dispatcher asks in every tick, HTTP threads run on, time passes.     *)
GovernorFairness ==
    /\ WF_governorVars(focus = "governor" /\ GovAsk) /\ WF_governorVars(focus = "governor" /\ GovTick)
    /\ WF_governorVars(focus = "governor" /\ RefreshStamp) /\ WF_governorVars(focus = "governor" /\ RefreshStore)

CircuitFairness ==
    /\ WF_circuitVars(focus = "circuit" /\ CircuitTick) /\ WF_circuitVars(focus = "circuit" /\ CircuitPrune)
    /\ \A t \in CohortThreads : WF_circuitVars(focus = "circuit" /\ (PrefetchOk(t) \/ PrefetchRefused(t) \/ PrefetchFailed(t)))

(* Both ends have timeouts; a connection that stands carries on or breaks;  *)
(* threads run on.                                                          *)
StripedFairness ==
    /\ \A i \in AllStripes :
          /\ WF_stripedVars(focus = "striped" /\ i \in Stripes /\ (StripeChunk(i) \/ StripeBreak(i)))
          /\ WF_stripedVars(focus = "striped" /\ i \in Stripes /\ StripeComplete(i))
          /\ WF_stripedVars(focus = "striped" /\ i \in Stripes /\ StripeSent(i))
          /\ WF_stripedVars(focus = "striped" /\ i \in Stripes /\ SenderDeadline(i))
          /\ WF_stripedVars(focus = "striped" /\ i \in Stripes /\ ReceiverTimeout(i))
    /\ WF_stripedVars(focus = "striped" /\ ReceiveEnds) /\ WF_stripedVars(focus = "striped" /\ CopyEnds)

(* Threads run; ssh commands and copies have timeouts. *)
WaterfallFairness ==
    /\ WF_waterfallVars(focus = "waterfall" /\ WfFeed) /\ WF_waterfallVars(focus = "waterfall" /\ WfJoin)
    /\ \A e \in Edges : WF_waterfallVars(focus = "waterfall" /\ (EdgeStart(e) \/ EdgeGet(e) \/ EdgeCopy(e) \/ EdgeForward(e)))

(* Both ranks run on; a connected socket carries its stripe or breaks.      *)
ChannelFairness ==
    /\ WF_channelVars(focus = "channel" /\ (SendMetadata \/ SendTensor \/ SendStripes))
    /\ WF_channelVars(focus = "channel" /\ (RecvMetadata \/ RecvTensor \/ WaitHandles))
    /\ \A id \in (1..2) \X (1..2), k \in 0..MaxTcpStripes - 1 :
          WF_channelVars(focus = "channel" /\ id \in TensorIds /\ StripeArrives(id, k))

(* Every call ends (urlopen has a timeout) except an open stream, which     *)
(* polls the cancel event but, with the idle timeouts at their default 0,   *)
(* waits for the engine as long as it stays silent.                         *)
CohortFairness ==
    /\ \A i \in 1..4 :
          /\ WF_cohortVars(focus = "cohort" /\ i \in DOMAIN work /\ RequestRefused(i, FALSE))
          /\ WF_cohortVars(focus = "cohort" /\ i \in DOMAIN work /\ cancelEvent /\ StreamEnds(i))
          /\ WF_cohortVars(focus = "cohort" /\ i \in DOMAIN work /\ \E m \in Members : PoolAnswers(i, m, "failed"))
    /\ WF_cohortVars(focus = "cohort" /\ CohortReturns)

(* The coordinator runs what is queued, within its attempts, and the        *)
(* runner's loop goes on.                                                   *)
BatchFairness ==
    /\ \A r \in BatchIds :
          /\ WF_batchVars(focus = "batch" /\ Len(backlog) < MaxUnread /\ RunRow(r))
          /\ WF_batchVars(focus = "batch" /\ Len(backlog) < MaxUnread /\ (RetryRow(r) \/ \E right \in BOOLEAN : FinishRow(r, right)))
    /\ WF_batchVars(focus = "batch" /\ (EvalNewest \/ EvalSubmit \/ EvalPoll \/ EvalHandle \/ EvalProgress \/ EvalCollect))

(* The systemd timer fires again after each run, a run goes on until it     *)
(* ends, time passes.                                                       *)
UplinkFairness ==
    /\ WF_uplinkVars(focus = "uplink" /\ TimerFires) /\ WF_uplinkVars(focus = "uplink" /\ MonitorStep)
    /\ WF_uplinkVars(focus = "uplink" /\ Tick)

(* Threads of the pool and callers run, services return (commands have a    *)
(* timeout).  A thread that waits for a semaphore gets it in the end, as    *)
(* only so many items compete.                                              *)
CpuFairness ==
    /\ WF_cpuVars(focus = "cpu" /\ CpuTake)
    /\ \A s \in Slots : WF_cpuVars(focus = "cpu" /\ ThreadStep(s))
    /\ \A c \in CpuCallers : WF_cpuVars(focus = "cpu" /\ CallStep(c))

ProgressSpec ==
    /\ ProgressInit /\ [][ProgressNext]_<<focus, pressureParts, copyParts, outerParts>>
    /\ GovernorFairness /\ CircuitFairness /\ StripedFairness /\ WaterfallFairness
    /\ ChannelFairness /\ CohortFairness /\ BatchFairness /\ UplinkFairness /\ CpuFairness

(* CoolRefills of Governor, StripedEnds of StripedChannel, DictsArrive of   *)
(* TensorChannel, EvalEnds of BatchClients, BestPathTaken of Uplink and     *)
(* CpuDrains of CpuBatch, of the behaviours in which that part runs         *)
(* (before_refill, _run_striped_copy, isend_tensor_dict,                    *)
(* _poll_live_answers, monitor_uplink, run_batch).                          *)
GovernorRefills == focus = "governor" => CoolRefills
StripedCopyEnds == focus = "striped" => StripedEnds
EveryDictArrives == focus = "channel" => DictsArrive
EvaluationEnds == focus = "batch" => EvalEnds
CpuPoolDrains == focus = "cpu" => CpuDrains
UplinkSettles == focus = "uplink" => BestPathTaken

(* The state of the part that runs has its type (GovernorTypeOK ... of each *)
(* part, as the fields, files and messages of the code have).               *)
ProgressTypeOK ==
    /\ focus = "governor" => GovernorTypeOK
    /\ focus = "circuit" => CircuitTypeOK
    /\ focus = "striped" => StripedTypeOK
    /\ focus = "waterfall" => WaterfallTypeOK
    /\ focus = "channel" => ChannelTypeOK
    /\ focus = "cohort" => CohortTypeOK
    /\ focus = "batch" => BatchTypeOK
    /\ focus = "uplink" => UplinkTypeOK
    /\ focus = "cpu" => CpuTypeOK

(* A copy that is called complete is whole and a tensor that arrives is the *)
(* one sent, whatever connections broke (striped_channel.py,                *)
(* waterfall_copy.py, pp_tcp_tensor_channel.py).                            *)
CopiesWhole ==
    /\ focus = "striped" => StripedWhole
    /\ focus = "waterfall" => WaterfallDelivers
    /\ focus = "channel" => TensorsMatch /\ NoFalseAlarm

(* Every member of a cohort and every row of a batch client is answered     *)
(* once, with a KV load only when its data was staged, and none is left     *)
(* running; items of the CPU service are counted and told as they ran       *)
(* (runners.py, jit_kv.py, ds4_eval_api_runner.py,                          *)
(* ds4_api_queue_benchmark.py, cpu_batch.py).                               *)
EveryoneAnswered ==
    /\ focus = "circuit" => KvOnlyIfFetched
    /\ focus = "cohort" => WithinBudget /\ NobodyForgotten
    /\ focus = "batch" => EndStillAhead /\ AnsweredOnce /\ NothingLeftRunning /\ BenchTruthful
    /\ focus = "cpu" => CpuCountsExact /\ CpuClaimsTrue

(* Throttling and the open circuit are served and end                       *)
(* (resource_governor.py, jit_kv.py).                                       *)
PressureEases == ThrottleServed /\ GovernorRefills /\ CircuitCloses

(* Copies end, whatever breaks, and what is sent arrives                    *)
(* (striped_channel.py, waterfall_copy.py, pp_tcp_tensor_channel.py).       *)
CopiesEnd == StripedCopyEnds /\ WaterfallEnds /\ EveryDictArrives

(* A result given stays, a cancelled run returns, an evaluation ends, the   *)
(* uplink settles on the best path, and CPU batches return and leave the    *)
(* pool empty (runners.py, ds4_eval_api_runner.py, ds4_spark_uplink.py,     *)
(* cpu_batch.py).                                                           *)
CallsEnd == ResultFinal /\ CancelReturns /\ EvaluationEnds /\ UplinkSettles /\ CpuPoolDrains
=============================================================================
