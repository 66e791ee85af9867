------------------------------ MODULE MCParts ------------------------------
(***************************************************************************)
(* Instances of the parts of the system that share no state with each      *)
(* other and of which only safety is asked.  A behaviour is one of the     *)
(* part in focus, the others rest: interleaving them would only multiply   *)
(* their states.                                                           *)
(***************************************************************************)
EXTENDS MCRegistry, OffloadStore, HmaStore, KvDirective, LaunchPlan, EvalScoring,
        TLC, ApiClient, Runners, NodeMonitor, TelemetryView, Lifecycle, SshProxy,
        AgentLoop, FleetUpdate, LayoutCleanup

VARIABLE focus

(* the proxy below is asked for node n1, with n2 as its bastion *)
ASSUME ProxyInstance == {"n1", "n2"} \subseteq ProxyNodes

(***************************************************************************)
(* Directives: an endpoint to load from, one to store to.                  *)
(***************************************************************************)
Endpoint(mode, transport, bytes, sha, data) ==
    [mode |-> mode, transport |-> transport, bytes |-> bytes, size |-> 1, limit |-> 0, sha |-> sha, data |-> data]
NoEndpoint == Endpoint("skip", "none", -1, "none", "none")
MCDirectives ==
    [who : {"k"}, miss : {"none"}, affinity : {"none"}, store : {NoEndpoint},
     load : {Endpoint("require", "inline", 1, "A", "A"), Endpoint("require", "inline", 1, "A", "B"),
             Endpoint("prefer", "local_store", -1, "A", "none"), Endpoint("prefer", "remote_uri", 3, "A", "none")}]
    \cup {[who |-> "k", miss |-> "none", affinity |-> "none", load |-> NoEndpoint,
           store |-> Endpoint("write_back", "local_store", -1, "none", "none")]}

(***************************************************************************)
(* Topologies: a two-stage pipeline with every kind of layer partition, a  *)
(* second service on nodes that overlap, a pair of nodes that gives way.   *)
(***************************************************************************)
Node(resident, capacity, reserved, production) ==
    [dynamic |-> ~production, resident |-> resident, capacity |-> capacity, reserved |-> reserved, production |-> production]
KvPolicy(connector, gpu, fixed) ==
    [root |-> TRUE, connector |-> connector, sharding |-> "pipeline_layers", of |-> 2, gpu |-> gpu, fixed |-> fixed]
ByNode == [n \in {"n1", "n2"} |-> IF n = "n1" THEN 2 ELSE 3]
Layouts == {[kind |-> "none"], [kind |-> "preset", layers |-> "even"], [kind |-> "preset", layers |-> "tuned"],
            [kind |-> "list", layers |-> <<3, 1>>], [kind |-> "by_node", layers |-> ByNode]}
FirstService(total, layout) ==
    [id |-> "s1", profile |-> "p1", nodes |-> <<"n1", "n2">>, entry |-> "n1", total |-> total, part |-> layout,
     limit |-> 2, depth |-> 3, kv |-> KvPolicy("lmcache", 4, FALSE)]
SecondService(p) ==
    [id |-> "s2", profile |-> p, nodes |-> <<"n2", "n3">>, entry |-> "n2", total |-> 4, part |-> [kind |-> "none"],
     limit |-> 1, depth |-> 0, kv |-> KvPolicy("simple_cpu_offload", 4, TRUE)]
ThreeNodes ==
    [n \in {"n1", "n2", "n3"} |->
        CASE n = "n1" -> Node({"p3", "p4"}, 1, TRUE, TRUE)
          [] n = "n2" -> Node({"p3", "p4"}, 2, FALSE, TRUE)
          [] n = "n3" -> Node({"p3"}, 1, FALSE, FALSE)]
Pairs == [p \in {"p4"} |-> [nodes |-> <<"n1", "n2">>, ingress |-> "n1+n2", joined |-> "n1+n2"]]
MCTopology(total, layout, second, paired) ==
    [nodes |-> ThreeNodes, order |-> [n \in {"n1", "n2", "n3"} |-> CASE n = "n1" -> 1 [] n = "n2" -> 2 [] n = "n3" -> 3],
     services |-> <<FirstService(total, layout)>> \o (IF second = "none" THEN <<>> ELSE <<SecondService(second)>>),
     groups |-> IF paired THEN Pairs ELSE <<>>, queueEntry |-> "n1", experiment |-> IF paired THEN "n2" ELSE "none",
     loadUnmatched |-> paired \/ total = 4]
MCTopologies ==
    {MCTopology(total, layout, second, FALSE) : total \in {4, 5}, layout \in Layouts, second \in {"none", "p1"}}
    \cup {MCTopology(5, [kind |-> "preset", layers |-> "even"], second, TRUE) : second \in {"none", "p1", "p2"}}
MCOverrides == {<<>>, <<"n2">>, <<"n2", "n1">>, <<"n3", "n1", "n2">>, <<"n1", "n1">>}
Gate(window, active, auto, token) == [window |-> window, active |-> active, multimodel |-> TRUE, auto |-> auto, token |-> token]
MCGates == {Gate(0, {}, FALSE, FALSE), Gate(2, {"s1"}, FALSE, FALSE), Gate(0, {"s1"}, TRUE, FALSE), Gate(2, {}, FALSE, TRUE)}
RestingTopology == TopologyStart(MCTopology(4, [kind |-> "none"], "none", FALSE), <<>>, Gate(0, {}, FALSE, FALSE))

(***************************************************************************)
(* Deployments: every connector, extra arguments that repeat an option or  *)
(* end in one, an environment that sets the rank.                          *)
(***************************************************************************)
PartitionKinds ==
    {[kind |-> "none", layers |-> <<>>], [kind |-> "list", layers |-> <<>>],
     [kind |-> "list", layers |-> <<3, 1>>], [kind |-> "by_node", layers |-> ByNode]}
ExtraArgs ==
    {<<>>, <<Opt("--max-num-seqs"), Val("9"), Opt("--x")>>, <<Opt("--x"), Val("1"), Opt("--max-num-seqs")>>,
     <<Opt("--kv-transfer-config"), Opt("--x"), Val("1")>>}
MCDeployments ==
    [workers : {<<"n1", "n2">>}, pp : {1, 2}, spark : {"n1"}, part : PartitionKinds, total : {0, 5},
     connector : {"none", "lmcache_mp", "lmcache", "simple_cpu_offload"}, server : BOOLEAN, model : {"other"},
     env : {<<>>, [k \in {"NODE_RANK"} |-> 7]}, extra : ExtraArgs, batch : {4}]
RestingDeployment ==
    [workers |-> <<"n1", "n2">>, pp |-> 2, spark |-> "n1", part |-> [kind |-> "none", layers |-> <<>>], total |-> 5,
     connector |-> "none", server |-> FALSE, model |-> "other", env |-> <<>>, extra |-> <<>>, batch |-> 4]

(***************************************************************************)
(* Scoring, members and their streams, commands and routes.                *)
(***************************************************************************)
SourceLimits == [s \in Sources |-> IF s = "AIME2025" THEN 3 ELSE 2]
SourceShapes == [s \in Sources |-> IF s = "AIME2025" THEN 2 ELSE 3]
ThreeIds == <<"a", "b", "c">>
PlainBody == [chat |-> TRUE, openai |-> {}, sampling |-> {}, extra |-> {}, budget |-> FALSE, template |-> FALSE,
              plan |-> "none", auto |-> FALSE, optOut |-> FALSE, defaults |-> {}]
MemberKinds == {<<"chat", FALSE>>, <<"prompt", FALSE>>, <<"prompt", TRUE>>}  \* and whether it stops at an answer
PipelineLayers == [n \in ViewNodes |-> IF n = HeadNode THEN 2 ELSE 1]
FleetNodes == [s \in Fleet |-> IF s = "q" THEN <<"n1", "n2">> ELSE <<"n2">>]
FleetEntry == [s \in Fleet |-> IF s = "q" THEN "n1" ELSE "n2"]
CommandLine(actions, sel, allowAll) == [actions |-> actions, sel |-> sel, cleanup |-> TRUE, allowAll |-> allowAll]
MCCommandLines ==
    {CommandLine(<<"relaunch">>, {"q"}, FALSE), CommandLine(<<"launch", "probe">>, {"q"}, FALSE),
     CommandLine(<<"stop">>, Fleet, TRUE), CommandLine(<<"stop">>, Fleet, FALSE)}
EmergencyHosts == [n \in ProxyNodes |-> IF n = "n1" THEN <<"h1">> ELSE <<"h2">>]
ProxyEnds ==
    {<<a, b, c, "banner">> : a \in FarEnds, b \in FarEnds, c \in {"refuses", "late banner"}}
    \cup {<<"refuses", "refuses", "closes", d>> : d \in FarEnds}

(***************************************************************************)
(* Tools of an agent, checkouts to update, paths to clean up.              *)
(***************************************************************************)
MCTools ==
    [t \in {"python", "bash", "shut", "unknown", "wrong"} |->
        [kind |-> CASE t = "bash" -> "bash" [] t = "wrong" -> "bad arguments" [] OTHER -> "python",
         allowed |-> t # "shut", known |-> t # "unknown"]]
RawCall(id, tool) == [id |-> id, tool |-> tool]
MCReplies ==
    [openai : {<<>>, <<RawCall("a", "python")>>,
               <<RawCall("none", "nameless"), RawCall("none", "bash"), RawCall("b", "shut")>>},
     dsml : {<<>>, <<"python">>, <<"wrong", "unknown">>}]

MCFleetOrder == <<"n1", "n2">>
Checkout(main, own, on) == [main |-> main, own |-> own, dirty |-> FALSE, on |-> on]
MCCheckouts == {Checkout(0, 0, "main"), Checkout(0, 1, "main"), Checkout(1, 1, "elsewhere"), Checkout(0, 0, "none")}
UpdateOption(lo, skip, allowed, qwen, restart, runtime, env) ==
    [local |-> lo, skip |-> skip, allowed |-> allowed, qwen |-> qwen, restart |-> restart, runtime |-> runtime, env |-> env]
MCUpdateOptions ==
    {UpdateOption("dirty", FALSE, FALSE, FALSE, FALSE, "trim", <<>>),
     UpdateOption("clean", TRUE, FALSE, TRUE, TRUE, "no trim", <<>>),
     UpdateOption("left alone", FALSE, FALSE, TRUE, TRUE, "trim", <<"other", "other home", "more", "home">>),
     UpdateOption("left alone", FALSE, TRUE, TRUE, FALSE, "missing", <<>>)}
RestingUpdate == UpdateOption("left alone", FALSE, FALSE, FALSE, FALSE, "missing", <<>>)

(* a directory of two hard links to one file, a file on the external disk *)
MCDiskDirs == [d \in {"dir"} |-> {"a", "b"}]
MCDiskInodes == [f \in {"a", "b", "x"} |-> IF f = "x" THEN 2 ELSE 1]
CleanupEntry(path, action) == [path |-> path, action |-> action]
MCManifests ==
    {<<CleanupEntry(p, act), CleanupEntry(q, next)>> :
        p \in {"dir", "a"}, q \in {"dir", "b", "x"}, act \in {"delete", "archive"}, next \in {"delete", "archive"}}
    \cup {<<CleanupEntry("b", "delete"), CleanupEntry("x", "other")>>}
RestingCleanup == [apply |-> FALSE, archive |-> FALSE, made |-> FALSE, mounted |-> TRUE, alias |-> "link"]

-----------------------------------------------------------------------------
kvParts == <<registryVars, offloadVars, hmaVars, directiveVars>>
configParts == <<topologyVars, launchVars, scoringVars>>
servingParts == <<clientVars, runnerVars, agentVars>>
operatorParts == <<monitorVars, viewVars, lifecycleVars, proxyVars>>
upkeepParts == <<updateVars, cleanupVars>>

KvInit ==
    /\ RegistryInit /\ OffloadInit /\ HmaInit
    /\ IF focus = "directive" THEN DirectiveInit
       ELSE DirectiveStart([r \in KvRequests |-> NoPlan], [r \in KvRequests |-> Absent], CHOOSE f \in PrefixFiles : TRUE)
ConfigInit ==
    /\ IF focus = "topology" THEN TopologyInit ELSE RestingTopology
    /\ IF focus = "launch" THEN LaunchInit ELSE LaunchStart(RestingDeployment)
    /\ IF focus = "scoring" THEN ScoringInit ELSE ScoringStart(CHOOSE kind \in DOMAIN Items : TRUE)
ServingInit ==
    /\ ClientInit /\ AgentInit
    /\ IF focus = "member" THEN \E k \in MemberKinds, out \in EngineTexts : MemberStart(k[1], out, k[2])
       ELSE MemberStart("chat", <<"word">>, FALSE)
    /\ IF focus = "direct" THEN \E k \in {"spark", "antirez"} : DirectStart(k) ELSE DirectStart("spark")
    /\ IF focus = "asked" THEN \E q \in AskedForms : AskedStart(q) ELSE AskedStart(PlainBody)
OperatorInit ==
    /\ MonitorStartState /\ ViewStart /\ LifecycleStart
    /\ IF focus = "proxy"
       THEN \E route \in {"auto", "200g", "wifi"}, ends \in ProxyEnds : ProxyStart("n1", route, <<"n2">>, <<"n2">>, ends)
       ELSE ProxyStart("n1", "10g", <<"n2">>, <<"n2">>, <<"refuses">>)

UpkeepInit ==
    /\ IF focus = "update" THEN UpdateInit
       ELSE UpdateStart([n \in UpdateNodes |-> Checkout(0, 0, "main")], RestingUpdate)
    /\ IF focus = "cleanup" THEN CleanupInit ELSE CleanupStart(<<>>, RestingCleanup)

Foci == {"registry", "offload", "hma", "directive", "topology", "launch", "scoring", "client",
         "member", "direct", "asked", "agent", "monitor", "nodes", "queue", "fleet", "coordinator", "proxy",
         "update", "cleanup"}
PartsInit ==
    /\ focus \in Foci
    /\ KvInit /\ ConfigInit /\ ServingInit /\ OperatorInit /\ UpkeepInit

KvNext ==
    \/ focus = "registry" /\ RegistryNext /\ UNCHANGED <<offloadVars, hmaVars, directiveVars>>
    \/ focus = "offload" /\ OffloadNext /\ UNCHANGED <<registryVars, hmaVars, directiveVars>>
    \/ focus = "hma" /\ HmaNext /\ UNCHANGED <<registryVars, offloadVars, directiveVars>>
    \/ focus = "directive" /\ DirectiveNext /\ UNCHANGED <<registryVars, offloadVars, hmaVars>>
ConfigNext ==
    \/ focus = "topology" /\ TopologyNext /\ UNCHANGED <<launchVars, scoringVars>>
    \/ focus = "launch" /\ LaunchNext /\ UNCHANGED <<topologyVars, scoringVars>>
    \/ focus = "scoring" /\ ScoringNext /\ UNCHANGED <<topologyVars, launchVars>>
ServingNext ==
    \/ focus = "client" /\ ClientNext /\ UNCHANGED <<runnerVars, agentVars>>
    \/ focus = "member" /\ MemberNext /\ UNCHANGED <<clientVars, agentVars>>
    \/ focus = "direct" /\ DirectNext /\ UNCHANGED <<clientVars, agentVars>>
    \/ focus = "agent" /\ AgentNext /\ UNCHANGED <<clientVars, runnerVars>>
OperatorNext ==
    \/ focus = "monitor" /\ MonitorNext /\ UNCHANGED <<viewVars, lifecycleVars, proxyVars>>
    \/ focus = "nodes" /\ NodesNext /\ UNCHANGED <<monitorVars, lifecycleVars, proxyVars>>
    \/ focus = "queue" /\ QueueNext /\ UNCHANGED <<monitorVars, lifecycleVars, proxyVars>>
    \/ focus = "fleet" /\ FleetNext /\ UNCHANGED <<monitorVars, viewVars, proxyVars>>
    \/ focus = "coordinator" /\ CoordinatorNext /\ UNCHANGED <<monitorVars, viewVars, proxyVars>>
    \/ focus = "proxy" /\ SshProxyNext /\ UNCHANGED <<monitorVars, viewVars, lifecycleVars>>

UpkeepNext ==
    \/ focus = "update" /\ UpdateNext /\ UNCHANGED cleanupVars
    \/ focus = "cleanup" /\ CleanupNext /\ UNCHANGED updateVars

PartsNext ==
    \/ KvNext /\ UNCHANGED <<focus, configParts, servingParts, operatorParts, upkeepParts>>
    \/ ConfigNext /\ UNCHANGED <<focus, kvParts, servingParts, operatorParts, upkeepParts>>
    \/ ServingNext /\ UNCHANGED <<focus, kvParts, configParts, operatorParts, upkeepParts>>
    \/ OperatorNext /\ UNCHANGED <<focus, kvParts, configParts, servingParts, upkeepParts>>
    \/ UpkeepNext /\ UNCHANGED <<focus, kvParts, configParts, servingParts, operatorParts>>

(* Users and stages of the registry are alike: all its choices are of sums and sets. *)
PartsSymmetry == Permutations(KvClients) \cup Permutations(Stages)

PartsSpec == PartsInit /\ [][PartsNext]_<<focus, kvParts, configParts, servingParts, operatorParts, upkeepParts>>

(* The state of the part that runs has its type (RegistryTypeOK ... of each *)
(* part, as the tables, records and files of the code have).                *)
PartsTypeOK ==
    /\ focus = "registry" => RegistryTypeOK
    /\ focus = "offload" => OffloadTypeOK
    /\ focus = "hma" => HmaTypeOK
    /\ focus = "directive" => DirectiveTypeOK
    /\ focus = "topology" => TopologyTypeOK
    /\ focus = "launch" => LaunchTypeOK
    /\ focus = "scoring" => ScoringTypeOK
    /\ focus = "client" => ClientTypeOK
    /\ focus \in {"member", "direct", "asked"} => RunnersTypeOK
    /\ focus = "agent" => AgentTypeOK
    /\ focus = "monitor" => MonitorTypeOK
    /\ focus \in {"nodes", "queue"} => ViewTypeOK
    /\ focus \in {"fleet", "coordinator"} => LifecycleTypeOK
    /\ focus = "proxy" => SshProxyTypeOK
    /\ focus = "update" => UpdateTypeOK
    /\ focus = "cleanup" => CleanupTypeOK

-----------------------------------------------------------------------------
(* What the stores say of KV is so: what the registry concluded of its      *)
(* shards holds and a live lease stays (queue.py), a block or package that is loaded holds     *)
(* what its index says, after any crash and under concurrent writers        *)
(* (persistent_disk.py, state_package.py, vllm_connector.py).               *)
StoresTruthful ==
    /\ focus = "registry" => ConclusionsHold /\ LiveLeaseKept
    /\ focus = "offload" => LoadsTruthful /\ RestoreStarts /\ IndexOneToOne
    /\ focus = "hma" => NoMixedPackage /\ IndexedExists /\ FailsClosed

(* A KV directive means the same at every step: requests of one cohort load *)
(* alike, what was queued can be verified at dispatch, resolving it again   *)
(* changes nothing (kv_cache.py).                                           *)
DirectivesStand == [](CohortLoadsAlike /\ QueuedVerifiable) /\ ResolveIdempotent

(* Every layer of a deployment is owned once, by balanced stages on nodes   *)
(* that serve, also after an override, and planner, launcher and engine     *)
(* options agree on it (pipelines.py, topology.py, deployment.py).          *)
LayoutsRight ==
    /\ focus = "topology" =>
          LayersOwnedOnce /\ BalancedIsBest /\ OverrideKeepsReady /\ DefaultsCover /\ BoundWhereServed
    /\ focus = "launch" => LaunchedWhole /\ OptionsOnce /\ LayoutsAgree

(* A client gets the text and the end of its own request once and whole,    *)
(* from an event log that is read in pages and streams that are stopped,    *)
(* split and matched to rows; an agent's calls are answered within their    *)
(* limits (api.py, api_stream.py, runners.py, loop.py).                     *)
AnswersRight ==
    /\ focus = "client" => FitsWindow /\ FinishAhead /\ FinishedOnce /\ TextOnce
    /\ focus = "member" => CancelNotAnswer /\ StopsAtFirstAnswer /\ VisibleKept
    /\ focus = "direct" => RowsMatched
    /\ focus = "asked" => PlanToldTwice
    /\ focus = "agent" => CallsAnswered /\ RunsWithinLimits

(* Grades, cases and counters of an evaluation or a benchmark are those of  *)
(* the answers given (ds4_eval_api_runner.py, ds4_api_queue_benchmark.py).  *)
ScoresRight == [](SameCases /\ UsageAddsUp /\ MixFair /\ CacheShareSane) /\ MarkerDecides

(* What telemetry shows was so not long ago: rates, rows of the file, nodes *)
(* that are down, services and shares of a service                          *)
(* (spark_node_telemetry_monitor.py, spark_telemetry_dashboard.py).         *)
TelemetryHonest ==
    /\ focus = "monitor" => RatesNeverOver /\ RowsUnderHeader
    /\ focus \in {"nodes", "queue"} => DownMeansSilent /\ ShownRecent /\ ServiceShownServed /\ SharesAddUp

(* The fleet is as its commands said they left it: no rank of an old launch *)
(* beside new ones, a coordinator called healthy is the new one, routes of  *)
(* the proxy are tried in order and closed, nodes called updated have what  *)
(* was on main, only what a manifest lists is cleaned up                    *)
(* (ds4_pipeline_lifecycle.py, ds4_relaunch_coordinator_api.py,             *)
(* ds4_spark_ssh_proxy.py, ds4_update_spark_nodes.sh,                       *)
(* ds4_layout_cleanup.py).                                                  *)
FleetInOrder ==
    /\ focus \in {"fleet", "coordinator"} =>
          RelaunchFresh /\ EntryLast /\ FailedProbeCleans /\ HealthyIsNew /\ SafetyFromProfile
    /\ focus = "proxy" => NothingLeftOpen /\ StreamWhole /\ OrderKept
    /\ focus = "update" => ZeroDrift /\ AbortLeavesRest /\ GatewayReady
    /\ focus = "cleanup" => OnlyListedRemoved /\ ReceiptTrue /\ MadeIsAccepted /\ AliasRight
=============================================================================
