----------------------------- MODULE LaunchPlan -----------------------------
(***************************************************************************)
(* The launch plan of a vLLM deployment with a KV connector                *)
(* (ds4_kvcache/service.py): validation, the layers, environment and       *)
(* arguments of every rank, the scripts written from them, and the nodes   *)
(* that run those scripts.  An argument is an option or the value of the   *)
(* option before it; templates, quoting and YAML are left out.             *)
(***************************************************************************)
EXTENDS Topology
LOCAL INSTANCE SequencesExt
LOCAL INSTANCE Folds

CONSTANT RawDeployments

VARIABLES deployment, manifest, engines

launchVars == <<deployment, manifest, engines>>

Opt(name) == [option |-> TRUE, text |-> name]
Val(text) == [option |-> FALSE, text |-> text]
IsPipeline(d) == d.pp > 1

(* _deployment_layer_partition: an empty list counts as none.               *)
DeploymentPartition(d) ==
    CASE d.part.kind = "by_node" -> LayersByNode(d.part.layers, d.workers)
      [] d.part.kind = "list" /\ d.part.layers # <<>> -> d.part.layers
      [] OTHER -> IF d.total > 0 /\ IsPipeline(d) THEN EvenLayers(d.total, d.pp) ELSE NoLayers

(* _default_connector_name, _validate_deployment, LmcacheServer.from_json.  *)
ConnectorName(id) ==
    CASE id = "none" -> "" [] id = "lmcache_mp" -> "LMCacheMPConnector" [] id = "lmcache" -> "LMCacheConnectorV1"
      [] id = "simple_cpu_offload" -> "SimpleCPUOffloadConnector" [] id = "offloading" -> "OffloadingConnector"
PartitionRaises(d) ==
    \/ d.part.kind = "by_node" /\ DOMAIN d.part.layers # Elems(d.workers)
    \/ /\ d.part.kind # "by_node" /\ (d.part.kind = "list" => d.part.layers = <<>>)
       /\ d.total > 0 /\ IsPipeline(d) /\ d.pp > d.total
DeploymentAccepted(d) ==
    LET layers == DeploymentPartition(d) IN
    /\ d.pp > 0 /\ ~PartitionRaises(d)
    /\ IsPipeline(d) =>
          /\ Len(d.workers) = d.pp /\ (layers # NoLayers => Len(layers) = d.pp)
          /\ \A i \in DOMAIN layers : layers[i] > 0
          /\ d.total > 0 /\ layers # NoLayers => Total(layers) = d.total
    /\ d.model = "dsv4" => ConnectorName(d.connector) \notin {"LMCacheMPConnector", "LMCacheConnectorV1", "OffloadingConnector"}
    /\ d.server <=> d.connector = "lmcache_mp"

(* _stage_plan, _deployment_env and _env_for_rank: what extra_env sets      *)
(* stays.                                                                   *)
RankLayers(d, rank) ==
    LET layers == DeploymentPartition(d) start == Total(SubSeq(layers, 1, rank))
    IN IF layers = NoLayers THEN {} ELSE start .. (start + layers[rank + 1] - 1)
RankEnv(d, rank) ==
    LET layers == DeploymentPartition(d)
        keys == IF ~IsPipeline(d) THEN {}
                ELSE {"NODE_RANK", "DS4_NODE_ID"} \cup (IF layers = NoLayers THEN {} ELSE {"VLLM_PP_LAYER_PARTITION"})
        own == [k \in keys |-> CASE k = "NODE_RANK" -> rank [] k = "DS4_NODE_ID" -> d.workers[rank + 1]
                                  [] k = "VLLM_PP_LAYER_PARTITION" -> layers]
    IN [k \in DOMAIN d.env \cup DOMAIN own |-> IF k \in DOMAIN d.env THEN d.env[k] ELSE own[k]]

(* _connector_with_server, kv_transfer_config.                              *)
ConnectorConfig(d) == IF d.server THEN "with server" ELSE "plain"
TransferConfig(d) ==
    IF ConnectorName(d.connector) = "" THEN <<>> ELSE <<Opt("--kv-transfer-config"), Val(ConnectorConfig(d))>>

(* _dedupe_args: an option the plan has is dropped with its value.          *)
DedupeArgs(extra, present) ==
    LET step(acc, i) ==
            IF acc.skip THEN [acc EXCEPT !.skip = FALSE]
            ELSE IF extra[i].option /\ extra[i].text \in present
                 THEN [acc EXCEPT !.skip = i < Len(extra) /\ ~extra[i + 1].option]
                 ELSE [acc EXCEPT !.out = Append(@, extra[i])]
    IN FoldLeft(step, [out |-> <<>>, skip |-> FALSE], [i \in DOMAIN extra |-> i]).out

OptionsOf(argv) == {argv[i].text : i \in {j \in DOMAIN argv : argv[j].option}}
PlannedArgs(d, rank) ==
    (IF ~IsPipeline(d) \/ rank = 0 THEN <<Opt("--host"), Val("h"), Opt("--port"), Val("p")>> ELSE <<>>)
    \o (IF IsPipeline(d) THEN <<Opt("--node-rank"), Val(ToString(rank)), Opt("--master-addr"), Val(d.spark)>> ELSE <<>>)
    \o TransferConfig(d)
    \o (IF d.batch > 0 THEN <<Opt("--max-num-seqs"), Val(ToString(d.batch))>> ELSE <<>>)
RankArgv(d, rank) ==
    LET planned == PlannedArgs(d, rank)
        argv == planned \o DedupeArgs(d.extra, OptionsOf(planned))
    IN IF IsPipeline(d) /\ rank # 0 /\ "--headless" \notin OptionsOf(argv) THEN Append(argv, Opt("--headless")) ELSE argv

(* _vllm_node_plan, and the plans of all ranks (plan_deployment).           *)
RankPlan(d, rank) ==
    [node |-> IF IsPipeline(d) THEN d.workers[rank + 1] ELSE d.spark, rank |-> rank,
     layers |-> RankLayers(d, rank), env |-> RankEnv(d, rank), argv |-> RankArgv(d, rank)]
RankPlans(d) == [rank \in 0..(d.pp - 1) |-> RankPlan(d, rank)]

LaunchTypeOK ==
    /\ deployment \in RawDeployments /\ manifest.written \in BOOLEAN
    /\ manifest.nodes \in [DOMAIN manifest.nodes -> 0..(Largest({1, deployment.pp}) - 1)]
    /\ \A e \in engines : e.rank \in 0..(deployment.pp - 1)

LaunchStart(d) ==
    /\ deployment = d /\ engines = {}
    /\ manifest = [written |-> FALSE, nodes |-> <<>>, cacheServer |-> FALSE]
LaunchInit == \E d \in RawDeployments : LaunchStart(d)

(* write_launch_scripts: a script per rank, entered under the node's id,    *)
(* where the last one stays.                                                *)
WriteLaunchScripts ==
    LET d == deployment plans == RankPlans(d) IN
    /\ ~manifest.written /\ DeploymentAccepted(d)
    /\ manifest' = [written |-> TRUE, cacheServer |-> d.server,
                    nodes |-> [n \in {plans[r].node : r \in DOMAIN plans} |->
                                  Largest({r \in DOMAIN plans : plans[r].node = n})]]
    /\ UNCHANGED <<deployment, engines>>

(* A node runs its start script.                                            *)
StartScript(n) ==
    LET r == manifest.nodes[n] IN
    /\ manifest.written /\ n \in DOMAIN manifest.nodes
    /\ engines' = engines \cup {RankPlan(deployment, r)}
    /\ UNCHANGED <<deployment, manifest>>

LaunchNext == WriteLaunchScripts \/ \E n \in Elems(deployment.workers) \cup {deployment.spark} : StartScript(n)

-----------------------------------------------------------------------------
(* When every node has run its script the engine is whole: one process of   *)
(* every rank, one of them serving HTTP and the others headless, and the    *)
(* layers of the model spread over them without gap or overlap, as the      *)
(* environment tells vLLM (write_launch_scripts, _vllm_argv, _stage_plan).  *)
LaunchedWhole ==
    manifest.written /\ {e.node : e \in engines} = DOMAIN manifest.nodes =>
        LET d == deployment layers == DeploymentPartition(d) IN
        /\ {e.rank : e \in engines} = 0..(IF IsPipeline(d) THEN d.pp - 1 ELSE 0)
        /\ Cardinality({e \in engines : "--port" \in OptionsOf(e.argv)}) = 1
        /\ \A e \in engines : "--port" \in OptionsOf(e.argv) <=> "--headless" \notin OptionsOf(e.argv)
        /\ IsPipeline(d) /\ layers # NoLayers => \A l \in 0..(Total(layers) - 1) :
              Cardinality({e \in engines : l \in e.layers}) = 1
        /\ \A e \in engines : IsPipeline(d) /\ d.env = <<>> =>
              e.env["NODE_RANK"] = e.rank /\ (layers # NoLayers => e.env["VLLM_PP_LAYER_PARTITION"] = layers)

(* No option is given twice, and extra arguments never displace a planned   *)
(* one: its value is the one that follows it (_dedupe_args).                *)
OptionsOnce ==
    \A e \in engines :
        LET planned == PlannedArgs(deployment, e.rank) IN
        /\ IsPrefix(planned, e.argv)
        /\ \A i \in DOMAIN e.argv : e.argv[i].option /\ e.argv[i].text \in OptionsOf(planned) => i <= Len(planned)
        /\ \A i \in DOMAIN e.argv : ~e.argv[i].option => i > 1 /\ e.argv[i - 1].option

(* The engine and the coordinator cut the model alike: when both accept a   *)
(* layout given to both, their partitions are the same                      *)
(* (_deployment_layer_partition against load_layer_partition_with_source).  *)
LayoutsAgree ==
    LET d == deployment IN
    manifest.written /\ IsPipeline(d) /\ d.total > 0 =>
        LET layers == LoadedPartition(d.part, d.workers, d.total) IN
        Len(layers) = d.pp /\ Total(layers) = d.total => layers = DeploymentPartition(d)
=============================================================================
