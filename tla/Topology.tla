------------------------------ MODULE Topology ------------------------------
(***************************************************************************)
(* The static topology: nodes, pipeline services and their layers          *)
(* (topology.py, pipelines.py), the override by DS4_PIPELINE_NODES, the    *)
(* node a request is bound to, the plans of the resident dispatcher and    *)
(* the readiness gate (dispatcher_resident.py, deployment.py,              *)
(* ds4_deployment_gate.py).  A raw topology is what is read from the file; *)
(* `topo` is what was made of it.                                          *)
(***************************************************************************)
EXTENDS Integers, Sequences, FiniteSets
LOCAL INSTANCE Folds
LOCAL INSTANCE Functions
LOCAL INSTANCE SequencesExt

CONSTANTS RawTopologies, NodeOverrides, GateSettings, Profiles,
          PresetLayers, PresetTail, TailScale,   \* qwen36_27b_bf16_layer_partition, in units of 1/TailScale layer
          LeastWindow, LeastWorkers, GpuCap, MaxBound

ASSUME TopologyAssumption ==
    /\ \A o \in NodeOverrides : o \in Seq(STRING)
    /\ {PresetLayers, TailScale, LeastWindow, LeastWorkers} \subseteq Nat \ {0} /\ {PresetTail, GpuCap, MaxBound} \subseteq Nat

VARIABLES raw, override, gate,   \* the file and the environment
          topo,                  \* what SparkTopology.load made of them
          nodeLoad, bound        \* current_load of a submission, and the last assignment

topologyVars == <<raw, override, gate, topo, nodeLoad, bound>>

Total(s) == FoldFunction(LAMBDA a, b : a + b, 0, s)
Largest(S) == CHOOSE x \in S : \A y \in S : y <= x
Smallest(S) == CHOOSE x \in S : \A y \in S : x <= y
Elems(s) == {s[i] : i \in DOMAIN s}
Ceil(a, b) == (a + b - 1) \div b
NoLayers == <<>>

(* Layer partitions.                                                        *)
EvenLayers(total, n) ==
    IF n < 1 \/ n > total THEN NoLayers
    ELSE [i \in 1..n |-> total \div n + (IF i <= total % n THEN 1 ELSE 0)]

(* balanced_layer_partition: every length of the last stage, the others     *)
(* even; the least (largest cost, spread, last stage off the average).      *)
(* The average is the same for all of them.                                 *)
TailCandidates(total, n) == {Append(EvenLayers(total - t, n - 1), t) : t \in 1..(total - n + 1)}
StageCosts(part, extra) ==
    {TailScale * part[i] + (IF i = Len(part) THEN extra ELSE 0) : i \in DOMAIN part}
TailScore(part, extra) ==
    LET costs == StageCosts(part, extra)
        off == Len(part) * (TailScale * part[Len(part)] + extra) - (TailScale * Total(part) + extra)
    IN <<Largest(costs), Largest(costs) - Smallest(costs), IF off < 0 THEN -off ELSE off>>
Precedes(a, b) == \E k \in 1..3 : a[k] < b[k] /\ \A j \in 1..(k - 1) : a[j] = b[j]
BalancedLayers(total, n, extra) ==
    IF n < 1 \/ n > total THEN NoLayers
    ELSE IF n = 1 THEN <<total>>
    ELSE CHOOSE p \in TailCandidates(total, n) :
            \A q \in TailCandidates(total, n) : ~Precedes(TailScore(q, extra), TailScore(p, extra))

(* layer_partition_by_node: every node of the service and no other.         *)
LayersByNode(byNode, nodes) ==
    IF DOMAIN byNode = Elems(nodes) THEN [i \in DOMAIN nodes |-> byNode[nodes[i]]] ELSE NoLayers

PresetPartition(name, total, n) ==
    IF name = "even" THEN EvenLayers(total, n) ELSE BalancedLayers(PresetLayers, n, PresetTail)

(* load_layer_partition_with_source *)
LoadedPartition(part, nodes, total) ==
    CASE part.kind = "by_node" -> LayersByNode(part.layers, nodes)
      [] part.kind = "preset" -> PresetPartition(part.layers, total, Len(nodes))
      [] part.kind = "list" -> part.layers
      [] part.kind = "none" -> EvenLayers(total, Len(nodes))

(* PipelineService.from_json: what is refused, and the service.             *)
ServiceAccepted(s, known) ==
    LET layers == LoadedPartition(s.part, s.nodes, s.total) IN
    /\ s.nodes # <<>> /\ Elems(s.nodes) \subseteq known /\ s.entry \in Elems(s.nodes)
    /\ s.total >= 1 /\ s.limit >= 1
    /\ Len(layers) = Len(s.nodes) /\ Total(layers) = s.total /\ \A i \in DOMAIN layers : layers[i] >= 1
LoadService(s) ==
    [id |-> s.id, profile |-> s.profile, nodes |-> s.nodes, entry |-> s.entry, total |-> s.total,
     layers |-> LoadedPartition(s.part, s.nodes, s.total), limit |-> s.limit, depth |-> s.depth, kv |-> s.kv]

(* stages and the KV shards cut along them.                                 *)
StageStart(s, i) == Total(SubSeq(s.layers, 1, i - 1))
StageLayers(s, i) == StageStart(s, i) .. (StageStart(s, i) + s.layers[i] - 1)
KvShardBytes(s, bytes) ==
    IF bytes <= 0 THEN 0 ELSE IF s.kv.sharding = "replicated" THEN bytes ELSE Ceil(bytes, Len(s.nodes))

(* _partition_for_service and _apply_pipeline_node_override.  The by-node   *)
(* table stays and is read again by the load.                               *)
OverriddenPartition(s, nodes) ==
    IF s.part.kind = "by_node" THEN s.part
    ELSE [kind |-> "list",
          layers |-> CASE s.part.kind = "list" /\ Len(s.part.layers) = Len(nodes) -> s.part.layers
                       [] s.part.kind = "preset" -> PresetPartition(s.part.layers, s.total, Len(nodes))
                       [] OTHER -> EvenLayers(s.total, Len(nodes))]
(* Mutation: the KV policy keeps its number of stages. *)
OverriddenServiceKv(s, nodes) == [s EXCEPT !.nodes = nodes, !.entry = nodes[1], !.part = OverriddenPartition(s, nodes)]

OverriddenService(s, nodes) ==
    IF s.total < 1 THEN s
    ELSE [s EXCEPT !.nodes = nodes, !.entry = nodes[1], !.part = OverriddenPartition(s, nodes), !.kv.of = Len(nodes)]
OverrideRefused(t, nodes) ==
    \/ ~IsInjective(nodes) \/ ~(Elems(nodes) \subseteq DOMAIN t.nodes)
    \/ \E i \in DOMAIN t.services : t.services[i].total >= 1 /\ Len(nodes) > t.services[i].total
Overridden(t, nodes) ==
    IF nodes = <<>> THEN t
    ELSE [t EXCEPT !.nodes = [n \in Elems(nodes) |-> t.nodes[n]],
                   !.services = [i \in DOMAIN t.services |-> OverriddenService(t.services[i], nodes)],
                   !.queueEntry = nodes[1]]

(* SparkTopology: services with an id and a profile each of their own,      *)
(* groups of nodes that list the profile; the ingress of a group is one of  *)
(* them or, by default, the id made by joining theirs.                      *)
GroupsAccepted(t) ==
    \A p \in DOMAIN t.groups :
        /\ t.groups[p].nodes # <<>> /\ t.groups[p].ingress \in Elems(t.groups[p].nodes) \cup {t.groups[p].joined}
        /\ \A n \in Elems(t.groups[p].nodes) : n \in DOMAIN t.nodes /\ p \in t.nodes[n].resident
TopologyAccepted(t) ==
    /\ DOMAIN t.nodes # {} /\ GroupsAccepted(t)
    /\ \A i \in DOMAIN t.services : ServiceAccepted(t.services[i], DOMAIN t.nodes)
    /\ \A i, j \in DOMAIN t.services :
          i # j => t.services[i].id # t.services[j].id /\ t.services[i].profile # t.services[j].profile
NoTopology == [ok |-> FALSE, nodes |-> <<>>, services |-> {}, groups |-> <<>>, queueEntry |-> "none", experiment |-> "none",
               loadUnmatched |-> FALSE]
LoadTopology(t, nodes) ==
    IF nodes # <<>> /\ OverrideRefused(t, nodes) THEN NoTopology
    ELSE LET o == Overridden(t, nodes) IN
         IF ~TopologyAccepted(o) THEN NoTopology
         ELSE [ok |-> TRUE, nodes |-> o.nodes, services |-> {LoadService(o.services[i]) : i \in DOMAIN o.services},
               groups |-> o.groups, queueEntry |-> o.queueEntry, experiment |-> o.experiment,
               loadUnmatched |-> o.loadUnmatched]

(* assign_profile, in its order; nodes by load over capacity, then by name. *)
Resident(p) == {n \in DOMAIN topo.nodes : p \in topo.nodes[n].resident}
ChooseResidentNode(p, immediate, order) ==
    LET rec(n) == topo.nodes[n]
        reserved == {n \in Resident(p) : rec(n).reserved}
        room == {n \in Resident(p) : rec(n).production /\ nodeLoad[n] < rec(n).capacity}
        nodes == IF immediate /\ reserved # {} THEN reserved
                 ELSE IF ~immediate /\ room # {} THEN room ELSE Resident(p)
    IN CHOOSE n \in nodes : \A m \in nodes \ {n} :
            LET a == nodeLoad[n] * rec(m).capacity b == nodeLoad[m] * rec(n).capacity
            IN a < b \/ (a = b /\ order[n] < order[m])
Bound(p, reason, node, nodes) == [profile |-> p, reason |-> reason, node |-> node, nodes |-> nodes]
NotBound == Bound("none", "none", "none", {})
ExperimentalNodes(order) ==
    LET dynamic == {n \in DOMAIN topo.nodes : topo.nodes[n].dynamic} IN
    IF ~topo.loadUnmatched THEN {}
    ELSE IF topo.experiment \in DOMAIN topo.nodes THEN {topo.experiment}
    ELSE {n \in dynamic : \A m \in dynamic : order[n] <= order[m]}
AssignProfile(p, immediate, order) ==
    LET mine == {s \in topo.services : s.profile = p} IN
    CASE mine # {} -> LET s == CHOOSE s \in mine : TRUE IN Bound(p, "pipeline_service", s.entry, Elems(s.nodes))
      [] mine = {} /\ p \in DOMAIN topo.groups ->
            Bound(p, "resident_profile_group", topo.groups[p].ingress, Elems(topo.groups[p].nodes))
      [] mine = {} /\ p \notin DOMAIN topo.groups /\ Resident(p) # {} ->
            LET n == ChooseResidentNode(p, immediate, order) IN Bound(p, "resident_profile", n, {n})
      [] mine = {} /\ p \notin DOMAIN topo.groups /\ Resident(p) = {} /\ ExperimentalNodes(order) # {} ->
            LET n == CHOOSE n \in ExperimentalNodes(order) : TRUE IN Bound(p, "dynamic_load_experiment_lane", n, {n})
      [] OTHER -> NotBound

(* estimate_capacity_by_profile: of several nodes with a resident profile   *)
(* only the first one counts.                                               *)
CapacityOf(p, order) ==
    LET mine == {s \in topo.services : s.profile = p}
        firstNode == CHOOSE n \in Resident(p) : \A m \in Resident(p) : order[n] <= order[m]
    IN IF mine # {} THEN (CHOOSE s \in mine : TRUE).limit
       ELSE IF p \in DOMAIN topo.groups THEN Smallest({topo.nodes[n].capacity : n \in Elems(topo.groups[p].nodes)})
       ELSE IF Resident(p) = {} THEN 0 ELSE topo.nodes[firstNode].capacity

(* resident_service_plans: services that enter at the queue's node.  The    *)
(* targets of the others are their batch limits.                            *)
ActiveServices(t) == {s \in t.services : gate.active = {} \/ s.id \in gate.active}
Planned(t) == {s \in ActiveServices(t) : s.entry = t.queueEntry}
QueueDepth(s) == IF s.depth > s.limit THEN s.depth ELSE s.limit
PlannedDepths(t) == LET S == IF Planned(t) = {} THEN ActiveServices(t) ELSE Planned(t)
                    IN FoldSet(LAMBDA s, n : QueueDepth(s) + n, 0, S)
DefaultDispatchWindow(t) == Largest({LeastWindow, PlannedDepths(t)})
DefaultCohortWorkers(t) == Largest({LeastWorkers, PlannedDepths(t)})

(* deployment_readiness: the checks that are errors, by name, with the      *)
(* sizes the gate takes when the environment gives none.                    *)
SizesCover(t, size) == \A s \in ActiveServices(t) : size >= s.limit /\ size >= QueueDepth(s)
GateWindow(t) == IF gate.window > 0 THEN gate.window ELSE DefaultDispatchWindow(t)
ExternalKvOk(s) == s.kv.root /\ s.kv.connector # "none" /\ s.kv.sharding = "pipeline_layers" /\ s.kv.of = Len(s.nodes)
NeedsPrefetch(t) == \E s \in ActiveServices(t) : s.kv.connector = "simple_cpu_offload"
GpuShare(t) == FoldSet(LAMBDA s, n : s.kv.gpu + n, 0, {s \in ActiveServices(t) : ~s.kv.fixed})
AutoPlanOk(t) == gate.auto \/ \A s \in ActiveServices(t) : s.kv.connector = "none"
PrefetchReady(t) == NeedsPrefetch(t) => gate.token
ServicesKnown(t) == ActiveServices(t) # {} /\ gate.active \subseteq {s.id : s \in t.services}
FailedChecks(t) ==
    {c \in {"services", "window", "workers", "multimodel", "external_kv", "auto_plan", "gpu_budget", "prefetch"} :
        ~ CASE c = "services" -> ServicesKnown(t)
            [] c = "window" -> GateWindow(t) >= 1 /\ SizesCover(t, GateWindow(t))
            [] c = "workers" -> SizesCover(t, DefaultCohortWorkers(t))
            [] c = "multimodel" -> gate.multimodel \/ Cardinality(ActiveServices(t)) <= 1
            [] c = "external_kv" -> \A s \in ActiveServices(t) : ExternalKvOk(s)
            [] c = "auto_plan" -> AutoPlanOk(t)
            [] c = "gpu_budget" -> GpuShare(t) <= GpuCap
            [] c = "prefetch" -> PrefetchReady(t)}
Ready(t) == t.ok /\ FailedChecks(t) = {}

LoadKeys(r) == DOMAIN r.nodes \cup {r.groups[p].joined : p \in DOMAIN r.groups}

TopologyTypeOK ==
    /\ raw \in RawTopologies /\ override \in NodeOverrides /\ gate \in GateSettings
    /\ topo.ok \in BOOLEAN /\ bound.profile \in Profiles \cup {"none"}
    /\ nodeLoad \in [LoadKeys(raw) -> 0..MaxBound]

TopologyStart(r, o, g) ==
    /\ raw = r /\ override = o /\ gate = g
    /\ topo = NoTopology /\ nodeLoad = [n \in LoadKeys(r) |-> 0] /\ bound = NotBound
TopologyInit == \E r \in RawTopologies, o \in NodeOverrides, g \in GateSettings : TopologyStart(r, o, g)

(* SparkTopology.load, by the API and by the gate.                          *)
ReadTopology ==
    /\ ~topo.ok /\ topo' = LoadTopology(raw, override) /\ topo'.ok
    /\ UNCHANGED <<raw, override, gate, nodeLoad, bound>>

(* A request of a submission that binds its requests.                       *)
BindRequest(p, immediate) ==
    LET b == AssignProfile(p, immediate, raw.order) IN
    /\ topo.ok /\ Total(nodeLoad) < MaxBound /\ b # NotBound
    /\ bound' = b /\ nodeLoad' = [nodeLoad EXCEPT ![b.node] = @ + 1]
    /\ UNCHANGED <<raw, override, gate, topo>>

TopologyNext == ReadTopology \/ \E p \in Profiles, immediate \in BOOLEAN : BindRequest(p, immediate)

-----------------------------------------------------------------------------
(* Every layer of a loaded service is run by exactly one stage, and the     *)
(* shards of a KV object hold all of it, however its layers were given and  *)
(* whatever the override made of them (from_json, stages,                   *)
(* estimate_kv_shard_bytes).                                                *)
LayersOwnedOnce ==
    \A s \in topo.services :
        /\ \A l \in 0..(s.total - 1) : Cardinality({i \in DOMAIN s.nodes : l \in StageLayers(s, i)}) = 1
        /\ \A bytes \in 0..(2 * Len(s.nodes) + 1) : KvShardBytes(s, bytes) * Len(s.nodes) >= bytes

(* The tuned preset is the best there is: no partition of the layers has a  *)
(* cheaper slowest stage, the last stage's extra work included              *)
(* (balanced_layer_partition tries lengths of the last stage only).         *)
BalancedIsBest ==
    \A i \in DOMAIN raw.services :
        LET s == raw.services[i]
            n == Len(s.nodes)
            best == BalancedLayers(s.total, n, PresetTail)
        IN topo.ok /\ n <= s.total => \A p \in [1..n -> 1..s.total] :
              Total(p) = s.total => Largest(StageCosts(best, PresetTail)) <= Largest(StageCosts(p, PresetTail))

(* A topology moved to other nodes works as before: every service runs on   *)
(* the given nodes and enters where the queue looks for it, so that the     *)
(* dispatcher plans it, and what passed the readiness gate still does       *)
(* (_apply_pipeline_node_override against deployment_readiness).            *)
OverrideKeepsReady ==
    topo.ok /\ override # <<>> =>
        /\ \A s \in topo.services : s.nodes = override /\ s \in Planned(topo) \cup (topo.services \ ActiveServices(topo))
        /\ Ready(LoadTopology(raw, <<>>)) => Ready(topo)

(* The gate does not refuse its own defaults when every active service      *)
(* enters at the queue's node (default_dispatch_window and                  *)
(* default_cohort_workers sum the planned services only).                   *)
DefaultsCover ==
    topo.ok /\ gate.window = 0 /\ ActiveServices(topo) = Planned(topo)
    => FailedChecks(topo) \cap {"window", "workers"} = {}

(* A request is bound to nodes that serve its profile, and the capacity     *)
(* estimate knows the profiles that can be bound without loading a model    *)
(* (assign_profile, estimate_capacity_by_profile).                          *)
BoundWhereServed ==
    /\ bound.reason \in {"resident_profile", "resident_profile_group"} =>
          \A n \in bound.nodes : n \in Resident(bound.profile)
    /\ bound.reason = "pipeline_service" => \E s \in topo.services : s.profile = bound.profile /\ bound.nodes = Elems(s.nodes)
    /\ topo.ok => \A p \in Profiles :
          (CapacityOf(p, raw.order) > 0)
          <=> AssignProfile(p, FALSE, raw.order).reason \notin {"none", "dynamic_load_experiment_lane"}
=============================================================================
