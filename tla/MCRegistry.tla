----------------------------- MODULE MCRegistry -----------------------------
(***************************************************************************)
(* Requests to the registry of external KV objects: states that agree with *)
(* the shards and states that do not, updates that name fields and updates *)
(* that leave them as they are.                                            *)
(***************************************************************************)
EXTENDS ExternalKv

MCKvStates == {"absent", "declared", "evicted", "available", "partial", "degraded",
               "ready_on_ssd", "failed"} \cup PrefetchStates
ShardsAlike(state, bytes) == [s \in Stages |-> [state |-> state, bytes |-> bytes, gpu |-> FALSE]]
Declared(state, bytes, pins, shards) == [state |-> state, bytes |-> bytes, pins |-> pins, shards |-> shards]
MCDeclares == {Declared("declared", 2, 0, ShardsAlike("declared", 1)), Declared("available", 0, 1, ShardsAlike("failed", 0))}
Transit(state, shards) == [state |-> state, shards |-> shards]
MCTransitions == {Transit("evicted", "ready_on_ssd"), Transit("prefetch_inflight", "")}
Reported(state, bytes, gpu, names) == [state |-> state, bytes |-> bytes, gpu |-> gpu, names |-> names]
MCShardUpdates == {Reported("ready_on_ssd", 1, TRUE, {"bytes", "gpu"}), Reported("failed", 0, FALSE, {})}
Committed(state, shards, updates) == [state |-> state, shards |-> shards, updates |-> updates]
MCCommits ==
    {Committed("available", "ready_on_ssd", <<>>), Committed("evicted", "prefetch_inflight", <<>>),
     Committed("prefetch_inflight", "ready_on_ssd", [s \in Stages |-> Reported("ready_on_ssd", 1, TRUE, {"bytes", "gpu"})])}
=============================================================================
