----------------------------- MODULE ExternalKv -----------------------------
(***************************************************************************)
(* The registry of external KV objects the coordinator keeps in its        *)
(* database (queue.py, external_kv_shards.py) and the endpoints on it      *)
(* (api.py).  The HTTP server runs every handler in a thread of its own.   *)
(* No handler deletes an object, so the existence check that touch, lease, *)
(* transition and commit make before their transaction cannot go stale and *)
(* each is one action.  Pin and evict act on the pin count they read       *)
(* before it: an action for the read and one for the transaction.          *)
(***************************************************************************)
EXTENDS Integers, FiniteSets, FiniteSetsExt

CONSTANTS Objects,          \* (namespace, kv_key, service_id)
          Stages,           \* pipeline stages, one shard each on its own node
          KvClients,        \* users of the endpoints
          KvStates,         \* names of states, of objects and of shards alike
          DeclareBodies,    \* what clients may post: the states are theirs to choose
          TransitionBodies,
          TouchStates,
          CommitBodies,
          ShardUpdates,
          MaxPins           \* bound on the pin count

VARIABLES object,   \* table kv_memory_objects
          shard,    \* table kv_memory_shards
          kvlease,  \* table kv_memory_leases, one row per client and object
          holds,    \* what clients hold: leases granted, neither released nor past their time
          kvop,     \* the handler of each client between its read and its transaction
          wrote,    \* history: who wrote the state of an object last
          sized     \* history: the objects whose size was last entered by a commit

registryVars == <<object, shard, kvlease, holds, kvop, wrote, sized>>

NotGiven == ""   \* an optional field the request leaves out
PrefetchStates == {"prefetch_requested", "prefetch_inflight"}
ReadyStates == {"ready_on_ssd", "gpu_resident", "available", "archived", "ready"}
FailedStates == {"failed", "corrupt", "missing"}
StateWriters == {"caller", "commit", "evict", "recovery"}

ShardRow == [state : KvStates, bytes : Nat, gpu : BOOLEAN]
UpdateRow == [state : KvStates, bytes : Nat, gpu : BOOLEAN, names : SUBSET {"bytes", "gpu"}]

ASSUME RegistryAssumption ==
    /\ IsFiniteSet(Stages) /\ Stages # {}
    /\ MaxPins \in Nat
    /\ {"absent", "declared", "evicted", "available", "partial", "degraded", "prefetch_requested"} \subseteq KvStates
    /\ DeclareBodies \subseteq [state : KvStates, bytes : Nat, pins : Nat, shards : [Stages -> ShardRow]]
    /\ TransitionBodies \subseteq [state : KvStates, shards : KvStates \cup {NotGiven}]
    /\ TouchStates \subseteq KvStates
    /\ ShardUpdates \subseteq UpdateRow
    /\ \A b \in CommitBodies :
          /\ b.state \in KvStates /\ b.shards \in KvStates
          /\ \A s \in DOMAIN b.updates : s \in Stages /\ b.updates[s] \in UpdateRow

NoOp == [kind |-> "none"]
KvOps == {NoOp} \cup [kind : {"pin"}, obj : Objects, delta : {1, -1}, read : 0..MaxPins]
                \cup [kind : {"evict"}, obj : Objects]

RegistryTypeOK ==
    /\ object \in [Objects -> [state : KvStates, pins : 0..MaxPins, bytes : Nat]]
    /\ shard \in [Objects -> [Stages -> ShardRow]]
    /\ kvlease \subseteq Objects \X KvClients
    /\ holds \subseteq Objects \X KvClients
    /\ kvop \in [KvClients -> KvOps]
    /\ wrote \in [Objects -> StateWriters] /\ sized \subseteq Objects

RegistryInit ==
    /\ object = [o \in Objects |-> [state |-> "absent", pins |-> 0, bytes |-> 0]]
    /\ shard = [o \in Objects |-> [s \in Stages |-> [state |-> "declared", bytes |-> 0, gpu |-> FALSE]]]
    /\ kvlease = {} /\ holds = {}
    /\ kvop = [c \in KvClients |-> NoOp]
    /\ wrote = [o \in Objects |-> "caller"] /\ sized = {}

(* "absent" stands for an object without a row: no caller uses the word.    *)
Present(o) == object[o].state # "absent"
TotalBytes(sizes) == MapThenSumSet(LAMBDA s : sizes[s], Stages)
SumBytes(rows) == TotalBytes([s \in Stages |-> rows[s].bytes])

-----------------------------------------------------------------------------
(* Declare: the upsert sets every column from the request, the pin count    *)
(* too, and replaces the shards.                                            *)
KvDeclare(o, b) ==
    /\ b.pins <= MaxPins
    /\ object' = [object EXCEPT ![o] = [state |-> b.state, pins |-> b.pins, bytes |-> b.bytes]]
    /\ shard' = [shard EXCEPT ![o] = b.shards]
    /\ wrote' = [wrote EXCEPT ![o] = "caller"] /\ sized' = sized \ {o}
    /\ UNCHANGED <<kvlease, holds, kvop>>

(* A lease: expired rows go in the same transaction, whoever they belong to. *)
KvLease(c, o) ==
    /\ Present(o)
    /\ kvlease' = (kvlease \cap holds) \cup {<<o, c>>}
    /\ holds' = holds \cup {<<o, c>>}
    /\ UNCHANGED <<object, shard, kvop, wrote, sized>>

KvRelease(c, o) ==
    /\ <<o, c>> \in kvlease
    /\ kvlease' = kvlease \ {<<o, c>>}
    /\ holds' = holds \ {<<o, c>>}
    /\ UNCHANGED <<object, shard, kvop, wrote, sized>>

(* Time: expires_at of a lease passes; the row stays.                       *)
KvExpire(c, o) ==
    /\ <<o, c>> \in holds
    /\ holds' = holds \ {<<o, c>>}
    /\ UNCHANGED <<object, shard, kvlease, kvop, wrote, sized>>

(* Transition: any state for the object, and for its shards any or none.    *)
KvTransition(o, b) ==
    /\ Present(o)
    /\ object' = [object EXCEPT ![o].state = b.state]
    /\ shard' = IF b.shards = NotGiven THEN shard
                ELSE [shard EXCEPT ![o] = [s \in Stages |-> [@[s] EXCEPT !.state = b.shards]]]
    /\ wrote' = [wrote EXCEPT ![o] = "caller"]
    /\ UNCHANGED <<kvlease, holds, kvop, sized>>

(* The prefetch endpoint: the connector is to load every shard.             *)
PrefetchBody == [state |-> "prefetch_requested", shards |-> "prefetch_requested"]

(* Touch: a state given with it goes to the object alone.                   *)
KvTouch(o, to) ==
    /\ Present(o)
    /\ object' = [object EXCEPT ![o].state = to]
    /\ wrote' = [wrote EXCEPT ![o] = "caller"]
    /\ UNCHANGED <<shard, kvlease, holds, kvop, sized>>

(* After a commit an object gets the state that was asked for when every    *)
(* shard is ready, and otherwise one that says it is not whole.             *)
ObjectStateFromShards(rows, requested) ==
    IF \A s \in Stages : rows[s].state \in ReadyStates THEN requested
    ELSE IF \E s \in Stages : rows[s].state \in FailedStates THEN "degraded"
    ELSE "partial"

(* A field that the update does not name stays as it was.                   *)
UpdatedShard(row, u) ==
    [state |-> u.state,
     bytes |-> IF "bytes" \in u.names THEN u.bytes ELSE row.bytes,
     gpu |-> IF "gpu" \in u.names THEN u.gpu ELSE row.gpu]

(* The shards of an update change, or the state of all when there is none.  *)
CommittedShards(rows, b) ==
    [s \in Stages |->
        IF DOMAIN b.updates = {} THEN [rows[s] EXCEPT !.state = b.shards]
        ELSE IF s \in DOMAIN b.updates THEN UpdatedShard(rows[s], b.updates[s])
        ELSE rows[s]]

KvCommit(o, b) ==
    /\ Present(o)
    /\ LET rows == CommittedShards(shard[o], b) IN
       /\ shard' = [shard EXCEPT ![o] = rows]
       /\ object' = [object EXCEPT ![o].state = ObjectStateFromShards(rows, b.state), ![o].bytes = SumBytes(rows)]
    /\ wrote' = [wrote EXCEPT ![o] = "commit"] /\ sized' = sized \cup {o}
    /\ UNCHANGED <<kvlease, holds, kvop>>

(* A node reports its own shard and asks for "available".                   *)
ShardCommitBody(s, u) == [state |-> "available", shards |-> u.state, updates |-> [x \in {s} |-> u]]

(* Pin and unpin read the count in autocommit and write the sum.            *)
KvPinRead(c, o, d) ==
    /\ kvop[c] = NoOp /\ Present(o)
    /\ object[o].pins + d <= MaxPins
    /\ kvop' = [kvop EXCEPT ![c] = [kind |-> "pin", obj |-> o, delta |-> d, read |-> object[o].pins]]
    /\ UNCHANGED <<object, shard, kvlease, holds, wrote, sized>>

KvPinWrite(c) ==
    /\ kvop[c].kind = "pin"
    /\ LET n == kvop[c].read + kvop[c].delta IN
       object' = [object EXCEPT ![kvop[c].obj].pins = IF n < 0 THEN 0 ELSE n]
    /\ kvop' = [kvop EXCEPT ![c] = NoOp]
    /\ UNCHANGED <<shard, kvlease, holds, wrote, sized>>

(* Evict refuses a pinned object by the count it read before.               *)
KvEvictRead(c, o) ==
    /\ kvop[c] = NoOp /\ Present(o)
    /\ object[o].pins = 0
    /\ kvop' = [kvop EXCEPT ![c] = [kind |-> "evict", obj |-> o]]
    /\ UNCHANGED <<object, shard, kvlease, holds, wrote, sized>>

KvEvictWrite(c) ==
    /\ kvop[c].kind = "evict"
    /\ LET o == kvop[c].obj IN
       /\ object' = [object EXCEPT ![o].state = "evicted"]
       /\ shard' = [shard EXCEPT ![o] = [s \in Stages |-> [@[s] EXCEPT !.state = "evicted", !.gpu = FALSE]]]
       /\ wrote' = [wrote EXCEPT ![o] = "evict"]
    /\ kvop' = [kvop EXCEPT ![c] = NoOp]
    /\ UNCHANGED <<kvlease, holds, sized>>

(* Restart of the coordinator: handlers die where they are, and the startup *)
(* takes back what was being prefetched (DS4_API_JIT_KV_RECOVER_ON_STARTUP  *)
(* and a stale time of 0 are the defaults).                                 *)
RecoveredShard(row) ==
    IF row.state \in PrefetchStates THEN [row EXCEPT !.state = "declared", !.gpu = FALSE] ELSE row

KvRestart ==
    LET found == {o \in Objects : object[o].state \in PrefetchStates} IN
    /\ object' = [o \in Objects |-> IF o \in found THEN [object[o] EXCEPT !.state = "declared"] ELSE object[o]]
    /\ shard' = [o \in Objects |-> [s \in Stages |-> RecoveredShard(shard[o][s])]]
    /\ wrote' = [o \in Objects |-> IF o \in found THEN "recovery" ELSE wrote[o]]
    /\ kvop' = [c \in KvClients |-> NoOp]
    /\ UNCHANGED <<kvlease, holds, sized>>

(* What a lookup answers: its deletion of expired leases opens a            *)
(* transaction, so object, shards and leases are read together; the         *)
(* connection closes without a commit, so the deletion itself is lost.      *)
KvLookup(o) ==
    [state |-> object[o].state, bytes |-> object[o].bytes, shards |-> shard[o],
     leases |-> {c \in KvClients : <<o, c>> \in kvlease \cap holds}]

RegistryNext ==
    \/ \E o \in Objects :
          \/ \E b \in DeclareBodies : KvDeclare(o, b)
          \/ \E b \in TransitionBodies \cup {PrefetchBody} : KvTransition(o, b)
          \/ \E to \in TouchStates : KvTouch(o, to)
          \/ \E b \in CommitBodies : KvCommit(o, b)
          \/ \E s \in Stages, u \in ShardUpdates : KvCommit(o, ShardCommitBody(s, u))
          \/ \E c \in KvClients :
                \/ KvLease(c, o) \/ KvRelease(c, o) \/ KvExpire(c, o)
                \/ \E d \in {1, -1} : KvPinRead(c, o, d)
                \/ KvEvictRead(c, o)
    \/ \E c \in KvClients : KvPinWrite(c) \/ KvEvictWrite(c)
    \/ KvRestart

-----------------------------------------------------------------------------
(* Callers may enter any state, but what the registry itself concluded      *)
(* about an object goes on being so until somebody enters another: after a  *)
(* commit an object with a shard that is not ready says so and its size is  *)
(* the sum of its shards, after an eviction no stage holds it, after the    *)
(* recovery of a start no stage is still loading it.  Every handler that    *)
(* moves shards must enter the object's state in the same transaction       *)
(* (external_kv_commit_shards, external_kv_evict, external_kv_touch,        *)
(* _recover_prefetch_manifests_locked).                                     *)
Concluded(o) ==
    LET m == KvLookup(o) IN
    /\ wrote[o] = "commit" /\ (\E s \in Stages : m.shards[s].state \notin ReadyStates) =>
          m.state = IF \E s \in Stages : m.shards[s].state \in FailedStates THEN "degraded" ELSE "partial"
    /\ wrote[o] = "evict" =>
          m.state = "evicted" /\ \A s \in Stages : m.shards[s].state = "evicted" /\ ~m.shards[s].gpu
    /\ wrote[o] = "recovery" =>
          m.state = "declared" /\ \A s \in Stages : m.shards[s].state \notin PrefetchStates
    /\ o \in sized => m.bytes = SumBytes(m.shards)
ConclusionsHold == \A o \in Objects : Concluded(o)

(* A lease that was granted, not released and not expired is in the table   *)
(* and in every answer, whatever other clients lease or release             *)
(* (external_kv_lease deletes expired rows of all clients).                 *)
LiveLeaseKept == \A h \in holds : h \in kvlease /\ h[2] \in KvLookup(h[1]).leases
=============================================================================
