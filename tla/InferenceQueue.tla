--------------------------- MODULE InferenceQueue ---------------------------
(***************************************************************************)
(* The durable request queue of ds4_infer (queue.py, an SQLite database)   *)
(* as its worker threads, its reaper and its HTTP/CLI clients use it.      *)
(*                                                                         *)
(* Every handler opens a connection and runs `with conn`.  The sqlite3     *)
(* module starts a transaction at the first INSERT/UPDATE/DELETE, not at   *)
(* the first SELECT, so what a handler selects before its first write is   *)
(* read in autocommit and may be stale when the write transaction begins.  *)
(* Such a handler is two actions here: XRead keeps what was selected in    *)
(* op[p], XWrite is the transaction.  A handler whose first statement is a *)
(* write is one action.  Completion notices are files, written after the   *)
(* commit by finish_request: a third step.                                 *)
(*                                                                         *)
(* Time is kept as what is left of a lease (ttl), 0 meaning                *)
(* lease_expires_at <= now.  A lease id is the attempt number it was       *)
(* issued for, a compute lease id the <<request, attempt>> of one of the   *)
(* claims it was issued with: both are as unique as the uuid4 they model.  *)
(***************************************************************************)
EXTENDS Integers, FiniteSets, FiniteSetsExt

CONSTANTS
    Requests, Workers, Clients, Batches, Services, Domains, Nodes, Keys,
    None,                 \* SQL NULL
    Req,                  \* what a request was submitted with
    W,                    \* the arguments a worker calls the queue with
    ServiceNodes,         \* selected_node_ids of a service's requests
    Share,                \* share_compute_domain: resident services share a domain
    Quantum,              \* DS4_COMPUTE_LEASE_QUANTUM_S > 0
    TTL,                  \* lease_ttl_s in heartbeat periods
    OnTime,               \* a live worker heartbeats before its leases expire
    MaxTransportAttempts, \* retry_transport_failure(max_attempts)
    MaxLeaseAttempts,     \* requeue_expired_leases(max_attempts)
    Capacity,             \* kv_capacity_bytes, 0: no limit
    MaxNodeDepth,         \* max_node_depth, 0: no limit
    PrepareLimit, ClaimLimit, \* limit of prepare_ready, of claim_ready_batch
    MaxCrashes            \* bound on the crashes of a behaviour

Terminal == {"completed", "failed", "cancelled"}
States == {"absent", "queued", "ready", "running"} \cup Terminal
OrNone(S) == S \cup {None}

ASSUME RequestsFinite == IsFiniteSet(Requests)
ASSUME NodesFinite == IsFiniteSet(Nodes)
ASSUME NoneIsNull ==
    None \notin Batches \cup Services \cup Domains \cup Nodes \cup Keys \cup Requests
ASSUME ReqType ==
    Req \in [Requests -> [batch: Batches, kind: {"model", "cpu"}, prio: Nat,
                          profile: STRING, service: OrNone(Services),
                          domain: OrNone(Domains), node: OrNone(Nodes),
                          key: OrNone(Keys), bytes: Nat]]
ASSUME WType ==
    W \in [Workers -> [node: OrNone(Nodes), profiles: SUBSET STRING,
                       batch: OrNone(Batches), service: OrNone(Services),
                       by: STRING]]
ASSUME ServiceNodesType ==
    ServiceNodes \in [Services -> SUBSET Nodes]
ASSUME FlagsType == Share \in BOOLEAN /\ Quantum \in BOOLEAN /\ OnTime \in BOOLEAN
ASSUME BoundsType ==
    /\ TTL \in Nat \ {0}
    /\ MaxTransportAttempts \in Nat \ {0}
    /\ MaxLeaseAttempts \in Nat \ {0}
    /\ Capacity \in Nat /\ MaxNodeDepth \in Nat
    /\ PrepareLimit \in Nat \ {0} /\ ClaimLimit \in Nat \ {0}
    /\ MaxCrashes \in Nat
ASSUME ProcessesDisjoint == Workers \cap Clients = {}

VARIABLES
    requests,       \* the requests table
    batches,        \* the counts of the batches table
    compute_leases, \* the compute_leases table, by domain
    kv,             \* kv_entries (scope None) and kv_shard_entries (scope a service)
    notices,        \* the state each notices/<request_id>.json file reports
    claims,         \* the QueueClaims each worker thread is executing
    op,             \* the handler each process is in, with what it has selected
    crashes         \* crashes so far

vars == <<requests, batches, compute_leases, kv, notices, claims, op, crashes>>

Procs == Workers \cup Clients
Idle == [kind |-> "idle"]
BatchOf(b) == {r \in Requests : Req[r].batch = b}

(***************************************************************************)
(* Tables.                                                                 *)
(***************************************************************************)
Slots == [scope: OrNone(Services), node: Nodes, key: Keys]
LeaseIds == Requests \X (Nat \ {0})

Row == [state: States, node: OrNone(Nodes), domain: OrNone(Domains),
        attempts: Nat, lease: Nat, ttl: 0..TTL, cancel: BOOLEAN,
        cid: OrNone(LeaseIds)]
ComputeLease == [id: LeaseIds, service: OrNone(Services), by: STRING,
                 ttl: 0..TTL, aged: BOOLEAN]
KvEntry == [req: Requests, bytes: Nat, idle: BOOLEAN]
Claim == [r: Requests, n: Nat \ {0}, cid: OrNone(LeaseIds)]
ASSUME NoneIsNoEntry == None \notin LeaseIds \cup ComputeLease \cup KvEntry
RowStates == States \ {"absent"}
Counts == [RowStates -> Nat]

Ops ==
    [kind: {"prepare"}, r: Requests, node: OrNone(Nodes), evict: SUBSET Slots]
    \cup [kind: {"claim"}, rows: SUBSET Requests, domain: OrNone(Domains),
          service: OrNone(Services), mode: {"none", "extend"}, cid: OrNone(LeaseIds)]
    \cup [kind: {"claim"}, rows: SUBSET Requests, domain: Domains,
          service: OrNone(Services), mode: {"acquire"}, cid: {None}]
    \cup [kind: {"finish"}, claim: Claim, cid: OrNone(LeaseIds), final: Terminal]
    \cup [kind: {"retry"}, claim: Claim, cid: OrNone(LeaseIds), final: {"queued", "failed", "cancelled"}]
    \cup [kind: {"notice"}, r: Requests, final: Terminal]
    \cup [kind: {"heartbeat"}, cids: SUBSET OrNone(LeaseIds)]
    \cup [kind: {"cancel"}, force: BOOLEAN,
          seen: UNION {[T -> [state: States, cid: OrNone(LeaseIds)]] : T \in SUBSET Requests}]
    \cup [kind: {"refresh"}, b: Batches, counts: Counts]

AbsentRow == [state |-> "absent", node |-> None, domain |-> None, attempts |-> 0,
              lease |-> 0, ttl |-> 0, cancel |-> FALSE, cid |-> None]

Init ==
    /\ requests = [r \in Requests |-> AbsentRow]
    /\ batches = [b \in Batches |-> [s \in RowStates |-> 0]]
    /\ compute_leases = [d \in Domains |-> None]
    /\ kv = [s \in Slots |-> None]
    /\ notices = [r \in Requests |-> None]
    /\ claims = [w \in Workers |-> {}]
    /\ op = [p \in Procs |-> Idle]
    /\ crashes = 0

(* _refresh_batch: the counts of one batch as a table holds them. *)
CountsOf(table, b) ==
    [s \in RowStates |-> Cardinality({r \in BatchOf(b) : table[r].state = s})]

(* Mutation: counts taken before the update of the requests. *)
RefreshedEarly(table, bs) ==
    [b \in Batches |-> IF b \in bs THEN CountsOf(requests, b) ELSE batches[b]]

Refreshed(table, bs) ==
    [b \in Batches |-> IF b \in bs THEN CountsOf(table, b) ELSE batches[b]]

(* The state column _refresh_batch derives from the counts. *)
BatchState(c) ==
    LET done  == c["completed"] + c["failed"] + c["cancelled"]
        total == done + c["queued"] + c["ready"] + c["running"]
    IN  IF total # 0 /\ c["completed"] = total THEN "completed"
        ELSE IF total # 0 /\ c["cancelled"] = total THEN "cancelled"
        ELSE IF total # 0 /\ done = total THEN
             IF c["failed"] # 0 THEN "completed_with_failures" ELSE "completed_with_cancelled"
        ELSE IF c["running"] # 0 THEN "running"
        ELSE IF c["ready"] # 0 THEN "ready" ELSE "queued"

(* Mutation: released with the first request that ends, not the last. *)
ReleasedAtOnce(table, leases, ids) ==
    [d \in Domains |-> IF leases[d] # None /\ leases[d].id \in ids THEN None ELSE leases[d]]

(* _release_unused_compute_lease: the lease goes with its last running request. *)
Released(table, leases, ids) ==
    [d \in Domains |->
        IF /\ leases[d] # None
           /\ leases[d].id \in ids
           /\ \A r \in Requests : ~(table[r].state = "running" /\ table[r].cid = leases[d].id)
        THEN None ELSE leases[d]]

(* _delete_request_kv. *)
WithoutKv(rs) ==
    [s \in Slots |-> IF kv[s] # None /\ kv[s].req \in rs THEN None ELSE kv[s]]

(* The requeueing updates: a row bound to a service keeps its placement. *)
RequeuedRow(r) ==
    [requests[r] EXCEPT
        !.state = "queued", !.lease = 0, !.ttl = 0, !.cid = None,
        !.node = IF Req[r].service = None THEN None ELSE @,
        !.domain = IF Req[r].service = None THEN None ELSE @]

SettledRow(r, s) == [requests[r] EXCEPT !.state = s, !.lease = 0, !.ttl = 0]

(***************************************************************************)
(* submit_requests and submit_cpu_requests: one transaction per batch.     *)
(* The primary keys make a second submission of the batch fail or, when    *)
(* _existing_submission sees the same requests, return what is there.      *)
(***************************************************************************)
SubmittedRow(r) ==
    [AbsentRow EXCEPT
        !.state = IF Req[r].kind = "cpu" THEN "ready" ELSE "queued",
        !.node = Req[r].node, !.domain = Req[r].domain]

Submit(b) ==
    /\ BatchOf(b) # {}
    /\ \A r \in BatchOf(b) : requests[r].state = "absent"
    /\ requests' = [r \in Requests |-> IF r \in BatchOf(b) THEN SubmittedRow(r) ELSE requests[r]]
    /\ batches' = Refreshed(requests', {b})
    /\ UNCHANGED <<compute_leases, kv, notices, claims, op, crashes>>

(***************************************************************************)
(* Which rows a worker's SELECTs return.                                   *)
(***************************************************************************)
Live(l) == l # None /\ l.ttl > 0

(* _compute_lease_should_drain: the quantum is over and another service waits. *)
ShouldDrain(d) ==
    /\ Quantum /\ compute_leases[d].aged /\ compute_leases[d].service # None
    /\ \E r \in Requests : /\ requests[r].state \in {"queued", "ready"}
                           /\ requests[r].domain = d
                           /\ Req[r].service # compute_leases[d].service

(* The filter of _queued_rows and _ready_rows: a given service, else the    *)
(* service and domain of a live compute lease (the oldest; any one here).   *)
Preferred(w, svc, r) ==
    IF svc # None THEN Req[r].service = svc
    ELSE \/ W[w].batch # None \/ Share
         \/ \A d \in Domains : ~Live(compute_leases[d])
         \/ \E d \in Domains :
               /\ Live(compute_leases[d])
               /\ \/ ShouldDrain(d)
                  \/ /\ compute_leases[d].service \in {None, Req[r].service}
                     /\ requests[r].domain = d

(* The service a call is scoped to: the worker's own, or that of the run a *)
(* refill belongs to.                                                      *)
Scopes(w) == IF W[w].service # None THEN {W[w].service} ELSE OrNone(Services)

InBatch(w, r) == W[w].batch \in {None, Req[r].batch}

QueuedRows(w, svc) ==
    {r \in Requests :
        /\ requests[r].state = "queued"
        /\ W[w].node = None \/ requests[r].node \in {None, W[w].node}
        /\ W[w].profiles = {} \/ Req[r].profile \in W[w].profiles
        /\ InBatch(w, r) /\ Preferred(w, svc, r)}

ReadyRows(w, svc) ==
    {r \in Requests :
        /\ requests[r].state = "ready"
        /\ W[w].node = None \/ requests[r].node = W[w].node
        /\ InBatch(w, r) /\ Preferred(w, svc, r)}

Ahead(S, r) == {q \in S : Req[q].prio < Req[r].prio}

(* _ready_row_scope: one profile, one service, one domain. *)
SameScope(q, r) ==
    /\ Req[q].profile = Req[r].profile /\ Req[q].service = Req[r].service
    /\ requests[q].domain = requests[r].domain

(* Mutation: prepared requests are not counted. *)
NodeDepthRunning(n) ==
    Cardinality({r \in Requests : requests[r].state = "running" /\ requests[r].node = n})

(* _node_depth. *)
NodeDepth(n) ==
    Cardinality({r \in Requests : /\ Req[r].kind = "model"
                                  /\ requests[r].state \in {"ready", "running"}
                                  /\ requests[r].node = n})

(***************************************************************************)
(* prepare_ready, a row at a time.  PrepareRead selects the row, checks    *)
(* the node depth and picks the idle KV entries to evict; PrepareWrite     *)
(* evicts them, inserts the reservation and only then finds out whether    *)
(* the row is still queued.  The order of eviction (least recently used    *)
(* first) is left open.                                                    *)
(***************************************************************************)
BindNode(w, r) == IF requests[r].node # None THEN requests[r].node ELSE W[w].node

(* _reserve_kv: shards on every node of a pipeline, else one legacy entry. *)
Pipelined(r) == Req[r].service # None /\ Cardinality(ServiceNodes[Req[r].service]) > 1
NeedsKv(r) == Req[r].key # None /\ Req[r].bytes > 0
KvSlots(r, n) ==
    IF ~NeedsKv(r) THEN {}
    ELSE IF Pipelined(r)
         THEN [scope: {Req[r].service}, node: ServiceNodes[Req[r].service], key: {Req[r].key}]
         ELSE [scope: {None}, node: {n}, key: {Req[r].key}]
SlotBytes(r) ==
    IF Pipelined(r)
    THEN LET k == Cardinality(ServiceNodes[Req[r].service]) IN (Req[r].bytes + k - 1) \div k
    ELSE Req[r].bytes

Pool(scope, n) == {s \in Slots : s.scope = scope /\ s.node = n /\ kv[s] # None}
BytesIn(S) == MapThenSumSet(LAMBDA s : kv[s].bytes, S)

(* Mutation: the new reservation is not added to what is used. *)
FitsWithoutNeed(scope, n, need, V) == BytesIn(Pool(scope, n) \ V) <= Capacity

(* Mutation: victims of any state. *)
EvictableAny(s) == kv[s] # None

(* _kv_victims_to_fit for one node's pool: evict idle entries until the need fits. *)
Evictable(s) == kv[s] # None /\ kv[s].idle
FitsWithout(scope, n, need, V) == BytesIn(Pool(scope, n) \ V) + need <= Capacity
Victims(scope, n, need) ==
    IF Capacity = 0 THEN {{}}
    ELSE {V \in SUBSET {s \in Pool(scope, n) : Evictable(s)} :
            /\ FitsWithout(scope, n, need, V)
            /\ V = {} \/ \E v \in V : ~FitsWithout(scope, n, need, V \ {v})}

(* One choice of victims for every pool the reservation enters. *)
EvictionPlans(r, n) ==
    {V \in SUBSET {s \in Slots : Evictable(s)} :
        LET slots == KvSlots(r, n) IN
        /\ \A s \in slots : {v \in V : v.scope = s.scope /\ v.node = s.node}
                              \in Victims(s.scope, s.node, SlotBytes(r))
        /\ \A v \in V : \E s \in slots : v.scope = s.scope /\ v.node = s.node}

PrepareRead(w) ==
    /\ op[w] = Idle
    /\ \E svc \in Scopes(w) : \E r \in QueuedRows(w, svc) :
        LET room == IF W[w].node # None /\ MaxNodeDepth > 0
                    THEN MaxNodeDepth - NodeDepth(W[w].node) ELSE PrepareLimit
            n == BindNode(w, r)
        IN /\ room > 0
           /\ Cardinality(Ahead(QueuedRows(w, svc), r)) < PrepareLimit
           /\ Cardinality(Ahead(QueuedRows(w, svc), r)) < room
           /\ NeedsKv(r) /\ ~Pipelined(r) => n # None
           /\ \E V \in EvictionPlans(r, n) :
                op' = [op EXCEPT ![w] = [kind |-> "prepare", r |-> r, node |-> n, evict |-> V]]
    /\ UNCHANGED <<requests, batches, compute_leases, kv, notices, claims, crashes>>

(* Mutation: the update of prepare_ready without "and state='queued'". *)
StillQueuedAny(r) == requests[r].state # "absent"
StillQueued(r) == requests[r].state = "queued"

PrepareWrite(w) ==
    /\ op[w].kind = "prepare"
    /\ LET r == op[w].r
           slots == KvSlots(r, op[w].node)
       IN /\ kv' = [s \in Slots |->
                      IF s \in slots THEN [req |-> r, bytes |-> SlotBytes(r), idle |-> FALSE]
                      ELSE IF s \in op[w].evict THEN None ELSE kv[s]]
          /\ IF StillQueued(r)
             THEN /\ requests' = [requests EXCEPT
                        ![r].state = "ready", ![r].lease = 0, ![r].ttl = 0,
                        ![r].node = IF @ # None THEN @ ELSE op[w].node]
                  /\ batches' = Refreshed(requests', {Req[r].batch})
             ELSE UNCHANGED <<requests, batches>>
    /\ op' = [op EXCEPT ![w] = Idle]
    /\ UNCHANGED <<compute_leases, notices, claims, crashes>>

(***************************************************************************)
(* claim_ready_batch.  ClaimRead selects a cohort (the linger and floor    *)
(* waits, the shape bucket and the token budget only make it smaller or    *)
(* empty) and, for a refill, reads the compute lease to extend; ClaimWrite *)
(* takes the lease and every row of the cohort that is still ready.        *)
(***************************************************************************)
Cohorts(w, svc) ==
    LET ready == ReadyRows(w, svc) IN
    {C \in SUBSET ready :
        /\ C # {} /\ Cardinality(C) <= ClaimLimit
        /\ \E r \in C : /\ Ahead(ready, r) = {}
                        /\ \A q \in C : SameScope(q, r)}

(* _extend_compute_lease, the part that is read before the transaction. *)
Extendable(w, id, d, svc) ==
    /\ Live(compute_leases[d])
    /\ compute_leases[d].id = id /\ compute_leases[d].by = W[w].by
    /\ compute_leases[d].service = svc
    /\ ~ShouldDrain(d)

ClaimOp(C, d, svc, mode, id) ==
    [kind |-> "claim", rows |-> C, domain |-> d, service |-> svc, mode |-> mode, cid |-> id]

ClaimRead(w) ==
    /\ op[w] = Idle
    /\ \E svc \in Scopes(w) : \E C \in Cohorts(w, svc) : \E r \in C :
          LET d == requests[r].domain IN
          op' = [op EXCEPT ![w] =
                    ClaimOp(C, d, Req[r].service,
                            IF Share \/ d = None THEN "none" ELSE "acquire", None)]
    /\ UNCHANGED <<requests, batches, compute_leases, kv, notices, claims, crashes>>

(* The claim of _claim_refill: under the compute lease of a running claim. *)
RefillRead(w) ==
    /\ op[w] = Idle
    /\ ~Share
    /\ \E c \in claims[w] : \E C \in Cohorts(w, Req[c.r].service) : \E r \in C :
          LET d == requests[r].domain IN
          /\ c.cid # None
          /\ d # None => Extendable(w, c.cid, d, Req[r].service)
          /\ op' = [op EXCEPT ![w] =
                       ClaimOp(C, d, Req[r].service, IF d = None THEN "none" ELSE "extend", c.cid)]
    /\ UNCHANGED <<requests, batches, compute_leases, kv, notices, claims, crashes>>

(* Mutation: a lease id without a fresh part. *)
NewLeaseReused(r) == 1
NewLease(r) == requests[r].attempts + 1

(* The rows a claim takes run under a new lease and compute lease id. *)
TakenRows(taken, id) ==
    [r \in Requests |->
        IF r \in taken
        THEN [requests[r] EXCEPT !.state = "running", !.lease = NewLease(r),
                                 !.attempts = @ + 1, !.ttl = TTL, !.cid = id]
        ELSE requests[r]]

Take(w, taken, id) ==
    /\ requests' = TakenRows(taken, id)
    /\ batches' = Refreshed(requests', {Req[r].batch : r \in taken})
    /\ claims' = [claims EXCEPT ![w] =
                    @ \cup {[r |-> r, n |-> NewLease(r), cid |-> id] : r \in taken}]

(* Mutation: the update of claim_ready_batch without "and state='ready'". *)
StillReadyAny(rows) == {r \in rows : requests[r].state \notin Terminal}
StillReady(rows) == {r \in rows : requests[r].state = "ready"}

(* _acquire_compute_lease: expired leases go, whoever still runs under them. *)
Unexpired == [d \in Domains |-> IF Live(compute_leases[d]) THEN compute_leases[d] ELSE None]

ClaimNone(w) ==
    /\ op[w].kind = "claim" /\ op[w].mode = "none"
    /\ Take(w, StillReady(op[w].rows), None)
    /\ op' = [op EXCEPT ![w] = Idle]
    /\ UNCHANGED <<compute_leases, kv, notices, crashes>>

(* A lease of the same service and name is shared.  It counts as new all    *)
(* the same: when the claim takes no row it is deleted, whoever runs under  *)
(* it.                                                                      *)
ClaimAcquire(w) ==
    /\ op[w].kind = "claim" /\ op[w].mode = "acquire"
    /\ LET d == op[w].domain
           taken == StillReady(op[w].rows)
       IN \/ /\ Unexpired[d] = None
             /\ taken # {}
             /\ \E r \in taken :
                  LET id == <<r, NewLease(r)>> IN
                  /\ compute_leases' = [Unexpired EXCEPT ![d] =
                        [id |-> id, service |-> op[w].service, by |-> W[w].by,
                         ttl |-> TTL, aged |-> FALSE]]
                  /\ Take(w, taken, id)
          \/ /\ Unexpired[d] # None
             /\ compute_leases[d].service = op[w].service
             /\ compute_leases[d].by = W[w].by
             /\ ~ShouldDrain(d)
             /\ compute_leases' = IF taken = {} THEN [Unexpired EXCEPT ![d] = None]
                                  ELSE [Unexpired EXCEPT ![d].ttl = TTL]
             /\ Take(w, taken, compute_leases[d].id)
          \/ /\ \/ Unexpired[d] = None /\ taken = {}
                \/ /\ Unexpired[d] # None
                   /\ \/ compute_leases[d].service # op[w].service
                      \/ compute_leases[d].by # W[w].by
                      \/ ShouldDrain(d)
             /\ compute_leases' = Unexpired
             /\ UNCHANGED <<requests, batches, claims>>
    /\ op' = [op EXCEPT ![w] = Idle]
    /\ UNCHANGED <<kv, notices, crashes>>

(* The update of _extend_compute_lease misses when the lease is gone; the   *)
(* rows are taken under its id all the same.                                *)
ClaimExtend(w) ==
    /\ op[w].kind = "claim" /\ op[w].mode = "extend"
    /\ compute_leases' = [d \in Domains |->
            IF compute_leases[d] # None /\ compute_leases[d].id = op[w].cid
            THEN [compute_leases[d] EXCEPT !.ttl = TTL] ELSE compute_leases[d]]
    /\ Take(w, StillReady(op[w].rows), op[w].cid)
    /\ op' = [op EXCEPT ![w] = Idle]
    /\ UNCHANGED <<kv, notices, crashes>>

(***************************************************************************)
(* _finish_pair: what a worker does with the result of a claim.            *)
(***************************************************************************)

(* Mutation: "where lease_id=?" dropped. *)
HoldsAnyLease(r, n) == requests[r].state = "running"
Holds(r, n) == requests[r].state = "running" /\ requests[r].lease = n

(* Neither finish_request nor retry_transport_failure finds the row: the   *)
(* worker drops the result.                                                *)
FinishLost(w) ==
    /\ op[w] = Idle
    /\ \E c \in claims[w] : /\ ~Holds(c.r, c.n)
                            /\ claims' = [claims EXCEPT ![w] = @ \ {c}]
    /\ UNCHANGED <<requests, batches, compute_leases, kv, notices, op, crashes>>

(* finish_request: the runner's outcome unless the row says cancelled. *)
FinishRead(w) ==
    /\ op[w] = Idle
    /\ \E c \in claims[w] : \E out \in Terminal :
          /\ Holds(c.r, c.n)
          /\ op' = [op EXCEPT ![w] =
                [kind |-> "finish", claim |-> c, cid |-> requests[c.r].cid,
                 final |-> IF requests[c.r].cancel THEN "cancelled" ELSE out]]
    /\ UNCHANGED <<requests, batches, compute_leases, kv, notices, claims, crashes>>

(* The update is guarded by the lease; its row count is not looked at, and *)
(* the KV entries, the compute lease and the notice are not guarded.       *)
IdleKv(r) ==
    IF Req[r].key = None THEN kv
    ELSE [s \in Slots |-> IF kv[s] # None /\ kv[s].req = r
                          THEN [kv[s] EXCEPT !.idle = TRUE] ELSE kv[s]]

FinishWrite(w) ==
    /\ op[w].kind = "finish"
    /\ LET c == op[w].claim IN
       /\ requests' = IF Holds(c.r, c.n)
                      THEN [requests EXCEPT ![c.r] = SettledRow(c.r, op[w].final)]
                      ELSE requests
       /\ kv' = IdleKv(c.r)
       /\ compute_leases' = Released(requests', compute_leases, {op[w].cid})
       /\ batches' = Refreshed(requests', {Req[c.r].batch})
       /\ claims' = [claims EXCEPT ![w] = @ \ {c}]
       /\ op' = [op EXCEPT ![w] = [kind |-> "notice", r |-> c.r, final |-> op[w].final]]
    /\ UNCHANGED <<notices, crashes>>

(* retry_transport_failure decides on what it read. *)
RetryRead(w) ==
    /\ op[w] = Idle
    /\ \E c \in claims[w] :
          /\ Req[c.r].kind = "model"
          /\ Holds(c.r, c.n)
          /\ op' = [op EXCEPT ![w] =
                [kind |-> "retry", claim |-> c, cid |-> requests[c.r].cid,
                 final |-> IF requests[c.r].cancel THEN "cancelled"
                           ELSE IF requests[c.r].attempts < MaxTransportAttempts
                           THEN "queued" ELSE "failed"]]
    /\ UNCHANGED <<requests, batches, compute_leases, kv, notices, claims, crashes>>

(* Mutation: a requeued request gets a notice as well. *)
RetryNoticeAlways(r, final) == [notices EXCEPT ![r] = final]

(* A cancelled row's notice is written inside the transaction, a failed    *)
(* row's after it, a requeued row has none.                                *)
RetryNotice(r, final) == IF final = "cancelled" THEN [notices EXCEPT ![r] = final] ELSE notices

RetryWrite(w) ==
    /\ op[w].kind = "retry"
    /\ LET c == op[w].claim
           final == op[w].final
       IN /\ requests' = IF Holds(c.r, c.n)
                         THEN [requests EXCEPT ![c.r] = IF final = "queued" THEN RequeuedRow(c.r)
                                                        ELSE SettledRow(c.r, final)]
                         ELSE requests
          /\ kv' = WithoutKv({c.r})
          /\ compute_leases' = Released(requests', compute_leases, {op[w].cid})
          /\ batches' = Refreshed(requests', {Req[c.r].batch})
          /\ claims' = [claims EXCEPT ![w] = @ \ {c}]
          /\ notices' = RetryNotice(c.r, final)
          /\ op' = [op EXCEPT ![w] = IF final = "failed"
                                     THEN [kind |-> "notice", r |-> c.r, final |-> final]
                                     ELSE Idle]
    /\ UNCHANGED crashes

(* Mutation: the notice reports the runner's state, not the final one. *)
WriteNoticeCompleted(w) ==
    /\ op[w].kind = "notice"
    /\ notices' = [notices EXCEPT ![op[w].r] = "completed"]
    /\ op' = [op EXCEPT ![w] = Idle]
    /\ UNCHANGED <<requests, batches, compute_leases, kv, claims, crashes>>

(* Mutation: no notice for what failed. *)
WriteNoticeCompletedOnly(w) ==
    /\ op[w].kind = "notice"
    /\ notices' = IF op[w].final = "failed" THEN notices
                  ELSE [notices EXCEPT ![op[w].r] = op[w].final]
    /\ op' = [op EXCEPT ![w] = Idle]
    /\ UNCHANGED <<requests, batches, compute_leases, kv, claims, crashes>>

(* _write_notice after the commit. *)
WriteNotice(w) ==
    /\ op[w].kind = "notice"
    /\ notices' = [notices EXCEPT ![op[w].r] = op[w].final]
    /\ op' = [op EXCEPT ![w] = Idle]
    /\ UNCHANGED <<requests, batches, compute_leases, kv, claims, crashes>>

(***************************************************************************)
(* Leases: heartbeat, expiry, requeue_expired_leases.                      *)
(***************************************************************************)
Held(w) == {c.r : c \in {c \in claims[w] : Holds(c.r, c.n)}}

(* heartbeat reads the compute leases of the rows first.  A process is in   *)
(* one handler at a time: the loop that waits for the runner also calls it. *)
HeartbeatRead(w) ==
    /\ op[w] = Idle
    /\ Held(w) # {}
    /\ op' = [op EXCEPT ![w] = [kind |-> "heartbeat", cids |-> {requests[r].cid : r \in Held(w)}]]
    /\ UNCHANGED <<requests, batches, compute_leases, kv, notices, claims, crashes>>

HeartbeatWrite(w) ==
    /\ op[w].kind = "heartbeat"
    /\ requests' = [r \in Requests |-> IF r \in Held(w) THEN [requests[r] EXCEPT !.ttl = TTL]
                                       ELSE requests[r]]
    /\ compute_leases' = [d \in Domains |->
            IF compute_leases[d] # None /\ compute_leases[d].id \in op[w].cids
            THEN [compute_leases[d] EXCEPT !.ttl = TTL] ELSE compute_leases[d]]
    /\ op' = [op EXCEPT ![w] = Idle]
    /\ UNCHANGED <<batches, kv, notices, claims, crashes>>

(* BatchWorker._heartbeat raises "lost queue lease" and the run ends. *)
HeartbeatLost(w) ==
    /\ op[w] = Idle
    /\ \E c \in claims[w] : ~Holds(c.r, c.n) /\ requests[c.r].state \notin Terminal
    /\ claims' = [claims EXCEPT ![w] = {}]
    /\ UNCHANGED <<requests, batches, compute_leases, kv, notices, op, crashes>>

(* Mutation: a lease is taken back before it has run out. *)
ExpiredEarly == {r \in Requests : requests[r].state = "running" /\ requests[r].ttl <= 1}
(* Mutation: a request that spent its attempts is skipped. *)
ExpiredUnspent ==
    {r \in Requests : /\ requests[r].state = "running" /\ requests[r].ttl = 0
                      /\ requests[r].attempts < MaxLeaseAttempts}
Expired == {r \in Requests : requests[r].state = "running" /\ requests[r].ttl = 0}
(* Mutation: one attempt too many. *)
SpentLate == {r \in Expired : requests[r].attempts > MaxLeaseAttempts}
Spent == {r \in Expired : requests[r].attempts >= MaxLeaseAttempts}

(* One transaction: its first statement is a delete. *)
Reap ==
    LET kept == [d \in Domains |->
                    IF /\ compute_leases[d] # None /\ compute_leases[d].ttl = 0
                       /\ \A r \in Requests : ~(requests[r].state = "running"
                                                /\ requests[r].cid = compute_leases[d].id)
                    THEN None ELSE compute_leases[d]]
    IN /\ Expired # {} \/ kept # compute_leases
       /\ requests' = [r \in Requests |-> IF r \in Spent THEN SettledRow(r, "failed")
                                          ELSE IF r \in Expired THEN RequeuedRow(r)
                                          ELSE requests[r]]
       /\ kv' = WithoutKv(Expired \ Spent)
       /\ notices' = [r \in Requests |-> IF r \in Spent THEN "failed" ELSE notices[r]]
       /\ compute_leases' = Released(requests', kept, {requests[r].cid : r \in Expired})
       /\ batches' = Refreshed(requests', {Req[r].batch : r \in Expired})
       /\ UNCHANGED <<claims, op, crashes>>

(* Time passes.  OnTime: not past the expiry of a lease a live worker holds. *)
Tick ==
    /\ \/ \E r \in Requests : requests[r].state = "running" /\ requests[r].ttl > 0
       \/ \E d \in Domains : Live(compute_leases[d])
    /\ OnTime => \A w \in Workers : \A c \in claims[w] : Holds(c.r, c.n) => requests[c.r].ttl > 1
    /\ requests' = [r \in Requests |->
                      IF requests[r].state = "running" /\ requests[r].ttl > 0
                      THEN [requests[r] EXCEPT !.ttl = @ - 1] ELSE requests[r]]
    /\ compute_leases' = [d \in Domains |->
                      IF Live(compute_leases[d])
                      THEN [compute_leases[d] EXCEPT !.ttl = @ - 1, !.aged = Quantum]
                      ELSE compute_leases[d]]
    /\ UNCHANGED <<batches, kv, notices, claims, op, crashes>>

(* A worker thread or its process dies, or the run it serves raises. *)
Crash(w) ==
    /\ crashes < MaxCrashes
    /\ claims[w] # {} \/ op[w] # Idle
    /\ claims' = [claims EXCEPT ![w] = {}]
    /\ op' = [op EXCEPT ![w] = Idle]
    /\ crashes' = crashes + 1
    /\ UNCHANGED <<requests, batches, compute_leases, kv, notices>>

(***************************************************************************)
(* Clients: cancel (of one request or of a batch) and status with refresh. *)
(***************************************************************************)
Targets == {{r} : r \in Requests} \cup {BatchOf(b) : b \in Batches}

(* When every row it selects is settled, cancel writes nothing before its  *)
(* _refresh_batch, whose SELECT is then outside a transaction as well.      *)
CancelRead(p) ==
    /\ op[p] = Idle
    /\ \E T \in Targets : \E force \in BOOLEAN :
        /\ T # {} /\ \A r \in T : requests[r].state # "absent"
        /\ \E r \in T : requests[r].state \notin Terminal
        /\ op' = [op EXCEPT ![p] =
              [kind |-> "cancel", force |-> force,
               seen |-> [r \in T |-> [state |-> requests[r].state, cid |-> requests[r].cid]]]]
    /\ UNCHANGED <<requests, batches, compute_leases, kv, notices, claims, crashes>>

(* The updates name only the request: what the row has become since it was *)
(* read is not looked at.                                                  *)
CancelWrite(p) ==
    /\ op[p].kind = "cancel"
    /\ LET seen == op[p].seen
           T == DOMAIN seen
           waiting == {r \in T : seen[r].state \in {"queued", "ready"}}
           running == {r \in T : seen[r].state = "running"}
           forced == IF op[p].force THEN running ELSE {}
           hit == waiting \cup forced
       IN /\ requests' = [r \in Requests |->
                IF r \in waiting THEN [requests[r] EXCEPT !.state = "cancelled"]
                ELSE IF r \in forced THEN [SettledRow(r, "cancelled") EXCEPT !.cid = None]
                ELSE IF r \in running THEN [requests[r] EXCEPT !.cancel = TRUE]
                ELSE requests[r]]
          /\ kv' = WithoutKv(hit)
          /\ compute_leases' = Released(requests', compute_leases, {seen[r].cid : r \in hit})
          /\ notices' = [r \in Requests |-> IF r \in hit THEN "cancelled" ELSE notices[r]]
          /\ batches' = Refreshed(requests', {Req[r].batch : r \in T})
    /\ op' = [op EXCEPT ![p] = Idle]
    /\ UNCHANGED <<claims, crashes>>

(* status(batch_id, refresh=True) counts, then stores what it counted. *)
RefreshRead(p) ==
    /\ op[p] = Idle
    /\ \E b \in Batches : op' = [op EXCEPT ![p] =
            [kind |-> "refresh", b |-> b, counts |-> CountsOf(requests, b)]]
    /\ UNCHANGED <<requests, batches, compute_leases, kv, notices, claims, crashes>>

RefreshWrite(p) ==
    /\ op[p].kind = "refresh"
    /\ batches' = [batches EXCEPT ![op[p].b] = op[p].counts]
    /\ op' = [op EXCEPT ![p] = Idle]
    /\ UNCHANGED <<requests, compute_leases, kv, notices, claims, crashes>>

-----------------------------------------------------------------------------
WorkerStep(w) ==
    \/ PrepareRead(w) \/ PrepareWrite(w)
    \/ ClaimRead(w) \/ RefillRead(w) \/ ClaimNone(w) \/ ClaimAcquire(w) \/ ClaimExtend(w)
    \/ FinishLost(w) \/ FinishRead(w) \/ FinishWrite(w)
    \/ RetryRead(w) \/ RetryWrite(w) \/ WriteNotice(w)
    \/ HeartbeatRead(w) \/ HeartbeatWrite(w) \/ HeartbeatLost(w) \/ Crash(w)

ClientStep(p) == CancelRead(p) \/ CancelWrite(p) \/ RefreshRead(p) \/ RefreshWrite(p)

Next ==
    \/ \E b \in Batches : Submit(b)
    \/ \E w \in Workers : WorkerStep(w)
    \/ \E p \in Clients : ClientStep(p)
    \/ Reap
    \/ Tick

Spec == Init /\ [][Next]_vars
=============================================================================
