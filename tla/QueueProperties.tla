--------------------------- MODULE QueueProperties ---------------------------
(***************************************************************************)
(* What the request queue promises its workers and clients.                *)
(***************************************************************************)
EXTENDS InferenceQueue

(* Each variable has its type: the tables hold rows of their schema and a   *)
(* process is in at most one handler.                                       *)
TypeOK ==
    /\ requests \in [Requests -> Row]
    /\ batches \in [Batches -> Counts]
    /\ compute_leases \in [Domains -> OrNone(ComputeLease)]
    /\ kv \in [Slots -> OrNone(KvEntry)]
    /\ notices \in [Requests -> OrNone(Terminal)]
    /\ claims \in [Workers -> SUBSET Claim]
    /\ op \in [Procs -> {Idle} \cup Ops]
    /\ crashes \in 0..MaxCrashes

(* At most one worker executes a request at a time, as long as workers      *)
(* heartbeat before their leases expire: a request is handed to another     *)
(* worker only after the first one gave it back or died                     *)
(* (claim_ready_batch, requeue_expired_leases, retry_transport_failure).    *)
ExclusiveExecution ==
    \A v, w \in Workers : \A c \in claims[v] : \A e \in claims[w] :
        c.r = e.r => v = w /\ c = e

(* However late heartbeats are, at most one of the workers that believe     *)
(* they execute a request holds the lease its row names.                    *)
OneLeaseHolder ==
    \A v, w \in Workers : \A c \in claims[v] : \A e \in claims[w] :
        c.r = e.r /\ Holds(c.r, c.n) /\ Holds(e.r, e.n) => v = w /\ c = e

(* A running row is settled or requeued only by the worker that holds its   *)
(* lease, after that lease has expired, or by a cancel of that request: the *)
(* late result of an expired lease never touches the newer attempt          *)
(* (finish_request and retry_transport_failure, "where lease_id=?").        *)
LateResultIgnored ==
    [][\A r \in Requests :
        requests[r].state = "running" /\ requests'[r].state # "running" =>
            \/ requests[r].ttl = 0
            \/ \E w \in Workers : \E c \in claims[w] :
                  c.r = r /\ c.n = requests[r].lease /\ c \notin claims'[w]
            \/ \E p \in Clients : op[p].kind = "cancel" /\ r \in DOMAIN op[p].seen]_vars

(* A settled request is never prepared, claimed or settled again; the only  *)
(* step that changes it is the second half of a cancel that selected it     *)
(* before it was settled.                                                   *)
TerminalFinal ==
    [][\A r \in Requests :
        requests[r].state \in Terminal =>
            \/ requests'[r].state = requests[r].state
            \/ /\ requests'[r].state = "cancelled"
               /\ \E p \in Clients : op[p].kind = "cancel" /\ r \in DOMAIN op[p].seen]_vars

(* A running request that was asked to cancel becomes cancelled when it     *)
(* settles, its late result ignored.                                        *)
CancelHonoured ==
    [][\A r \in Requests :
        /\ requests[r].state = "running" /\ requests[r].cancel
        /\ requests'[r].state \in Terminal
        => requests'[r].state = "cancelled"]_vars

(* A request is started at most the larger of the two attempt budgets       *)
(* (max_attempts of retry_transport_failure and requeue_expired_leases),    *)
(* and one that waits to be started has an attempt left.                    *)
MaxAttempts ==
    IF MaxTransportAttempts > MaxLeaseAttempts THEN MaxTransportAttempts ELSE MaxLeaseAttempts
AttemptBudget ==
    \A r \in Requests :
        /\ requests[r].attempts <= MaxAttempts
        /\ requests[r].state \in {"queued", "ready"} => requests[r].attempts < MaxAttempts

(* The queue implements RequestLifecycle: through stale reads, lost leases, *)
(* crashes and cancels every row lives the life that module allows.         *)
LifecycleRow ==
    [r \in Requests |->
        [state |-> IF requests[r].state \in {"queued", "ready"} THEN "waiting" ELSE requests[r].state,
         attempts |-> requests[r].attempts]]
Lifecycle == INSTANCE RequestLifecycle WITH row <- LifecycleRow
ImplementsLifecycle == Lifecycle!Spec

(* Requests of two services are never executed at once in one compute       *)
(* domain (the compute_leases table), unless residents share it.            *)
ActiveIn(d) ==
    {r \in Requests : /\ requests[r].state = "running" /\ requests[r].ttl > 0
                      /\ requests[r].domain = d}
ComputeDomainExclusive ==
    ~Share => \A d \in Domains : \A q, r \in ActiveIn(d) : Req[q].service = Req[r].service

(* The batches table agrees with the requests table after every commit.     *)
BatchRowExact == \A b \in Batches : batches[b] = CountsOf(requests, b)

(* A notice file reports the state its request is in.                       *)
NoticeTruthful ==
    \A r \in Requests : notices[r] # None => requests[r].state = notices[r]

(* The KV entries of one node's pool never exceed kv_capacity_bytes.        *)
KvWithinCapacity ==
    Capacity > 0 => \A s \in Slots : BytesIn(Pool(s.scope, s.node)) <= Capacity

(* The KV reserved for a ready or running request stays reserved for it,    *)
(* not idle and not evicted, until the request is settled or requeued.      *)
KvProtected ==
    \A r \in Requests : requests[r].state \in {"ready", "running"} /\ Req[r].kind = "model" =>
        \A s \in KvSlots(r, requests[r].node) :
            kv[s] # None /\ kv[s].req = r /\ ~kv[s].idle

(* Running or ready KV is never purged to make room: the eviction of a      *)
(* prepare_ready leaves the entries of every ready or running request.      *)
ReservedKvNotPurged ==
    [][\A r \in Requests : \A s \in KvSlots(r, requests[r].node) :
        /\ requests[r].state \in {"ready", "running"} /\ kv[s] # None
        /\ \E w \in Workers : op[w].kind = "prepare" /\ op'[w] = Idle
        => kv'[s] # None]_vars

(* max_node_depth bounds the model requests prepared or running on a node.  *)
NodeDepthBound ==
    MaxNodeDepth > 0 => \A n \in Nodes :
        Cardinality({r \in Requests : /\ Req[r].kind = "model" /\ requests[r].node = n
                                      /\ requests[r].state \in {"ready", "running"}}) <= MaxNodeDepth

-----------------------------------------------------------------------------
(***************************************************************************)
(* Fairness: the dispatcher loop and the queue-work loop call reap,         *)
(* prepare, claim and heartbeat over and over, a handler that has started   *)
(* runs to its end, runners return (they have timeouts), time passes.       *)
(* Clients, submissions and crashes are the environment's.                  *)
(***************************************************************************)
Fairness ==
    /\ WF_vars(Reap) /\ WF_vars(Tick)
    /\ \A w \in Workers :
        /\ WF_vars(PrepareRead(w)) /\ WF_vars(PrepareWrite(w))
        /\ WF_vars(ClaimRead(w)) /\ WF_vars(ClaimNone(w) \/ ClaimAcquire(w) \/ ClaimExtend(w))
        /\ SF_vars(FinishRead(w) \/ RetryRead(w)) /\ WF_vars(FinishLost(w))
        /\ WF_vars(FinishWrite(w) \/ RetryWrite(w) \/ WriteNotice(w))
        /\ WF_vars(HeartbeatRead(w)) /\ WF_vars(HeartbeatWrite(w))
    /\ \A p \in Clients : WF_vars(CancelWrite(p) \/ RefreshWrite(p))

FairSpec == Spec /\ Fairness

(* Every submitted request is eventually completed, failed or cancelled,    *)
(* through retries, expired leases and the crash of its worker.             *)
EveryRequestSettles ==
    \A r \in Requests : requests[r].state # "absent" ~> requests[r].state \in Terminal

(* Once all its requests are settled a batch reports it for good: this is   *)
(* what _run_until_collected polls for without refreshing the counts.       *)
BatchReportsDone ==
    \A b \in Batches :
        <>[](\A r \in BatchOf(b) : requests[r].state \in Terminal)
            => <>[](BatchState(batches[b]) \in
                    {"completed", "cancelled", "completed_with_failures", "completed_with_cancelled"})

(* Every settled request eventually has its completion notice, unless a    *)
(* worker died: finish_request writes it after the commit, so a crash in    *)
(* between loses it for good.                                               *)
NoticeDelivered ==
    \A r \in Requests : requests[r].state \in Terminal ~> notices[r] # None \/ crashes > 0
=============================================================================
