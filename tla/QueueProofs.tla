----------------------------- MODULE QueueProofs -----------------------------
(***************************************************************************)
(* Proofs about the queue, for every set of requests, workers and clients, *)
(* every configuration and every value of the bounds: the types of its     *)
(* tables; the safety properties that hold in every configuration, with    *)
(* the inductive invariants they need; that the queue implements           *)
(* RequestLifecycle; and what relates its tables to each other.            *)
(***************************************************************************)
EXTENDS QueueProperties, SumLemmas, FiniteSetTheorems, TLAPS

-----------------------------------------------------------------------------
(* The helpers of the model return values of their table's type.           *)

(* _refresh_batch stores natural numbers. *)
LEMMA CountsOfType ==
    ASSUME NEW table, NEW b \in Batches
    PROVE  CountsOf(table, b) \in Counts
<1> SUFFICES ASSUME NEW s \in RowStates
             PROVE  Cardinality({r \in BatchOf(b) : table[r].state = s}) \in Nat
    BY DEF CountsOf, Counts
<1>1. IsFiniteSet({r \in BatchOf(b) : table[r].state = s})
    BY RequestsFinite, FS_Subset DEF BatchOf
<1> QED BY <1>1, FS_CardinalityType

LEMMA RefreshedType ==
    ASSUME TypeOK, NEW table, NEW bs
    PROVE  Refreshed(table, bs) \in [Batches -> Counts]
BY CountsOfType DEF TypeOK, Refreshed

LEMMA ReleasedType ==
    ASSUME NEW table, NEW leases \in [Domains -> OrNone(ComputeLease)], NEW ids
    PROVE  Released(table, leases, ids) \in [Domains -> OrNone(ComputeLease)]
BY DEF Released, OrNone

LEMMA WithoutKvType ==
    ASSUME TypeOK, NEW rs
    PROVE  WithoutKv(rs) \in [Slots -> OrNone(KvEntry)]
BY DEF TypeOK, WithoutKv, OrNone

LEMMA RowTypes ==
    ASSUME TypeOK, NEW r \in Requests
    PROVE  /\ SubmittedRow(r) \in Row
           /\ RequeuedRow(r) \in Row
           /\ \A s \in Terminal : SettledRow(r, s) \in Row
<1>0. 0 \in 0..TTL
    BY BoundsType
<1>a. Req[r] \in [batch: Batches, kind: {"model", "cpu"}, prio: Nat,
                          profile: STRING, service: OrNone(Services),
                          domain: OrNone(Domains), node: OrNone(Nodes),
                          key: OrNone(Keys), bytes: Nat]
    BY ReqType
<1>b. AbsentRow \in Row
    BY <1>0 DEF AbsentRow, Row, OrNone, States, Terminal
<1>1. SubmittedRow(r) \in Row
    BY <1>a, <1>b DEF SubmittedRow, Row, States, Terminal
<1>2. requests[r] \in Row
    BY DEF TypeOK
<1>3. \A n \in OrNone(Nodes), d \in OrNone(Domains) :
        [requests[r] EXCEPT !.state = "queued", !.lease = 0, !.ttl = 0, !.cid = None,
                            !.node = n, !.domain = d] \in Row
    BY <1>0, <1>2 DEF Row, OrNone, States
<1>4. requests[r].node \in OrNone(Nodes) /\ requests[r].domain \in OrNone(Domains)
    BY <1>2 DEF Row
<1>5. RequeuedRow(r) \in Row
    BY <1>3, <1>4 DEF RequeuedRow, OrNone
<1>6. ASSUME NEW s \in Terminal PROVE SettledRow(r, s) \in Row
    BY <1>0, <1>2 DEF SettledRow, Row, States, Terminal
<1> QED BY <1>1, <1>5, <1>6

(* What a process has selected has the type of the handler it is in.       *)
LEMMA OpFields ==
    ASSUME TypeOK, NEW p \in Procs
    PROVE  /\ op[p].kind = "prepare" =>
                /\ op[p].r \in Requests /\ op[p].node \in OrNone(Nodes)
                /\ op[p].evict \in SUBSET Slots
           /\ op[p].kind = "claim" =>
                /\ op[p].rows \in SUBSET Requests /\ op[p].domain \in OrNone(Domains)
                /\ op[p].service \in OrNone(Services) /\ op[p].cid \in OrNone(LeaseIds)
                /\ op[p].mode = "acquire" => op[p].domain \in Domains
           /\ op[p].kind = "finish" =>
                /\ op[p].claim \in Claim /\ op[p].final \in Terminal
           /\ op[p].kind = "retry" =>
                /\ op[p].claim \in Claim /\ op[p].final \in {"queued", "failed", "cancelled"}
           /\ op[p].kind = "notice" => op[p].r \in Requests /\ op[p].final \in Terminal
           /\ op[p].kind = "refresh" => op[p].b \in Batches /\ op[p].counts \in Counts
           /\ op[p].kind = "heartbeat" => op[p].cids \in SUBSET OrNone(LeaseIds)
<1>1. op[p] \in {Idle} \cup Ops
    BY DEF TypeOK
<1> QED BY <1>1 DEF Ops, Idle, OrNone

LEMMA ClaimFields ==
    ASSUME NEW c \in Claim
    PROVE  c.r \in Requests /\ c.n \in Nat \ {0} /\ c.cid \in OrNone(LeaseIds)
BY DEF Claim

(* The fields of a row. *)
LEMMA RowFields ==
    ASSUME TypeOK, NEW r \in Requests
    PROVE  /\ requests[r] \in Row
           /\ requests[r].state \in States
           /\ requests[r].node \in OrNone(Nodes) /\ requests[r].domain \in OrNone(Domains)
           /\ requests[r].attempts \in Nat /\ requests[r].lease \in Nat
           /\ requests[r].ttl \in 0..TTL /\ requests[r].cancel \in BOOLEAN
           /\ requests[r].cid \in OrNone(LeaseIds)
BY DEF TypeOK, Row

(* A claim writes running rows and the claims for them. *)
LEMMA TakeType ==
    ASSUME TypeOK, NEW w \in Workers, NEW taken \in SUBSET Requests,
           NEW id \in OrNone(LeaseIds), Take(w, taken, id)
    PROVE  /\ requests' \in [Requests -> Row]
           /\ batches' \in [Batches -> Counts]
           /\ claims' \in [Workers -> SUBSET Claim]
<1>1. TTL \in 0..TTL
    BY BoundsType
<1>2. ASSUME NEW r \in Requests
      PROVE  [requests[r] EXCEPT !.state = "running", !.lease = NewLease(r),
                                 !.attempts = @ + 1, !.ttl = TTL, !.cid = id] \in Row
    <2>1. NewLease(r) \in Nat /\ requests[r].attempts + 1 \in Nat
        BY RowFields DEF NewLease
    <2>2. requests[r] \in Row
        BY RowFields
    <2> QED BY <1>1, <2>1, <2>2 DEF Row, States
<1>3. requests' \in [Requests -> Row]
    BY <1>2, RowFields DEF Take, TakenRows
<1>4. batches' \in [Batches -> Counts]
    BY RefreshedType DEF Take
<1>5. \A r \in taken : [r |-> r, n |-> NewLease(r), cid |-> id] \in Claim
    BY RowFields DEF Claim, NewLease
<1>6. claims' \in [Workers -> SUBSET Claim]
    BY <1>5 DEF Take, TypeOK
<1> QED BY <1>3, <1>4, <1>6

-----------------------------------------------------------------------------
(* The handlers' first halves only put what they select into op.           *)
LEMMA SelectType ==
    ASSUME TypeOK, NEW p \in Procs, NEW o \in Ops \cup {Idle},
           op' = [op EXCEPT ![p] = o],
           UNCHANGED <<requests, batches, compute_leases, kv, notices, claims, crashes>>
    PROVE  TypeOK'
<1>1. op' \in [Procs -> {Idle} \cup Ops]
    BY DEF TypeOK
<1> QED BY <1>1 DEF TypeOK

LEMMA PrepareReadType ==
    ASSUME TypeOK, NEW w \in Workers, PrepareRead(w)
    PROVE  TypeOK'
<1>0. PICK svc \in Scopes(w) : \E r \in QueuedRows(w, svc) : \E V \in EvictionPlans(r, BindNode(w, r)) :
            op' = [op EXCEPT ![w] = [kind |-> "prepare", r |-> r,
                                     node |-> BindNode(w, r), evict |-> V]]
    BY DEF PrepareRead
<1>a. PICK r \in QueuedRows(w, svc) : \E V \in EvictionPlans(r, BindNode(w, r)) :
            op' = [op EXCEPT ![w] = [kind |-> "prepare", r |-> r,
                                     node |-> BindNode(w, r), evict |-> V]]
    BY <1>0
<1>1. PICK V \in EvictionPlans(r, BindNode(w, r)) :
            op' = [op EXCEPT ![w] = [kind |-> "prepare", r |-> r,
                                     node |-> BindNode(w, r), evict |-> V]]
    BY <1>a
<1>2. r \in Requests /\ V \in SUBSET Slots
    BY DEF QueuedRows, EvictionPlans
<1>3. W[w].node \in OrNone(Nodes)
    BY WType
<1>4. BindNode(w, r) \in OrNone(Nodes)
    BY <1>2, <1>3, RowFields DEF BindNode
<1>5. [kind |-> "prepare", r |-> r, node |-> BindNode(w, r), evict |-> V] \in Ops
    BY <1>2, <1>4 DEF Ops
<1> QED BY <1>1, <1>5, SelectType DEF PrepareRead, Procs

LEMMA ClaimReadType ==
    ASSUME TypeOK, NEW w \in Workers, ClaimRead(w) \/ RefillRead(w)
    PROVE  TypeOK'
<1>1. \E C \in SUBSET Requests, r \in Requests, mode \in {"none", "acquire", "extend"},
         id \in OrNone(LeaseIds) :
         /\ op' = [op EXCEPT ![w] = ClaimOp(C, requests[r].domain, Req[r].service, mode, id)]
         /\ mode = "acquire" => requests[r].domain # None /\ id = None
    <2>1. CASE ClaimRead(w)
        <3>1. PICK svc \in Scopes(w) : \E C \in Cohorts(w, svc) : \E r \in C :
                op' = [op EXCEPT ![w] =
                    ClaimOp(C, requests[r].domain, Req[r].service,
                            IF Share \/ requests[r].domain = None THEN "none" ELSE "acquire", None)]
            BY <2>1 DEF ClaimRead
        <3>2. \A C \in Cohorts(w, svc) : C \in SUBSET Requests
            BY DEF Cohorts, ReadyRows
        <3> QED BY <3>1, <3>2 DEF OrNone
    <2>2. CASE RefillRead(w)
        <3>1. PICK c \in claims[w] : \E C \in Cohorts(w, Req[c.r].service) : \E r \in C :
                op' = [op EXCEPT ![w] =
                    ClaimOp(C, requests[r].domain, Req[r].service,
                            IF requests[r].domain = None THEN "none" ELSE "extend", c.cid)]
            BY <2>2 DEF RefillRead
        <3>2. \A C \in Cohorts(w, Req[c.r].service) : C \in SUBSET Requests
            BY DEF Cohorts, ReadyRows
        <3>3. c.cid \in OrNone(LeaseIds)
            BY ClaimFields DEF TypeOK
        <3> QED BY <3>1, <3>2, <3>3
    <2> QED BY <2>1, <2>2
<1>2. PICK C \in SUBSET Requests, r \in Requests, mode \in {"none", "acquire", "extend"},
         id \in OrNone(LeaseIds) :
         /\ op' = [op EXCEPT ![w] = ClaimOp(C, requests[r].domain, Req[r].service, mode, id)]
         /\ mode = "acquire" => requests[r].domain # None /\ id = None
    BY <1>1
<1>3. requests[r].domain \in OrNone(Domains) /\ Req[r].service \in OrNone(Services)
    BY RowFields, ReqType
<1>4. ClaimOp(C, requests[r].domain, Req[r].service, mode, id) \in Ops
    <2>1. CASE mode = "acquire"
        <3>1. requests[r].domain \in Domains /\ id = None
            BY <1>2, <1>3, <2>1 DEF OrNone
        <3> QED BY <1>3, <2>1, <3>1 DEF ClaimOp, Ops
    <2>2. CASE mode # "acquire"
        BY <1>3, <2>2 DEF ClaimOp, Ops
    <2> QED BY <2>1, <2>2
<1> QED BY <1>2, <1>4, SelectType DEF ClaimRead, RefillRead, Procs

LEMMA ResultReadType ==
    ASSUME TypeOK, NEW w \in Workers, FinishRead(w) \/ RetryRead(w)
    PROVE  TypeOK'
<1>1. CASE FinishRead(w)
    <2>1. PICK c \in claims[w], out \in Terminal :
            op' = [op EXCEPT ![w] =
                [kind |-> "finish", claim |-> c, cid |-> requests[c.r].cid,
                 final |-> IF requests[c.r].cancel THEN "cancelled" ELSE out]]
        BY <1>1 DEF FinishRead
    <2>2. c \in Claim /\ requests[c.r].cid \in OrNone(LeaseIds)
        BY ClaimFields, RowFields DEF TypeOK
    <2>3. [kind |-> "finish", claim |-> c, cid |-> requests[c.r].cid,
           final |-> IF requests[c.r].cancel THEN "cancelled" ELSE out] \in Ops
        BY <2>2 DEF Ops, Terminal
    <2> QED BY <1>1, <2>1, <2>3, SelectType DEF FinishRead, Procs
<1>2. CASE RetryRead(w)
    <2>1. PICK c \in claims[w], final \in {"queued", "failed", "cancelled"} :
            op' = [op EXCEPT ![w] =
                [kind |-> "retry", claim |-> c, cid |-> requests[c.r].cid, final |-> final]]
        BY <1>2 DEF RetryRead
    <2>2. c \in Claim /\ requests[c.r].cid \in OrNone(LeaseIds)
        BY ClaimFields, RowFields DEF TypeOK
    <2>3. [kind |-> "retry", claim |-> c, cid |-> requests[c.r].cid, final |-> final] \in Ops
        BY <2>2 DEF Ops
    <2> QED BY <1>2, <2>1, <2>3, SelectType DEF RetryRead, Procs
<1> QED BY <1>1, <1>2

LEMMA ClientReadType ==
    ASSUME TypeOK, NEW p \in Clients, CancelRead(p) \/ RefreshRead(p)
    PROVE  TypeOK'
<1>1. CASE CancelRead(p)
    <2>1. PICK T \in Targets, force \in BOOLEAN :
            op' = [op EXCEPT ![p] =
                [kind |-> "cancel", force |-> force,
                 seen |-> [r \in T |-> [state |-> requests[r].state, cid |-> requests[r].cid]]]]
        BY <1>1 DEF CancelRead
    <2>2. T \in SUBSET Requests
        BY DEF Targets, BatchOf
    <2> DEFINE S == [r \in T |-> [state |-> requests[r].state, cid |-> requests[r].cid]]
    <2>3. S \in [T -> [state: States, cid: OrNone(LeaseIds)]]
        BY <2>2, RowFields
    <2>4. S \in UNION {[U -> [state: States, cid: OrNone(LeaseIds)]] : U \in SUBSET Requests}
        BY <2>2, <2>3
    <2> HIDE DEF S
    <2>5. [kind |-> "cancel", force |-> force, seen |-> S] \in Ops
        BY <2>4 DEF Ops
    <2> QED BY <1>1, <2>1, <2>5, SelectType DEF CancelRead, Procs, S
<1>2. CASE RefreshRead(p)
    <2>1. PICK b \in Batches : op' = [op EXCEPT ![p] =
            [kind |-> "refresh", b |-> b, counts |-> CountsOf(requests, b)]]
        BY <1>2 DEF RefreshRead
    <2>2. [kind |-> "refresh", b |-> b, counts |-> CountsOf(requests, b)] \in Ops
        BY CountsOfType DEF Ops
    <2> QED BY <1>2, <2>1, <2>2, SelectType DEF RefreshRead, Procs
<1> QED BY <1>1, <1>2

-----------------------------------------------------------------------------
(* The transactions write rows of their tables' types.                     *)
LEMMA SubmitType ==
    ASSUME TypeOK, NEW b \in Batches, Submit(b)
    PROVE  TypeOK'
<1>1. requests' \in [Requests -> Row]
    BY RowTypes, RowFields DEF Submit
<1>2. batches' \in [Batches -> Counts]
    BY RefreshedType DEF Submit
<1> QED BY <1>1, <1>2 DEF Submit, TypeOK

(* The size of a reservation, a pipeline's rounded up per shard.            *)
LEMMA SlotBytesType ==
    ASSUME NEW r \in Requests
    PROVE  SlotBytes(r) \in Nat
<1>1. Req[r].bytes \in Nat
    BY ReqType
<1>2. CASE ~Pipelined(r)
    BY <1>1, <1>2 DEF SlotBytes
<1>3. CASE Pipelined(r)
    <2>1. ServiceNodes[Req[r].service] \in SUBSET Nodes
        BY <1>3, ReqType, ServiceNodesType DEF Pipelined, OrNone
    <2>2. Cardinality(ServiceNodes[Req[r].service]) \in Nat
        BY <2>1, NodesFinite, FS_Subset, FS_CardinalityType
    <2>3. Cardinality(ServiceNodes[Req[r].service]) > 1
        BY <1>3 DEF Pipelined
    <2>4. ASSUME NEW n \in Nat, NEW k \in Nat, k > 1
          PROVE  (n + k - 1) \div k \in Nat
        BY <2>4
    <2> QED BY <1>1, <1>3, <2>2, <2>3, <2>4 DEF SlotBytes
<1> QED BY <1>2, <1>3

LEMMA PrepareWriteType ==
    ASSUME TypeOK, NEW w \in Workers, PrepareWrite(w)
    PROVE  TypeOK'
<1> DEFINE r == op[w].r
<1>1. r \in Requests /\ op[w].node \in OrNone(Nodes)
    BY OpFields DEF PrepareWrite, Procs
<1>2. SlotBytes(r) \in Nat => [req |-> r, bytes |-> SlotBytes(r), idle |-> FALSE] \in KvEntry
    BY <1>1 DEF KvEntry
<1>3. SlotBytes(r) \in Nat
    BY <1>1, SlotBytesType
<1>4. kv' \in [Slots -> OrNone(KvEntry)]
    BY <1>2, <1>3 DEF PrepareWrite, TypeOK, OrNone
<1>5. requests' \in [Requests -> Row]
    <2>1. CASE StillQueued(r)
        <3>1. 0 \in 0..TTL
            BY BoundsType
        <3>2. \A n \in OrNone(Nodes) : [requests[r] EXCEPT !.state = "ready", !.lease = 0,
                    !.ttl = 0, !.node = n] \in Row
            BY <1>1, <3>1, RowFields DEF Row, States
        <3> DEFINE n == IF requests[r].node # None THEN requests[r].node ELSE op[w].node
        <3>3. n \in OrNone(Nodes)
            BY <1>1, RowFields
        <3>4. requests' = [requests EXCEPT ![r].state = "ready", ![r].lease = 0, ![r].ttl = 0,
                    ![r].node = IF @ # None THEN @ ELSE op[w].node]
            BY <2>1 DEF PrepareWrite
        <3>5. requests' = [requests EXCEPT ![r] =
                    [requests[r] EXCEPT !.state = "ready", !.lease = 0, !.ttl = 0, !.node = n]]
            BY <1>1, <3>4, RowFields DEF TypeOK, Row
        <3> QED BY <3>2, <3>3, <3>5 DEF TypeOK
    <2>2. CASE ~StillQueued(r)
        BY <2>2 DEF PrepareWrite, TypeOK
    <2> QED BY <2>1, <2>2
<1>6. batches' \in [Batches -> Counts]
    BY RefreshedType DEF PrepareWrite, TypeOK
<1>7. op' \in [Procs -> {Idle} \cup Ops]
    BY DEF PrepareWrite, TypeOK
<1> QED BY <1>4, <1>5, <1>6, <1>7 DEF PrepareWrite, TypeOK

LEMMA ClaimWriteType ==
    ASSUME TypeOK, NEW w \in Workers, ClaimNone(w) \/ ClaimAcquire(w) \/ ClaimExtend(w)
    PROVE  TypeOK'
<1>1. op[w].kind = "claim" /\ StillReady(op[w].rows) \in SUBSET Requests
    BY OpFields DEF ClaimNone, ClaimAcquire, ClaimExtend, StillReady, Procs
<1>2. op[w].cid \in OrNone(LeaseIds) /\ op[w].service \in OrNone(Services)
    BY <1>1, OpFields DEF Procs
<1>3. op' \in [Procs -> {Idle} \cup Ops]
    BY DEF ClaimNone, ClaimAcquire, ClaimExtend, TypeOK
<1>4. TTL \in 0..TTL
    BY BoundsType
<1>5. \A d \in Domains : compute_leases[d] # None =>
            [compute_leases[d] EXCEPT !.ttl = TTL] \in ComputeLease
    BY <1>4 DEF TypeOK, OrNone, ComputeLease
<1>6. Unexpired \in [Domains -> OrNone(ComputeLease)]
    BY DEF Unexpired, TypeOK, OrNone
<1>7. CASE ClaimNone(w)
    <2>1. Take(w, StillReady(op[w].rows), None)
        BY <1>7 DEF ClaimNone
    <2>2. None \in OrNone(LeaseIds)
        BY DEF OrNone
    <2> QED BY <1>1, <1>3, <1>7, <2>1, <2>2, TakeType DEF ClaimNone, TypeOK
<1>8. CASE ClaimExtend(w)
    <2>1. Take(w, StillReady(op[w].rows), op[w].cid)
        BY <1>8 DEF ClaimExtend
    <2>2. compute_leases' \in [Domains -> OrNone(ComputeLease)]
        BY <1>5, <1>8 DEF ClaimExtend, TypeOK, OrNone
    <2> QED BY <1>1, <1>2, <1>3, <1>8, <2>1, <2>2, TakeType DEF ClaimExtend, TypeOK
<1>9. CASE ClaimAcquire(w)
    <2> DEFINE d == op[w].domain
               taken == StillReady(op[w].rows)
    <2>1. ASSUME NEW r \in taken,
                 compute_leases' = [Unexpired EXCEPT ![d] =
                        [id |-> <<r, NewLease(r)>>, service |-> op[w].service, by |-> W[w].by,
                         ttl |-> TTL, aged |-> FALSE]],
                 Take(w, taken, <<r, NewLease(r)>>)
          PROVE  TypeOK'
        <3>1. <<r, NewLease(r)>> \in LeaseIds
            BY <1>1, RowFields DEF LeaseIds, NewLease
        <3>2. [id |-> <<r, NewLease(r)>>, service |-> op[w].service, by |-> W[w].by,
               ttl |-> TTL, aged |-> FALSE] \in ComputeLease
            BY <1>2, <1>4, <3>1, WType DEF ComputeLease
        <3>3. compute_leases' \in [Domains -> OrNone(ComputeLease)]
            BY <1>6, <2>1, <3>2 DEF OrNone
        <3>4. <<r, NewLease(r)>> \in OrNone(LeaseIds)
            BY <3>1 DEF OrNone
        <3> QED BY <1>1, <1>3, <1>9, <2>1, <3>3, <3>4, TakeType DEF ClaimAcquire, TypeOK
    <2>2. ASSUME Unexpired[d] # None,
                 compute_leases' = [Unexpired EXCEPT ![d].ttl = TTL],
                 Take(w, taken, compute_leases[d].id)
          PROVE  TypeOK'
        <3>1. d \in Domains
            BY <1>1, <1>9, OpFields DEF Procs, ClaimAcquire
        <3>2. Unexpired[d] = compute_leases[d] /\ compute_leases[d] \in ComputeLease
            BY <2>2, <3>1 DEF Unexpired, TypeOK, OrNone
        <3>3. compute_leases[d].id \in OrNone(LeaseIds)
            BY <3>2 DEF ComputeLease, OrNone
        <3>4. [Unexpired[d] EXCEPT !.ttl = TTL] \in ComputeLease
            BY <1>4, <3>2 DEF ComputeLease
        <3>5. compute_leases' \in [Domains -> OrNone(ComputeLease)]
            BY <1>6, <2>2, <3>1, <3>4 DEF OrNone
        <3> QED BY <1>1, <1>3, <1>9, <2>2, <3>3, <3>5, TakeType DEF ClaimAcquire, TypeOK
    <2>3. ASSUME compute_leases' = Unexpired, UNCHANGED <<requests, batches, claims>>
          PROVE  TypeOK'
        BY <1>3, <1>6, <1>9, <2>3 DEF ClaimAcquire, TypeOK
    <2>4. ASSUME Unexpired[d] # None,
                 compute_leases' = [Unexpired EXCEPT ![d] = None],
                 Take(w, taken, compute_leases[d].id)
          PROVE  TypeOK'
        <3>1. d \in Domains
            BY <1>1, <1>9, OpFields DEF Procs, ClaimAcquire
        <3>2. Unexpired[d] = compute_leases[d] /\ compute_leases[d] \in ComputeLease
            BY <2>4, <3>1 DEF Unexpired, TypeOK, OrNone
        <3>3. compute_leases[d].id \in OrNone(LeaseIds)
            BY <3>2 DEF ComputeLease, OrNone
        <3>4. compute_leases' \in [Domains -> OrNone(ComputeLease)]
            BY <1>6, <2>4, <3>1 DEF OrNone
        <3> QED BY <1>1, <1>3, <1>9, <2>4, <3>3, <3>4, TakeType DEF ClaimAcquire, TypeOK
    <2> QED BY <1>9, <2>1, <2>2, <2>3, <2>4 DEF ClaimAcquire
<1> QED BY <1>7, <1>8, <1>9

LEMMA ResultWriteType ==
    ASSUME TypeOK, NEW w \in Workers, FinishWrite(w) \/ RetryWrite(w)
    PROVE  TypeOK'
<1> DEFINE c == op[w].claim
<1>0. op[w].kind \in {"finish", "retry"}
    BY DEF FinishWrite, RetryWrite
<1>1. c \in Claim
    BY <1>0, OpFields DEF Procs
<1>2. c.r \in Requests
    BY <1>1, ClaimFields
<1>3. batches' \in [Batches -> Counts]
    BY RefreshedType DEF FinishWrite, RetryWrite
<1>4. compute_leases' \in [Domains -> OrNone(ComputeLease)]
    BY ReleasedType DEF FinishWrite, RetryWrite, TypeOK
<1>5. claims' \in [Workers -> SUBSET Claim]
    BY DEF FinishWrite, RetryWrite, TypeOK
<1>6. CASE FinishWrite(w)
    <2>1. op[w].final \in Terminal
        BY <1>6, OpFields DEF FinishWrite, Procs
    <2>2. SettledRow(c.r, op[w].final) \in Row
        BY <1>2, <2>1, RowTypes
    <2>3. requests' \in [Requests -> Row]
        BY <1>2, <1>6, <2>2 DEF FinishWrite, TypeOK
    <2>4. \A s \in Slots : kv[s] # None => [kv[s] EXCEPT !.idle = TRUE] \in KvEntry
        BY DEF TypeOK, KvEntry, OrNone
    <2>5. kv' \in [Slots -> OrNone(KvEntry)]
        BY <1>6, <2>4 DEF FinishWrite, IdleKv, TypeOK, OrNone
    <2>6. [kind |-> "notice", r |-> c.r, final |-> op[w].final] \in Ops
        BY <1>2, <2>1 DEF Ops
    <2>7. op' \in [Procs -> {Idle} \cup Ops]
        BY <1>6, <2>6 DEF FinishWrite, TypeOK
    <2> QED BY <1>3, <1>4, <1>5, <1>6, <2>3, <2>5, <2>7 DEF FinishWrite, TypeOK
<1>7. CASE RetryWrite(w)
    <2>1. op[w].final \in {"queued", "failed", "cancelled"}
        BY <1>7, OpFields DEF RetryWrite, Procs
    <2>2. /\ op[w].final = "queued" => RequeuedRow(c.r) \in Row
          /\ op[w].final # "queued" => SettledRow(c.r, op[w].final) \in Row
        BY <1>2, <2>1, RowTypes DEF Terminal
    <2>3. requests' \in [Requests -> Row]
        BY <1>2, <1>7, <2>2 DEF RetryWrite, TypeOK
    <2>4. kv' \in [Slots -> OrNone(KvEntry)]
        BY <1>7, WithoutKvType DEF RetryWrite
    <2>5. notices' \in [Requests -> OrNone(Terminal)]
        BY <1>7, <2>1 DEF RetryWrite, RetryNotice, TypeOK, OrNone, Terminal
    <2>6. op[w].final = "failed" => [kind |-> "notice", r |-> c.r, final |-> op[w].final] \in Ops
        BY <1>2 DEF Ops, Terminal
    <2>7. op' \in [Procs -> {Idle} \cup Ops]
        BY <1>7, <2>6 DEF RetryWrite, TypeOK
    <2> QED BY <1>3, <1>4, <1>5, <1>7, <2>3, <2>4, <2>5, <2>7 DEF RetryWrite, TypeOK
<1> QED BY <1>6, <1>7

(* heartbeat names rows of the table. *)
LEMMA HeldRequests ==
    ASSUME TypeOK, NEW w \in Workers
    PROVE  Held(w) \subseteq Requests
BY ClaimFields DEF Held, TypeOK

LEMMA WorkerOtherType ==
    ASSUME TypeOK, NEW w \in Workers,
           WriteNotice(w) \/ FinishLost(w) \/ HeartbeatRead(w) \/ HeartbeatLost(w) \/ Crash(w)
    PROVE  TypeOK'
<1>1. CASE WriteNotice(w)
    <2>1. op[w].final \in Terminal
        BY <1>1, OpFields DEF WriteNotice, Procs
    <2>2. notices' \in [Requests -> OrNone(Terminal)]
        BY <1>1, <2>1 DEF WriteNotice, TypeOK, OrNone
    <2>3. op' \in [Procs -> {Idle} \cup Ops]
        BY <1>1 DEF WriteNotice, TypeOK
    <2> QED BY <1>1, <2>2, <2>3 DEF WriteNotice, TypeOK
<1>2. CASE FinishLost(w) \/ HeartbeatLost(w)
    <2>1. claims' \in [Workers -> SUBSET Claim]
        BY <1>2 DEF FinishLost, HeartbeatLost, TypeOK
    <2> QED BY <1>2, <2>1 DEF FinishLost, HeartbeatLost, TypeOK
<1>3. CASE Crash(w)
    <2>1. claims' \in [Workers -> SUBSET Claim]
        BY <1>3 DEF Crash, TypeOK
    <2>2. op' \in [Procs -> {Idle} \cup Ops]
        BY <1>3 DEF Crash, TypeOK
    <2>3. crashes' \in 0..MaxCrashes
        BY <1>3, BoundsType DEF Crash, TypeOK
    <2> QED BY <1>3, <2>1, <2>2, <2>3 DEF Crash, TypeOK
<1>4. CASE HeartbeatRead(w)
    <2> DEFINE cids == {requests[r].cid : r \in Held(w)}
    <2>1. cids \in SUBSET OrNone(LeaseIds)
        <3>1. Held(w) \subseteq Requests
            BY HeldRequests
        <3> QED BY <3>1, RowFields
    <2>2. op' = [op EXCEPT ![w] = [kind |-> "heartbeat", cids |-> cids]]
        BY <1>4 DEF HeartbeatRead
    <2> HIDE DEF cids
    <2>3. [kind |-> "heartbeat", cids |-> cids] \in Ops
        BY <2>1 DEF Ops
    <2> QED BY <1>4, <2>2, <2>3, SelectType DEF HeartbeatRead, Procs
<1> QED BY <1>1, <1>2, <1>3, <1>4

LEMMA TimeType ==
    ASSUME TypeOK, Tick \/ \E w \in Workers : HeartbeatWrite(w)
    PROVE  TypeOK'
<1>1. TTL \in 0..TTL /\ \A t \in 0..TTL : t > 0 => t - 1 \in 0..TTL
    BY BoundsType
<1>2. \A r \in Requests : \A t \in 0..TTL : [requests[r] EXCEPT !.ttl = t] \in Row
    BY RowFields DEF Row
<1>3. \A d \in Domains : compute_leases[d] # None =>
        /\ compute_leases[d].ttl \in 0..TTL
        /\ \A t \in 0..TTL : /\ [compute_leases[d] EXCEPT !.ttl = t] \in ComputeLease
                             /\ [compute_leases[d] EXCEPT !.ttl = t, !.aged = Quantum] \in ComputeLease
    BY FlagsType DEF TypeOK, ComputeLease, OrNone
<1>4. CASE Tick
    <2>1. ASSUME NEW r \in Requests, requests[r].ttl > 0
          PROVE  [requests[r] EXCEPT !.ttl = @ - 1] \in Row
        <3>1. requests[r].ttl - 1 \in 0..TTL
            BY <1>1, <2>1, RowFields
        <3> QED BY <1>2, <3>1
    <2>2. requests' \in [Requests -> Row]
        BY <1>4, <2>1, RowFields DEF Tick
    <2>3. ASSUME NEW d \in Domains, Live(compute_leases[d])
          PROVE  [compute_leases[d] EXCEPT !.ttl = @ - 1, !.aged = Quantum] \in ComputeLease
        <3>1. compute_leases[d] # None /\ compute_leases[d].ttl > 0
            BY <2>3 DEF Live
        <3>2. compute_leases[d].ttl - 1 \in 0..TTL
            BY <1>1, <1>3, <3>1
        <3> QED BY <1>3, <3>1, <3>2
    <2>4. compute_leases' \in [Domains -> OrNone(ComputeLease)]
        BY <1>4, <2>3 DEF Tick, TypeOK, OrNone
    <2> QED BY <1>4, <2>2, <2>4 DEF Tick, TypeOK
<1>5. ASSUME NEW w \in Workers, HeartbeatWrite(w) PROVE TypeOK'
    <2>1. requests' \in [Requests -> Row]
        BY <1>1, <1>2, <1>5, RowFields DEF HeartbeatWrite
    <2>2. compute_leases' \in [Domains -> OrNone(ComputeLease)]
        BY <1>1, <1>3, <1>5 DEF HeartbeatWrite, TypeOK, OrNone
    <2>3. op' \in [Procs -> {Idle} \cup Ops]
        BY <1>5 DEF HeartbeatWrite, TypeOK
    <2> QED BY <1>5, <2>1, <2>2, <2>3 DEF HeartbeatWrite, TypeOK
<1> QED BY <1>4, <1>5

LEMMA ReapType ==
    ASSUME TypeOK, Reap
    PROVE  TypeOK'
<1>1. requests' \in [Requests -> Row]
    <2>1. \A r \in Requests : SettledRow(r, "failed") \in Row /\ RequeuedRow(r) \in Row
        BY RowTypes DEF Terminal
    <2> QED BY <2>1, RowFields DEF Reap
<1>2. kv' \in [Slots -> OrNone(KvEntry)]
    BY WithoutKvType DEF Reap
<1>3. notices' \in [Requests -> OrNone(Terminal)]
    BY DEF Reap, TypeOK, OrNone, Terminal
<1>4. compute_leases' \in [Domains -> OrNone(ComputeLease)]
    <2> DEFINE kept == [d \in Domains |->
                    IF /\ compute_leases[d] # None /\ compute_leases[d].ttl = 0
                       /\ \A r \in Requests : ~(requests[r].state = "running"
                                                /\ requests[r].cid = compute_leases[d].id)
                    THEN None ELSE compute_leases[d]]
    <2>1. kept \in [Domains -> OrNone(ComputeLease)]
        BY DEF TypeOK, OrNone
    <2>2. compute_leases' = Released(requests', kept, {requests[r].cid : r \in Expired})
        BY DEF Reap
    <2> HIDE DEF kept
    <2> QED BY <2>1, <2>2, ReleasedType
<1>5. batches' \in [Batches -> Counts]
    BY RefreshedType DEF Reap
<1> QED BY <1>1, <1>2, <1>3, <1>4, <1>5 DEF Reap, TypeOK

LEMMA ClientWriteType ==
    ASSUME TypeOK, NEW p \in Clients, CancelWrite(p) \/ RefreshWrite(p)
    PROVE  TypeOK'
<1>0. op' \in [Procs -> {Idle} \cup Ops]
    BY DEF CancelWrite, RefreshWrite, TypeOK
<1>1. CASE CancelWrite(p)
    <2>1. batches' \in [Batches -> Counts]
        BY <1>1, RefreshedType DEF CancelWrite
    <2>2. compute_leases' \in [Domains -> OrNone(ComputeLease)]
        BY <1>1, ReleasedType DEF CancelWrite, TypeOK
    <2>3. kv' \in [Slots -> OrNone(KvEntry)]
        BY <1>1, WithoutKvType DEF CancelWrite
    <2>4. notices' \in [Requests -> OrNone(Terminal)]
        BY <1>1 DEF CancelWrite, TypeOK, OrNone, Terminal
    <2>5. ASSUME NEW r \in Requests
          PROVE  /\ [requests[r] EXCEPT !.state = "cancelled"] \in Row
                 /\ [requests[r] EXCEPT !.cancel = TRUE] \in Row
                 /\ [SettledRow(r, "cancelled") EXCEPT !.cid = None] \in Row
        <3>1. requests[r] \in Row /\ SettledRow(r, "cancelled") \in Row
            BY RowFields, RowTypes DEF Terminal
        <3> HIDE DEF SettledRow
        <3> QED BY <3>1 DEF Row, States, Terminal, OrNone
    <2>6. requests' \in [Requests -> Row]
        BY <1>1, <2>5, RowFields DEF CancelWrite
    <2> QED BY <1>0, <1>1, <2>1, <2>2, <2>3, <2>4, <2>6 DEF CancelWrite, TypeOK
<1>2. CASE RefreshWrite(p)
    <2>1. batches' \in [Batches -> Counts]
        BY <1>2, OpFields DEF RefreshWrite, TypeOK, Procs
    <2> QED BY <1>0, <1>2, <2>1 DEF RefreshWrite, TypeOK
<1> QED BY <1>1, <1>2

LEMMA InitType == Init => TypeOK
<1> SUFFICES ASSUME Init PROVE TypeOK
    OBVIOUS
<1>1. 0 \in 0..TTL /\ 0 \in 0..MaxCrashes
    BY BoundsType
<1>2. AbsentRow \in Row
    BY <1>1 DEF AbsentRow, Row, OrNone, States
<1> QED BY <1>1, <1>2 DEF Init, TypeOK, OrNone, Counts

LEMMA NextType == TypeOK /\ [Next]_vars => TypeOK'
<1> SUFFICES ASSUME TypeOK, [Next]_vars PROVE TypeOK'
    OBVIOUS
<1>1. ASSUME NEW w \in Workers, WorkerStep(w) PROVE TypeOK'
    BY <1>1, PrepareReadType, PrepareWriteType, ClaimReadType, ClaimWriteType, ResultReadType,
       ResultWriteType, WorkerOtherType, TimeType DEF WorkerStep
<1>2. ASSUME NEW p \in Clients, ClientStep(p) PROVE TypeOK'
    BY <1>2, ClientReadType, ClientWriteType DEF ClientStep
<1>3. CASE UNCHANGED vars
    BY <1>3 DEF vars, TypeOK
<1> QED BY <1>1, <1>2, <1>3, SubmitType, ReapType, TimeType DEF Next

(* Whatever the queue's handlers read and write in whatever order, the      *)
(* tables, the notice files and the handlers' own state keep their types.   *)
THEOREM TypeCorrect == Spec => []TypeOK
BY InitType, NextType, PTL DEF Spec

-----------------------------------------------------------------------------
(* The invariants.                                                          *)

(* A lease id is never issued twice: a claim's attempt number is at most    *)
(* its row's, and no two claims share request and attempt.                  *)
Unsubmitted == \A r \in Requests : requests[r].state = "absent" => requests[r].attempts = 0
IssuedLeases == \A w \in Workers : \A c \in claims[w] : c.n <= requests[c.r].attempts
LeasesDistinct ==
    \A v, w \in Workers : \A c \in claims[v] : \A e \in claims[w] :
        c.r = e.r /\ c.n = e.n => v = w /\ c = e
LeaseInv == Unsubmitted /\ IssuedLeases /\ LeasesDistinct

(* A running row names the lease of its last attempt, and a retry that will *)
(* requeue its request read an attempt number below the budget.             *)
RunningLease == \A r \in Requests : requests[r].state = "running" => requests[r].lease = requests[r].attempts
RetryWithinBudget ==
    \A w \in Workers : op[w].kind = "retry" /\ op[w].final = "queued" =>
        op[w].claim.n < MaxTransportAttempts
BudgetInv == RunningLease /\ RetryWithinBudget /\ AttemptBudget

(* A worker that reports a result still counts it among its claims.         *)
ReportsOwnClaim ==
    \A w \in Workers : op[w].kind \in {"finish", "retry"} => op[w].claim \in claims[w]

(* While heartbeats are on time the row of every claim is settled or is     *)
(* running under that very claim with its lease unexpired.                  *)
ClaimsLive ==
    \A w \in Workers : \A c \in claims[w] :
        \/ requests[c.r].state \in Terminal
        \/ Holds(c.r, c.n) /\ requests[c.r].ttl > 0

ClaimInv == ReportsOwnClaim /\ ClaimsLive /\ ExclusiveExecution

-----------------------------------------------------------------------------
(* What the transactions do to a row.                                       *)
LEMMA RowEffects ==
    ASSUME TypeOK, NEW r \in Requests
    PROVE  /\ RequeuedRow(r).state = "queued"
           /\ RequeuedRow(r).attempts = requests[r].attempts
           /\ SubmittedRow(r).state \in {"queued", "ready"} /\ SubmittedRow(r).attempts = 0
           /\ \A s \in Terminal : /\ SettledRow(r, s).state = s
                                  /\ SettledRow(r, s).attempts = requests[r].attempts
BY RowFields DEF RequeuedRow, SettledRow, SubmittedRow, AbsentRow, Row

(* The claims a transaction of claim_ready_batch hands out. *)
Handed(taken, id) == {[r |-> r, n |-> NewLease(r), cid |-> id] : r \in taken}

LEMMA TakeEffects ==
    ASSUME TypeOK, NEW w \in Workers, NEW taken \in SUBSET Requests,
           NEW id \in OrNone(LeaseIds), Take(w, taken, id)
    PROVE  /\ \A r \in Requests \ taken : requests'[r] = requests[r]
           /\ \A r \in taken : /\ requests'[r].state = "running"
                               /\ requests'[r].attempts = requests[r].attempts + 1
                               /\ requests'[r].lease = requests[r].attempts + 1
                               /\ requests'[r].ttl = TTL
           /\ claims'[w] = claims[w] \cup Handed(taken, id)
           /\ \A v \in Workers : v # w => claims'[v] = claims[v]
<1>1. \A r \in Requests \ taken : requests'[r] = requests[r]
    BY DEF Take, TakenRows
<1>2. \A r \in taken : /\ requests'[r].state = "running"
                       /\ requests'[r].attempts = requests[r].attempts + 1
                       /\ requests'[r].lease = requests[r].attempts + 1
                       /\ requests'[r].ttl = TTL
    BY RowFields DEF Take, TakenRows, NewLease, Row
<1>3. claims'[w] = claims[w] \cup Handed(taken, id)
    BY DEF Take, TypeOK, Handed
<1>4. \A v \in Workers : v # w => claims'[v] = claims[v]
    BY DEF Take, TypeOK
<1> QED BY <1>1, <1>2, <1>3, <1>4

(* Every claim transaction takes rows that are ready when it writes, or     *)
(* leaves rows and claims alone.                                            *)
LEMMA ClaimTakes ==
    ASSUME TypeOK, NEW w \in Workers, ClaimNone(w) \/ ClaimAcquire(w) \/ ClaimExtend(w)
    PROVE  /\ op' = [op EXCEPT ![w] = Idle]
           /\ \/ UNCHANGED <<requests, claims>>
              \/ \E taken \in SUBSET Requests, id \in OrNone(LeaseIds) :
                    /\ \A r \in taken : requests[r].state = "ready"
                    /\ Take(w, taken, id)
<1> DEFINE taken == StillReady(op[w].rows)
<1>0. op[w].kind = "claim"
    BY DEF ClaimNone, ClaimAcquire, ClaimExtend
<1>1. taken \in SUBSET Requests /\ \A r \in taken : requests[r].state = "ready"
    BY <1>0, OpFields DEF StillReady, Procs
<1>2. op' = [op EXCEPT ![w] = Idle]
    BY DEF ClaimNone, ClaimAcquire, ClaimExtend
<1>3. CASE ClaimNone(w)
    BY <1>1, <1>2, <1>3 DEF ClaimNone, OrNone
<1>4. CASE ClaimExtend(w)
    <2>1. op[w].cid \in OrNone(LeaseIds)
        BY <1>0, OpFields DEF Procs
    <2> QED BY <1>1, <1>2, <1>4, <2>1 DEF ClaimExtend
<1>5. CASE ClaimAcquire(w)
    <2>1. \A r \in taken : <<r, NewLease(r)>> \in OrNone(LeaseIds)
        BY <1>1, RowFields DEF LeaseIds, NewLease, OrNone
    <2>2. op[w].domain \in Domains
        BY <1>0, <1>5, OpFields DEF Procs, ClaimAcquire
    <2>3. Unexpired[op[w].domain] # None => compute_leases[op[w].domain].id \in OrNone(LeaseIds)
        BY <2>2 DEF Unexpired, TypeOK, OrNone, ComputeLease
    <2>4. CASE Unexpired[op[w].domain] = None /\ taken # {}
        <3>1. PICK r \in taken : Take(w, taken, <<r, NewLease(r)>>)
            BY <1>5, <2>4 DEF ClaimAcquire
        <3> QED BY <1>1, <1>2, <2>1, <3>1
    <2>5. CASE Unexpired[op[w].domain] # None /\ Take(w, taken, compute_leases[op[w].domain].id)
        BY <1>1, <1>2, <2>3, <2>5
    <2>6. CASE UNCHANGED <<requests, claims>>
        BY <1>2, <2>6
    <2> QED BY <1>5, <2>4, <2>5, <2>6 DEF ClaimAcquire
<1> QED BY <1>3, <1>4, <1>5

(* The steps of a worker that claim nothing. *)
Unclaiming(w) ==
    \/ PrepareRead(w) \/ PrepareWrite(w) \/ ClaimRead(w) \/ RefillRead(w)
    \/ FinishLost(w) \/ FinishRead(w) \/ FinishWrite(w)
    \/ RetryRead(w) \/ RetryWrite(w) \/ WriteNotice(w)
    \/ HeartbeatRead(w) \/ HeartbeatWrite(w) \/ HeartbeatLost(w) \/ Crash(w)

(* No step but a submission and a claim changes an attempt number, and no   *)
(* step but a claim adds to a worker's claims.                              *)
LEMMA AttemptsKept ==
    ASSUME TypeOK,
           \/ \E w \in Workers : Unclaiming(w)
           \/ \E p \in Clients : ClientStep(p)
           \/ Reap \/ Tick \/ UNCHANGED vars
    PROVE  /\ \A r \in Requests : /\ requests'[r].attempts = requests[r].attempts
                                  /\ requests'[r].state = "absent" => requests[r].state = "absent"
           /\ \A w \in Workers : claims'[w] \subseteq claims[w]
<1> DEFINE Kept == \A r \in Requests : /\ requests'[r].attempts = requests[r].attempts
                                       /\ requests'[r].state = "absent" => requests[r].state = "absent"
           Dropped == \A w \in Workers : claims'[w] \subseteq claims[w]
<1>1. ASSUME NEW w \in Workers, Unclaiming(w) PROVE Kept /\ Dropped
    <2>1. CASE PrepareRead(w) \/ ClaimRead(w) \/ RefillRead(w) \/ FinishRead(w) \/ RetryRead(w)
               \/ WriteNotice(w) \/ HeartbeatRead(w)
        BY <2>1 DEF PrepareRead, ClaimRead, RefillRead, FinishRead, RetryRead, WriteNotice,
           HeartbeatRead
    <2>2. CASE FinishLost(w) \/ HeartbeatLost(w) \/ Crash(w)
        BY <2>2 DEF FinishLost, HeartbeatLost, Crash, TypeOK
    <2>3. CASE PrepareWrite(w)
        <3>1. op[w].r \in Requests
            BY <2>3, OpFields DEF PrepareWrite, Procs
        <3>2. Kept
            BY <2>3, <3>1, RowFields DEF PrepareWrite, TypeOK, Row
        <3> QED BY <2>3, <3>2 DEF PrepareWrite
    <2>4. CASE FinishWrite(w)
        <3>1. op[w].claim.r \in Requests /\ op[w].final \in Terminal
            BY <2>4, OpFields, ClaimFields DEF FinishWrite, Procs
        <3>2. Kept
            BY <2>4, <3>1, RowEffects DEF FinishWrite, TypeOK, Terminal
        <3> QED BY <2>4, <3>2 DEF FinishWrite, TypeOK
    <2>5. CASE RetryWrite(w)
        <3>1. op[w].claim.r \in Requests /\ op[w].final \in {"queued", "failed", "cancelled"}
            BY <2>5, OpFields, ClaimFields DEF RetryWrite, Procs
        <3>2. Kept
            BY <2>5, <3>1, RowEffects DEF RetryWrite, TypeOK, Terminal
        <3> QED BY <2>5, <3>2 DEF RetryWrite, TypeOK
    <2>6. CASE HeartbeatWrite(w)
        <3>1. Kept
            BY <2>6, RowFields DEF HeartbeatWrite, Row
        <3> QED BY <2>6, <3>1 DEF HeartbeatWrite
    <2> QED BY <1>1, <2>1, <2>2, <2>3, <2>4, <2>5, <2>6 DEF Unclaiming
<1>2. ASSUME NEW p \in Clients, ClientStep(p) PROVE Kept /\ Dropped
    <2>1. CASE CancelRead(p) \/ RefreshRead(p) \/ RefreshWrite(p)
        BY <2>1 DEF CancelRead, RefreshRead, RefreshWrite
    <2>2. CASE CancelWrite(p)
        <3>1. \A r \in Requests : [SettledRow(r, "cancelled") EXCEPT !.cid = None].state = "cancelled"
                /\ [SettledRow(r, "cancelled") EXCEPT !.cid = None].attempts = requests[r].attempts
            BY RowFields DEF SettledRow, Row
        <3>2. Kept
            BY <2>2, <3>1, RowFields DEF CancelWrite, Row
        <3> QED BY <2>2, <3>2 DEF CancelWrite
    <2> QED BY <1>2, <2>1, <2>2 DEF ClientStep
<1>3. CASE Reap
    <2>1. Kept
        BY <1>3, RowEffects DEF Reap, Terminal
    <2> QED BY <1>3, <2>1 DEF Reap
<1>4. CASE Tick
    <2>1. Kept
        BY <1>4, RowFields DEF Tick, Row
    <2> QED BY <1>4, <2>1 DEF Tick
<1>5. CASE UNCHANGED vars
    BY <1>5 DEF vars
<1> QED BY <1>1, <1>2, <1>3, <1>4, <1>5

(* The three kinds of step the invariants tell apart. *)
LEMMA StepKinds ==
    ASSUME [Next]_vars
    PROVE  \/ \E b \in Batches : Submit(b)
           \/ \E w \in Workers : ClaimNone(w) \/ ClaimAcquire(w) \/ ClaimExtend(w)
           \/ \E w \in Workers : Unclaiming(w)
           \/ \E p \in Clients : ClientStep(p)
           \/ Reap \/ Tick \/ UNCHANGED vars
BY DEF Next, WorkerStep, Unclaiming

-----------------------------------------------------------------------------
(* Leases are unique.                                                       *)
LEMMA SubmitEffects ==
    ASSUME TypeOK, NEW b \in Batches, Submit(b)
    PROVE  /\ \A r \in Requests : r \notin BatchOf(b) => requests'[r] = requests[r]
           /\ \A r \in BatchOf(b) : /\ requests[r].state = "absent"
                                    /\ requests'[r].state \in {"queued", "ready"}
                                    /\ requests'[r].attempts = 0
           /\ claims' = claims /\ op' = op
BY RowEffects DEF Submit, BatchOf

LEMMA LeaseInvStep ==
    ASSUME TypeOK, LeaseInv, [Next]_vars
    PROVE  LeaseInv'
<1>1. ASSUME NEW b \in Batches, Submit(b) PROVE LeaseInv'
    <2>1. Unsubmitted'
        BY <1>1, SubmitEffects DEF LeaseInv, Unsubmitted
    <2>2. IssuedLeases'
        <3> SUFFICES ASSUME NEW w \in Workers, NEW c \in claims[w]
                     PROVE  c.n <= requests'[c.r].attempts
            BY <1>1, SubmitEffects DEF IssuedLeases
        <3>1. c.r \in Requests /\ c.n \in Nat \ {0} /\ c.n <= requests[c.r].attempts
            BY ClaimFields DEF TypeOK, LeaseInv, IssuedLeases
        <3>2. requests[c.r].attempts # 0
            BY <3>1, RowFields
        <3> QED BY <1>1, <3>1, <3>2, SubmitEffects DEF LeaseInv, Unsubmitted
    <2>3. LeasesDistinct'
        BY <1>1, SubmitEffects DEF LeaseInv, LeasesDistinct
    <2> QED BY <2>1, <2>2, <2>3 DEF LeaseInv
<1>2. ASSUME NEW w \in Workers, ClaimNone(w) \/ ClaimAcquire(w) \/ ClaimExtend(w) PROVE LeaseInv'
    <2>1. CASE UNCHANGED <<requests, claims>>
        BY <2>1 DEF LeaseInv, Unsubmitted, IssuedLeases, LeasesDistinct
    <2>2. ASSUME NEW taken \in SUBSET Requests, NEW id \in OrNone(LeaseIds),
                 \A r \in taken : requests[r].state = "ready", Take(w, taken, id)
          PROVE  LeaseInv'
        <3>1. Unsubmitted'
            BY <2>2, TakeEffects DEF LeaseInv, Unsubmitted
        <3>2. ASSUME NEW v \in Workers, NEW c \in claims'[v]
              PROVE  \/ /\ c \in claims[v] /\ c \in Claim
                        /\ c.n <= requests[c.r].attempts
                     \/ /\ v = w /\ c.r \in taken /\ c.n = requests[c.r].attempts + 1
                        /\ c.cid = id /\ c = [r |-> c.r, n |-> requests[c.r].attempts + 1, cid |-> id]
            <4>1. CASE c \in claims[v]
                BY <4>1 DEF LeaseInv, IssuedLeases, TypeOK
            <4>2. CASE c \notin claims[v]
                <5>1. v = w /\ c \in Handed(taken, id)
                    BY <2>2, <3>2, <4>2, TakeEffects
                <5>2. PICK r \in taken : c = [r |-> r, n |-> NewLease(r), cid |-> id]
                    BY <5>1 DEF Handed
                <5> QED BY <5>1, <5>2 DEF NewLease
            <4> QED BY <4>1, <4>2
        <3>3. \A r \in Requests : requests[r].attempts \in Nat
            BY RowFields
        <3>4. IssuedLeases'
            <4> SUFFICES ASSUME NEW v \in Workers, NEW c \in claims'[v]
                         PROVE  c.n <= requests'[c.r].attempts
                BY DEF IssuedLeases
            <4>1. CASE c \in Claim /\ c.n <= requests[c.r].attempts
                <5>1. c.r \in Requests /\ c.n \in Nat
                    BY <4>1, ClaimFields
                <5>2. requests'[c.r].attempts \in {requests[c.r].attempts, requests[c.r].attempts + 1}
                    BY <2>2, <5>1, TakeEffects
                <5> QED BY <3>3, <4>1, <5>1, <5>2
            <4>2. CASE c.r \in taken /\ c.n = requests[c.r].attempts + 1
                BY <2>2, <3>3, <4>2, TakeEffects
            <4> QED BY <3>2, <4>1, <4>2
        <3>5. LeasesDistinct'
            <4> SUFFICES ASSUME NEW u \in Workers, NEW v \in Workers,
                                NEW c \in claims'[u], NEW e \in claims'[v],
                                c.r = e.r, c.n = e.n
                         PROVE  u = v /\ c = e
                BY DEF LeasesDistinct
            <4>1. CASE c \in claims[u] /\ e \in claims[v]
                BY <4>1 DEF LeaseInv, LeasesDistinct
            <4>2. CASE c \notin claims[u] /\ e \notin claims[v]
                BY <3>2, <4>2
            <4>3. CASE c \in claims[u] /\ e \notin claims[v]
                <5>1. e.r \in taken /\ e.n = requests[e.r].attempts + 1
                    BY <3>2, <4>3
                <5>2. c.n <= requests[c.r].attempts /\ c \in Claim
                    BY <4>3 DEF LeaseInv, IssuedLeases, TypeOK
                <5> QED BY <5>1, <5>2, <3>3, ClaimFields
            <4>4. CASE c \notin claims[u] /\ e \in claims[v]
                <5>1. c.r \in taken /\ c.n = requests[c.r].attempts + 1
                    BY <3>2, <4>4
                <5>2. e.n <= requests[e.r].attempts /\ e \in Claim
                    BY <4>4 DEF LeaseInv, IssuedLeases, TypeOK
                <5> QED BY <5>1, <5>2, <3>3, ClaimFields
            <4> QED BY <4>1, <4>2, <4>3, <4>4
        <3> QED BY <3>1, <3>4, <3>5 DEF LeaseInv
    <2> QED BY <1>2, <2>1, <2>2, ClaimTakes
<1>3. CASE \/ \E w \in Workers : Unclaiming(w)
           \/ \E p \in Clients : ClientStep(p)
           \/ Reap \/ Tick \/ UNCHANGED vars
    <2>0. \A r \in Requests : /\ requests'[r].attempts = requests[r].attempts
                              /\ requests'[r].state = "absent" => requests[r].state = "absent"
        BY <1>3, AttemptsKept
    <2>1. Unsubmitted'
        BY <2>0 DEF LeaseInv, Unsubmitted
    <2>2. IssuedLeases'
        <3> SUFFICES ASSUME NEW w \in Workers, NEW c \in claims'[w]
                     PROVE  c.n <= requests'[c.r].attempts
            BY DEF IssuedLeases
        <3>1. c \in claims[w]
            BY <1>3, AttemptsKept
        <3>2. c.r \in Requests /\ c.n <= requests[c.r].attempts
            BY <3>1, ClaimFields DEF TypeOK, LeaseInv, IssuedLeases
        <3> QED BY <2>0, <3>2
    <2>3. LeasesDistinct'
        <3>1. \A w \in Workers : claims'[w] \subseteq claims[w]
            BY <1>3, AttemptsKept
        <3> QED BY <3>1 DEF LeaseInv, LeasesDistinct
    <2> QED BY <2>1, <2>2, <2>3 DEF LeaseInv
<1> QED BY <1>1, <1>2, <1>3, StepKinds

(* However late heartbeats are, at most one of the workers that believe     *)
(* they execute a request holds the lease its row names: what makes the     *)
(* lease_id guards of finish_request and retry_transport_failure work.      *)
THEOREM LeaseHolderUnique == Spec => []OneLeaseHolder
<1>1. Init => LeaseInv
    BY DEF Init, LeaseInv, Unsubmitted, IssuedLeases, LeasesDistinct, AbsentRow
<1>2. TypeOK /\ LeaseInv /\ [Next]_vars => LeaseInv'
    BY LeaseInvStep
<1>3. LeaseInv => OneLeaseHolder
    BY DEF LeaseInv, LeasesDistinct, OneLeaseHolder, Holds
<1> QED BY <1>1, <1>2, <1>3, TypeCorrect, PTL DEF Spec

-----------------------------------------------------------------------------
(* The life of a row: what one step can do to it.                           *)
KeptAttempts(r) == requests'[r].attempts = requests[r].attempts
Kept(r) ==
    /\ requests'[r].state = requests[r].state /\ requests'[r].lease = requests[r].lease
    /\ KeptAttempts(r)
    /\ requests'[r].ttl \in {requests[r].ttl, TTL} \/ Tick
Submitted(r) ==
    requests[r].state = "absent" /\ requests'[r].state \in {"queued", "ready"}
    /\ requests'[r].attempts = 0
Prepared(r) == requests[r].state = "queued" /\ requests'[r].state = "ready" /\ KeptAttempts(r)
Taken(r) ==
    /\ requests[r].state = "ready" /\ requests'[r].state = "running"
    /\ requests'[r].attempts = requests[r].attempts + 1
    /\ requests'[r].lease = requests'[r].attempts
Reported(r) ==
    \E w \in Workers :
        /\ op[w].kind \in {"finish", "retry"} /\ op[w].claim.r = r /\ Holds(r, op[w].claim.n)
        /\ claims'[w] = claims[w] \ {op[w].claim} /\ KeptAttempts(r)
        /\ \/ requests'[r].state \in Terminal
           \/ op[w].kind = "retry" /\ op[w].final = "queued" /\ requests'[r].state = "queued"
Reaped(r) ==
    /\ requests[r].state = "running" /\ requests[r].ttl = 0 /\ KeptAttempts(r)
    /\ \/ requests'[r].state = "failed"
       \/ requests'[r].state = "queued" /\ requests[r].attempts < MaxLeaseAttempts
Cancelled(r) ==
    /\ requests'[r].state = "cancelled" /\ KeptAttempts(r)
    /\ \E p \in Clients : op[p].kind = "cancel" /\ r \in DOMAIN op[p].seen

RowStep(r) ==
    Kept(r) \/ Submitted(r) \/ Prepared(r) \/ Taken(r) \/ Reported(r) \/ Reaped(r) \/ Cancelled(r)

LEMMA RowSteps ==
    ASSUME TypeOK, [Next]_vars
    PROVE  \A r \in Requests : RowStep(r)
<1> USE DEF RowStep
<1>0. ASSUME requests' = requests PROVE \A r \in Requests : RowStep(r)
    BY <1>0 DEF Kept, KeptAttempts
<1>1. ASSUME NEW b \in Batches, Submit(b) PROVE \A r \in Requests : RowStep(r)
    BY <1>1, SubmitEffects DEF Submitted, Kept, KeptAttempts
<1>2. ASSUME NEW w \in Workers, ClaimNone(w) \/ ClaimAcquire(w) \/ ClaimExtend(w)
      PROVE  \A r \in Requests : RowStep(r)
    <2>1. CASE requests' = requests
        BY <1>0, <2>1
    <2>2. ASSUME NEW taken \in SUBSET Requests, NEW id \in OrNone(LeaseIds),
                 \A r \in taken : requests[r].state = "ready", Take(w, taken, id)
          PROVE  \A r \in Requests : RowStep(r)
        <3>1. \A r \in taken : Taken(r)
            BY <2>2, TakeEffects DEF Taken
        <3>2. \A r \in Requests \ taken : Kept(r)
            BY <2>2, TakeEffects DEF Kept, KeptAttempts
        <3> QED BY <3>1, <3>2
    <2> QED BY <1>2, <2>1, <2>2, ClaimTakes
<1>3. ASSUME NEW w \in Workers, Unclaiming(w) PROVE \A r \in Requests : RowStep(r)
    <2>1. CASE PrepareRead(w) \/ ClaimRead(w) \/ RefillRead(w) \/ FinishRead(w) \/ RetryRead(w)
               \/ WriteNotice(w) \/ FinishLost(w) \/ HeartbeatRead(w) \/ HeartbeatLost(w) \/ Crash(w)
        BY <1>0, <2>1 DEF PrepareRead, ClaimRead, RefillRead, FinishRead, RetryRead, WriteNotice,
           FinishLost, HeartbeatRead, HeartbeatLost, Crash
    <2>2. CASE PrepareWrite(w)
        <3>1. op[w].r \in Requests
            BY <2>2, OpFields DEF PrepareWrite, Procs
        <3>2. CASE StillQueued(op[w].r)
            <4>1. Prepared(op[w].r)
                BY <2>2, <3>1, <3>2, RowFields DEF PrepareWrite, StillQueued, Prepared, KeptAttempts, TypeOK, Row
            <4>2. \A r \in Requests : r # op[w].r => Kept(r)
                BY <2>2, <3>1, <3>2 DEF PrepareWrite, Kept, KeptAttempts, TypeOK
            <4> QED BY <4>1, <4>2
        <3>3. CASE ~StillQueued(op[w].r)
            BY <1>0, <2>2, <3>3 DEF PrepareWrite
        <3> QED BY <3>2, <3>3
    <2>3. CASE FinishWrite(w) \/ RetryWrite(w)
        <3> DEFINE c == op[w].claim
        <3>1. op[w].kind \in {"finish", "retry"} /\ c \in Claim /\ c.r \in Requests
            BY <2>3, OpFields, ClaimFields DEF FinishWrite, RetryWrite, Procs
        <3>2. CASE ~Holds(c.r, c.n)
            BY <1>0, <2>3, <3>2 DEF FinishWrite, RetryWrite
        <3>3. CASE Holds(c.r, c.n)
            <4>1. \A r \in Requests : r # c.r => Kept(r)
                BY <2>3, <3>1, <3>3 DEF FinishWrite, RetryWrite, Kept, KeptAttempts, TypeOK
            <4>2. claims'[w] = claims[w] \ {c}
                BY <2>3 DEF FinishWrite, RetryWrite, TypeOK
            <4>3. KeptAttempts(c.r) /\
                  \/ requests'[c.r].state \in Terminal
                  \/ op[w].kind = "retry" /\ op[w].final = "queued" /\ requests'[c.r].state = "queued"
                <5>1. CASE FinishWrite(w)
                    <6>1. op[w].final \in Terminal
                        BY <5>1, OpFields DEF FinishWrite, Procs
                    <6>2. requests'[c.r] = SettledRow(c.r, op[w].final)
                        BY <3>1, <3>3, <5>1 DEF FinishWrite, TypeOK
                    <6> QED BY <3>1, <6>1, <6>2, RowEffects DEF KeptAttempts
                <5>2. CASE RetryWrite(w)
                    <6>1. op[w].final \in {"queued", "failed", "cancelled"} /\ op[w].kind = "retry"
                        BY <5>2, OpFields DEF RetryWrite, Procs
                    <6>2. requests'[c.r] = IF op[w].final = "queued" THEN RequeuedRow(c.r)
                                           ELSE SettledRow(c.r, op[w].final)
                        BY <3>1, <3>3, <5>2 DEF RetryWrite, TypeOK
                    <6> QED BY <3>1, <6>1, <6>2, RowEffects DEF KeptAttempts, Terminal
                <5> QED BY <2>3, <5>1, <5>2
            <4>4. Reported(c.r)
                BY <3>1, <3>3, <4>2, <4>3 DEF Reported
            <4> QED BY <4>1, <4>4
        <3> QED BY <3>2, <3>3
    <2>4. CASE HeartbeatWrite(w)
        BY <2>4, RowFields DEF HeartbeatWrite, Kept, KeptAttempts, Row
    <2> QED BY <1>3, <2>1, <2>2, <2>3, <2>4 DEF Unclaiming
<1>4. ASSUME NEW p \in Clients, ClientStep(p) PROVE \A r \in Requests : RowStep(r)
    <2>1. CASE CancelRead(p) \/ RefreshRead(p) \/ RefreshWrite(p)
        BY <1>0, <2>1 DEF CancelRead, RefreshRead, RefreshWrite
    <2>2. CASE CancelWrite(p)
        <3> SUFFICES ASSUME NEW r \in Requests PROVE Kept(r) \/ Cancelled(r)
            OBVIOUS
        <3>1. requests[r] \in Row
            BY RowFields
        <3>2. CASE r \notin DOMAIN op[p].seen
            BY <2>2, <3>2 DEF CancelWrite, Kept, KeptAttempts
        <3>3. CASE r \in DOMAIN op[p].seen
            <4>1. \/ requests'[r] = requests[r]
                  \/ requests'[r] = [requests[r] EXCEPT !.state = "cancelled"]
                  \/ requests'[r] = [SettledRow(r, "cancelled") EXCEPT !.cid = None]
                  \/ requests'[r] = [requests[r] EXCEPT !.cancel = TRUE]
                BY <2>2 DEF CancelWrite
            <4>2. \/ Kept(r)
                  \/ requests'[r].state = "cancelled" /\ KeptAttempts(r)
                BY <3>1, <4>1 DEF Kept, KeptAttempts, SettledRow, Row
            <4> QED BY <2>2, <3>3, <4>2 DEF Cancelled, CancelWrite
        <3> QED BY <3>2, <3>3
    <2> QED BY <1>4, <2>1, <2>2 DEF ClientStep
<1>5. CASE Reap
    <2> SUFFICES ASSUME NEW r \in Requests PROVE Kept(r) \/ Reaped(r)
        OBVIOUS
    <2>1. CASE r \notin Expired
        BY <1>5, <2>1 DEF Reap, Spent, Kept, KeptAttempts
    <2>2. CASE r \in Spent
        <3>1. requests'[r] = SettledRow(r, "failed")
            BY <1>5, <2>2 DEF Reap
        <3> QED BY <2>2, <3>1, RowEffects DEF Spent, Expired, Reaped, KeptAttempts, Terminal
    <2>3. CASE r \in Expired \ Spent
        <3>1. requests'[r] = RequeuedRow(r)
            BY <1>5, <2>3 DEF Reap
        <3>2. requests[r].attempts < MaxLeaseAttempts
            BY <2>3, RowFields, BoundsType DEF Spent
        <3> QED BY <2>3, <3>1, <3>2, RowEffects DEF Expired, Reaped, KeptAttempts
    <2> QED BY <2>1, <2>2, <2>3
<1>6. CASE Tick
    BY <1>6, RowFields DEF Tick, Kept, KeptAttempts, Row
<1>7. CASE UNCHANGED vars
    BY <1>0, <1>7 DEF vars
<1> QED BY <1>1, <1>2, <1>3, <1>4, <1>5, <1>6, <1>7, StepKinds

(* What one step can do to a worker: it starts to report one of its claims, *)
(* or it is in no handler that reports, or nothing changes for it.          *)
StartsReport(w) ==
    /\ UNCHANGED <<requests, claims>>
    /\ op'[w].claim \in claims[w] /\ Holds(op'[w].claim.r, op'[w].claim.n)
    /\ op'[w].kind = "retry" /\ op'[w].final = "queued" =>
          requests[op'[w].claim.r].attempts < MaxTransportAttempts
WorkerSteps(w) ==
    \/ op'[w] = op[w] /\ claims'[w] = claims[w]
    \/ op'[w].kind \notin {"finish", "retry"}
    \/ StartsReport(w)

LEMMA WorkersStep ==
    ASSUME TypeOK, [Next]_vars, NEW w \in Workers
    PROVE  WorkerSteps(w)
<1> USE DEF WorkerSteps
<1>1. ASSUME UNCHANGED <<op, claims>> PROVE WorkerSteps(w)
    BY <1>1
<1>2. ASSUME NEW v \in Workers, WorkerStep(v), v # w PROVE WorkerSteps(w)
    <2>1. op'[w] = op[w]
        BY <1>2 DEF WorkerStep, PrepareRead, PrepareWrite, ClaimRead, RefillRead, ClaimNone,
           ClaimAcquire, ClaimExtend, FinishLost, FinishRead, FinishWrite, RetryRead, RetryWrite,
           WriteNotice, HeartbeatRead, HeartbeatWrite,
       HeartbeatLost, Crash, TypeOK, Procs
    <2>2. claims'[w] = claims[w]
        BY <1>2 DEF WorkerStep, PrepareRead, PrepareWrite, ClaimRead, RefillRead, ClaimNone,
           ClaimAcquire, ClaimExtend, FinishLost, FinishRead, FinishWrite, RetryRead, RetryWrite,
           WriteNotice, HeartbeatRead, HeartbeatWrite,
       HeartbeatLost, Crash, Take, TypeOK
    <2> QED BY <2>1, <2>2
<1>3. ASSUME WorkerStep(w) PROVE WorkerSteps(w)
    <2>0. \A o : [op EXCEPT ![w] = o][w] = o
        BY DEF TypeOK, Procs
    <2>1. CASE PrepareRead(w) \/ ClaimRead(w) \/ RefillRead(w) \/ HeartbeatRead(w)
        BY <2>0, <2>1 DEF PrepareRead, ClaimRead, RefillRead, HeartbeatRead, ClaimOp
    <2>2. CASE \/ PrepareWrite(w) \/ ClaimNone(w) \/ ClaimAcquire(w) \/ ClaimExtend(w)
               \/ WriteNotice(w) \/ HeartbeatWrite(w) \/ Crash(w)
        <3>1. op' = [op EXCEPT ![w] = Idle]
            BY <2>2 DEF PrepareWrite, ClaimNone, ClaimAcquire, ClaimExtend, WriteNotice,
               HeartbeatWrite, Crash
        <3>2. op'[w] = Idle
            BY <2>0, <3>1
        <3> QED BY <3>2 DEF Idle
    <2>3. CASE FinishLost(w) \/ HeartbeatLost(w)
        <3>1. op'[w] = Idle
            BY <2>3 DEF FinishLost, HeartbeatLost
        <3> QED BY <3>1 DEF Idle
    <2>4. CASE FinishWrite(w)
        BY <2>0, <2>4 DEF FinishWrite
    <2>5. CASE RetryWrite(w)
        BY <2>0, <2>5 DEF RetryWrite, Idle
    <2>6. CASE FinishRead(w)
        <3>1. PICK c \in claims[w], out \in Terminal :
                /\ Holds(c.r, c.n)
                /\ op' = [op EXCEPT ![w] =
                        [kind |-> "finish", claim |-> c, cid |-> requests[c.r].cid,
                         final |-> IF requests[c.r].cancel THEN "cancelled" ELSE out]]
            BY <2>6 DEF FinishRead
        <3> QED BY <2>0, <2>6, <3>1 DEF FinishRead, StartsReport
    <2>7. CASE RetryRead(w)
        <3>1. PICK c \in claims[w] :
                /\ Holds(c.r, c.n)
                /\ op' = [op EXCEPT ![w] =
                        [kind |-> "retry", claim |-> c, cid |-> requests[c.r].cid,
                         final |-> IF requests[c.r].cancel THEN "cancelled"
                                   ELSE IF requests[c.r].attempts < MaxTransportAttempts
                                   THEN "queued" ELSE "failed"]]
            BY <2>7 DEF RetryRead
        <3> QED BY <2>0, <2>7, <3>1 DEF RetryRead, StartsReport
    <2> QED BY <1>3, <2>1, <2>2, <2>3, <2>4, <2>5, <2>6, <2>7 DEF WorkerStep
<1>4. ASSUME NEW p \in Clients, ClientStep(p) PROVE WorkerSteps(w)
    <2>1. p # w
        BY ProcessesDisjoint
    <2>2. op'[w] = op[w] /\ claims' = claims
        BY <1>4, <2>1 DEF ClientStep, CancelRead, CancelWrite, RefreshRead, RefreshWrite, TypeOK, Procs
    <2> QED BY <2>2
<1>5. CASE Reap \/ Tick \/ (\E b \in Batches : Submit(b)) \/ UNCHANGED vars
    BY <1>1, <1>5 DEF Reap, Tick, Submit, vars
<1> QED BY <1>2, <1>3, <1>4, <1>5 DEF Next

-----------------------------------------------------------------------------
LEMMA BudgetInvStep ==
    ASSUME TypeOK, TypeOK', BudgetInv, [Next]_vars
    PROVE  BudgetInv'
<1>1. RunningLease'
    <2> SUFFICES ASSUME NEW r \in Requests, requests'[r].state = "running"
                 PROVE  requests'[r].lease = requests'[r].attempts
        BY DEF RunningLease
    <2>1. Kept(r) \/ Taken(r)
        BY RowSteps DEF RowStep, Submitted, Prepared, Reported, Reaped, Cancelled, Terminal
    <2> QED BY <2>1 DEF Kept, KeptAttempts, Taken, BudgetInv, RunningLease
<1>2. RetryWithinBudget'
    <2> SUFFICES ASSUME NEW w \in Workers, op'[w].kind = "retry", op'[w].final = "queued"
                 PROVE  op'[w].claim.n < MaxTransportAttempts
        BY DEF RetryWithinBudget
    <2>1. CASE op'[w] = op[w]
        BY <2>1 DEF BudgetInv, RetryWithinBudget
    <2>2. CASE StartsReport(w)
        <3>1. op'[w].claim \in Claim
            BY <2>2 DEF StartsReport, TypeOK
        <3>2. op'[w].claim.r \in Requests
            BY <3>1, ClaimFields
        <3> QED BY <2>2, <3>2 DEF StartsReport, Holds, BudgetInv, RunningLease
    <2> QED BY <2>1, <2>2, WorkersStep DEF WorkerSteps
<1>3. AttemptBudget'
    <2> SUFFICES ASSUME NEW r \in Requests
                 PROVE  /\ requests'[r].attempts <= MaxAttempts
                        /\ requests'[r].state \in {"queued", "ready"} =>
                              requests'[r].attempts < MaxAttempts
        BY DEF AttemptBudget
    <2>1. /\ MaxAttempts \in Nat \ {0}
          /\ MaxTransportAttempts <= MaxAttempts /\ MaxLeaseAttempts <= MaxAttempts
        BY BoundsType DEF MaxAttempts
    <2>2. /\ requests[r].attempts \in Nat /\ requests[r].attempts <= MaxAttempts
          /\ requests[r].state \in {"queued", "ready"} => requests[r].attempts < MaxAttempts
        BY RowFields DEF BudgetInv, AttemptBudget
    <2>3. CASE Kept(r)
        BY <2>2, <2>3 DEF Kept, KeptAttempts
    <2>4. CASE Submitted(r)
        BY <2>1, <2>4 DEF Submitted
    <2>5. CASE Prepared(r) \/ Taken(r)
        BY <2>1, <2>2, <2>5 DEF Prepared, Taken, KeptAttempts
    <2>6. CASE Reported(r)
        <3>1. PICK w \in Workers :
                /\ op[w].kind \in {"finish", "retry"} /\ op[w].claim.r = r /\ Holds(r, op[w].claim.n)
                /\ KeptAttempts(r)
                /\ \/ requests'[r].state \in Terminal
                   \/ op[w].kind = "retry" /\ op[w].final = "queued" /\ requests'[r].state = "queued"
            BY <2>6 DEF Reported
        <3>2. CASE requests'[r].state \in Terminal
            BY <2>2, <3>1, <3>2 DEF KeptAttempts, Terminal
        <3>3. CASE op[w].kind = "retry" /\ op[w].final = "queued"
            <4>1. requests[r].attempts < MaxTransportAttempts
                BY <3>1, <3>3 DEF Holds, BudgetInv, RunningLease, RetryWithinBudget
            <4> QED BY <2>1, <2>2, <3>1, <4>1, BoundsType DEF KeptAttempts
        <3> QED BY <3>1, <3>2, <3>3
    <2>7. CASE Reaped(r)
        BY <2>1, <2>2, <2>7, BoundsType DEF Reaped, KeptAttempts
    <2>8. CASE Cancelled(r)
        BY <2>2, <2>8 DEF Cancelled, KeptAttempts
    <2> QED BY <2>3, <2>4, <2>5, <2>6, <2>7, <2>8, RowSteps DEF RowStep
<1> QED BY <1>1, <1>2, <1>3 DEF BudgetInv

LEMMA BudgetInvInit == Init => BudgetInv
<1> SUFFICES ASSUME Init PROVE BudgetInv
    OBVIOUS
<1>1. MaxAttempts \in Nat \ {0}
    BY BoundsType DEF MaxAttempts
<1>2. RunningLease /\ AttemptBudget
    BY <1>1 DEF Init, AbsentRow, RunningLease, AttemptBudget
<1>3. RetryWithinBudget
    BY DEF Init, Idle, Procs, RetryWithinBudget
<1> QED BY <1>2, <1>3 DEF BudgetInv

(* A request is started at most max_attempts times, whichever of lease      *)
(* expiry and transport retry sends it back and whatever was read stale,    *)
(* and one that waits has an attempt left.                                  *)
THEOREM AttemptsBounded == Spec => []AttemptBudget
<1>1. Init => BudgetInv
    BY BudgetInvInit
<1>2. TypeOK /\ TypeOK' /\ BudgetInv /\ [Next]_vars => BudgetInv'
    BY BudgetInvStep
<1>3. BudgetInv => AttemptBudget
    BY DEF BudgetInv
<1> QED BY <1>1, <1>2, <1>3, TypeCorrect, PTL DEF Spec

(* A settled request is final: of all steps only the second half of a       *)
(* cancel that selected it earlier changes its state.                       *)
THEOREM SettledFinal == Spec => TerminalFinal
<1>1. ASSUME TypeOK, [Next]_vars
      PROVE  [\A r \in Requests :
                requests[r].state \in Terminal =>
                    \/ requests'[r].state = requests[r].state
                    \/ /\ requests'[r].state = "cancelled"
                       /\ \E p \in Clients : op[p].kind = "cancel" /\ r \in DOMAIN op[p].seen]_vars
    <2> SUFFICES ASSUME NEW r \in Requests, requests[r].state \in Terminal
                 PROVE  Kept(r) \/ Cancelled(r)
        BY DEF Kept, Cancelled
    <2> QED BY <1>1, RowSteps DEF RowStep, Submitted, Prepared, Taken, Reported, Reaped, Holds, Terminal
<1> QED BY <1>1, TypeCorrect, PTL DEF Spec, TerminalFinal

-----------------------------------------------------------------------------
LEMMA ReportsInit == Init => ReportsOwnClaim
BY DEF Init, Idle, Procs, ReportsOwnClaim

LEMMA ReportsStep ==
    ASSUME TypeOK, ReportsOwnClaim, [Next]_vars
    PROVE  ReportsOwnClaim'
<1> SUFFICES ASSUME NEW w \in Workers, op'[w].kind \in {"finish", "retry"}
             PROVE  op'[w].claim \in claims'[w]
    BY DEF ReportsOwnClaim
<1>1. CASE op'[w] = op[w] /\ claims'[w] = claims[w]
    BY <1>1 DEF ReportsOwnClaim
<1>2. CASE StartsReport(w)
    BY <1>2 DEF StartsReport
<1> QED BY <1>1, <1>2, WorkersStep DEF WorkerSteps

(* The late result of a lease that has expired never touches the newer      *)
(* attempt: a running row is settled or requeued by the holder of its       *)
(* lease, after that lease expired, or by a cancel.                         *)
THEOREM LateResultsIgnored == Spec => LateResultIgnored
<1>1. ASSUME TypeOK, ReportsOwnClaim, [Next]_vars
      PROVE  [\A r \in Requests :
                requests[r].state = "running" /\ requests'[r].state # "running" =>
                    \/ requests[r].ttl = 0
                    \/ \E w \in Workers : \E c \in claims[w] :
                          c.r = r /\ c.n = requests[r].lease /\ c \notin claims'[w]
                    \/ \E p \in Clients : op[p].kind = "cancel" /\ r \in DOMAIN op[p].seen]_vars
    <2> SUFFICES ASSUME NEW r \in Requests,
                        requests[r].state = "running", requests'[r].state # "running"
                 PROVE  \/ requests[r].ttl = 0
                        \/ \E w \in Workers : \E c \in claims[w] :
                              c.r = r /\ c.n = requests[r].lease /\ c \notin claims'[w]
                        \/ \E p \in Clients : op[p].kind = "cancel" /\ r \in DOMAIN op[p].seen
        OBVIOUS
    <2>1. Reported(r) \/ Reaped(r) \/ Cancelled(r)
        BY <1>1, RowSteps DEF RowStep, Kept, Submitted, Prepared, Taken
    <2>2. CASE Reported(r)
        <3>1. PICK w \in Workers :
                /\ op[w].kind \in {"finish", "retry"} /\ op[w].claim.r = r /\ Holds(r, op[w].claim.n)
                /\ claims'[w] = claims[w] \ {op[w].claim}
            BY <2>2 DEF Reported
        <3>2. op[w].claim \in claims[w] /\ op[w].claim.n = requests[r].lease
            BY <1>1, <3>1 DEF ReportsOwnClaim, Holds
        <3> QED BY <3>1, <3>2
    <2> QED BY <2>1, <2>2 DEF Reaped, Cancelled
<1>2. TypeOK /\ ReportsOwnClaim /\ [Next]_vars => ReportsOwnClaim'
    BY ReportsStep
<1> QED BY <1>1, <1>2, ReportsInit, TypeCorrect, PTL DEF Spec, LateResultIgnored

-----------------------------------------------------------------------------
(* Exclusive execution.                                                     *)

(* A claim a worker has after a step it had before, or it took it for a     *)
(* ready row.                                                               *)
TookClaim(w, c) ==
    /\ c.r \in Requests /\ requests[c.r].state = "ready"
    /\ requests'[c.r].state = "running" /\ requests'[c.r].lease = c.n
    /\ requests'[c.r].ttl = TTL
NewClaims(w) == claims'[w] \ claims[w]

LEMMA ClaimSteps ==
    ASSUME TypeOK, [Next]_vars
    PROVE  \/ \A w \in Workers : NewClaims(w) = {}
           \/ \E w \in Workers :
                /\ \A v \in Workers : v # w => NewClaims(v) = {}
                /\ \A c \in NewClaims(w) : TookClaim(w, c)
                /\ \A c, e \in NewClaims(w) : c.r = e.r => c = e
<1>1. ASSUME NEW b \in Batches, Submit(b) PROVE \A w \in Workers : NewClaims(w) = {}
    BY <1>1, SubmitEffects DEF NewClaims
<1>2. CASE \/ \E w \in Workers : Unclaiming(w)
           \/ \E p \in Clients : ClientStep(p)
           \/ Reap \/ Tick \/ UNCHANGED vars
    <2>1. \A w \in Workers : claims'[w] \subseteq claims[w]
        BY <1>2, AttemptsKept
    <2> QED BY <2>1 DEF NewClaims
<1>3. ASSUME NEW w \in Workers, ClaimNone(w) \/ ClaimAcquire(w) \/ ClaimExtend(w),
             ~ UNCHANGED <<requests, claims>>
      PROVE  /\ \A v \in Workers : v # w => NewClaims(v) = {}
             /\ \A c \in NewClaims(w) : TookClaim(w, c)
             /\ \A c, e \in NewClaims(w) : c.r = e.r => c = e
    <2>1. PICK taken \in SUBSET Requests, id \in OrNone(LeaseIds) :
            (\A r \in taken : requests[r].state = "ready") /\ Take(w, taken, id)
        BY <1>3, ClaimTakes
    <2>2. \A v \in Workers : v # w => NewClaims(v) = {}
        <3>1. \A v \in Workers : v # w => claims'[v] = claims[v]
            BY <2>1, TakeEffects
        <3> QED BY <3>1 DEF NewClaims
    <2>3. ASSUME NEW c \in NewClaims(w)
          PROVE  c.r \in taken /\ c = [r |-> c.r, n |-> requests[c.r].attempts + 1, cid |-> id]
        <3>1. c \in Handed(taken, id)
            BY <2>1, <2>3, TakeEffects DEF NewClaims
        <3>2. PICK r \in taken : c = [r |-> r, n |-> NewLease(r), cid |-> id]
            BY <3>1 DEF Handed
        <3> QED BY <3>2 DEF NewLease
    <2>4. \A c, e \in NewClaims(w) : c.r = e.r => c = e
        BY <2>3
    <2>5. ASSUME NEW c \in NewClaims(w) PROVE TookClaim(w, c)
        <3>1. c.r \in taken /\ c.n = requests[c.r].attempts + 1
            BY <2>3
        <3>2. \A r \in taken : /\ requests'[r].state = "running"
                              /\ requests'[r].lease = requests[r].attempts + 1
                              /\ requests'[r].ttl = TTL
            BY <2>1, TakeEffects
        <3> QED BY <2>1, <3>1, <3>2 DEF TookClaim
    <2> QED BY <2>2, <2>4, <2>5
<1>4. CASE UNCHANGED <<requests, claims>>
    BY <1>4 DEF NewClaims
<1> QED BY <1>1, <1>2, <1>3, <1>4, StepKinds

LEMMA ClaimInvStep ==
    ASSUME OnTime, TypeOK, TypeOK', ClaimInv, [Next]_vars
    PROVE  ClaimInv'
<1>1. ReportsOwnClaim'
    BY ReportsStep DEF ClaimInv
<1>2. ClaimsLive'
    <2> SUFFICES ASSUME NEW w \in Workers, NEW c \in claims'[w]
                 PROVE  \/ requests'[c.r].state \in Terminal
                        \/ /\ requests'[c.r].state = "running" /\ requests'[c.r].lease = c.n
                           /\ requests'[c.r].ttl > 0
        BY DEF ClaimsLive, Holds
    <2>0. TTL > 0 /\ TTL \in Nat
        BY BoundsType
    <2>1. CASE c \in NewClaims(w)
        BY <2>0, <2>1, ClaimSteps DEF TookClaim
    <2>2. CASE c \in claims[w]
        <3>1. c.r \in Requests
            BY <2>2, ClaimFields DEF TypeOK
        <3>2. CASE requests[c.r].state \in Terminal
            <4>1. Kept(c.r) \/ Cancelled(c.r)
                BY <3>1, <3>2, RowSteps DEF RowStep, Submitted, Prepared, Taken, Reported, Reaped, Holds, Terminal
            <4> QED BY <3>2, <4>1 DEF Kept, Cancelled, Terminal
        <3>3. CASE Holds(c.r, c.n) /\ requests[c.r].ttl > 0
            <4>1. Kept(c.r) \/ Reported(c.r) \/ Cancelled(c.r)
                BY <3>1, <3>3, RowSteps DEF RowStep, Submitted, Prepared, Taken, Reaped, Holds
            <4>2. CASE Kept(c.r)
                <5>1. CASE Tick
                    <6>1. requests[c.r].ttl > 1
                        BY <2>2, <3>3, <5>1 DEF Tick
                    <6>2. requests'[c.r] = [requests[c.r] EXCEPT !.ttl = @ - 1]
                        BY <3>1, <3>3, <5>1 DEF Tick, Holds
                    <6>3. requests[c.r] \in Row /\ requests[c.r].ttl \in 0..TTL
                        BY <3>1, RowFields
                    <6>4. requests'[c.r].ttl = requests[c.r].ttl - 1
                        BY <6>2, <6>3 DEF Row
                    <6> QED BY <2>0, <3>3, <4>2, <6>1, <6>3, <6>4 DEF Kept, Holds
                <5>2. CASE ~Tick
                    BY <2>0, <3>3, <4>2, <5>2 DEF Kept, Holds
                <5> QED BY <5>1, <5>2
            <4>3. CASE Reported(c.r)
                <5>1. PICK v \in Workers :
                        /\ op[v].kind \in {"finish", "retry"} /\ op[v].claim.r = c.r
                        /\ claims'[v] = claims[v] \ {op[v].claim}
                    BY <4>3 DEF Reported
                <5>2. op[v].claim \in claims[v]
                    BY <5>1 DEF ClaimInv, ReportsOwnClaim
                <5>3. v = w /\ op[v].claim = c
                    BY <2>2, <5>1, <5>2 DEF ClaimInv, ExclusiveExecution
                <5> QED BY <5>1, <5>3
            <4>4. CASE Cancelled(c.r)
                BY <4>4 DEF Cancelled, Terminal
            <4> QED BY <4>1, <4>2, <4>3, <4>4
        <3> QED BY <2>2, <3>2, <3>3 DEF ClaimInv, ClaimsLive
    <2> QED BY <2>1, <2>2 DEF NewClaims
<1>3. ExclusiveExecution'
    <2> SUFFICES ASSUME NEW u \in Workers, NEW v \in Workers,
                        NEW c \in claims'[u], NEW e \in claims'[v], c.r = e.r
                 PROVE  u = v /\ c = e
        BY DEF ExclusiveExecution
    <2>1. ASSUME NEW w \in Workers, NEW x \in claims[w] PROVE requests[x.r].state # "ready"
        BY <2>1 DEF ClaimInv, ClaimsLive, Holds, Terminal
    <2>2. CASE c \in claims[u] /\ e \in claims[v]
        BY <2>2 DEF ClaimInv, ExclusiveExecution
    <2>3. CASE c \in NewClaims(u) /\ e \in NewClaims(v)
        BY <2>3, ClaimSteps
    <2>4. CASE c \in claims[u] /\ e \in NewClaims(v)
        BY <2>1, <2>4, ClaimSteps DEF TookClaim
    <2>5. CASE c \in NewClaims(u) /\ e \in claims[v]
        BY <2>1, <2>5, ClaimSteps DEF TookClaim
    <2> QED BY <2>2, <2>3, <2>4, <2>5 DEF NewClaims
<1> QED BY <1>1, <1>2, <1>3 DEF ClaimInv

(* When live workers heartbeat before their leases expire, no request is    *)
(* ever executed by two workers, or twice by one, at the same time: not     *)
(* through a stale claim, a retry, an expired lease or a cancellation.      *)
THEOREM ExecutionExclusive ==
    ASSUME OnTime
    PROVE  Spec => []ExclusiveExecution
<1>1. Init => ClaimInv
    <2>1. Init => ClaimsLive /\ ExclusiveExecution
        BY DEF Init, ClaimsLive, ExclusiveExecution
    <2> QED BY <2>1, ReportsInit DEF ClaimInv
<1>2. TypeOK /\ TypeOK' /\ ClaimInv /\ [Next]_vars => ClaimInv'
    BY ClaimInvStep
<1>3. ClaimInv => ExclusiveExecution
    BY DEF ClaimInv
<1> QED BY <1>1, <1>2, <1>3, TypeCorrect, PTL DEF Spec

-----------------------------------------------------------------------------
(* The batches table.                                                       *)
LEMMA CountsSame ==
    ASSUME NEW s, NEW t, NEW b \in Batches, \A r \in BatchOf(b) : s[r].state = t[r].state
    PROVE  CountsOf(s, b) = CountsOf(t, b)
<1> SUFFICES ASSUME NEW x \in RowStates
             PROVE  {r \in BatchOf(b) : s[r].state = x} = {r \in BatchOf(b) : t[r].state = x}
    BY DEF CountsOf
<1> QED OBVIOUS

(* Refreshing the batches of the rows a transaction changes is enough. *)
LEMMA RefreshExact ==
    ASSUME BatchRowExact, NEW bs,
           \A r \in Requests : requests'[r].state # requests[r].state => Req[r].batch \in bs,
           batches' = Refreshed(requests', bs)
    PROVE  BatchRowExact'
<1> SUFFICES ASSUME NEW b \in Batches PROVE batches'[b] = CountsOf(requests', b)
    BY DEF BatchRowExact, CountsOf, BatchOf
<1>1. CASE b \in bs
    BY <1>1 DEF Refreshed
<1>2. CASE b \notin bs
    <2>1. batches'[b] = CountsOf(requests, b)
        BY <1>2 DEF Refreshed, BatchRowExact
    <2>2. \A r \in BatchOf(b) : requests[r].state = requests'[r].state
        BY <1>2 DEF BatchOf
    <2> QED BY <2>1, <2>2, CountsSame
<1> QED BY <1>1, <1>2

LEMMA ExactKept ==
    ASSUME BatchRowExact, batches' = batches,
           \A r \in Requests : requests'[r].state = requests[r].state
    PROVE  BatchRowExact'
<1> SUFFICES ASSUME NEW b \in Batches PROVE batches'[b] = CountsOf(requests', b)
    BY DEF BatchRowExact, CountsOf, BatchOf
<1>1. CountsOf(requests, b) = CountsOf(requests', b)
    BY CountsSame DEF BatchOf
<1> QED BY <1>1 DEF BatchRowExact

(* Without the reading clients every step leaves the counts exact. *)
LEMMA BatchRowStep ==
    ASSUME Clients = {}, TypeOK, BatchRowExact, [Next]_vars
    PROVE  BatchRowExact'
<1>1. ASSUME NEW b \in Batches, Submit(b) PROVE BatchRowExact'
    <2>1. \A r \in Requests : requests'[r].state # requests[r].state => Req[r].batch \in {b}
        BY <1>1, SubmitEffects DEF BatchOf
    <2> QED BY <1>1, <2>1, RefreshExact DEF Submit
<1>2. ASSUME NEW w \in Workers, ClaimNone(w) \/ ClaimAcquire(w) \/ ClaimExtend(w)
      PROVE  BatchRowExact'
    <2>1. ASSUME NEW taken \in SUBSET Requests, NEW id \in OrNone(LeaseIds), Take(w, taken, id)
          PROVE  BatchRowExact'
        <3>1. \A r \in Requests : requests'[r].state # requests[r].state =>
                    Req[r].batch \in {Req[q].batch : q \in taken}
            <4>1. \A r \in Requests \ taken : requests'[r] = requests[r]
                BY <2>1, TakeEffects
            <4> QED BY <4>1
        <3>2. batches' = Refreshed(requests', {Req[q].batch : q \in taken})
            BY <2>1 DEF Take
        <3> QED BY <3>1, <3>2, RefreshExact
    <2>2. CASE UNCHANGED <<requests, claims>> /\ batches' = batches
        BY <2>2, ExactKept
    <2>3. \/ UNCHANGED <<requests, claims>> /\ batches' = batches
          \/ \E taken \in SUBSET Requests, id \in OrNone(LeaseIds) : Take(w, taken, id)
        <3>1. (\E taken, id : Take(w, taken, id)) \/ UNCHANGED <<requests, batches, claims>>
            BY <1>2 DEF ClaimNone, ClaimAcquire, ClaimExtend
        <3>2. \A taken, id : Take(w, taken, id) /\ UNCHANGED <<requests, claims>> =>
                batches' = Refreshed(requests, {Req[r].batch : r \in taken})
            BY DEF Take
        <3>3. \A bs : batches \in [Batches -> Counts] => Refreshed(requests, bs) = batches
            BY DEF Refreshed, BatchRowExact
        <3> QED BY <1>2, <3>1, <3>2, <3>3, ClaimTakes DEF TypeOK
    <2> QED BY <2>1, <2>2, <2>3
<1>3. ASSUME NEW w \in Workers, Unclaiming(w) PROVE BatchRowExact'
    <2>1. CASE PrepareRead(w) \/ ClaimRead(w) \/ RefillRead(w) \/ FinishRead(w) \/ RetryRead(w)
               \/ WriteNotice(w) \/ FinishLost(w) \/ HeartbeatRead(w) \/ HeartbeatLost(w) \/ Crash(w)
        <3>1. UNCHANGED <<requests, batches>>
            BY <2>1 DEF PrepareRead, ClaimRead, RefillRead, FinishRead, RetryRead, WriteNotice,
               FinishLost, HeartbeatRead, HeartbeatLost, Crash
        <3> QED BY <3>1, ExactKept
    <2>2. CASE PrepareWrite(w)
        <3>1. CASE StillQueued(op[w].r)
            <4>1. op[w].r \in Requests
                BY <2>2, OpFields DEF PrepareWrite, Procs
            <4>2. \A r \in Requests : r # op[w].r => requests'[r] = requests[r]
                BY <2>2, <3>1, <4>1 DEF PrepareWrite, TypeOK
            <4>3. \A r \in Requests : requests'[r].state # requests[r].state =>
                        Req[r].batch \in {Req[op[w].r].batch}
                BY <4>2
            <4>4. batches' = Refreshed(requests', {Req[op[w].r].batch})
                BY <2>2, <3>1 DEF PrepareWrite
            <4> QED BY <4>3, <4>4, RefreshExact
        <3>2. CASE ~StillQueued(op[w].r)
            BY <2>2, <3>2, ExactKept DEF PrepareWrite
        <3> QED BY <3>1, <3>2
    <2>3. CASE FinishWrite(w) \/ RetryWrite(w)
        <3> DEFINE c == op[w].claim
        <3>1. c.r \in Requests
            BY <2>3, OpFields, ClaimFields DEF FinishWrite, RetryWrite, Procs
        <3>2. \A r \in Requests : r # c.r => requests'[r] = requests[r]
            BY <2>3, <3>1 DEF FinishWrite, RetryWrite, TypeOK
        <3>3. \A r \in Requests : requests'[r].state # requests[r].state =>
                    Req[r].batch \in {Req[c.r].batch}
            BY <3>2
        <3>4. batches' = Refreshed(requests', {Req[c.r].batch})
            BY <2>3 DEF FinishWrite, RetryWrite
        <3> QED BY <3>3, <3>4, RefreshExact
    <2>4. CASE HeartbeatWrite(w)
        <3>1. \A r \in Requests : requests'[r].state = requests[r].state
            BY <2>4, RowFields DEF HeartbeatWrite, Row
        <3> QED BY <2>4, <3>1, ExactKept DEF HeartbeatWrite
    <2> QED BY <1>3, <2>1, <2>2, <2>3, <2>4 DEF Unclaiming
<1>4. CASE Reap
    <2>1. \A r \in Requests : requests'[r].state # requests[r].state =>
                Req[r].batch \in {Req[q].batch : q \in Expired}
        BY <1>4 DEF Reap, Spent, Expired
    <2> QED BY <1>4, <2>1, RefreshExact DEF Reap
<1>5. CASE Tick
    <2>1. \A r \in Requests : requests'[r].state = requests[r].state
        BY <1>5, RowFields DEF Tick, Row
    <2> QED BY <1>5, <2>1, ExactKept DEF Tick
<1>6. CASE UNCHANGED vars
    BY <1>6, ExactKept DEF vars
<1> QED BY <1>1, <1>2, <1>3, <1>4, <1>5, <1>6, StepKinds

(* As long as no client recounts or cancels, the batches table agrees with  *)
(* the requests table after every commit: each transaction refreshes the    *)
(* batch of every row it changes.                                           *)
THEOREM BatchRowsExact ==
    ASSUME Clients = {}
    PROVE  Spec => []BatchRowExact
<1>1. Init => BatchRowExact
    <2> SUFFICES ASSUME Init, NEW b \in Batches PROVE batches[b] = CountsOf(requests, b)
        BY DEF BatchRowExact
    <2>1. ASSUME NEW s \in RowStates
          PROVE  Cardinality({r \in BatchOf(b) : requests[r].state = s}) = 0
        <3>1. {r \in BatchOf(b) : requests[r].state = s} = {}
            BY DEF Init, AbsentRow, RowStates, BatchOf
        <3> QED BY <3>1, FS_EmptySet
    <2> QED BY <2>1 DEF Init, CountsOf
<1>2. TypeOK /\ BatchRowExact /\ [Next]_vars => BatchRowExact'
    BY BatchRowStep
<1> QED BY <1>1, <1>2, TypeCorrect, PTL DEF Spec

-----------------------------------------------------------------------------
(* The queue implements RequestLifecycle.                                   *)

(* The rows a cancel selected are in the table when it writes. *)
CancelSeesRows ==
    \A p \in Clients : op[p].kind = "cancel" =>
        \A r \in Requests \cap DOMAIN op[p].seen : requests[r].state # "absent"

LEMMA RowsStay ==
    ASSUME TypeOK, CancelSeesRows, [Next]_vars, NEW r \in Requests, requests[r].state # "absent"
    PROVE  requests'[r].state # "absent"
<1>1. RowStep(r)
    BY RowSteps
<1> QED BY <1>1 DEF RowStep, Kept, Submitted, Prepared, Taken, Reported, Reaped, Cancelled, Terminal

(* What one step can do to a client: it starts a cancel of rows that are    *)
(* there, or it is in no cancel, or nothing changes for it.                 *)
LEMMA ClientsStep ==
    ASSUME TypeOK, [Next]_vars, NEW p \in Clients
    PROVE  \/ op'[p] = op[p]
           \/ op'[p].kind # "cancel"
           \/ /\ \A r \in DOMAIN op'[p].seen : requests[r].state # "absent"
              /\ requests' = requests
<1>0. \A w \in Workers : w # p
    BY ProcessesDisjoint
<1>1. ASSUME NEW w \in Workers, WorkerStep(w) PROVE op'[p] = op[p]
    BY <1>0, <1>1 DEF WorkerStep, PrepareRead, PrepareWrite, ClaimRead, RefillRead, ClaimNone,
       ClaimAcquire, ClaimExtend, FinishLost, FinishRead, FinishWrite, RetryRead, RetryWrite,
       WriteNotice, HeartbeatRead, HeartbeatWrite,
       HeartbeatLost, Crash, TypeOK, Procs
<1>2. ASSUME NEW q \in Clients, ClientStep(q), q # p PROVE op'[p] = op[p]
    BY <1>2 DEF ClientStep, CancelRead, CancelWrite, RefreshRead, RefreshWrite, TypeOK, Procs
<1>3. ASSUME ClientStep(p)
      PROVE  \/ op'[p].kind # "cancel"
             \/ /\ \A r \in DOMAIN op'[p].seen : requests[r].state # "absent"
                /\ requests' = requests
    <2>0. \A o : [op EXCEPT ![p] = o][p] = o
        BY DEF TypeOK, Procs
    <2>1. CASE CancelRead(p)
        <3>1. PICK T \in Targets, force \in BOOLEAN :
                /\ \A r \in T : requests[r].state # "absent"
                /\ op' = [op EXCEPT ![p] =
                      [kind |-> "cancel", force |-> force,
                       seen |-> [r \in T |-> [state |-> requests[r].state, cid |-> requests[r].cid]]]]
            BY <2>1 DEF CancelRead
        <3>2. op'[p].seen = [r \in T |-> [state |-> requests[r].state, cid |-> requests[r].cid]]
            BY <2>0, <3>1
        <3> QED BY <2>1, <3>1, <3>2 DEF CancelRead
    <2>2. CASE CancelWrite(p) \/ RefreshWrite(p)
        <3>1. op'[p] = Idle
            BY <2>0, <2>2 DEF CancelWrite, RefreshWrite
        <3> QED BY <3>1 DEF Idle
    <2>3. CASE RefreshRead(p)
        BY <2>0, <2>3 DEF RefreshRead
    <2> QED BY <1>3, <2>1, <2>2, <2>3 DEF ClientStep
<1>4. CASE Reap \/ Tick \/ (\E b \in Batches : Submit(b)) \/ UNCHANGED vars
    BY <1>4 DEF Reap, Tick, Submit, vars
<1> QED BY <1>1, <1>2, <1>3, <1>4 DEF Next

LEMMA CancelSeesRowsStep ==
    ASSUME TypeOK, CancelSeesRows, [Next]_vars
    PROVE  CancelSeesRows'
<1> SUFFICES ASSUME NEW p \in Clients, op'[p].kind = "cancel",
                    NEW r \in Requests, r \in DOMAIN op'[p].seen
             PROVE  requests'[r].state # "absent"
    BY DEF CancelSeesRows
<1>1. CASE op'[p] = op[p]
    BY <1>1, RowsStay DEF CancelSeesRows
<1>2. CASE requests' = requests /\ \A q \in DOMAIN op'[p].seen : requests[q].state # "absent"
    BY <1>2
<1> QED BY <1>1, <1>2, ClientsStep

-----------------------------------------------------------------------------
(* Each kind of row step is a step of the row's life. *)
LifeStep(r) ==
    \/ LifecycleRow'[r] = LifecycleRow[r]
    \/ Lifecycle!Enter(r) \/ Lifecycle!StartAttempt(r)
    \/ Lifecycle!EndAttempt(r) \/ Lifecycle!CancelRow(r)

LEMMA LifeSteps ==
    ASSUME TypeOK, TypeOK', BudgetInv, CancelSeesRows, [Next]_vars, NEW r \in Requests
    PROVE  LifeStep(r)
<1> DEFINE s == requests[r]
           t == requests'[r]
           Waits(x) == IF x \in {"queued", "ready"} THEN "waiting" ELSE x
<1>1. /\ LifecycleRow[r] = [state |-> Waits(s.state), attempts |-> s.attempts]
      /\ LifecycleRow'[r] = [state |-> Waits(t.state), attempts |-> t.attempts]
    BY DEF LifecycleRow
<1>2. /\ s.attempts \in Nat /\ s.state \in States
      /\ MaxAttempts \in Nat
      /\ MaxTransportAttempts <= MaxAttempts /\ MaxLeaseAttempts <= MaxAttempts
    BY RowFields, BoundsType DEF MaxAttempts
<1>3. CASE Kept(r)
    BY <1>1, <1>3 DEF Kept, KeptAttempts, LifeStep
<1>4. CASE Submitted(r)
    <2>1. Lifecycle!Enter(r)
        <3>1. s.attempts \in Nat /\ Waits(s.state) = "absent" /\ Waits(t.state) = "waiting"
              /\ t.attempts = 0
            BY <1>2, <1>4 DEF Submitted
        <3> HIDE DEF Waits
        <3> QED BY <1>1, <3>1 DEF Lifecycle!Enter
    <2> QED BY <2>1 DEF LifeStep
<1>5. CASE Prepared(r)
    BY <1>1, <1>5 DEF Prepared, KeptAttempts, LifeStep
<1>6. CASE Taken(r)
    <2>1. s.attempts < MaxAttempts
        BY <1>6 DEF Taken, BudgetInv, AttemptBudget
    <2>2. Waits(s.state) = "waiting" /\ Waits(t.state) = "running" /\ t.attempts = s.attempts + 1
        BY <1>6 DEF Taken
    <2>3. Lifecycle!StartAttempt(r)
        <3> HIDE DEF Waits
        <3> QED BY <1>1, <2>1, <2>2 DEF Lifecycle!StartAttempt
    <2> QED BY <2>3 DEF LifeStep
<1>7. CASE Reported(r) \/ Reaped(r)
    <2>1. s.state = "running" /\ t.attempts = s.attempts
        BY <1>7 DEF Reported, Reaped, Holds, KeptAttempts
    <2>2. t.state \in Terminal \/ (t.state = "queued" /\ s.attempts < MaxAttempts)
        <3>1. CASE Reported(r)
            <4>1. PICK w \in Workers :
                    /\ Holds(r, op[w].claim.n)
                    /\ \/ t.state \in Terminal
                       \/ op[w].kind = "retry" /\ op[w].final = "queued" /\ t.state = "queued"
                BY <3>1 DEF Reported
            <4>2. op[w].kind = "retry" /\ op[w].final = "queued" => s.attempts < MaxTransportAttempts
                BY <4>1 DEF Holds, BudgetInv, RunningLease, RetryWithinBudget
            <4> QED BY <1>2, <4>1, <4>2, BoundsType
        <3>2. CASE Reaped(r)
            BY <1>2, <3>2, BoundsType DEF Reaped, Terminal
        <3> QED BY <1>7, <3>1, <3>2
    <2>3. /\ Waits(s.state) = "running"
          /\ Waits(t.state) \in Lifecycle!Settled \cup {"waiting"}
          /\ Waits(t.state) = "waiting" => s.attempts < MaxAttempts
        BY <2>1, <2>2 DEF Terminal, Lifecycle!Settled
    <2>4. Lifecycle!EndAttempt(r)
        <3> HIDE DEF Waits
        <3> QED BY <1>1, <2>1, <2>3 DEF Lifecycle!EndAttempt
    <2> QED BY <2>4 DEF LifeStep
<1>8. CASE Cancelled(r)
    <2>1. s.state # "absent"
        BY <1>8 DEF Cancelled, CancelSeesRows
    <2>2. Waits(s.state) # "absent" /\ Waits(t.state) = "cancelled" /\ t.attempts = s.attempts
        BY <1>8, <2>1 DEF Cancelled, KeptAttempts
    <2>3. Lifecycle!CancelRow(r)
        <3> HIDE DEF Waits
        <3> QED BY <1>1, <2>2 DEF Lifecycle!CancelRow
    <2> QED BY <2>3 DEF LifeStep
<1> QED BY <1>3, <1>4, <1>5, <1>6, <1>7, <1>8, RowSteps DEF RowStep

LifecycleTyped == LifecycleRow \in [Requests -> Lifecycle!RowType]

LEMMA LifecycleRowType == TypeOK => LifecycleTyped
<1> SUFFICES ASSUME TypeOK, NEW r \in Requests
             PROVE  [state |-> IF requests[r].state \in {"queued", "ready"} THEN "waiting"
                               ELSE requests[r].state,
                     attempts |-> requests[r].attempts] \in Lifecycle!RowType
    BY DEF LifecycleTyped, LifecycleRow
<1>1. requests[r].state \in States /\ requests[r].attempts \in Nat
    BY RowFields
<1> QED BY <1>1 DEF States, Terminal, Lifecycle!RowType, Lifecycle!Settled

(* The queue implements RequestLifecycle: every row lives the life that     *)
(* module allows, whichever stale reads the transactions of submit, prepare,*)
(* claim, finish, retry, reap and cancel act on.                            *)
THEOREM QueueImplementsLifecycle == Spec => ImplementsLifecycle
<1>1. Init => Lifecycle!Init
    BY DEF Init, AbsentRow, Lifecycle!Init, LifecycleRow
<1>2. Init => BudgetInv /\ CancelSeesRows
    BY BudgetInvInit DEF Init, CancelSeesRows, Idle, Procs
<1>3. TypeOK /\ TypeOK' /\ BudgetInv /\ CancelSeesRows /\ [Next]_vars
        => BudgetInv' /\ CancelSeesRows'
    BY BudgetInvStep, CancelSeesRowsStep
<1>4. TypeOK /\ TypeOK' /\ LifecycleTyped' /\ BudgetInv /\ CancelSeesRows /\ [Next]_vars
        => [Lifecycle!Next]_LifecycleRow
    <2> SUFFICES ASSUME TypeOK, TypeOK', LifecycleTyped', BudgetInv, CancelSeesRows, [Next]_vars
                 PROVE  Lifecycle!Next
        OBVIOUS
    <2>1. LifecycleRow' \in [Requests -> Lifecycle!RowType]
        BY DEF LifecycleTyped, Lifecycle!RowType, Lifecycle!Settled
    <2>2. \A r \in Requests : LifeStep(r)
        BY LifeSteps
    <2> QED BY <2>1, <2>2 DEF Lifecycle!Next, LifeStep
<1> QED BY <1>1, <1>2, <1>3, <1>4, LifecycleRowType, TypeCorrect,
         PTL DEF Spec, ImplementsLifecycle, Lifecycle!Spec

-----------------------------------------------------------------------------
(* What relates the tables of the queue to each other: notices to rows,    *)
(* compute leases to running rows, reserved KV to prepared rows, prepared  *)
(* rows to the depth of their node, KV entries to the capacity of a pool.  *)
(* The first three hold as long as no client cancels and live workers      *)
(* heartbeat in time: a cancel or a late worker settles rows under those   *)
(* that still work on them. A forced cancel releases the compute lease of  *)
(* a refill in progress; v_kv_shared shows what becomes of shared KV.      *)

(* The row of every claim is running under that claim, unexpired.           *)
ClaimsHeld ==
    \A w \in Workers : \A c \in claims[w] : Holds(c.r, c.n) /\ requests[c.r].ttl > 0

HeldInv == ClaimInv /\ ClaimsHeld

LEMMA HeldInvStep ==
    ASSUME OnTime, Clients = {}, TypeOK, TypeOK', HeldInv, [Next]_vars
    PROVE  HeldInv'
<1>1. ClaimInv'
    BY ClaimInvStep DEF HeldInv
<1>2. ASSUME NEW w \in Workers, NEW c \in claims'[w]
      PROVE  requests'[c.r].state \notin Terminal
    <2>1. CASE c \in NewClaims(w)
        BY <2>1, ClaimSteps DEF TookClaim, Terminal
    <2>2. CASE c \in claims[w]
        <3>1. c.r \in Requests /\ Holds(c.r, c.n) /\ requests[c.r].ttl > 0
            BY <2>2, ClaimFields DEF TypeOK, HeldInv, ClaimsHeld
        <3>2. Kept(c.r) \/ Reported(c.r)
            BY <3>1, RowSteps DEF RowStep, Submitted, Prepared, Taken, Reaped, Cancelled, Holds
        <3>3. CASE Kept(c.r)
            BY <3>1, <3>3 DEF Kept, Holds, Terminal
        <3>4. CASE Reported(c.r)
            <4>1. PICK v \in Workers :
                    /\ op[v].kind \in {"finish", "retry"} /\ op[v].claim.r = c.r
                    /\ claims'[v] = claims[v] \ {op[v].claim}
                BY <3>4 DEF Reported
            <4>2. v = w /\ op[v].claim = c
                BY <2>2, <4>1 DEF HeldInv, ClaimInv, ReportsOwnClaim, ExclusiveExecution
            <4> QED BY <1>2, <4>1, <4>2
        <3> QED BY <3>2, <3>3, <3>4
    <2> QED BY <1>2, <2>1, <2>2 DEF NewClaims
<1>3. ClaimsHeld'
    BY <1>1, <1>2 DEF ClaimInv, ClaimsLive, ClaimsHeld
<1> QED BY <1>1, <1>3 DEF HeldInv

LEMMA HeldInvariant ==
    ASSUME OnTime, Clients = {}
    PROVE  Spec => []HeldInv
<1>1. Init => HeldInv
    <2>1. Init => ClaimsLive /\ ExclusiveExecution /\ ClaimsHeld
        BY DEF Init, ClaimsLive, ExclusiveExecution, ClaimsHeld
    <2> QED BY <2>1, ReportsInit DEF ClaimInv, HeldInv
<1>2. TypeOK /\ TypeOK' /\ HeldInv /\ [Next]_vars => HeldInv'
    BY HeldInvStep
<1> QED BY <1>1, <1>2, TypeCorrect, PTL DEF Spec

(* A settled row stays as it is when nobody cancels.                        *)
LEMMA SettledStays ==
    ASSUME Clients = {}, TypeOK, [Next]_vars, NEW r \in Requests, requests[r].state \in Terminal
    PROVE  requests'[r].state = requests[r].state
BY RowSteps DEF RowStep, Kept, Submitted, Prepared, Taken, Reported, Reaped, Cancelled, Holds, Terminal

-----------------------------------------------------------------------------
(* Notices.                                                                 *)

(* A handler that is about to write a notice has settled the row that way.  *)
NoticePending ==
    \A w \in Workers : op[w].kind = "notice" => requests[op[w].r].state = op[w].final
NoticeInv == NoticePending /\ NoticeTruthful

(* A step leaves a notice as it was or makes it say what the row now is.    *)
LEMMA NoticeSteps ==
    ASSUME Clients = {}, TypeOK, HeldInv, NoticeInv, [Next]_vars, NEW r \in Requests
    PROVE  notices'[r] \in {notices[r], requests'[r].state}
<1>1. ASSUME NEW w \in Workers, WriteNotice(w) PROVE notices'[r] \in {notices[r], requests'[r].state}
    BY <1>1 DEF WriteNotice, NoticeInv, NoticePending, TypeOK
<1>2. ASSUME NEW w \in Workers, RetryWrite(w) PROVE notices'[r] \in {notices[r], requests'[r].state}
    <2> DEFINE c == op[w].claim
    <2>1. c \in claims[w] /\ Holds(c.r, c.n) /\ c.r \in Requests
        BY <1>2, ClaimFields DEF RetryWrite, HeldInv, ClaimInv, ReportsOwnClaim, ClaimsHeld, TypeOK
    <2>2. CASE op[w].final = "cancelled"
        <3>1. requests' = [requests EXCEPT ![c.r] = SettledRow(c.r, "cancelled")]
            BY <1>2, <2>1, <2>2 DEF RetryWrite
        <3>2. notices' = [notices EXCEPT ![c.r] = "cancelled"]
            BY <1>2, <2>2 DEF RetryWrite, RetryNotice
        <3>3. SettledRow(c.r, "cancelled").state = "cancelled"
            BY <2>1, RowEffects DEF Terminal
        <3> QED BY <2>1, <3>1, <3>2, <3>3 DEF TypeOK
    <2>3. CASE op[w].final # "cancelled"
        BY <1>2, <2>3 DEF RetryWrite, RetryNotice
    <2> QED BY <2>2, <2>3
<1>3. CASE Reap
    <2>1. \A s \in Terminal : SettledRow(r, s).state = s
        BY RowEffects
    <2> QED BY <1>3, <2>1 DEF Reap, Terminal
<1>4. ASSUME UNCHANGED notices PROVE notices'[r] \in {notices[r], requests'[r].state}
    BY <1>4
<1>5. \/ \E w \in Workers : WriteNotice(w) \/ RetryWrite(w)
      \/ Reap
      \/ UNCHANGED notices
    BY DEF Next, WorkerStep, Submit, PrepareRead, PrepareWrite, ClaimRead, RefillRead, ClaimNone,
       ClaimAcquire, ClaimExtend, FinishLost, FinishRead, FinishWrite, RetryRead,
       HeartbeatRead, HeartbeatWrite, HeartbeatLost, Crash, Tick, vars
<1> QED BY <1>1, <1>2, <1>3, <1>4, <1>5

(* A handler that has a notice left to write had it before, or has just     *)
(* settled the row.                                                         *)
LEMMA PendingSteps ==
    ASSUME Clients = {}, TypeOK, HeldInv, [Next]_vars, NEW w \in Workers, op'[w].kind = "notice"
    PROVE  op'[w] = op[w] \/ requests'[op'[w].r].state = op'[w].final
<1> DEFINE c == op[w].claim
<1>0. \A o : [op EXCEPT ![w] = o][w] = o
    BY DEF TypeOK, Procs
<1>1. CASE FinishWrite(w)
    <2>1. c \in claims[w] /\ Holds(c.r, c.n) /\ c.r \in Requests /\ op[w].final \in Terminal
        BY <1>1, ClaimFields, OpFields
           DEF FinishWrite, HeldInv, ClaimInv, ReportsOwnClaim, ClaimsHeld, TypeOK, Procs
    <2>2. requests'[c.r] = SettledRow(c.r, op[w].final)
        BY <1>1, <2>1 DEF FinishWrite, TypeOK
    <2>3. op'[w].r = c.r /\ op'[w].final = op[w].final
        BY <1>0, <1>1 DEF FinishWrite
    <2> QED BY <2>1, <2>2, <2>3, RowEffects
<1>2. CASE RetryWrite(w)
    <2>1. c \in claims[w] /\ Holds(c.r, c.n) /\ c.r \in Requests
        BY <1>2, ClaimFields DEF RetryWrite, HeldInv, ClaimInv, ReportsOwnClaim, ClaimsHeld, TypeOK
    <2>2. op[w].final = "failed" /\ op'[w].r = c.r /\ op'[w].final = "failed"
        BY <1>0, <1>2 DEF RetryWrite, Idle
    <2>3. requests'[c.r] = SettledRow(c.r, "failed")
        BY <1>2, <2>1, <2>2 DEF RetryWrite, TypeOK
    <2> QED BY <2>1, <2>2, <2>3, RowEffects DEF Terminal
<1>3. CASE ~(FinishWrite(w) \/ RetryWrite(w))
    <2>1. ASSUME NEW v \in Workers, v # w, WorkerStep(v) PROVE op'[w] = op[w]
        BY <2>1 DEF WorkerStep, PrepareRead, PrepareWrite, ClaimRead, RefillRead, ClaimNone,
           ClaimAcquire, ClaimExtend, FinishLost, FinishRead, FinishWrite, RetryRead, RetryWrite,
           WriteNotice, HeartbeatRead, HeartbeatWrite,
       HeartbeatLost, Crash, TypeOK, Procs
    <2>2. CASE WorkerStep(w)
        <3>1. CASE \/ PrepareRead(w) \/ ClaimRead(w) \/ RefillRead(w) \/ FinishRead(w) \/ RetryRead(w)
                   \/ HeartbeatRead(w)
            <4>1. op'[w].kind \in {"prepare", "claim", "finish", "retry", "heartbeat"}
                BY <1>0, <3>1 DEF PrepareRead, ClaimRead, RefillRead, FinishRead, RetryRead,
                   HeartbeatRead, ClaimOp
            <4> QED BY <4>1
        <3>2. CASE \/ PrepareWrite(w) \/ ClaimNone(w) \/ ClaimAcquire(w) \/ ClaimExtend(w)
                   \/ WriteNotice(w) \/ HeartbeatWrite(w) \/ Crash(w)
            <4>1. op'[w] = Idle
                BY <1>0, <3>2 DEF PrepareWrite, ClaimNone, ClaimAcquire, ClaimExtend, WriteNotice,
                   HeartbeatWrite, Crash
            <4> QED BY <4>1 DEF Idle
        <3>3. CASE FinishLost(w) \/ HeartbeatLost(w)
            BY <3>3 DEF FinishLost, HeartbeatLost
        <3> QED BY <1>3, <2>2, <3>1, <3>2, <3>3 DEF WorkerStep
    <2>3. CASE Reap \/ Tick \/ (\E b \in Batches : Submit(b)) \/ UNCHANGED vars
        BY <2>3 DEF Reap, Tick, Submit, vars
    <2> QED BY <2>1, <2>2, <2>3 DEF Next
<1> QED BY <1>1, <1>2, <1>3

LEMMA NoticeInvStep ==
    ASSUME Clients = {}, TypeOK, TypeOK', HeldInv, NoticeInv, [Next]_vars
    PROVE  NoticeInv'
<1>1. NoticePending'
    <2> SUFFICES ASSUME NEW w \in Workers, op'[w].kind = "notice"
                 PROVE  requests'[op'[w].r].state = op'[w].final
        BY DEF NoticePending
    <2>1. CASE op'[w] = op[w]
        <3>1. op[w].kind = "notice" /\ op[w].r \in Requests /\ op[w].final \in Terminal
            BY <2>1, OpFields DEF Procs
        <3>2. requests[op[w].r].state = op[w].final
            BY <3>1 DEF NoticeInv, NoticePending
        <3> QED BY <2>1, <3>1, <3>2, SettledStays
    <2> QED BY <2>1, PendingSteps
<1>2. NoticeTruthful'
    <2> SUFFICES ASSUME NEW r \in Requests, notices'[r] # None PROVE requests'[r].state = notices'[r]
        BY DEF NoticeTruthful
    <2>1. CASE notices'[r] = notices[r]
        <3>1. requests[r].state = notices[r] /\ notices[r] \in Terminal
            BY <2>1 DEF NoticeInv, NoticeTruthful, TypeOK, OrNone
        <3> QED BY <2>1, <3>1, SettledStays
    <2> QED BY <2>1, NoticeSteps
<1> QED BY <1>1, <1>2 DEF NoticeInv

(* A completion notice reports the state its request is in, also while the  *)
(* file is written after the commit (finish_request, _write_notice) and     *)
(* after a retry, a crash or an expired lease: nobody changes a row that a  *)
(* notice has been or is about to be written for.                           *)
THEOREM NoticesTruthful ==
    ASSUME OnTime, Clients = {}
    PROVE  Spec => []NoticeTruthful
<1>1. Init => NoticeInv
    BY DEF Init, NoticeInv, NoticePending, NoticeTruthful, Idle, Procs
<1>2. TypeOK /\ TypeOK' /\ HeldInv /\ NoticeInv /\ [Next]_vars => NoticeInv'
    BY NoticeInvStep
<1>3. NoticeInv => NoticeTruthful
    BY DEF NoticeInv
<1> QED BY <1>1, <1>2, <1>3, TypeCorrect, HeldInvariant, PTL DEF Spec

-----------------------------------------------------------------------------
(* Compute domains.                                                         *)

(* Compute lease ids are issued once, so a domain's lease is the only one   *)
(* with its id.                                                             *)
IdsIssued ==
    \A d \in Domains : compute_leases[d] # None =>
        compute_leases[d].id[2] <= requests[compute_leases[d].id[1]].attempts
IdsApart ==
    \A d, e \in Domains :
        /\ compute_leases[d] # None /\ compute_leases[e] # None
        /\ compute_leases[d].id = compute_leases[e].id
        => d = e

(* A compute lease runs out no earlier than the leases of the rows that run *)
(* under it, and the unexpired rows of a domain run under its lease, for    *)
(* the service it was given to.                                             *)
LeaseOutlasts ==
    \A d \in Domains : \A r \in Requests :
        /\ compute_leases[d] # None
        /\ requests[r].state = "running" /\ requests[r].cid = compute_leases[d].id
        => requests[r].ttl <= compute_leases[d].ttl
LeasedFor(d, id, svc) ==
    compute_leases[d] # None /\ compute_leases[d].id = id /\ compute_leases[d].service = svc
ActiveLeased == \A d \in Domains : \A r \in ActiveIn(d) : LeasedFor(d, requests[r].cid, Req[r].service)

(* What a claim has selected still goes together when it writes: a row may  *)
(* have lost its placement to a requeue, no more; and the compute lease a   *)
(* refill extends stands, held up by a claim of the same worker.            *)
ClaimCid == \A w \in Workers : \A c \in claims[w] : requests[c.r].cid = c.cid
ClaimScope ==
    \A w \in Workers : op[w].kind = "claim" =>
        /\ \A r \in op[w].rows :
              /\ requests[r].state # "absent" /\ Req[r].service = op[w].service
              /\ requests[r].domain \in {op[w].domain, None}
        /\ op[w].mode = "none" => op[w].domain = None
ExtendStands ==
    \A w \in Workers : op[w].kind = "claim" /\ op[w].mode = "extend" =>
        /\ op[w].domain # None
        /\ LeasedFor(op[w].domain, op[w].cid, op[w].service)
        /\ \E c \in claims[w] : c.cid = op[w].cid

TableInv == IdsIssued /\ IdsApart /\ LeaseOutlasts /\ ActiveLeased
WorkInv == ClaimCid /\ ClaimScope /\ ExtendStands
DomainInv == TableInv /\ WorkInv

(* The lease a worker finds under its own name is its own: a refill extends *)
(* no other, the rows of a claim that finds it there are still to be had,   *)
(* so that the claim does not end up empty and delete it, and a heartbeat   *)
(* extends the leases of all the claims the worker still has.               *)
NamesApart == \A v, w \in Workers : W[v].by = W[w].by => v = w
ExtendsOwn ==
    \A w \in Workers : op[w].kind = "claim" /\ op[w].mode = "extend" =>
        compute_leases[op[w].domain].by = W[w].by
FindsRows(w, d) ==
    compute_leases[d] # None /\ compute_leases[d].by = W[w].by =>
        \A r \in op[w].rows : requests[r].state = "ready" /\ requests[r].domain = d
SelectedReady ==
    \A w \in Workers : op[w].kind = "claim" /\ op[w].mode = "acquire" =>
        op[w].rows # {} /\ FindsRows(w, op[w].domain)
BeatSees ==
    \A w \in Workers : op[w].kind = "heartbeat" => \A c \in claims[w] : c.cid \in op[w].cids
OwnInv == ExtendsOwn /\ SelectedReady /\ BeatSees

(* A step that starts no row and extends no lease: what runs ran before, a  *)
(* compute lease goes only when nothing runs under it, and a worker that    *)
(* claims keeps its other claims.                                           *)
QuietRow(r) ==
    /\ requests'[r].state = "running" =>
          /\ requests[r].state = "running" /\ requests'[r].domain = requests[r].domain
          /\ requests'[r].cid = requests[r].cid /\ requests'[r].ttl = requests[r].ttl
    /\ requests[r].state # "absent" =>
          requests'[r].state # "absent" /\ requests'[r].domain \in {requests[r].domain, None}
QuietLease(d) ==
    \/ compute_leases'[d] = compute_leases[d]
    \/ /\ compute_leases'[d] = None
       /\ \A r \in Requests : ~(requests'[r].state = "running"
                                /\ requests'[r].cid = compute_leases[d].id)
QuietWork(w) ==
    /\ claims'[w] \subseteq claims[w]
    /\ op'[w].kind = "claim" => op'[w] = op[w] /\ claims'[w] = claims[w]
Quiet ==
    /\ \A r \in Requests : QuietRow(r)
    /\ \A d \in Domains : QuietLease(d)
    /\ \A w \in Workers : QuietWork(w)

(* The transactions that release a lease look at the rows they leave. *)
LEMMA ReleasedQuiet ==
    ASSUME NEW leases, NEW ids, NEW d \in Domains,
           \/ leases[d] = compute_leases[d]
           \/ /\ leases[d] = None
              /\ \A r \in Requests : ~(requests'[r].state = "running"
                                       /\ requests'[r].cid = compute_leases[d].id),
           compute_leases' = Released(requests', leases, ids)
    PROVE  QuietLease(d)
BY DEF Released, QuietLease

LEMMA QuietOthers ==
    ASSUME TypeOK, NEW w \in Workers, WorkerStep(w), NEW v \in Workers, v # w
    PROVE  op'[v] = op[v] /\ claims'[v] = claims[v]
<1>1. op'[v] = op[v]
    BY DEF WorkerStep, PrepareRead, PrepareWrite, ClaimRead, RefillRead, ClaimNone,
       ClaimAcquire, ClaimExtend, FinishLost, FinishRead, FinishWrite, RetryRead, RetryWrite,
       WriteNotice, HeartbeatRead, HeartbeatWrite,
       HeartbeatLost, Crash, TypeOK, Procs
<1>2. claims'[v] = claims[v]
    BY DEF WorkerStep, PrepareRead, PrepareWrite, ClaimRead, RefillRead, ClaimNone,
       ClaimAcquire, ClaimExtend, FinishLost, FinishRead, FinishWrite, RetryRead, RetryWrite,
       WriteNotice, HeartbeatRead, HeartbeatWrite,
       HeartbeatLost, Crash, Take, TypeOK
<1> QED BY <1>1, <1>2

(* A worker is in the handler it was in, in one it has just entered, or in  *)
(* none that has selected rows.                                             *)
Enters(w) == PrepareRead(w) \/ ClaimRead(w) \/ RefillRead(w) \/ HeartbeatRead(w)

LEMMA OpKinds ==
    ASSUME TypeOK, [Next]_vars, NEW w \in Workers
    PROVE  op'[w] = op[w] \/ Enters(w) \/ op'[w].kind \in {"idle", "finish", "retry", "notice"}
<1>1. ASSUME NEW v \in Workers, WorkerStep(v), v # w PROVE op'[w] = op[w]
    BY <1>1, QuietOthers
<1>2. ASSUME WorkerStep(w), ~Enters(w)
      PROVE  op'[w] = op[w] \/ op'[w].kind \in {"idle", "finish", "retry", "notice"}
    <2>0. \A o : [op EXCEPT ![w] = o][w] = o
        BY DEF TypeOK, Procs
    <2>1. CASE FinishRead(w) \/ RetryRead(w)
        <3>1. op'[w].kind \in {"finish", "retry"}
            BY <2>0, <2>1 DEF FinishRead, RetryRead
        <3> QED BY <3>1
    <2>2. CASE \/ PrepareWrite(w) \/ ClaimNone(w) \/ ClaimAcquire(w) \/ ClaimExtend(w)
               \/ WriteNotice(w) \/ HeartbeatWrite(w) \/ Crash(w)
        <3>1. op' = [op EXCEPT ![w] = Idle]
            BY <2>2 DEF PrepareWrite, ClaimNone, ClaimAcquire, ClaimExtend, WriteNotice,
               HeartbeatWrite, Crash
        <3> QED BY <2>0, <3>1 DEF Idle
    <2>3. CASE FinishLost(w) \/ HeartbeatLost(w)
        BY <2>3 DEF FinishLost, HeartbeatLost
    <2>4. CASE FinishWrite(w)
        BY <2>0, <2>4 DEF FinishWrite
    <2>5. CASE RetryWrite(w)
        BY <2>0, <2>5 DEF RetryWrite, Idle
    <2> QED BY <1>2, <2>1, <2>2, <2>3, <2>4, <2>5 DEF WorkerStep, Enters
<1>3. ASSUME NEW p \in Clients, ClientStep(p) PROVE op'[w] = op[w]
    <2>1. p # w
        BY ProcessesDisjoint
    <2> QED BY <1>3, <2>1
            DEF ClientStep, CancelRead, CancelWrite, RefreshRead, RefreshWrite, TypeOK, Procs
<1>4. CASE Reap \/ Tick \/ (\E b \in Batches : Submit(b)) \/ UNCHANGED vars
    BY <1>4 DEF Reap, Tick, Submit, vars
<1> QED BY <1>1, <1>2, <1>3, <1>4 DEF Next

LEMMA RowsQuiet ==
    ASSUME TypeOK, NEW r \in Requests
    PROVE  /\ requests'[r] = requests[r] => QuietRow(r)
           /\ requests[r].state = "absent" /\ requests'[r].state # "running" => QuietRow(r)
           /\ requests'[r] = RequeuedRow(r) => QuietRow(r)
           /\ \A s \in Terminal : requests'[r] = SettledRow(r, s) => QuietRow(r)
<1>1. requests[r] \in Row
    BY RowFields
<1>2. requests'[r] = RequeuedRow(r) => QuietRow(r)
    BY <1>1 DEF RequeuedRow, Row, QuietRow
<1>3. ASSUME NEW s \in Terminal, requests'[r] = SettledRow(r, s) PROVE QuietRow(r)
    BY <1>1, <1>3 DEF SettledRow, Row, QuietRow, Terminal
<1> QED BY <1>2, <1>3 DEF QuietRow

LEMMA QuietSteps ==
    ASSUME TypeOK,
           \/ \E b \in Batches : Submit(b)
           \/ \E w \in Workers :
                \/ PrepareRead(w) \/ PrepareWrite(w) \/ FinishLost(w) \/ FinishRead(w)
                \/ FinishWrite(w) \/ RetryRead(w) \/ RetryWrite(w) \/ WriteNotice(w)
                \/ HeartbeatRead(w) \/ HeartbeatLost(w) \/ Crash(w)
           \/ Reap \/ UNCHANGED vars
    PROVE  Quiet
<1>0. \A d \in Domains : compute_leases' = compute_leases => QuietLease(d)
    BY DEF QuietLease
<1>1. ASSUME NEW b \in Batches, Submit(b) PROVE Quiet
    <2>1. ASSUME NEW r \in Requests PROVE QuietRow(r)
        BY <1>1, SubmitEffects, RowsQuiet
    <2> QED BY <1>0, <1>1, <2>1 DEF Submit, Quiet, QuietWork
<1>2. ASSUME NEW w \in Workers,
             \/ PrepareRead(w) \/ PrepareWrite(w) \/ FinishLost(w) \/ FinishRead(w)
             \/ FinishWrite(w) \/ RetryRead(w) \/ RetryWrite(w) \/ WriteNotice(w)
             \/ HeartbeatRead(w) \/ HeartbeatLost(w) \/ Crash(w)
      PROVE  Quiet
    <2>1. ASSUME NEW v \in Workers PROVE QuietWork(v)
        <3>1. CASE v # w
            BY <1>2, <3>1, QuietOthers DEF WorkerStep, QuietWork
        <3>2. CASE v = w
            <4>1. \A o : [op EXCEPT ![w] = o][w] = o
                BY DEF TypeOK, Procs
            <4>2. op'[w].kind # "claim"
                <5>1. CASE \/ PrepareRead(w) \/ FinishRead(w) \/ RetryRead(w) \/ FinishWrite(w)
                              \/ HeartbeatRead(w)
                    <6>1. CASE PrepareRead(w)
                        BY <4>1, <6>1 DEF PrepareRead
                    <6>2. CASE FinishRead(w) \/ FinishWrite(w)
                        BY <4>1, <6>2 DEF FinishRead, FinishWrite
                    <6>3. CASE RetryRead(w) \/ HeartbeatRead(w)
                        BY <4>1, <6>3 DEF RetryRead, HeartbeatRead
                    <6> QED BY <5>1, <6>1, <6>2, <6>3
                <5>2. CASE RetryWrite(w)
                    BY <4>1, <5>2 DEF RetryWrite, Idle
                <5>3. CASE PrepareWrite(w) \/ WriteNotice(w) \/ Crash(w)
                    <6>1. op' = [op EXCEPT ![w] = Idle]
                        BY <5>3 DEF PrepareWrite, WriteNotice, Crash
                    <6> QED BY <4>1, <6>1 DEF Idle
                <5>4. CASE FinishLost(w) \/ HeartbeatLost(w)
                    BY <5>4 DEF FinishLost, HeartbeatLost, Idle
                <5> QED BY <1>2, <5>1, <5>2, <5>3, <5>4
            <4>3. claims'[w] \subseteq claims[w]
                BY <1>2, AttemptsKept DEF Unclaiming
            <4> QED BY <3>2, <4>2, <4>3 DEF QuietWork
        <3> QED BY <3>1, <3>2
    <2>2. CASE UNCHANGED <<requests, compute_leases>>
        BY <1>0, <2>1, <2>2, RowsQuiet DEF Quiet
    <2>3. CASE PrepareWrite(w)
        <3>1. op[w].r \in Requests
            BY <2>3, OpFields DEF PrepareWrite, Procs
        <3>2. ASSUME NEW r \in Requests PROVE QuietRow(r)
            <4>1. CASE requests' = requests
                BY <4>1, RowsQuiet
            <4>2. CASE requests' = [requests EXCEPT
                        ![op[w].r].state = "ready", ![op[w].r].lease = 0, ![op[w].r].ttl = 0,
                        ![op[w].r].node = IF @ # None THEN @ ELSE op[w].node]
                <5>1. requests[r] \in Row
                    BY RowFields
                <5>2. CASE r # op[w].r
                    BY <3>1, <4>2, <5>2, RowsQuiet DEF TypeOK
                <5>3. CASE r = op[w].r
                    <6>1. requests'[r].state = "ready" /\ requests'[r].domain = requests[r].domain
                        BY <3>1, <4>2, <5>1, <5>3 DEF TypeOK, Row
                    <6> QED BY <6>1 DEF QuietRow
                <5> QED BY <5>2, <5>3
            <4> QED BY <2>3, <4>1, <4>2 DEF PrepareWrite
        <3> QED BY <1>0, <2>1, <2>3, <3>2 DEF Quiet, PrepareWrite
    <2>4. CASE FinishWrite(w) \/ RetryWrite(w)
        <3> DEFINE c == op[w].claim
        <3>1. c.r \in Requests
            BY <2>4, OpFields, ClaimFields DEF FinishWrite, RetryWrite, Procs
        <3>2. \/ requests' = requests
              \/ requests' = [requests EXCEPT ![c.r] = RequeuedRow(c.r)]
              \/ \E s \in Terminal : requests' = [requests EXCEPT ![c.r] = SettledRow(c.r, s)]
            <4>1. CASE FinishWrite(w)
                BY <4>1, OpFields DEF FinishWrite, Procs
            <4>2. CASE RetryWrite(w)
                BY <4>2, OpFields DEF RetryWrite, Procs, Terminal
            <4> QED BY <2>4, <4>1, <4>2
        <3>3. ASSUME NEW r \in Requests PROVE QuietRow(r)
            <4>1. \/ requests'[r] = requests[r]
                  \/ requests'[r] = RequeuedRow(r)
                  \/ \E s \in Terminal : requests'[r] = SettledRow(r, s)
                BY <3>1, <3>2 DEF TypeOK
            <4> QED BY <4>1, RowsQuiet
        <3>4. \A d \in Domains : QuietLease(d)
            BY <2>4, ReleasedQuiet DEF FinishWrite, RetryWrite
        <3> QED BY <2>1, <3>3, <3>4 DEF Quiet
    <2> QED BY <1>2, <2>2, <2>3, <2>4
            DEF PrepareRead, FinishLost, FinishRead, RetryRead, WriteNotice, HeartbeatRead,
               HeartbeatLost, Crash
<1>3. CASE Reap
    <2>1. ASSUME NEW r \in Requests PROVE QuietRow(r)
        <3>1. \/ requests'[r] = requests[r]
              \/ requests'[r] = RequeuedRow(r)
              \/ requests'[r] = SettledRow(r, "failed")
            BY <1>3 DEF Reap
        <3> QED BY <3>1, RowsQuiet DEF Terminal
    <2>2. ASSUME NEW d \in Domains PROVE QuietLease(d)
        <3> DEFINE kept == [e \in Domains |->
                    IF /\ compute_leases[e] # None /\ compute_leases[e].ttl = 0
                       /\ \A r \in Requests : ~(requests[r].state = "running"
                                                /\ requests[r].cid = compute_leases[e].id)
                    THEN None ELSE compute_leases[e]]
        <3>1. compute_leases' = Released(requests', kept, {requests[r].cid : r \in Expired})
            BY <1>3 DEF Reap
        <3>2. \/ kept[d] = compute_leases[d]
              \/ /\ kept[d] = None
                 /\ \A r \in Requests : ~(requests[r].state = "running"
                                          /\ requests[r].cid = compute_leases[d].id)
            OBVIOUS
        <3>3. \/ kept[d] = compute_leases[d]
              \/ /\ kept[d] = None
                 /\ \A r \in Requests : ~(requests'[r].state = "running"
                                          /\ requests'[r].cid = compute_leases[d].id)
            BY <2>1, <3>2 DEF QuietRow
        <3> HIDE DEF kept
        <3> QED BY <3>1, <3>3, ReleasedQuiet
    <2> QED BY <1>3, <2>1, <2>2 DEF Reap, Quiet, QuietWork
<1>4. CASE UNCHANGED vars
    BY <1>0, <1>4, RowsQuiet DEF vars, Quiet, QuietWork
<1> QED BY <1>1, <1>2, <1>3, <1>4


LEMMA DomainQuiet ==
    ASSUME ~Share, TypeOK, LeaseInv, LeaseInv', HeldInv, HeldInv', DomainInv, Quiet, [Next]_vars,
           \A r \in Requests : requests'[r].attempts = requests[r].attempts
    PROVE  DomainInv'
<1> USE DEF DomainInv, TableInv, WorkInv
<1>0. \A d \in Domains : compute_leases'[d] # None => compute_leases'[d] = compute_leases[d]
    BY DEF Quiet, QuietLease
<1>1. IdsIssued'
    <2> SUFFICES ASSUME NEW d \in Domains, compute_leases'[d] # None
                 PROVE  compute_leases'[d].id[2] <= requests'[compute_leases'[d].id[1]].attempts
        BY DEF IdsIssued
    <2>1. compute_leases[d] \in ComputeLease /\ compute_leases'[d] = compute_leases[d]
        BY <1>0 DEF TypeOK, OrNone
    <2>2. compute_leases[d].id[1] \in Requests
        BY <2>1 DEF ComputeLease, LeaseIds
    <2> QED BY <2>1, <2>2 DEF IdsIssued
<1>2. IdsApart'
    BY <1>0 DEF IdsApart
<1>3. LeaseOutlasts'
    BY <1>0 DEF LeaseOutlasts, Quiet, QuietRow
<1>4. ActiveLeased'
    <2> SUFFICES ASSUME NEW d \in Domains, NEW r \in Requests,
                        requests'[r].state = "running", requests'[r].ttl > 0,
                        requests'[r].domain = d
                 PROVE  /\ compute_leases'[d] # None
                        /\ compute_leases'[d].id = requests'[r].cid
                        /\ compute_leases'[d].service = Req[r].service
        BY DEF ActiveLeased, ActiveIn, LeasedFor
    <2>1. r \in ActiveIn(d) /\ requests'[r].cid = requests[r].cid
        BY DEF Quiet, QuietRow, ActiveIn
    <2>2. LeasedFor(d, requests[r].cid, Req[r].service)
        BY <2>1 DEF ActiveLeased
    <2>3. compute_leases'[d] = compute_leases[d]
        BY <2>1, <2>2 DEF Quiet, QuietLease, LeasedFor
    <2> QED BY <2>1, <2>2, <2>3 DEF LeasedFor
<1>5. ClaimCid'
    <2> SUFFICES ASSUME NEW w \in Workers, NEW c \in claims'[w] PROVE requests'[c.r].cid = c.cid
        BY DEF ClaimCid
    <2>1. c \in claims[w] /\ c.r \in Requests
        BY ClaimFields DEF Quiet, QuietWork, TypeOK
    <2>2. requests'[c.r].state = "running"
        BY DEF HeldInv, ClaimsHeld, Holds
    <2> QED BY <2>1, <2>2 DEF ClaimCid, Quiet, QuietRow
<1>6. ClaimScope'
    <2> SUFFICES ASSUME NEW w \in Workers, op'[w].kind = "claim"
                 PROVE  /\ \A r \in op'[w].rows :
                              /\ requests'[r].state # "absent" /\ Req[r].service = op'[w].service
                              /\ requests'[r].domain \in {op'[w].domain, None}
                        /\ op'[w].mode = "none" => op'[w].domain = None
        BY DEF ClaimScope
    <2>1. op'[w] = op[w] /\ op[w].rows \in SUBSET Requests
        BY OpFields DEF Quiet, QuietWork, Procs
    <2> QED BY <2>1 DEF ClaimScope, Quiet, QuietRow
<1>7. ExtendStands'
    <2> SUFFICES ASSUME NEW w \in Workers, op'[w].kind = "claim", op'[w].mode = "extend"
                 PROVE  /\ op'[w].domain # None
                        /\ /\ compute_leases'[op'[w].domain] # None
                           /\ compute_leases'[op'[w].domain].id = op'[w].cid
                           /\ compute_leases'[op'[w].domain].service = op'[w].service
                        /\ \E c \in claims'[w] : c.cid = op'[w].cid
        BY DEF ExtendStands, LeasedFor
    <2>1. op'[w] = op[w] /\ claims'[w] = claims[w]
        BY DEF Quiet, QuietWork
    <2>2. op[w].domain \in Domains /\ LeasedFor(op[w].domain, op[w].cid, op[w].service)
        BY <2>1, OpFields DEF ExtendStands, Procs, OrNone
    <2>3. PICK c \in claims[w] : c.cid = op[w].cid
        BY <2>1 DEF ExtendStands
    <2>4. c.r \in Requests /\ requests'[c.r].state = "running" /\ requests'[c.r].cid = op[w].cid
        <3>1. c.r \in Requests
            BY <2>3, ClaimFields DEF TypeOK
        <3>2. requests'[c.r].state = "running"
            BY <2>1, <2>3 DEF HeldInv, ClaimsHeld, Holds
        <3>3. requests'[c.r].cid = c.cid
            BY <1>5, <2>1, <2>3 DEF ClaimCid
        <3> QED BY <2>3, <3>1, <3>2, <3>3
    <2>5. compute_leases'[op[w].domain] = compute_leases[op[w].domain]
        BY <2>2, <2>4 DEF Quiet, QuietLease, LeasedFor
    <2> QED BY <2>1, <2>2, <2>3, <2>5, NoneIsNull DEF LeasedFor
<1> QED BY <1>1, <1>2, <1>3, <1>4, <1>5, <1>6, <1>7

(* A selection by a claim fits together when it is made. *)
Selects(w, C, r, mode, id) ==
    /\ op' = [op EXCEPT ![w] = ClaimOp(C, requests[r].domain, Req[r].service, mode, id)]
    /\ mode = "none" => requests[r].domain = None
    /\ mode = "extend" =>
          /\ requests[r].domain # None
          /\ \E c \in claims[w] : c.cid = id /\ Extendable(w, id, requests[r].domain, Req[r].service)

(* A selection of rows that go together. *)
Cohort(C, r) ==
    r \in C /\ \A q \in C : /\ requests[q].state = "ready" /\ Req[q].service = Req[r].service
                           /\ requests[q].domain = requests[r].domain
Chooses(w, C, r, mode, id) ==
    /\ Cohort(C, r) /\ Selects(w, C, r, mode, id)
    /\ op'[w] = ClaimOp(C, requests[r].domain, Req[r].service, mode, id)

LEMMA SelectOps ==
    ASSUME ~Share, TypeOK, NEW w \in Workers, ClaimRead(w) \/ RefillRead(w)
    PROVE  \E C, r, mode, id : Chooses(w, C, r, mode, id)
<1>1. \E svc : \E C \in Cohorts(w, svc) : \E r \in C : \E mode, id : Selects(w, C, r, mode, id)
    <2>1. CASE ClaimRead(w)
        <3>1. PICK svc \in Scopes(w) : \E C \in Cohorts(w, svc) : \E r \in C :
                op' = [op EXCEPT ![w] = ClaimOp(C, requests[r].domain, Req[r].service,
                            IF Share \/ requests[r].domain = None THEN "none" ELSE "acquire", None)]
            BY <2>1 DEF ClaimRead
        <3>2. PICK C \in Cohorts(w, svc) : \E r \in C :
                op' = [op EXCEPT ![w] = ClaimOp(C, requests[r].domain, Req[r].service,
                            IF Share \/ requests[r].domain = None THEN "none" ELSE "acquire", None)]
            BY <3>1
        <3>3. PICK r \in C :
                op' = [op EXCEPT ![w] = ClaimOp(C, requests[r].domain, Req[r].service,
                            IF Share \/ requests[r].domain = None THEN "none" ELSE "acquire", None)]
            BY <3>2
        <3>4. CASE requests[r].domain = None
            <4>1. Selects(w, C, r, "none", None)
                BY <3>3, <3>4 DEF Selects
            <4> QED BY <4>1
        <3>5. CASE requests[r].domain # None
            <4>1. Selects(w, C, r, "acquire", None)
                BY <3>3, <3>5 DEF Selects
            <4> QED BY <4>1
        <3> QED BY <3>4, <3>5
    <2>2. CASE RefillRead(w)
        <3>1. PICK c \in claims[w] : \E C \in Cohorts(w, Req[c.r].service) : \E r \in C :
                /\ requests[r].domain # None =>
                        Extendable(w, c.cid, requests[r].domain, Req[r].service)
                /\ op' = [op EXCEPT ![w] = ClaimOp(C, requests[r].domain, Req[r].service,
                            IF requests[r].domain = None THEN "none" ELSE "extend", c.cid)]
            BY <2>2 DEF RefillRead
        <3>2. PICK C \in Cohorts(w, Req[c.r].service) : \E r \in C :
                /\ requests[r].domain # None =>
                        Extendable(w, c.cid, requests[r].domain, Req[r].service)
                /\ op' = [op EXCEPT ![w] = ClaimOp(C, requests[r].domain, Req[r].service,
                            IF requests[r].domain = None THEN "none" ELSE "extend", c.cid)]
            BY <3>1
        <3>3. PICK r \in C :
                /\ requests[r].domain # None =>
                        Extendable(w, c.cid, requests[r].domain, Req[r].service)
                /\ op' = [op EXCEPT ![w] = ClaimOp(C, requests[r].domain, Req[r].service,
                            IF requests[r].domain = None THEN "none" ELSE "extend", c.cid)]
            BY <3>2
        <3>4. CASE requests[r].domain = None
            <4>1. Selects(w, C, r, "none", c.cid)
                BY <3>3, <3>4 DEF Selects
            <4> QED BY <4>1
        <3>5. CASE requests[r].domain # None
            <4>1. Selects(w, C, r, "extend", c.cid)
                BY <3>3, <3>5 DEF Selects
            <4> QED BY <4>1
        <3> QED BY <3>4, <3>5
    <2> QED BY <2>1, <2>2
<1>2. PICK svc : \E C \in Cohorts(w, svc) : \E r \in C : \E mode, id : Selects(w, C, r, mode, id)
    BY <1>1
<1>3. PICK C \in Cohorts(w, svc) : \E r \in C : \E mode, id : Selects(w, C, r, mode, id)
    BY <1>2
<1>4. PICK r \in C : \E mode, id : Selects(w, C, r, mode, id)
    BY <1>3
<1>5. PICK mode, id : Selects(w, C, r, mode, id)
    BY <1>4
<1>6. \A q \in C : /\ requests[q].state = "ready" /\ Req[q].service = Req[r].service
                   /\ requests[q].domain = requests[r].domain
    <2>1. \A q \in C : requests[q].state = "ready"
        BY DEF Cohorts, ReadyRows
    <2>2. PICK t \in C : \A q \in C : SameScope(q, t)
        BY DEF Cohorts
    <2> QED BY <2>1, <2>2 DEF SameScope
<1>7. op'[w] = ClaimOp(C, requests[r].domain, Req[r].service, mode, id)
    BY <1>5 DEF Selects, TypeOK, Procs
<1> QED BY <1>5, <1>6, <1>7 DEF Cohort, Chooses

LEMMA DomainReads ==
    ASSUME ~Share, TypeOK, HeldInv, DomainInv, NEW w \in Workers, ClaimRead(w) \/ RefillRead(w)
    PROVE  DomainInv'
<1> USE DEF DomainInv, TableInv, WorkInv
<1>1. UNCHANGED <<requests, compute_leases, claims>>
    BY DEF ClaimRead, RefillRead
<1>2. TableInv' /\ ClaimCid'
    BY <1>1 DEF IdsIssued, IdsApart, LeaseOutlasts, ActiveLeased, ActiveIn, LeasedFor, ClaimCid
<1>3. ASSUME NEW v \in Workers, v # w PROVE op'[v] = op[v]
    BY <1>3, QuietOthers DEF WorkerStep
<1>4. PICK C, r, mode, id : Chooses(w, C, r, mode, id)
    BY SelectOps
<1>8. Selects(w, C, r, mode, id)
    BY <1>4 DEF Chooses
<1>9. \A q \in C : /\ requests[q].state # "absent" /\ Req[q].service = Req[r].service
                   /\ requests[q].domain = requests[r].domain
    BY <1>4 DEF Chooses, Cohort
<1>10. op'[w] = ClaimOp(C, requests[r].domain, Req[r].service, mode, id)
    BY <1>4 DEF Chooses
<1>11. ClaimScope'
    BY <1>1, <1>3, <1>9, <1>10, <1>8 DEF Selects, ClaimScope, ClaimOp
<1>12. ExtendStands'
    <2> SUFFICES ASSUME NEW v \in Workers, op'[v].kind = "claim", op'[v].mode = "extend"
                 PROVE  /\ op'[v].domain # None
                        /\ /\ compute_leases[op'[v].domain] # None
                           /\ compute_leases[op'[v].domain].id = op'[v].cid
                           /\ compute_leases[op'[v].domain].service = op'[v].service
                        /\ \E c \in claims[v] : c.cid = op'[v].cid
        BY <1>1 DEF ExtendStands, LeasedFor
    <2>1. CASE v # w
        BY <1>3, <2>1 DEF ExtendStands, LeasedFor
    <2>2. CASE v = w
        <3>1. /\ op'[w].domain = requests[r].domain /\ op'[w].service = Req[r].service
              /\ mode = "extend" /\ op'[w].cid = id
            BY <1>10, <2>2 DEF ClaimOp
        <3> QED BY <1>8, <2>2, <3>1 DEF Selects, Extendable, Live
    <2> QED BY <2>1, <2>2
<1> QED BY <1>2, <1>11, <1>12


(* What the transaction of a claim does to one compute lease: nothing, it   *)
(* drops one that has expired, it extends the one it claims under, or it    *)
(* puts a new one in the place of none.                                     *)
Drops(d) ==
    compute_leases[d] # None /\ compute_leases[d].ttl = 0 /\ compute_leases'[d] = None
Grants(w, d, id) ==
    /\ d = op[w].domain
    /\ compute_leases'[d] # None /\ compute_leases'[d].ttl = TTL
    /\ compute_leases'[d].id = id /\ compute_leases'[d].service = op[w].service
Extends(w, d, id) == Grants(w, d, id) /\ LeasedFor(d, id, op[w].service)
Acquires(w, d, id, taken) ==
    /\ Grants(w, d, id) /\ (compute_leases[d] # None => compute_leases[d].ttl = 0)
    /\ \E r \in taken : id = <<r, NewLease(r)>>
LeaseStep(w, d, id, taken) ==
    \/ compute_leases'[d] = compute_leases[d]
    \/ Drops(d)
    \/ Extends(w, d, id)
    \/ Acquires(w, d, id, taken)

(* The claims of a step: it takes rows of its selection, under the lease of *)
(* its domain if it has one.                                                *)
ClaimStep(w, taken, id) ==
    /\ taken \subseteq op[w].rows
    /\ \A r \in taken : requests[r].state = "ready"
    /\ \A r \in Requests \ taken : requests'[r] = requests[r]
    /\ \A r \in taken : /\ requests'[r].state = "running" /\ requests'[r].cid = id
                        /\ requests'[r].domain = requests[r].domain /\ requests'[r].ttl = TTL
                        /\ requests'[r].attempts = requests[r].attempts + 1
    /\ claims'[w] = claims[w] \cup Handed(taken, id)
    /\ \A d \in Domains : LeaseStep(w, d, id, taken)
    /\ taken # {} /\ op[w].domain # None => Grants(w, op[w].domain, id)
    /\ op[w].domain = None => id = None

LEMMA TakeRows ==
    ASSUME TypeOK, NEW w \in Workers, NEW taken \in SUBSET Requests,
           NEW id \in OrNone(LeaseIds), Take(w, taken, id)
    PROVE  /\ \A r \in Requests \ taken : requests'[r] = requests[r]
           /\ \A r \in taken : /\ requests'[r].state = "running" /\ requests'[r].cid = id
                               /\ requests'[r].domain = requests[r].domain /\ requests'[r].ttl = TTL
                               /\ requests'[r].attempts = requests[r].attempts + 1
           /\ claims'[w] = claims[w] \cup Handed(taken, id)
<1>1. \A r \in taken : requests'[r].cid = id /\ requests'[r].domain = requests[r].domain
    BY RowFields DEF Take, TakenRows, Row
<1> QED BY <1>1, TakeEffects

LEMMA ClaimWrites ==
    ASSUME ~Share, TypeOK, DomainInv, OwnInv, NEW w \in Workers,
           ClaimNone(w) \/ ClaimAcquire(w) \/ ClaimExtend(w)
    PROVE  \E taken \in SUBSET Requests, id \in OrNone(LeaseIds) : ClaimStep(w, taken, id)
<1> DEFINE ready == StillReady(op[w].rows)
           d == op[w].domain
<1>0. op[w].kind = "claim"
    BY DEF ClaimNone, ClaimAcquire, ClaimExtend
<1>1. ready \in SUBSET Requests /\ ready \subseteq op[w].rows /\ \A r \in ready : requests[r].state = "ready"
    BY <1>0, OpFields DEF StillReady, Procs
<1>2. CASE ClaimNone(w)
    <2>1. Take(w, ready, None) /\ compute_leases' = compute_leases
        BY <1>2 DEF ClaimNone
    <2>2. d = None
        <3>1. op[w].kind = "claim" /\ op[w].mode = "none"
            BY <1>2 DEF ClaimNone
        <3>2. ClaimScope
            BY DEF DomainInv, WorkInv
        <3> QED BY <3>1, <3>2 DEF ClaimScope
    <2>3. None \in OrNone(LeaseIds)
        BY DEF OrNone
    <2> HIDE DEF ready
    <2>4. /\ \A r \in Requests \ ready : requests'[r] = requests[r]
          /\ \A r \in ready : /\ requests'[r].state = "running" /\ requests'[r].cid = None
                              /\ requests'[r].domain = requests[r].domain /\ requests'[r].ttl = TTL
                              /\ requests'[r].attempts = requests[r].attempts + 1
          /\ claims'[w] = claims[w] \cup Handed(ready, None)
        BY <1>1, <2>1, <2>3, TakeRows
    <2>5. \A e \in Domains : LeaseStep(w, e, None, ready)
        BY <2>1 DEF LeaseStep
    <2>6. ClaimStep(w, ready, None)
        BY <1>1, <2>2, <2>4, <2>5 DEF ClaimStep
    <2> QED BY <1>1, <2>3, <2>6
<1>3. CASE ClaimExtend(w)
    <2> DEFINE id == op[w].cid
    <2>1. id \in OrNone(LeaseIds) /\ Take(w, ready, id)
        BY <1>0, <1>3, OpFields DEF ClaimExtend, Procs
    <2>2. d \in Domains /\ LeasedFor(d, id, op[w].service)
        BY <1>0, <1>3, OpFields DEF ClaimExtend, DomainInv, WorkInv, ExtendStands, Procs, OrNone
    <2>3. Extends(w, d, id)
        <3>1. compute_leases[d] \in ComputeLease
            BY <2>2 DEF LeasedFor, TypeOK, OrNone
        <3>2. compute_leases'[d] = [compute_leases[d] EXCEPT !.ttl = TTL]
            BY <1>3, <2>2 DEF ClaimExtend, LeasedFor
        <3>3. TTL \in 0..TTL
            BY BoundsType
        <3>4. compute_leases'[d] \in ComputeLease
            BY <3>1, <3>2, <3>3 DEF ComputeLease
        <3>5. /\ compute_leases'[d].ttl = TTL /\ compute_leases'[d].id = compute_leases[d].id
              /\ compute_leases'[d].service = compute_leases[d].service
            BY <3>1, <3>2 DEF ComputeLease
        <3> QED BY <2>2, <3>4, <3>5, NoneIsNoEntry DEF LeasedFor, Extends, Grants
    <2>4. ASSUME NEW e \in Domains, e # d PROVE compute_leases'[e] = compute_leases[e]
        BY <1>3, <2>2, <2>4 DEF ClaimExtend, LeasedFor, DomainInv, TableInv, IdsApart
    <2>5. ClaimStep(w, ready, id)
        <3>1. \A e \in Domains : LeaseStep(w, e, id, ready)
            BY <2>3, <2>4 DEF LeaseStep
        <3>2. d # None
            BY <2>2, NoneIsNull
        <3>3. Grants(w, d, id)
            BY <2>3 DEF Extends
        <3>4. ready \in SUBSET Requests /\ Take(w, ready, id)
            BY <1>1, <2>1
        <3>5. id \in OrNone(LeaseIds)
            BY <2>1
        <3> HIDE DEF id, ready
        <3>6. /\ \A r \in Requests \ ready : requests'[r] = requests[r]
              /\ \A r \in ready : /\ requests'[r].state = "running" /\ requests'[r].cid = id
                                  /\ requests'[r].domain = requests[r].domain /\ requests'[r].ttl = TTL
                                  /\ requests'[r].attempts = requests[r].attempts + 1
              /\ claims'[w] = claims[w] \cup Handed(ready, id)
            BY <3>4, <3>5, TakeRows
        <3> QED BY <1>1, <3>1, <3>2, <3>3, <3>6 DEF ClaimStep
    <2> QED BY <1>1, <2>1, <2>5
<1>4. CASE ClaimAcquire(w)
    <2>1. d \in Domains /\ d # None
        BY <1>0, <1>4, OpFields, NoneIsNull DEF ClaimAcquire, Procs
    <2>3. ASSUME NEW e \in Domains
          PROVE  \/ Unexpired[e] = compute_leases[e]
                 \/ compute_leases[e] # None /\ compute_leases[e].ttl = 0 /\ Unexpired[e] = None
        <3>1. compute_leases[e] # None => compute_leases[e].ttl \in Nat
            BY BoundsType DEF TypeOK, OrNone, ComputeLease
        <3> QED BY <3>1 DEF Unexpired, Live
    <2>4. ASSUME Unexpired[d] = None, NEW r \in ready,
                 compute_leases' = [Unexpired EXCEPT ![d] =
                        [id |-> <<r, NewLease(r)>>, service |-> op[w].service, by |-> W[w].by,
                         ttl |-> TTL, aged |-> FALSE]],
                 Take(w, ready, <<r, NewLease(r)>>)
          PROVE  \E taken \in SUBSET Requests, id \in OrNone(LeaseIds) : ClaimStep(w, taken, id)
        <3> DEFINE id == <<r, NewLease(r)>>
                   lease == [id |-> id, service |-> op[w].service, by |-> W[w].by,
                             ttl |-> TTL, aged |-> FALSE]
        <3>1. id \in LeaseIds /\ id \in OrNone(LeaseIds)
            BY <1>1, RowFields DEF LeaseIds, NewLease, OrNone
        <3>2. lease \in ComputeLease
            <4>1. op[w].service \in OrNone(Services) /\ W[w].by \in STRING /\ TTL \in 0..TTL
                BY <1>0, OpFields, WType, BoundsType DEF Procs
            <4> QED BY <3>1, <4>1 DEF ComputeLease
        <3>3. compute_leases'[d] = lease /\ \A e \in Domains : e # d => compute_leases'[e] = Unexpired[e]
            BY <2>1, <2>4 DEF Unexpired
        <3>4. Grants(w, d, id)
            <4>1. /\ lease # None /\ lease.ttl = TTL /\ lease.id = id
                  /\ lease.service = op[w].service
                BY <3>2, NoneIsNoEntry
            <4> HIDE DEF lease
            <4> QED BY <3>3, <4>1 DEF Grants
        <3>5. Acquires(w, d, id, ready)
            BY <2>1, <2>3, <2>4, <3>4 DEF Acquires
        <3>6. \A e \in Domains : LeaseStep(w, e, id, ready)
            BY <2>3, <3>3, <3>5 DEF LeaseStep, Drops
        <3>7. Take(w, ready, id) /\ ready \in SUBSET Requests
            BY <1>1, <2>4
        <3> HIDE DEF id, lease, ready
        <3>8. /\ \A q \in Requests \ ready : requests'[q] = requests[q]
              /\ \A q \in ready : /\ requests'[q].state = "running" /\ requests'[q].cid = id
                                  /\ requests'[q].domain = requests[q].domain /\ requests'[q].ttl = TTL
                                  /\ requests'[q].attempts = requests[q].attempts + 1
              /\ claims'[w] = claims[w] \cup Handed(ready, id)
            BY <3>1, <3>7, TakeRows
        <3>9. ClaimStep(w, ready, id)
            BY <1>1, <2>1, <3>4, <3>6, <3>8 DEF ClaimStep
        <3> QED BY <3>1, <3>7, <3>9
    <2>5. ASSUME Unexpired[d] # None, compute_leases[d].service = op[w].service,
                 compute_leases' = [Unexpired EXCEPT ![d].ttl = TTL],
                 Take(w, ready, compute_leases[d].id)
          PROVE  \E taken \in SUBSET Requests, id \in OrNone(LeaseIds) : ClaimStep(w, taken, id)
        <3> DEFINE id == compute_leases[d].id
        <3>1. compute_leases[d] \in ComputeLease /\ Unexpired[d] = compute_leases[d]
              /\ id \in OrNone(LeaseIds)
            BY <2>1, <2>5 DEF Unexpired, TypeOK, OrNone, ComputeLease
        <3>2. compute_leases'[d] = [compute_leases[d] EXCEPT !.ttl = TTL]
              /\ \A e \in Domains : e # d => compute_leases'[e] = Unexpired[e]
            BY <2>1, <2>5, <3>1 DEF Unexpired
        <3>3. TTL \in 0..TTL
            BY BoundsType
        <3>4. compute_leases'[d] \in ComputeLease
            BY <3>1, <3>2, <3>3 DEF ComputeLease
        <3>5. /\ compute_leases'[d].ttl = TTL /\ compute_leases'[d].id = id
              /\ compute_leases'[d].service = compute_leases[d].service
            BY <3>1, <3>2 DEF ComputeLease
        <3>6. Extends(w, d, id)
            BY <2>5, <3>1, <3>4, <3>5, NoneIsNoEntry DEF Extends, Grants, LeasedFor
        <3>7. \A e \in Domains : LeaseStep(w, e, id, ready)
            BY <2>3, <3>2, <3>6 DEF LeaseStep, Drops
        <3>8. ClaimStep(w, ready, id)
            <4>1. Grants(w, d, id)
                BY <3>6 DEF Extends
            <4>2. Take(w, ready, id)
                BY <2>5
            <4> HIDE DEF id, ready
            <4>3. /\ \A r \in Requests \ ready : requests'[r] = requests[r]
                  /\ \A r \in ready : /\ requests'[r].state = "running" /\ requests'[r].cid = id
                                      /\ requests'[r].domain = requests[r].domain /\ requests'[r].ttl = TTL
                                      /\ requests'[r].attempts = requests[r].attempts + 1
                  /\ claims'[w] = claims[w] \cup Handed(ready, id)
                BY <1>1, <3>1, <4>2, TakeRows
            <4> QED BY <1>1, <2>1, <3>7, <4>1, <4>3 DEF ClaimStep
        <3> QED BY <1>1, <3>1, <3>8
    <2>6. ASSUME compute_leases' = Unexpired, UNCHANGED <<requests, claims>>
          PROVE  \E taken \in SUBSET Requests, id \in OrNone(LeaseIds) : ClaimStep(w, taken, id)
        <3>1. \A e \in Domains : LeaseStep(w, e, None, {})
            BY <2>3, <2>6 DEF LeaseStep, Drops
        <3>2. claims'[w] = claims[w] \cup Handed({}, None)
            BY <2>6 DEF Handed
        <3>3. ClaimStep(w, {}, None)
            BY <2>6, <3>1, <3>2 DEF ClaimStep
        <3> QED BY <3>3 DEF OrNone
    <2>7. \/ /\ Unexpired[d] = None
             /\ \E r \in ready :
                    /\ compute_leases' = [Unexpired EXCEPT ![d] =
                            [id |-> <<r, NewLease(r)>>, service |-> op[w].service, by |-> W[w].by,
                             ttl |-> TTL, aged |-> FALSE]]
                    /\ Take(w, ready, <<r, NewLease(r)>>)
          \/ /\ Unexpired[d] # None /\ compute_leases[d].service = op[w].service
             /\ compute_leases' = [Unexpired EXCEPT ![d].ttl = TTL]
             /\ Take(w, ready, compute_leases[d].id)
          \/ compute_leases' = Unexpired /\ UNCHANGED <<requests, claims>>
        <3>1. ASSUME Unexpired[d] # None, compute_leases[d].by = W[w].by PROVE ready # {}
            <4>1. compute_leases[d] # None
                BY <2>1, <3>1 DEF Unexpired
            <4>2. op[w].rows # {} /\ \A r \in op[w].rows : requests[r].state = "ready"
                BY <1>0, <1>4, <3>1, <4>1 DEF ClaimAcquire, OwnInv, SelectedReady, FindsRows
            <4> QED BY <4>2 DEF StillReady
        <3> QED BY <1>4, <3>1 DEF ClaimAcquire
    <2> QED BY <2>4, <2>5, <2>6, <2>7
<1> QED BY <1>2, <1>3, <1>4


LEMMA DomainClaims ==
    ASSUME ~Share, TypeOK, TypeOK', HeldInv, DomainInv,
           NEW w \in Workers, ClaimNone(w) \/ ClaimAcquire(w) \/ ClaimExtend(w),
           NEW taken \in SUBSET Requests, NEW id \in OrNone(LeaseIds), ClaimStep(w, taken, id)
    PROVE  DomainInv'
<1> USE DEF DomainInv, TableInv, WorkInv
<1>0. \A v \in Workers : v # w => op'[v] = op[v] /\ claims'[v] = claims[v]
    BY QuietOthers DEF WorkerStep
<1>1. op'[w].kind # "claim"
    <2>1. op' = [op EXCEPT ![w] = Idle]
        BY ClaimTakes
    <2> QED BY <2>1 DEF TypeOK, Procs, Idle
<1>2. /\ \A r \in Requests \ taken : requests'[r] = requests[r]
      /\ \A r \in taken : /\ requests[r].state = "ready"
                          /\ requests'[r].state = "running" /\ requests'[r].cid = id
                          /\ requests'[r].domain = requests[r].domain /\ requests'[r].ttl = TTL
                          /\ requests'[r].attempts = requests[r].attempts + 1
    BY DEF ClaimStep
<1>3. \A d \in Domains : LeaseStep(w, d, id, taken)
    BY DEF ClaimStep
<1>4. \A r \in Requests : /\ requests[r].attempts \in Nat
                          /\ requests'[r].attempts \in {requests[r].attempts, requests[r].attempts + 1}
    BY <1>2, RowFields
<1>5. \A d \in Domains : compute_leases[d] # None =>
            /\ compute_leases[d].id[1] \in Requests /\ compute_leases[d].id[2] \in Nat
            /\ compute_leases[d].id # None /\ compute_leases[d].ttl \in 0..TTL
    BY NoneIsNoEntry DEF TypeOK, OrNone, ComputeLease, LeaseIds
<1>6. \A d \in Domains : compute_leases'[d] # None => compute_leases'[d].id # None
    BY NoneIsNoEntry DEF TypeOK, OrNone, ComputeLease
<1>7. IdsIssued'
    <2> SUFFICES ASSUME NEW d \in Domains, compute_leases'[d] # None
                 PROVE  compute_leases'[d].id[2] <= requests'[compute_leases'[d].id[1]].attempts
        BY DEF IdsIssued
    <2>1. CASE compute_leases[d] # None /\ compute_leases'[d].id = compute_leases[d].id
        <3>1. compute_leases[d].id[2] <= requests[compute_leases[d].id[1]].attempts
            BY <2>1 DEF IdsIssued
        <3>2. \A m, n, k \in Nat : m <= n /\ k \in {n, n + 1} => m <= k
            OBVIOUS
        <3> QED BY <1>4, <1>5, <2>1, <3>1, <3>2
    <2>2. CASE Acquires(w, d, id, taken)
        <3>1. PICK r \in taken : id = <<r, NewLease(r)>>
            BY <2>2 DEF Acquires
        <3>2. compute_leases'[d].id = <<r, NewLease(r)>>
            BY <2>2, <3>1 DEF Acquires, Grants
        <3> QED BY <1>2, <1>4, <3>2 DEF NewLease
    <2> QED BY <1>3, <2>1, <2>2 DEF LeaseStep, Drops, Extends, Grants, LeasedFor
<1>8. IdsApart'
    <2>1. ASSUME NEW d \in Domains, NEW e \in Domains, d # e, Acquires(w, d, id, taken),
                 compute_leases'[e] # None
          PROVE  compute_leases'[d].id # compute_leases'[e].id
        <3>1. compute_leases'[e] = compute_leases[e]
            BY <1>3, <2>1 DEF LeaseStep, Drops, Extends, Acquires, Grants
        <3>2. compute_leases[e].id[2] <= requests[compute_leases[e].id[1]].attempts
            BY <2>1, <3>1 DEF IdsIssued
        <3>3. PICK r \in taken : id = <<r, NewLease(r)>>
            BY <2>1 DEF Acquires
        <3>4. id[1] = r /\ id[2] = requests[r].attempts + 1
            BY <3>3 DEF NewLease
        <3>5. compute_leases'[d].id = id
            BY <2>1 DEF Acquires, Grants
        <3> QED BY <1>4, <1>5, <2>1, <3>1, <3>2, <3>4, <3>5
    <2>2. ASSUME NEW d \in Domains, compute_leases'[d] # None, ~Acquires(w, d, id, taken)
          PROVE  compute_leases[d] # None /\ compute_leases'[d].id = compute_leases[d].id
        BY <1>3, <2>2 DEF LeaseStep, Drops, Extends, Grants, LeasedFor
    <2>3. ASSUME NEW d \in Domains, NEW e \in Domains, d # e,
                 compute_leases'[d] # None, compute_leases'[e] # None
          PROVE  compute_leases'[d].id # compute_leases'[e].id
        <3>1. CASE Acquires(w, d, id, taken)
            BY <2>1, <2>3, <3>1
        <3>2. CASE Acquires(w, e, id, taken)
            BY <2>1, <2>3, <3>2
        <3>3. CASE ~Acquires(w, d, id, taken) /\ ~Acquires(w, e, id, taken)
            BY <2>2, <2>3, <3>3 DEF IdsApart
        <3> QED BY <3>1, <3>2, <3>3
    <2> QED BY <2>3 DEF IdsApart
<1>9. \A r \in taken : /\ Req[r].service = op[w].service /\ requests[r].domain \in {op[w].domain, None}
                       /\ (op[w].domain # None => Grants(w, op[w].domain, id))
                       /\ (op[w].domain = None => id = None)
    <2>1. op[w].kind = "claim" /\ taken \subseteq op[w].rows
        BY DEF ClaimNone, ClaimAcquire, ClaimExtend, ClaimStep
    <2> QED BY <2>1 DEF ClaimScope, ClaimStep
<1>10. LeaseOutlasts'
    <2> SUFFICES ASSUME NEW d \in Domains, NEW r \in Requests, compute_leases'[d] # None,
                        requests'[r].state = "running", requests'[r].cid = compute_leases'[d].id
                 PROVE  requests'[r].ttl <= compute_leases'[d].ttl
        BY DEF LeaseOutlasts
    <2>0. requests'[r].ttl \in 0..TTL /\ TTL \in Nat
        BY BoundsType DEF TypeOK, Row
    <2>1. CASE Grants(w, d, id)
        BY <2>0, <2>1 DEF Grants
    <2>2. CASE r \in taken /\ ~Grants(w, d, id)
        <3>1. compute_leases'[d].id = id /\ id # None
            BY <1>2, <1>6, <2>2
        <3>2. Grants(w, op[w].domain, id)
            BY <1>9, <2>2, <3>1
        <3>3. op[w].domain \in Domains
            BY <1>9, <2>2, <3>1, OpFields DEF ClaimNone, ClaimAcquire, ClaimExtend, Procs, OrNone
        <3>4. op[w].domain = d
            BY <1>8, <3>1, <3>2, <3>3 DEF IdsApart, Grants
        <3> QED BY <2>2, <3>2, <3>4
    <2>3. CASE r \notin taken /\ ~Grants(w, d, id)
        <3>1. compute_leases'[d] = compute_leases[d]
            BY <1>3, <2>3 DEF LeaseStep, Drops, Extends, Acquires
        <3> QED BY <1>2, <2>3, <3>1 DEF LeaseOutlasts
    <2> QED BY <2>1, <2>2, <2>3
(* A lease under which something runs unexpired is there after the step.    *)
<1>11. ASSUME NEW d \in Domains, NEW r \in Requests, compute_leases[d] # None,
              requests[r].state = "running", requests[r].cid = compute_leases[d].id,
              requests[r].ttl > 0
       PROVE  /\ compute_leases'[d] # None /\ compute_leases'[d].id = compute_leases[d].id
              /\ compute_leases'[d].service = compute_leases[d].service
    <2>1. compute_leases[d].ttl # 0
        <3>1. requests[r].ttl <= compute_leases[d].ttl
            BY <1>11 DEF LeaseOutlasts
        <3>2. requests[r].ttl \in Nat
            BY RowFields, BoundsType
        <3> QED BY <1>11, <3>1, <3>2
    <2>2. compute_leases'[d] = compute_leases[d] \/ Extends(w, d, id)
        BY <1>3, <1>11, <2>1 DEF LeaseStep, Drops, Acquires
    <2> QED BY <1>11, <2>2 DEF Extends, Grants, LeasedFor
<1>12. ActiveLeased'
    <2> SUFFICES ASSUME NEW d \in Domains, NEW r \in Requests,
                        requests'[r].state = "running", requests'[r].ttl > 0,
                        requests'[r].domain = d
                 PROVE  /\ compute_leases'[d] # None
                        /\ compute_leases'[d].id = requests'[r].cid
                        /\ compute_leases'[d].service = Req[r].service
        BY DEF ActiveLeased, ActiveIn, LeasedFor
    <2>1. CASE r \in taken
        <3>1. op[w].domain = d /\ Grants(w, d, id)
            BY <1>2, <1>9, <2>1, NoneIsNull
        <3> QED BY <1>2, <1>9, <2>1, <3>1 DEF Grants
    <2>2. CASE r \notin taken
        <3>1. r \in ActiveIn(d) /\ requests'[r] = requests[r]
            BY <1>2, <2>2 DEF ActiveIn
        <3>2. LeasedFor(d, requests[r].cid, Req[r].service)
            BY <3>1 DEF ActiveLeased
        <3>3. /\ compute_leases'[d] # None /\ compute_leases'[d].id = compute_leases[d].id
              /\ compute_leases'[d].service = compute_leases[d].service
            BY <1>11, <3>1, <3>2 DEF ActiveIn, LeasedFor
        <3> QED BY <3>1, <3>2, <3>3 DEF LeasedFor
    <2> QED BY <2>1, <2>2
<1>13. ASSUME NEW v \in Workers, NEW c \in claims[v]
       PROVE  /\ c.r \in Requests /\ requests'[c.r] = requests[c.r]
              /\ requests[c.r].state = "running" /\ requests[c.r].ttl > 0
    <2>1. c.r \in Requests /\ Holds(c.r, c.n) /\ requests[c.r].ttl > 0
        BY <1>13, ClaimFields DEF TypeOK, HeldInv, ClaimsHeld
    <2> QED BY <1>2, <2>1 DEF Holds
<1>14. ClaimCid'
    <2> SUFFICES ASSUME NEW v \in Workers, NEW c \in claims'[v] PROVE requests'[c.r].cid = c.cid
        BY DEF ClaimCid
    <2>1. CASE c \in claims[v]
        BY <1>13, <2>1 DEF ClaimCid
    <2>2. CASE c \notin claims[v]
        <3>1. c \in Handed(taken, id)
            BY <1>0, <2>2 DEF ClaimStep
        <3>2. PICK r \in taken : c = [r |-> r, n |-> NewLease(r), cid |-> id]
            BY <3>1 DEF Handed
        <3> QED BY <1>2, <3>2
    <2> QED BY <2>1, <2>2
<1>15. ClaimScope'
    <2> SUFFICES ASSUME NEW v \in Workers, op'[v].kind = "claim"
                 PROVE  /\ \A r \in op'[v].rows :
                              /\ requests'[r].state # "absent" /\ Req[r].service = op'[v].service
                              /\ requests'[r].domain \in {op'[v].domain, None}
                        /\ op'[v].mode = "none" => op'[v].domain = None
        BY DEF ClaimScope
    <2>1. op'[v] = op[v]
        BY <1>0, <1>1
    <2>2. op[v].rows \in SUBSET Requests
        BY <2>1, OpFields DEF Procs
    <2>3. \A r \in Requests : /\ requests'[r].domain = requests[r].domain
                              /\ requests[r].state # "absent" => requests'[r].state # "absent"
        BY <1>2
    <2> QED BY <2>1, <2>2, <2>3 DEF ClaimScope
<1>16. ExtendStands'
    <2> SUFFICES ASSUME NEW v \in Workers, op'[v].kind = "claim", op'[v].mode = "extend"
                 PROVE  /\ op'[v].domain # None
                        /\ /\ compute_leases'[op'[v].domain] # None
                           /\ compute_leases'[op'[v].domain].id = op'[v].cid
                           /\ compute_leases'[op'[v].domain].service = op'[v].service
                        /\ \E c \in claims'[v] : c.cid = op'[v].cid
        BY DEF ExtendStands, LeasedFor
    <2>1. op'[v] = op[v] /\ claims'[v] = claims[v]
        BY <1>0, <1>1
    <2>2. op[v].domain \in Domains /\ LeasedFor(op[v].domain, op[v].cid, op[v].service)
        BY <2>1, OpFields DEF ExtendStands, Procs, OrNone
    <2>3. PICK c \in claims[v] : c.cid = op[v].cid
        BY <2>1 DEF ExtendStands
    <2>4. /\ compute_leases'[op[v].domain] # None
          /\ compute_leases'[op[v].domain].id = compute_leases[op[v].domain].id
          /\ compute_leases'[op[v].domain].service = compute_leases[op[v].domain].service
        <3>1. requests[c.r].cid = compute_leases[op[v].domain].id
            BY <2>2, <2>3 DEF ClaimCid, LeasedFor
        <3> QED BY <1>11, <1>13, <2>2, <3>1 DEF LeasedFor
    <2> QED BY <2>1, <2>2, <2>3, <2>4, NoneIsNull DEF LeasedFor
<1> QED BY <1>7, <1>8, <1>10, <1>12, <1>14, <1>15, <1>16


(* Time and heartbeats move the end of leases only, a compute lease's no    *)
(* less than that of the rows that run under it.                            *)
LEMMA DomainTime ==
    ASSUME ~Share, TypeOK, TypeOK', HeldInv, DomainInv, BeatSees,
           Tick \/ \E w \in Workers : HeartbeatWrite(w)
    PROVE  DomainInv'
<1> USE DEF DomainInv, TableInv, WorkInv
<1>0. /\ TTL \in Nat
      /\ \A r \in Requests : requests[r].ttl \in 0..TTL
      /\ \A d \in Domains : compute_leases[d] # None => compute_leases[d].ttl \in 0..TTL
    BY RowFields, BoundsType DEF TypeOK, OrNone, ComputeLease
<1>1. claims' = claims /\ \A w \in Workers : op'[w].kind = "claim" => op'[w] = op[w]
    <2>1. \A w \in Workers : [op EXCEPT ![w] = Idle][w].kind = "idle"
        BY DEF TypeOK, Procs, Idle
    <2>2. ASSUME NEW v \in Workers, HeartbeatWrite(v), NEW w \in Workers, op'[w].kind = "claim"
          PROVE  op'[w] = op[w]
        <3>1. v # w
            BY <2>1, <2>2 DEF HeartbeatWrite
        <3> QED BY <2>2, <3>1 DEF HeartbeatWrite, TypeOK, Procs
    <2> QED BY <2>2 DEF Tick, HeartbeatWrite
<1>2. \A r \in Requests : /\ requests'[r].state = requests[r].state
                          /\ requests'[r].domain = requests[r].domain
                          /\ requests'[r].cid = requests[r].cid
                          /\ requests'[r].attempts = requests[r].attempts
    <2>1. ASSUME NEW r \in Requests
          PROVE  \/ requests'[r] = requests[r]
                 \/ \E ttl : requests'[r] = [requests[r] EXCEPT !.ttl = ttl]
        <3>1. CASE Tick
            <4>1. requests'[r] = IF requests[r].state = "running" /\ requests[r].ttl > 0
                                 THEN [requests[r] EXCEPT !.ttl = @ - 1] ELSE requests[r]
                BY <3>1 DEF Tick
            <4> QED BY <4>1
        <3>2. ASSUME NEW w \in Workers, HeartbeatWrite(w)
              PROVE  requests'[r] = requests[r] \/ requests'[r] = [requests[r] EXCEPT !.ttl = TTL]
            BY <3>2 DEF HeartbeatWrite
        <3> QED BY <3>1, <3>2
    <2>2. ASSUME NEW r \in Requests, NEW ttl, requests'[r] = [requests[r] EXCEPT !.ttl = ttl]
          PROVE  /\ requests'[r].state = requests[r].state /\ requests'[r].domain = requests[r].domain
                 /\ requests'[r].cid = requests[r].cid /\ requests'[r].attempts = requests[r].attempts
        <3>1. requests[r] \in Row
            BY RowFields
        <3> QED BY <2>2, <3>1 DEF Row
    <2>3. ASSUME NEW r \in Requests
          PROVE  /\ requests'[r].state = requests[r].state /\ requests'[r].domain = requests[r].domain
                 /\ requests'[r].cid = requests[r].cid /\ requests'[r].attempts = requests[r].attempts
        <3>1. CASE requests'[r] = requests[r]
            BY <3>1
        <3>2. CASE requests'[r] # requests[r]
            <4>1. PICK ttl : requests'[r] = [requests[r] EXCEPT !.ttl = ttl]
                BY <2>1, <3>2
            <4> QED BY <2>2, <4>1
        <3> QED BY <3>1, <3>2
    <2> QED BY <2>3
<1>3. ASSUME NEW d \in Domains
      PROVE  /\ compute_leases[d] = None => compute_leases'[d] = None
             /\ compute_leases[d] # None =>
                    /\ compute_leases'[d] # None
                    /\ compute_leases'[d].id = compute_leases[d].id
                    /\ compute_leases'[d].service = compute_leases[d].service
    <2>1. CASE compute_leases[d] = None
        BY <2>1 DEF Tick, HeartbeatWrite, Live
    <2>2. CASE compute_leases[d] # None
        <3>1. compute_leases[d] \in ComputeLease
            BY <2>2 DEF TypeOK, OrNone
        <3>2. \/ compute_leases'[d] = compute_leases[d]
              \/ compute_leases'[d] = [compute_leases[d] EXCEPT !.ttl = TTL]
              \/ compute_leases'[d] = [compute_leases[d] EXCEPT !.ttl = @ - 1, !.aged = Quantum]
            BY DEF Tick, HeartbeatWrite
        <3>3. /\ compute_leases'[d].id = compute_leases[d].id
              /\ compute_leases'[d].service = compute_leases[d].service
            BY <3>1, <3>2 DEF ComputeLease
        <3>4. compute_leases'[d] # None
            <4>1. CASE compute_leases'[d] = compute_leases[d]
                BY <2>2, <4>1
            <4>2. CASE compute_leases'[d] = [compute_leases[d] EXCEPT !.ttl = TTL]
                <5>1. compute_leases'[d] \in ComputeLease
                    BY <1>0, <3>1, <4>2 DEF ComputeLease
                <5> QED BY <5>1, NoneIsNoEntry
            <4>3. CASE Tick /\ Live(compute_leases[d])
                <5>1. compute_leases'[d] = [compute_leases[d] EXCEPT !.ttl = @ - 1, !.aged = Quantum]
                    BY <4>3 DEF Tick
                <5>2. compute_leases[d].ttl - 1 \in 0..TTL /\ Quantum \in BOOLEAN
                    BY <1>0, <2>2, <4>3, FlagsType DEF Live
                <5>3. compute_leases'[d] \in ComputeLease
                    BY <3>1, <5>1, <5>2 DEF ComputeLease
                <5> QED BY <5>3, NoneIsNoEntry
            <4> QED BY <4>1, <4>2, <4>3 DEF Tick, HeartbeatWrite
        <3> QED BY <2>2, <3>3, <3>4
    <2> QED BY <2>1, <2>2
<1>4. IdsIssued'
    <2> SUFFICES ASSUME NEW d \in Domains, compute_leases'[d] # None
                 PROVE  compute_leases'[d].id[2] <= requests'[compute_leases'[d].id[1]].attempts
        BY DEF IdsIssued
    <2>1. compute_leases[d] \in ComputeLease /\ compute_leases'[d].id = compute_leases[d].id
        BY <1>3 DEF TypeOK, OrNone
    <2>2. compute_leases[d].id[1] \in Requests
        BY <2>1 DEF ComputeLease, LeaseIds
    <2> QED BY <1>2, <1>3, <2>1, <2>2 DEF IdsIssued
<1>5. IdsApart'
    BY <1>3 DEF IdsApart
<1>6. LeaseOutlasts'
    <2> SUFFICES ASSUME NEW d \in Domains, NEW r \in Requests, compute_leases'[d] # None,
                        requests'[r].state = "running", requests'[r].cid = compute_leases'[d].id
                 PROVE  requests'[r].ttl <= compute_leases'[d].ttl
        BY DEF LeaseOutlasts
    <2>1. /\ compute_leases[d] # None /\ compute_leases[d] \in ComputeLease
          /\ requests[r].state = "running" /\ requests[r].cid = compute_leases[d].id
          /\ requests[r].ttl <= compute_leases[d].ttl
        BY <1>2, <1>3 DEF LeaseOutlasts, TypeOK, OrNone
    <2>2. CASE Tick
        <3>1. requests'[r].ttl = IF requests[r].ttl > 0 THEN requests[r].ttl - 1 ELSE requests[r].ttl
            BY <2>1, <2>2, RowFields DEF Tick, Row
        <3>2. compute_leases'[d].ttl =
                IF compute_leases[d].ttl > 0 THEN compute_leases[d].ttl - 1 ELSE compute_leases[d].ttl
            BY <2>1, <2>2 DEF Tick, Live, ComputeLease
        <3> QED BY <1>0, <2>1, <3>1, <3>2
    <2>3. ASSUME NEW w \in Workers, HeartbeatWrite(w) PROVE requests'[r].ttl <= compute_leases'[d].ttl
        <3>1. CASE r \in Held(w)
            <4>1. requests'[r].ttl = TTL
                BY <2>3, <3>1, RowFields DEF HeartbeatWrite, Row
            <4>2. PICK c \in claims[w] : c.r = r
                BY <3>1 DEF Held
            <4>3. compute_leases[d].id \in op[w].cids
                BY <2>1, <2>3, <4>2 DEF HeartbeatWrite, BeatSees, ClaimCid
            <4>4. compute_leases'[d] = [compute_leases[d] EXCEPT !.ttl = TTL]
                BY <2>1, <2>3, <4>3 DEF HeartbeatWrite
            <4> QED BY <1>0, <2>1, <4>1, <4>4 DEF ComputeLease
        <3>2. CASE r \notin Held(w)
            <4>1. requests'[r] = requests[r]
                BY <2>3, <3>2 DEF HeartbeatWrite
            <4>2. compute_leases'[d].ttl \in {compute_leases[d].ttl, TTL}
                BY <2>1, <2>3 DEF HeartbeatWrite, ComputeLease
            <4> QED BY <1>0, <2>1, <4>1, <4>2
        <3> QED BY <3>1, <3>2
    <2> QED BY <2>2, <2>3
<1>7. ActiveLeased'
    <2> SUFFICES ASSUME NEW d \in Domains, NEW r \in Requests,
                        requests'[r].state = "running", requests'[r].ttl > 0,
                        requests'[r].domain = d
                 PROVE  /\ compute_leases'[d] # None
                        /\ compute_leases'[d].id = requests'[r].cid
                        /\ compute_leases'[d].service = Req[r].service
        BY DEF ActiveLeased, ActiveIn, LeasedFor
    <2>1. requests[r].ttl > 0
        <3>1. CASE Tick
            BY <1>0, <3>1 DEF Tick
        <3>2. ASSUME NEW w \in Workers, HeartbeatWrite(w), requests[r].ttl = 0 PROVE FALSE
            <4>1. r \notin Held(w)
                BY <3>2 DEF Held, HeldInv, ClaimsHeld
            <4> QED BY <3>2, <4>1 DEF HeartbeatWrite
        <3> QED BY <1>0, <3>1, <3>2
    <2>2. LeasedFor(d, requests[r].cid, Req[r].service)
        BY <1>2, <2>1 DEF ActiveLeased, ActiveIn
    <2> QED BY <1>2, <1>3, <2>2 DEF LeasedFor
<1>8. ClaimCid'
    BY <1>1, <1>2, ClaimFields DEF ClaimCid, TypeOK
<1>9. ClaimScope'
    <2>1. \A w \in Workers : op[w].kind = "claim" => op[w].rows \in SUBSET Requests
        BY OpFields DEF Procs
    <2> QED BY <1>1, <1>2, <2>1 DEF ClaimScope
<1>10. ExtendStands'
    <2>1. \A w \in Workers : op[w].kind = "claim" /\ op[w].domain # None => op[w].domain \in Domains
        BY OpFields DEF Procs, OrNone
    <2> QED BY <1>1, <1>3, <2>1 DEF ExtendStands, LeasedFor
<1> QED BY <1>4, <1>5, <1>6, <1>7, <1>8, <1>9, <1>10

LEMMA DomainInvStep ==
    ASSUME ~Share, Clients = {}, TypeOK, TypeOK', LeaseInv, LeaseInv', HeldInv, HeldInv',
           DomainInv, OwnInv, [Next]_vars
    PROVE  DomainInv'
<1>1. CASE \/ \E b \in Batches : Submit(b)
           \/ \E w \in Workers :
                \/ PrepareRead(w) \/ PrepareWrite(w) \/ FinishLost(w) \/ FinishRead(w)
                \/ FinishWrite(w) \/ RetryRead(w) \/ RetryWrite(w) \/ WriteNotice(w)
                \/ HeartbeatRead(w) \/ HeartbeatLost(w) \/ Crash(w)
           \/ Reap \/ UNCHANGED vars
    <2>1. \A r \in Requests : requests'[r].attempts = requests[r].attempts
        <3>1. ASSUME NEW b \in Batches, Submit(b), NEW r \in Requests
              PROVE  requests'[r].attempts = requests[r].attempts
            BY <3>1, SubmitEffects DEF LeaseInv, Unsubmitted
        <3> QED BY <1>1, <3>1, AttemptsKept DEF Unclaiming
    <2> QED BY <1>1, <2>1, QuietSteps, DomainQuiet
<1>2. ASSUME NEW w \in Workers, ClaimRead(w) \/ RefillRead(w) PROVE DomainInv'
    BY <1>2, DomainReads
<1>3. ASSUME NEW w \in Workers, ClaimNone(w) \/ ClaimAcquire(w) \/ ClaimExtend(w) PROVE DomainInv'
    BY <1>3, ClaimWrites, DomainClaims
<1>4. CASE Tick \/ \E w \in Workers : HeartbeatWrite(w)
    BY <1>4, DomainTime DEF OwnInv
<1> QED BY <1>1, <1>2, <1>3, <1>4 DEF Next, WorkerStep

(* A ready row changes by being claimed, and in no other way.               *)
ClaimsRow(v, r) ==
    op[v].kind = "claim" /\ r \in op[v].rows /\ (ClaimNone(v) \/ ClaimAcquire(v) \/ ClaimExtend(v))

LEMMA ReadyKept ==
    ASSUME Clients = {}, TypeOK, [Next]_vars, NEW r \in Requests, requests[r].state = "ready"
    PROVE  requests'[r] = requests[r] \/ \E v \in Workers : ClaimsRow(v, r)
<1>0. "ready" \notin Terminal
    BY DEF Terminal
<1>1. ASSUME NEW b \in Batches, Submit(b) PROVE requests'[r] = requests[r]
    BY <1>1, SubmitEffects
<1>2. ASSUME NEW v \in Workers, ClaimNone(v) \/ ClaimAcquire(v) \/ ClaimExtend(v)
      PROVE  requests'[r] = requests[r] \/ ClaimsRow(v, r)
    <2>1. op[v].kind = "claim"
        BY <1>2 DEF ClaimNone, ClaimAcquire, ClaimExtend
    <2>2. \/ requests' = requests
          \/ \E id : Take(v, StillReady(op[v].rows), id)
        BY <1>2 DEF ClaimNone, ClaimAcquire, ClaimExtend
    <2>3. requests'[r] = requests[r] \/ r \in StillReady(op[v].rows)
        BY <2>2 DEF Take, TakenRows
    <2> QED BY <1>2, <2>1, <2>3 DEF ClaimsRow, StillReady
<1>3. ASSUME NEW v \in Workers, Unclaiming(v) PROVE requests'[r] = requests[r]
    <2>1. CASE PrepareWrite(v)
        <3>1. op[v].r \in Requests
            BY <2>1, OpFields DEF PrepareWrite, Procs
        <3> QED BY <2>1, <3>1 DEF PrepareWrite, StillQueued, TypeOK
    <2>2. CASE FinishWrite(v) \/ RetryWrite(v)
        <3>1. op[v].claim.r \in Requests
            BY <2>2, OpFields, ClaimFields DEF FinishWrite, RetryWrite, Procs
        <3> QED BY <2>2, <3>1 DEF FinishWrite, RetryWrite, Holds, TypeOK
    <2>3. CASE HeartbeatWrite(v)
        <3>1. r \notin Held(v)
            BY DEF Held, Holds
        <3> QED BY <2>3, <3>1 DEF HeartbeatWrite
    <2> QED BY <1>3, <2>1, <2>2, <2>3
            DEF Unclaiming, PrepareRead, ClaimRead, RefillRead, FinishLost, FinishRead, RetryRead,
                WriteNotice, HeartbeatRead, HeartbeatLost, Crash
<1>4. CASE Reap
    BY <1>4 DEF Reap, Spent, Expired
<1>5. CASE Tick
    BY <1>5 DEF Tick
<1>6. CASE UNCHANGED vars
    BY <1>6 DEF vars
<1> QED BY <1>1, <1>2, <1>3, <1>4, <1>5, <1>6, StepKinds

(* A compute lease keeps the name it was given to; another takes its place  *)
(* only by a claim for which there was none.                                *)
LEMMA LeaseNames ==
    ASSUME Clients = {}, TypeOK, [Next]_vars, NEW d \in Domains, compute_leases'[d] # None
    PROVE  \/ compute_leases[d] # None /\ compute_leases'[d].by = compute_leases[d].by
           \/ \E v \in Workers : /\ op'[v] = Idle /\ Unexpired[d] = None
                                 /\ compute_leases'[d].by = W[v].by
<1>0. \A e \in Domains : compute_leases[e] # None => compute_leases[e] \in ComputeLease
    BY DEF TypeOK, OrNone
<1>1. ASSUME compute_leases'[d] = compute_leases[d]
      PROVE  compute_leases[d] # None /\ compute_leases'[d].by = compute_leases[d].by
    BY <1>1
<1>2. ASSUME compute_leases[d] # None,
             \/ compute_leases'[d] = [compute_leases[d] EXCEPT !.ttl = TTL]
             \/ compute_leases'[d] = [compute_leases[d] EXCEPT !.ttl = @ - 1, !.aged = Quantum]
      PROVE  compute_leases'[d].by = compute_leases[d].by
    BY <1>0, <1>2 DEF ComputeLease
<1>3. ASSUME NEW leases, NEW ids, compute_leases' = Released(requests', leases, ids),
             leases[d] \in {None, compute_leases[d]}
      PROVE  compute_leases'[d] = compute_leases[d]
    BY <1>3 DEF Released
<1>4. CASE UNCHANGED compute_leases
    BY <1>1, <1>4
<1>5. ASSUME NEW v \in Workers, FinishWrite(v) \/ RetryWrite(v)
      PROVE  compute_leases'[d] = compute_leases[d]
    BY <1>3, <1>5 DEF FinishWrite, RetryWrite
<1>6. CASE Reap
    <2> DEFINE kept == [e \in Domains |->
                    IF /\ compute_leases[e] # None /\ compute_leases[e].ttl = 0
                       /\ \A r \in Requests : ~(requests[r].state = "running"
                                                /\ requests[r].cid = compute_leases[e].id)
                    THEN None ELSE compute_leases[e]]
    <2>1. compute_leases' = Released(requests', kept, {requests[r].cid : r \in Expired})
        BY <1>6 DEF Reap
    <2>2. kept[d] \in {None, compute_leases[d]}
        OBVIOUS
    <2> HIDE DEF kept
    <2> QED BY <1>1, <1>3, <2>1, <2>2
<1>7. CASE Tick \/ (\E v \in Workers : HeartbeatWrite(v) \/ ClaimExtend(v))
    <2>1. \/ compute_leases'[d] = compute_leases[d]
          \/ /\ compute_leases[d] # None
             /\ \/ compute_leases'[d] = [compute_leases[d] EXCEPT !.ttl = TTL]
                \/ compute_leases'[d] = [compute_leases[d] EXCEPT !.ttl = @ - 1, !.aged = Quantum]
        BY <1>7 DEF Tick, HeartbeatWrite, ClaimExtend, Live
    <2> QED BY <1>1, <1>2, <2>1
<1>8. ASSUME NEW v \in Workers, ClaimAcquire(v)
      PROVE  \/ compute_leases[d] # None /\ compute_leases'[d].by = compute_leases[d].by
             \/ /\ op'[v] = Idle /\ Unexpired[d] = None
                /\ compute_leases'[d].by = W[v].by
    <2>1. op'[v] = Idle
        BY <1>8 DEF ClaimAcquire, TypeOK, Procs
    <2>2. op[v].domain \in Domains
        BY <1>8, OpFields DEF ClaimAcquire, Procs
    <2>3. Unexpired[d] \in {None, compute_leases[d]} /\ Unexpired \in [Domains -> {Unexpired[e] : e \in Domains}]
        BY DEF Unexpired
    <2>4. CASE d # op[v].domain \/ compute_leases' = Unexpired
        <3>1. compute_leases'[d] = Unexpired[d]
            BY <1>8, <2>2, <2>3, <2>4 DEF ClaimAcquire
        <3> QED BY <1>1, <2>3, <3>1
    <2>5. ASSUME d = op[v].domain, Unexpired[d] = None, NEW r,
                 compute_leases' = [Unexpired EXCEPT ![d] =
                        [id |-> <<r, NewLease(r)>>, service |-> op[v].service, by |-> W[v].by,
                         ttl |-> TTL, aged |-> FALSE]]
          PROVE  compute_leases'[d].by = W[v].by
        BY <2>3, <2>5
    <2>6. ASSUME d = op[v].domain, Unexpired[d] # None,
                 \/ compute_leases' = [Unexpired EXCEPT ![d] = None]
                 \/ compute_leases' = [Unexpired EXCEPT ![d].ttl = TTL]
          PROVE  compute_leases[d] # None /\ compute_leases'[d].by = compute_leases[d].by
        <3>1. Unexpired[d] = compute_leases[d]
            BY <2>3, <2>6
        <3>2. compute_leases'[d] = [compute_leases[d] EXCEPT !.ttl = TTL]
            BY <2>3, <2>6, <3>1
        <3> QED BY <1>2, <2>6, <3>1, <3>2
    <2>7. d = op[v].domain =>
            \/ compute_leases' = Unexpired
            \/ /\ Unexpired[d] = None
               /\ \E r : compute_leases' = [Unexpired EXCEPT ![d] =
                        [id |-> <<r, NewLease(r)>>, service |-> op[v].service, by |-> W[v].by,
                         ttl |-> TTL, aged |-> FALSE]]
            \/ /\ Unexpired[d] # None
               /\ \/ compute_leases' = [Unexpired EXCEPT ![d] = None]
                  \/ compute_leases' = [Unexpired EXCEPT ![d].ttl = TTL]
        BY <1>8 DEF ClaimAcquire
    <2> QED BY <2>1, <2>4, <2>5, <2>6, <2>7
<1>9. \/ UNCHANGED compute_leases \/ Reap \/ Tick
      \/ \E v \in Workers : HeartbeatWrite(v) \/ ClaimExtend(v)
      \/ \E v \in Workers : ClaimAcquire(v)
      \/ \E v \in Workers : FinishWrite(v) \/ RetryWrite(v)
    BY DEF Next, WorkerStep, Submit, PrepareRead, PrepareWrite, ClaimRead, RefillRead, ClaimNone,
       FinishLost, FinishRead, RetryRead, WriteNotice, HeartbeatRead, HeartbeatLost, Crash, vars
<1> QED BY <1>1, <1>4, <1>5, <1>6, <1>7, <1>8, <1>9

(* While a claim by another worker takes rows of a domain, no other name's  *)
(* lease stands there.                                                      *)
LEMMA TakesByName ==
    ASSUME ~Share, TypeOK, DomainInv, OwnInv, NEW v \in Workers, NEW r \in Requests,
           ClaimsRow(v, r), requests'[r] # requests[r], NEW d \in Domains, requests[r].domain = d,
           compute_leases[d] # None, compute_leases'[d] # None
    PROVE  compute_leases[d].by = W[v].by \/ compute_leases'[d].by = W[v].by
<1>0. d # None
    BY NoneIsNull
<1>1. /\ op[v].kind = "claim" /\ r \in op[v].rows
      /\ op[v].domain = d /\ op[v].mode # "none"
    BY <1>0 DEF ClaimsRow, DomainInv, WorkInv, ClaimScope
<1>2. CASE ClaimExtend(v)
    BY <1>1, <1>2 DEF ClaimExtend, OwnInv, ExtendsOwn
<1>3. CASE ClaimAcquire(v)
    <2>1. CASE compute_leases[d].by = W[v].by
        BY <2>1
    <2>2. ASSUME NEW q, compute_leases' = [Unexpired EXCEPT ![d] =
                        [id |-> <<q, NewLease(q)>>, service |-> op[v].service, by |-> W[v].by,
                         ttl |-> TTL, aged |-> FALSE]]
          PROVE  compute_leases'[d].by = W[v].by
        BY <2>2 DEF Unexpired
    <2> QED BY <1>1, <1>3, <2>1, <2>2 DEF ClaimAcquire
<1> QED BY <1>1, <1>2, <1>3 DEF ClaimsRow, ClaimNone

(* A refill's lease has not run out: a claim of the worker holds it up.     *)
LEMMA ExtendsLive ==
    ASSUME TypeOK, HeldInv, DomainInv, NEW w \in Workers, op[w].kind = "claim", op[w].mode = "extend"
    PROVE  op[w].domain \in Domains /\ Unexpired[op[w].domain] # None
<1>1. /\ op[w].domain \in Domains
      /\ LeasedFor(op[w].domain, op[w].cid, op[w].service)
      /\ \E c \in claims[w] : c.cid = op[w].cid
    BY OpFields DEF DomainInv, WorkInv, ExtendStands, Procs, OrNone
<1>2. PICK c \in claims[w] : c.cid = op[w].cid
    BY <1>1
<1>3. c.r \in Requests /\ Holds(c.r, c.n) /\ requests[c.r].ttl > 0 /\ requests[c.r].cid = c.cid
    BY ClaimFields DEF TypeOK, HeldInv, ClaimsHeld, DomainInv, WorkInv, ClaimCid
<1>4. requests[c.r].ttl <= compute_leases[op[w].domain].ttl
    BY <1>1, <1>2, <1>3 DEF DomainInv, TableInv, LeaseOutlasts, LeasedFor, Holds
<1>5. compute_leases[op[w].domain].ttl \in Nat /\ requests[c.r].ttl \in Nat
    BY <1>1, <1>3, RowFields, BoundsType DEF LeasedFor, TypeOK, OrNone, ComputeLease
<1>6. compute_leases[op[w].domain].ttl > 0
    BY <1>3, <1>4, <1>5
<1> QED BY <1>1, <1>6 DEF Unexpired, Live, LeasedFor

LEMMA OwnInvStep ==
    ASSUME ~Share, NamesApart, Clients = {}, TypeOK, TypeOK', HeldInv, DomainInv, DomainInv',
           OwnInv, [Next]_vars
    PROVE  OwnInv'
<1>0. ASSUME NEW w \in Workers, PrepareRead(w) PROVE op'[w].kind = "prepare"
    BY <1>0 DEF PrepareRead, TypeOK, Procs
<1>1. ASSUME NEW w \in Workers, HeartbeatRead(w)
      PROVE  op'[w].kind = "heartbeat" /\ \A r \in Held(w) : requests[r].cid \in op'[w].cids
    <2> DEFINE cids == {requests[r].cid : r \in Held(w)}
    <2>1. \A r \in Held(w) : requests[r].cid \in cids
        OBVIOUS
    <2>2. op' = [op EXCEPT ![w] = [kind |-> "heartbeat", cids |-> cids]]
        BY <1>1 DEF HeartbeatRead
    <2> HIDE DEF cids
    <2>3. op'[w] = [kind |-> "heartbeat", cids |-> cids]
        BY <2>2 DEF TypeOK, Procs
    <2> QED BY <2>1, <2>3
<1>2. ASSUME NEW w \in Workers, ClaimRead(w) \/ RefillRead(w)
      PROVE  \E C, r, mode, id : Chooses(w, C, r, mode, id)
    BY <1>2, SelectOps
<1>3. ASSUME NEW w \in Workers, op'[w].kind = "claim"
      PROVE  op'[w] = op[w] \/ ClaimRead(w) \/ RefillRead(w)
    BY <1>0, <1>1, <1>3, OpKinds DEF Enters
<1>4. ExtendsOwn'
    <2> SUFFICES ASSUME NEW w \in Workers, op'[w].kind = "claim", op'[w].mode = "extend"
                 PROVE  compute_leases'[op'[w].domain].by = W[w].by
        BY DEF ExtendsOwn
    <2>1. CASE op'[w] = op[w]
        <3> DEFINE d == op[w].domain
        <3>1. d \in Domains /\ Unexpired[d] # None /\ compute_leases[d].by = W[w].by
            BY <2>1, ExtendsLive DEF OwnInv, ExtendsOwn
        <3>2. compute_leases'[d] # None
            <4>1. LeasedFor(op[w].domain, op[w].cid, op[w].service)'
                BY <2>1 DEF DomainInv, WorkInv, ExtendStands
            <4> QED BY <2>1, <4>1 DEF LeasedFor
        <3> QED BY <2>1, <3>1, <3>2, LeaseNames
    <2>2. CASE ClaimRead(w) \/ RefillRead(w)
        <3>1. PICK C, r, mode, id : Chooses(w, C, r, mode, id)
            BY <1>2, <2>2
        <3>2. mode = "extend" /\ op'[w].domain = requests[r].domain
            BY <3>1 DEF Chooses, ClaimOp
        <3>3. compute_leases[requests[r].domain].by = W[w].by
            BY <3>1, <3>2 DEF Chooses, Selects, Extendable
        <3> QED BY <2>2, <3>2, <3>3 DEF ClaimRead, RefillRead
    <2> QED BY <1>3, <2>1, <2>2
<1>5. SelectedReady'
    <2> SUFFICES ASSUME NEW w \in Workers, op'[w].kind = "claim", op'[w].mode = "acquire"
                 PROVE  op'[w].rows # {} /\ FindsRows(w, op[w].domain)'
        BY DEF SelectedReady, FindsRows
    <2>1. CASE op'[w] = op[w]
        <3> DEFINE d == op[w].domain
        <3>1. d \in Domains /\ op[w].rows # {} /\ op[w].rows \in SUBSET Requests /\ FindsRows(w, d)
            BY <2>1, OpFields DEF OwnInv, SelectedReady, Procs
        <3>2. op[w] # Idle
            BY <2>1 DEF Idle
        <3>3. ASSUME compute_leases'[d] # None, compute_leases'[d].by = W[w].by, NEW r \in op[w].rows
              PROVE  requests'[r].state = "ready" /\ requests'[r].domain = d
            <4>1. compute_leases[d] # None /\ compute_leases[d].by = W[w].by
                BY <2>1, <3>1, <3>2, <3>3, LeaseNames DEF NamesApart
            <4>2. r \in Requests /\ requests[r].state = "ready" /\ requests[r].domain = d
                BY <3>1, <3>3, <4>1 DEF FindsRows
            <4>3. ASSUME NEW v \in Workers, ClaimsRow(v, r), requests'[r] # requests[r] PROVE FALSE
                <5>1. W[v].by = W[w].by
                    BY <3>1, <3>3, <4>1, <4>2, <4>3, TakesByName
                <5>2. op'[v] = Idle
                    BY <4>3, ClaimTakes DEF ClaimsRow, TypeOK, Procs
                <5> QED BY <2>1, <3>2, <5>1, <5>2 DEF NamesApart
            <4> QED BY <4>2, <4>3, ReadyKept
        <3> QED BY <2>1, <3>1, <3>3 DEF FindsRows
    <2>2. CASE ClaimRead(w) \/ RefillRead(w)
        <3>1. PICK C, r, mode, id : Chooses(w, C, r, mode, id)
            BY <1>2, <2>2
        <3>2. /\ op'[w].rows = C /\ op'[w].domain = requests[r].domain
              /\ r \in C /\ \A q \in C : requests[q].state = "ready" /\ requests[q].domain = requests[r].domain
            BY <3>1 DEF Chooses, Cohort, ClaimOp
        <3>3. requests' = requests
            BY <2>2 DEF ClaimRead, RefillRead
        <3> QED BY <3>2, <3>3 DEF FindsRows
    <2> QED BY <1>3, <2>1, <2>2
<1>6. BeatSees'
    <2> SUFFICES ASSUME NEW w \in Workers, op'[w].kind = "heartbeat", NEW c \in claims'[w]
                 PROVE  c.cid \in op'[w].cids
        BY DEF BeatSees
    <2>1. CASE op'[w] = op[w]
        <3>1. claims'[w] \subseteq claims[w]
            <4>1. ASSUME NEW v \in Workers, ClaimNone(v) \/ ClaimAcquire(v) \/ ClaimExtend(v)
                  PROVE  claims'[w] = claims[w]
                <5>1. op'[v] = Idle
                    BY <4>1, ClaimTakes DEF TypeOK, Procs
                <5>2. v # w
                    BY <5>1 DEF Idle
                <5> QED BY <4>1, <5>2, QuietOthers DEF WorkerStep
            <4>2. ASSUME NEW b \in Batches, Submit(b) PROVE claims' = claims
                BY <4>2 DEF Submit
            <4> QED BY <4>1, <4>2, StepKinds, AttemptsKept
        <3> QED BY <2>1, <3>1 DEF OwnInv, BeatSees
    <2>2. CASE HeartbeatRead(w)
        <3>1. c \in claims[w] /\ Holds(c.r, c.n) /\ requests[c.r].cid = c.cid
            BY <2>2 DEF HeartbeatRead, HeldInv, ClaimsHeld, DomainInv, WorkInv, ClaimCid
        <3>2. c.r \in Held(w)
            BY <3>1 DEF Held
        <3> QED BY <1>1, <2>2, <3>1, <3>2
    <2>3. CASE ClaimRead(w) \/ RefillRead(w)
        <3>1. PICK C, r, mode, id : Chooses(w, C, r, mode, id)
            BY <1>2, <2>3
        <3>2. op'[w].kind = "claim"
            BY <3>1 DEF Chooses, ClaimOp
        <3> QED BY <3>2
    <2> QED BY <1>0, <2>1, <2>2, <2>3, OpKinds DEF Enters
<1> QED BY <1>4, <1>5, <1>6 DEF OwnInv

LEMMA DomainInvSafe == ~Share /\ DomainInv => ComputeDomainExclusive
BY DEF DomainInv, TableInv, ActiveLeased, LeasedFor, ComputeDomainExclusive

(* Requests of two services never execute at once in one compute domain:    *)
(* not through a claim whose lease was read before the transaction, nor a   *)
(* refill of a stream (_extend_compute_lease), whose lease may only run out *)
(* or be released once the claims that hold it up are gone, nor a claim     *)
(* that takes no row and deletes the lease it found.  The hypotheses are    *)
(* what the code needs for it: heartbeats are on time, no request is        *)
(* cancelled (a forced cancel releases the lease of a refill in progress,   *)
(* which extends it by its id without effect), and no two threads claim     *)
(* under one worker name, as those of one process do (v_empty_claim).       *)
THEOREM DomainsExclusive ==
    ASSUME OnTime, Clients = {}, \A v, w \in Workers : W[v].by = W[w].by => v = w
    PROVE  Spec => []ComputeDomainExclusive
<1>0. NamesApart
    BY DEF NamesApart
<1>1. CASE Share
    <2>1. ComputeDomainExclusive
        BY <1>1 DEF ComputeDomainExclusive
    <2> QED BY <2>1, PTL
<1>2. CASE ~Share
    <2>0. Init => LeaseInv
        BY DEF Init, LeaseInv, Unsubmitted, IssuedLeases, LeasesDistinct, AbsentRow
    <2>1. Init => DomainInv /\ OwnInv
        <3> SUFFICES ASSUME Init PROVE DomainInv /\ OwnInv
            OBVIOUS
        <3>1. /\ \A d \in Domains : compute_leases[d] = None
              /\ \A r \in Requests : requests[r].state = "absent"
              /\ \A w \in Workers : claims[w] = {} /\ op[w].kind = "idle"
            BY DEF Init, AbsentRow, Idle, Procs
        <3>2. TableInv
            BY <3>1 DEF TableInv, IdsIssued, IdsApart, LeaseOutlasts, ActiveLeased, ActiveIn
        <3>3. WorkInv
            BY <3>1 DEF WorkInv, ClaimCid, ClaimScope, ExtendStands
        <3>4. OwnInv
            BY <3>1 DEF OwnInv, ExtendsOwn, SelectedReady, BeatSees
        <3> QED BY <3>2, <3>3, <3>4 DEF DomainInv
    <2>2. TypeOK /\ TypeOK' /\ LeaseInv /\ LeaseInv' /\ HeldInv /\ HeldInv' /\ DomainInv /\ OwnInv
          /\ [Next]_vars => DomainInv' /\ OwnInv'
        BY <1>0, <1>2, DomainInvStep, OwnInvStep
    <2>3. TypeOK /\ LeaseInv /\ [Next]_vars => LeaseInv'
        BY LeaseInvStep
    <2>4. DomainInv => ComputeDomainExclusive
        BY <1>2, DomainInvSafe
    <2> QED BY <2>0, <2>1, <2>2, <2>3, <2>4, TypeCorrect, HeldInvariant, PTL DEF Spec
<1> QED BY <1>1, <1>2

-----------------------------------------------------------------------------
(* Where a request is placed.                                               *)

(* submit_requests binds a request with a service to a node as well.        *)
ServiceBound == \A r \in Requests : Req[r].service # None => Req[r].node # None

(* What one step can do to the placement of a row. *)
Placed(r) == requests[r].state \in {"ready", "running"}
SamePlace(r) ==
    /\ requests'[r].node = requests[r].node
    /\ requests[r].state # "absent" => requests'[r].state # "absent"
    /\ requests'[r].state = "queued" => requests[r].state = "queued"
    /\ requests'[r].state \in {"ready", "running"} => Placed(r)
FirstPlace(r) ==
    /\ requests[r].state = "absent" /\ requests'[r].node = Req[r].node
    /\ Req[r].kind = "model" => requests'[r].state = "queued"
Unplaced(r) ==
    /\ requests[r].state = "running" /\ requests'[r].state = "queued"
    /\ requests'[r].node = IF Req[r].service = None THEN None ELSE requests[r].node
PlacedBy(w, r) ==
    /\ PrepareWrite(w) /\ op[w].r = r /\ op[w].kind = "prepare"
    /\ requests[r].state = "queued" /\ requests'[r].state = "ready"
    /\ requests'[r].node = IF requests[r].node # None THEN requests[r].node ELSE op[w].node

LEMMA PlaceRows ==
    ASSUME TypeOK, NEW r \in Requests
    PROVE  /\ requests'[r] = requests[r] => SamePlace(r)
           /\ requests'[r] = RequeuedRow(r) /\ requests[r].state = "running" => Unplaced(r)
           /\ \A s \in Terminal : requests'[r] = SettledRow(r, s) => SamePlace(r)
<1>1. requests[r] \in Row
    BY RowFields
<1>2. requests'[r] = RequeuedRow(r) /\ requests[r].state = "running" => Unplaced(r)
    BY <1>1 DEF RequeuedRow, Row, Unplaced
<1>3. ASSUME NEW s \in Terminal, requests'[r] = SettledRow(r, s) PROVE SamePlace(r)
    BY <1>1, <1>3 DEF SettledRow, Row, SamePlace, Terminal
<1> QED BY <1>2, <1>3 DEF SamePlace, Placed

LEMMA PlaceSteps ==
    ASSUME TypeOK, [Next]_vars
    PROVE  \/ \A r \in Requests : SamePlace(r) \/ FirstPlace(r) \/ Unplaced(r)
           \/ \E w \in Workers : \E r \in Requests :
                PlacedBy(w, r) /\ \A q \in Requests : q # r => SamePlace(q)
<1> DEFINE Still == \A r \in Requests : SamePlace(r) \/ FirstPlace(r) \/ Unplaced(r)
<1>1. ASSUME NEW b \in Batches, Submit(b) PROVE Still
    <2> SUFFICES ASSUME NEW r \in Requests PROVE SamePlace(r) \/ FirstPlace(r)
        OBVIOUS
    <2>1. CASE r \in BatchOf(b)
        <3>1. requests[r].state = "absent" /\ requests'[r] = SubmittedRow(r)
            BY <1>1, <2>1 DEF Submit
        <3>2. Req[r].kind = "model" => SubmittedRow(r).state = "queued"
            BY DEF SubmittedRow, AbsentRow
        <3>3. SubmittedRow(r).node = Req[r].node
            BY DEF SubmittedRow, AbsentRow
        <3> QED BY <3>1, <3>2, <3>3 DEF FirstPlace
    <2>2. CASE r \notin BatchOf(b)
        BY <1>1, <2>2, SubmitEffects, PlaceRows
    <2> QED BY <2>1, <2>2
<1>2. ASSUME NEW w \in Workers, ClaimNone(w) \/ ClaimAcquire(w) \/ ClaimExtend(w) PROVE Still
    <2>1. CASE requests' = requests
        BY <2>1, PlaceRows
    <2>2. ASSUME NEW taken \in SUBSET Requests, NEW id \in OrNone(LeaseIds),
                 \A r \in taken : requests[r].state = "ready", Take(w, taken, id),
                 NEW r \in Requests
          PROVE  SamePlace(r)
        <3>1. CASE r \in taken
            <4>1. requests'[r].node = requests[r].node
                BY <2>2, <3>1, RowFields DEF Take, TakenRows, Row
            <4>2. requests'[r].state = "running"
                BY <2>2, <3>1, TakeEffects
            <4> QED BY <2>2, <3>1, <4>1, <4>2 DEF SamePlace, Placed
        <3>2. CASE r \notin taken
            <4>1. requests'[r] = requests[r]
                BY <2>2, <3>2 DEF Take, TakenRows
            <4> QED BY <4>1, PlaceRows
        <3> QED BY <3>1, <3>2
    <2> QED BY <1>2, <2>1, <2>2, ClaimTakes
<1>3. ASSUME NEW w \in Workers, FinishWrite(w) \/ RetryWrite(w) PROVE Still
    <2> DEFINE c == op[w].claim
    <2>1. c.r \in Requests
        BY <1>3, OpFields, ClaimFields DEF FinishWrite, RetryWrite, Procs
    <2>2. \/ requests' = requests
          \/ Holds(c.r, c.n) /\ requests' = [requests EXCEPT ![c.r] = RequeuedRow(c.r)]
          \/ \E s \in Terminal : requests' = [requests EXCEPT ![c.r] = SettledRow(c.r, s)]
        <3>1. CASE FinishWrite(w)
            BY <3>1, OpFields DEF FinishWrite, Procs
        <3>2. CASE RetryWrite(w)
            BY <3>2, OpFields DEF RetryWrite, Procs, Terminal
        <3> QED BY <1>3, <3>1, <3>2
    <2>3. ASSUME NEW r \in Requests PROVE SamePlace(r) \/ Unplaced(r)
        <3>1. \/ requests'[r] = requests[r]
              \/ requests[r].state = "running" /\ requests'[r] = RequeuedRow(r)
              \/ \E s \in Terminal : requests'[r] = SettledRow(r, s)
            BY <2>1, <2>2 DEF TypeOK, Holds
        <3> QED BY <3>1, PlaceRows
    <2> QED BY <2>3
<1>4. CASE Reap
    <2> SUFFICES ASSUME NEW r \in Requests PROVE SamePlace(r) \/ Unplaced(r)
        OBVIOUS
    <2>1. \/ requests'[r] = requests[r]
          \/ requests[r].state = "running" /\ requests'[r] = RequeuedRow(r)
          \/ requests'[r] = SettledRow(r, "failed")
        BY <1>4 DEF Reap, Expired
    <2> QED BY <2>1, PlaceRows DEF Terminal
<1>5. CASE Tick \/ \E w \in Workers : HeartbeatWrite(w)
    <2> SUFFICES ASSUME NEW r \in Requests PROVE SamePlace(r)
        OBVIOUS
    <2>1. \/ requests'[r] = requests[r]
          \/ requests'[r] = [requests[r] EXCEPT !.ttl = @ - 1]
          \/ requests'[r] = [requests[r] EXCEPT !.ttl = TTL]
        BY <1>5 DEF Tick, HeartbeatWrite
    <2>2. requests'[r].node = requests[r].node /\ requests'[r].state = requests[r].state
        BY <2>1, RowFields DEF Row
    <2> QED BY <2>2 DEF SamePlace, Placed
<1>6. ASSUME NEW p \in Clients, CancelWrite(p) PROVE Still
    <2> SUFFICES ASSUME NEW r \in Requests PROVE SamePlace(r)
        OBVIOUS
    <2>0. requests[r] \in Row
        BY RowFields
    <2>1. \/ requests'[r] = requests[r]
          \/ requests'[r] = [requests[r] EXCEPT !.state = "cancelled"]
          \/ requests'[r] = [SettledRow(r, "cancelled") EXCEPT !.cid = None]
          \/ requests'[r] = [requests[r] EXCEPT !.cancel = TRUE]
        BY <1>6 DEF CancelWrite
    <2>2. /\ requests'[r].node = requests[r].node
          /\ requests'[r].state \in {requests[r].state, "cancelled"}
        BY <2>0, <2>1 DEF SettledRow, Row
    <2> QED BY <2>2 DEF SamePlace, Placed
<1>7. ASSUME NEW w \in Workers, PrepareWrite(w)
      PROVE  \/ Still
             \/ \E r \in Requests : PlacedBy(w, r) /\ \A q \in Requests : q # r => SamePlace(q)
    <2>1. CASE requests' = requests
        BY <2>1, PlaceRows
    <2>2. CASE requests' # requests
        <3> DEFINE r == op[w].r
        <3>1. r \in Requests /\ op[w].kind = "prepare"
            BY <1>7, OpFields DEF PrepareWrite, Procs
        <3>2. /\ requests[r].state = "queued"
              /\ requests' = [requests EXCEPT
                        ![r].state = "ready", ![r].lease = 0, ![r].ttl = 0,
                        ![r].node = IF @ # None THEN @ ELSE op[w].node]
            BY <1>7, <2>2 DEF PrepareWrite, StillQueued
        <3>3. PlacedBy(w, r)
            <4>1. /\ requests'[r].state = "ready"
                  /\ requests'[r].node = IF requests[r].node # None THEN requests[r].node ELSE op[w].node
                BY <3>1, <3>2, RowFields DEF TypeOK, Row
            <4> QED BY <1>7, <3>1, <3>2, <4>1 DEF PlacedBy
        <3>4. \A q \in Requests : q # r => requests'[q] = requests[q]
            BY <3>1, <3>2 DEF TypeOK
        <3> QED BY <3>1, <3>3, <3>4, PlaceRows
    <2> QED BY <2>1, <2>2
<1>8. ASSUME requests' = requests PROVE Still
    BY <1>8, PlaceRows
<1>9. \/ requests' = requests \/ Reap \/ Tick
      \/ \E b \in Batches : Submit(b)
      \/ \E p \in Clients : CancelWrite(p)
      \/ \E w \in Workers :
            \/ ClaimNone(w) \/ ClaimAcquire(w) \/ ClaimExtend(w)
            \/ FinishWrite(w) \/ RetryWrite(w) \/ HeartbeatWrite(w) \/ PrepareWrite(w)
    BY DEF Next, WorkerStep, ClientStep, PrepareRead, ClaimRead, RefillRead, FinishLost,
       FinishRead, RetryRead, WriteNotice, HeartbeatRead, HeartbeatLost, Crash, CancelRead,
       RefreshRead, RefreshWrite, vars
<1> QED BY <1>1, <1>2, <1>3, <1>4, <1>5, <1>6, <1>7, <1>8, <1>9

(* A row bound to a service stays on its node, a prepare in progress binds  *)
(* the row to the node it reserved on, and a row with KV has a node then.   *)
BoundStands ==
    \A r \in Requests :
        Req[r].service # None /\ requests[r].state \in {"queued", "ready", "running"}
            => requests[r].node = Req[r].node
PrepareNode ==
    \A w \in Workers : op[w].kind = "prepare" =>
        /\ requests[op[w].r].state # "absent"
        /\ Req[op[w].r].service # None => op[w].node = Req[op[w].r].node
        /\ NeedsKv(op[w].r) => op[w].node # None
        /\ W[w].node # None => op[w].node = W[w].node
        /\ requests[op[w].r].state = "queued" => requests[op[w].r].node \in {None, op[w].node}
PlacedOnNode ==
    \A r \in Requests :
        Placed(r) /\ Req[r].kind = "model" /\ NeedsKv(r) => requests[r].node # None
PlaceInv == BoundStands /\ PrepareNode /\ PlacedOnNode

(* The selection of prepare_ready. *)
PreparesRow(w, r) ==
    /\ op' = [op EXCEPT ![w] = [kind |-> "prepare", r |-> r, node |-> BindNode(w, r),
                                evict |-> op'[w].evict]]
    /\ op'[w].kind = "prepare" /\ op'[w].r = r /\ op'[w].node = BindNode(w, r)
    /\ op'[w].evict \in EvictionPlans(r, BindNode(w, r))
    /\ requests[r].state = "queued" /\ (W[w].node # None => requests[r].node \in {None, W[w].node})
    /\ NeedsKv(r) /\ ~Pipelined(r) => BindNode(w, r) # None
    /\ W[w].node # None /\ MaxNodeDepth > 0 => MaxNodeDepth - NodeDepth(W[w].node) > 0

LEMMA PrepareSelects ==
    ASSUME TypeOK, NEW w \in Workers, PrepareRead(w)
    PROVE  \E r \in Requests : PreparesRow(w, r)
<1>1. PICK svc \in Scopes(w) : \E r \in QueuedRows(w, svc) : \E V \in EvictionPlans(r, BindNode(w, r)) :
        /\ W[w].node # None /\ MaxNodeDepth > 0 => MaxNodeDepth - NodeDepth(W[w].node) > 0
        /\ NeedsKv(r) /\ ~Pipelined(r) => BindNode(w, r) # None
        /\ op' = [op EXCEPT ![w] = [kind |-> "prepare", r |-> r,
                                    node |-> BindNode(w, r), evict |-> V]]
    BY DEF PrepareRead
<1>2. PICK r \in QueuedRows(w, svc) : \E V \in EvictionPlans(r, BindNode(w, r)) :
        /\ W[w].node # None /\ MaxNodeDepth > 0 => MaxNodeDepth - NodeDepth(W[w].node) > 0
        /\ NeedsKv(r) /\ ~Pipelined(r) => BindNode(w, r) # None
        /\ op' = [op EXCEPT ![w] = [kind |-> "prepare", r |-> r,
                                    node |-> BindNode(w, r), evict |-> V]]
    BY <1>1
<1>3. PICK V \in EvictionPlans(r, BindNode(w, r)) :
        op' = [op EXCEPT ![w] = [kind |-> "prepare", r |-> r, node |-> BindNode(w, r), evict |-> V]]
    BY <1>2
<1>4. op'[w] = [kind |-> "prepare", r |-> r, node |-> BindNode(w, r), evict |-> V]
    BY <1>3 DEF TypeOK, Procs
<1>5. /\ requests[r].state = "queued" /\ r \in Requests
      /\ W[w].node # None => requests[r].node \in {None, W[w].node}
    BY DEF QueuedRows
<1>6. op'[w].kind = "prepare" /\ op'[w].r = r /\ op'[w].node = BindNode(w, r) /\ op'[w].evict = V
    BY <1>4
<1> QED BY <1>2, <1>3, <1>5, <1>6 DEF PreparesRow

(* A worker is in prepare_ready with a row because it was or has just       *)
(* selected it.                                                             *)
LEMMA PrepareOps ==
    ASSUME TypeOK, [Next]_vars, NEW w \in Workers, op'[w].kind = "prepare"
    PROVE  op'[w] = op[w] \/ PrepareRead(w)
<1>1. ASSUME Enters(w) PROVE PrepareRead(w)
    <2>1. \A o : [op EXCEPT ![w] = o][w] = o
        BY DEF TypeOK, Procs
    <2>2. CASE ClaimRead(w) \/ RefillRead(w) \/ HeartbeatRead(w)
        <3>1. op'[w].kind \in {"claim", "heartbeat"}
            BY <2>1, <2>2 DEF ClaimRead, RefillRead, HeartbeatRead, ClaimOp
        <3> QED BY <3>1
    <2> QED BY <1>1, <2>2 DEF Enters
<1> QED BY <1>1, OpKinds

(* After a step every row has changed its place in one of these ways.       *)
LEMMA RowPlaces ==
    ASSUME TypeOK, [Next]_vars, NEW r \in Requests
    PROVE  SamePlace(r) \/ FirstPlace(r) \/ Unplaced(r) \/ \E w \in Workers : PlacedBy(w, r)
BY PlaceSteps

LEMMA PlaceInvStep ==
    ASSUME ServiceBound, TypeOK, PlaceInv, [Next]_vars
    PROVE  PlaceInv'
<1>1. ASSUME NEW r \in Requests, Req[r].service # None,
             requests'[r].state \in {"queued", "ready", "running"}
      PROVE  requests'[r].node = Req[r].node
    <2>0. requests[r].state \in {"queued", "ready", "running"} => requests[r].node = Req[r].node
        BY <1>1 DEF PlaceInv, BoundStands
    <2>1. CASE SamePlace(r)
        BY <1>1, <2>0, <2>1 DEF SamePlace, Placed
    <2>2. CASE FirstPlace(r)
        BY <2>2 DEF FirstPlace
    <2>3. CASE Unplaced(r)
        BY <1>1, <2>0, <2>3 DEF Unplaced
    <2>4. CASE \E w \in Workers : PlacedBy(w, r)
        BY <1>1, <2>0, <2>4 DEF PlacedBy, ServiceBound
    <2> QED BY <2>1, <2>2, <2>3, <2>4, RowPlaces
<1>2. ASSUME NEW w \in Workers, op'[w].kind = "prepare", op'[w] = op[w]
      PROVE  LET r == op'[w].r IN
             /\ requests'[r].state # "absent"
             /\ Req[r].service # None => op'[w].node = Req[r].node
             /\ NeedsKv(r) => op'[w].node # None
             /\ W[w].node # None => op'[w].node = W[w].node
             /\ requests'[r].state = "queued" => requests'[r].node \in {None, op'[w].node}
    <2> DEFINE r == op[w].r
    <2>0. r \in Requests
        BY <1>2, OpFields DEF Procs
    <2>1. /\ requests[r].state # "absent"
          /\ Req[r].service # None => op[w].node = Req[r].node
          /\ NeedsKv(r) => op[w].node # None
          /\ W[w].node # None => op[w].node = W[w].node
          /\ requests[r].state = "queued" => requests[r].node \in {None, op[w].node}
        BY <1>2 DEF PlaceInv, PrepareNode
    <2>2. /\ requests'[r].state # "absent"
          /\ requests'[r].state = "queued" => requests'[r].node \in {None, op[w].node}
        <3>1. CASE SamePlace(r)
            BY <2>1, <3>1 DEF SamePlace
        <3>2. CASE Unplaced(r)
            <4>1. Req[r].service # None => requests[r].node = Req[r].node
                BY <2>0, <3>2 DEF PlaceInv, BoundStands, Unplaced
            <4> QED BY <2>1, <3>2, <4>1 DEF Unplaced
        <3>3. CASE \E v \in Workers : PlacedBy(v, r)
            BY <3>3 DEF PlacedBy
        <3>4. ~FirstPlace(r)
            BY <2>1 DEF FirstPlace
        <3> QED BY <2>0, <3>1, <3>2, <3>3, <3>4, RowPlaces
    <2> QED BY <1>2, <2>1, <2>2
<1>3. ASSUME NEW w \in Workers, PrepareRead(w)
      PROVE  LET r == op'[w].r IN
             /\ requests'[r].state # "absent"
             /\ Req[r].service # None => op'[w].node = Req[r].node
             /\ NeedsKv(r) => op'[w].node # None
             /\ W[w].node # None => op'[w].node = W[w].node
             /\ requests'[r].state = "queued" => requests'[r].node \in {None, op'[w].node}
    <2>1. PICK r \in Requests : PreparesRow(w, r)
        BY <1>3, PrepareSelects
    <2>2. requests' = requests /\ op'[w].r = r /\ requests[r].state = "queued"
          /\ op'[w].node = BindNode(w, r)
        BY <1>3, <2>1 DEF PrepareRead, PreparesRow
    <2>3. Req[r].service # None => requests[r].node = Req[r].node /\ Req[r].node # None
        BY <2>2 DEF PlaceInv, BoundStands, ServiceBound
    <2>4. Req[r].service # None => BindNode(w, r) = Req[r].node
        BY <2>3 DEF BindNode
    <2>5. NeedsKv(r) => BindNode(w, r) # None
        <3>1. Pipelined(r) => Req[r].service # None
            BY DEF Pipelined
        <3> QED BY <2>1, <2>3, <2>4, <3>1 DEF PreparesRow
    <2>6. W[w].node # None => BindNode(w, r) = W[w].node
        BY <2>1 DEF PreparesRow, BindNode
    <2>7. requests[r].node \in {None, BindNode(w, r)}
        BY DEF BindNode
    <2> QED BY <2>2, <2>4, <2>5, <2>6, <2>7
<1>4. BoundStands'
    BY <1>1 DEF BoundStands
<1>5. PrepareNode'
    BY <1>2, <1>3, PrepareOps DEF PrepareNode
<1>6. PlacedOnNode'
    <2> SUFFICES ASSUME NEW r \in Requests, requests'[r].state \in {"ready", "running"},
                        Req[r].kind = "model", NeedsKv(r)
                 PROVE  requests'[r].node # None
        BY DEF PlacedOnNode, Placed
    <2>1. CASE SamePlace(r)
        BY <2>1 DEF SamePlace, PlaceInv, PlacedOnNode
    <2>2. CASE \E w \in Workers : PlacedBy(w, r)
        BY <2>2 DEF PlacedBy, PlaceInv, PrepareNode
    <2>3. ~FirstPlace(r) /\ ~Unplaced(r)
        BY DEF FirstPlace, Unplaced
    <2> QED BY <2>1, <2>2, <2>3, RowPlaces
<1> QED BY <1>4, <1>5, <1>6 DEF PlaceInv

LEMMA PlaceInvariant ==
    ASSUME ServiceBound
    PROVE  Spec => []PlaceInv
<1>1. Init => PlaceInv
    BY DEF Init, PlaceInv, BoundStands, PrepareNode, PlacedOnNode, Placed, AbsentRow, Idle, Procs
<1>2. TypeOK /\ PlaceInv /\ [Next]_vars => PlaceInv'
    BY PlaceInvStep
<1> QED BY <1>1, <1>2, TypeCorrect, PTL DEF Spec

-----------------------------------------------------------------------------
(* Node depth.                                                              *)

(* One worker prepares for a node: prepare_ready counts the rows of a node  *)
(* in autocommit, so two workers of one node may both find room for the     *)
(* last row, and a worker that names no node does not count at all.         *)
OneWorkerPerNode ==
    \A v, w \in Workers : W[w].node # None /\ (W[v].node = W[w].node => v = w)

(* The rows that count against a node, and the room a worker that is in     *)
(* prepare_ready has seen there.                                            *)
DepthRows(n) ==
    {r \in Requests : /\ Req[r].kind = "model" /\ requests[r].node = n
                      /\ requests[r].state \in {"ready", "running"}}
RoomSeen ==
    \A n \in Nodes : \A w \in Workers :
        op[w].kind = "prepare" /\ W[w].node = n => Cardinality(DepthRows(n)) < MaxNodeDepth
DepthInv == NodeDepthBound /\ (MaxNodeDepth > 0 => RoomSeen)

LEMMA DepthSets ==
    ASSUME NEW n \in Nodes
    PROVE  /\ IsFiniteSet(DepthRows(n)) /\ Cardinality(DepthRows(n)) \in Nat
           /\ NodeDepth(n) = Cardinality(DepthRows(n))
           /\ NodeDepthBound /\ MaxNodeDepth > 0 => Cardinality(DepthRows(n)) <= MaxNodeDepth
<1>1. IsFiniteSet(DepthRows(n))
    BY RequestsFinite, FS_Subset DEF DepthRows
<1>2. DepthRows(n) = {r \in Requests : /\ Req[r].kind = "model"
                                       /\ requests[r].state \in {"ready", "running"}
                                       /\ requests[r].node = n}
    BY DEF DepthRows
<1> QED BY <1>1, <1>2, FS_CardinalityType DEF NodeDepth, NodeDepthBound, DepthRows

(* A worker with a row in hand has seen room, before and after a step.      *)
LEMMA DepthInvStep ==
    ASSUME ServiceBound, OneWorkerPerNode, TypeOK, PlaceInv, DepthInv, [Next]_vars,
           MaxNodeDepth > 0, NEW n \in Nodes
    PROVE  /\ Cardinality(DepthRows(n))' <= MaxNodeDepth
           /\ \A w \in Workers : op'[w].kind = "prepare" /\ W[w].node = n
                                    => Cardinality(DepthRows(n))' < MaxNodeDepth
<1> DEFINE D == DepthRows(n)
           E == {r \in Requests : /\ Req[r].kind = "model" /\ requests'[r].node = n
                                  /\ requests'[r].state \in {"ready", "running"}}
<1>0. /\ IsFiniteSet(D) /\ Cardinality(D) \in Nat /\ Cardinality(D) <= MaxNodeDepth
      /\ MaxNodeDepth \in Nat
      /\ Cardinality(DepthRows(n))' = Cardinality(E)
    BY DepthSets, BoundsType DEF DepthInv, DepthRows
<1>1. \A r \in Requests : SamePlace(r) /\ r \in E => r \in D
    BY DEF SamePlace, Placed, DepthRows
<1>2. CASE \A r \in Requests : SamePlace(r) \/ FirstPlace(r) \/ Unplaced(r)
    <2>1. E \subseteq D
        <3> SUFFICES ASSUME NEW r \in E PROVE r \in D
            OBVIOUS
        <3>1. ~FirstPlace(r) /\ ~Unplaced(r)
            BY DEF FirstPlace, Unplaced
        <3> QED BY <1>1, <1>2, <3>1
    <2>2. Cardinality(E) \in Nat /\ Cardinality(E) <= Cardinality(D)
        BY <1>0, <2>1, FS_Subset, FS_CardinalityType
    <2>3. ASSUME NEW w \in Workers, op'[w].kind = "prepare", W[w].node = n
          PROVE  Cardinality(D) < MaxNodeDepth
        <3>1. CASE op'[w] = op[w]
            BY <2>3, <3>1 DEF DepthInv, RoomSeen
        <3>2. CASE PrepareRead(w)
            <4>1. MaxNodeDepth - NodeDepth(n) > 0
                BY <2>3, <3>2, PrepareSelects, NoneIsNull DEF PreparesRow
            <4>2. NodeDepth(n) = Cardinality(D)
                BY DepthSets
            <4> QED BY <1>0, <4>1, <4>2
        <3> QED BY <2>3, <3>1, <3>2, PrepareOps
    <2> HIDE DEF D, E
    <2> QED BY <1>0, <2>2, <2>3
<1>3. ASSUME NEW w \in Workers, NEW r \in Requests, PlacedBy(w, r),
             \A q \in Requests : q # r => SamePlace(q)
      PROVE  /\ Cardinality(E) <= MaxNodeDepth
             /\ \A v \in Workers : op'[v].kind = "prepare" /\ W[v].node = n
                                        => Cardinality(E) < MaxNodeDepth
    <2>1. requests'[r].node = W[w].node
        <3>1. op[w].node = W[w].node /\ requests[r].node \in {None, op[w].node}
            BY <1>3 DEF PlacedBy, PlaceInv, PrepareNode, OneWorkerPerNode
        <3> QED BY <1>3, <3>1 DEF PlacedBy
    <2>2. E \subseteq D \cup {r}
        BY <1>1, <1>3
    <2>3. CASE W[w].node = n
        <3>1. Cardinality(D) < MaxNodeDepth
            BY <1>3, <2>3 DEF DepthInv, RoomSeen, PlacedBy
        <3>2. IsFiniteSet(D \cup {r}) /\ Cardinality(D \cup {r}) <= Cardinality(D) + 1
            <4> HIDE DEF D
            <4>1. /\ IsFiniteSet(D \cup {r})
                  /\ \/ Cardinality(D \cup {r}) = Cardinality(D)
                     \/ Cardinality(D \cup {r}) = Cardinality(D) + 1
                BY <1>0, FS_AddElement
            <4> QED BY <1>0, <4>1
        <3>3. /\ Cardinality(E) \in Nat /\ Cardinality(D \cup {r}) \in Nat
              /\ Cardinality(E) <= Cardinality(D \cup {r})
            BY <2>2, <3>2, FS_Subset, FS_CardinalityType
        <3>4. ASSUME NEW v \in Workers, W[v].node = n PROVE op'[v].kind # "prepare"
            <4>1. v = w
                BY <2>3, <3>4 DEF OneWorkerPerNode
            <4>2. op'[w] = Idle
                BY <1>3 DEF PlacedBy, PrepareWrite, TypeOK, Procs
            <4> QED BY <4>1, <4>2 DEF Idle
        <3>5. Cardinality(E) <= MaxNodeDepth
            <4> HIDE DEF D, E
            <4> QED BY <1>0, <3>1, <3>2, <3>3
        <3> QED BY <3>4, <3>5
    <2>4. CASE W[w].node # n
        <3>1. E \subseteq D
            BY <2>1, <2>2, <2>4
        <3>2. Cardinality(E) \in Nat /\ Cardinality(E) <= Cardinality(D)
            BY <1>0, <3>1, FS_Subset, FS_CardinalityType
        <3>3. ASSUME NEW v \in Workers, op'[v].kind = "prepare", W[v].node = n
              PROVE  Cardinality(D) < MaxNodeDepth
            <4>1. WorkerStep(w) /\ v # w
                BY <1>3, <2>4, <3>3 DEF PlacedBy, WorkerStep
            <4>2. op'[v] = op[v]
                BY <1>3, <4>1 DEF PlacedBy, PrepareWrite, TypeOK, Procs
            <4> QED BY <3>3, <4>2 DEF DepthInv, RoomSeen
        <3> HIDE DEF D, E
        <3> QED BY <1>0, <3>2, <3>3
    <2> QED BY <2>3, <2>4
<1> HIDE DEF D, E
<1> QED BY <1>0, <1>2, <1>3, PlaceSteps

(* prepare_ready(max_node_depth) keeps a node's prepared and running model  *)
(* requests within its depth, whatever is requeued, retried, cancelled or   *)
(* reaped meanwhile, provided each node has one worker that prepares for it *)
(* and services name the node of their requests: the inductive invariant is *)
(* that a worker between its count and its write still has room.            *)
THEOREM NodeDepthHolds ==
    ASSUME ServiceBound, OneWorkerPerNode
    PROVE  Spec => []NodeDepthBound
<1>1. Init => DepthInv
    <2> SUFFICES ASSUME Init PROVE DepthInv
        OBVIOUS
    <2>1. \A n \in Nodes : DepthRows(n) = {}
        BY DEF Init, DepthRows, AbsentRow
    <2>2. NodeDepthBound
        BY <2>1, FS_EmptySet, BoundsType DEF NodeDepthBound, DepthRows
    <2>3. RoomSeen
        BY DEF Init, RoomSeen, Idle, Procs
    <2> QED BY <2>2, <2>3 DEF DepthInv
<1>2. TypeOK /\ PlaceInv /\ DepthInv /\ [Next]_vars => DepthInv'
    <2> SUFFICES ASSUME TypeOK, PlaceInv, DepthInv, [Next]_vars, MaxNodeDepth > 0
                 PROVE  NodeDepthBound' /\ RoomSeen'
        BY DEF DepthInv, NodeDepthBound
    <2>1. NodeDepthBound'
        BY DepthInvStep DEF NodeDepthBound, DepthRows
    <2>2. RoomSeen'
        BY DepthInvStep DEF RoomSeen, DepthRows
    <2> QED BY <2>1, <2>2
<1>3. DepthInv => NodeDepthBound
    BY DEF DepthInv
<1> QED BY <1>1, <1>2, <1>3, TypeCorrect, PlaceInvariant, PTL DEF Spec

-----------------------------------------------------------------------------
(* KV entries.                                                              *)

(* The slots a request may reserve, wherever it is placed.                  *)
SlotsOf(r) == UNION {KvSlots(r, n) : n \in Nodes}

(* No two requests name one KV key in one scope.  A shared entry belongs to *)
(* the last request that reserved it and is idled or deleted with that one: *)
(* the run v_kv_shared shows it purged under the other.                     *)
KeysApart == \A q, r \in Requests : q # r => SlotsOf(q) \cap SlotsOf(r) = {}

(* submit_cpu_requests names no KV. *)
CpuWithoutKv == \A r \in Requests : Req[r].kind = "cpu" => ~NeedsKv(r)

(* An entry is in a slot of its request, and idle only when that has ended. *)
EntriesOwned ==
    \A s \in Slots : kv[s] # None =>
        /\ kv[s].req \in Requests /\ s \in SlotsOf(kv[s].req)
        /\ kv[s].idle => requests[kv[s].req].state \in Terminal

(* What a prepare in progress is about to evict belongs to nobody who runs. *)
VictimsSettled ==
    \A w \in Workers : op[w].kind = "prepare" =>
        \A s \in op[w].evict : \A q \in Requests :
            s \in SlotsOf(q) => requests[q].state \in Terminal

KvInv == EntriesOwned /\ VictimsSettled /\ KvProtected

(* The entry prepare_ready writes. *)
NewEntry(r) == [req |-> r, bytes |-> SlotBytes(r), idle |-> FALSE]

LEMMA NewEntryFields ==
    ASSUME NEW r \in Requests
    PROVE  NewEntry(r) # None /\ NewEntry(r).req = r /\ NewEntry(r).idle = FALSE
<1>1. NewEntry(r) \in KvEntry
    BY SlotBytesType DEF NewEntry, KvEntry
<1> QED BY <1>1, NoneIsNoEntry DEF NewEntry

(* The slots of a request placed on a node are slots of the tables.         *)
LEMMA SlotsPlaced ==
    ASSUME NEW r \in Requests, NEW n \in OrNone(Nodes), NeedsKv(r) => n # None
    PROVE  KvSlots(r, n) \subseteq Slots /\ KvSlots(r, n) \subseteq SlotsOf(r)
<1>1. CASE ~NeedsKv(r)
    BY <1>1 DEF KvSlots
<1>2. CASE NeedsKv(r)
    <2>1. n \in Nodes
        BY <1>2 DEF OrNone
    <2>2. Req[r].key \in Keys /\ Req[r].service \in OrNone(Services)
        BY <1>2, ReqType DEF NeedsKv, OrNone
    <2>3. KvSlots(r, n) \subseteq Slots
        <3>1. CASE Pipelined(r)
            <4>1. Req[r].service \in Services
                BY <2>2, <3>1 DEF Pipelined, OrNone
            <4>2. ServiceNodes[Req[r].service] \subseteq Nodes
                BY <4>1, ServiceNodesType
            <4>3. KvSlots(r, n) = [scope: {Req[r].service}, node: ServiceNodes[Req[r].service],
                                   key: {Req[r].key}]
                BY <1>2, <3>1 DEF KvSlots
            <4> QED BY <2>2, <4>1, <4>2, <4>3 DEF Slots, OrNone
        <3>2. CASE ~Pipelined(r)
            <4>1. KvSlots(r, n) = [scope: {None}, node: {n}, key: {Req[r].key}]
                BY <1>2, <3>2 DEF KvSlots
            <4> QED BY <2>1, <2>2, <4>1 DEF Slots, OrNone
        <3> QED BY <3>1, <3>2
    <2> QED BY <2>1, <2>3 DEF SlotsOf
<1> QED BY <1>1, <1>2

(* What one step can do to an entry. *)
Entered(w, s) ==
    /\ PrepareWrite(w) /\ op[w].kind = "prepare" /\ op[w].r \in Requests
    /\ s \in KvSlots(op[w].r, op[w].node) /\ kv'[s] = NewEntry(op[w].r)
Evicted(w, s) ==
    /\ PrepareWrite(w) /\ op[w].kind = "prepare" /\ op[w].r \in Requests
    /\ s \in op[w].evict /\ kv'[s] = None
Dropped(s) ==
    /\ kv[s] # None /\ kv'[s] = None
    /\ requests'[kv[s].req].state \notin {"ready", "running"}
    /\ \A w \in Workers : op[w].kind = "prepare" => op'[w] = op[w]
Idled(s) ==
    /\ kv[s] # None /\ kv'[s] = [kv[s] EXCEPT !.idle = TRUE]
    /\ requests'[kv[s].req].state \in Terminal

LEMMA KvSteps ==
    ASSUME Clients = {}, TypeOK, HeldInv, [Next]_vars, NEW s \in Slots
    PROVE  \/ kv'[s] = kv[s] \/ Dropped(s) \/ Idled(s)
           \/ \E w \in Workers : Entered(w, s) \/ Evicted(w, s)
<1> DEFINE Goal == \/ kv'[s] = kv[s] \/ Dropped(s) \/ Idled(s)
                   \/ \E w \in Workers : Entered(w, s) \/ Evicted(w, s)
<1>1. ASSUME NEW w \in Workers, PrepareWrite(w) PROVE Goal
    <2>1. op[w].kind = "prepare" /\ op[w].r \in Requests
        BY <1>1, OpFields DEF PrepareWrite, Procs
    <2>2. kv'[s] = IF s \in KvSlots(op[w].r, op[w].node) THEN NewEntry(op[w].r)
                   ELSE IF s \in op[w].evict THEN None ELSE kv[s]
        BY <1>1 DEF PrepareWrite, NewEntry
    <2> QED BY <1>1, <2>1, <2>2 DEF Entered, Evicted
<1>2. ASSUME NEW w \in Workers, FinishWrite(w) PROVE Goal
    <2> DEFINE c == op[w].claim
    <2>1. c \in claims[w] /\ Holds(c.r, c.n) /\ c.r \in Requests /\ op[w].final \in Terminal
        BY <1>2, ClaimFields, OpFields
           DEF FinishWrite, HeldInv, ClaimInv, ReportsOwnClaim, ClaimsHeld, TypeOK, Procs
    <2>2. requests'[c.r] = SettledRow(c.r, op[w].final)
        BY <1>2, <2>1 DEF FinishWrite, TypeOK
    <2>3. requests'[c.r].state \in Terminal
        BY <2>1, <2>2, RowEffects
    <2>4. \/ kv'[s] = kv[s]
          \/ kv[s] # None /\ kv[s].req = c.r /\ kv'[s] = [kv[s] EXCEPT !.idle = TRUE]
        BY <1>2 DEF FinishWrite, IdleKv
    <2> QED BY <2>3, <2>4 DEF Idled
<1>3. ASSUME NEW w \in Workers, RetryWrite(w) PROVE Goal
    <2> DEFINE c == op[w].claim
    <2>1. c \in claims[w] /\ Holds(c.r, c.n) /\ c.r \in Requests
        BY <1>3, ClaimFields DEF RetryWrite, HeldInv, ClaimInv, ReportsOwnClaim, ClaimsHeld, TypeOK
    <2>2. op[w].final \in {"queued", "failed", "cancelled"}
        BY <1>3, OpFields DEF RetryWrite, Procs
    <2>3. requests'[c.r] = IF op[w].final = "queued" THEN RequeuedRow(c.r)
                           ELSE SettledRow(c.r, op[w].final)
        BY <1>3, <2>1 DEF RetryWrite, TypeOK
    <2>4. requests'[c.r].state \notin {"ready", "running"}
        BY <2>1, <2>2, <2>3, RowEffects DEF Terminal
    <2>5. kv'[s] = kv[s] \/ (kv[s] # None /\ kv[s].req = c.r /\ kv'[s] = None)
        BY <1>3 DEF RetryWrite, WithoutKv
    <2>6. ASSUME NEW v \in Workers, op[v].kind = "prepare" PROVE op'[v] = op[v]
        <3>1. v # w
            BY <1>3, <2>6 DEF RetryWrite
        <3> QED BY <1>3, <3>1 DEF RetryWrite, TypeOK, Procs
    <2> QED BY <2>4, <2>5, <2>6 DEF Dropped
<1>4. CASE Reap
    <2>1. kv'[s] = kv[s] \/ (kv[s] # None /\ kv[s].req \in Expired \ Spent /\ kv'[s] = None)
        BY <1>4 DEF Reap, WithoutKv
    <2>2. ASSUME NEW r \in Expired \ Spent PROVE requests'[r].state = "queued"
        <3>1. r \in Requests /\ requests'[r] = RequeuedRow(r)
            BY <1>4 DEF Reap, Expired
        <3> QED BY <3>1, RowEffects
    <2>3. op' = op
        BY <1>4 DEF Reap
    <2> QED BY <2>1, <2>2, <2>3 DEF Dropped
<1>5. ASSUME kv' = kv PROVE Goal
    BY <1>5
<1>6. \/ kv' = kv \/ Reap
      \/ \E w \in Workers : PrepareWrite(w) \/ FinishWrite(w) \/ RetryWrite(w)
    BY DEF Next, WorkerStep, Submit, PrepareRead, ClaimRead, RefillRead, ClaimNone, ClaimAcquire,
       ClaimExtend, FinishLost, FinishRead, RetryRead, WriteNotice, HeartbeatRead,
       HeartbeatWrite, HeartbeatLost, Crash, Tick, vars
<1> QED BY <1>1, <1>2, <1>3, <1>4, <1>5, <1>6

(* An entry keeps an owner, and a new one is not idle.                      *)
LEMMA EntriesStep ==
    ASSUME Clients = {}, TypeOK, TypeOK', HeldInv, PlaceInv, KvInv, [Next]_vars
    PROVE  EntriesOwned'
<1> SUFFICES ASSUME NEW s \in Slots, kv'[s] # None
             PROVE  /\ kv'[s].req \in Requests /\ s \in SlotsOf(kv'[s].req)
                    /\ kv'[s].idle => requests'[kv'[s].req].state \in Terminal
    BY DEF EntriesOwned, SlotsOf, KvSlots, NeedsKv, Pipelined
<1>1. kv[s] # None => /\ kv[s].req \in Requests /\ s \in SlotsOf(kv[s].req)
                      /\ kv[s].idle => requests[kv[s].req].state \in Terminal
    BY DEF KvInv, EntriesOwned
<1>2. CASE kv'[s] = kv[s]
    BY <1>1, <1>2, SettledStays
<1>3. CASE Idled(s)
    <2>1. kv[s] \in KvEntry
        BY <1>3 DEF Idled, TypeOK, OrNone
    <2>2. kv'[s].req = kv[s].req
        BY <1>3, <2>1 DEF Idled, KvEntry
    <2> QED BY <1>1, <1>3, <2>2 DEF Idled
<1>4. ASSUME NEW w \in Workers, Entered(w, s)
      PROVE  /\ kv'[s].req \in Requests /\ s \in SlotsOf(kv'[s].req)
             /\ kv'[s].idle => requests'[kv'[s].req].state \in Terminal
    <2>1. op[w].node \in OrNone(Nodes) /\ (NeedsKv(op[w].r) => op[w].node # None)
        BY <1>4, OpFields DEF Entered, PlaceInv, PrepareNode, Procs
    <2>2. s \in SlotsOf(op[w].r)
        BY <1>4, <2>1, SlotsPlaced DEF Entered
    <2> QED BY <1>4, <2>2, NewEntryFields DEF Entered
<1>5. ~Dropped(s) /\ \A w \in Workers : ~Evicted(w, s)
    BY DEF Dropped, Evicted
<1> QED BY <1>2, <1>3, <1>4, <1>5, KvSteps

(* A victim was idle when it was selected, so its one possible owner had    *)
(* ended, and what has ended stays so until the eviction.                   *)
LEMMA VictimsStep ==
    ASSUME Clients = {}, KeysApart, TypeOK, KvInv, [Next]_vars
    PROVE  VictimsSettled'
<1> SUFFICES ASSUME NEW w \in Workers, op'[w].kind = "prepare", NEW s \in op'[w].evict,
                    NEW q \in Requests, s \in SlotsOf(q)
             PROVE  requests'[q].state \in Terminal
    BY DEF VictimsSettled, SlotsOf, KvSlots, NeedsKv, Pipelined
<1>1. CASE op'[w] = op[w]
    BY <1>1, SettledStays DEF KvInv, VictimsSettled
<1>2. CASE PrepareRead(w)
    <2>1. PICK r \in Requests : PreparesRow(w, r)
        BY <1>2, PrepareSelects
    <2>2. s \in Slots /\ Evictable(s)
        BY <2>1 DEF PreparesRow, EvictionPlans
    <2>3. /\ kv[s].req \in Requests /\ s \in SlotsOf(kv[s].req)
          /\ requests[kv[s].req].state \in Terminal
        BY <2>2 DEF Evictable, KvInv, EntriesOwned
    <2>4. kv[s].req = q
        BY <2>3 DEF KeysApart
    <2>5. requests' = requests
        BY <1>2 DEF PrepareRead
    <2> QED BY <2>3, <2>4, <2>5
<1> QED BY <1>1, <1>2, PrepareOps

(* The entries of a placed request outlive every step that leaves it        *)
(* placed.                                                                  *)
LEMMA ProtectedStep ==
    ASSUME Clients = {}, KeysApart, TypeOK, TypeOK', HeldInv, PlaceInv, PlaceInv', KvInv, [Next]_vars
    PROVE  KvProtected'
<1> SUFFICES ASSUME NEW r \in Requests, requests'[r].state \in {"ready", "running"},
                    Req[r].kind = "model", NEW s \in KvSlots(r, requests'[r].node)
             PROVE  kv'[s] # None /\ kv'[s].req = r /\ ~kv'[s].idle
    BY DEF KvProtected, KvSlots, NeedsKv, Pipelined
<1>1. s \in Slots /\ s \in SlotsOf(r)
    <2>1. requests'[r].node \in OrNone(Nodes)
        BY DEF TypeOK, Row
    <2>2. NeedsKv(r) => requests'[r].node # None
        BY DEF PlaceInv, PlacedOnNode, Placed, NeedsKv
    <2> QED BY <2>1, <2>2, SlotsPlaced
<1>2. requests'[r].state \notin Terminal
    BY DEF Terminal
<1>3. ASSUME NEW w \in Workers, Entered(w, s)
      PROVE  kv'[s] # None /\ kv'[s].req = r /\ ~kv'[s].idle
    <2>1. op[w].node \in OrNone(Nodes) /\ (NeedsKv(op[w].r) => op[w].node # None)
        BY <1>3, OpFields DEF Entered, PlaceInv, PrepareNode, Procs
    <2>2. s \in SlotsOf(op[w].r)
        BY <1>3, <2>1, SlotsPlaced DEF Entered
    <2>3. op[w].r = r
        BY <1>1, <1>3, <2>2 DEF KeysApart, Entered
    <2> QED BY <1>3, <2>3, NewEntryFields DEF Entered
<1>4. CASE SamePlace(r)
    <2>1. kv[s] # None /\ kv[s].req = r /\ ~kv[s].idle
        BY <1>4 DEF SamePlace, Placed, KvInv, KvProtected
    <2>2. ~Dropped(s) /\ ~Idled(s)
        BY <1>2, <2>1 DEF Dropped, Idled
    <2>3. ASSUME NEW w \in Workers PROVE ~Evicted(w, s)
        <3>1. requests[r].state \notin Terminal
            BY <1>4 DEF SamePlace, Placed, Terminal
        <3> QED BY <1>1, <3>1 DEF Evicted, KvInv, VictimsSettled
    <2> QED BY <1>1, <1>3, <2>1, <2>2, <2>3, KvSteps
<1>5. ASSUME NEW w \in Workers, PlacedBy(w, r)
      PROVE  kv'[s] # None /\ kv'[s].req = r /\ ~kv'[s].idle
    <2>1. requests'[r].node = op[w].node
        BY <1>5 DEF PlacedBy, PlaceInv, PrepareNode
    <2>2. kv'[s] = NewEntry(r)
        BY <1>1, <1>5, <2>1 DEF PlacedBy, PrepareWrite, NewEntry
    <2> QED BY <2>2, NewEntryFields
<1>6. ~FirstPlace(r) /\ ~Unplaced(r)
    BY DEF FirstPlace, Unplaced
<1> QED BY <1>4, <1>5, <1>6, RowPlaces

LEMMA KvInvariant ==
    ASSUME OnTime, Clients = {}, KeysApart, ServiceBound
    PROVE  Spec => []KvInv
<1>1. Init => KvInv
    BY DEF Init, KvInv, EntriesOwned, VictimsSettled, KvProtected, Idle, Procs, AbsentRow
<1>2. TypeOK /\ TypeOK' /\ HeldInv /\ PlaceInv /\ PlaceInv' /\ KvInv /\ [Next]_vars => KvInv'
    <2> SUFFICES ASSUME TypeOK, TypeOK', HeldInv, PlaceInv, PlaceInv', KvInv, [Next]_vars
                 PROVE  KvInv'
        OBVIOUS
    <2>1. EntriesOwned'
        BY EntriesStep
    <2>2. VictimsSettled'
        BY VictimsStep
    <2>3. KvProtected'
        BY ProtectedStep
    <2> QED BY <2>1, <2>2, <2>3 DEF KvInv
<1> QED BY <1>1, <1>2, TypeCorrect, HeldInvariant, PlaceInvariant, PTL DEF Spec

(* prepare_ready reserves the KV of a request before it makes it ready, and *)
(* the reservation stands, not idle, until the request ends or goes back to *)
(* the queue, whatever other workers prepare, finish, retry and evict in    *)
(* between and whoever crashes, as long as requests do not share a KV key,  *)
(* nobody cancels and live workers heartbeat in time.  The invariant says   *)
(* why a selection of victims that is stale by the time of its transaction  *)
(* does no harm: their owners have ended for good.                          *)
THEOREM KvStaysReserved ==
    ASSUME OnTime, Clients = {}, KeysApart, ServiceBound
    PROVE  Spec => []KvProtected
<1>1. KvInv => KvProtected
    BY DEF KvInv
<1> QED BY <1>1, KvInvariant, PTL

(* The eviction of a prepare_ready leaves the entries of every ready or     *)
(* running request (queue.py _kv_victims_to_fit), under the same            *)
(* conditions: the property the run v_kv_shared shows violated when two     *)
(* requests share a key.                                                    *)
THEOREM NothingReservedPurged ==
    ASSUME OnTime, Clients = {}, KeysApart, ServiceBound, CpuWithoutKv
    PROVE  Spec => ReservedKvNotPurged
<1>1. TypeOK /\ HeldInv /\ PlaceInv /\ KvInv /\ [Next]_vars =>
        \A r \in Requests : \A s \in KvSlots(r, requests[r].node) :
            /\ requests[r].state \in {"ready", "running"} /\ kv[s] # None
            /\ \E w \in Workers : op[w].kind = "prepare" /\ op'[w] = Idle
            => kv'[s] # None
    <2> SUFFICES ASSUME TypeOK, HeldInv, PlaceInv, KvInv, [Next]_vars,
                        NEW r \in Requests, NEW s \in KvSlots(r, requests[r].node),
                        requests[r].state \in {"ready", "running"}, kv[s] # None,
                        NEW w \in Workers, op[w].kind = "prepare", op'[w] = Idle,
                        kv'[s] = None
                 PROVE  FALSE
        OBVIOUS
    <2>1. NeedsKv(r)
        BY DEF KvSlots
    <2>2. Req[r].kind = "model"
        BY <2>1, ReqType DEF CpuWithoutKv
    <2>3. s \in Slots /\ s \in SlotsOf(r)
        <3>1. requests[r].node # None /\ requests[r].node \in OrNone(Nodes)
            BY <2>1, <2>2 DEF PlaceInv, PlacedOnNode, Placed, TypeOK, Row
        <3> QED BY <3>1, SlotsPlaced
    <2>4. op'[w] # op[w]
        BY DEF Idle
    <2>5. ~Dropped(s)
        BY <2>4 DEF Dropped
    <2>6. ~Idled(s)
        <3>1. kv[s] \in KvEntry
            BY <2>3 DEF TypeOK, OrNone
        <3>2. [kv[s] EXCEPT !.idle = TRUE] \in KvEntry
            BY <3>1 DEF KvEntry
        <3> QED BY <3>2, NoneIsNoEntry DEF Idled
    <2>7. ASSUME NEW v \in Workers PROVE ~Evicted(v, s)
        <3>1. requests[r].state \notin Terminal
            BY DEF Terminal
        <3> QED BY <2>3, <3>1 DEF Evicted, KvInv, VictimsSettled
    <2>8. ASSUME NEW v \in Workers PROVE ~Entered(v, s)
        BY NewEntryFields DEF Entered
    <2> QED BY <2>3, <2>5, <2>6, <2>7, <2>8, KvSteps
<1> QED BY <1>1, TypeCorrect, HeldInvariant, PlaceInvariant, KvInvariant, PTL DEF Spec, ReservedKvNotPurged

-----------------------------------------------------------------------------
(* KV capacity.                                                             *)

(* A pipeline service has one entry node, to which its requests are bound.  *)
ServiceEntry ==
    \A q, r \in Requests :
        Req[q].service # None /\ Req[q].service = Req[r].service => Req[q].node = Req[r].node

(* A table of KV entries, and the bytes it has in a set of slots: the sum   *)
(* that BytesIn computes.                                                   *)
EntryTable(t) ==
    /\ t \in [Slots -> OrNone(KvEntry)]
    /\ \A s \in Slots : t[s] # None => \E r \in Requests : s.key = Req[r].key
EntryBytes(t, S) == MapThenSumSet(LAMBDA s : t[s].bytes, S)
Total(t, S) == SumOver([s \in Slots |-> t[s].bytes], S)

LEMMA BytesAreTotal ==
    ASSUME NEW t, NEW S \in SUBSET Slots, IsFiniteSet(S), \A s \in S : t[s].bytes \in Nat
    PROVE  EntryBytes(t, S) = Total(t, S) /\ Total(t, S) \in Nat
<1> DEFINE f == [s \in Slots |-> t[s].bytes]
           Sums(iter) == iter = [s \in SUBSET S |->
                                   IF s = {} THEN 0
                                   ELSE t[CHOOSE x \in s : TRUE].bytes + iter[s \ {CHOOSE x \in s : TRUE}]]
           g == CHOOSE iter : Sums(iter)
<1>1. EntryBytes(t, S) = g[S]
    BY DEF EntryBytes, MapThenSumSet, MapThenFoldSet
<1>2. ASSUME NEW h, SumsUp(h, f, S) PROVE Sums(h)
    <2>1. \A s \in SUBSET S : s # {} => Pick(s) \in S /\ f[Pick(s)] = t[Pick(s)].bytes
        BY PickIn
    <2> QED BY <1>2, <2>1 DEF SumsUp, Pick
<1>3. ASSUME NEW h, Sums(h) PROVE SumsUp(h, f, S)
    <2>1. \A s \in SUBSET S : s # {} => Pick(s) \in S /\ f[Pick(s)] = t[Pick(s)].bytes
        BY PickIn
    <2> QED BY <1>3, <2>1 DEF SumsUp, Pick
<1>4. \A x \in S : f[x] \in Nat
    OBVIOUS
<1> HIDE DEF f, Sums
<1>5. PICK h : SumsUp(h, f, S)
    BY <1>4, SumsUpExists
<1>6. SumsUp(g, f, S)
    BY <1>2, <1>3, <1>5
<1> HIDE DEF g
<1>7. g[S] = SumOver(f, S) /\ SumOver(f, S) \in Nat
    BY <1>4, <1>6, SumOverType
<1> QED BY <1>1, <1>7 DEF f, Total

(* One node's pool, and what it holds without the entries in V.             *)
PoolOf(t, scope, n) == {s \in Slots : s.scope = scope /\ s.node = n /\ t[s] # None}
BytesHeld(t, scope, n, V) == Total(t, PoolOf(t, scope, n) \ V)

(* An entry's key is one that a request names, so a pool is finite.         *)
LEMMA PoolsFinite ==
    ASSUME NEW t, EntryTable(t), NEW scope, NEW n
    PROVE  /\ IsFiniteSet(PoolOf(t, scope, n))
           /\ \A s \in PoolOf(t, scope, n) : s \in Slots /\ t[s].bytes \in Nat
<1> DEFINE At(r) == [scope |-> scope, node |-> n, key |-> Req[r].key]
           Named(U) == {At(r) : r \in U}
           T == {U \in SUBSET Requests : IsFiniteSet(Named(U))}
<1>1. ASSUME NEW U \in SUBSET Requests, \A V \in SUBSET U : V # U => V \in T
      PROVE  U \in T
    <2>1. CASE U = {}
        <3>1. Named(U) = {}
            BY <2>1
        <3> QED BY <3>1, FS_EmptySet
    <2>2. CASE U # {}
        <3>1. PICK r : r \in U
            BY <2>2
        <3>2. IsFiniteSet(Named(U \ {r}))
            BY <1>1, <3>1
        <3> DEFINE N == Named(U \ {r})
                   a == At(r)
        <3>3. Named(U) = N \cup {a} /\ IsFiniteSet(N)
            BY <3>1, <3>2
        <3>4. IsFiniteSet(N \cup {a})
            <4> HIDE DEF N, a
            <4> QED BY <3>3, FS_AddElement
        <3> QED BY <3>3, <3>4
    <2> QED BY <2>1, <2>2
<1>2. Requests \in T
    <2>1. \A U \in SUBSET Requests : (\A V \in SUBSET U : V # U => V \in T) => U \in T
        BY <1>1
    <2> HIDE DEF T
    <2>2. SUBSET Requests \subseteq T
        BY <2>1, RequestsFinite, SubsetInduction
    <2> QED BY <2>2
<1>3. PoolOf(t, scope, n) \subseteq Named(Requests)
    BY DEF PoolOf, EntryTable, Slots
<1>4. \A s \in Slots : t[s] # None => t[s] \in KvEntry
    BY DEF EntryTable, OrNone
<1> HIDE DEF Named
<1> QED BY <1>2, <1>3, <1>4, FS_Subset DEF PoolOf, KvEntry

LEMMA HeldType ==
    ASSUME NEW t, EntryTable(t), NEW scope, NEW n, NEW V
    PROVE  /\ BytesHeld(t, scope, n, V) \in Nat
           /\ EntryBytes(t, PoolOf(t, scope, n) \ V) = BytesHeld(t, scope, n, V)
<1> DEFINE S == PoolOf(t, scope, n) \ V
<1>1. S \in SUBSET Slots /\ IsFiniteSet(S) /\ \A s \in S : t[s].bytes \in Nat
    BY PoolsFinite, FS_Subset
<1> HIDE DEF S
<1>2. EntryBytes(t, S) = Total(t, S) /\ Total(t, S) \in Nat
    BY <1>1, BytesAreTotal
<1> QED BY <1>2 DEF S, BytesHeld

(* Entries of a table u that an earlier table t had in a pool, outside V.   *)
LEMMA HeldShrinks ==
    ASSUME NEW t, EntryTable(t), NEW u, EntryTable(u), NEW scope, NEW n, NEW V, NEW R,
           R \subseteq PoolOf(u, scope, n), R \subseteq PoolOf(t, scope, n) \ V,
           \A s \in R : u[s].bytes = t[s].bytes
    PROVE  Total(u, R) \in Nat /\ Total(u, R) <= BytesHeld(t, scope, n, V)
<1> DEFINE S == PoolOf(t, scope, n) \ V
           f == [s \in Slots |-> u[s].bytes]
           e == [s \in Slots |-> t[s].bytes]
<1>1. S \in SUBSET Slots /\ IsFiniteSet(S) /\ \A s \in S : e[s] \in Nat
    BY PoolsFinite, FS_Subset
<1>2. R \in SUBSET S /\ IsFiniteSet(R) /\ \A s \in R : f[s] = e[s]
    BY <1>1, FS_Subset
<1>3. Total(u, R) = SumOver(f, R) /\ BytesHeld(t, scope, n, V) = SumOver(e, S)
    BY DEF Total, BytesHeld
<1> HIDE DEF S, f, e
<1>4. \A s \in R : f[s] \in Nat /\ f[s] <= e[s]
    BY <1>1, <1>2
<1>5. SumOver(f, R) <= SumOver(e, S) /\ SumOver(f, R) \in Nat
    BY <1>1, <1>2, <1>4, SumOverMonotone, SumOverType
<1> QED BY <1>3, <1>5

(* One more entry. *)
LEMMA HeldWith ==
    ASSUME NEW t, EntryTable(t), NEW scope, NEW n, NEW s \in PoolOf(t, scope, n)
    PROVE  BytesHeld(t, scope, n, {}) = t[s].bytes + Total(t, PoolOf(t, scope, n) \ {s})
<1> DEFINE S == PoolOf(t, scope, n)
           f == [x \in Slots |-> t[x].bytes]
<1>1. IsFiniteSet(S) /\ S \ {} = S /\ f[s] = t[s].bytes /\ \A x \in S : f[x] \in Nat
    <2>1. IsFiniteSet(S) /\ \A x \in S : x \in Slots /\ t[x].bytes \in Nat
        BY PoolsFinite
    <2> HIDE DEF S
    <2>2. \A x \in S : f[x] = t[x].bytes
        BY <2>1
    <2> HIDE DEF f
    <2> QED BY <2>1, <2>2 DEF S
<1>2. BytesHeld(t, scope, n, {}) = SumOver(f, S \ {}) /\ Total(t, S \ {s}) = SumOver(f, S \ {s})
    BY DEF Total, BytesHeld
<1> HIDE DEF S, f
<1>3. SumOver(f, S) = f[s] + SumOver(f, S \ {s})
    BY <1>1, SumOverAdd DEF S
<1>4. BytesHeld(t, scope, n, {}) = SumOver(f, S)
    BY <1>1, <1>2
<1> QED BY <1>1, <1>2, <1>3, <1>4 DEF S

(* What a prepare in progress has selected to evict leaves room in each     *)
(* pool its reservation enters.                                             *)
RoomKept ==
    \A w \in Workers : op[w].kind = "prepare" =>
        \A s \in KvSlots(op[w].r, op[w].node) :
            BytesHeld(kv, s.scope, s.node, op[w].evict) + SlotBytes(op[w].r) <= Capacity
PoolsFit == \A s \in Slots : BytesHeld(kv, s.scope, s.node, {}) <= Capacity
CapacityInv == EntryTable(kv) /\ (Capacity > 0 => RoomKept /\ PoolsFit)

(* No two workers prepare into one pool. *)
LEMMA PoolsApart ==
    ASSUME ServiceBound, OneWorkerPerNode, ServiceEntry, TypeOK, PlaceInv,
           NEW v \in Workers, NEW w \in Workers, op[v].kind = "prepare", op[w].kind = "prepare",
           NEW s \in KvSlots(op[v].r, op[v].node), NEW t \in KvSlots(op[w].r, op[w].node),
           s.scope = t.scope, s.node = t.node
    PROVE  v = w
<1> DEFINE q == op[v].r
           r == op[w].r
<1>1. q \in Requests /\ r \in Requests
    BY OpFields DEF Procs
<1>2. W[v].node = op[v].node /\ W[w].node = op[w].node
    BY DEF PlaceInv, PrepareNode, OneWorkerPerNode
<1>3. ASSUME NEW x \in Requests, NEW n, NEW u \in KvSlots(x, n)
      PROVE  \/ Pipelined(x) /\ u.scope = Req[x].service /\ u.scope # None
             \/ ~Pipelined(x) /\ u.scope = None /\ u.node = n
    BY <1>3 DEF KvSlots, Pipelined
<1>4. op[v].node = op[w].node
    <2>1. CASE s.scope = None
        <3>1. s.node = op[v].node /\ t.node = op[w].node
            BY <1>1, <1>3, <2>1
        <3> QED BY <3>1
    <2>2. CASE s.scope # None
        <3>1. Req[q].service = Req[r].service /\ Req[q].service # None
            BY <1>1, <1>3, <2>2
        <3>2. op[v].node = Req[q].node /\ op[w].node = Req[r].node
            BY <3>1 DEF PlaceInv, PrepareNode
        <3> QED BY <1>1, <3>1, <3>2 DEF ServiceEntry
    <2> QED BY <2>1, <2>2
<1> QED BY <1>2, <1>4 DEF OneWorkerPerNode

(* What a step that writes no reservation does to an entry. *)
Lessened(s) == kv'[s] = None \/ (kv[s] # None /\ kv'[s] # None /\ kv'[s].bytes = kv[s].bytes)

LEMMA EntriesLessen ==
    ASSUME TypeOK, TypeOK', [Next]_vars, \A w \in Workers : ~PrepareWrite(w), NEW s \in Slots
    PROVE  Lessened(s)
<1>1. kv[s] = None \/ kv[s] \in KvEntry
    BY DEF TypeOK, OrNone
<1>2. ASSUME NEW r, kv' = IdleKv(r) PROVE Lessened(s)
    <2>1. kv'[s] = kv[s] \/ (kv[s] # None /\ kv'[s] = [kv[s] EXCEPT !.idle = TRUE])
        BY <1>2 DEF IdleKv
    <2>2. CASE kv[s] # None /\ kv'[s] = [kv[s] EXCEPT !.idle = TRUE]
        <3>1. kv[s] \in KvEntry /\ kv'[s] \in KvEntry /\ kv'[s].bytes = kv[s].bytes
            BY <1>1, <2>2 DEF KvEntry
        <3> QED BY <2>2, <3>1, NoneIsNoEntry DEF Lessened
    <2> QED BY <2>1, <2>2 DEF Lessened
<1>3. ASSUME NEW rs, kv' = WithoutKv(rs) PROVE Lessened(s)
    BY <1>3 DEF WithoutKv, Lessened
<1>4. CASE kv' = kv
    BY <1>4 DEF Lessened
<1>5. ASSUME NEW w \in Workers, FinishWrite(w) \/ RetryWrite(w) PROVE Lessened(s)
    BY <1>2, <1>3, <1>5 DEF FinishWrite, RetryWrite
<1>6. ASSUME NEW p \in Clients, CancelWrite(p) PROVE Lessened(s)
    BY <1>3, <1>6 DEF CancelWrite
<1>7. CASE Reap
    BY <1>3, <1>7 DEF Reap
<1>8. \/ kv' = kv \/ Reap
      \/ \E w \in Workers : FinishWrite(w) \/ RetryWrite(w)
      \/ \E p \in Clients : CancelWrite(p)
    BY DEF Next, WorkerStep, ClientStep, Submit, PrepareRead, ClaimRead, RefillRead, ClaimNone,
       ClaimAcquire, ClaimExtend, FinishLost, FinishRead, RetryRead, WriteNotice, HeartbeatRead,
       HeartbeatWrite, HeartbeatLost, Crash, Tick, CancelRead, RefreshRead, RefreshWrite, vars
<1> QED BY <1>4, <1>5, <1>6, <1>7, <1>8

(* Victims make room: the selection of prepare_ready. *)
LEMMA SelectsRoom ==
    ASSUME TypeOK, CapacityInv, Capacity > 0, NEW w \in Workers, PrepareRead(w),
           NEW s \in KvSlots(op'[w].r, op'[w].node)
    PROVE  kv' = kv /\ BytesHeld(kv, s.scope, s.node, op'[w].evict) + SlotBytes(op'[w].r) <= Capacity
<1>1. PICK r \in Requests : PreparesRow(w, r)
    BY PrepareSelects
<1> DEFINE V == op'[w].evict
           n == BindNode(w, r)
           P == Pool(s.scope, s.node)
           F == {v \in V : v.scope = s.scope /\ v.node = s.node}
<1>2. op'[w].r = r /\ op'[w].node = n /\ V \in EvictionPlans(r, n)
    BY <1>1 DEF PreparesRow
<1>3. F \in Victims(s.scope, s.node, SlotBytes(r))
    BY <1>2 DEF EvictionPlans
<1>4. FitsWithout(s.scope, s.node, SlotBytes(r), F)
    BY <1>3 DEF Victims
<1>5. BytesIn(P \ F) + SlotBytes(r) <= Capacity
    BY <1>4 DEF FitsWithout
<1>6. P \ F = PoolOf(kv, s.scope, s.node) \ V
    BY DEF Pool, PoolOf
<1>7. BytesIn(P \ F) = EntryBytes(kv, P \ F)
    BY DEF BytesIn, EntryBytes
<1> HIDE DEF V, n, P, F
<1>8. EntryBytes(kv, PoolOf(kv, s.scope, s.node) \ V) = BytesHeld(kv, s.scope, s.node, V)
    BY HeldType DEF CapacityInv
<1>9. kv' = kv
    BY DEF PrepareRead
<1> QED BY <1>2, <1>5, <1>6, <1>7, <1>8, <1>9 DEF V

(* A reservation: its pool holds what was left after the eviction and the   *)
(* new entry, every other pool no more than it did.                         *)
LEMMA ReservationFits ==
    ASSUME TypeOK, TypeOK', CapacityInv, EntryTable(kv'), Capacity > 0,
           NEW w \in Workers, PrepareWrite(w), NEW scope, NEW n
    PROVE  \/ /\ \E s \in KvSlots(op[w].r, op[w].node) : s.scope = scope /\ s.node = n
              /\ BytesHeld(kv', scope, n, {}) <= Capacity
           \/ \A V : BytesHeld(kv', scope, n, V) <= BytesHeld(kv, scope, n, V)
<1> DEFINE r == op[w].r
           slots == KvSlots(r, op[w].node)
           E == op[w].evict
<1>1. r \in Requests /\ op[w].kind = "prepare"
    BY OpFields DEF PrepareWrite, Procs
<1>2. \A s \in Slots : kv'[s] = IF s \in slots THEN NewEntry(r) ELSE IF s \in E THEN None ELSE kv[s]
    BY DEF PrepareWrite, NewEntry
<1>3. \A s, t \in slots : s.key = t.key
    BY DEF KvSlots
<1>4. EntryTable(kv)
    BY DEF CapacityInv
<1> HIDE DEF slots, E, r
<1>5. CASE \E s \in slots : s \in Slots /\ s.scope = scope /\ s.node = n
    <2>1. PICK s \in slots : s \in Slots /\ s.scope = scope /\ s.node = n
        BY <1>5
    <2>2. BytesHeld(kv, scope, n, E) + SlotBytes(r) <= Capacity
        BY <1>1, <2>1 DEF CapacityInv, RoomKept, slots, E, r
    <2>3. kv'[s].bytes = SlotBytes(r) /\ s \in PoolOf(kv', scope, n)
        <3>1. kv'[s] = NewEntry(r)
            BY <1>2, <2>1
        <3> QED BY <1>1, <2>1, <3>1, NewEntryFields DEF NewEntry, PoolOf
    <2> DEFINE R == PoolOf(kv', scope, n) \ {s}
    <2>4. ASSUME NEW x \in R PROVE x \in PoolOf(kv, scope, n) \ E /\ kv'[x].bytes = kv[x].bytes
        <3>1. x \in Slots /\ x.scope = scope /\ x.node = n /\ kv'[x] # None /\ x # s
            BY <2>4 DEF PoolOf
        <3>2. x \notin slots
            <4>1. x.key # s.key
                BY <2>1, <3>1 DEF Slots
            <4> QED BY <1>3, <2>1, <4>1
        <3>3. x \notin E /\ kv'[x] = kv[x]
            BY <1>2, <3>1, <3>2
        <3> QED BY <3>1, <3>3 DEF PoolOf
    <2>5. R \subseteq PoolOf(kv', scope, n)
        OBVIOUS
    <2>6. BytesHeld(kv', scope, n, {}) = kv'[s].bytes + Total(kv', R)
        BY <2>3, HeldWith
    <2> HIDE DEF R
    <2>7. Total(kv', R) \in Nat /\ Total(kv', R) <= BytesHeld(kv, scope, n, E)
        BY <1>4, <2>4, <2>5, HeldShrinks
    <2>8. SlotBytes(r) \in Nat /\ BytesHeld(kv, scope, n, E) \in Nat
        BY <1>1, <1>4, SlotBytesType, HeldType
    <2>9. BytesHeld(kv', scope, n, {}) <= Capacity
        BY <2>2, <2>3, <2>6, <2>7, <2>8, BoundsType
    <2> QED BY <2>1, <2>9 DEF slots, r
<1>6. CASE ~\E s \in slots : s \in Slots /\ s.scope = scope /\ s.node = n
    <2> SUFFICES ASSUME NEW V PROVE BytesHeld(kv', scope, n, V) <= BytesHeld(kv, scope, n, V)
        OBVIOUS
    <2> DEFINE R == PoolOf(kv', scope, n) \ V
    <2>1. ASSUME NEW x \in R PROVE x \in PoolOf(kv, scope, n) \ V /\ kv'[x].bytes = kv[x].bytes
        <3>1. x \in Slots /\ x.scope = scope /\ x.node = n /\ kv'[x] # None /\ x \notin V
            BY <2>1 DEF PoolOf
        <3>2. kv'[x] = kv[x]
            BY <1>2, <1>6, <3>1
        <3> QED BY <3>1, <3>2 DEF PoolOf
    <2>2. BytesHeld(kv', scope, n, V) = Total(kv', R) /\ R \subseteq PoolOf(kv', scope, n)
        BY DEF BytesHeld
    <2> HIDE DEF R
    <2>3. Total(kv', R) <= BytesHeld(kv, scope, n, V)
        BY <1>4, <2>1, <2>2, HeldShrinks
    <2> QED BY <2>2, <2>3
<1> QED BY <1>5, <1>6

LEMMA OthersFit ==
    ASSUME TypeOK, TypeOK', CapacityInv, EntryTable(kv'), [Next]_vars, \A w \in Workers : ~PrepareWrite(w),
           NEW scope, NEW n, NEW V
    PROVE  BytesHeld(kv', scope, n, V) <= BytesHeld(kv, scope, n, V)
<1> DEFINE R == PoolOf(kv', scope, n) \ V
<1>1. ASSUME NEW x \in R PROVE x \in PoolOf(kv, scope, n) \ V /\ kv'[x].bytes = kv[x].bytes
    <2>1. x \in Slots /\ x.scope = scope /\ x.node = n /\ kv'[x] # None /\ x \notin V
        BY <1>1 DEF PoolOf
    <2>2. Lessened(x)
        BY <2>1, EntriesLessen
    <2> QED BY <2>1, <2>2 DEF PoolOf, Lessened
<1>2. BytesHeld(kv', scope, n, V) = Total(kv', R) /\ R \subseteq PoolOf(kv', scope, n) /\ EntryTable(kv)
    BY DEF BytesHeld, CapacityInv
<1> HIDE DEF R
<1>3. Total(kv', R) <= BytesHeld(kv, scope, n, V)
    BY <1>1, <1>2, HeldShrinks
<1> QED BY <1>2, <1>3

LEMMA EntryTableStep ==
    ASSUME TypeOK, TypeOK', EntryTable(kv), [Next]_vars
    PROVE  EntryTable(kv')
<1>1. kv' \in [Slots -> OrNone(KvEntry)]
    BY DEF TypeOK
<1>2. ASSUME NEW s \in Slots, kv'[s] # None PROVE \E r \in Requests : s.key = Req[r].key
    <2>1. CASE \E w \in Workers : PrepareWrite(w)
        <3>1. PICK w \in Workers : PrepareWrite(w)
            BY <2>1
        <3>2. op[w].r \in Requests
            BY <3>1, OpFields DEF PrepareWrite, Procs
        <3>3. CASE s \in KvSlots(op[w].r, op[w].node)
            <4>1. s.key = Req[op[w].r].key
                BY <3>3 DEF KvSlots
            <4> QED BY <3>2, <4>1
        <3>4. CASE s \notin KvSlots(op[w].r, op[w].node)
            <4>1. kv'[s] = kv[s]
                BY <1>2, <3>1, <3>4 DEF PrepareWrite
            <4> QED BY <1>2, <4>1 DEF EntryTable
        <3> QED BY <3>3, <3>4
    <2>2. CASE \A w \in Workers : ~PrepareWrite(w)
        <3>1. kv[s] # None
            BY <1>2, <2>2, EntriesLessen DEF Lessened
        <3> QED BY <3>1 DEF EntryTable
    <2> QED BY <2>1, <2>2
<1> QED BY <1>1, <1>2 DEF EntryTable

LEMMA CapacityInvStep ==
    ASSUME ServiceBound, OneWorkerPerNode, ServiceEntry, TypeOK, TypeOK', PlaceInv, CapacityInv, [Next]_vars
    PROVE  CapacityInv'
<1>1. EntryTable(kv) /\ EntryTable(kv')
    BY EntryTableStep DEF CapacityInv
<1> SUFFICES ASSUME Capacity > 0 PROVE RoomKept' /\ PoolsFit'
    BY <1>1 DEF CapacityInv
<1>2. ASSUME NEW s \in Slots PROVE BytesHeld(kv', s.scope, s.node, {}) <= Capacity
    <2>1. BytesHeld(kv, s.scope, s.node, {}) <= Capacity
        BY DEF CapacityInv, PoolsFit
    <2>2. /\ BytesHeld(kv, s.scope, s.node, {}) \in Nat
          /\ BytesHeld(kv', s.scope, s.node, {}) \in Nat
        BY <1>1, HeldType
    <2>3. \/ BytesHeld(kv', s.scope, s.node, {}) <= Capacity
          \/ BytesHeld(kv', s.scope, s.node, {}) <= BytesHeld(kv, s.scope, s.node, {})
        <3>1. CASE \E w \in Workers : PrepareWrite(w)
            BY <1>1, <3>1, ReservationFits
        <3>2. CASE \A w \in Workers : ~PrepareWrite(w)
            BY <1>1, <3>2, OthersFit
        <3> QED BY <3>1, <3>2
    <2> QED BY <2>1, <2>2, <2>3, BoundsType
<1>3. ASSUME NEW v \in Workers, op'[v].kind = "prepare", NEW s \in KvSlots(op'[v].r, op'[v].node)
      PROVE  BytesHeld(kv', s.scope, s.node, op'[v].evict) + SlotBytes(op'[v].r) <= Capacity
    <2>1. CASE PrepareRead(v)
        <3>1. kv' = kv /\ BytesHeld(kv, s.scope, s.node, op'[v].evict) + SlotBytes(op'[v].r) <= Capacity
            BY <1>3, <2>1, SelectsRoom
        <3> QED BY <3>1
    <2>2. CASE op'[v] = op[v]
        <3> DEFINE E == op[v].evict
        <3>1. BytesHeld(kv, s.scope, s.node, E) + SlotBytes(op[v].r) <= Capacity /\ op[v].r \in Requests
            BY <1>3, <2>2, OpFields DEF CapacityInv, RoomKept, Procs
        <3> HIDE DEF E
        <3>2. /\ BytesHeld(kv, s.scope, s.node, E) \in Nat
              /\ BytesHeld(kv', s.scope, s.node, E) \in Nat
              /\ SlotBytes(op[v].r) \in Nat
            BY <1>1, <3>1, HeldType, SlotBytesType
        <3>3. BytesHeld(kv', s.scope, s.node, E) <= BytesHeld(kv, s.scope, s.node, E)
            <4>1. CASE \E w \in Workers : PrepareWrite(w)
                <5>1. PICK w \in Workers : PrepareWrite(w)
                    BY <4>1
                <5>2. op[w].kind = "prepare" /\ v # w
                    <6>1. op'[w] = Idle
                        BY <5>1 DEF PrepareWrite, TypeOK, Procs
                    <6> QED BY <1>3, <5>1, <6>1 DEF PrepareWrite, Idle
                <5>3. ~\E t \in KvSlots(op[w].r, op[w].node) : t.scope = s.scope /\ t.node = s.node
                    BY <1>3, <2>2, <5>2, PoolsApart
                <5> QED BY <1>1, <5>1, <5>3, ReservationFits
            <4>2. CASE \A w \in Workers : ~PrepareWrite(w)
                BY <1>1, <4>2, OthersFit
            <4> QED BY <4>1, <4>2
        <3> QED BY <2>2, <3>1, <3>2, <3>3, BoundsType DEF E
    <2> QED BY <1>3, <2>1, <2>2, PrepareOps
<1> QED BY <1>2, <1>3 DEF RoomKept, PoolsFit

(* kv_capacity_bytes is kept for every node's pool, legacy or of a service, *)
(* though prepare_ready selects its victims before it takes the write lock, *)
(* provided each node has one worker that prepares for it and a service     *)
(* binds its requests to its entry node: the inductive invariant is that    *)
(* what a worker has selected still makes room, since nobody else adds to   *)
(* its pools.                                                               *)
THEOREM CapacityHolds ==
    ASSUME ServiceBound, OneWorkerPerNode, ServiceEntry
    PROVE  Spec => []KvWithinCapacity
<1>1. Init => CapacityInv
    <2> SUFFICES ASSUME Init PROVE CapacityInv
        OBVIOUS
    <2>1. EntryTable(kv)
        BY DEF Init, EntryTable, OrNone
    <2>2. RoomKept
        BY DEF Init, RoomKept, Idle, Procs
    <2>3. ASSUME NEW s \in Slots PROVE BytesHeld(kv, s.scope, s.node, {}) = 0
        <3>1. PoolOf(kv, s.scope, s.node) \ {} = {}
            BY DEF Init, PoolOf
        <3>2. Total(kv, {}) = 0
            BY SumOverEmpty DEF Total
        <3> QED BY <3>1, <3>2 DEF BytesHeld
    <2>4. PoolsFit
        BY <2>3, BoundsType DEF PoolsFit
    <2> QED BY <2>1, <2>2, <2>4 DEF CapacityInv
<1>2. TypeOK /\ TypeOK' /\ PlaceInv /\ CapacityInv /\ [Next]_vars => CapacityInv'
    BY CapacityInvStep
<1>3. CapacityInv => KvWithinCapacity
    <2> SUFFICES ASSUME CapacityInv, Capacity > 0, NEW s \in Slots
                 PROVE  BytesIn(Pool(s.scope, s.node)) <= Capacity
        BY DEF KvWithinCapacity
    <2> DEFINE P == Pool(s.scope, s.node)
    <2>1. P = PoolOf(kv, s.scope, s.node) \ {}
        BY DEF Pool, PoolOf
    <2>2. BytesIn(P) = EntryBytes(kv, P)
        BY DEF BytesIn, EntryBytes
    <2>3. EntryBytes(kv, PoolOf(kv, s.scope, s.node) \ {}) = BytesHeld(kv, s.scope, s.node, {})
        BY HeldType DEF CapacityInv
    <2>4. BytesHeld(kv, s.scope, s.node, {}) <= Capacity
        BY DEF CapacityInv, PoolsFit
    <2> HIDE DEF P
    <2>5. BytesIn(P) <= Capacity
        BY <2>1, <2>2, <2>3, <2>4
    <2> QED BY <2>5 DEF P
<1> QED BY <1>1, <1>2, <1>3, TypeCorrect, PlaceInvariant, PTL DEF Spec
==============================================================================
