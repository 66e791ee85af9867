------------------------------- MODULE MCQueue -------------------------------
(***************************************************************************)
(* Values for TLC: small fleets, one definition per scenario.              *)
(***************************************************************************)
EXTENDS QueueProperties, TLC

CONSTANTS r1, r2, r3, r4, w1, w2, p1, b1, b2, svcA, svcB, dom, n1, n2, k1, k2

(* A model request bound to a service and its compute domain at submission. *)
Bound(b, s, prio) ==
    [batch |-> b, kind |-> "model", prio |-> prio, profile |-> "m", service |-> s,
     domain |-> dom, node |-> n1, key |-> None, bytes |-> 0]
(* A model request bound to a node when a worker prepares it. *)
LateBound(b, key, bytes) ==
    [batch |-> b, kind |-> "model", prio |-> 0, profile |-> "m", service |-> None,
     domain |-> None, node |-> None, key |-> key, bytes |-> bytes]
Cpu(b) ==
    [batch |-> b, kind |-> "cpu", prio |-> 0, profile |-> "cpu:text_metrics", service |-> None,
     domain |-> None, node |-> None, key |-> None, bytes |-> 0]

(* A worker that serves everything, one that is pinned to a node. *)
AnyWorker(id) == [node |-> None, profiles |-> {}, batch |-> None, service |-> None, by |-> id]
NodeWorker(n, id) == [AnyWorker(id) EXCEPT !.node = n, !.profiles = {"m"}]

(* Two services in one compute domain, two requests for the first. *)
RefillServices ==
    (r1 :> Bound(b1, svcA, 0)) @@ (r2 :> Bound(b1, svcA, 1)) @@ (r3 :> Bound(b2, svcB, 0))
(* A model request and a CPU request of one batch, any worker. *)
OneLateBound == r1 :> LateBound(b1, None, 0)
ModelAndCpu == (r1 :> LateBound(b1, None, 0)) @@ (r2 :> Cpu(b1))
(* KV: a pipelined service's shards beside a legacy pool, one shared key. *)
PipelineKv ==
    (r1 :> [Bound(b1, svcA, 0) EXCEPT !.key = k1, !.bytes = 3])
    @@ (r2 :> [Bound(b1, svcA, 0) EXCEPT !.key = k2, !.bytes = 3])
    @@ (r3 :> LateBound(b2, k1, 2)) @@ (r4 :> LateBound(b2, None, 0))
SharedKey == (r1 :> LateBound(b1, k1, 2)) @@ (r2 :> LateBound(b1, k1, 2)) @@ (r3 :> LateBound(b2, k2, 3))

TwoWorkers == (w1 :> AnyWorker("one")) @@ (w2 :> AnyWorker("two"))
OneName == (w1 :> AnyWorker("one")) @@ (w2 :> AnyWorker("one"))
OneNodeWorker == w1 :> NodeWorker(n1, "one")
NoServices == [s \in {} |-> {}]
SingleNodes == (svcA :> {n1}) @@ (svcB :> {n1})
PipelineNodes == (svcA :> {n1, n2}) @@ (svcB :> {n1})
=============================================================================
