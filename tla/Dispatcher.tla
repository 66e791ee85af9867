----------------------------- MODULE Dispatcher -----------------------------
(***************************************************************************)
(* The background dispatcher of the coordinator (api.py) and the cohort     *)
(* threads it starts (worker.py), over the life of a request that           *)
(* RequestLifecycle describes and InferenceQueue implements.                *)
(*                                                                         *)
(* The dispatcher thread runs _dispatcher_tick over and over: finish the    *)
(* cohorts whose future is done, heartbeat the claims it knows, refill the  *)
(* window with new cohorts.  A cohort thread settles its requests itself,   *)
(* tells the dispatcher through mark_finished, and in a rolling service     *)
(* claims more work on its own.  A claim is [r, n], n the attempt whose     *)
(* lease it is.  Prepare and claim are one step here.                       *)
(***************************************************************************)
EXTENDS Integers, FiniteSets, FiniteSetsExt

CONSTANTS
    Requests, Services, Domains,
    MaxCohorts,    \* bound on the cohorts pending at once
    None,
    ServiceOf,     \* the service a request was bound to at submission
    Plan,          \* ResidentServicePlan of a service, with its batch limits
    Modes,         \* values of DS4_API_RESIDENT_MULTIMODEL to consider
    Window, RefillBatch, CohortWorkers,
    MaxTransportAttempts, MaxLeaseAttempts,
    Results,       \* states a runner's result can ask for
    MaxDisturbances \* bound on cancelled requests, exceptions, crashes and stops together

Cohorts == 1..MaxCohorts
Settled == {"completed", "failed", "cancelled"}
OrNone(S) == S \cup {None}
RunModes == {"stream", "batch", "pairs"}
Outcomes == Results \cup {"transport_failed"}

ASSUME SetsFinite == IsFiniteSet(Requests) /\ IsFiniteSet(Services)
ASSUME NoneIsNull == None \notin Requests \cup Services \cup RunModes
ASSUME ServiceOfType == ServiceOf \in [Requests -> Services]
ASSUME PlanType ==
    Plan \in [Services -> [rolling: BOOLEAN, parallel: BOOLEAN, domain: Domains,
                           target: Nat \ {0}, low: Nat \ {0}, size: Nat \ {0},
                           service_batches: Nat, domain_batches: Nat]]
ASSUME BoundsType ==
    /\ Modes \subseteq BOOLEAN
    /\ Window \in Nat \ {0} /\ RefillBatch \in Nat \ {0} /\ CohortWorkers \in Nat \ {0}
    /\ MaxTransportAttempts \in Nat \ {0} /\ MaxLeaseAttempts \in Nat \ {0}
    /\ MaxCohorts \in Nat /\ MaxDisturbances \in Nat /\ Results \subseteq Settled

VARIABLES
    row,       \* the request as the queue keeps it
    pending,   \* the future and PendingDispatcherCohort of each cohort thread
    pc,        \* where the dispatcher thread is
    pairs,     \* claims of a popped cohort it still has to finish
    beat,      \* claims it is about to heartbeat
    plan,      \* counts it took at the start of a refill
    resident,  \* DS4_API_RESIDENT_MULTIMODEL
    stop,      \* dispatcher_stop
    failures   \* exceptions and crashes so far

vars == <<row, pending, pc, pairs, beat, plan, resident, stop, failures>>

Claim == [r: Requests, n: Nat \ {0}]
Row == [state: {"absent", "waiting", "running"} \cup Settled, attempts: Nat,
        cancel: BOOLEAN, expired: BOOLEAN]
Cohort ==
    [service: Services, rolling: BOOLEAN, run: OrNone(RunModes),
     claims: SUBSET Claim,         \* cohort.claims, the claims it started with
     unfinished: SUBSET Requests,  \* cohort.unfinished_request_ids
     live: SUBSET Claim,           \* claims the thread has not settled
     finished: SUBSET Requests,    \* request ids the thread has settled
     marking: OrNone(Requests),    \* settled, mark_finished still to come
     cancelled: BOOLEAN,           \* its cancel_event is set
     pc: {"submitted", "running", "final", "done"},
     pairs: SUBSET Claim,          \* what its future returns for the dispatcher to settle
     broken: BOOLEAN]              \* those are transport failures
ASSUME NoneIsNoCohort == None \notin Cohort

NoPlan == [available |-> 0, submitted |-> 0, active |-> [s \in Services |-> 0],
           service_batches |-> [s \in Services |-> 0],
           domain_batches |-> [d \in Domains |-> 0], left |-> {}]
NoPairs == [claims |-> {}, broken |-> FALSE]

Init ==
    /\ row = [r \in Requests |->
                [state |-> "absent", attempts |-> 0, cancel |-> FALSE, expired |-> FALSE]]
    /\ pending = [c \in Cohorts |-> None]
    /\ pc = "finish" /\ pairs = NoPairs /\ beat = {} /\ plan = NoPlan
    /\ resident \in Modes /\ stop = FALSE
    /\ failures = 0

-----------------------------------------------------------------------------
(***************************************************************************)
(* The queue's side: claim_ready_batch, finish_request and                  *)
(* retry_transport_failure of a claim, requeue_expired_leases, each in one  *)
(* step: their own interleavings are InferenceQueue's.                      *)
(***************************************************************************)
Holds(c) == row[c.r].state = "running" /\ row[c.r].attempts = c.n
Waiting(s) == {r \in Requests : row[r].state = "waiting" /\ ServiceOf[r] = s}

(* Mutation: the lease is numbered before the attempt is counted. *)
ClaimsBefore(T) == {[r |-> r, n |-> row[r].attempts] : r \in T}

ClaimsOf(T) == {[r |-> r, n |-> row[r].attempts + 1] : r \in T}
TakenRows(T) ==
    [r \in Requests |-> IF r \in T THEN [row[r] EXCEPT !.state = "running", !.attempts = @ + 1]
                        ELSE row[r]]

(* BatchWorker._finish_pair: what becomes of a request whose lease is held. *)
FinishState(r, out) ==
    IF row[r].cancel THEN "cancelled"
    ELSE IF out # "transport_failed" THEN out
    ELSE IF row[r].attempts < MaxTransportAttempts THEN "waiting" ELSE "failed"

(* Mutation: the lease is not compared. *)
FinishedRowsAny(c, out) ==
    [row EXCEPT ![c.r].state = FinishState(c.r, out), ![c.r].expired = FALSE]

FinishedRows(c, out) ==
    IF Holds(c) THEN [row EXCEPT ![c.r].state = FinishState(c.r, out), ![c.r].expired = FALSE]
    ELSE row


(* Mutation: leases that have not expired are taken back too. *)
ReapedRowsAll ==
    [r \in Requests |->
        IF row[r].state # "running" THEN row[r]
        ELSE [row[r] EXCEPT !.expired = FALSE,
                            !.state = IF row[r].attempts < MaxLeaseAttempts THEN "waiting" ELSE "failed"]]

ReapedRows ==
    [r \in Requests |->
        IF ~row[r].expired THEN row[r]
        ELSE [row[r] EXCEPT !.expired = FALSE,
                            !.state = IF row[r].attempts < MaxLeaseAttempts THEN "waiting" ELSE "failed"]]

(* A claim whose lease somebody refreshes: the dispatcher, for what its     *)
(* cohorts have not marked finished, and the thread, for what it runs.      *)
Active(k) == {c \in k.claims : c.r \in k.unfinished}

Tended(c) ==
    \/ c \in pairs.claims
    \/ \E id \in Cohorts :
        /\ pending[id] # None
        /\ c \in Active(pending[id]) \cup pending[id].live \cup pending[id].pairs

Orphan(r) == row[r].state = "running" /\ ~Tended([r |-> r, n |-> row[r].attempts])

(* The lease of an untended claim runs out. *)
Expire(r) ==
    /\ Orphan(r) /\ ~row[r].expired
    /\ row' = [row EXCEPT ![r].expired = TRUE]
    /\ UNCHANGED <<pending, pc, pairs, beat, plan, resident, stop, failures>>

(* What has disturbed the dispatcher so far; a bound of the instance. *)
Disturbances ==
    failures + Cardinality({r \in Requests : row[r].cancel \/ row[r].state = "cancelled"})
             + (IF stop THEN 1 ELSE 0)
MoreDisturbance == Disturbances < MaxDisturbances

(* Clients. *)
Submit(r) ==
    /\ row[r].state = "absent"
    /\ row' = [row EXCEPT ![r].state = "waiting"]
    /\ UNCHANGED <<pending, pc, pairs, beat, plan, resident, stop, failures>>

Cancel(r) ==
    /\ MoreDisturbance \/ row[r].cancel
    /\ \/ /\ row[r].state = "running" /\ ~row[r].cancel
          /\ row' = [row EXCEPT ![r].cancel = TRUE]
       \/ /\ row[r].state \in {"waiting", "running"}
          /\ row' = [row EXCEPT ![r].state = "cancelled", ![r].expired = FALSE]
    /\ UNCHANGED <<pending, pc, pairs, beat, plan, resident, stop, failures>>

-----------------------------------------------------------------------------
(***************************************************************************)
(* Cohort threads: _run_refill_stream (stream), _run_model_batch_incremental *)
(* (batch), and the runs that leave all results to the dispatcher (pairs).  *)
(***************************************************************************)
Dispatching == <<pc, pairs, beat, plan, resident, stop>>

Is(id, where) == pending[id] # None /\ pending[id].pc = where
Busy == {id \in Cohorts : Is(id, "running") \/ Is(id, "final")}

(* The executor has a thread for it. *)
Start(id) ==
    /\ Is(id, "submitted") /\ Cardinality(Busy) < CohortWorkers
    /\ \E run \in (IF pending[id].rolling THEN {"stream", "batch"} ELSE {"batch", "pairs"}) :
          pending' = [pending EXCEPT ![id].pc = "running", ![id].run = run]
    /\ UNCHANGED <<row, failures>> /\ UNCHANGED Dispatching

(* A thread that settles its items itself, between two of them. *)
Settling(id) == Is(id, "running") /\ pending[id].run # "pairs" /\ pending[id].marking = None

(* A result arrives: _finish_pair, then (Mark) the dispatcher is told. *)
ItemDone(id) ==
    /\ Settling(id)
    /\ \E c \in pending[id].live, out \in Outcomes :
        /\ row' = FinishedRows(c, out)
        /\ pending' = [pending EXCEPT ![id].live = @ \ {c}, ![id].finished = @ \cup {c.r},
                                      ![id].marking = c.r]
    /\ UNCHANGED failures /\ UNCHANGED Dispatching

Mark(id) ==
    /\ pending[id] # None /\ pending[id].marking # None
    /\ pending' = [pending EXCEPT ![id].unfinished = @ \ {pending[id].marking},
                                  ![id].marking = None]
    /\ UNCHANGED <<row, failures>> /\ UNCHANGED Dispatching

(* Mutation: cancelling one request drops the whole cohort. *)
StillWantedNone(k, gone) == {}

(* _finish_cancelled_pending_futures: what the thread goes on waiting for. *)
StillWanted(k, gone) == {c \in k.live : c.r \notin k.finished \cup gone}

(* _cancel_requested: a request of the cohort was cancelled.  The cancel    *)
(* event is set for all of it and settled requests are dropped.             *)
CancelSeen(id) ==
    /\ Settling(id)
    /\ \E c \in pending[id].live : row[c.r].cancel \/ row[c.r].state \in Settled
    /\ LET k == pending[id]
           gone == {c.r : c \in {e \in k.live : row[e.r].state \in Settled}} \ k.finished
           left == StillWanted(k, gone)
       IN pending' = [pending EXCEPT ![id] =
            [k EXCEPT !.cancelled = TRUE, !.live = left, !.finished = @ \cup gone,
                      !.unfinished = @ \ gone,
                      !.pc = IF left = {} THEN "done" ELSE "running"]]
    /\ UNCHANGED <<row, failures>> /\ UNCHANGED Dispatching

(* _claim_refill: at the low watermark a stream claims more of its service. *)
RollingRefill(id) ==
    /\ Settling(id) /\ pending[id].run = "stream" /\ ~pending[id].cancelled
    /\ LET k == pending[id]
           concurrency == Cardinality(k.claims)
           low == Max({1, Min({Plan[k.service].low, concurrency})})
       IN /\ Cardinality(k.live) <= low
          /\ \E T \in SUBSET Waiting(k.service) \ {{}} :
                /\ Cardinality(T) <= concurrency - Cardinality(k.live)
                /\ row' = TakenRows(T)
                /\ pending' = [pending EXCEPT ![id].live = @ \cup ClaimsOf(T)]
    /\ UNCHANGED failures /\ UNCHANGED Dispatching

(* The batch runner returned, or something in its loop raised: the rest is  *)
(* settled in a last loop that does not call mark_finished.                 *)
BatchReturn(id) ==
    /\ Settling(id) /\ pending[id].run = "batch"
    /\ pending' = [pending EXCEPT ![id].pc = "final"]
    /\ UNCHANGED <<row, failures>> /\ UNCHANGED Dispatching

FinalItem(id) ==
    /\ Is(id, "final")
    /\ \E c \in pending[id].live, out \in Outcomes :
        /\ row' = FinishedRows(c, out)
        /\ pending' = [pending EXCEPT ![id].live = @ \ {c}]
    /\ UNCHANGED failures /\ UNCHANGED Dispatching

End(id) ==
    /\ Is(id, "final") \/ (Settling(id) /\ pending[id].run = "stream")
    /\ pending[id].live = {}
    /\ pending' = [pending EXCEPT ![id].pc = "done"]
    /\ UNCHANGED <<row, failures>> /\ UNCHANGED Dispatching

ReturnPairs(id) ==
    /\ Is(id, "running") /\ pending[id].run = "pairs"
    /\ pending' = [pending EXCEPT ![id].pc = "done", ![id].live = {},
                                  ![id].pairs = pending[id].claims]
    /\ UNCHANGED <<row, failures>> /\ UNCHANGED Dispatching

(* An exception (a lost lease, the database) leaves the run: the dispatcher *)
(* gets a transport failure for each claim of the cohort; what a stream has *)
(* claimed since is forgotten.                                              *)
Raise(id) ==
    /\ \/ Is(id, "running") /\ pending[id].run # "batch" /\ pending[id].marking = None
       \/ Is(id, "final")
    /\ MoreDisturbance /\ failures' = failures + 1
    /\ pending' = [pending EXCEPT
            ![id].pc = "done", ![id].live = {}, ![id].broken = TRUE,
            ![id].pairs = IF pending[id].run = "stream" THEN pending[id].claims
                          ELSE Active(pending[id])]
    /\ UNCHANGED row /\ UNCHANGED Dispatching

-----------------------------------------------------------------------------
(***************************************************************************)
(* The dispatcher thread.                                                   *)
(***************************************************************************)

(* Mutation: results that a thread returns are dropped. *)
FinishDoneForgets(id) ==
    /\ pc \in {"finish", "shutdown"} /\ pairs.claims = {} /\ Is(id, "done")
    /\ pending' = [pending EXCEPT ![id] = None]
    /\ UNCHANGED <<row, pairs, pc, beat, plan, resident, stop, failures>>

(* Mutation: the shutdown does not drain the pending cohorts. *)
FinishDoneInTick(id) ==
    /\ pc = "finish" /\ pairs.claims = {} /\ Is(id, "done")
    /\ pairs' = [claims |-> pending[id].pairs, broken |-> pending[id].broken]
    /\ pending' = [pending EXCEPT ![id] = None]
    /\ UNCHANGED <<row, pc, beat, plan, resident, stop, failures>>

(* _dispatcher_finish_done: pop a cohort, settle what it left to settle. *)
FinishDone(id) ==
    /\ pc \in {"finish", "shutdown"} /\ pairs.claims = {} /\ Is(id, "done")
    /\ pairs' = [claims |-> pending[id].pairs, broken |-> pending[id].broken]
    /\ pending' = [pending EXCEPT ![id] = None]
    /\ UNCHANGED <<row, pc, beat, plan, resident, stop, failures>>

FinishPair ==
    /\ pc \in {"finish", "shutdown"}
    /\ \E c \in pairs.claims, out \in (IF pairs.broken THEN {"transport_failed"} ELSE Outcomes) :
        /\ row' = FinishedRows(c, out)
        /\ pairs' = [pairs EXCEPT !.claims = @ \ {c}]
    /\ UNCHANGED <<pending, pc, beat, plan, resident, stop, failures>>

(* A heartbeat may be due: the unfinished claims of all cohorts, read first. *)
BeatStart ==
    /\ pc = "finish" /\ pairs.claims = {}
    /\ ~stop
    /\ beat' \in {{}, UNION {IF pending[id] = None THEN {} ELSE Active(pending[id]) : id \in Cohorts}}
    /\ pc' = IF beat' = {} THEN "refill" ELSE "beat"
    /\ UNCHANGED <<row, pending, pairs, plan, resident, stop, failures>>

LeaseLost(c) == ~Holds(c) /\ row[c.r].state \notin Settled

(* Mutation: a settled request counts as a lost lease. *)
BeatLostSettled == {c \in beat : ~Holds(c)}
BeatLost == {c \in beat : LeaseLost(c)}

(* BatchWorker._heartbeat; "lost queue lease" ends _dispatcher_loop, and    *)
(* _dispatcher_shutdown sets dispatcher_stop itself.                        *)
BeatCheck ==
    /\ pc = "beat"
    /\ pc' = IF BeatLost = {} THEN "refill" ELSE "shutdown"
    /\ stop' = (stop \/ BeatLost # {})
    /\ beat' = {}
    /\ UNCHANGED <<row, pending, pairs, plan, resident, failures>>

(* batch_active, active_count and the counts a refill is planned with. *)
BatchActive(k) == k # None /\ (k.unfinished # {} \/ k.rolling)
Unfinished(S) == {p \in S \X Requests : p[2] \in pending[p[1]].unfinished}
ActiveCount(S) == Cardinality(Unfinished(S))
PendingOf(s) == {id \in Cohorts : pending[id] # None /\ pending[id].service = s}
PendingCount == ActiveCount({id \in Cohorts : pending[id] # None})

(* _dispatcher_has_refill_demand and the resource governor let it refill:   *)
(* expired leases are requeued, then cohorts are counted.                   *)
RefillStart ==
    /\ pc = "refill"
    /\ Window - PendingCount > 0
    /\ \E r \in Requests : row[r].state = "waiting"
    /\ row' = ReapedRows
    /\ pc' = IF resident THEN "resident" ELSE "exclusive"
    /\ plan' = [available |-> Window - PendingCount, submitted |-> 0,
                active |-> [s \in Services |-> ActiveCount(PendingOf(s))],
                service_batches |-> [s \in Services |->
                    Cardinality({id \in PendingOf(s) : BatchActive(pending[id])})],
                domain_batches |-> [d \in Domains |->
                    Cardinality({id \in Cohorts : BatchActive(pending[id])
                                                   /\ Plan[pending[id].service].domain = d})],
                left |-> Services]
    /\ UNCHANGED <<pending, pairs, beat, resident, stop, failures>>

(* Nothing waits, the window is full or the governor denies. *)
RefillSkip ==
    /\ pc = "refill" /\ pc' = "finish"
    /\ UNCHANGED <<row, pending, pairs, beat, plan, resident, stop, failures>>

(* claim_ready_batch and _dispatcher_submit_cohort. *)
FreeSlots == {id \in Cohorts : pending[id] = None}
NewCohort(s, T, rolling) ==
    [service |-> s, rolling |-> rolling, run |-> None, claims |-> ClaimsOf(T), unfinished |-> T,
     live |-> ClaimsOf(T), finished |-> {}, marking |-> None, cancelled |-> FALSE,
     pc |-> "submitted", pairs |-> {}, broken |-> FALSE]
SubmitCohort(s, T, rolling) ==
    /\ row' = TakenRows(T)
    /\ \E id \in FreeSlots :
        /\ \A other \in FreeSlots : id <= other
        /\ pending' = [pending EXCEPT ![id] = NewCohort(s, T, rolling)]

(* _dispatcher_refill_exclusive: one cohort of one service, or nothing. *)
RefillExclusive ==
    /\ pc = "exclusive" /\ pc' = "finish" /\ plan' = NoPlan
    /\ \/ UNCHANGED <<row, pending>>
       \/ \E s \in Services : \E T \in SUBSET Waiting(s) \ {{}} :
            /\ Cardinality(T) <= Min({plan.available, RefillBatch})
            /\ SubmitCohort(s, T, FALSE)
    /\ UNCHANGED <<pairs, beat, resident, stop, failures>>

(* resident_service_order: below the low watermark first, then the smallest *)
(* share of queue_depth_target; deficits break ties (left open).            *)
Below(s) == IF plan.active[s] < Plan[s].low THEN 0 ELSE 1
Before(s, t) ==
    \/ Below(s) < Below(t)
    \/ Below(s) = Below(t) /\ plan.active[s] * Plan[t].target < plan.active[t] * Plan[s].target
NextServices == {s \in plan.left : \A t \in plan.left : ~Before(t, s)}

(* Mutation: one batch more than the limits. *)
LimitPassed(s) ==
    \/ Plan[s].service_batches > 0 /\ plan.service_batches[s] > Plan[s].service_batches
    \/ Plan[s].domain_batches > 0 /\ plan.domain_batches[Plan[s].domain] > Plan[s].domain_batches

(* _resident_service_limit_reached, _resident_compute_domain_limit_reached. *)
LimitReached(s) ==
    \/ Plan[s].service_batches > 0 /\ plan.service_batches[s] >= Plan[s].service_batches
    \/ Plan[s].domain_batches > 0 /\ plan.domain_batches[Plan[s].domain] >= Plan[s].domain_batches

(* Mutation: the rest of the window is not looked at. *)
RefillLimitUnbounded(s) == Max({Plan[s].size, Plan[s].target})

(* _resident_refill_limit. *)
RefillLimit(s) ==
    LET p == Plan[s]
        active == plan.active[s]
        room == Min({p.size, Max({1, RefillBatch - plan.submitted}), plan.available})
        free == Max({0, p.target - active})
    IN  IF active > 0 /\ active <= p.low /\ p.rolling THEN room
        ELSE IF active <= p.low \/ (p.rolling /\ p.parallel) THEN Min({free, room})
        ELSE 0

Going == plan.left # {} /\ plan.available > 0 /\ plan.submitted < RefillBatch

(* One service of _dispatcher_refill_resident_multimodel gets a cohort. *)
ResidentClaim(s) ==
    /\ pc = "resident" /\ Going /\ s \in NextServices /\ ~LimitReached(s)
    /\ \E T \in SUBSET Waiting(s) \ {{}} :
        /\ Cardinality(T) <= RefillLimit(s)
        /\ SubmitCohort(s, T, Plan[s].rolling)
        /\ plan' = [plan EXCEPT
                !.available = @ - Cardinality(T), !.submitted = @ + Cardinality(T),
                !.active[s] = @ + Cardinality(T), !.service_batches[s] = @ + 1,
                !.domain_batches[Plan[s].domain] = @ + 1, !.left = @ \ {s}]
    /\ UNCHANGED <<pc, pairs, beat, resident, stop, failures>>

(* It is at a limit, or nothing of it can be claimed now. *)
ResidentPass(s) ==
    /\ pc = "resident" /\ Going /\ s \in NextServices
    /\ plan' = [plan EXCEPT !.left = @ \ {s}]
    /\ UNCHANGED <<row, pending, pc, pairs, beat, resident, stop, failures>>

ResidentEnd ==
    /\ pc = "resident" /\ ~Going
    /\ pc' = "finish" /\ plan' = NoPlan
    /\ UNCHANGED <<row, pending, pairs, beat, resident, stop, failures>>

(* stop_background_dispatcher, and _dispatcher_shutdown: pending cohorts    *)
(* are drained (FinishDone, FinishPair) before the thread ends.             *)
Stop ==
    /\ MoreDisturbance /\ ~stop /\ stop' = TRUE
    /\ UNCHANGED <<row, pending, pc, pairs, beat, plan, resident, failures>>
StopSeen ==
    /\ pc = "finish" /\ pairs.claims = {} /\ stop /\ pc' = "shutdown"
    /\ UNCHANGED <<row, pending, pairs, beat, plan, resident, stop, failures>>
Drained ==
    /\ pc = "shutdown" /\ pairs.claims = {} /\ FreeSlots = Cohorts /\ pc' = "stopped"
    /\ UNCHANGED <<row, pending, pairs, beat, plan, resident, stop, failures>>

(* The coordinator process dies and is started again: only the queue stays. *)
Crash ==
    /\ MoreDisturbance /\ failures' = failures + 1
    /\ pending' = [id \in Cohorts |-> None]
    /\ pc' = "finish" /\ pairs' = NoPairs /\ beat' = {} /\ plan' = NoPlan /\ stop' = FALSE
    /\ UNCHANGED <<row, resident>>

-----------------------------------------------------------------------------
CohortStep(id) ==
    \/ Start(id) \/ ItemDone(id) \/ Mark(id) \/ CancelSeen(id) \/ RollingRefill(id)
    \/ BatchReturn(id) \/ FinalItem(id) \/ End(id) \/ ReturnPairs(id) \/ Raise(id)
DispatcherStep ==
    \/ \E id \in Cohorts : FinishDone(id)
    \/ FinishPair \/ BeatStart \/ BeatCheck
    \/ RefillStart \/ RefillSkip \/ RefillExclusive
    \/ \E s \in Services : ResidentClaim(s) \/ ResidentPass(s)
    \/ ResidentEnd \/ StopSeen \/ Drained

Next ==
    \/ \E r \in Requests : Submit(r) \/ Cancel(r) \/ Expire(r)
    \/ \E id \in Cohorts : CohortStep(id)
    \/ DispatcherStep
    \/ Stop \/ Crash

Spec == Init /\ [][Next]_vars
=============================================================================
