------------------------ MODULE DispatcherProperties ------------------------
(***************************************************************************)
(* What the dispatcher and its cohort threads promise.                      *)
(***************************************************************************)
EXTENDS Dispatcher

PlanSnapshot ==
    [available: Int, submitted: Nat, active: [Services -> Nat],
     service_batches: [Services -> Nat], domain_batches: [Domains -> Nat],
     left: SUBSET Services]

(* Each variable has its type: a slot of pending holds a cohort or nothing  *)
(* and the dispatcher thread is in one place of its tick.                   *)
TypeOK ==
    /\ row \in [Requests -> Row]
    /\ pending \in [Cohorts -> OrNone(Cohort)]
    /\ pc \in {"finish", "beat", "refill", "resident", "exclusive", "shutdown", "stopped"}
    /\ pairs \in [claims: SUBSET Claim, broken: BOOLEAN]
    /\ beat \in SUBSET Claim
    /\ plan \in PlanSnapshot
    /\ resident \in BOOLEAN /\ stop \in BOOLEAN
    /\ failures \in Nat

(* The claims of all cohorts that are not marked finished never exceed      *)
(* DS4_API_DISPATCH_WINDOW, although cohorts finish while a refill plans    *)
(* with counts it took before (_dispatcher_refill).                         *)
WindowBound == PendingCount <= Window

(* No more than max_running_batches_per_service cohorts of a resident       *)
(* service, and max_running_batches_per_compute_domain cohorts of a domain, *)
(* run requests at the same time; a rolling cohort counts while it refills. *)
Executing(id) == pending[id] # None /\ pending[id].live # {}
BatchCaps ==
    resident =>
        /\ \A s \in Services : Plan[s].service_batches > 0 =>
            Cardinality({id \in PendingOf(s) : Executing(id)}) <= Plan[s].service_batches
        /\ \A s \in Services :
            (\A t \in Services : Plan[t].domain = Plan[s].domain =>
                Plan[t].domain_batches = Plan[s].domain_batches /\ Plan[t].domain_batches > 0) =>
            Cardinality({id \in Cohorts : /\ Executing(id)
                                          /\ Plan[pending[id].service].domain = Plan[s].domain})
                <= Plan[s].domain_batches

(* No request is executed by two cohorts at a time, or twice by one: a      *)
(* lease is handed on only when the thread that had it let go of it.        *)
ExclusiveRun ==
    \A i, j \in Cohorts : pending[i] # None /\ pending[j] # None =>
        \A c \in pending[i].live, e \in pending[j].live : c.r = e.r => i = j /\ c = e

(* While nothing fails no running request is forgotten: its claim is with a *)
(* cohort, whoever was cancelled beside it.                                 *)
NoOrphans == failures = 0 => \A r \in Requests : ~Orphan(r)

(* The dispatcher thread goes into its shutdown only when it was told to    *)
(* stop: no heartbeat takes a request its own threads settled meanwhile for *)
(* a lost lease (_dispatcher_tick, BatchWorker._heartbeat).                 *)
StaysUp == [][pc # "shutdown" /\ pc' = "shutdown" => stop]_vars

(* The rows live the life RequestLifecycle allows (and the queue            *)
(* implements): the dispatcher asks nothing else of the queue.              *)
LifecycleRow == [r \in Requests |-> [state |-> row[r].state, attempts |-> row[r].attempts]]
MaxAttempts ==
    IF MaxTransportAttempts > MaxLeaseAttempts THEN MaxTransportAttempts ELSE MaxLeaseAttempts
Lifecycle == INSTANCE RequestLifecycle WITH row <- LifecycleRow
UsesLifecycle == Lifecycle!Spec

-----------------------------------------------------------------------------
(***************************************************************************)
(* Fairness: threads run, runners return, the tick goes round, the governor *)
(* allows a refill again and again and what waits can be claimed again and  *)
(* again (linger and cohort floors time out), untended leases run out.      *)
(***************************************************************************)
Fairness ==
    /\ \A r \in Requests : WF_vars(Expire(r))
    /\ \A id \in Cohorts :
        /\ WF_vars(Start(id)) /\ WF_vars(Mark(id)) /\ WF_vars(ReturnPairs(id))
        /\ WF_vars(ItemDone(id)) /\ WF_vars(BatchReturn(id)) /\ WF_vars(FinalItem(id))
        /\ WF_vars(End(id)) /\ SF_vars(FinishDone(id))
    /\ WF_vars(FinishPair) /\ WF_vars(BeatStart) /\ WF_vars(BeatCheck)
    /\ WF_vars(RefillSkip \/ RefillStart) /\ SF_vars(RefillStart)
    /\ WF_vars(RefillExclusive) /\ SF_vars(RefillExclusive /\ pending' # pending)
    /\ \A s \in Services : SF_vars(ResidentClaim(s))
    /\ WF_vars(\E s \in Services : ResidentPass(s)) /\ WF_vars(ResidentEnd)
    /\ WF_vars(StopSeen) /\ WF_vars(Drained)

FairSpec == Spec /\ Fairness

(* Every submitted request is settled while the dispatcher runs.  The one   *)
(* exception: requests left running by a crash or an exception wait for     *)
(* another request, because requeue_expired_leases is only called when      *)
(* something is queued or ready (_dispatcher_has_refill_demand).            *)
Abandoned(r) ==
    /\ failures > 0 /\ Orphan(r)
    /\ \A q \in Requests : row[q].state # "waiting"
EverySubmittedSettles ==
    \A r \in Requests :
        row[r].state # "absent" ~> row[r].state \in Settled \/ Abandoned(r) \/ stop

(* Told to stop, the dispatcher drains its cohorts and ends.               *)
StopEnds == stop ~> (pc = "stopped" \/ ~stop)
=============================================================================
