-------------------------- MODULE RequestLifecycle --------------------------
(***************************************************************************)
(* What the queue promises about a request, whoever works on it: it waits  *)
(* (queued or ready), runs one attempt at a time, waits again while        *)
(* attempts are left, and is settled for good; only a cancel may still     *)
(* turn a settled request into a cancelled one.  The attempt number stands *)
(* for the lease the attempt runs under.                                   *)
(***************************************************************************)
EXTENDS Naturals

CONSTANTS Requests, MaxAttempts

VARIABLE row

Settled == {"completed", "failed", "cancelled"}
RowType == [state: {"absent", "waiting", "running"} \cup Settled, attempts: Nat]

Init == row = [r \in Requests |-> [state |-> "absent", attempts |-> 0]]

(* submit_requests, submit_cpu_requests. *)
Enter(r) ==
    /\ row[r].state = "absent"
    /\ row'[r] = [state |-> "waiting", attempts |-> 0]

(* claim_ready_batch: a new attempt under a new lease. *)
StartAttempt(r) ==
    /\ row[r].state = "waiting" /\ row[r].attempts < MaxAttempts
    /\ row'[r] = [state |-> "running", attempts |-> row[r].attempts + 1]

(* finish_request, retry_transport_failure, requeue_expired_leases: the     *)
(* attempt ends, settled or back in the queue.                              *)
EndAttempt(r) ==
    /\ row[r].state = "running"
    /\ \E s \in Settled \cup {"waiting"} :
          /\ s = "waiting" => row[r].attempts < MaxAttempts
          /\ row'[r] = [state |-> s, attempts |-> row[r].attempts]

(* cancel: of a waiting or running row, or of what it has become meanwhile. *)
CancelRow(r) ==
    /\ row[r].state # "absent"
    /\ row'[r] = [state |-> "cancelled", attempts |-> row[r].attempts]

(* A transaction moves any number of rows, each by one step of its life. *)
Next ==
    /\ row' \in [Requests -> RowType]
    /\ \A r \in Requests :
          row'[r] = row[r] \/ Enter(r) \/ StartAttempt(r) \/ EndAttempt(r) \/ CancelRow(r)

Spec == Init /\ [][Next]_row
=============================================================================
