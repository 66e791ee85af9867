---------------------------- MODULE MCDispatcher ----------------------------
(***************************************************************************)
(* Instances of the dispatcher for TLC.                                     *)
(***************************************************************************)
EXTENDS DispatcherProperties, TLC

CONSTANTS r1, r2, r3, A, B, d1

(* A rolling service with two requests, capped at one batch, and a peer in  *)
(* the same compute domain.                                                 *)
TwoServices == (r1 :> A) @@ (r2 :> A) @@ (r3 :> B)
RollingPlan ==
    (A :> [rolling |-> TRUE, parallel |-> FALSE, domain |-> d1, target |-> 2, low |-> 1,
           size |-> 2, service_batches |-> 1, domain_batches |-> 2])
    @@ (B :> [rolling |-> FALSE, parallel |-> FALSE, domain |-> d1, target |-> 1, low |-> 1,
              size |-> 1, service_batches |-> 0, domain_batches |-> 2])

(* The rolling service alone. *)
OneService == (r1 :> A) @@ (r2 :> A)
OnePlan == A :> RollingPlan[A]
=============================================================================
