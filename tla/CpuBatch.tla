------------------------------ MODULE CpuBatch ------------------------------
(***************************************************************************)
(* The CPU batch service (ds4_tools/cpu_batch.py) under the queue's CPU    *)
(* claims (BatchWorker._run_cpu_claims): batches share one pool of         *)
(* threads; a thread that took an item waits inside the pool for the       *)
(* semaphore of its batch; a batch that times out cancels what no thread   *)
(* has taken and leaves the rest running behind its answer.                *)
(***************************************************************************)
EXTENDS Integers, Sequences, FiniteSets, FiniteSetsExt, Functions

CONSTANTS CpuCallers,        \* concurrent calls of run_batch
          CpuWorkers,        \* CPU_SERVICE_WORKERS
          MaxConcurrency,    \* CPU_SERVICE_MAX_CONCURRENCY
          CpuMixes           \* what the calls may ask: items and concurrency of each

ASSUME CpuAssumption ==
    /\ IsFiniteSet(CpuCallers) /\ CpuWorkers \in Nat \ {0} /\ MaxConcurrency \in Nat \ {0}
    /\ IsFiniteSet({mix[c].items : mix \in CpuMixes, c \in CpuCallers})    \* CPU_SERVICE_MAX_ITEMS
    /\ CpuMixes \subseteq [CpuCallers -> [items : Nat \ {0}, concurrency : Nat \ {0}]]

VARIABLES asked,       \* of each call: its shape
          call,        \* its step and the index it is at in a loop over the items
          item,        \* of each item: where it is
          told,        \* what its service answered
          cpuRow,      \* results[index] of the call
          claim,       \* what the queue's claim of the item ended as
          poolQueue,   \* items submitted and not taken by a thread, cancelled ones too
          counted      \* pending, active, completed, failed

cpuVars == <<asked, call, item, told, cpuRow, claim, poolQueue, counted>>

MaxItems == Max({mix[c].items : mix \in CpuMixes, c \in CpuCallers})
Slots == CpuCallers \X (1..MaxItems)
ItemsOf(c) == {c} \X (1..asked[c].items)
ItemsIn(where) == {s \in Slots : item[s] \in where}

CpuTypeOK ==
    /\ asked \in CpuMixes
    /\ call \in [CpuCallers -> [step : {"new", "submit", "wait", "sweep", "uncount", "returned", "settled"},
                                at : 0..MaxItems + 1, late : BOOLEAN]]
    /\ item \in [Slots -> {"none", "queued", "cancelled", "waiting", "acquired", "running", "released", "done"}]
    /\ told \in [Slots -> {"none", "ok", "failed"}]
    /\ cpuRow \in [Slots -> {"none", "ok", "failed", "timeout", "refused"}]
    /\ claim \in [Slots -> {"claimed", "completed", "failed"}]
    /\ poolQueue \in Seq(Slots)
    /\ counted \in [pending : Int, active : Int, completed : Nat, failed : Nat]

CpuStart(mix) ==
    /\ asked = mix
    /\ call = [c \in CpuCallers |-> [step |-> "new", at |-> 0, late |-> FALSE]]
    /\ item = [s \in Slots |-> "none"] /\ told = [s \in Slots |-> "none"]
    /\ cpuRow = [s \in Slots |-> "none"] /\ claim = [s \in Slots |-> "claimed"]
    /\ poolQueue = <<>>
    /\ counted = [pending |-> 0, active |-> 0, completed |-> 0, failed |-> 0]

CpuInit == \E mix \in CpuMixes : CpuStart(mix)

CallAt(c, step) == call[c].step = step
CallGoes(c, step, at) == call' = [call EXCEPT ![c].step = step, ![c].at = at]

-----------------------------------------------------------------------------
(* run_batch                                                               *)

(* normalize_batch refuses; _run_cpu_claims gives every claim the error    *)
CpuRefuse(c) ==
    /\ CallAt(c, "new") /\ asked[c].concurrency > MaxConcurrency
    /\ cpuRow' = [s \in Slots |-> IF s \in ItemsOf(c) THEN "refused" ELSE cpuRow[s]]
    /\ CallGoes(c, "returned", 0)
    /\ UNCHANGED <<asked, item, told, claim, poolQueue, counted>>

CpuAdmit(c) ==
    /\ CallAt(c, "new") /\ asked[c].concurrency <= MaxConcurrency
    /\ counted' = [counted EXCEPT !.pending = @ + asked[c].items]
    /\ CallGoes(c, "submit", 1)
    /\ UNCHANGED <<asked, item, told, cpuRow, claim, poolQueue>>

CpuSubmit(c) ==
    /\ CallAt(c, "submit")
    /\ LET s == <<c, call[c].at>> IN
          /\ item' = [item EXCEPT ![s] = "queued"]
          /\ poolQueue' = Append(poolQueue, s)
    /\ IF call[c].at = asked[c].items THEN CallGoes(c, "wait", 0) ELSE CallGoes(c, "submit", call[c].at + 1)
    /\ UNCHANGED <<asked, told, cpuRow, claim, counted>>

(* as_completed hands over a future that is done *)
CpuCollect(c, s) ==
    /\ CallAt(c, "wait")
    /\ s \in ItemsOf(c) /\ item[s] = "done" /\ cpuRow[s] = "none"
    /\ cpuRow' = [cpuRow EXCEPT ![s] = told[s]]
    /\ UNCHANGED <<asked, call, item, told, claim, poolQueue, counted>>

CpuCollected(c) ==
    /\ CallAt(c, "wait") /\ \A s \in ItemsOf(c) : cpuRow[s] # "none"
    /\ CallGoes(c, "returned", 0)
    /\ UNCHANGED <<asked, item, told, cpuRow, claim, poolQueue, counted>>

(* as_completed raises, even if more futures are done by now *)
CpuTimeout(c) ==
    /\ CallAt(c, "wait") /\ \E s \in ItemsOf(c) : cpuRow[s] = "none"
    /\ call' = [call EXCEPT ![c] = [step |-> "sweep", at |-> 1, late |-> TRUE]]
    /\ UNCHANGED <<asked, item, told, cpuRow, claim, poolQueue, counted>>

(* cancel() succeeds only for an item that no thread has taken *)
CpuSweep(c) ==
    /\ CallAt(c, "sweep") /\ call[c].at <= asked[c].items
    /\ LET s == <<c, call[c].at>> IN
          /\ cpuRow' = [cpuRow EXCEPT ![s] = IF @ = "none" THEN "timeout" ELSE @]
          /\ IF cpuRow[s] = "none" /\ item[s] = "queued"
             THEN item' = [item EXCEPT ![s] = "cancelled"] /\ CallGoes(c, "uncount", call[c].at)
             ELSE UNCHANGED item /\ CallGoes(c, "sweep", call[c].at + 1)
    /\ UNCHANGED <<asked, told, claim, poolQueue, counted>>

CpuUncount(c) ==
    /\ CallAt(c, "uncount")
    /\ counted' = [counted EXCEPT !.pending = Max({0, @ - 1})]
    /\ CallGoes(c, "sweep", call[c].at + 1)
    /\ UNCHANGED <<asked, item, told, cpuRow, claim, poolQueue>>

CpuSwept(c) ==
    /\ CallAt(c, "sweep") /\ call[c].at > asked[c].items
    /\ CallGoes(c, "returned", 0)
    /\ UNCHANGED <<asked, item, told, cpuRow, claim, poolQueue, counted>>

(* _run_cpu_claims pairs rows and claims by position *)
CpuSettle(c) ==
    /\ CallAt(c, "returned")
    /\ claim' = [s \in Slots |-> IF s \in ItemsOf(c) THEN IF cpuRow[s] = "ok" THEN "completed" ELSE "failed" ELSE claim[s]]
    /\ CallGoes(c, "settled", 0)
    /\ UNCHANGED <<asked, item, told, cpuRow, poolQueue, counted>>

-----------------------------------------------------------------------------
(* Threads of the pool                                                     *)

ThreadsBusy == Cardinality(ItemsIn({"waiting", "acquired", "running", "released"}))
Holding(c) == {s \in ItemsOf(c) : item[s] \in {"acquired", "running"}}
ItemGoes(s, where) == item' = [item EXCEPT ![s] = where]

(* a free thread drops a cancelled item and starts any other *)
CpuTake ==
    /\ poolQueue # <<>> /\ ThreadsBusy < CpuWorkers
    /\ poolQueue' = Tail(poolQueue)
    /\ item' = [item EXCEPT ![Head(poolQueue)] = IF @ = "queued" THEN "waiting" ELSE @]
    /\ UNCHANGED <<asked, call, told, cpuRow, claim, counted>>

CpuAcquire(s) ==
    /\ item[s] = "waiting" /\ Cardinality(Holding(s[1])) < asked[s[1]].concurrency
    /\ ItemGoes(s, "acquired")
    /\ UNCHANGED <<asked, call, told, cpuRow, claim, poolQueue, counted>>

CpuBegin(s) ==
    /\ item[s] = "acquired"
    /\ counted' = [counted EXCEPT !.pending = @ - 1, !.active = @ + 1]
    /\ ItemGoes(s, "running")
    /\ UNCHANGED <<asked, call, told, cpuRow, claim, poolQueue>>

(* the service answers, says no or raises; then the semaphore is released *)
CpuServe(s, answer) ==
    /\ item[s] = "running"
    /\ told' = [told EXCEPT ![s] = answer]
    /\ ItemGoes(s, "released")
    /\ UNCHANGED <<asked, call, cpuRow, claim, poolQueue, counted>>

CpuFinish(s) ==
    /\ item[s] = "released"
    /\ counted' = [counted EXCEPT !.active = @ - 1, !.completed = @ + 1,
                                  !.failed = @ + (IF told[s] = "failed" THEN 1 ELSE 0)]
    /\ ItemGoes(s, "done")
    /\ UNCHANGED <<asked, call, told, cpuRow, claim, poolQueue>>

CallStep(c) ==
    \/ CpuRefuse(c) \/ CpuAdmit(c) \/ CpuSubmit(c) \/ CpuCollected(c)
    \/ \E s \in Slots : CpuCollect(c, s)
    \/ CpuSweep(c) \/ CpuUncount(c) \/ CpuSwept(c) \/ CpuSettle(c)
ThreadStep(s) ==
    \/ CpuAcquire(s) \/ CpuBegin(s) \/ CpuFinish(s)
    \/ \E answer \in {"ok", "failed"} : CpuServe(s, answer)

CpuNext ==
    \/ CpuTake
    \/ \E s \in Slots : ThreadStep(s)
    \/ \E c \in CpuCallers : CallStep(c) \/ CpuTimeout(c)

-----------------------------------------------------------------------------
(* Properties                                                              *)

(* The counters of status() are exact at every step of every thread: an    *)
(* item is pending from its admission until a thread holds its semaphore   *)
(* or its cancellation is counted, and it is taken off once, although a    *)
(* timeout and a thread may want it at the same time (CpuBatchService).    *)
CpuCountsExact ==
    LET unsubmitted(c) == IF CallAt(c, "submit") THEN asked[c].items - call[c].at + 1 ELSE 0
        uncounted == Cardinality({c \in CpuCallers : CallAt(c, "uncount")})
    IN  /\ counted.pending = Cardinality(ItemsIn({"queued", "waiting", "acquired"})) + uncounted
                             + MapThenSumSet(unsubmitted, CpuCallers)
        /\ counted.active = Cardinality(ItemsIn({"running", "released"}))
        /\ counted.completed = Cardinality(ItemsIn({"done"}))
        /\ counted.failed = Cardinality({s \in ItemsIn({"done"}) : told[s] = "failed"})

(* A claim of the queue ends as its own item did: completed means the item *)
(* ran and its service said yes; an item that was called off never runs    *)
(* and its claim failed; only a batch that was late leaves items behind    *)
(* (rows[index] of _run_cpu_claims, results of run_batch).                 *)
CpuClaimsTrue ==
    \A c \in CpuCallers : \A s \in ItemsOf(c) :
        /\ claim[s] = "completed" => item[s] = "done" /\ told[s] = "ok"
        /\ item[s] = "cancelled" => told[s] = "none" /\ cpuRow[s] = "timeout"
        /\ CallAt(c, "settled") => /\ claim[s] # "claimed" /\ cpuRow[s] # "none"
                                   /\ ~call[c].late => cpuRow[s] \in {told[s], "refused"}

(* Every call returns although items of other calls fill the pool, and in  *)
(* the end no item is left in it and nothing is counted as pending         *)
(* (the pool of CpuBatchService).                                          *)
CpuDrains == <>[](/\ \A c \in CpuCallers : CallAt(c, "settled")
                  /\ counted.pending = 0 /\ counted.active = 0)
=============================================================================
