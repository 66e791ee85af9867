--------------------------- MODULE DispatcherProofs ---------------------------
(***************************************************************************)
(* The dispatcher, for every set of requests and services, every plan of    *)
(* the services and every value of the bounds.  First its types; then what  *)
(* it promises about running requests: no request runs twice, no running    *)
(* request is forgotten, the rows live the life of RequestLifecycle, and    *)
(* the dispatcher thread stays up; then its limits: the claims in progress  *)
(* fit the dispatch window, and the cohorts that execute fit the batch      *)
(* limits of their service and domain, although cohorts move on while a     *)
(* refill plans with older counts.                                          *)
(***************************************************************************)
EXTENDS DispatcherProperties, FiniteSetTheorems, TLAPS

-----------------------------------------------------------------------------
(* Largest and smallest of the few numbers the dispatcher compares.         *)
LEMMA MaxOfTwo ==
    ASSUME NEW a \in Int, NEW b \in Int
    PROVE  Max({a, b}) = IF a >= b THEN a ELSE b
<1> DEFINE m == IF a >= b THEN a ELSE b
<1>1. m \in {a, b} /\ \A y \in {a, b} : m >= y
    OBVIOUS
<1>2. \A x \in {a, b} : (\A y \in {a, b} : x >= y) => x = m
    OBVIOUS
<1> QED BY <1>1, <1>2 DEF Max

LEMMA MinOfTwo ==
    ASSUME NEW a \in Int, NEW b \in Int
    PROVE  Min({a, b}) = IF a <= b THEN a ELSE b
<1> DEFINE m == IF a <= b THEN a ELSE b
<1>1. m \in {a, b} /\ \A y \in {a, b} : m <= y
    OBVIOUS
<1>2. \A x \in {a, b} : (\A y \in {a, b} : x <= y) => x = m
    OBVIOUS
<1> QED BY <1>1, <1>2 DEF Min

LEMMA MinOfThree ==
    ASSUME NEW a \in Int, NEW b \in Int, NEW c \in Int
    PROVE  /\ Min({a, b, c}) \in {a, b, c}
           /\ Min({a, b, c}) <= a /\ Min({a, b, c}) <= b /\ Min({a, b, c}) <= c
<1> DEFINE m == IF a <= b /\ a <= c THEN a ELSE IF b <= c THEN b ELSE c
<1>1. m \in {a, b, c} /\ \A y \in {a, b, c} : m <= y
    OBVIOUS
<1> QED BY <1>1 DEF Min

-----------------------------------------------------------------------------
(* Slots and requests are finite, and so is what is counted of them.        *)
LEMMA CountsFinite ==
    /\ IsFiniteSet(Cohorts)
    /\ \A S \in SUBSET Cohorts : IsFiniteSet(S) /\ Cardinality(S) \in Nat
    /\ \A T \in SUBSET Requests : IsFiniteSet(T) /\ Cardinality(T) \in Nat
    /\ \A S \in SUBSET Cohorts : \A U \in SUBSET (S \X Requests) :
            IsFiniteSet(U) /\ Cardinality(U) \in Nat
<1>1. IsFiniteSet(Cohorts)
    BY FS_Interval, BoundsType DEF Cohorts
<1>2. \A S \in SUBSET Cohorts : IsFiniteSet(S) /\ Cardinality(S) \in Nat
    BY <1>1, FS_Subset, FS_CardinalityType
<1>3. \A T \in SUBSET Requests : IsFiniteSet(T) /\ Cardinality(T) \in Nat
    BY SetsFinite, FS_Subset, FS_CardinalityType
<1>4. ASSUME NEW S \in SUBSET Cohorts, NEW U \in SUBSET (S \X Requests)
      PROVE  IsFiniteSet(U) /\ Cardinality(U) \in Nat
    <2>1. IsFiniteSet(S \X Requests)
        BY <1>2, SetsFinite, FS_Product
    <2> QED BY <2>1, FS_Subset, FS_CardinalityType
<1> QED BY <1>1, <1>2, <1>3, <1>4

LEMMA ActiveCountType ==
    ASSUME NEW S \in SUBSET Cohorts
    PROVE  ActiveCount(S) \in Nat
<1>1. Unfinished(S) \in SUBSET (S \X Requests)
    BY DEF Unfinished
<1> QED BY <1>1, CountsFinite DEF ActiveCount

-----------------------------------------------------------------------------
(* What the dispatcher does to a row and to a slot has their type.          *)
LEMMA SlotFields ==
    ASSUME TypeOK, NEW id \in Cohorts, pending[id] # None
    PROVE  pending[id] \in Cohort
BY DEF TypeOK, OrNone

LEMMA SlotUpdate ==
    ASSUME TypeOK, NEW id \in Cohorts, NEW k \in OrNone(Cohort)
    PROVE  [pending EXCEPT ![id] = k] \in [Cohorts -> OrNone(Cohort)]
BY DEF TypeOK

LEMMA RowFields ==
    ASSUME TypeOK, NEW r \in Requests
    PROVE  /\ row[r] \in Row
           /\ row[r].state \in {"absent", "waiting", "running"} \cup Settled
           /\ row[r].attempts \in Nat /\ row[r].cancel \in BOOLEAN /\ row[r].expired \in BOOLEAN
BY DEF TypeOK, Row

LEMMA FinishType ==
    ASSUME TypeOK, NEW c \in Claim, NEW out \in Outcomes
    PROVE  /\ FinishState(c.r, out) \in {"waiting"} \cup Settled
           /\ FinishedRows(c, out) \in [Requests -> Row]
<1>1. FinishState(c.r, out) \in {"waiting"} \cup Settled
    BY BoundsType DEF FinishState, Outcomes, Settled
<1>2. c.r \in Requests
    BY DEF Claim
<1>3. [row[c.r] EXCEPT !.state = FinishState(c.r, out), !.expired = FALSE] \in Row
    BY <1>1, <1>2, RowFields DEF Row
<1> QED BY <1>1, <1>2, <1>3 DEF FinishedRows, TypeOK

LEMMA TakenType ==
    ASSUME TypeOK, NEW T \in SUBSET Requests
    PROVE  TakenRows(T) \in [Requests -> Row] /\ ClaimsOf(T) \in SUBSET Claim
<1>1. ASSUME NEW r \in Requests PROVE [row[r] EXCEPT !.state = "running", !.attempts = @ + 1] \in Row
    <2>1. row[r] \in Row /\ row[r].attempts + 1 \in Nat
        BY RowFields
    <2> QED BY <2>1 DEF Row
<1>2. TakenRows(T) \in [Requests -> Row]
    BY <1>1, RowFields DEF TakenRows
<1>3. ClaimsOf(T) \in SUBSET Claim
    BY RowFields DEF ClaimsOf, Claim
<1> QED BY <1>2, <1>3

LEMMA NewCohortType ==
    ASSUME TypeOK, NEW s \in Services, NEW T \in SUBSET Requests, NEW rolling \in BOOLEAN
    PROVE  NewCohort(s, T, rolling) \in Cohort
BY TakenType DEF NewCohort, Cohort, OrNone

LEMMA SubmitType ==
    ASSUME TypeOK, NEW s \in Services, NEW T \in SUBSET Requests, NEW rolling \in BOOLEAN,
           SubmitCohort(s, T, rolling)
    PROVE  row' \in [Requests -> Row] /\ pending' \in [Cohorts -> OrNone(Cohort)]
<1>1. NewCohort(s, T, rolling) \in OrNone(Cohort)
    BY NewCohortType DEF OrNone
<1> QED BY <1>1, TakenType, SlotUpdate DEF SubmitCohort, FreeSlots

(* A cohort step rewrites the record of its own slot: the service and the   *)
(* claims it started with stay, nothing becomes unfinished again, and only  *)
(* a rolling cohort streams.                                                *)
Keeps(k, f) ==
    /\ f.service = k.service /\ f.rolling = k.rolling /\ f.claims = k.claims
    /\ f.unfinished \subseteq k.unfinished
    /\ (k.rolling \/ k.run # "stream") => (f.rolling \/ f.run # "stream")
SlotKeeps(id) ==
    /\ pending[id] # None /\ pending'[id] # None
    /\ pending[id] \in Cohort /\ pending'[id] \in Cohort
    /\ \A j \in Cohorts : j # id => pending'[j] = pending[j]
    /\ Keeps(pending[id], pending'[id])

LEMMA CohortType ==
    ASSUME TypeOK, NEW id \in Cohorts, CohortStep(id)
    PROVE  TypeOK' /\ SlotKeeps(id) /\ UNCHANGED Dispatching
<1> DEFINE k == pending[id]
<1>0. /\ pending[id] # None
      /\ UNCHANGED Dispatching
    BY DEF CohortStep, Start, ItemDone, Mark, CancelSeen, RollingRefill, BatchReturn, FinalItem,
           End, ReturnPairs, Raise, Settling, Is
<1>1. k \in Cohort
    BY <1>0, SlotFields
<1>2. /\ k.service \in Services /\ k.rolling \in BOOLEAN /\ k.run \in OrNone(RunModes)
      /\ k.claims \in SUBSET Claim /\ k.unfinished \in SUBSET Requests
      /\ k.live \in SUBSET Claim /\ k.finished \in SUBSET Requests
      /\ k.marking \in OrNone(Requests) /\ k.cancelled \in BOOLEAN
      /\ k.pairs \in SUBSET Claim /\ k.broken \in BOOLEAN
    BY <1>1 DEF Cohort
<1>3. \A c \in k.live : c \in Claim /\ c.r \in Requests
    BY <1>2 DEF Claim
<1> DEFINE Goal == /\ row' \in [Requests -> Row]
                   /\ pending' \in [Cohorts -> OrNone(Cohort)]
                   /\ failures' \in Nat
                   /\ SlotKeeps(id)
<1>4. ASSUME NEW f \in Cohort, Keeps(k, f), pending' = [pending EXCEPT ![id] = f]
      PROVE  pending' \in [Cohorts -> OrNone(Cohort)] /\ SlotKeeps(id)
    <2>1. pending' \in [Cohorts -> OrNone(Cohort)]
        BY <1>4, SlotUpdate DEF OrNone
    <2>2. pending'[id] = f /\ \A j \in Cohorts : j # id => pending'[j] = pending[j]
        BY <1>4 DEF TypeOK
    <2> QED BY <1>0, <1>1, <1>4, <2>1, <2>2, NoneIsNoCohort DEF SlotKeeps
<1>5. ASSUME Start(id) PROVE Goal
    <2>1. PICK run \in RunModes :
            /\ pending' = [pending EXCEPT ![id] = [k EXCEPT !.pc = "running", !.run = run]]
            /\ k.rolling \/ run # "stream"
        BY <1>5 DEF Start, RunModes
    <2>2. [k EXCEPT !.pc = "running", !.run = run] \in Cohort
        BY <1>1 DEF Cohort, OrNone
    <2>3. Keeps(k, [k EXCEPT !.pc = "running", !.run = run])
        BY <1>1, <2>1 DEF Cohort, Keeps
    <2> QED BY <1>4, <1>5, <2>1, <2>2, <2>3 DEF Start, TypeOK
<1>6. ASSUME ItemDone(id) PROVE Goal
    <2>1. PICK c \in k.live, out \in Outcomes :
            /\ row' = FinishedRows(c, out)
            /\ pending' = [pending EXCEPT ![id] = [k EXCEPT !.live = @ \ {c}, !.finished = @ \cup {c.r},
                                                            !.marking = c.r]]
        BY <1>6 DEF ItemDone
    <2>2. [k EXCEPT !.live = @ \ {c}, !.finished = @ \cup {c.r}, !.marking = c.r] \in Cohort
        BY <1>1, <1>3 DEF Cohort, OrNone
    <2>3. Keeps(k, [k EXCEPT !.live = @ \ {c}, !.finished = @ \cup {c.r}, !.marking = c.r])
        BY <1>1 DEF Cohort, Keeps
    <2> QED BY <1>3, <1>4, <1>6, <2>1, <2>2, <2>3, FinishType DEF ItemDone, TypeOK
<1>7. ASSUME Mark(id) PROVE Goal
    <2>1. [k EXCEPT !.unfinished = @ \ {k.marking}, !.marking = None] \in Cohort
        BY <1>1 DEF Cohort, OrNone
    <2>2. pending' = [pending EXCEPT ![id] = [k EXCEPT !.unfinished = @ \ {k.marking}, !.marking = None]]
        BY <1>7 DEF Mark
    <2>3. Keeps(k, [k EXCEPT !.unfinished = @ \ {k.marking}, !.marking = None])
        BY <1>1 DEF Cohort, Keeps
    <2> QED BY <1>4, <1>7, <2>1, <2>2, <2>3 DEF Mark, TypeOK
<1>8. ASSUME CancelSeen(id) PROVE Goal
    <2> DEFINE gone == {c.r : c \in {e \in k.live : row[e.r].state \in Settled}} \ k.finished
               left == StillWanted(k, gone)
               f == [k EXCEPT !.cancelled = TRUE, !.live = left, !.finished = @ \cup gone,
                              !.unfinished = @ \ gone,
                              !.pc = IF left = {} THEN "done" ELSE "running"]
    <2>1. gone \in SUBSET Requests /\ left \in SUBSET Claim
        BY <1>2, <1>3 DEF StillWanted
    <2>2. f \in Cohort
        BY <1>1, <2>1 DEF Cohort
    <2>3. pending' = [pending EXCEPT ![id] = f]
        BY <1>8 DEF CancelSeen
    <2>4. Keeps(k, f)
        BY <1>1 DEF Cohort, Keeps
    <2> QED BY <1>4, <1>8, <2>2, <2>3, <2>4 DEF CancelSeen, TypeOK
<1>9. ASSUME RollingRefill(id) PROVE Goal
    <2>1. PICK T \in SUBSET Waiting(k.service) :
            /\ row' = TakenRows(T)
            /\ pending' = [pending EXCEPT ![id] = [k EXCEPT !.live = @ \cup ClaimsOf(T)]]
        BY <1>9 DEF RollingRefill
    <2>2. T \in SUBSET Requests
        BY DEF Waiting
    <2>3. [k EXCEPT !.live = @ \cup ClaimsOf(T)] \in Cohort
        BY <1>1, <2>2, TakenType DEF Cohort
    <2>4. Keeps(k, [k EXCEPT !.live = @ \cup ClaimsOf(T)])
        BY <1>1 DEF Cohort, Keeps
    <2> QED BY <1>4, <1>9, <2>1, <2>2, <2>3, <2>4, TakenType DEF RollingRefill, TypeOK
<1>10. ASSUME BatchReturn(id) PROVE Goal
    <2>1. [k EXCEPT !.pc = "final"] \in Cohort
        BY <1>1 DEF Cohort
    <2>2. Keeps(k, [k EXCEPT !.pc = "final"])
        BY <1>1 DEF Cohort, Keeps
    <2> QED BY <1>4, <1>10, <2>1, <2>2 DEF BatchReturn, TypeOK
<1>11. ASSUME FinalItem(id) PROVE Goal
    <2>1. PICK c \in k.live, out \in Outcomes :
            /\ row' = FinishedRows(c, out)
            /\ pending' = [pending EXCEPT ![id] = [k EXCEPT !.live = @ \ {c}]]
        BY <1>11 DEF FinalItem
    <2>2. [k EXCEPT !.live = @ \ {c}] \in Cohort
        BY <1>1 DEF Cohort
    <2>3. Keeps(k, [k EXCEPT !.live = @ \ {c}])
        BY <1>1 DEF Cohort, Keeps
    <2> QED BY <1>3, <1>4, <1>11, <2>1, <2>2, <2>3, FinishType DEF FinalItem, TypeOK
<1>12. ASSUME End(id) PROVE Goal
    <2>1. [k EXCEPT !.pc = "done"] \in Cohort
        BY <1>1 DEF Cohort
    <2>2. Keeps(k, [k EXCEPT !.pc = "done"])
        BY <1>1 DEF Cohort, Keeps
    <2> QED BY <1>4, <1>12, <2>1, <2>2 DEF End, TypeOK
<1>13. ASSUME ReturnPairs(id) PROVE Goal
    <2>1. [k EXCEPT !.pc = "done", !.live = {}, !.pairs = k.claims] \in Cohort
        BY <1>1, <1>2 DEF Cohort
    <2>3. Keeps(k, [k EXCEPT !.pc = "done", !.live = {}, !.pairs = k.claims])
        BY <1>1 DEF Cohort, Keeps
    <2>2. pending' = [pending EXCEPT ![id] = [k EXCEPT !.pc = "done", !.live = {}, !.pairs = k.claims]]
        BY <1>13 DEF ReturnPairs
    <2> QED BY <1>4, <1>13, <2>1, <2>2, <2>3 DEF ReturnPairs, TypeOK
<1>14. ASSUME Raise(id) PROVE Goal
    <2> DEFINE left == IF k.run = "stream" THEN k.claims ELSE Active(k)
    <2>1. left \in SUBSET Claim
        BY <1>2 DEF Active
    <2>2. [k EXCEPT !.pc = "done", !.live = {}, !.broken = TRUE, !.pairs = left] \in Cohort
        BY <1>1, <2>1 DEF Cohort
    <2>6. Keeps(k, [k EXCEPT !.pc = "done", !.live = {}, !.broken = TRUE, !.pairs = left])
        BY <1>1 DEF Cohort, Keeps
    <2>3. pending' = [pending EXCEPT ![id] =
                        [k EXCEPT !.pc = "done", !.live = {}, !.broken = TRUE, !.pairs = left]]
        BY <1>14 DEF Raise
    <2>4. row' = row /\ failures' = failures + 1
        BY <1>14 DEF Raise
    <2>5. pending' \in [Cohorts -> OrNone(Cohort)] /\ SlotKeeps(id)
        BY <1>4, <2>6, <2>2, <2>3
    <2> QED BY <2>4, <2>5 DEF TypeOK
<1>15. Goal
    BY <1>5, <1>6, <1>7, <1>8, <1>9, <1>10, <1>11, <1>12, <1>13, <1>14 DEF CohortStep
<1>16. TypeOK'
    BY <1>0, <1>15 DEF TypeOK, Dispatching
<1> QED BY <1>0, <1>15, <1>16

-----------------------------------------------------------------------------
(* The dispatcher thread.                                                   *)
LEMMA RefillStartType ==
    ASSUME TypeOK, RefillStart
    PROVE  TypeOK'
<1>1. ReapedRows \in [Requests -> Row]
    <2>1. ASSUME NEW r \in Requests, NEW s \in {"waiting", "failed"}
          PROVE  [row[r] EXCEPT !.expired = FALSE, !.state = s] \in Row
        BY RowFields DEF Row, Settled
    <2>2. ASSUME NEW r \in Requests
          PROVE  [row[r] EXCEPT !.expired = FALSE,
                        !.state = IF row[r].attempts < MaxLeaseAttempts THEN "waiting" ELSE "failed"] \in Row
        BY <2>1
    <2> QED BY <2>2, RowFields DEF ReapedRows
<1>2. PendingCount \in Nat
    BY ActiveCountType DEF PendingCount
<1>3. \A s \in Services : PendingOf(s) \in SUBSET Cohorts
    BY DEF PendingOf
<1>4. [s \in Services |-> ActiveCount(PendingOf(s))] \in [Services -> Nat]
    BY <1>3, ActiveCountType
<1>5. [s \in Services |-> Cardinality({id \in PendingOf(s) : BatchActive(pending[id])})]
        \in [Services -> Nat]
    BY <1>3, CountsFinite
<1>6. [d \in Domains |-> Cardinality({id \in Cohorts : BatchActive(pending[id])
                                        /\ Plan[pending[id].service].domain = d})]
        \in [Domains -> Nat]
    BY CountsFinite
<1>7. plan' \in PlanSnapshot
    BY <1>2, <1>4, <1>5, <1>6, BoundsType DEF RefillStart, PlanSnapshot
<1>8. pc' \in {"resident", "exclusive"}
    BY DEF RefillStart
<1> QED BY <1>1, <1>7, <1>8 DEF RefillStart, TypeOK

LEMMA NoPlanType == NoPlan \in PlanSnapshot
BY DEF NoPlan, PlanSnapshot

LEMMA ResidentType ==
    ASSUME TypeOK, NEW s \in Services, ResidentClaim(s) \/ ResidentPass(s)
    PROVE  TypeOK'
<1>1. plan \in PlanSnapshot /\ Plan[s].domain \in Domains /\ Plan[s].rolling \in BOOLEAN
    BY PlanType DEF TypeOK
<1>2. CASE ResidentClaim(s)
    <2>1. PICK T \in SUBSET Waiting(s) :
            /\ SubmitCohort(s, T, Plan[s].rolling)
            /\ plan' = [plan EXCEPT
                !.available = @ - Cardinality(T), !.submitted = @ + Cardinality(T),
                !.active[s] = @ + Cardinality(T), !.service_batches[s] = @ + 1,
                !.domain_batches[Plan[s].domain] = @ + 1, !.left = @ \ {s}]
        BY <1>2 DEF ResidentClaim
    <2>2. T \in SUBSET Requests /\ Cardinality(T) \in Nat
        BY CountsFinite DEF Waiting
    <2>3. row' \in [Requests -> Row] /\ pending' \in [Cohorts -> OrNone(Cohort)]
        BY <1>1, <2>1, <2>2, SubmitType
    <2>4. /\ plan.available - Cardinality(T) \in Int
          /\ plan.submitted + Cardinality(T) \in Nat
          /\ [plan.active EXCEPT ![s] = @ + Cardinality(T)] \in [Services -> Nat]
          /\ [plan.service_batches EXCEPT ![s] = @ + 1] \in [Services -> Nat]
          /\ [plan.domain_batches EXCEPT ![Plan[s].domain] = @ + 1] \in [Domains -> Nat]
          /\ plan.left \ {s} \in SUBSET Services
        BY <1>1, <2>2 DEF PlanSnapshot
    <2>5. plan' = [available |-> plan.available - Cardinality(T),
                   submitted |-> plan.submitted + Cardinality(T),
                   active |-> [plan.active EXCEPT ![s] = @ + Cardinality(T)],
                   service_batches |-> [plan.service_batches EXCEPT ![s] = @ + 1],
                   domain_batches |-> [plan.domain_batches EXCEPT ![Plan[s].domain] = @ + 1],
                   left |-> plan.left \ {s}]
        BY <1>1, <2>1 DEF PlanSnapshot
    <2>6. plan' \in PlanSnapshot
        BY <2>4, <2>5 DEF PlanSnapshot
    <2> QED BY <1>2, <2>3, <2>6 DEF ResidentClaim, TypeOK
<1>3. CASE ResidentPass(s)
    <2>1. plan' \in PlanSnapshot
        BY <1>1, <1>3 DEF ResidentPass, PlanSnapshot
    <2> QED BY <1>3, <2>1 DEF ResidentPass, TypeOK
<1> QED BY <1>2, <1>3

LEMMA DispatcherType ==
    ASSUME TypeOK, DispatcherStep
    PROVE  TypeOK'
<1>1. ASSUME NEW id \in Cohorts, FinishDone(id) PROVE TypeOK'
    <2>1. pending[id].pairs \in SUBSET Claim /\ pending[id].broken \in BOOLEAN
        BY <1>1, SlotFields DEF FinishDone, Is, Cohort
    <2>2. pending' \in [Cohorts -> OrNone(Cohort)]
        BY <1>1, SlotUpdate DEF FinishDone, OrNone
    <2> QED BY <1>1, <2>1, <2>2 DEF FinishDone, TypeOK
<1>2. ASSUME FinishPair PROVE TypeOK'
    <2>1. PICK c \in pairs.claims, out \in Outcomes :
            row' = FinishedRows(c, out) /\ pairs' = [pairs EXCEPT !.claims = @ \ {c}]
        BY <1>2 DEF FinishPair, Outcomes
    <2>2. c \in Claim
        BY DEF TypeOK
    <2>3. pairs' \in [claims: SUBSET Claim, broken: BOOLEAN]
        BY <2>1 DEF TypeOK
    <2> QED BY <1>2, <2>1, <2>2, <2>3, FinishType DEF FinishPair, TypeOK
<1>3. ASSUME BeatStart PROVE TypeOK'
    <2>1. ASSUME NEW id \in Cohorts, pending[id] # None PROVE Active(pending[id]) \in SUBSET Claim
        BY <2>1, SlotFields DEF Active, Cohort
    <2>2. UNION {IF pending[id] = None THEN {} ELSE Active(pending[id]) : id \in Cohorts} \in SUBSET Claim
        BY <2>1
    <2>3. beat' \in SUBSET Claim
        BY <1>3, <2>2 DEF BeatStart
    <2>4. pc' \in {"refill", "beat"}
        BY <1>3 DEF BeatStart
    <2> QED BY <1>3, <2>3, <2>4 DEF BeatStart, TypeOK
<1>4. ASSUME BeatCheck PROVE TypeOK'
    BY <1>4 DEF BeatCheck, TypeOK
<1>5. ASSUME RefillExclusive PROVE TypeOK'
    <2>1. row' \in [Requests -> Row] /\ pending' \in [Cohorts -> OrNone(Cohort)]
        <3>1. CASE UNCHANGED <<row, pending>>
            BY <3>1 DEF TypeOK
        <3>2. ASSUME NEW s \in Services, NEW T \in SUBSET Waiting(s), SubmitCohort(s, T, FALSE)
              PROVE  row' \in [Requests -> Row] /\ pending' \in [Cohorts -> OrNone(Cohort)]
            BY <3>2, SubmitType DEF Waiting
        <3> QED BY <1>5, <3>1, <3>2 DEF RefillExclusive
    <2> QED BY <1>5, <2>1, NoPlanType DEF RefillExclusive, TypeOK
<1>6. ASSUME RefillSkip \/ ResidentEnd \/ StopSeen \/ Drained PROVE TypeOK'
    BY <1>6, NoPlanType DEF RefillSkip, ResidentEnd, StopSeen, Drained, TypeOK
<1> QED BY <1>1, <1>2, <1>3, <1>4, <1>5, <1>6, RefillStartType, ResidentType DEF DispatcherStep

(* Clients, the passing of time, stop and crash. *)
LEMMA OtherType ==
    ASSUME TypeOK,
           Stop \/ Crash \/ \E r \in Requests : Submit(r) \/ Cancel(r) \/ Expire(r)
    PROVE  TypeOK'
<1>1. ASSUME NEW r \in Requests, Submit(r) \/ Cancel(r) \/ Expire(r) PROVE TypeOK'
    <2>1. \A s \in {"waiting", "cancelled"} :
            /\ [row[r] EXCEPT !.state = s] \in Row
            /\ [row[r] EXCEPT !.state = s, !.expired = FALSE] \in Row
        BY RowFields DEF Row, Settled
    <2>2. [row[r] EXCEPT !.cancel = TRUE] \in Row /\ [row[r] EXCEPT !.expired = TRUE] \in Row
        BY RowFields DEF Row
    <2>3. row' \in [Requests -> Row]
        BY <1>1, <2>1, <2>2 DEF Submit, Cancel, Expire, TypeOK
    <2> QED BY <1>1, <2>3 DEF Submit, Cancel, Expire, TypeOK
<1>2. CASE Stop
    BY <1>2 DEF Stop, TypeOK
<1>3. CASE Crash
    <2>1. NoPairs \in [claims: SUBSET Claim, broken: BOOLEAN]
        BY DEF NoPairs
    <2>2. failures' \in Nat
        BY <1>3 DEF Crash, TypeOK
    <2>3. pending' \in [Cohorts -> OrNone(Cohort)]
        BY <1>3 DEF Crash, OrNone
    <2> QED BY <1>3, <2>1, <2>2, <2>3, NoPlanType DEF Crash, TypeOK
<1> QED BY <1>1, <1>2, <1>3

LEMMA DispatcherInitType == Init => TypeOK
<1> SUFFICES ASSUME Init PROVE TypeOK
    OBVIOUS
<1>1. row \in [Requests -> Row]
    BY DEF Init, Row
<1>2. pending \in [Cohorts -> OrNone(Cohort)]
    BY DEF Init, OrNone
<1> QED BY <1>1, <1>2, NoPlanType, BoundsType DEF Init, TypeOK, NoPairs

LEMMA DispatcherNextType == TypeOK /\ [Next]_vars => TypeOK'
<1>1. TypeOK /\ UNCHANGED vars => TypeOK'
    BY DEF TypeOK, vars, ActiveCount
<1> QED BY <1>1, CohortType, DispatcherType, OtherType DEF Next

(* Rows, cohorts, the dispatcher's own state and its plan keep their types  *)
(* in every behaviour, for every set of requests and services, every plan   *)
(* and window (api.py: _dispatcher_tick; worker.py: the cohort runs).       *)
THEOREM DispatcherTypeCorrect == Spec => []TypeOK
BY DispatcherInitType, DispatcherNextType, PTL DEF Spec

-----------------------------------------------------------------------------
(* The inductive invariant.                                                 *)

Occupied == {id \in Cohorts : pending[id] # None}
Has(k) == k.claims \cup k.live \cup k.pairs

(* A claim is of an attempt that was made, and only one cohort, or the      *)
(* dispatcher after it, has it.                                             *)
ClaimsIssued ==
    /\ \A id \in Occupied : \A c \in Has(pending[id]) : c.n <= row[c.r].attempts
    /\ \A c \in pairs.claims : c.n <= row[c.r].attempts
ClaimsApart ==
    /\ \A i, j \in Occupied : \A c \in Has(pending[i]) : c \in Has(pending[j]) => i = j
    /\ \A i \in Occupied : \A c \in Has(pending[i]) : c \notin pairs.claims

(* What a thread executes is running under its lease, or was cancelled.     *)
LiveHeld ==
    \A id \in Occupied : \A c \in pending[id].live : Holds(c) \/ row[c.r].state \in Settled
RunInv == ClaimsIssued /\ ClaimsApart /\ LiveHeld /\ ExclusiveRun

(* A thread that is done executes nothing, and only then returns claims;    *)
(* only a stream executes more than it started with.                        *)
Phases(k) ==
    /\ k.pc = "submitted" => k.run = None
    /\ k.pc = "done" => k.live = {}
    /\ k.pc # "done" => k.pairs = {}
    /\ k.run # "stream" => k.live \subseteq k.claims
    /\ k.marking # None => k.marking \in k.finished

(* A claim a cohort started with is with its thread, or returned, while its *)
(* lease is held, and its request counts as unfinished.                     *)
HeldKept(k) == \A c \in k.claims : Holds(c) => c \in k.live \cup k.pairs
StartedOnce(k) ==
    \A c \in k.claims : c \in k.live => c.r \notin k.finished /\ c.r \in k.unfinished
KeepAt(id) == Phases(pending[id]) /\ HeldKept(pending[id]) /\ StartedOnce(pending[id])
KeepInv == \A id \in Occupied : KeepAt(id)

(* Only the lease of a claim nobody tends runs out.                         *)
ExpiredOrphans == \A r \in Requests : row[r].expired => Orphan(r)

CohortInv == TypeOK /\ RunInv /\ KeepInv /\ ExpiredOrphans

-----------------------------------------------------------------------------
(* What a step does to rows and claims.                                     *)

(* A claim that the step makes. *)
Fresh(c) ==
    /\ row[c.r].state = "waiting" /\ c.n = row[c.r].attempts + 1
    /\ row'[c.r].state = "running" /\ row'[c.r].attempts = c.n

(* An attempt is never uncounted, a settled row stays settled and a row     *)
(* that runs under the attempt it had before ran before.                    *)
RowsMove ==
    \A r \in Requests :
        /\ row'[r].attempts >= row[r].attempts
        /\ row[r].state \in Settled => row'[r].state \in Settled
        /\ row'[r].state = "running" /\ row'[r].attempts = row[r].attempts => row[r].state = "running"

(* A cohort gets claims only by making them, goes on executing only claims  *)
(* whose row still runs or is settled, and no two make the same claim.      *)
SlotMoves(j) ==
    /\ \A c \in Has(pending'[j]) : (pending[j] # None /\ c \in Has(pending[j])) \/ Fresh(c)
    /\ \A c \in pending'[j].live :
        \/ /\ pending[j] # None /\ c \in pending[j].live
           /\ Holds(c) => row'[c.r].state \in Settled \/ Holds(c)'
        \/ Fresh(c)
ClaimsMove ==
    /\ \A j \in Cohorts : pending'[j] # None => SlotMoves(j)
    /\ \A i, j \in Cohorts : pending'[i] # None /\ pending'[j] # None =>
        \A c \in Has(pending'[i]) : c \in Has(pending'[j]) /\ Fresh(c) => i = j

(* The dispatcher gets claims from a cohort it pops. *)
PairsMove ==
    \/ pairs'.claims \subseteq pairs.claims
    \/ \E id \in Occupied : pairs'.claims = pending[id].pairs /\ pending'[id] = None

Moves == RowsMove /\ ClaimsMove /\ PairsMove

LEMMA ClaimFields ==
    ASSUME NEW slots \in [Cohorts -> OrNone(Cohort)], NEW id \in Cohorts, slots[id] # None
    PROVE  /\ slots[id] \in Cohort
           /\ slots[id].claims \subseteq Has(slots[id]) /\ slots[id].pairs \subseteq Has(slots[id])
           /\ slots[id].live \subseteq Has(slots[id])
           /\ Has(slots[id]) \subseteq Claim
BY DEF OrNone, Cohort, Has

LEMMA ClaimParts ==
    /\ \A c \in Claim : c.r \in Requests /\ c.n \in Nat /\ c = [r |-> c.r, n |-> c.n]
    /\ \A c, e \in Claim : c.r = e.r /\ c.n = e.n => c = e
BY DEF Claim

(* Such steps keep the claims apart and every execution exclusive. *)
LEMMA RunStep ==
    ASSUME TypeOK, TypeOK', RunInv, Moves
    PROVE  RunInv'
<1>0. /\ \A id \in Occupied : Has(pending[id]) \subseteq Claim /\ pending[id].live \subseteq Has(pending[id])
      /\ \A id \in Occupied' : Has(pending'[id]) \subseteq Claim
                               /\ pending'[id].live \subseteq Has(pending'[id])
      /\ pairs'.claims \subseteq Claim /\ pairs.claims \subseteq Claim
    BY ClaimFields DEF TypeOK, Occupied
<1>1. \A c \in Claim : /\ c.r \in Requests /\ c.n \in Nat
                       /\ row[c.r].attempts \in Nat /\ row'[c.r].attempts \in Nat
                       /\ row'[c.r].attempts >= row[c.r].attempts
                       /\ row[c.r].state \in Settled => row'[c.r].state \in Settled
    <2>1. \A r \in Requests : row[r].attempts \in Nat /\ row'[r].attempts \in Nat
        BY DEF TypeOK, Row
    <2> QED BY <2>1, ClaimParts DEF Moves, RowsMove
<1>2. \A id \in Occupied' : id \in Cohorts /\ pending'[id] # None /\ SlotMoves(id)
    BY DEF Occupied, Moves, ClaimsMove
<1>3. \A id \in Occupied' : \A c \in Has(pending'[id]) :
        (id \in Occupied /\ c \in Has(pending[id])) \/ Fresh(c)
    BY <1>2 DEF SlotMoves, Occupied
(* Old claims are of attempts already made, fresh ones are not. *)
<1>4. \A id \in Occupied : \A c \in Has(pending[id]) : ~Fresh(c)
    BY <1>0, <1>1 DEF RunInv, ClaimsIssued, Fresh
<1>5. \A c \in pairs.claims : ~Fresh(c)
    BY <1>0, <1>1 DEF RunInv, ClaimsIssued, Fresh
<1>6. ClaimsIssued'
    <2>1. \A id \in Occupied' : \A c \in Has(pending'[id]) : c.n <= row'[c.r].attempts
        BY <1>0, <1>1, <1>3 DEF RunInv, ClaimsIssued, Fresh
    <2>2. \A c \in pairs'.claims : c.n <= row'[c.r].attempts
        <3>1. CASE pairs'.claims \subseteq pairs.claims
            BY <1>0, <1>1, <3>1 DEF RunInv, ClaimsIssued
        <3>2. CASE \E id \in Occupied : pairs'.claims = pending[id].pairs /\ pending'[id] = None
            BY <1>0, <1>1, <3>2 DEF RunInv, ClaimsIssued, Has
        <3> QED BY <3>1, <3>2 DEF Moves, PairsMove
    <2> QED BY <2>1, <2>2 DEF ClaimsIssued
<1>7. ClaimsApart'
    <2>1. ASSUME NEW i \in Occupied', NEW j \in Occupied', NEW c \in Has(pending'[i]),
                 c \in Has(pending'[j])
          PROVE  i = j
        <3>1. CASE Fresh(c)
            BY <1>2, <2>1, <3>1 DEF Moves, ClaimsMove
        <3>2. CASE ~Fresh(c)
            BY <1>3, <2>1, <3>2 DEF RunInv, ClaimsApart
        <3> QED BY <3>1, <3>2
    <2>2. ASSUME NEW i \in Occupied', NEW c \in Has(pending'[i]), c \in pairs'.claims
          PROVE  FALSE
        <3>1. CASE pairs'.claims \subseteq pairs.claims
            BY <1>3, <1>5, <2>2, <3>1 DEF RunInv, ClaimsApart
        <3>2. CASE \E id \in Occupied : pairs'.claims = pending[id].pairs /\ pending'[id] = None
            <4>1. PICK id \in Occupied : pairs'.claims = pending[id].pairs /\ pending'[id] = None
                BY <3>2
            <4>2. c \in Has(pending[id]) /\ i # id
                BY <1>2, <2>2, <4>1 DEF Has
            <4> QED BY <1>3, <1>4, <4>2 DEF RunInv, ClaimsApart
        <3> QED BY <3>1, <3>2 DEF Moves, PairsMove
    <2> QED BY <2>1, <2>2 DEF ClaimsApart
(* What a thread goes on executing it executed before, or just claimed. *)
<1>8. ASSUME NEW id \in Occupied', NEW c \in pending'[id].live
      PROVE  \/ /\ id \in Occupied /\ c \in pending[id].live
                /\ Holds(c) => row'[c.r].state \in Settled \/ Holds(c)'
             \/ Fresh(c)
    BY <1>2, <1>8 DEF SlotMoves, Occupied
<1>9. LiveHeld'
    <2> SUFFICES ASSUME NEW id \in Occupied', NEW c \in pending'[id].live
                 PROVE  (Holds(c) \/ row[c.r].state \in Settled)'
        BY DEF LiveHeld
    <2>1. c \in Claim
        BY <1>0
    <2>2. CASE Fresh(c)
        BY <2>2 DEF Fresh, Holds
    <2>3. CASE ~Fresh(c)
        BY <1>1, <1>8, <2>1, <2>3 DEF RunInv, LiveHeld
    <2> QED BY <2>2, <2>3
<1>10. ExclusiveRun'
    <2> SUFFICES ASSUME NEW i \in Occupied', NEW j \in Occupied',
                        NEW c \in pending'[i].live, NEW e \in pending'[j].live, c.r = e.r
                 PROVE  i = j /\ c = e
        BY <1>2 DEF ExclusiveRun, Occupied
    <2>1. c \in Claim /\ e \in Claim
        BY <1>0
    <2>2. CASE Fresh(c) /\ Fresh(e)
        <3>1. c = e
            BY <2>1, <2>2, ClaimParts DEF Fresh
        <3> QED BY <1>0, <1>2, <2>2, <3>1 DEF Moves, ClaimsMove
    <2>3. CASE ~Fresh(c) /\ ~Fresh(e)
        BY <1>8, <2>3 DEF RunInv, ExclusiveRun, Occupied
    <2>4. CASE (Fresh(c) /\ ~Fresh(e)) \/ (~Fresh(c) /\ Fresh(e))
        <3>1. row[c.r].state = "waiting"
            BY <2>4 DEF Fresh
        <3>2. row[c.r].state = "running" \/ row[c.r].state \in Settled
            BY <1>8, <2>4 DEF RunInv, LiveHeld, Holds
        <3> QED BY <3>1, <3>2 DEF Settled
    <2> QED BY <2>2, <2>3, <2>4
<1> QED BY <1>6, <1>7, <1>9, <1>10 DEF RunInv
-----------------------------------------------------------------------------
(* The queue's steps on rows.                                               *)
LEMMA FinishMoves ==
    ASSUME TypeOK, NEW c \in Claim, NEW out \in Outcomes, row' = FinishedRows(c, out)
    PROVE  /\ RowsMove /\ ~Holds(c)'
           /\ \A e \in Claim : Holds(e) /\ e # c => Holds(e)'
           /\ \A r \in Requests : row'[r].expired => row[r].expired /\ row'[r] = row[r]
<1>1. c.r \in Requests /\ FinishState(c.r, out) \in {"waiting"} \cup Settled
    BY FinishType, ClaimParts
<1>2. \A r \in Requests : row[r] \in Row /\ row[r].attempts \in Nat
    BY RowFields
<1>3. \A r \in Requests : r # c.r \/ ~Holds(c) => row'[r] = row[r]
    BY <1>1, <1>2 DEF FinishedRows, TypeOK
<1>4. Holds(c) => /\ row'[c.r].state = FinishState(c.r, out)
                  /\ row'[c.r].attempts = row[c.r].attempts
                  /\ row'[c.r].expired = FALSE
    BY <1>1, <1>2 DEF FinishedRows, TypeOK, Row
<1>5. RowsMove
    BY <1>1, <1>2, <1>3, <1>4 DEF RowsMove, Holds, Settled
<1>6. ~Holds(c)'
    BY <1>1, <1>3, <1>4 DEF Holds, Settled
<1>7. ASSUME NEW e \in Claim, Holds(e), e # c PROVE Holds(e)'
    <2>1. e.r # c.r \/ ~Holds(c)
        BY <1>7, ClaimParts DEF Holds
    <2> QED BY <1>3, <1>7, <2>1, ClaimParts DEF Holds
<1>8. \A r \in Requests : row'[r].expired => row[r].expired /\ row'[r] = row[r]
    BY <1>3, <1>4
<1> QED BY <1>5, <1>6, <1>7, <1>8

LEMMA TakeMoves ==
    ASSUME TypeOK, NEW T \in SUBSET Requests, \A r \in T : row[r].state = "waiting",
           row' = TakenRows(T)
    PROVE  /\ RowsMove
           /\ \A c \in ClaimsOf(T) : Fresh(c)
           /\ \A e \in Claim : Holds(e) => Holds(e)'
           /\ \A r \in Requests : r \notin T => row'[r] = row[r]
           /\ \A r \in T : row'[r].expired = row[r].expired
<1>1. \A r \in Requests : row[r] \in Row /\ row[r].attempts \in Nat
    BY RowFields
<1>2. \A r \in Requests : r \notin T => row'[r] = row[r]
    BY DEF TakenRows
<1>3. \A r \in T : /\ row'[r].state = "running" /\ row'[r].attempts = row[r].attempts + 1
                   /\ row'[r].expired = row[r].expired
    BY <1>1 DEF TakenRows, Row
<1>4. RowsMove
    BY <1>1, <1>2, <1>3 DEF RowsMove, Settled
<1>5. \A c \in ClaimsOf(T) : Fresh(c)
    BY <1>1, <1>3 DEF ClaimsOf, Fresh
<1>6. \A e \in Claim : Holds(e) => Holds(e)'
    BY <1>2, ClaimParts DEF Holds
<1> QED BY <1>2, <1>3, <1>4, <1>5, <1>6

LEMMA HeldTended ==
    ASSUME TypeOK, ExpiredOrphans, NEW c \in Claim, Holds(c), Tended(c)
    PROVE  ~row[c.r].expired
BY ClaimParts DEF Holds, ExpiredOrphans, Orphan

LEMMA LiveTended ==
    ASSUME TypeOK, NEW id \in Occupied, NEW c \in pending[id].live \cup pending[id].pairs
    PROVE  c \in Claim /\ Tended(c)
BY ClaimFields DEF TypeOK, Occupied, Tended

LEMMA ReapMoves ==
    ASSUME TypeOK, ExpiredOrphans, row' = ReapedRows
    PROVE  /\ RowsMove
           /\ \A r \in Requests : ~row[r].expired => row'[r] = row[r]
           /\ \A r \in Requests : row'[r].state = "running" => row'[r] = row[r]
           /\ \A r \in Requests : row'[r].expired = FALSE
<1>1. \A r \in Requests : row[r] \in Row /\ row[r].attempts \in Nat /\ row[r].expired \in BOOLEAN
    BY RowFields
<1>2. \A r \in Requests : ~row[r].expired => row'[r] = row[r]
    BY DEF ReapedRows
<1>3. \A r \in Requests : row[r].expired =>
        /\ row[r].state = "running"
        /\ row'[r].state \in {"waiting", "failed"} /\ row'[r].attempts = row[r].attempts
        /\ row'[r].expired = FALSE
    BY <1>1 DEF ReapedRows, Row, ExpiredOrphans, Orphan
<1>4. RowsMove
    BY <1>1, <1>2, <1>3 DEF RowsMove, Settled
<1> QED BY <1>1, <1>2, <1>3, <1>4

(* Clients and time. *)
LEMMA OtherMoves ==
    ASSUME TypeOK, NEW r \in Requests, Submit(r) \/ Cancel(r) \/ Expire(r)
    PROVE  /\ RowsMove
           /\ \A e \in Claim : Holds(e) => Holds(e)' \/ row'[e.r].state \in Settled
           /\ \A q \in Requests : /\ row'[q].attempts = row[q].attempts
                                  /\ row'[q].state = "running" => row[q].state = "running"
<1>1. row[r] \in Row
    BY RowFields
<1>2. \A q \in Requests : q # r => row'[q] = row[q]
    BY DEF Submit, Cancel, Expire, TypeOK
<1>3. /\ row'[r].attempts = row[r].attempts
      /\ \/ row[r].state = "absent" /\ row'[r].state = "waiting"
         \/ row[r].state \in {"waiting", "running"} /\ row'[r].state = "cancelled"
         \/ row'[r].state = row[r].state
    BY <1>1 DEF Submit, Cancel, Expire, TypeOK, Row
<1>4. \A q \in Requests : row[q].attempts \in Nat
    BY RowFields
<1>5. RowsMove
    BY <1>2, <1>3, <1>4 DEF RowsMove, Settled
<1>6. \A e \in Claim : Holds(e) => Holds(e)' \/ row'[e.r].state \in Settled
    BY <1>2, <1>3, ClaimParts DEF Holds, Settled
<1> QED BY <1>2, <1>3, <1>5, <1>6
-----------------------------------------------------------------------------
(* A step that rewrites at most the slot id, or the rows, or the            *)
(* dispatcher's pairs keeps the invariant if it does so as Moves says, and  *)
(* if nothing it tends afterwards is the claim of an expired lease.         *)
Tends(id, c) ==
    /\ pending[id] # None
    /\ c \in Active(pending[id]) \cup pending[id].live \cup pending[id].pairs

LEMMA TendedBySlot ==
    ASSUME NEW c
    PROVE  Tended(c) <=> c \in pairs.claims \/ \E id \in Cohorts : Tends(id, c)
BY DEF Tended, Tends

LEMMA SlotStep ==
    ASSUME CohortInv, TypeOK', NEW id, RowsMove, PairsMove,
           \A j \in Cohorts : j # id => pending'[j] = pending[j],
           id \in Cohorts /\ pending'[id] # None =>
                /\ SlotMoves(id) /\ KeepAt(id)'
                /\ \A c \in Claim : Holds(c) /\ Tends(id, c)' => Tended(c),
           \A c \in pairs'.claims : Holds(c) => Tended(c),
           \A j \in Occupied : j # id => \A c \in pending[j].live :
                Holds(c) => row'[c.r].state \in Settled \/ Holds(c)',
           \A r \in Requests : row'[r].expired =>
                /\ Orphan(r) /\ row'[r].state = row[r].state
                /\ row'[r].attempts = row[r].attempts
    PROVE  CohortInv'
<1> USE DEF CohortInv
<1>1. \A j \in Occupied : /\ pending[j].claims \subseteq Has(pending[j])
                          /\ pending[j].live \subseteq Has(pending[j])
                          /\ Has(pending[j]) \subseteq Claim
    BY ClaimFields DEF TypeOK, Occupied
<1>2. \A c \in Claim : c.r \in Requests /\ row[c.r].attempts \in Nat /\ row'[c.r].attempts \in Nat
    BY ClaimParts DEF TypeOK, Row
<1>3. \A c \in Claim : c.n <= row[c.r].attempts => ~Fresh(c) /\ (Holds(c)' => Holds(c))
    BY <1>2, ClaimParts DEF Fresh, Holds, RowsMove
<1>4. \A j \in Cohorts : pending'[j] # None => SlotMoves(j)
    BY DEF SlotMoves, Occupied
<1>5. ClaimsMove
    <2> SUFFICES ASSUME NEW i \in Cohorts, NEW j \in Cohorts, pending'[i] # None,
                        pending'[j] # None, NEW c \in Has(pending'[i]),
                        c \in Has(pending'[j]), Fresh(c)
                 PROVE  i = j
        BY <1>4 DEF ClaimsMove
    <2>1. \A l \in Occupied : c \notin Has(pending[l])
        BY <1>1, <1>3 DEF RunInv, ClaimsIssued
    <2> QED BY <2>1 DEF Occupied
<1>6. RunInv'
    BY <1>5, RunStep DEF Moves
<1>7. KeepInv'
    <2> SUFFICES ASSUME NEW j \in Occupied' PROVE KeepAt(j)'
        BY DEF KeepInv
    <2>1. CASE j = id
        BY <2>1 DEF Occupied
    <2>2. CASE j # id
        <3>1. j \in Occupied /\ pending'[j] = pending[j]
            BY <2>2 DEF Occupied
        <3>2. \A c \in pending[j].claims : Holds(c)' => Holds(c)
            BY <1>1, <1>3, <3>1 DEF RunInv, ClaimsIssued
        <3> QED BY <3>1, <3>2 DEF KeepInv, KeepAt, Phases, HeldKept, StartedOnce
    <2> QED BY <2>1, <2>2
<1>8. ExpiredOrphans'
    <2> SUFFICES ASSUME NEW r \in Requests, row'[r].expired PROVE Orphan(r)'
        BY DEF ExpiredOrphans
    <2> DEFINE c == [r |-> r, n |-> row[r].attempts]
    <2>1. row[r].state = "running" /\ ~Tended(c) /\ row[r].attempts \in Nat
        BY RowFields DEF Orphan
    <2>2. row'[r].state = "running" /\ row'[r].attempts = row[r].attempts
        BY <2>1
    <2>3. ~Tended([r |-> r, n |-> row[r].attempts])'
        <3>1. ASSUME NEW e, e = c PROVE ~Tended(e)'
            <4>1. Holds(e) /\ ~Tended(e)
                BY <2>1, <3>1 DEF Holds
            <4>2. e \notin pairs'.claims
                BY <4>1
            <4>3. ASSUME NEW j \in Cohorts, Tends(j, e)' PROVE FALSE
                <5>0. pending'[j] # None
                    BY <4>3 DEF Tends
                <5>1. e \in Claim
                    BY <4>3, <5>0, ClaimFields DEF Tends, Active, Has, TypeOK
                <5>2. CASE j = id
                    BY <4>1, <4>3, <5>0, <5>1, <5>2
                <5>3. CASE j # id
                    BY <4>1, <4>3, <5>3, TendedBySlot DEF Tends
                <5> QED BY <5>2, <5>3
            <4> QED BY <4>2, <4>3 DEF Tended, Tends
        <3> QED BY <2>2, <3>1
    <2> QED BY <2>2, <2>3 DEF Orphan
<1> QED BY <1>6, <1>7, <1>8
-----------------------------------------------------------------------------
(* The steps of a cohort thread.                                            *)

(* A step that makes and settles no claim. *)
LEMMA QuietStep ==
    ASSUME CohortInv, TypeOK', NEW id \in Occupied, row' = row, pairs' = pairs,
           NEW f \in Cohort, pending' = [pending EXCEPT ![id] = f],
           f.claims = pending[id].claims, f.live \subseteq pending[id].live,
           f.pairs \subseteq pending[id].claims \cup pending[id].pairs,
           \A c \in f.pairs : Holds(c) => Tended(c),
           f.unfinished \subseteq pending[id].unfinished,
           Phases(f), HeldKept(f), StartedOnce(f)
    PROVE  CohortInv'
<1>0. /\ id \in Cohorts /\ pending'[id] = f
      /\ \A j \in Cohorts : j # id => pending'[j] = pending[j]
      /\ f # None => pending'[id] # None
    BY DEF CohortInv, TypeOK, Occupied
<1>1. RowsMove
    BY RowFields DEF RowsMove, CohortInv
<1>2. \A c : Holds(c)' = Holds(c)
    BY DEF Holds
<1>3. SlotMoves(id)
    BY <1>0, <1>2 DEF SlotMoves, Has, Occupied
<1>4. KeepAt(id)'
    BY <1>0, <1>2 DEF KeepAt, Phases, HeldKept, StartedOnce
<1>5. \A c \in Claim : Holds(c) /\ Tends(id, c)' => Tended(c)
    <2>1. \A c \in f.live : Tended(c)
        BY <1>0, LiveTended DEF CohortInv
    <2>2. \A c \in Active(f) : c \in Active(pending[id])
        BY DEF Active
    <2>3. \A c \in Active(f) : Tended(c)
        BY <1>0, <2>2 DEF Tended, Occupied
    <2> QED BY <1>0, <2>1, <2>3 DEF Tends
<1>6. \A c \in pairs'.claims : Tended(c)
    BY DEF Tended
<1>7. \A r \in Requests : row'[r].expired =>
        /\ Orphan(r) /\ row'[r].state = row[r].state
        /\ row'[r].attempts = row[r].attempts
    BY DEF CohortInv, ExpiredOrphans
<1>8. PairsMove
    BY DEF PairsMove
<1> QED BY <1>0, <1>1, <1>2, <1>3, <1>4, <1>5, <1>6, <1>7, <1>8, SlotStep

(* A thread settles one of its claims. *)
LEMMA SettleStep ==
    ASSUME CohortInv, TypeOK', NEW id \in Occupied, pairs' = pairs,
           NEW c \in pending[id].live, NEW out \in Outcomes, row' = FinishedRows(c, out),
           NEW f \in Cohort, pending' = [pending EXCEPT ![id] = f],
           f.claims = pending[id].claims, f.live = pending[id].live \ {c},
           f.pairs = pending[id].pairs, f.unfinished = pending[id].unfinished,
           f.finished \subseteq pending[id].finished \cup {c.r},
           Phases(f)
    PROVE  CohortInv'
<1>0. /\ id \in Cohorts /\ pending'[id] = f
      /\ \A j \in Cohorts : j # id => pending'[j] = pending[j]
    BY DEF CohortInv, TypeOK, Occupied
<1>1. /\ c \in Claim
      /\ \A j \in Occupied : Has(pending[j]) \subseteq Claim /\ pending[j].live \subseteq Has(pending[j])
                             /\ pending[j].claims \subseteq Has(pending[j])
    BY ClaimFields DEF CohortInv, TypeOK, Occupied
<1>2. /\ RowsMove /\ ~Holds(c)'
      /\ \A e \in Claim : Holds(e) /\ e # c => Holds(e)'
      /\ \A r \in Requests : row'[r].expired => row[r].expired /\ row'[r] = row[r]
    BY <1>1, FinishMoves DEF CohortInv
<1>3. \A e \in Claim : e.n <= row[e.r].attempts => (Holds(e)' => Holds(e))
    <2>1. \A r \in Requests : row[r].attempts \in Nat /\ row'[r].attempts \in Nat
        BY RowFields DEF CohortInv, TypeOK, Row
    <2> QED BY <1>2, <2>1, ClaimParts DEF RowsMove, Holds
<1>4. SlotMoves(id)
    BY <1>0, <1>1, <1>2 DEF SlotMoves, Has, Occupied
<1>5. KeepAt(id)'
    <2>1. KeepAt(id)
        BY DEF CohortInv, KeepInv
    <2>2. HeldKept(f)'
        BY <1>1, <1>2, <1>3, <2>1 DEF KeepAt, HeldKept, CohortInv, RunInv, ClaimsIssued
    <2>3. \A e \in pending[id].live : e.r = c.r => e = c
        BY <1>0 DEF CohortInv, RunInv, ExclusiveRun, Occupied
    <2>4. StartedOnce(f)
        BY <2>1, <2>3 DEF KeepAt, StartedOnce
    <2> QED BY <1>0, <2>2, <2>4 DEF KeepAt, Phases, HeldKept, StartedOnce
<1>6. \A e \in Claim : Tends(id, e)' => Tended(e)
    BY <1>0 DEF Tends, Tended, Active, Occupied
<1>7. \A j \in Occupied : j # id => \A e \in pending[j].live :
        Holds(e) => row'[e.r].state \in Settled \/ Holds(e)'
    <2>1. \A j \in Occupied : j # id => c \notin pending[j].live
        BY <1>1 DEF CohortInv, RunInv, ClaimsApart
    <2> QED BY <1>1, <1>2, <2>1
<1>8. \A e \in pairs'.claims : Tended(e)
    BY DEF Tended
<1>9. \A r \in Requests : row'[r].expired =>
        /\ Orphan(r) /\ row'[r].state = row[r].state
        /\ row'[r].attempts = row[r].attempts
    BY <1>2 DEF CohortInv, ExpiredOrphans
<1>10. PairsMove
    BY DEF PairsMove
<1> QED BY <1>0, <1>2, <1>4, <1>5, <1>6, <1>7, <1>8, <1>9, <1>10, SlotStep

(* A cohort, new or rolling, claims waiting requests. *)
LEMMA TakeStep ==
    ASSUME CohortInv, TypeOK', NEW id \in Cohorts, pairs' = pairs,
           NEW T \in SUBSET Requests, \A r \in T : row[r].state = "waiting",
           row' = TakenRows(T),
           NEW f \in Cohort, pending' = [pending EXCEPT ![id] = f],
           \/ /\ pending[id] = None
              /\ f.claims = ClaimsOf(T) /\ f.live = ClaimsOf(T) /\ f.unfinished = T
              /\ f.finished = {} /\ f.marking = None
           \/ /\ pending[id] # None
              /\ f.claims = pending[id].claims /\ f.live = pending[id].live \cup ClaimsOf(T)
              /\ f.unfinished = pending[id].unfinished /\ f.finished = pending[id].finished
              /\ f.marking = pending[id].marking /\ pending[id].pc = "running",
           f.pairs = {}, f.pc # "done", f.pc = "submitted" => f.run = None,
           f.run # "stream" => pending[id] = None
    PROVE  CohortInv'
<1>0. /\ pending'[id] = f
      /\ \A j \in Cohorts : j # id => pending'[j] = pending[j]
    BY DEF CohortInv, TypeOK
<1>1. /\ \A j \in Occupied : Has(pending[j]) \subseteq Claim /\ pending[j].live \subseteq Has(pending[j])
                             /\ pending[j].claims \subseteq Has(pending[j])
      /\ ClaimsOf(T) \subseteq Claim
    BY ClaimFields, TakenType DEF CohortInv, TypeOK, Occupied
<1>2. /\ RowsMove
      /\ \A c \in ClaimsOf(T) : Fresh(c)
      /\ \A e \in Claim : Holds(e) => Holds(e)'
      /\ \A r \in Requests : r \notin T => row'[r] = row[r]
      /\ \A r \in T : row'[r].expired = row[r].expired
    BY TakeMoves DEF CohortInv
<1>3. \A e \in Claim : e.n <= row[e.r].attempts => (Holds(e)' => Holds(e)) /\ ~Fresh(e)
    <2>1. \A r \in Requests : row[r].attempts \in Nat /\ row'[r].attempts \in Nat
        BY RowFields DEF CohortInv, TypeOK, Row
    <2> QED BY <1>2, <2>1, ClaimParts DEF RowsMove, Holds, Fresh
<1>4. SlotMoves(id)
    BY <1>0, <1>1, <1>2 DEF SlotMoves, Has, Occupied
<1>5. KeepAt(id)'
    <2>1. CASE pending[id] = None
        <3>1. ClaimsOf(T) \subseteq f.live /\ \A c \in ClaimsOf(T) : c.r \in T
            BY <2>1 DEF ClaimsOf
        <3> QED BY <1>0, <2>1, <3>1 DEF KeepAt, Phases, HeldKept, StartedOnce
    <2>2. CASE pending[id] # None
        <3>1. KeepAt(id) /\ id \in Occupied
            BY <2>2 DEF CohortInv, KeepInv, Occupied
        <3>2. HeldKept(f)'
            BY <1>1, <1>3, <2>2, <3>1 DEF KeepAt, Phases, HeldKept, CohortInv, RunInv, ClaimsIssued
        <3>3. \A c \in f.claims : c \notin ClaimsOf(T)
            BY <1>1, <1>2, <1>3, <2>2, <3>1 DEF CohortInv, RunInv, ClaimsIssued
        <3>4. StartedOnce(f)
            BY <2>2, <3>1, <3>3 DEF KeepAt, StartedOnce
        <3>5. Phases(f)
            BY <2>2, <3>1 DEF KeepAt, Phases
        <3> QED BY <1>0, <3>2, <3>4, <3>5 DEF KeepAt, Phases, HeldKept, StartedOnce
    <2> QED BY <2>1, <2>2
<1>6. \A e \in Claim : Holds(e) /\ Tends(id, e)' => Tended(e)
    <2>1. \A e \in ClaimsOf(T) : ~Holds(e)
        BY <1>2 DEF Fresh, Holds
    <2> QED BY <1>0, <2>1 DEF Tends, Tended, Active
<1>7. \A j \in Occupied : \A e \in pending[j].live : Holds(e) => Holds(e)'
    BY <1>1, <1>2
<1>8. \A e \in pairs'.claims : Tended(e)
    BY DEF Tended
<1>9. \A r \in Requests : row'[r].expired =>
        /\ Orphan(r) /\ row'[r].state = row[r].state
        /\ row'[r].attempts = row[r].attempts
    <2>1. \A r \in T : ~row'[r].expired
        BY <1>2 DEF CohortInv, ExpiredOrphans, Orphan
    <2> QED BY <1>2, <2>1 DEF CohortInv, ExpiredOrphans
<1>10. PairsMove
    BY DEF PairsMove
<1> QED BY <1>0, <1>2, <1>4, <1>5, <1>6, <1>7, <1>8, <1>9, <1>10, SlotStep
LEMMA CohortKeeps ==
    ASSUME CohortInv, NEW id \in Cohorts, CohortStep(id)
    PROVE  CohortInv'
<1> DEFINE k == pending[id]
<1>0. /\ id \in Occupied /\ pending[id] # None
      /\ pairs' = pairs
    BY DEF CohortStep, Start, ItemDone, Mark, CancelSeen, RollingRefill, BatchReturn, FinalItem,
           End, ReturnPairs, Raise, Settling, Is, Occupied, Dispatching
<1>1. TypeOK /\ TypeOK'
    BY CohortType DEF CohortInv
<1>2. k \in Cohort /\ k.live \subseteq Claim /\ k.claims \subseteq Claim
    BY <1>0, <1>1, SlotFields DEF Cohort
<1>3. Phases(k) /\ HeldKept(k) /\ StartedOnce(k)
    BY <1>0 DEF CohortInv, KeepInv, KeepAt
<1>4. pending' \in [Cohorts -> OrNone(Cohort)]
    BY <1>1 DEF TypeOK
<1>5. /\ \A c \in k.live \cup k.pairs : Tended(c)
      /\ \A c \in k.claims : Holds(c) => Tended(c)
    BY <1>0, <1>1, <1>3, LiveTended DEF HeldKept
<1>6. ASSUME Start(id) PROVE CohortInv'
    <2>1. PICK run \in RunModes :
            pending' = [pending EXCEPT ![id] = [k EXCEPT !.pc = "running", !.run = run]]
        BY <1>6 DEF Start, RunModes
    <2> DEFINE f == [k EXCEPT !.pc = "running", !.run = run]
    <2>2. f \in Cohort
        BY <1>2 DEF Cohort, OrNone
    <2>3. /\ f.claims = k.claims /\ f.live = k.live /\ f.pairs = k.pairs
          /\ f.unfinished = k.unfinished /\ f.finished = k.finished
          /\ f.pc = "running" /\ f.marking = k.marking
        BY <1>2 DEF Cohort
    <2>4. Phases(f)
        BY <1>3, <1>6, <2>3, NoneIsNull DEF Phases, Start, Is, RunModes
    <2>5. HeldKept(f) /\ StartedOnce(f)
        BY <1>3, <2>3 DEF HeldKept, StartedOnce
    <2> QED BY <1>0, <1>1, <1>5, <1>6, <2>1, <2>2, <2>3, <2>4, <2>5, QuietStep DEF Start, CohortInv
<1>7. ASSUME ItemDone(id) PROVE CohortInv'
    <2>1. PICK c \in k.live, out \in Outcomes :
            /\ row' = FinishedRows(c, out)
            /\ pending' = [pending EXCEPT ![id] = [k EXCEPT !.live = @ \ {c}, !.finished = @ \cup {c.r},
                                                            !.marking = c.r]]
        BY <1>7 DEF ItemDone
    <2> DEFINE f == [k EXCEPT !.live = @ \ {c}, !.finished = @ \cup {c.r}, !.marking = c.r]
    <2>2. f \in Cohort
        <3>1. c.r \in Requests
            BY <1>2, ClaimParts
        <3> QED BY <1>2, <3>1 DEF Cohort, OrNone
    <2>3. /\ f.claims = k.claims /\ f.live = k.live \ {c} /\ f.pairs = k.pairs
          /\ f.unfinished = k.unfinished /\ f.finished = k.finished \cup {c.r}
          /\ f.pc = k.pc /\ f.run = k.run /\ f.marking = c.r
        BY <1>2 DEF Cohort
    <2>4. Phases(f)
        BY <1>3, <2>3 DEF Phases
    <2> QED BY <1>0, <1>1, <2>1, <2>2, <2>3, <2>4, SettleStep
<1>8. ASSUME Mark(id) PROVE CohortInv'
    <2> DEFINE f == [k EXCEPT !.unfinished = @ \ {k.marking}, !.marking = None]
    <2>1. pending' = [pending EXCEPT ![id] = f] /\ k.marking # None
        BY <1>8 DEF Mark
    <2>2. f \in Cohort
        BY <1>2 DEF Cohort, OrNone
    <2>3. /\ f.claims = k.claims /\ f.live = k.live /\ f.pairs = k.pairs
          /\ f.unfinished = k.unfinished \ {k.marking} /\ f.finished = k.finished
          /\ f.pc = k.pc /\ f.run = k.run /\ f.marking = None
        BY <1>2 DEF Cohort
    <2>4. Phases(f) /\ HeldKept(f)
        BY <1>3, <2>3 DEF Phases, HeldKept
    <2>5. StartedOnce(f)
        BY <1>3, <2>1, <2>3 DEF StartedOnce, Phases
    <2> QED BY <1>0, <1>1, <1>5, <1>8, <2>1, <2>2, <2>3, <2>4, <2>5, QuietStep DEF Mark, CohortInv
<1>9. ASSUME CancelSeen(id) PROVE CohortInv'
    <2> DEFINE gone == {c.r : c \in {e \in k.live : row[e.r].state \in Settled}} \ k.finished
               left == StillWanted(k, gone)
               f == [k EXCEPT !.cancelled = TRUE, !.live = left, !.finished = @ \cup gone,
                              !.unfinished = @ \ gone,
                              !.pc = IF left = {} THEN "done" ELSE "running"]
    <2>1. pending' = [pending EXCEPT ![id] = f] /\ k.pc = "running" /\ k.marking = None
        BY <1>9 DEF CancelSeen, Settling, Is
    <2>2. /\ gone \subseteq Requests /\ left \subseteq k.live
          /\ \A r \in gone : row[r].state \in Settled
          /\ \A c \in k.live : c.r \notin k.finished \cup gone => c \in left
          /\ \A c \in left : c.r \notin gone
        BY <1>2, ClaimParts DEF StillWanted
    <2> HIDE DEF gone, left
    <2>3. f \in Cohort
        BY <1>2, <2>2 DEF Cohort
    <2>4. /\ f.claims = k.claims /\ f.live = left /\ f.pairs = k.pairs
          /\ f.unfinished = k.unfinished \ gone /\ f.finished = k.finished \cup gone
          /\ f.pc = IF left = {} THEN "done" ELSE "running"
          /\ f.run = k.run /\ f.marking = k.marking
        BY <1>2 DEF Cohort
    <2>5. Phases(f)
        BY <1>3, <2>1, <2>2, <2>4 DEF Phases
    <2>6. HeldKept(f)
        BY <1>3, <2>1, <2>2, <2>4 DEF HeldKept, StartedOnce, Phases, Holds, Settled
    <2>7. StartedOnce(f)
        BY <1>3, <2>2, <2>4 DEF StartedOnce
    <2> QED BY <1>0, <1>1, <1>5, <1>9, <2>1, <2>2, <2>3, <2>4, <2>5, <2>6, <2>7, QuietStep
            DEF CancelSeen, CohortInv
<1>10. ASSUME RollingRefill(id) PROVE CohortInv'
    <2>1. PICK T \in SUBSET Waiting(k.service) :
            /\ row' = TakenRows(T)
            /\ pending' = [pending EXCEPT ![id] = [k EXCEPT !.live = @ \cup ClaimsOf(T)]]
        BY <1>10 DEF RollingRefill
    <2> DEFINE f == [k EXCEPT !.live = @ \cup ClaimsOf(T)]
    <2>2. T \in SUBSET Requests /\ \A r \in T : row[r].state = "waiting"
        BY DEF Waiting
    <2>3. f \in Cohort
        BY <1>1, <1>2, <2>2, TakenType DEF Cohort
    <2>4. /\ f.claims = k.claims /\ f.live = k.live \cup ClaimsOf(T) /\ f.pairs = k.pairs
          /\ f.unfinished = k.unfinished /\ f.finished = k.finished
          /\ f.pc = k.pc /\ f.run = k.run /\ f.marking = k.marking
        BY <1>2 DEF Cohort
    <2>5. k.pc = "running" /\ k.run = "stream"
        BY <1>10 DEF RollingRefill, Settling, Is
    <2>6. f.pairs = {}
        BY <1>3, <2>4, <2>5 DEF Phases
    <2> QED BY <1>0, <1>1, <2>1, <2>2, <2>3, <2>4, <2>5, <2>6, TakeStep
<1>11. ASSUME BatchReturn(id) PROVE CohortInv'
    <2> DEFINE f == [k EXCEPT !.pc = "final"]
    <2>1. pending' = [pending EXCEPT ![id] = f] /\ k.pc = "running"
        BY <1>11 DEF BatchReturn, Settling, Is
    <2>2. f \in Cohort
        BY <1>2 DEF Cohort
    <2>3. /\ f.claims = k.claims /\ f.live = k.live /\ f.pairs = k.pairs
          /\ f.unfinished = k.unfinished /\ f.finished = k.finished
          /\ f.pc = "final" /\ f.run = k.run /\ f.marking = k.marking
        BY <1>2 DEF Cohort
    <2>4. Phases(f) /\ HeldKept(f) /\ StartedOnce(f)
        BY <1>3, <2>1, <2>3 DEF Phases, HeldKept, StartedOnce
    <2> QED BY <1>0, <1>1, <1>5, <1>11, <2>1, <2>2, <2>3, <2>4, QuietStep DEF BatchReturn, CohortInv
<1>12. ASSUME FinalItem(id) PROVE CohortInv'
    <2>1. PICK c \in k.live, out \in Outcomes :
            /\ row' = FinishedRows(c, out)
            /\ pending' = [pending EXCEPT ![id] = [k EXCEPT !.live = @ \ {c}]]
        BY <1>12 DEF FinalItem
    <2> DEFINE f == [k EXCEPT !.live = @ \ {c}]
    <2>2. f \in Cohort
        BY <1>2 DEF Cohort
    <2>3. /\ f.claims = k.claims /\ f.live = k.live \ {c} /\ f.pairs = k.pairs
          /\ f.unfinished = k.unfinished /\ f.finished = k.finished
          /\ f.pc = k.pc /\ f.run = k.run /\ f.marking = k.marking
        BY <1>2 DEF Cohort
    <2>4. Phases(f)
        BY <1>3, <2>3 DEF Phases
    <2> QED BY <1>0, <1>1, <2>1, <2>2, <2>3, <2>4, SettleStep
<1>13. ASSUME End(id) PROVE CohortInv'
    <2> DEFINE f == [k EXCEPT !.pc = "done"]
    <2>1. pending' = [pending EXCEPT ![id] = f] /\ k.live = {} /\ k.pc \in {"running", "final"}
        BY <1>13 DEF End, Settling, Is
    <2>2. f \in Cohort
        BY <1>2 DEF Cohort
    <2>3. /\ f.claims = k.claims /\ f.live = k.live /\ f.pairs = k.pairs
          /\ f.unfinished = k.unfinished /\ f.finished = k.finished
          /\ f.pc = "done" /\ f.run = k.run /\ f.marking = k.marking
        BY <1>2 DEF Cohort
    <2>4. Phases(f) /\ HeldKept(f) /\ StartedOnce(f)
        BY <1>3, <2>1, <2>3 DEF Phases, HeldKept, StartedOnce
    <2> QED BY <1>0, <1>1, <1>5, <1>13, <2>1, <2>2, <2>3, <2>4, QuietStep DEF End, CohortInv
<1>14. ASSUME ReturnPairs(id) PROVE CohortInv'
    <2> DEFINE f == [k EXCEPT !.pc = "done", !.live = {}, !.pairs = k.claims]
    <2>1. pending' = [pending EXCEPT ![id] = f] /\ k.pc = "running"
        BY <1>14 DEF ReturnPairs, Is
    <2>2. f \in Cohort
        BY <1>2 DEF Cohort
    <2>3. /\ f.claims = k.claims /\ f.live = {} /\ f.pairs = k.claims
          /\ f.unfinished = k.unfinished /\ f.finished = k.finished
          /\ f.pc = "done" /\ f.run = k.run /\ f.marking = k.marking
        BY <1>2 DEF Cohort
    <2>4. Phases(f) /\ HeldKept(f) /\ StartedOnce(f)
        BY <1>3, <2>1, <2>3 DEF Phases, HeldKept, StartedOnce
    <2> QED BY <1>0, <1>1, <1>5, <1>14, <2>1, <2>2, <2>3, <2>4, QuietStep DEF ReturnPairs, CohortInv
<1>15. ASSUME Raise(id) PROVE CohortInv'
    <2> DEFINE given == IF k.run = "stream" THEN k.claims ELSE Active(k)
               f == [k EXCEPT !.pc = "done", !.live = {}, !.broken = TRUE, !.pairs = given]
    <2>1. pending' = [pending EXCEPT ![id] = f] /\ k.pc \in {"running", "final"}
        BY <1>15 DEF Raise, Is
    <2>2. given \subseteq k.claims
        BY DEF Active
    <2>3. f \in Cohort
        BY <1>2, <2>2 DEF Cohort
    <2>4. /\ f.claims = k.claims /\ f.live = {} /\ f.pairs = given
          /\ f.unfinished = k.unfinished /\ f.finished = k.finished
          /\ f.pc = "done" /\ f.run = k.run /\ f.marking = k.marking
        BY <1>2 DEF Cohort
    <2>5. Phases(f) /\ StartedOnce(f)
        BY <1>3, <2>1, <2>4 DEF Phases, StartedOnce
    <2>6. HeldKept(f)
        BY <1>3, <2>1, <2>4 DEF HeldKept, StartedOnce, Phases, Active
    <2>7. row' = row
        BY <1>15 DEF Raise
    <2>8. \A c \in f.pairs : Holds(c) => Tended(c)
        BY <1>5, <2>2, <2>4
    <2> QED BY <1>0, <1>1, <2>1, <2>2, <2>3, <2>4, <2>5, <2>6, <2>7, <2>8, QuietStep
            DEF CohortInv
<1> QED BY <1>6, <1>7, <1>8, <1>9, <1>10, <1>11, <1>12, <1>13, <1>14, <1>15 DEF CohortStep
-----------------------------------------------------------------------------
(* The steps of the dispatcher thread, of clients and of time.              *)

(* A step that leaves rows, cohorts and pairs alone. *)
LEMMA StutterKeeps ==
    ASSUME CohortInv, TypeOK', UNCHANGED <<row, pending, pairs>>
    PROVE  CohortInv'
<1>1. \A c : Holds(c)' = Holds(c) /\ Tended(c)' = Tended(c)
    BY DEF Holds, Tended
<1>2. RunInv' /\ KeepInv'
    BY <1>1 DEF CohortInv, RunInv, KeepInv, KeepAt, Phases, HeldKept, StartedOnce, Occupied,
                ClaimsIssued, ClaimsApart, LiveHeld, ExclusiveRun
<1>3. ExpiredOrphans'
    BY <1>1 DEF CohortInv, ExpiredOrphans, Orphan
<1> QED BY <1>2, <1>3 DEF CohortInv

(* A step that changes rows only, and of no claim a thread executes. *)
LEMMA RowStep ==
    ASSUME CohortInv, TypeOK', UNCHANGED <<pending, pairs>>, RowsMove,
           \A id \in Occupied : \A c \in pending[id].live :
                Holds(c) => row'[c.r].state \in Settled \/ Holds(c)',
           \A r \in Requests : row'[r].expired =>
                /\ Orphan(r) /\ row'[r].state = row[r].state
                /\ row'[r].attempts = row[r].attempts
    PROVE  CohortInv'
<1>1. 0 \notin Cohorts
    BY BoundsType DEF Cohorts
<1>2. \A c \in pairs'.claims : Tended(c)
    BY DEF Tended
<1>3. PairsMove
    BY DEF PairsMove
<1> QED BY <1>1, <1>2, <1>3, SlotStep

LEMMA SubmitKeeps ==
    ASSUME CohortInv, TypeOK', NEW s \in Services, NEW T \in SUBSET Waiting(s),
           NEW rolling \in BOOLEAN, SubmitCohort(s, T, rolling), pairs' = pairs
    PROVE  CohortInv'
<1>1. T \in SUBSET Requests /\ \A r \in T : row[r].state = "waiting"
    BY DEF Waiting
<1>2. PICK id \in Cohorts : /\ pending[id] = None
                            /\ pending' = [pending EXCEPT ![id] = NewCohort(s, T, rolling)]
    BY DEF SubmitCohort, FreeSlots
<1>3. NewCohort(s, T, rolling) \in Cohort
    BY <1>1, NewCohortType DEF CohortInv
<1>4. row' = TakenRows(T)
    BY DEF SubmitCohort
<1> DEFINE f == NewCohort(s, T, rolling)
<1>5. /\ f.claims = ClaimsOf(T) /\ f.live = ClaimsOf(T) /\ f.unfinished = T
      /\ f.finished = {} /\ f.marking = None /\ f.pairs = {}
      /\ f.pc = "submitted" /\ f.run = None
    BY DEF NewCohort
<1> HIDE DEF f
<1>6. f \in Cohort /\ pending' = [pending EXCEPT ![id] = f]
    BY <1>2, <1>3 DEF f
<1> QED BY <1>1, <1>2, <1>4, <1>5, <1>6, TakeStep

LEMMA FinishDoneKeeps ==
    ASSUME CohortInv, TypeOK', NEW id \in Cohorts, FinishDone(id)
    PROVE  CohortInv'
<1>1. /\ id \in Occupied /\ pending[id] # None /\ pending'[id] = None
      /\ \A j \in Cohorts : j # id => pending'[j] = pending[j]
      /\ pairs'.claims = pending[id].pairs /\ row' = row
    BY DEF FinishDone, Is, Occupied, CohortInv, TypeOK
<1>2. RowsMove
    BY <1>1, RowFields DEF RowsMove, CohortInv
<1>3. PairsMove
    BY <1>1 DEF PairsMove
<1>4. \A c \in pairs'.claims : Tended(c)
    BY <1>1, LiveTended DEF CohortInv
<1>5. \A c : Holds(c)' = Holds(c)
    BY <1>1 DEF Holds
<1>6. \A r \in Requests : row'[r].expired =>
        /\ Orphan(r) /\ row'[r].state = row[r].state
        /\ row'[r].attempts = row[r].attempts
    BY <1>1 DEF CohortInv, ExpiredOrphans
<1> QED BY <1>1, <1>2, <1>3, <1>4, <1>5, <1>6, SlotStep

LEMMA FinishPairKeeps ==
    ASSUME CohortInv, TypeOK', FinishPair
    PROVE  CohortInv'
<1>1. PICK c \in pairs.claims, out \in Outcomes :
        row' = FinishedRows(c, out) /\ pairs' = [pairs EXCEPT !.claims = @ \ {c}]
    BY DEF FinishPair, Outcomes
<1>2. c \in Claim /\ pending' = pending /\ pairs'.claims \subseteq pairs.claims
    BY <1>1 DEF FinishPair, CohortInv, TypeOK
<1>3. /\ RowsMove
      /\ \A e \in Claim : Holds(e) /\ e # c => Holds(e)'
      /\ \A r \in Requests : row'[r].expired => row[r].expired /\ row'[r] = row[r]
    BY <1>1, <1>2, FinishMoves DEF CohortInv
<1>4. \A j \in Occupied : \A e \in pending[j].live : Holds(e) => Holds(e)'
    <2>1. \A j \in Occupied : \A e \in pending[j].live : e \in Claim /\ e \in Has(pending[j])
        BY ClaimFields DEF CohortInv, TypeOK, Occupied
    <2>2. \A j \in Occupied : \A e \in pending[j].live : e # c
        BY <2>1 DEF CohortInv, RunInv, ClaimsApart
    <2> QED BY <1>3, <2>1, <2>2
<1>5. 0 \notin Cohorts
    BY BoundsType DEF Cohorts
<1>6. \A e \in pairs'.claims : Tended(e)
    BY <1>2 DEF Tended
<1>7. PairsMove
    BY <1>2 DEF PairsMove
<1>8. \A r \in Requests : row'[r].expired =>
        /\ Orphan(r) /\ row'[r].state = row[r].state
        /\ row'[r].attempts = row[r].attempts
    BY <1>3 DEF CohortInv, ExpiredOrphans
<1> QED BY <1>2, <1>3, <1>4, <1>5, <1>6, <1>7, <1>8, SlotStep

LEMMA RefillStartKeeps ==
    ASSUME CohortInv, TypeOK', RefillStart
    PROVE  CohortInv'
<1>1. row' = ReapedRows /\ UNCHANGED <<pending, pairs>>
    BY DEF RefillStart
<1>2. /\ RowsMove
      /\ \A r \in Requests : ~row[r].expired => row'[r] = row[r]
      /\ \A r \in Requests : row'[r].expired = FALSE
    BY <1>1, ReapMoves DEF CohortInv
(* What a thread executes is tended: its lease has not expired. *)
<1>3. \A id \in Occupied : \A c \in pending[id].live : Holds(c) => Holds(c)'
    BY <1>2, LiveTended, HeldTended, ClaimParts DEF CohortInv, Holds
<1> QED BY <1>1, <1>2, <1>3, RowStep

LEMMA DispatcherKeeps ==
    ASSUME CohortInv, DispatcherStep
    PROVE  CohortInv'
<1>1. TypeOK'
    BY DispatcherType DEF CohortInv
<1>2. CASE BeatStart \/ BeatCheck \/ RefillSkip \/ ResidentEnd \/ StopSeen \/ Drained
           \/ \E s \in Services : ResidentPass(s)
    BY <1>1, <1>2, StutterKeeps
       DEF BeatStart, BeatCheck, RefillSkip, ResidentEnd, StopSeen, Drained, ResidentPass
<1>3. CASE RefillExclusive
    <2>1. CASE UNCHANGED <<row, pending>>
        BY <1>1, <1>3, <2>1, StutterKeeps DEF RefillExclusive
    <2>2. ASSUME NEW s \in Services, NEW T \in SUBSET Waiting(s), SubmitCohort(s, T, FALSE)
          PROVE  CohortInv'
        BY <1>1, <1>3, <2>2, SubmitKeeps DEF RefillExclusive
    <2> QED BY <1>3, <2>1, <2>2 DEF RefillExclusive
<1>4. ASSUME NEW s \in Services, ResidentClaim(s) PROVE CohortInv'
    <2>1. PICK T \in SUBSET Waiting(s) : SubmitCohort(s, T, Plan[s].rolling)
        BY <1>4 DEF ResidentClaim
    <2>2. Plan[s].rolling \in BOOLEAN
        BY PlanType
    <2> QED BY <1>1, <1>4, <2>1, <2>2, SubmitKeeps DEF ResidentClaim
<1> QED BY <1>1, <1>2, <1>3, <1>4, FinishDoneKeeps, FinishPairKeeps, RefillStartKeeps DEF DispatcherStep

LEMMA OtherKeeps ==
    ASSUME CohortInv,
           Stop \/ Crash \/ \E r \in Requests : Submit(r) \/ Cancel(r) \/ Expire(r)
    PROVE  CohortInv'
<1>1. TypeOK'
    BY OtherType DEF CohortInv
<1>2. CASE Stop
    BY <1>1, <1>2, StutterKeeps DEF Stop
<1>3. CASE Crash
    <2>1. row' = row /\ Occupied' = {} /\ pairs'.claims = {}
        BY <1>3 DEF Crash, NoPairs, Occupied
    <2>2. \A c : ~Tended(c)'
        BY <2>1 DEF Tended, Occupied
    <2>3. RunInv' /\ KeepInv'
        BY <2>1 DEF RunInv, ClaimsIssued, ClaimsApart, LiveHeld, ExclusiveRun, KeepInv, Occupied
    <2>4. ExpiredOrphans'
        BY <2>1, <2>2 DEF CohortInv, ExpiredOrphans, Orphan
    <2> QED BY <1>1, <2>3, <2>4 DEF CohortInv
<1>4. ASSUME NEW r \in Requests, Submit(r) \/ Cancel(r) \/ Expire(r) PROVE CohortInv'
    <2>1. UNCHANGED <<pending, pairs>>
        BY <1>4 DEF Submit, Cancel, Expire
    <2>2. /\ RowsMove
          /\ \A e \in Claim : Holds(e) => Holds(e)' \/ row'[e.r].state \in Settled
        BY <1>4, OtherMoves DEF CohortInv
    <2>3. \A id \in Occupied : \A c \in pending[id].live :
            Holds(c) => row'[c.r].state \in Settled \/ Holds(c)'
        BY <2>2, LiveTended DEF CohortInv
    <2>4. \A q \in Requests : row'[q].expired =>
            /\ Orphan(q) /\ row'[q].state = row[q].state
            /\ row'[q].attempts = row[q].attempts
        <3>1. \A q \in Requests : q # r => row'[q] = row[q]
            BY <1>4 DEF Submit, Cancel, Expire, CohortInv, TypeOK
        <3>2. row[r] \in Row
            BY RowFields DEF CohortInv
        <3>3. CASE Submit(r)
            BY <3>1, <3>2, <3>3 DEF Submit, CohortInv, TypeOK, Row, ExpiredOrphans, Orphan
        <3>4. CASE Cancel(r)
            <4>1. CASE row' = [row EXCEPT ![r].cancel = TRUE]
                BY <3>1, <3>2, <4>1 DEF CohortInv, TypeOK, Row, ExpiredOrphans
            <4>2. CASE row' = [row EXCEPT ![r].state = "cancelled", ![r].expired = FALSE]
                BY <3>1, <3>2, <4>2 DEF CohortInv, TypeOK, Row, ExpiredOrphans
            <4> QED BY <3>4, <4>1, <4>2 DEF Cancel
        <3>5. CASE Expire(r)
            BY <3>1, <3>2, <3>5 DEF Expire, CohortInv, TypeOK, Row, ExpiredOrphans
        <3> QED BY <1>4, <3>3, <3>4, <3>5
    <2> QED BY <1>1, <2>1, <2>2, <2>3, <2>4, RowStep
<1> QED BY <1>2, <1>3, <1>4

LEMMA CohortInvInit == Init => CohortInv
<1> SUFFICES ASSUME Init PROVE CohortInv
    OBVIOUS
<1>1. TypeOK
    BY DispatcherInitType
<1>2. Occupied = {} /\ pairs.claims = {} /\ \A r \in Requests : ~row[r].expired
    BY DEF Init, Occupied, NoPairs
<1> QED BY <1>1, <1>2 DEF CohortInv, RunInv, ClaimsIssued, ClaimsApart, LiveHeld, ExclusiveRun,
                          KeepInv, ExpiredOrphans, Occupied

LEMMA CohortInvStep == CohortInv /\ [Next]_vars => CohortInv'
<1>1. CohortInv /\ UNCHANGED vars => CohortInv'
    <2>1. CohortInv /\ UNCHANGED vars => TypeOK'
        BY DispatcherNextType DEF CohortInv
    <2> QED BY <2>1, StutterKeeps DEF vars
<1> QED BY <1>1, CohortKeeps, DispatcherKeeps, OtherKeeps DEF Next

(* No request is executed by two cohorts at a time, or twice by one: claims *)
(* are of distinct attempts, what a thread executes still runs under its    *)
(* lease, and only expired leases, which nobody tends, are taken back       *)
(* (claim_ready_batch, requeue_expired_leases, _dispatcher_finish_done).    *)
THEOREM RunExclusive == Spec => []ExclusiveRun
<1>1. CohortInv => ExclusiveRun
    BY DEF CohortInv, RunInv
<1> QED BY <1>1, CohortInvInit, CohortInvStep, PTL DEF Spec
-----------------------------------------------------------------------------
(* With one transport attempt per request, the default of                   *)
(* DS4_API_TRANSPORT_MAX_ATTEMPTS, a request a thread has settled does not   *)
(* wait again.  What a cohort was given runs under its lease or is settled.  *)
OneAttempt == MaxTransportAttempts = 1

Stands(c) == Holds(c) \/ row[c.r].state \in Settled
ClaimsStand == \A id \in Occupied : \A c \in pending[id].claims : Stands(c)
FinishedSettled ==
    \A id \in Occupied : \A r \in pending[id].finished : row[r].state \in Settled
BeatStands == pc = "beat" => \A c \in beat : Stands(c)
StandInv == ClaimsStand /\ FinishedSettled /\ BeatStands

LEMMA FinishStands ==
    ASSUME TypeOK, OneAttempt, NEW c \in Claim, NEW out \in Outcomes, row' = FinishedRows(c, out)
    PROVE  \A e \in Claim : /\ Stands(e) => Stands(e)'
                            /\ Stands(c) => row'[c.r].state \in Settled
<1>1. RowsMove /\ \A e \in Claim : Holds(e) /\ e # c => Holds(e)'
    BY FinishMoves
<1>2. Holds(c) => row'[c.r].state \in Settled
    <2>1. c.r \in Requests /\ c.n >= 1
        BY DEF Claim
    <2>2. Holds(c) => FinishState(c.r, out) \in Settled
        <3>1. row[c.r].cancel => FinishState(c.r, out) \in Settled
            BY DEF FinishState, Settled
        <3>2. out # "transport_failed" /\ ~row[c.r].cancel => FinishState(c.r, out) \in Settled
            BY BoundsType DEF FinishState, Outcomes
        <3>3. Holds(c) /\ out = "transport_failed" /\ ~row[c.r].cancel => FinishState(c.r, out) = "failed"
            BY <2>1, RowFields DEF FinishState, OneAttempt, Holds
        <3> QED BY <3>1, <3>2, <3>3 DEF Settled
    <2>3. row[c.r] \in Row
        BY <2>1, RowFields
    <2> QED BY <2>1, <2>2, <2>3 DEF FinishedRows, TypeOK, Row
<1>3. \A e \in Claim : row[e.r].state \in Settled => row'[e.r].state \in Settled
    BY <1>1, ClaimParts DEF RowsMove
<1> QED BY <1>1, <1>2, <1>3 DEF Stands

(* What a step does to the rows, whoever takes it. *)
RowsStep ==
    \/ row' = row
    \/ \E e \in Claim, out \in Outcomes : row' = FinishedRows(e, out)
    \/ \E T \in SUBSET Requests :
         /\ \A r \in T : row[r].state = "waiting"
         /\ row' = TakenRows(T)
    \/ \E r \in Requests : Submit(r) \/ Cancel(r) \/ Expire(r)
    \/ RefillStart /\ row' = ReapedRows

LEMMA StepRows ==
    ASSUME TypeOK, [Next]_vars
    PROVE  RowsStep
<1>1. row' = row => RowsStep
    BY DEF RowsStep
<1>2. ASSUME NEW id \in Cohorts, CohortStep(id)
      PROVE  RowsStep
    <2>1. pending[id] # None
        BY <1>2 DEF CohortStep, Start, ItemDone, Mark, CancelSeen, RollingRefill, BatchReturn,
                    FinalItem, End, ReturnPairs, Raise, Settling, Is
    <2>2. pending[id].live \subseteq Claim
        BY <2>1, SlotFields DEF Cohort
    <2>3. CASE ItemDone(id) \/ FinalItem(id)
        BY <2>2, <2>3 DEF ItemDone, FinalItem, RowsStep
    <2>4. CASE RollingRefill(id)
        <3>1. PICK T \in SUBSET Waiting(pending[id].service) : row' = TakenRows(T)
            BY <2>4 DEF RollingRefill
        <3> QED BY <3>1 DEF Waiting, RowsStep
    <2> QED BY <1>1, <1>2, <2>3, <2>4
            DEF CohortStep, Start, Mark, CancelSeen, BatchReturn, End, ReturnPairs, Raise
<1>3. ASSUME DispatcherStep
      PROVE  RowsStep
    <2>1. CASE FinishPair
        <3>1. pairs.claims \subseteq Claim
            BY DEF TypeOK
        <3>2. PICK e \in pairs.claims, out \in Outcomes : row' = FinishedRows(e, out)
            BY <2>1 DEF FinishPair, Outcomes
        <3> QED BY <3>1, <3>2 DEF RowsStep
    <2>2. ASSUME NEW s \in Services, NEW T \in SUBSET Waiting(s), NEW rolling \in BOOLEAN,
                 SubmitCohort(s, T, rolling)
          PROVE  RowsStep
        <3>1. T \in SUBSET Requests /\ \A r \in T : row[r].state = "waiting"
            BY DEF Waiting
        <3> QED BY <2>2, <3>1 DEF SubmitCohort, RowsStep
    <2>3. CASE RefillExclusive
        BY <1>1, <2>2, <2>3 DEF RefillExclusive
    <2>4. ASSUME NEW s \in Services, ResidentClaim(s)
          PROVE  RowsStep
        BY <2>2, <2>4, PlanType DEF ResidentClaim
    <2>5. CASE RefillStart
        BY <2>5 DEF RefillStart, RowsStep
    <2> QED BY <1>1, <1>3, <2>1, <2>3, <2>4, <2>5
            DEF DispatcherStep, FinishDone, BeatStart, BeatCheck, RefillSkip, ResidentPass,
                ResidentEnd, StopSeen, Drained
<1>4. ASSUME NEW r \in Requests, Submit(r) \/ Cancel(r) \/ Expire(r)
      PROVE  RowsStep
    BY <1>4 DEF RowsStep
<1> QED BY <1>1, <1>2, <1>3, <1>4 DEF Next, vars, Stop, Crash

(* Every step moves the rows so. *)
LEMMA StepMovesRows ==
    ASSUME CohortInv, [Next]_vars
    PROVE  RowsMove
<1>0. TypeOK /\ ExpiredOrphans
    BY DEF CohortInv
<1>1. CASE row' = row
    BY <1>0, <1>1, RowFields DEF RowsMove
<1>2. ASSUME NEW e \in Claim, NEW out \in Outcomes, row' = FinishedRows(e, out)
      PROVE  RowsMove
    BY <1>0, <1>2, FinishMoves
<1>3. ASSUME NEW T \in SUBSET Requests, \A r \in T : row[r].state = "waiting", row' = TakenRows(T)
      PROVE  RowsMove
    BY <1>0, <1>3, TakeMoves
<1>4. ASSUME NEW r \in Requests, Submit(r) \/ Cancel(r) \/ Expire(r)
      PROVE  RowsMove
    BY <1>0, <1>4, OtherMoves
<1>5. CASE row' = ReapedRows
    BY <1>0, <1>5, ReapMoves
<1> QED BY <1>0, <1>1, <1>2, <1>3, <1>4, <1>5, StepRows DEF RowsStep

(* No step but a refill, which takes expired leases back, lets a claim fall. *)
LEMMA StandsKept ==
    ASSUME CohortInv, OneAttempt, [Next]_vars, ~RefillStart
    PROVE  \A c \in Claim : Stands(c) => Stands(c)'
<1>0. TypeOK
    BY DEF CohortInv
<1>1. CASE row' = row
    BY <1>1 DEF Stands, Holds
<1>2. ASSUME NEW e \in Claim, NEW out \in Outcomes, row' = FinishedRows(e, out)
      PROVE  \A c \in Claim : Stands(c) => Stands(c)'
    BY <1>0, <1>2, FinishStands
<1>3. ASSUME NEW T \in SUBSET Requests, \A r \in T : row[r].state = "waiting", row' = TakenRows(T)
      PROVE  \A c \in Claim : Stands(c) => Stands(c)'
    <2>1. RowsMove /\ \A c \in Claim : Holds(c) => Holds(c)'
        BY <1>0, <1>3, TakeMoves
    <2> QED BY <2>1, ClaimParts DEF RowsMove, Stands
<1>4. ASSUME NEW r \in Requests, Submit(r) \/ Cancel(r) \/ Expire(r)
      PROVE  \A c \in Claim : Stands(c) => Stands(c)'
    <2>1. RowsMove /\ \A c \in Claim : Holds(c) => Holds(c)' \/ row'[c.r].state \in Settled
        BY <1>0, <1>4, OtherMoves
    <2> QED BY <2>1, ClaimParts DEF RowsMove, Stands
<1> QED BY <1>0, <1>1, <1>2, <1>3, <1>4, StepRows DEF RowsStep

(* A slot keeps the claims it started with, and what it counts as finished  *)
(* is settled, or it is a new cohort.                                       *)
SlotHistory(id) ==
    \/ /\ id \in Occupied /\ pending'[id].claims = pending[id].claims
       /\ \A r \in pending'[id].finished :
            r \in pending[id].finished \/ row'[r].state \in Settled
    \/ pending'[id].finished = {} /\ \A c \in pending'[id].claims : Holds(c)'

LEMMA CohortHistory ==
    ASSUME CohortInv, OneAttempt, NEW id \in Cohorts, CohortStep(id)
    PROVE  SlotHistory(id) /\ \A j \in Cohorts : j # id => pending'[j] = pending[j]
<1> DEFINE k == pending[id]
<1>0. /\ id \in Occupied /\ pending[id] # None
      /\ \A f : pending' = [pending EXCEPT ![id] = f] =>
            pending'[id] = f /\ \A j \in Cohorts : j # id => pending'[j] = pending[j]
    BY DEF CohortStep, Start, ItemDone, Mark, CancelSeen, RollingRefill, BatchReturn, FinalItem,
           End, ReturnPairs, Raise, Settling, Is, Occupied, CohortInv, TypeOK
<1>1. k \in Cohort /\ k.live \subseteq Claim
    BY <1>0, SlotFields DEF Cohort, CohortInv
<1> DEFINE Goal == SlotHistory(id) /\ \A j \in Cohorts : j # id => pending'[j] = pending[j]
<1>2. ASSUME NEW f, pending' = [pending EXCEPT ![id] = f], f.claims = k.claims,
             f.finished = k.finished
      PROVE  Goal
    BY <1>0, <1>2 DEF SlotHistory
<1>3. ASSUME ItemDone(id) PROVE Goal
    <2>1. PICK c \in k.live, out \in Outcomes :
            /\ row' = FinishedRows(c, out)
            /\ pending' = [pending EXCEPT ![id] = [k EXCEPT !.live = @ \ {c}, !.finished = @ \cup {c.r},
                                                            !.marking = c.r]]
        BY <1>3 DEF ItemDone
    <2>2. row'[c.r].state \in Settled
        <3>1. Stands(c)
            BY <1>0 DEF CohortInv, RunInv, LiveHeld, Stands
        <3> QED BY <1>1, <2>1, <3>1, FinishStands DEF CohortInv
    <2> DEFINE f == [k EXCEPT !.live = @ \ {c}, !.finished = @ \cup {c.r}, !.marking = c.r]
    <2>3. f.claims = k.claims /\ f.finished = k.finished \cup {c.r}
        BY <1>1 DEF Cohort
    <2> QED BY <1>0, <2>1, <2>2, <2>3 DEF SlotHistory
<1>4. ASSUME CancelSeen(id) PROVE Goal
    <2> DEFINE gone == {c.r : c \in {e \in k.live : row[e.r].state \in Settled}} \ k.finished
               left == StillWanted(k, gone)
               f == [k EXCEPT !.cancelled = TRUE, !.live = left, !.finished = @ \cup gone,
                              !.unfinished = @ \ gone,
                              !.pc = IF left = {} THEN "done" ELSE "running"]
    <2>1. pending' = [pending EXCEPT ![id] = f] /\ row' = row
        BY <1>4 DEF CancelSeen
    <2>2. \A r \in gone : row[r].state \in Settled
        OBVIOUS
    <2> HIDE DEF gone, left
    <2>3. f.claims = k.claims /\ f.finished = k.finished \cup gone
        BY <1>1 DEF Cohort
    <2> HIDE DEF f
    <2>4. pending'[id] = f /\ \A j \in Cohorts : j # id => pending'[j] = pending[j]
        BY <1>0, <2>1
    <2>5. \A r \in f.finished : r \in pending[id].finished \/ row'[r].state \in Settled
        BY <2>1, <2>2, <2>3
    <2>6. SlotHistory(id)
        BY <1>0, <2>3, <2>4, <2>5 DEF SlotHistory
    <2> QED BY <2>4, <2>6
<1>5. ASSUME Start(id) PROVE Goal
    <2>1. PICK run : pending' = [pending EXCEPT ![id] = [k EXCEPT !.pc = "running", !.run = run]]
        BY <1>5 DEF Start
    <2>2. /\ [k EXCEPT !.pc = "running", !.run = run].claims = k.claims
          /\ [k EXCEPT !.pc = "running", !.run = run].finished = k.finished
        BY <1>1 DEF Cohort
    <2> QED BY <1>2, <2>1, <2>2
<1>6. ASSUME RollingRefill(id) PROVE Goal
    <2>1. PICK T : pending' = [pending EXCEPT ![id] = [k EXCEPT !.live = @ \cup ClaimsOf(T)]]
        BY <1>6 DEF RollingRefill
    <2>2. /\ [k EXCEPT !.live = @ \cup ClaimsOf(T)].claims = k.claims
          /\ [k EXCEPT !.live = @ \cup ClaimsOf(T)].finished = k.finished
        BY <1>1 DEF Cohort
    <2> QED BY <1>2, <2>1, <2>2
<1>7. ASSUME FinalItem(id) PROVE Goal
    <2>1. PICK c : pending' = [pending EXCEPT ![id] = [k EXCEPT !.live = @ \ {c}]]
        BY <1>7 DEF FinalItem
    <2>2. /\ [k EXCEPT !.live = @ \ {c}].claims = k.claims
          /\ [k EXCEPT !.live = @ \ {c}].finished = k.finished
        BY <1>1 DEF Cohort
    <2> QED BY <1>2, <2>1, <2>2
<1>8. ASSUME Mark(id) PROVE Goal
    <2> DEFINE f == [k EXCEPT !.unfinished = @ \ {k.marking}, !.marking = None]
    <2>1. f.claims = k.claims /\ f.finished = k.finished
        BY <1>1 DEF Cohort
    <2> QED BY <1>2, <1>8, <2>1 DEF Mark
<1>9. ASSUME BatchReturn(id) PROVE Goal
    <2>1. [k EXCEPT !.pc = "final"].claims = k.claims /\ [k EXCEPT !.pc = "final"].finished = k.finished
        BY <1>1 DEF Cohort
    <2> QED BY <1>2, <1>9, <2>1 DEF BatchReturn
<1>10. ASSUME End(id) PROVE Goal
    <2>1. [k EXCEPT !.pc = "done"].claims = k.claims /\ [k EXCEPT !.pc = "done"].finished = k.finished
        BY <1>1 DEF Cohort
    <2> QED BY <1>2, <1>10, <2>1 DEF End
<1>11. ASSUME ReturnPairs(id) PROVE Goal
    <2> DEFINE f == [k EXCEPT !.pc = "done", !.live = {}, !.pairs = k.claims]
    <2>1. f.claims = k.claims /\ f.finished = k.finished
        BY <1>1 DEF Cohort
    <2> QED BY <1>2, <1>11, <2>1 DEF ReturnPairs
<1>12. ASSUME Raise(id) PROVE Goal
    <2> DEFINE f == [k EXCEPT !.pc = "done", !.live = {}, !.broken = TRUE,
                              !.pairs = IF k.run = "stream" THEN k.claims ELSE Active(k)]
    <2>1. f.claims = k.claims /\ f.finished = k.finished
        BY <1>1 DEF Cohort
    <2>2. pending' = [pending EXCEPT ![id] = f]
        BY <1>12 DEF Raise
    <2> QED BY <1>2, <2>1, <2>2
<1> QED BY <1>3, <1>4, <1>5, <1>6, <1>7, <1>8, <1>9, <1>10, <1>11, <1>12 DEF CohortStep

LEMMA SubmitHistory ==
    ASSUME CohortInv, NEW s \in Services, NEW T \in SUBSET Waiting(s), NEW rolling \in BOOLEAN,
           SubmitCohort(s, T, rolling), NEW id \in Cohorts
    PROVE  pending'[id] = pending[id] \/ SlotHistory(id)
<1>1. T \in SUBSET Requests /\ \A r \in T : row[r].state = "waiting"
    BY DEF Waiting
<1>2. \A c \in ClaimsOf(T) : Holds(c)'
    BY <1>1, TakeMoves DEF SubmitCohort, CohortInv, Fresh, Holds
<1>3. PICK slot \in Cohorts : pending' = [pending EXCEPT ![slot] = NewCohort(s, T, rolling)]
    BY DEF SubmitCohort, FreeSlots
<1>4. pending'[id] = pending[id] \/ pending'[id] = NewCohort(s, T, rolling)
    BY <1>3 DEF CohortInv, TypeOK
<1>5. NewCohort(s, T, rolling).finished = {} /\ NewCohort(s, T, rolling).claims = ClaimsOf(T)
    BY DEF NewCohort
<1> QED BY <1>2, <1>4, <1>5 DEF SlotHistory

LEMMA SlotsHistory ==
    ASSUME CohortInv, OneAttempt, [Next]_vars, NEW id \in Occupied'
    PROVE  SlotHistory(id)
<1>0. id \in Cohorts /\ pending'[id] # None
    BY DEF Occupied
<1>1. pending'[id] = pending[id] => SlotHistory(id)
    BY <1>0 DEF SlotHistory, Occupied
<1>2. ASSUME NEW j \in Cohorts, CohortStep(j) PROVE SlotHistory(id)
    BY <1>0, <1>1, <1>2, CohortHistory
<1>3. ASSUME DispatcherStep PROVE SlotHistory(id)
    <2>1. ASSUME NEW j \in Cohorts, FinishDone(j) PROVE SlotHistory(id)
        <3>1. pending'[id] = IF id = j THEN None ELSE pending[id]
            BY <1>0, <2>1 DEF FinishDone, CohortInv, TypeOK
        <3> QED BY <1>0, <1>1, <3>1
    <2>2. CASE RefillExclusive
        BY <1>0, <1>1, <2>2, SubmitHistory DEF RefillExclusive
    <2>3. ASSUME NEW s \in Services, ResidentClaim(s) PROVE SlotHistory(id)
        BY <1>0, <1>1, <2>3, SubmitHistory, PlanType DEF ResidentClaim
    <2> QED BY <1>1, <1>3, <2>1, <2>2, <2>3
            DEF DispatcherStep, FinishPair, BeatStart, BeatCheck, RefillStart, RefillSkip,
                ResidentPass, ResidentEnd, StopSeen, Drained
<1> QED BY <1>0, <1>1, <1>2, <1>3 DEF Next, vars, Stop, Crash, Submit, Cancel, Expire

LEMMA StandInvInit == Init => StandInv
<1> SUFFICES ASSUME Init PROVE StandInv
    OBVIOUS
<1>1. Occupied = {} /\ pc # "beat"
    BY DEF Init, Occupied
<1> QED BY <1>1 DEF StandInv, ClaimsStand, FinishedSettled, BeatStands

LEMMA StandStep ==
    ASSUME CohortInv, CohortInv', OneAttempt, StandInv, [Next]_vars
    PROVE  StandInv'
<1>0. TypeOK /\ TypeOK'
    BY DEF CohortInv
<1>1. /\ \A id \in Occupied : /\ pending[id].claims \subseteq Claim
                             /\ Active(pending[id]) \subseteq pending[id].claims
                             /\ pending[id].finished \subseteq Requests
      /\ \A id \in Occupied' : /\ pending'[id].claims \subseteq Claim
                              /\ pending'[id].finished \subseteq Requests
      /\ beat \in SUBSET Claim
    BY <1>0, SlotFields DEF TypeOK, Occupied, Cohort, OrNone, Active
<1>2. CASE RefillStart
    <2>1. row' = ReapedRows /\ UNCHANGED <<pending, pairs>> /\ pc' # "beat"
        BY <1>2 DEF RefillStart
    <2>2. RowsMove /\ \A r \in Requests : ~row[r].expired => row'[r] = row[r]
        BY <2>1, ReapMoves DEF CohortInv
    <2>3. Occupied' = Occupied
        BY <2>1 DEF Occupied
    (* A claim whose lease is held is with its thread, so it is refreshed. *)
    <2>4. \A id \in Occupied : \A c \in pending[id].claims : Holds(c) => Holds(c)'
        <3> SUFFICES ASSUME NEW id \in Occupied, NEW c \in pending[id].claims, Holds(c)
                     PROVE  Holds(c)'
            OBVIOUS
        <3>1. c \in pending[id].live \cup pending[id].pairs
            BY DEF CohortInv, KeepInv, KeepAt, HeldKept
        <3>2. c \in Claim /\ ~row[c.r].expired
            BY <3>1, LiveTended, HeldTended DEF CohortInv
        <3> QED BY <2>2, <3>2, ClaimParts DEF Holds
    <2>5. ClaimsStand'
        BY <1>1, <2>1, <2>2, <2>3, <2>4, ClaimParts DEF StandInv, ClaimsStand, Stands, RowsMove
    <2>6. FinishedSettled'
        BY <1>1, <2>1, <2>2, <2>3 DEF StandInv, FinishedSettled, RowsMove
    <2> QED BY <2>1, <2>5, <2>6 DEF StandInv, BeatStands
<1>3. CASE ~RefillStart
    <2>1. \A c \in Claim : Stands(c) => Stands(c)'
        BY <1>3, StandsKept
    <2>2. \A id \in Occupied' : SlotHistory(id)
        BY SlotsHistory
    <2>3. ClaimsStand'
        BY <1>1, <2>1, <2>2 DEF StandInv, ClaimsStand, Stands, SlotHistory
    <2>4. RowsMove
        BY <1>0, StepMovesRows DEF CohortInv
    <2>5. FinishedSettled'
        BY <1>1, <2>2, <2>4 DEF StandInv, FinishedSettled, SlotHistory, RowsMove
    <2>6. BeatStands'
        <3>1. CASE BeatStart
            <4>1. row' = row
                BY <3>1 DEF BeatStart
            <4>2. \A c \in beat' : \E id \in Occupied : c \in Active(pending[id])
                BY <3>1 DEF BeatStart, Occupied
            <4>3. \A c \in beat' : Stands(c)
                BY <1>1, <4>2 DEF StandInv, ClaimsStand
            <4> QED BY <4>1, <4>3 DEF BeatStands, Stands, Holds
        <3>2. CASE ~BeatStart
            <4>1. pc' = "beat" => pc = "beat" /\ beat' = beat
                BY <3>2 DEF Next, vars, CohortStep, DispatcherStep, Start, ItemDone, Mark, CancelSeen,
                            RollingRefill, BatchReturn, FinalItem, End, ReturnPairs, Raise,
                            Dispatching, Submit, Cancel, Expire, FinishDone, FinishPair, BeatCheck,
                            RefillStart, RefillSkip, RefillExclusive, ResidentClaim, ResidentPass,
                            ResidentEnd, Stop, StopSeen, Drained, Crash
            <4> QED BY <1>1, <2>1, <4>1 DEF StandInv, BeatStands
        <3> QED BY <3>1, <3>2
    <2> QED BY <2>3, <2>5, <2>6 DEF StandInv
<1> QED BY <1>2, <1>3

LEMMA StaysUpStep ==
    ASSUME StandInv, [Next]_vars
    PROVE  pc # "shutdown" /\ pc' = "shutdown" => stop
<1>1. BeatCheck => pc' # "shutdown"
    <2>1. BeatCheck => BeatLost = {}
        BY DEF BeatCheck, BeatLost, LeaseLost, StandInv, BeatStands, Stands
    <2> QED BY <2>1 DEF BeatCheck
<1>2. CASE UNCHANGED vars
    BY <1>2 DEF vars
<1>3. CASE Stop \/ Crash \/ \E r \in Requests : Submit(r) \/ Cancel(r) \/ Expire(r)
    BY <1>3 DEF Stop, Crash, Submit, Cancel, Expire
<1>4. CASE \E id \in Cohorts : CohortStep(id)
    BY <1>4 DEF CohortStep, Start, ItemDone, Mark, CancelSeen, RollingRefill, BatchReturn,
                FinalItem, End, ReturnPairs, Raise, Dispatching
<1>5. CASE DispatcherStep
    BY <1>1, <1>5 DEF DispatcherStep, FinishDone, FinishPair, BeatStart, RefillStart, RefillSkip,
                RefillExclusive, ResidentClaim, ResidentPass, ResidentEnd, StopSeen, Drained
<1> QED BY <1>2, <1>3, <1>4, <1>5 DEF Next

(* With one transport attempt per request the dispatcher thread shuts down  *)
(* only when it is told to stop: each claim it heartbeats runs under its    *)
(* lease or has been settled by the thread that had it (_dispatcher_tick,   *)
(* BatchWorker._heartbeat).                                                 *)
THEOREM DispatcherStaysUp == OneAttempt => (Spec => StaysUp)
<1> SUFFICES ASSUME OneAttempt PROVE Spec => StaysUp
    OBVIOUS
<1>1. CohortInv /\ CohortInv' /\ StandInv /\ [Next]_vars => StandInv'
    BY StandStep
<1>2. StandInv /\ [Next]_vars => [pc # "shutdown" /\ pc' = "shutdown" => stop]_vars
    BY StaysUpStep
<1> QED BY <1>1, <1>2, CohortInvInit, CohortInvStep, StandInvInit, PTL DEF Spec, StaysUp
-----------------------------------------------------------------------------
(* A running request is in somebody's hands: the thread executes it, its    *)
(* future returns it or the dispatcher is about to settle it.               *)
Carries(id, c) == pending[id] # None /\ c \in pending[id].live \cup pending[id].pairs
Carried(c) == c \in pairs.claims \/ \E id \in Cohorts : Carries(id, c)
Lease(r) == [r |-> r, n |-> row[r].attempts]

LEMMA TendedCarried ==
    ASSUME CohortInv, NEW c \in Claim, Holds(c)
    PROVE  Tended(c) <=> Carried(c)
<1>1. \A id \in Cohorts : Tends(id, c) => Carries(id, c)
    BY DEF Tends, Carries, Active, CohortInv, KeepInv, KeepAt, HeldKept, Occupied
<1>2. \A id \in Cohorts : Carries(id, c) => Tends(id, c)
    BY DEF Tends, Carries
<1> QED BY <1>1, <1>2, TendedBySlot DEF Carried

(* A claim that is taken goes to a slot at once. *)
LEMMA SubmitCarries ==
    ASSUME CohortInv, NEW s \in Services, NEW T \in SUBSET Waiting(s), NEW rolling \in BOOLEAN,
           SubmitCohort(s, T, rolling)
    PROVE  /\ \A id \in Cohorts, c \in Claim : Carries(id, c) => Carries(id, c)'
           /\ \A c \in ClaimsOf(T) : \E id \in Cohorts : Carries(id, c)'
<1>1. T \in SUBSET Requests
    BY DEF Waiting
<1>2. PICK slot \in Cohorts : /\ pending[slot] = None
                              /\ pending' = [pending EXCEPT ![slot] = NewCohort(s, T, rolling)]
    BY DEF SubmitCohort, FreeSlots
<1>3. NewCohort(s, T, rolling) # None
    BY <1>1, NewCohortType, NoneIsNoCohort DEF CohortInv
<1>4. /\ pending'[slot] = NewCohort(s, T, rolling)
      /\ \A j \in Cohorts : j # slot => pending'[j] = pending[j]
    BY <1>2 DEF CohortInv, TypeOK
<1>5. \A c \in ClaimsOf(T) : Carries(slot, c)'
    BY <1>3, <1>4 DEF Carries, NewCohort
<1> QED BY <1>2, <1>4, <1>5 DEF Carries

LEMMA CohortCarries ==
    ASSUME CohortInv, StandInv, NEW id \in Cohorts, CohortStep(id), ~Raise(id),
           NEW c \in Claim, Holds(c), Holds(c)', Carries(id, c)
    PROVE  Carries(id, c)'
<1> DEFINE k == pending[id]
<1>0. SlotKeeps(id) /\ TypeOK
    BY CohortType DEF CohortInv
<1>1. k \in Cohort /\ pending'[id] # None /\ id \in Occupied /\ k.live \subseteq Claim
    BY <1>0 DEF SlotKeeps, Occupied, Cohort
<1>2. /\ Phases(k)
      /\ \A r \in k.finished : row[r].state \in Settled
      /\ row[c.r].state \notin Settled
    BY <1>1 DEF CohortInv, KeepInv, KeepAt, StandInv, FinishedSettled, Holds, Settled
<1>3. \A f : pending' = [pending EXCEPT ![id] = f] => pending'[id] = f
    BY <1>0 DEF TypeOK
<1>4. ASSUME NEW f, pending' = [pending EXCEPT ![id] = f], c \in f.live \cup f.pairs
      PROVE  Carries(id, c)'
    BY <1>1, <1>3, <1>4 DEF Carries
<1>5. c \in k.live \cup k.pairs
    BY DEF Carries
<1>6. CASE Start(id)
    <2>1. PICK run : pending' = [pending EXCEPT ![id] = [k EXCEPT !.pc = "running", !.run = run]]
        BY <1>6 DEF Start
    <2>2. /\ [k EXCEPT !.pc = "running", !.run = run].live = k.live
          /\ [k EXCEPT !.pc = "running", !.run = run].pairs = k.pairs
        BY <1>1 DEF Cohort
    <2> QED BY <1>4, <1>5, <2>1, <2>2
<1>7. CASE ItemDone(id)
    <2>1. PICK e \in k.live, out \in Outcomes :
            /\ row' = FinishedRows(e, out)
            /\ pending' = [pending EXCEPT ![id] = [k EXCEPT !.live = @ \ {e}, !.finished = @ \cup {e.r},
                                                            !.marking = e.r]]
        BY <1>7 DEF ItemDone
    <2>2. c # e
        BY <1>0, <1>1, <2>1, FinishMoves
    <2> DEFINE f == [k EXCEPT !.live = @ \ {e}, !.finished = @ \cup {e.r}, !.marking = e.r]
    <2>3. f.live = k.live \ {e} /\ f.pairs = k.pairs
        BY <1>1 DEF Cohort
    <2> QED BY <1>4, <1>5, <2>1, <2>2, <2>3
<1>8. CASE Mark(id)
    <2> DEFINE f == [k EXCEPT !.unfinished = @ \ {k.marking}, !.marking = None]
    <2>1. f.live = k.live /\ f.pairs = k.pairs
        BY <1>1 DEF Cohort
    <2> QED BY <1>4, <1>5, <1>8, <2>1 DEF Mark
(* What was cancelled, or finished before, is settled: c is not. *)
<1>9. CASE CancelSeen(id)
    <2> DEFINE gone == {e.r : e \in {e \in k.live : row[e.r].state \in Settled}} \ k.finished
               left == StillWanted(k, gone)
               f == [k EXCEPT !.cancelled = TRUE, !.live = left, !.finished = @ \cup gone,
                              !.unfinished = @ \ gone,
                              !.pc = IF left = {} THEN "done" ELSE "running"]
    <2>1. pending' = [pending EXCEPT ![id] = f]
        BY <1>9 DEF CancelSeen
    <2>2. c.r \notin gone /\ c.r \notin k.finished
        BY <1>2
    <2>3. c \in k.live => c \in left
        BY <2>2 DEF StillWanted
    <2> HIDE DEF gone, left
    <2>4. f.live = left /\ f.pairs = k.pairs
        BY <1>1 DEF Cohort
    <2> HIDE DEF f
    <2> QED BY <1>4, <1>5, <2>1, <2>3, <2>4
<1>10. CASE RollingRefill(id)
    <2>1. PICK T : pending' = [pending EXCEPT ![id] = [k EXCEPT !.live = @ \cup ClaimsOf(T)]]
        BY <1>10 DEF RollingRefill
    <2>2. /\ [k EXCEPT !.live = @ \cup ClaimsOf(T)].live = k.live \cup ClaimsOf(T)
          /\ [k EXCEPT !.live = @ \cup ClaimsOf(T)].pairs = k.pairs
        BY <1>1 DEF Cohort
    <2> QED BY <1>4, <1>5, <2>1, <2>2
<1>11. CASE BatchReturn(id)
    <2>1. [k EXCEPT !.pc = "final"].live = k.live /\ [k EXCEPT !.pc = "final"].pairs = k.pairs
        BY <1>1 DEF Cohort
    <2> QED BY <1>4, <1>5, <1>11, <2>1 DEF BatchReturn
<1>12. CASE FinalItem(id)
    <2>1. PICK e \in k.live, out \in Outcomes :
            /\ row' = FinishedRows(e, out)
            /\ pending' = [pending EXCEPT ![id] = [k EXCEPT !.live = @ \ {e}]]
        BY <1>12 DEF FinalItem
    <2>2. c # e
        BY <1>0, <1>1, <2>1, FinishMoves
    <2>3. [k EXCEPT !.live = @ \ {e}].live = k.live \ {e} /\ [k EXCEPT !.live = @ \ {e}].pairs = k.pairs
        BY <1>1 DEF Cohort
    <2> QED BY <1>4, <1>5, <2>1, <2>2, <2>3
<1>13. CASE End(id)
    <2>1. [k EXCEPT !.pc = "done"].live = k.live /\ [k EXCEPT !.pc = "done"].pairs = k.pairs
        BY <1>1 DEF Cohort
    <2> QED BY <1>4, <1>5, <1>13, <2>1 DEF End
<1>14. CASE ReturnPairs(id)
    <2> DEFINE f == [k EXCEPT !.pc = "done", !.live = {}, !.pairs = k.claims]
    <2>1. f.pairs = k.claims
        BY <1>1 DEF Cohort
    <2>2. c \in k.claims
        BY <1>2, <1>5, <1>14 DEF ReturnPairs, Is, Phases
    <2> QED BY <1>4, <1>14, <2>1, <2>2 DEF ReturnPairs
<1> QED BY <1>6, <1>7, <1>8, <1>9, <1>10, <1>11, <1>12, <1>13, <1>14 DEF CohortStep

(* While nothing fails, what is carried goes on being carried as long as    *)
(* its lease is held.                                                       *)
LEMMA CarriedStays ==
    ASSUME CohortInv, StandInv, [Next]_vars, failures' = failures,
           NEW c \in Claim, Holds(c), Holds(c)', Carried(c)
    PROVE  Carried(c)'
<1>0. TypeOK /\ failures \in Nat
    BY DEF CohortInv, TypeOK
<1>1. CASE UNCHANGED <<pending, pairs>>
    BY <1>1 DEF Carried, Carries
<1>2. ASSUME NEW id \in Cohorts, CohortStep(id)
      PROVE  Carried(c)'
    <2>1. ~Raise(id)
        BY <1>0 DEF Raise
    <2>2. pairs' = pairs /\ \A j \in Cohorts : j # id => pending'[j] = pending[j]
        BY <1>0, <1>2, CohortType DEF Dispatching, SlotKeeps
    <2> QED BY <1>2, <2>1, <2>2, CohortCarries DEF Carried, Carries
<1>3. ASSUME NEW id \in Cohorts, FinishDone(id)
      PROVE  Carried(c)'
    <2>1. /\ pairs.claims = {} /\ pairs'.claims = pending[id].pairs
          /\ pending[id] # None /\ pending[id].pc = "done"
          /\ \A j \in Cohorts : j # id => pending'[j] = pending[j]
        BY <1>0, <1>3 DEF FinishDone, Is, TypeOK
    <2>2. pending[id].live = {}
        BY <2>1 DEF CohortInv, KeepInv, KeepAt, Phases, Occupied
    <2> QED BY <2>1, <2>2 DEF Carried, Carries
<1>4. CASE FinishPair
    <2>1. PICK e \in pairs.claims, out \in Outcomes :
            row' = FinishedRows(e, out) /\ pairs' = [pairs EXCEPT !.claims = @ \ {e}]
        BY <1>4 DEF FinishPair, Outcomes
    <2>2. c # e /\ pending' = pending /\ pairs'.claims = pairs.claims \ {e}
        BY <1>0, <1>4, <2>1, FinishMoves DEF FinishPair, TypeOK
    <2> QED BY <2>2 DEF Carried, Carries
<1>5. ASSUME NEW s \in Services, NEW T \in SUBSET Waiting(s), NEW rolling \in BOOLEAN,
             SubmitCohort(s, T, rolling), pairs' = pairs
      PROVE  Carried(c)'
    BY <1>5, SubmitCarries DEF Carried
<1>6. CASE RefillExclusive
    BY <1>1, <1>5, <1>6 DEF RefillExclusive
<1>7. ASSUME NEW s \in Services, ResidentClaim(s)
      PROVE  Carried(c)'
    BY <1>5, <1>7, PlanType DEF ResidentClaim
<1>8. ~Crash
    BY <1>0 DEF Crash
<1>9. CASE DispatcherStep
    BY <1>1, <1>3, <1>4, <1>6, <1>7, <1>9
       DEF DispatcherStep, BeatStart, BeatCheck, RefillStart, RefillSkip, ResidentPass, ResidentEnd,
           StopSeen, Drained
<1> QED BY <1>1, <1>2, <1>8, <1>9 DEF Next, vars, Stop, Submit, Cancel, Expire

(* A request that starts to run is carried by the cohort that claimed it. *)
LEMMA NewlyCarried ==
    ASSUME CohortInv, [Next]_vars, NEW c \in Claim, ~Holds(c), Holds(c)'
    PROVE  Carried(c)'
<1>0. TypeOK /\ ExpiredOrphans /\ c.r \in Requests /\ row[c.r] \in Row
    BY ClaimParts, RowFields DEF CohortInv
<1>1. row' # row
    BY DEF Holds
<1>2. ASSUME NEW e \in Claim, NEW out \in Outcomes, row' = FinishedRows(e, out)
      PROVE  FALSE
    <2>1. row'[c.r] = row[c.r] \/ row'[c.r].state \in {"waiting"} \cup Settled
        BY <1>0, <1>2, FinishType, ClaimParts DEF FinishedRows, TypeOK, Row
    <2> QED BY <2>1 DEF Holds, Settled
<1>3. ASSUME NEW q \in Requests, Submit(q) \/ Cancel(q) \/ Expire(q)
      PROVE  FALSE
    BY <1>0, <1>3, OtherMoves DEF Holds
<1>4. row' # ReapedRows
    BY <1>0, ReapMoves DEF Holds
<1>5. ASSUME NEW T \in SUBSET Requests, \A q \in T : row[q].state = "waiting", row' = TakenRows(T)
      PROVE  c \in ClaimsOf(T)
    <2>1. c.r \in T
        BY <1>0, <1>5, TakeMoves DEF Holds
    <2>2. row'[c.r].attempts = row[c.r].attempts + 1
        BY <1>0, <1>5, <2>1 DEF TakenRows, Row
    <2>3. c = [r |-> c.r, n |-> row[c.r].attempts + 1]
        BY <2>2, ClaimParts DEF Holds
    <2> QED BY <2>1, <2>3 DEF ClaimsOf
<1>6. ASSUME NEW s \in Services, NEW T \in SUBSET Waiting(s), NEW rolling \in BOOLEAN,
             SubmitCohort(s, T, rolling)
      PROVE  Carried(c)'
    <2>1. c \in ClaimsOf(T)
        BY <1>5, <1>6 DEF SubmitCohort, Waiting
    <2> QED BY <1>6, <2>1, SubmitCarries DEF Carried
<1>7. ASSUME NEW id \in Cohorts, CohortStep(id)
      PROVE  Carried(c)'
    <2> DEFINE k == pending[id]
    <2>1. k \in Cohort /\ pending'[id] # None
        BY <1>0, <1>7, CohortType DEF SlotKeeps
    <2>2. ~ItemDone(id) /\ ~FinalItem(id)
        <3>1. k.live \subseteq Claim
            BY <2>1 DEF Cohort
        <3> QED BY <1>2, <3>1 DEF ItemDone, FinalItem
    <2>3. CASE RollingRefill(id)
        <3>1. PICK T \in SUBSET Waiting(k.service) :
                /\ row' = TakenRows(T)
                /\ pending' = [pending EXCEPT ![id] = [k EXCEPT !.live = @ \cup ClaimsOf(T)]]
            BY <2>3 DEF RollingRefill
        <3>2. T \in SUBSET Requests /\ \A q \in T : row[q].state = "waiting"
            BY DEF Waiting
        <3>3. c \in ClaimsOf(T)
            BY <1>5, <3>1, <3>2
        <3>4. [k EXCEPT !.live = @ \cup ClaimsOf(T)].live = k.live \cup ClaimsOf(T)
            BY <2>1 DEF Cohort
        <3>5. pending'[id].live = k.live \cup ClaimsOf(T)
            BY <1>0, <3>1, <3>4 DEF TypeOK
        <3> QED BY <2>1, <3>3, <3>5 DEF Carried, Carries
    <2> QED BY <1>1, <1>7, <2>2, <2>3
            DEF CohortStep, Start, Mark, CancelSeen, BatchReturn, End, ReturnPairs, Raise
<1>8. CASE DispatcherStep
    <2>1. ~FinishPair
        <3>1. pairs.claims \subseteq Claim
            BY <1>0 DEF TypeOK
        <3> QED BY <1>2, <3>1 DEF FinishPair, Outcomes
    <2>2. CASE RefillExclusive
        BY <1>1, <1>6, <2>2 DEF RefillExclusive
    <2>3. ASSUME NEW s \in Services, ResidentClaim(s)
          PROVE  Carried(c)'
        BY <1>6, <2>3, PlanType DEF ResidentClaim
    <2> QED BY <1>1, <1>4, <1>8, <2>1, <2>2, <2>3
            DEF DispatcherStep, FinishDone, BeatStart, BeatCheck, RefillStart, RefillSkip,
                ResidentPass, ResidentEnd, StopSeen, Drained
<1> QED BY <1>1, <1>3, <1>7, <1>8 DEF Next, vars, Stop, Crash

(* A step that is not itself a failure counts none. *)
LEMMA FailuresGrow ==
    ASSUME TypeOK, [Next]_vars, failures' = 0
    PROVE  failures = 0
<1>1. failures \in Nat /\ (failures' = failures + 1 => failures' # 0)
    BY DEF TypeOK
<1>2. ASSUME NEW id \in Cohorts, CohortStep(id)
      PROVE  failures' = failures \/ failures' = failures + 1
    BY <1>2 DEF CohortStep, Start, ItemDone, Mark, CancelSeen, RollingRefill, BatchReturn,
                FinalItem, End, ReturnPairs, Raise
<1>3. ASSUME DispatcherStep
      PROVE  failures' = failures
    BY <1>3 DEF DispatcherStep, FinishDone, FinishPair, BeatStart, BeatCheck, RefillStart,
                RefillSkip, RefillExclusive, ResidentClaim, ResidentPass, ResidentEnd, StopSeen,
                Drained
<1> QED BY <1>1, <1>2, <1>3 DEF Next, vars, Stop, Crash, Submit, Cancel, Expire

-----------------------------------------------------------------------------
(* The life of a row, in the dispatcher's own words.                        *)
RowLife(r) ==
    \/ row'[r].state = row[r].state /\ row'[r].attempts = row[r].attempts
    \/ /\ row[r].state = "absent" /\ row[r].attempts = 0
       /\ row'[r].state = "waiting" /\ row'[r].attempts = 0
    \/ /\ row[r].state = "waiting" /\ row[r].attempts < MaxAttempts
       /\ row'[r].state = "running" /\ row'[r].attempts = row[r].attempts + 1
    \/ /\ row[r].state = "running" /\ row'[r].attempts = row[r].attempts
       /\ \/ row'[r].state \in Settled
          \/ row'[r].state = "waiting" /\ row[r].attempts < MaxAttempts
    \/ /\ row[r].state # "absent"
       /\ row'[r].state = "cancelled" /\ row'[r].attempts = row[r].attempts

(* Attempts are counted from the first claim on, and a row that waits has   *)
(* one left.                                                                *)
Budget ==
    \A r \in Requests :
        /\ row[r].state = "absent" => row[r].attempts = 0
        /\ row[r].state = "waiting" => row[r].attempts < MaxAttempts
        /\ row[r].state = "running" => row[r].attempts # 0

LEMMA MaxAttemptsType ==
    /\ MaxAttempts \in Nat \ {0}
    /\ \A n \in Nat : n < MaxTransportAttempts \/ n < MaxLeaseAttempts => n < MaxAttempts
BY BoundsType DEF MaxAttempts

LEMMA BudgetInit == Init => Budget
<1> SUFFICES ASSUME Init, NEW r \in Requests
             PROVE  row[r].state = "absent" /\ row[r].attempts = 0
    BY DEF Budget
<1> QED BY DEF Init

LEMMA FinishWaits ==
    ASSUME NEW r, NEW out \in Outcomes, FinishState(r, out) = "waiting"
    PROVE  row[r].attempts < MaxTransportAttempts
<1>1. out \in Settled \/ out = "transport_failed"
    BY BoundsType DEF Outcomes
<1> QED BY <1>1 DEF FinishState, Settled

LEMMA RowsLive ==
    ASSUME TypeOK, ExpiredOrphans, Budget, RowsStep, NEW r \in Requests
    PROVE  RowLife(r)
<1>1. row[r] \in Row /\ row[r].attempts \in Nat
    BY RowFields
<1>2. CASE row' = row
    BY <1>2 DEF RowLife
<1>3. ASSUME NEW e \in Claim, NEW out \in Outcomes, row' = FinishedRows(e, out)
      PROVE  RowLife(r)
    <2>1. CASE row'[r] = row[r]
        BY <2>1 DEF RowLife
    <2>2. CASE row'[r] # row[r]
        <3>1. e.r = r /\ Holds(e)
            BY <1>3, <2>2, FinishType, ClaimParts DEF FinishedRows, TypeOK
        <3>2. /\ row[r].state = "running" /\ row'[r].attempts = row[r].attempts
              /\ row'[r].state = FinishState(r, out)
            BY <1>1, <1>3, <3>1 DEF FinishedRows, Holds, TypeOK, Row
        <3>3. /\ FinishState(r, out) \in {"waiting"} \cup Settled
              /\ FinishState(r, out) = "waiting" => row[r].attempts < MaxTransportAttempts
            BY <3>1, FinishType, FinishWaits
        <3> QED BY <1>1, <3>2, <3>3, MaxAttemptsType DEF RowLife
    <2> QED BY <2>1, <2>2
<1>4. ASSUME NEW T \in SUBSET Requests, \A q \in T : row[q].state = "waiting", row' = TakenRows(T)
      PROVE  RowLife(r)
    <2>1. CASE r \in T
        BY <1>1, <1>4, <2>1 DEF TakenRows, Row, RowLife, Budget
    <2>2. CASE r \notin T
        BY <1>4, <2>2 DEF TakenRows, RowLife
    <2> QED BY <2>1, <2>2
<1>5. ASSUME NEW q \in Requests, Submit(q) \/ Cancel(q) \/ Expire(q)
      PROVE  RowLife(r)
    <2>1. CASE q # r
        BY <1>5, <2>1 DEF Submit, Cancel, Expire, TypeOK, RowLife
    <2>2. CASE q = r
        <3>1. CASE Submit(r)
            BY <1>1, <3>1 DEF Submit, TypeOK, Row, RowLife, Budget
        <3>2. CASE Cancel(r)
            BY <1>1, <3>2 DEF Cancel, TypeOK, Row, RowLife
        <3>3. CASE Expire(r)
            BY <1>1, <3>3 DEF Expire, TypeOK, Row, RowLife
        <3> QED BY <1>5, <2>2, <3>1, <3>2, <3>3
    <2> QED BY <2>1, <2>2
<1>6. CASE row' = ReapedRows
    <2>1. CASE ~row[r].expired
        BY <1>6, <2>1 DEF ReapedRows, RowLife
    <2>2. CASE row[r].expired
        <3>1. row[r].state = "running"
            BY <2>2 DEF ExpiredOrphans, Orphan
        <3>2. /\ row'[r].attempts = row[r].attempts
              /\ \/ row'[r].state = "failed"
                 \/ row'[r].state = "waiting" /\ row[r].attempts < MaxLeaseAttempts
            BY <1>1, <1>6, <2>2 DEF ReapedRows, Row
        <3> QED BY <1>1, <3>1, <3>2, MaxAttemptsType DEF RowLife, Settled
    <2> QED BY <2>1, <2>2
<1> QED BY <1>2, <1>3, <1>4, <1>5, <1>6 DEF RowsStep

LEMMA BudgetStep ==
    ASSUME TypeOK, Budget, \A r \in Requests : RowLife(r)
    PROVE  Budget'
<1> SUFFICES ASSUME NEW r \in Requests
             PROVE  /\ row'[r].state = "absent" => row'[r].attempts = 0
                    /\ row'[r].state = "waiting" => row'[r].attempts < MaxAttempts
                    /\ row'[r].state = "running" => row'[r].attempts # 0
    BY DEF Budget
<1>1. row[r].attempts \in Nat /\ 0 < MaxAttempts
    BY RowFields, MaxAttemptsType
<1>2. RowLife(r)
    OBVIOUS
<1> QED BY <1>1, <1>2 DEF RowLife, Budget, Settled

LEMMA BudgetKept == CohortInv /\ Budget /\ [Next]_vars => Budget'
BY StepRows, RowsLive, BudgetStep DEF CohortInv

(* The dispatcher, its threads and its clients move the rows as the queue's *)
(* contract allows: only a waiting row with an attempt left is claimed,     *)
(* only a running one ends, and a settled one is at most cancelled          *)
(* (claim_ready_batch, finish_request, retry_transport_failure,             *)
(* requeue_expired_leases, cancel).                                         *)
THEOREM DispatcherUsesLifecycle == Spec => UsesLifecycle
<1>1. Init => Lifecycle!Init
    <2> SUFFICES ASSUME Init PROVE Lifecycle!Init
        OBVIOUS
    <2>1. \A r \in Requests : row[r].state = "absent" /\ row[r].attempts = 0
        BY DEF Init
    <2> QED BY <2>1 DEF Lifecycle!Init, LifecycleRow
<1>2. ASSUME CohortInv, CohortInv', Budget, [Next]_vars
      PROVE  [Lifecycle!Next]_LifecycleRow
    <2>1. \A r \in Requests : RowLife(r)
        BY <1>2, StepRows, RowsLive DEF CohortInv
    <2>2. LifecycleRow' \in [Requests -> Lifecycle!RowType]
        <3>1. \A r \in Requests : /\ row'[r].state \in {"absent", "waiting", "running"} \cup Settled
                                  /\ row'[r].attempts \in Nat
            BY <1>2 DEF CohortInv, TypeOK, Row
        <3> QED BY <3>1 DEF LifecycleRow, Lifecycle!RowType, Lifecycle!Settled, Settled
    <2>3. ASSUME NEW r \in Requests
          PROVE  \/ LifecycleRow'[r] = LifecycleRow[r]
                 \/ Lifecycle!Enter(r) \/ Lifecycle!StartAttempt(r) \/ Lifecycle!EndAttempt(r)
                 \/ Lifecycle!CancelRow(r)
        <3>1. /\ LifecycleRow[r] = [state |-> row[r].state, attempts |-> row[r].attempts]
              /\ LifecycleRow'[r] = [state |-> row'[r].state, attempts |-> row'[r].attempts]
            BY DEF LifecycleRow
        <3>2. CASE row'[r].state = row[r].state /\ row'[r].attempts = row[r].attempts
            BY <3>1, <3>2
        <3>3. CASE /\ row[r].state = "absent" /\ row[r].attempts = 0
                   /\ row'[r].state = "waiting" /\ row'[r].attempts = 0
            BY <3>1, <3>3 DEF Lifecycle!Enter
        <3>4. CASE /\ row[r].state = "waiting" /\ row[r].attempts < MaxAttempts
                   /\ row'[r].state = "running" /\ row'[r].attempts = row[r].attempts + 1
            BY <3>1, <3>4 DEF Lifecycle!StartAttempt
        <3>5. CASE /\ row[r].state = "running" /\ row'[r].attempts = row[r].attempts
                   /\ \/ row'[r].state \in Settled
                      \/ row'[r].state = "waiting" /\ row[r].attempts < MaxAttempts
            <4>1. row'[r].state \in Lifecycle!Settled \cup {"waiting"}
                BY <3>5 DEF Settled, Lifecycle!Settled
            <4>2. row'[r].state = "waiting" => row[r].attempts < MaxAttempts
                BY <3>5 DEF Settled
            <4> QED BY <3>1, <3>5, <4>1, <4>2 DEF Lifecycle!EndAttempt
        <3>6. CASE /\ row[r].state # "absent"
                   /\ row'[r].state = "cancelled" /\ row'[r].attempts = row[r].attempts
            BY <3>1, <3>6 DEF Lifecycle!CancelRow
        <3> QED BY <2>1, <3>2, <3>3, <3>4, <3>5, <3>6 DEF RowLife
    <2> QED BY <2>2, <2>3 DEF Lifecycle!Next
<1>3. CohortInv /\ CohortInv' /\ Budget /\ [Next]_vars => [Lifecycle!Next]_LifecycleRow
    BY <1>2
<1> QED BY <1>1, <1>3, CohortInvInit, CohortInvStep, BudgetInit, BudgetKept, PTL
        DEF Spec, UsesLifecycle, Lifecycle!Spec
-----------------------------------------------------------------------------
LEMMA RunningLease ==
    ASSUME TypeOK, Budget, NEW r \in Requests
    PROVE  /\ row[r].state = "running" => Lease(r) \in Claim /\ Holds(Lease(r))
           /\ Orphan(r) <=> row[r].state = "running" /\ ~Tended(Lease(r))
<1>1. row[r].attempts \in Nat
    BY RowFields
<1>2. row[r].state = "running" => row[r].attempts # 0
    BY DEF Budget
<1> QED BY <1>1, <1>2 DEF Lease, Claim, Holds, Orphan

LEMMA NoOrphansStep ==
    ASSUME CohortInv, CohortInv', Budget, Budget', StandInv, NoOrphans, [Next]_vars
    PROVE  NoOrphans'
<1> SUFFICES ASSUME failures' = 0, NEW r \in Requests, row'[r].state = "running"
             PROVE  Tended(Lease(r))'
    <2>1. \A r \in Requests : Orphan(r)' => row'[r].state = "running" /\ ~Tended(Lease(r))'
        BY DEF Orphan, Lease
    <2> QED BY <2>1 DEF NoOrphans
<1>1. TypeOK /\ TypeOK'
    BY DEF CohortInv
<1>2. failures = 0
    BY <1>1, FailuresGrow
<1>3. PICK c \in Claim : c = Lease(r)' /\ Holds(c)' /\ c.r = r
    <2>1. row'[r].attempts \in Nat
        BY <1>1 DEF TypeOK, Row
    <2>2. row'[r].attempts # 0
        BY DEF Budget
    <2>3. PICK c \in Claim : c = [r |-> r, n |-> row'[r].attempts]
        BY <2>1, <2>2 DEF Claim
    <2>4. c.r = r /\ Holds(c)'
        BY <2>3 DEF Holds
    <2>5. c = Lease(r)'
        BY <2>3 DEF Lease
    <2> QED BY <2>4, <2>5
<1>4. ASSUME Holds(c) PROVE Carried(c)'
    <2>1. c = Lease(r) /\ row[r].state = "running"
        BY <1>3, <1>4 DEF Lease, Holds
    <2>2. Tended(c)
        BY <1>1, <1>2, <2>1, RunningLease DEF NoOrphans
    <2> QED BY <1>2, <1>3, <1>4, <2>2, TendedCarried, CarriedStays
<1>5. ASSUME ~Holds(c) PROVE Carried(c)'
    BY <1>3, <1>5, NewlyCarried
<1>6. Carried(c)' => Tended(c)'
    BY DEF Carried, Carries, Tended
<1>7. Tended(c)'
    BY <1>4, <1>5, <1>6
<1> QED BY <1>3, <1>7 DEF Tended

(* With one transport attempt per request, no running request is forgotten  *)
(* while nothing fails: not by the thread that drops what was cancelled     *)
(* beside it (_finish_cancelled_pending_futures), not between the future    *)
(* and the dispatcher (_dispatcher_finish_done), not by a refill.           *)
THEOREM NothingForgotten == OneAttempt => (Spec => []NoOrphans)
<1> SUFFICES ASSUME OneAttempt PROVE Spec => []NoOrphans
    OBVIOUS
<1>1. Init => NoOrphans
    BY DEF Init, NoOrphans, Orphan
<1>2. CohortInv /\ CohortInv' /\ StandInv /\ [Next]_vars => StandInv'
    BY StandStep
<1>3. CohortInv /\ CohortInv' /\ Budget /\ Budget' /\ StandInv /\ NoOrphans /\ [Next]_vars
        => NoOrphans'
    BY NoOrphansStep
<1> QED BY <1>1, <1>2, <1>3, CohortInvInit, CohortInvStep, BudgetInit, BudgetKept, StandInvInit,
           PTL DEF Spec

-----------------------------------------------------------------------------
(* What the limits count.                                                   *)
Open == {p \in Cohorts \X Requests : pending[p[1]] # None /\ p[2] \in pending[p[1]].unfinished}
ActiveOf(s) == {id \in PendingOf(s) : BatchActive(pending[id])}
ActiveIn(d) == {id \in Cohorts : BatchActive(pending[id]) /\ Plan[pending[id].service].domain = d}

LEMMA OpenCount == PendingCount = Cardinality(Open)
<1> DEFINE S == {id \in Cohorts : pending[id] # None}
<1>1. Unfinished(S) = Open
    BY DEF Unfinished, Open
<1> QED BY <1>1 DEF PendingCount, ActiveCount

(* The same of the next state. *)
LEMMA OpenCountNext == PendingCount' = Cardinality(Open')
<1> DEFINE S == {id \in Cohorts : pending'[id] # None}
<1>1. {p \in S \X Requests : p[2] \in pending'[p[1]].unfinished} = Open'
    BY DEF Open
<1> QED BY <1>1 DEF PendingCount, ActiveCount, Unfinished

LEMMA OpenFinite == IsFiniteSet(Open) /\ Cardinality(Open) \in Nat
<1>1. Open \in SUBSET (Cohorts \X Requests)
    BY DEF Open
<1> QED BY <1>1, CountsFinite

LEMMA ActiveFinite ==
    /\ \A s : IsFiniteSet(ActiveOf(s)) /\ Cardinality(ActiveOf(s)) \in Nat
    /\ \A d : IsFiniteSet(ActiveIn(d)) /\ Cardinality(ActiveIn(d)) \in Nat
<1>1. \A s : ActiveOf(s) \in SUBSET Cohorts
    BY DEF ActiveOf, PendingOf
<1>2. \A d : ActiveIn(d) \in SUBSET Cohorts
    BY DEF ActiveIn
<1> QED BY <1>1, <1>2, CountsFinite

LEMMA AddOne ==
    ASSUME NEW S, IsFiniteSet(S), NEW x, NEW U \in SUBSET (S \cup {x})
    PROVE  IsFiniteSet(U) /\ Cardinality(U) \in Nat /\ Cardinality(U) <= Cardinality(S) + 1
<1>1. /\ IsFiniteSet(S \cup {x}) /\ Cardinality(S) \in Nat
      /\ Cardinality(S \cup {x}) = IF x \in S THEN Cardinality(S) ELSE Cardinality(S) + 1
    BY FS_AddElement, FS_CardinalityType
<1>2. IsFiniteSet(U) /\ Cardinality(U) <= Cardinality(S \cup {x})
    BY <1>1, FS_Subset
<1>3. Cardinality(U) \in Nat
    BY <1>2, FS_CardinalityType
<1> QED BY <1>1, <1>2, <1>3

LEMMA Fewer ==
    ASSUME NEW S, IsFiniteSet(S), NEW U \in SUBSET S
    PROVE  Cardinality(U) \in Nat /\ Cardinality(S) \in Nat /\ Cardinality(U) <= Cardinality(S)
BY FS_Subset, FS_CardinalityType

-----------------------------------------------------------------------------
(* Most steps only let slots move on: nothing becomes unfinished, no cohort *)
(* changes its service, and what a refill has counted stays.                *)
SlotQuiet(id) ==
    \/ pending'[id] = pending[id] \/ pending'[id] = None
    \/ /\ pending[id] # None /\ pending'[id] # None
       /\ Keeps(pending[id], pending'[id])
PlanQuiet ==
    /\ resident' = resident
    /\ pc' \in {"resident", "exclusive"} =>
        /\ pc' = pc /\ plan'.available = plan.available
        /\ plan'.service_batches = plan.service_batches
        /\ plan'.domain_batches = plan.domain_batches
Quiet == (\A id \in Cohorts : SlotQuiet(id)) /\ PlanQuiet

(* One slot gets a cohort. *)
SlotFilled(s, T, rolling) ==
    \E id \in Cohorts :
        /\ pending[id] = None /\ pending'[id] = NewCohort(s, T, rolling)
        /\ \A j \in Cohorts : j # id => pending'[j] = pending[j]

LEMMA SubmitFills ==
    ASSUME TypeOK, NEW s \in Services, NEW T \in SUBSET Waiting(s), NEW rolling \in BOOLEAN,
           SubmitCohort(s, T, rolling)
    PROVE  SlotFilled(s, T, rolling)
<1>1. PICK id \in Cohorts : /\ pending[id] = None
                            /\ pending' = [pending EXCEPT ![id] = NewCohort(s, T, rolling)]
    BY DEF SubmitCohort, FreeSlots
<1>2. /\ pending'[id] = NewCohort(s, T, rolling)
      /\ \A j \in Cohorts : j # id => pending'[j] = pending[j]
    BY <1>1 DEF TypeOK
<1> QED BY <1>1, <1>2 DEF SlotFilled

RefillStarts ==
    /\ pending' = pending /\ resident' = resident
    /\ pc' = IF resident THEN "resident" ELSE "exclusive"
    /\ plan'.available = Window - PendingCount /\ plan'.available > 0
    /\ plan'.service_batches = [s \in Services |-> Cardinality(ActiveOf(s))]
    /\ plan'.domain_batches = [d \in Domains |-> Cardinality(ActiveIn(d))]
ExclusiveFills ==
    /\ pc = "exclusive" /\ pc' = "finish" /\ resident' = resident
    /\ \E s \in Services : \E T \in SUBSET Requests :
        Cardinality(T) <= plan.available /\ SlotFilled(s, T, FALSE)
ResidentFills(s) ==
    /\ pc = "resident" /\ pc' = "resident" /\ resident' = resident /\ ~LimitReached(s)
    /\ plan.available > 0
    /\ \E T \in SUBSET Requests :
        /\ Cardinality(T) <= plan.available /\ SlotFilled(s, T, Plan[s].rolling)
        /\ plan'.available = plan.available - Cardinality(T)
        /\ plan'.service_batches = [plan.service_batches EXCEPT ![s] = @ + 1]
        /\ plan'.domain_batches = [plan.domain_batches EXCEPT ![Plan[s].domain] = @ + 1]

(* No more is claimed for a service than the window has left. *)
LEMMA RefillLimitFits ==
    ASSUME TypeOK, NEW s \in Services, plan.available > 0
    PROVE  RefillLimit(s) \in Int /\ RefillLimit(s) <= plan.available
<1> DEFINE p == Plan[s]
           active == plan.active[s]
           batch == Max({1, RefillBatch - plan.submitted})
           room == Min({p.size, batch, plan.available})
           free == Max({0, p.target - active})
           least == Min({free, room})
<1>1. /\ p.size \in Int /\ p.target \in Int /\ active \in Int /\ plan.submitted \in Int
      /\ plan.available \in Int /\ RefillBatch \in Int
    BY PlanType, BoundsType DEF TypeOK, PlanSnapshot
<1>2. batch \in Int /\ free \in Int
    <2>1. RefillBatch - plan.submitted \in Int /\ p.target - active \in Int
        BY <1>1
    <2> QED BY <2>1, MaxOfTwo
<1>3. RefillLimit(s) \in {room, least, 0}
    BY DEF RefillLimit
<1> HIDE DEF batch, free
<1>4. room \in Int /\ room <= plan.available
    <2>1. p.size \in Int /\ batch \in Int /\ plan.available \in Int
        BY <1>1, <1>2
    <2>2. /\ room \in {p.size, batch, plan.available}
          /\ room <= plan.available
        BY <2>1, MinOfThree
    <2> HIDE DEF room
    <2> QED BY <2>1, <2>2
<1> HIDE DEF room
<1>5. least \in Int /\ least <= plan.available
    BY <1>1, <1>2, <1>4, MinOfTwo
<1> HIDE DEF least
<1> QED BY <1>1, <1>3, <1>4, <1>5

LEMMA StepKinds ==
    ASSUME TypeOK, [Next]_vars
    PROVE  \/ Quiet \/ RefillStarts \/ ExclusiveFills
           \/ \E s \in Services : ResidentFills(s)
           \/ (pending' = [id \in Cohorts |-> None] /\ PlanQuiet)
<1>1. CASE UNCHANGED <<pending, plan, pc, resident>>
    BY <1>1 DEF Quiet, SlotQuiet, PlanQuiet
<1>2. ASSUME NEW id \in Cohorts, CohortStep(id)
      PROVE  Quiet
    BY <1>2, CohortType DEF Quiet, SlotQuiet, PlanQuiet, SlotKeeps, Dispatching
<1>3. ASSUME NEW id \in Cohorts, FinishDone(id)
      PROVE  Quiet
    BY <1>3 DEF Quiet, SlotQuiet, PlanQuiet, FinishDone, TypeOK
<1>4. CASE FinishPair \/ BeatStart \/ BeatCheck \/ RefillSkip \/ ResidentEnd \/ StopSeen \/ Drained
    BY <1>4 DEF FinishPair, BeatStart, BeatCheck, RefillSkip, ResidentEnd, StopSeen, Drained,
                Quiet, SlotQuiet, PlanQuiet
<1>5. ASSUME NEW s \in Services, ResidentPass(s)
      PROVE  Quiet
    <2>1. plan \in PlanSnapshot
        BY DEF TypeOK
    <2> QED BY <1>5, <2>1 DEF ResidentPass, Quiet, SlotQuiet, PlanQuiet, PlanSnapshot
<1>6. CASE RefillStart
    BY <1>6 DEF RefillStart, RefillStarts, ActiveOf, ActiveIn
<1>7. CASE RefillExclusive
    <2>1. CASE UNCHANGED <<row, pending>>
        BY <1>7, <2>1 DEF RefillExclusive, Quiet, SlotQuiet, PlanQuiet
    <2>2. ASSUME NEW s \in Services, NEW T \in SUBSET Waiting(s) \ {{}},
                 Cardinality(T) <= Min({plan.available, RefillBatch}), SubmitCohort(s, T, FALSE)
          PROVE  ExclusiveFills
        <3>1. T \in SUBSET Requests /\ Cardinality(T) \in Nat
            BY CountsFinite DEF Waiting
        <3>2. plan.available \in Int /\ RefillBatch \in Int
            BY BoundsType DEF TypeOK, PlanSnapshot
        <3>3. Cardinality(T) <= plan.available
            BY <2>2, <3>1, <3>2, MinOfTwo
        <3>4. SlotFilled(s, T, FALSE)
            BY <2>2, SubmitFills
        <3> QED BY <1>7, <3>1, <3>3, <3>4 DEF RefillExclusive, ExclusiveFills
    <2> QED BY <1>7, <2>1, <2>2 DEF RefillExclusive
<1>8. ASSUME NEW s \in Services, ResidentClaim(s)
      PROVE  ResidentFills(s)
    <2>1. plan \in PlanSnapshot /\ Plan[s].rolling \in BOOLEAN /\ plan.available > 0
        BY <1>8, PlanType DEF TypeOK, ResidentClaim, Going
    <2>2. PICK T \in SUBSET Waiting(s) :
            /\ Cardinality(T) <= RefillLimit(s)
            /\ SubmitCohort(s, T, Plan[s].rolling)
            /\ plan' = [plan EXCEPT
                !.available = @ - Cardinality(T), !.submitted = @ + Cardinality(T),
                !.active[s] = @ + Cardinality(T), !.service_batches[s] = @ + 1,
                !.domain_batches[Plan[s].domain] = @ + 1, !.left = @ \ {s}]
        BY <1>8 DEF ResidentClaim
    <2>3. T \in SUBSET Requests /\ Cardinality(T) \in Nat
        BY CountsFinite DEF Waiting
    <2>4. RefillLimit(s) \in Int /\ RefillLimit(s) <= plan.available
        BY <2>1, RefillLimitFits
    <2>5. Cardinality(T) <= plan.available
        BY <2>1, <2>2, <2>3, <2>4 DEF PlanSnapshot
    <2>6. /\ plan'.available = plan.available - Cardinality(T)
          /\ plan'.service_batches = [plan.service_batches EXCEPT ![s] = @ + 1]
          /\ plan'.domain_batches = [plan.domain_batches EXCEPT ![Plan[s].domain] = @ + 1]
        BY <2>1, <2>2 DEF PlanSnapshot
    <2>7. SlotFilled(s, T, Plan[s].rolling)
        BY <2>1, <2>2, SubmitFills
    <2> QED BY <1>8, <2>1, <2>3, <2>5, <2>6, <2>7 DEF ResidentClaim, ResidentFills
<1>9. CASE DispatcherStep
    BY <1>3, <1>4, <1>5, <1>6, <1>7, <1>8, <1>9 DEF DispatcherStep
<1>10. CASE Crash
    BY <1>10 DEF Crash, PlanQuiet
<1>11. CASE Stop \/ UNCHANGED vars \/ \E r \in Requests : Submit(r) \/ Cancel(r) \/ Expire(r)
    BY <1>1, <1>11 DEF Stop, vars, Submit, Cancel, Expire
<1> QED BY <1>2, <1>9, <1>10, <1>11 DEF Next
-----------------------------------------------------------------------------
(* The window: while a refill runs, what is open and what it may still take *)
(* fit together.                                                            *)
WindowInv ==
    /\ PendingCount <= Window
    /\ pc \in {"resident", "exclusive"} =>
        plan.available >= 0 /\ PendingCount + plan.available <= Window

LEMMA OpenShrinks ==
    ASSUME \A id \in Cohorts : SlotQuiet(id) \/ pending'[id] = None
    PROVE  PendingCount' <= PendingCount /\ PendingCount' \in Nat
<1>1. PendingCount' = Cardinality(Open')
    BY OpenCountNext
<1>2. Open' \in SUBSET Open
    BY DEF Open, SlotQuiet, Keeps
<1> QED BY <1>1, <1>2, OpenCount, OpenFinite, Fewer

LEMMA OpenGrows ==
    ASSUME NEW s, NEW T \in SUBSET Requests, NEW rolling, SlotFilled(s, T, rolling)
    PROVE  PendingCount' <= PendingCount + Cardinality(T) /\ PendingCount' \in Nat
<1>1. PICK id \in Cohorts :
        /\ pending'[id] = NewCohort(s, T, rolling)
        /\ \A j \in Cohorts : j # id => pending'[j] = pending[j]
    BY DEF SlotFilled
<1> DEFINE new == {id} \X T
<1>2. PendingCount' = Cardinality(Open')
    BY OpenCountNext
<1>3. Open' \in SUBSET (Open \cup new)
    BY <1>1 DEF Open, NewCohort
<1>4. IsFiniteSet(T) /\ Cardinality(T) \in Nat
    BY CountsFinite
<1>5. IsFiniteSet(new) /\ Cardinality(new) = Cardinality(T)
    <2>1. IsFiniteSet({id}) /\ Cardinality({id}) = 1
        BY FS_Singleton
    <2> QED BY <1>4, <2>1, FS_Product
<1> HIDE DEF new
<1>6. /\ IsFiniteSet(Open \cup new) /\ Cardinality(Open \cap new) \in Nat
      /\ Cardinality(Open \cup new) = Cardinality(Open) + Cardinality(new) - Cardinality(Open \cap new)
    <2>1. IsFiniteSet(Open \cap new)
        BY OpenFinite, FS_Subset
    <2> QED BY <1>5, <2>1, OpenFinite, FS_Union, FS_CardinalityType
<1>7. Cardinality(Open') \in Nat /\ Cardinality(Open') <= Cardinality(Open \cup new)
    BY <1>3, <1>6, Fewer
<1>8. PendingCount = Cardinality(Open) /\ Cardinality(Open) \in Nat
    BY OpenCount, OpenFinite
<1> QED BY <1>2, <1>4, <1>5, <1>6, <1>7, <1>8

LEMMA PendingCountType == PendingCount \in Nat
BY OpenCount, OpenFinite

LEMMA WindowInit == Init => WindowInv
<1> SUFFICES ASSUME Init PROVE WindowInv
    OBVIOUS
<1>1. Open = {} /\ pc = "finish"
    BY DEF Init, Open
<1>2. PendingCount = 0
    BY <1>1, OpenCount, FS_EmptySet
<1> QED BY <1>1, <1>2, BoundsType DEF WindowInv

LEMMA WindowStep == TypeOK /\ WindowInv /\ [Next]_vars => WindowInv'
<1> SUFFICES ASSUME TypeOK, WindowInv, [Next]_vars PROVE WindowInv'
    OBVIOUS
<1>0. PendingCount \in Nat /\ Window \in Nat /\ plan.available \in Int
    BY PendingCountType, BoundsType DEF TypeOK, PlanSnapshot
<1>1. CASE Quiet
    <2>0. \A id \in Cohorts : SlotQuiet(id)
        BY <1>1 DEF Quiet
    <2>1. PendingCount' \in Nat /\ PendingCount' <= PendingCount
        BY <2>0, OpenShrinks
    <2> QED BY <1>0, <1>1, <2>1 DEF Quiet, PlanQuiet, WindowInv
<1>2. CASE RefillStarts
    <2>0. \A id \in Cohorts : SlotQuiet(id)
        BY <1>2 DEF RefillStarts, SlotQuiet
    <2>1. PendingCount' \in Nat /\ PendingCount' <= PendingCount
        BY <2>0, OpenShrinks
    <2>2. plan'.available = Window - PendingCount /\ plan'.available > 0
        BY <1>2 DEF RefillStarts
    <2>3. PendingCount' <= Window
        BY <1>0, <2>1 DEF WindowInv
    <2>4. plan'.available >= 0 /\ PendingCount' + plan'.available <= Window
        <3>1. ASSUME NEW m \in Nat, NEW n \in Nat, NEW a \in Int, m <= n, a = Window - n
              PROVE  m + a <= Window
            BY <3>1, BoundsType
        <3>2. plan'.available \in Int /\ plan'.available >= 0
            BY <1>0, <2>2
        <3> QED BY <1>0, <2>1, <2>2, <3>1, <3>2
    <2> QED BY <2>3, <2>4 DEF WindowInv
<1>3. CASE ExclusiveFills
    <2>1. PICK s \in Services, T \in SUBSET Requests :
            Cardinality(T) <= plan.available /\ SlotFilled(s, T, FALSE)
        BY <1>3 DEF ExclusiveFills
    <2>2. PendingCount' \in Nat /\ PendingCount' <= PendingCount + Cardinality(T)
        BY <2>1, OpenGrows
    <2>3. Cardinality(T) \in Nat
        BY CountsFinite
    <2> QED BY <1>0, <1>3, <2>1, <2>2, <2>3 DEF ExclusiveFills, WindowInv
<1>4. ASSUME NEW s \in Services, ResidentFills(s) PROVE WindowInv'
    <2>1. PICK T \in SUBSET Requests :
            /\ Cardinality(T) <= plan.available /\ SlotFilled(s, T, Plan[s].rolling)
            /\ plan'.available = plan.available - Cardinality(T)
        BY <1>4 DEF ResidentFills
    <2>2. PendingCount' \in Nat /\ PendingCount' <= PendingCount + Cardinality(T)
        BY <2>1, OpenGrows
    <2>3. Cardinality(T) \in Nat
        BY CountsFinite
    <2> QED BY <1>0, <1>4, <2>1, <2>2, <2>3 DEF ResidentFills, WindowInv
<1>5. CASE pending' = [id \in Cohorts |-> None] /\ PlanQuiet
    <2>1. PendingCount' \in Nat /\ PendingCount' <= PendingCount
        BY <1>5, OpenShrinks
    <2> QED BY <1>0, <1>5, <2>1 DEF PlanQuiet, WindowInv
<1> QED BY <1>1, <1>2, <1>3, <1>4, <1>5, StepKinds

(* The unfinished claims of all cohorts fit DS4_API_DISPATCH_WINDOW at all  *)
(* times: a refill plans with a count that cohorts only make smaller while  *)
(* it runs, and takes what it claims off (_dispatcher_refill,               *)
(* _resident_refill_limit).                                                 *)
THEOREM WindowHolds == Spec => []WindowBound
<1>1. WindowInv => WindowBound
    BY DEF WindowInv, WindowBound
<1> QED BY <1>1, WindowInit, WindowStep, DispatcherTypeCorrect, PTL DEF Spec
-----------------------------------------------------------------------------
(* The batch limits: a resident refill counts at least the cohorts that are *)
(* batch active, and an exclusive one is not subject to the limits.         *)
Uniform(s) ==
    \A t \in Services : Plan[t].domain = Plan[s].domain =>
        Plan[t].domain_batches = Plan[s].domain_batches /\ Plan[t].domain_batches > 0
CapInv ==
    /\ pc = "exclusive" => ~resident
    /\ pc = "resident" =>
        /\ \A s \in Services : Cardinality(ActiveOf(s)) <= plan.service_batches[s]
        /\ \A d \in Domains : Cardinality(ActiveIn(d)) <= plan.domain_batches[d]
    /\ resident => \A s \in Services :
        /\ Plan[s].service_batches > 0 => Cardinality(ActiveOf(s)) <= Plan[s].service_batches
        /\ Uniform(s) => Cardinality(ActiveIn(Plan[s].domain)) <= Plan[s].domain_batches

(* Only a rolling cohort streams: what another executes it started with. *)
StreamsRoll == \A id \in Occupied : pending[id].rolling \/ pending[id].run # "stream"

ActiveKept ==
    /\ \A s : ActiveOf(s)' \subseteq ActiveOf(s)
    /\ \A d : ActiveIn(d)' \subseteq ActiveIn(d)

LEMMA QuietShrinks ==
    ASSUME \A id \in Cohorts : SlotQuiet(id)
    PROVE  ActiveKept
<1>1. ASSUME NEW id \in Cohorts, BatchActive(pending'[id])
      PROVE  BatchActive(pending[id]) /\ pending'[id].service = pending[id].service
    <2>1. SlotQuiet(id) /\ pending'[id] # None
        BY <1>1 DEF BatchActive
    <2>2. CASE pending'[id] = pending[id]
        BY <1>1, <2>2
    <2>3. CASE pending[id] # None /\ Keeps(pending[id], pending'[id])
        BY <1>1, <2>3 DEF BatchActive, Keeps
    <2> QED BY <2>1, <2>2, <2>3 DEF SlotQuiet
<1>2. \A id \in Cohorts : BatchActive(pending'[id]) => pending[id] # None /\ pending'[id] # None
    BY <1>1 DEF BatchActive
<1> QED BY <1>1, <1>2 DEF ActiveKept, ActiveOf, ActiveIn, PendingOf

LEMMA CapShrinks ==
    ASSUME CapInv, ActiveKept, resident' = resident,
           pc' = "exclusive" => pc = "exclusive",
           pc' = "resident" => /\ pc = "resident"
                               /\ plan'.service_batches = plan.service_batches
                               /\ plan'.domain_batches = plan.domain_batches,
           TypeOK
    PROVE  CapInv'
<1>1. /\ \A s : /\ Cardinality(ActiveOf(s)') \in Nat /\ Cardinality(ActiveOf(s)) \in Nat
                /\ Cardinality(ActiveOf(s)') <= Cardinality(ActiveOf(s))
      /\ \A d : /\ Cardinality(ActiveIn(d)') \in Nat /\ Cardinality(ActiveIn(d)) \in Nat
                /\ Cardinality(ActiveIn(d)') <= Cardinality(ActiveIn(d))
    <2>1. \A s : ActiveOf(s)' \in SUBSET ActiveOf(s)
        BY DEF ActiveKept
    <2>2. \A d : ActiveIn(d)' \in SUBSET ActiveIn(d)
        BY DEF ActiveKept
    <2> QED BY <2>1, <2>2, ActiveFinite, Fewer
<1>2. /\ \A s \in Services : /\ Plan[s].service_batches \in Nat /\ Plan[s].domain_batches \in Nat
                             /\ plan.service_batches[s] \in Nat /\ Plan[s].domain \in Domains
      /\ \A d \in Domains : plan.domain_batches[d] \in Nat
    BY PlanType DEF TypeOK, PlanSnapshot
<1>3. pc' = "exclusive" => ~resident'
    BY DEF CapInv
<1>4. ASSUME pc' = "resident", NEW s \in Services
      PROVE  Cardinality(ActiveOf(s)') <= plan'.service_batches[s]
    BY <1>1, <1>2, <1>4 DEF CapInv
<1>5. ASSUME pc' = "resident", NEW d \in Domains
      PROVE  Cardinality(ActiveIn(d)') <= plan'.domain_batches[d]
    BY <1>1, <1>2, <1>5 DEF CapInv
<1>6. ASSUME resident', NEW s \in Services, Plan[s].service_batches > 0
      PROVE  Cardinality(ActiveOf(s)') <= Plan[s].service_batches
    <2>1. Cardinality(ActiveOf(s)) <= Plan[s].service_batches
        BY <1>6 DEF CapInv
    <2> QED BY <1>1, <1>2, <2>1
<1>7. ASSUME resident', NEW s \in Services, Uniform(s)
      PROVE  Cardinality(ActiveIn(Plan[s].domain)') <= Plan[s].domain_batches
    <2>1. Cardinality(ActiveIn(Plan[s].domain)) <= Plan[s].domain_batches
        BY <1>7 DEF CapInv
    <2> QED BY <1>1, <1>2, <2>1
<1> QED BY <1>3, <1>4, <1>5, <1>6, <1>7 DEF CapInv, Uniform

(* A resident refill gives a service a cohort only below both its limits. *)
LEMMA CapFills ==
    ASSUME CapInv, TypeOK, NEW s \in Services, ResidentFills(s)
    PROVE  CapInv'
<1> DEFINE d == Plan[s].domain
<1>1. PICK T \in SUBSET Requests :
        /\ SlotFilled(s, T, Plan[s].rolling)
        /\ plan'.service_batches = [plan.service_batches EXCEPT ![s] = @ + 1]
        /\ plan'.domain_batches = [plan.domain_batches EXCEPT ![Plan[s].domain] = @ + 1]
    BY DEF ResidentFills
<1>2. PICK id \in Cohorts :
        /\ pending'[id] = NewCohort(s, T, Plan[s].rolling)
        /\ \A j \in Cohorts : j # id => pending'[j] = pending[j]
    BY <1>1 DEF SlotFilled
<1>3. NewCohort(s, T, Plan[s].rolling).service = s
    BY DEF NewCohort
<1>4. /\ \A t : ActiveOf(t)' \subseteq IF t = s THEN ActiveOf(s) \cup {id} ELSE ActiveOf(t)
      /\ \A e : ActiveIn(e)' \subseteq IF e = d THEN ActiveIn(d) \cup {id} ELSE ActiveIn(e)
    BY <1>2, <1>3 DEF ActiveOf, ActiveIn, PendingOf
<1>5. /\ \A t \in Services : /\ Plan[t].service_batches \in Nat /\ Plan[t].domain_batches \in Nat
                             /\ plan.service_batches[t] \in Nat /\ Plan[t].domain \in Domains
      /\ \A e \in Domains : plan.domain_batches[e] \in Nat
      /\ plan.service_batches \in [Services -> Nat] /\ plan.domain_batches \in [Domains -> Nat]
    BY PlanType DEF TypeOK, PlanSnapshot
<1>6. /\ \A t \in Services : t # s => Cardinality(ActiveOf(t)') <= Cardinality(ActiveOf(t))
      /\ \A e \in Domains : e # d => Cardinality(ActiveIn(e)') <= Cardinality(ActiveIn(e))
      /\ \A t : Cardinality(ActiveOf(t)') \in Nat /\ Cardinality(ActiveOf(t)) \in Nat
      /\ \A e : Cardinality(ActiveIn(e)') \in Nat /\ Cardinality(ActiveIn(e)) \in Nat
      /\ Cardinality(ActiveOf(s)') <= Cardinality(ActiveOf(s)) + 1
      /\ Cardinality(ActiveIn(d)') <= Cardinality(ActiveIn(d)) + 1
    <2>1. \A t : t # s => ActiveOf(t)' \in SUBSET ActiveOf(t)
        BY <1>4
    <2>2. \A e : e # d => ActiveIn(e)' \in SUBSET ActiveIn(e)
        BY <1>4
    <2>3. ActiveOf(s)' \in SUBSET (ActiveOf(s) \cup {id}) /\ ActiveIn(d)' \in SUBSET (ActiveIn(d) \cup {id})
        BY <1>4
    <2>4. \A t : t # s => /\ Cardinality(ActiveOf(t)') \in Nat
                          /\ Cardinality(ActiveOf(t)') <= Cardinality(ActiveOf(t))
        BY <2>1, ActiveFinite, Fewer
    <2>5. \A e : e # d => /\ Cardinality(ActiveIn(e)') \in Nat
                          /\ Cardinality(ActiveIn(e)') <= Cardinality(ActiveIn(e))
        BY <2>2, ActiveFinite, Fewer
    <2>6. /\ Cardinality(ActiveOf(s)') \in Nat
          /\ Cardinality(ActiveOf(s)') <= Cardinality(ActiveOf(s)) + 1
        BY <2>3, ActiveFinite, AddOne
    <2>7. /\ Cardinality(ActiveIn(d)') \in Nat
          /\ Cardinality(ActiveIn(d)') <= Cardinality(ActiveIn(d)) + 1
        BY <2>3, ActiveFinite, AddOne
    <2> HIDE DEF d
    <2> QED BY <2>4, <2>5, <2>6, <2>7, ActiveFinite
<1>7. /\ pc = "resident" /\ pc' = "resident" /\ resident' = resident /\ ~LimitReached(s)
    BY DEF ResidentFills
<1>8. /\ Cardinality(ActiveOf(s)) <= plan.service_batches[s]
      /\ Cardinality(ActiveIn(d)) <= plan.domain_batches[d]
    BY <1>5, <1>7 DEF CapInv
<1>9. ASSUME NEW t \in Services
      PROVE  Cardinality(ActiveOf(t)') <= plan'.service_batches[t]
    <2>1. Cardinality(ActiveOf(t)) <= plan.service_batches[t]
        BY <1>7 DEF CapInv
    <2>2. CASE t = s
        BY <1>1, <1>5, <1>6, <2>1, <2>2
    <2>3. CASE t # s
        BY <1>1, <1>5, <1>6, <2>1, <2>3
    <2> QED BY <2>2, <2>3
<1>10. ASSUME NEW e \in Domains
       PROVE  Cardinality(ActiveIn(e)') <= plan'.domain_batches[e]
    <2>1. Cardinality(ActiveIn(e)) <= plan.domain_batches[e]
        BY <1>7 DEF CapInv
    <2>2. CASE e = d
        BY <1>1, <1>5, <1>6, <2>1, <2>2
    <2>3. CASE e # d
        BY <1>1, <1>5, <1>6, <2>1, <2>3
    <2> QED BY <2>2, <2>3
<1>11. ASSUME resident', NEW t \in Services, Plan[t].service_batches > 0
       PROVE  Cardinality(ActiveOf(t)') <= Plan[t].service_batches
    <2>1. Cardinality(ActiveOf(t)) <= Plan[t].service_batches
        BY <1>7, <1>11 DEF CapInv
    <2>2. CASE t = s
        <3>1. plan.service_batches[s] < Plan[s].service_batches
            BY <1>5, <1>7, <1>11, <2>2 DEF LimitReached
        <3> QED BY <1>5, <1>6, <1>8, <2>2, <3>1
    <2>3. CASE t # s
        BY <1>5, <1>6, <2>1, <2>3
    <2> QED BY <2>2, <2>3
<1>12. ASSUME resident', NEW t \in Services, Uniform(t)
       PROVE  Cardinality(ActiveIn(Plan[t].domain)') <= Plan[t].domain_batches
    <2>1. Cardinality(ActiveIn(Plan[t].domain)) <= Plan[t].domain_batches
        BY <1>7, <1>12 DEF CapInv
    <2>2. CASE Plan[t].domain = d
        <3>1. Plan[s].domain_batches = Plan[t].domain_batches /\ Plan[s].domain_batches > 0
            BY <1>12, <2>2 DEF Uniform
        <3>2. plan.domain_batches[d] < Plan[s].domain_batches
            BY <1>5, <1>7, <3>1 DEF LimitReached
        <3> QED BY <1>5, <1>6, <1>8, <2>2, <3>1, <3>2
    <2>3. CASE Plan[t].domain # d
        BY <1>5, <1>6, <2>1, <2>3
    <2> QED BY <2>2, <2>3
<1> QED BY <1>7, <1>9, <1>10, <1>11, <1>12 DEF CapInv, Uniform

LEMMA CapInit == Init => CapInv
<1> SUFFICES ASSUME Init PROVE CapInv
    OBVIOUS
<1>1. (\A s : ActiveOf(s) = {}) /\ (\A d : ActiveIn(d) = {}) /\ pc = "finish"
    BY DEF Init, ActiveOf, ActiveIn, PendingOf, BatchActive
<1>2. Cardinality({}) = 0
    BY FS_EmptySet
<1> QED BY <1>1, <1>2, PlanType DEF CapInv

LEMMA CapStep == TypeOK /\ CapInv /\ [Next]_vars => CapInv'
<1> SUFFICES ASSUME TypeOK, CapInv, [Next]_vars PROVE CapInv'
    OBVIOUS
<1>1. CASE Quiet
    <2>1. ActiveKept
        BY <1>1, QuietShrinks DEF Quiet
    <2> QED BY <1>1, <2>1, CapShrinks DEF Quiet, PlanQuiet
<1>2. CASE RefillStarts
    <2>1. /\ \A s : ActiveOf(s)' = ActiveOf(s)
          /\ \A d : ActiveIn(d)' = ActiveIn(d)
        BY <1>2 DEF RefillStarts, ActiveOf, ActiveIn, PendingOf
    <2>2. /\ \A s \in Services : plan'.service_batches[s] = Cardinality(ActiveOf(s)')
          /\ \A d \in Domains : plan'.domain_batches[d] = Cardinality(ActiveIn(d)')
        BY <1>2, <2>1 DEF RefillStarts
    <2>3. /\ \A s : Cardinality(ActiveOf(s)') \in Nat
          /\ \A d : Cardinality(ActiveIn(d)') \in Nat
        BY <2>1, ActiveFinite
    <2>4. /\ \A s \in Services : Cardinality(ActiveOf(s)') <= plan'.service_batches[s]
          /\ \A d \in Domains : Cardinality(ActiveIn(d)') <= plan'.domain_batches[d]
        BY <2>2, <2>3
    <2>5. /\ pc' = "exclusive" => ~resident'
          /\ resident' = resident
        BY <1>2 DEF RefillStarts
    <2>6. resident' => \A s \in Services :
            /\ Plan[s].service_batches > 0 => Cardinality(ActiveOf(s)') <= Plan[s].service_batches
            /\ Uniform(s) => Cardinality(ActiveIn(Plan[s].domain)') <= Plan[s].domain_batches
        BY <2>1, <2>5 DEF CapInv
    <2> QED BY <2>4, <2>5, <2>6 DEF CapInv, Uniform
<1>3. CASE ExclusiveFills
    BY <1>3 DEF ExclusiveFills, CapInv
<1>4. CASE pending' = [id \in Cohorts |-> None] /\ PlanQuiet
    <2>1. ActiveKept
        BY <1>4, QuietShrinks DEF SlotQuiet
    <2> QED BY <1>4, <2>1, CapShrinks DEF PlanQuiet
<1> QED BY <1>1, <1>2, <1>3, <1>4, CapFills, StepKinds

LEMMA StreamsInit == Init => StreamsRoll
BY DEF Init, StreamsRoll, Occupied

LEMMA StreamsStep == TypeOK /\ StreamsRoll /\ [Next]_vars => StreamsRoll'
<1> SUFFICES ASSUME TypeOK, StreamsRoll, [Next]_vars, NEW id \in Cohorts, pending'[id] # None
             PROVE  pending'[id].rolling \/ pending'[id].run # "stream"
    BY DEF StreamsRoll, Occupied
<1>1. CASE SlotQuiet(id)
    BY <1>1 DEF SlotQuiet, Keeps, StreamsRoll, Occupied
<1>2. ASSUME NEW s, NEW T, NEW rolling, SlotFilled(s, T, rolling)
      PROVE  SlotQuiet(id) \/ pending'[id].run = None
    <2>1. NewCohort(s, T, rolling).run = None
        BY DEF NewCohort
    <2> QED BY <1>2, <2>1 DEF SlotFilled, SlotQuiet
<1>3. None # "stream"
    BY NoneIsNull DEF RunModes
<1>4. SlotQuiet(id) \/ pending'[id].run = None
    <2>1. CASE Quiet \/ RefillStarts \/ pending' = [j \in Cohorts |-> None]
        BY <2>1 DEF Quiet, RefillStarts, SlotQuiet
    <2>2. CASE ExclusiveFills
        BY <1>2, <2>2 DEF ExclusiveFills
    <2>3. ASSUME NEW s \in Services, ResidentFills(s)
          PROVE  SlotQuiet(id) \/ pending'[id].run = None
        BY <1>2, <2>3 DEF ResidentFills
    <2> QED BY <2>1, <2>2, <2>3, StepKinds
<1> QED BY <1>1, <1>3, <1>4

(* What executes is counted: it still executes what it started with, which  *)
(* is unfinished, or it rolls. *)
LEMMA ExecutingActive ==
    ASSUME CohortInv, StreamsRoll, NEW id \in Cohorts, Executing(id)
    PROVE  BatchActive(pending[id])
<1>1. id \in Occupied /\ pending[id] # None /\ pending[id].live # {}
    BY DEF Executing, Occupied
<1>2. CASE pending[id].rolling
    BY <1>1, <1>2 DEF BatchActive
<1>3. CASE pending[id].run # "stream"
    <2>1. PICK c \in pending[id].live : c \in pending[id].claims
        BY <1>1, <1>3 DEF CohortInv, KeepInv, KeepAt, Phases
    <2>2. c.r \in pending[id].unfinished
        BY <1>1, <2>1 DEF CohortInv, KeepInv, KeepAt, StartedOnce
    <2> QED BY <1>1, <2>2 DEF BatchActive
<1> QED BY <1>1, <1>2, <1>3 DEF StreamsRoll

(* With DS4_API_RESIDENT_MULTIMODEL no more cohorts of a service, or of a   *)
(* domain whose services share a limit, execute than                        *)
(* max_running_batches_per_service and _per_compute_domain allow, although  *)
(* cohorts and refills of rolling ones go on while the dispatcher counts    *)
(* (_resident_service_limit_reached, _resident_compute_domain_limit_reached).*)
THEOREM BatchesCapped == Spec => []BatchCaps
<1>1. ASSUME CohortInv, StreamsRoll, CapInv PROVE BatchCaps
    <2>1. ASSUME NEW s \in Services
          PROVE  /\ Cardinality({id \in PendingOf(s) : Executing(id)}) <= Cardinality(ActiveOf(s))
                 /\ Cardinality({id \in PendingOf(s) : Executing(id)}) \in Nat
                 /\ Cardinality(ActiveOf(s)) \in Nat
        <3>1. {id \in PendingOf(s) : Executing(id)} \in SUBSET ActiveOf(s)
            BY <1>1, ExecutingActive DEF ActiveOf, PendingOf
        <3> QED BY <3>1, ActiveFinite, Fewer
    <2>2. ASSUME NEW d
          PROVE  LET S == {id \in Cohorts : Executing(id) /\ Plan[pending[id].service].domain = d}
                 IN  /\ Cardinality(S) <= Cardinality(ActiveIn(d))
                     /\ Cardinality(S) \in Nat /\ Cardinality(ActiveIn(d)) \in Nat
        <3> DEFINE S == {id \in Cohorts : Executing(id) /\ Plan[pending[id].service].domain = d}
        <3>1. S \in SUBSET ActiveIn(d)
            BY <1>1, ExecutingActive DEF ActiveIn
        <3> QED BY <3>1, ActiveFinite, Fewer
    <2>3. \A s \in Services : Plan[s].service_batches \in Nat /\ Plan[s].domain_batches \in Nat
        BY PlanType
    <2>4. ASSUME resident, NEW s \in Services, Plan[s].service_batches > 0
          PROVE  Cardinality({id \in PendingOf(s) : Executing(id)}) <= Plan[s].service_batches
        <3>1. Cardinality(ActiveOf(s)) <= Plan[s].service_batches
            BY <1>1, <2>4 DEF CapInv
        <3> QED BY <2>1, <2>3, <3>1
    <2>5. ASSUME resident, NEW s \in Services, Uniform(s)
          PROVE  Cardinality({id \in Cohorts : /\ Executing(id)
                                               /\ Plan[pending[id].service].domain = Plan[s].domain})
                    <= Plan[s].domain_batches
        <3>1. Cardinality(ActiveIn(Plan[s].domain)) <= Plan[s].domain_batches
            BY <1>1, <2>5 DEF CapInv
        <3> QED BY <2>2, <2>3, <3>1
    <2> QED BY <2>4, <2>5 DEF BatchCaps, Uniform
<1>2. CohortInv /\ StreamsRoll /\ CapInv => BatchCaps
    BY <1>1
<1>3. CohortInv => TypeOK
    BY DEF CohortInv
<1> QED BY <1>2, <1>3, CohortInvInit, CohortInvStep, StreamsInit, StreamsStep, CapInit, CapStep,
           PTL DEF Spec
=============================================================================
