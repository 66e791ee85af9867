------------------------------ MODULE Governor ------------------------------
(***************************************************************************)
(* The resource governor of the dispatcher (resource_governor.py) and the  *)
(* memory trim tried when it says no (dispatcher_memory.py, api.py).  The  *)
(* dispatcher thread asks it before each refill; /health and the           *)
(* dispatcher status refresh its sample from HTTP threads, without a lock. *)
(* Times are what is left of them, or how long ago they were, in ticks.    *)
(***************************************************************************)
EXTENDS Integers, FiniteSets

CONSTANTS PollTicks,     \* poll_s
          StepTicks,     \* throttle_step_s
          MaxThrottle,   \* throttle_max_s
          TrimTicks,     \* cooldown of the trim
          TrimEnabled    \* trim_on_host_memory_pressure

ASSUME GovernorAssumption ==
    /\ PollTicks \in Nat \ {0} /\ StepTicks \in Nat \ {0}
    /\ MaxThrottle \in Nat \ {0} /\ TrimTicks \in Nat
    /\ TrimEnabled \in BOOLEAN

VARIABLES heat,       \* what a sample of the nodes would report: throttle reasons
          busy,       \* requests of the dispatcher are in flight
          sampleAge,  \* ticks since _last_sample_at, PollTicks when stale, or Never
          reasons,    \* throttle_reasons of _last_status
          cooldown,   \* what is left of _cooldown_until
          trimAge,    \* ticks since the last trim, at most TrimTicks
          refresh,    \* a status refresh in an HTTP thread
          verdict     \* the dispatcher's last decision, and the wait it owes

governorVars == <<heat, busy, sampleAge, reasons, cooldown, trimAge, refresh, verdict>>

Heats == {{}, {"power_soft"}, {"host_memory_soft"}, {"temp_hard"}, {"host_memory_hard", "power_soft"}}
HardReasons == {"temp_hard", "power_hard", "total_power_hard", "host_memory_hard"}
MemoryReasons == {"host_memory_soft", "host_memory_hard"}
Never == PollTicks + 1
Least(a, b) == IF a < b THEN a ELSE b
NoRefresh == [pc |-> "idle", age |-> 0, seen |-> {}]

GovernorTypeOK ==
    /\ heat \in Heats /\ reasons \in Heats
    /\ busy \in BOOLEAN
    /\ sampleAge \in 0..Never
    /\ cooldown \in 0..MaxThrottle
    /\ trimAge \in 0..TrimTicks
    /\ refresh \in [pc : {"idle", "sampling", "stamped"}, age : 0..PollTicks, seen : Heats]
    /\ verdict \in [allow : BOOLEAN, owed : 0..MaxThrottle]

GovernorInit ==
    /\ heat = {} /\ busy = FALSE
    /\ sampleAge = Never /\ reasons = {}
    /\ cooldown = 0 /\ trimAge = TrimTicks
    /\ refresh = NoRefresh
    /\ verdict = [allow |-> FALSE, owed |-> 0]

(* Mutation: a sample costs waiting time even when nothing is wrong. *)
SleepForAny(rs) == IF rs \cap HardReasons # {} THEN 2 ELSE StepTicks

(* _sleep_for_status *)
SleepFor(rs) ==
    IF rs = {} THEN 0
    ELSE Least(MaxThrottle, StepTicks * (IF rs \cap HardReasons # {} THEN 2 ELSE 1))

(* before_refill, from the governor's own fields to the decision and the    *)
(* fields it leaves; a sample reports what the nodes say, h.                *)
BeforeRefill(g, h) ==
    IF g.cooldown > 0
    THEN [g EXCEPT !.allow = FALSE]
    ELSE IF g.reasons = {} /\ g.age < PollTicks
    THEN [g EXCEPT !.allow = TRUE]
    ELSE [age |-> 0, reasons |-> h, cooldown |-> SleepFor(h), allow |-> SleepFor(h) = 0]

(* try_trim_host_memory: only for memory pressure, with nothing in flight   *)
(* and not again within its cooldown.                                       *)
MayTrim(rs) ==
    /\ TrimEnabled
    /\ rs \cap MemoryReasons # {}
    /\ ~busy
    /\ trimAge = TrimTicks

(* A trim that worked: forget cooldown and sample, ask again.               *)
Remediated(g) == [g EXCEPT !.cooldown = 0, !.age = Never]

Decide(g) ==
    /\ sampleAge' = g.age /\ reasons' = g.reasons /\ cooldown' = g.cooldown
    /\ verdict' = [allow |-> g.allow, owed |-> IF g.allow THEN 0 ELSE g.cooldown]

(* _dispatcher_resource_allows_refill: ask, trim if that may help, ask      *)
(* again; h is what the nodes report after a trim that freed memory.        *)
GovAsk ==
    LET g == BeforeRefill([age |-> sampleAge, reasons |-> reasons, cooldown |-> cooldown, allow |-> FALSE], heat) IN
    /\ \/ /\ g.allow \/ ~MayTrim(g.reasons)
          /\ Decide(g)
          /\ UNCHANGED <<heat, trimAge>>
       \/ /\ ~g.allow /\ MayTrim(g.reasons)
          /\ trimAge' = 0
          /\ \/ /\ Decide(g)                        \* a service did not trim
                /\ UNCHANGED heat
             \/ \E h \in {heat, heat \ MemoryReasons} \cap Heats :
                   /\ heat' = h
                   /\ Decide(BeforeRefill(Remediated(g), h))
    /\ UNCHANGED <<busy, refresh>>

(* status(refresh=True): stale samples only, and never before the first.    *)
(* The time is taken, the nodes are sampled, and then the time and the      *)
(* status are stored one after the other.                                   *)
RefreshStart ==
    /\ refresh.pc = "idle"
    /\ sampleAge = PollTicks
    /\ refresh' = [pc |-> "sampling", age |-> 0, seen |-> heat]
    /\ UNCHANGED <<heat, busy, sampleAge, reasons, cooldown, trimAge, verdict>>

RefreshStamp ==
    /\ refresh.pc = "sampling"
    /\ sampleAge' = refresh.age
    /\ refresh' = [refresh EXCEPT !.pc = "stamped"]
    /\ UNCHANGED <<heat, busy, reasons, cooldown, trimAge, verdict>>

RefreshStore ==
    /\ refresh.pc = "stamped"
    /\ reasons' = refresh.seen
    /\ refresh' = NoRefresh
    /\ UNCHANGED <<heat, busy, sampleAge, cooldown, trimAge, verdict>>

(* Time, and the machines.                                                  *)
GovTick ==
    /\ sampleAge' = IF sampleAge >= PollTicks THEN sampleAge ELSE sampleAge + 1
    /\ trimAge' = Least(trimAge + 1, TrimTicks)
    /\ cooldown' = IF cooldown = 0 THEN 0 ELSE cooldown - 1
    /\ verdict' = [verdict EXCEPT !.owed = IF @ = 0 THEN 0 ELSE @ - 1]
    /\ refresh' = [refresh EXCEPT !.age = IF refresh.pc = "idle" THEN 0 ELSE Least(@ + 1, PollTicks)]
    /\ UNCHANGED <<heat, busy, reasons>>

GovLoad ==
    /\ \/ heat' \in Heats /\ UNCHANGED busy
       \/ busy' = ~busy /\ UNCHANGED heat
    /\ UNCHANGED <<sampleAge, reasons, cooldown, trimAge, refresh, verdict>>

GovernorNext == GovAsk \/ RefreshStart \/ RefreshStamp \/ RefreshStore \/ GovTick \/ GovLoad

-----------------------------------------------------------------------------
(* What a hot sample has earned in waiting time is waited: the dispatcher   *)
(* refills before it is over only after a trim, whatever status refreshes   *)
(* store in between (before_refill, force_resample_after_remediation).      *)
ThrottleServed ==
    [][GovAsk /\ verdict'.allow /\ verdict.owed > 0 => trimAge' = 0]_governorVars

(* Throttling ends: machines that stay cool get work again, although        *)
(* refreshes may still store what they sampled while it was hot.            *)
CoolRefills == []<>(verdict.allow) \/ []<>(heat # {})
=============================================================================
