------------------------------- MODULE JitKv -------------------------------
(***************************************************************************)
(* Prefetch of a common KV prefix before a cohort is dispatched and the    *)
(* circuit breaker over it (jit_kv.py, runners.py).  Cohort threads share  *)
(* the breaker and the set of endpoints that said they are disabled.       *)
(* A sample keeps its age; openFor is what is left of open_until.          *)
(***************************************************************************)
EXTENDS Integers, Sequences, FiniteSets, SequencesExt

CONSTANTS CohortThreads, WindowTicks, MinSamples, CooldownTicks,
          MaxSamples     \* bound: samples the model keeps

ASSUME CircuitAssumption ==
    /\ WindowTicks \in Nat \ {0} /\ MinSamples \in Nat \ {0}
    /\ CooldownTicks \in Nat \ {0} /\ MaxSamples \in Nat

VARIABLES samples,   \* _samples, oldest first
          openFor,   \* what is left of open_until
          endpoint,  \* in _DISABLED_PREFETCH_ENDPOINTS or not
          prestage   \* what each thread does

circuitVars == <<samples, openFor, endpoint, prestage>>

(* strict: the plan demands the load; auto: a prestage that may be skipped. *)
PrestageKinds == {"strict", "auto"}
Idle == [pc |-> "idle", kind |-> "auto", kv |-> FALSE, fetched |-> FALSE]

CircuitTypeOK ==
    /\ samples \in Seq([age : 0..WindowTicks + 1, ok : BOOLEAN])
    /\ openFor \in 0..CooldownTicks
    /\ endpoint \in {"enabled", "disabled"}
    /\ prestage \in [CohortThreads -> [pc : {"idle", "posting", "sent", "raised"}, kind : PrestageKinds,
                                     kv : BOOLEAN, fetched : BOOLEAN]]

CircuitInit ==
    /\ samples = <<>> /\ openFor = 0 /\ endpoint = "enabled"
    /\ prestage = [t \in CohortThreads |-> Idle]

AllowPrefetch == openFor = 0

(* _failure_ratio against the default 0.5 *)
FailureRatioReached(s) ==
    2 * Cardinality({i \in DOMAIN s : ~s[i].ok}) >= Len(s)

(* _record: append, prune, and open when enough of the window failed. The   *)
(* test does not ask whether this sample was a failure.                     *)
Record(ok) ==
    LET s == SelectSeq(Append(samples, [age |-> 0, ok |-> ok]), LAMBDA x : x.age <= WindowTicks) IN
    /\ samples' = s
    /\ openFor' = IF Len(s) >= MinSamples /\ FailureRatioReached(s) THEN CooldownTicks ELSE openFor

Sent(t, kv, fetched) ==
    prestage' = [prestage EXCEPT ![t] = [pc |-> "sent", kind |-> @.kind, kv |-> kv, fetched |-> fetched]]
Raised(t) == prestage' = [prestage EXCEPT ![t].pc = "raised"]

(* disable_strict_kv and dispatch without the prefix: what a strict plan    *)
(* put into the payload is taken out, an auto plan was never in it.         *)
ColdDispatch(t) == Sent(t, FALSE, FALSE)

(* _maybe_prestage_common_kv_prefix up to the post                          *)
Prestage(t, k) ==
    /\ prestage[t].pc = "idle"
    /\ \/ /\ ~AllowPrefetch
          /\ prestage' = [prestage EXCEPT ![t] = [pc |-> "sent", kind |-> k, kv |-> FALSE, fetched |-> FALSE]]
       \/ /\ AllowPrefetch /\ endpoint = "disabled"
          /\ prestage' = [prestage EXCEPT ![t] = [pc |-> IF k = "auto" THEN "sent" ELSE "raised",
                                              kind |-> k, kv |-> FALSE, fetched |-> FALSE]]
       \/ /\ AllowPrefetch /\ endpoint = "enabled"
          /\ prestage' = [prestage EXCEPT ![t] = [pc |-> "posting", kind |-> k, kv |-> k = "strict", fetched |-> FALSE]]
    /\ UNCHANGED <<samples, openFor, endpoint>>

(* The answers of the endpoint. Disabled and unavailable ones (timeouts,    *)
(* 429) are no samples of the circuit.                                      *)
PrefetchOk(t) ==
    /\ prestage[t].pc = "posting" /\ Len(samples) < MaxSamples
    /\ Record(TRUE)
    /\ Sent(t, TRUE, TRUE)
    /\ UNCHANGED endpoint

PrefetchRefused(t) ==
    /\ prestage[t].pc = "posting"
    /\ endpoint' \in {endpoint, "disabled"}
    /\ IF prestage[t].kind = "auto" THEN ColdDispatch(t) ELSE Raised(t)
    /\ UNCHANGED <<samples, openFor>>

PrefetchFailed(t) ==
    /\ prestage[t].pc = "posting" /\ Len(samples) < MaxSamples
    /\ Record(FALSE)
    /\ IF prestage[t].kind = "auto" \/ openFor' > 0 THEN ColdDispatch(t) ELSE Raised(t)
    /\ UNCHANGED endpoint

CohortEnds(t) ==
    /\ prestage[t].pc \in {"sent", "raised"}
    /\ prestage' = [prestage EXCEPT ![t] = Idle]
    /\ UNCHANGED <<samples, openFor, endpoint>>

CircuitTick ==
    /\ openFor' = IF openFor = 0 THEN 0 ELSE openFor - 1
    /\ samples' = [i \in DOMAIN samples |-> [samples[i] EXCEPT !.age = IF @ > WindowTicks THEN @ ELSE @ + 1]]
    /\ UNCHANGED <<endpoint, prestage>>

(* status() prunes what has left the window as well.                        *)
InWindow(x) == x.age <= WindowTicks
CircuitPrune ==
    /\ \E i \in DOMAIN samples : ~InWindow(samples[i])
    /\ samples' = SelectSeq(samples, InWindow)
    /\ UNCHANGED <<openFor, endpoint, prestage>>

CircuitNext ==
    \/ \E t \in CohortThreads :
          \/ \E k \in PrestageKinds : Prestage(t, k)
          \/ PrefetchOk(t) \/ PrefetchRefused(t) \/ PrefetchFailed(t) \/ CohortEnds(t)
    \/ CircuitTick \/ CircuitPrune

-----------------------------------------------------------------------------
(* A batch that carries KV transfer parameters was prefetched; one that     *)
(* goes out cold carries none, so vLLM does not wait for a load nobody      *)
(* staged (run_prefetch, disable_strict_kv).                                *)
KvOnlyIfFetched == \A t \in CohortThreads : prestage[t].pc = "sent" => (prestage[t].kv <=> prestage[t].fetched)

(* An open circuit closes again: prefetches that were under way when it     *)
(* opened extend it with each late result, successes among old failures     *)
(* too, but nothing new starts while it is open (allow_prefetch, _record).  *)
CircuitCloses == (openFor > 0) ~> (openFor = 0)
=============================================================================
