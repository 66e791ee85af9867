---------------------------- MODULE KvDirective ----------------------------
(***************************************************************************)
(* KV cache directives of requests (kv_cache.py): a directive is made into *)
(* a plan when a request is read, maybe more than once on its way (CLI,    *)
(* API, batch file), is checked before queueing, and requests with the     *)
(* same batch key may run in one cohort.  A bundle is the letter it holds; *)
(* its digest tells it from every other.  Names, media types and           *)
(* fingerprints are one field, `who`.                                      *)
(***************************************************************************)
EXTENDS Integers, Sequences, FiniteSets

CONSTANTS Directives,      \* records, see Endpoint in the MC module
          PrefixFiles,     \* contents the prefix file of a kv_cache_ref takes
          KvRequests, MaxPlanBytes

ASSUME DirectiveAssumption ==  \* a load names its transport
    /\ PrefixFiles # {}
    /\ \A d \in Directives : d.load.mode # "skip" => d.load.transport \in {"inline", "request_blob", "remote_uri", "local_store"}

VARIABLES request,         \* per request: its input as it stands
          prefixFile,      \* what the file of the kv_cache_ref holds now
          acceptedKv           \* requests that were accepted, with the input

directiveVars == <<request, prefixFile, acceptedKv>>

Absent == "none"
NoPlan == [operation |-> Absent]
Skip == [mode |-> "skip", transport |-> Absent]
Raise == [mode |-> "raise"]

(* _normalize_endpoint.  Sizes are checked where they are claimed, the      *)
(* digest of an inline bundle against its data; other loads must name one.  *)
LimitOf(e) == IF e.limit > 0 THEN e.limit ELSE MaxPlanBytes
EndpointAccepted(e, load) ==
    /\ e.transport \in {"inline", "request_blob"} =>
          load /\ e.bytes >= 0 /\ e.bytes <= LimitOf(e) /\ e.sha # Absent
    /\ e.transport = "inline" => e.data # Absent /\ e.size = e.bytes /\ e.size <= LimitOf(e) /\ e.sha = e.data
    /\ e.transport = "remote_uri" => e.bytes <= LimitOf(e)
    /\ e.transport \in {"remote_uri", "local_store"} /\ load => e.sha # Absent

(* _normalize_load, _normalize_store.                                       *)
Normalized(e, load) ==
    IF e.mode = "skip" THEN Skip
    ELSE IF ~EndpointAccepted(e, load) THEN Raise
    ELSE [mode |-> e.mode, transport |-> e.transport, bytes |-> e.bytes, sha |-> e.sha,
          data |-> IF e.transport = "inline" THEN e.data ELSE Absent]

DefaultMissPolicy(load, store) ==
    IF load = "require" THEN "fail" ELSE IF load # "skip" THEN "compute"
    ELSE IF store # "skip" THEN "compute_and_store" ELSE "compute"
Operation(load, store) ==
    IF load # "skip" /\ store # "skip" THEN "load_store" ELSE IF load # "skip" THEN "load" ELSE "store"

(* normalize_kv_cache_directive *)
DirectiveAccepted(d) ==
    LET load == Normalized(d.load, TRUE) store == Normalized(d.store, FALSE) IN
    d.who # Absent /\ load # Raise /\ store # Raise /\ ~(load = Skip /\ store = Skip)
Normalize(d) ==
    LET load == Normalized(d.load, TRUE) store == Normalized(d.store, FALSE) IN
    [operation |-> Operation(load.mode, store.mode), who |-> d.who, load |-> load, store |-> store,
     miss |-> IF d.miss # Absent THEN d.miss ELSE DefaultMissPolicy(load.mode, store.mode),
     affinity |-> IF d.affinity # Absent THEN d.affinity ELSE IF load.transport = "local_store" THEN "required" ELSE "none"]
BatchKey(plan) ==
    IF plan = NoPlan THEN NoPlan
    ELSE [plan EXCEPT !.load = [k \in DOMAIN plan.load \ {"data"} |-> plan.load[k]]]

(* _resolve_prefix_cache_ref: the file must have the digest of the ref and  *)
(* agree with what the input has already.                                   *)
PrefixAccepted(req) ==
    req.ref = Absent \/ (prefixFile = req.ref /\ req.prefix \in {Absent, prefixFile} /\ req.prefixHash \in {Absent, req.ref})
(* Mutation: a plan of an earlier resolution is taken for a conflict. *)
PlanAcceptedOnce(req) == req.directive = NoPlan \/ (DirectiveAccepted(req.directive) /\ req.plan = NoPlan)

PlanAccepted(req) ==
    req.directive = NoPlan \/ (DirectiveAccepted(req.directive) /\ req.plan \in {NoPlan, Normalize(req.directive)})

DirectiveTypeOK ==
    /\ prefixFile \in PrefixFiles
    /\ \A r \in KvRequests : request[r].state \in {"raw", "resolved", "refused", "queued"}
    /\ DOMAIN acceptedKv \subseteq KvRequests

RawInput(d, ref) ==
    [state |-> "raw", directive |-> d, plan |-> NoPlan, ref |-> ref, prefix |-> Absent, prefixHash |-> Absent]
DirectiveStart(d, ref, f) ==
    /\ request = [r \in KvRequests |-> RawInput(d[r], ref[r])]
    /\ prefixFile = f /\ acceptedKv = <<>>
DirectiveInit ==
    \E d \in [KvRequests -> Directives \cup {NoPlan}], ref \in [KvRequests -> PrefixFiles \cup {Absent}], f \in PrefixFiles :
        DirectiveStart(d, ref, f)

(* resolve_request_cache_refs, which may find its own results in the input. *)
ResolveCacheRefs(r) ==
    LET req == request[r] IN
    /\ req.state \in {"raw", "resolved"}
    /\ request' = [request EXCEPT ![r] =
          IF ~PrefixAccepted(req) \/ ~PlanAccepted(req) THEN [req EXCEPT !.state = "refused"]
          ELSE [req EXCEPT !.state = "resolved",
                          !.plan = IF req.directive = NoPlan THEN @ ELSE Normalize(req.directive),
                          !.prefix = IF req.ref = Absent THEN @ ELSE prefixFile,
                          !.prefixHash = IF req.ref = Absent THEN @ ELSE req.ref]]
    /\ UNCHANGED <<prefixFile, acceptedKv>>

(* ensure_cache_refs_resolved at submission.                                *)
Queueable(req) == (req.ref # Absent => req.prefix # Absent /\ req.prefixHash # Absent) /\ (req.directive # NoPlan => req.plan # NoPlan)
QueueRequest(r) ==
    LET req == request[r] IN
    /\ req.state \in {"raw", "resolved"} /\ Queueable(req)
    /\ acceptedKv' = [q \in DOMAIN acceptedKv \cup {r} |-> IF q = r THEN req ELSE acceptedKv[q]]
    /\ request' = [request EXCEPT ![r].state = "queued"] /\ UNCHANGED prefixFile

(* A client reuses the input of a request with another directive; the file  *)
(* of a ref is written anew.                                                *)
ChangeDirective(r, d) ==
    /\ request[r].state = "resolved" /\ request[r].directive # d
    /\ request' = [request EXCEPT ![r].directive = d] /\ UNCHANGED <<prefixFile, acceptedKv>>
RewritePrefixFile(f) ==
    /\ f # prefixFile /\ prefixFile' = f /\ UNCHANGED <<request, acceptedKv>>

DirectiveNext ==
    \/ \E r \in KvRequests : ResolveCacheRefs(r) \/ QueueRequest(r) \/ \E d \in Directives : ChangeDirective(r, d)
    \/ \E f \in PrefixFiles : RewritePrefixFile(f)

-----------------------------------------------------------------------------
(* Requests that share a batch key load the same bundle from the same place *)
(* and do the same on a miss, although the data of an inline bundle is left *)
(* out of the key (_batch_key_material; the digest was checked against the  *)
(* data).                                                                   *)
CohortLoadsAlike ==
    \A r, q \in DOMAIN acceptedKv :
        BatchKey(acceptedKv[r].plan) = BatchKey(acceptedKv[q].plan) => acceptedKv[r].plan = acceptedKv[q].plan

(* What is queued can be checked when it is used: a load has its digest     *)
(* whatever its transport, and the prefix is the one the ref names even if  *)
(* the file changed between two resolutions (_resolve_prefix_cache_ref).    *)
QueuedVerifiable ==
    \A r \in DOMAIN acceptedKv :
        LET req == acceptedKv[r] IN
        /\ req.plan # NoPlan /\ req.plan.load # Skip => req.plan.load.sha # Absent
        /\ req.ref # Absent => req.prefix = req.ref /\ req.prefixHash = req.ref

(* Resolving again changes nothing: a resolved request is refused only for  *)
(* a directive or a file that changed since.                                *)
ResolveIdempotent ==
    [][\A r \in KvRequests :
          LET req == request[r] IN
          req.state = "resolved" /\ req.directive \in {NoPlan} \cup {d \in Directives : DirectiveAccepted(d) /\ Normalize(d) = req.plan}
          /\ (req.ref # Absent => prefixFile = req.ref)
          => request'[r].state # "refused" /\ request'[r].plan = req.plan]_directiveVars
=============================================================================
