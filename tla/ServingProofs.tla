---------------------------- MODULE ServingProofs ----------------------------
(***************************************************************************)
(* Proofs about what serves one caller: the KV directives of a request,    *)
(* the direct and the service path of a Spark's rows, the agent, the       *)
(* stream an API client reads and the member of a batch it is read for.    *)
(***************************************************************************)
EXTENDS PartsProofs

(* KV directives.  Every plan is what an accepted directive normalizes to;  *)
(* a prefix that is known is that of the ref.                               *)
AcceptedDirectives == {d \in Directives : DirectiveAccepted(d)}
Plans == {NoPlan} \cup {Normalize(d) : d \in AcceptedDirectives}
Refs == PrefixFiles \cup {Absent}
InputRows ==
    [state : {"raw", "resolved", "refused", "queued"}, directive : Directives \cup {NoPlan}, plan : Plans,
     ref : Refs, prefix : Refs, prefixHash : Refs]
PrefixKnown(req) == req.prefix # Absent \/ req.state = "resolved" => req.prefix = req.ref /\ (req.ref # Absent => req.prefixHash = req.ref)
DirectiveInv ==
    /\ request \in [KvRequests -> InputRows] /\ prefixFile \in PrefixFiles
    /\ \A r \in KvRequests : PrefixKnown(request[r])
    /\ \A r \in DOMAIN acceptedKv : acceptedKv[r].plan \in Plans
    /\ QueuedVerifiable

(* What a load that is not skipped is made of. *)
LoadOf(mode, transport, bytes, sha) ==
    [mode |-> mode, transport |-> transport, bytes |-> bytes, sha |-> sha,
     data |-> IF transport = "inline" THEN sha ELSE Absent]

IsLoad(x) == x = Skip \/ \E mode, transport, bytes, sha : sha # Absent /\ x = LoadOf(mode, transport, bytes, sha)

LEMMA LoadNormalized ==
    ASSUME NEW d \in AcceptedDirectives
    PROVE  /\ Normalize(d).load = Normalized(d.load, TRUE)
           /\ IsLoad(Normalize(d).load)
<1> DEFINE e == d.load
<1>1. Normalize(d).load = Normalized(e, TRUE)
    BY DEF Normalize
<1>2. Normalized(e, TRUE) # Raise
    BY DEF AcceptedDirectives, DirectiveAccepted
<1>3. CASE e.mode = "skip"
    BY <1>1, <1>3 DEF Normalized, IsLoad
<1>4. CASE e.mode # "skip"
    <2>1. EndpointAccepted(e, TRUE)
        BY <1>2, <1>4 DEF Normalized
    <2>2. e.transport \in {"inline", "request_blob", "remote_uri", "local_store"}
        BY <1>4, DirectiveAssumption DEF AcceptedDirectives
    <2>3. e.sha # Absent /\ (e.transport = "inline" => e.sha = e.data)
        BY <2>1, <2>2 DEF EndpointAccepted
    <2>4. Normalized(e, TRUE) = LoadOf(e.mode, e.transport, e.bytes, e.sha)
        BY <1>4, <2>1, <2>3 DEF Normalized, LoadOf
    <2> QED BY <1>1, <2>3, <2>4 DEF IsLoad
<1> QED BY <1>1, <1>3, <1>4

(* The key leaves out the data of a bundle, which its digest stands for.    *)
KeyOfLoad(load) == [k \in DOMAIN load \ {"data"} |-> load[k]]
LEMMA LoadOfShape ==
    ASSUME NEW mode, NEW transport, NEW bytes, NEW sha, NEW a, a = LoadOf(mode, transport, bytes, sha)
    PROVE  /\ DOMAIN a = {"mode", "transport", "bytes", "sha", "data"}
           /\ a["mode"] = mode /\ a["transport"] = transport /\ a["bytes"] = bytes /\ a["sha"] = sha
BY DEF LoadOf

LEMMA KeyOfLoadTells ==
    ASSUME NEW a, NEW b,
           a = Skip \/ \E mode, transport, bytes, sha : a = LoadOf(mode, transport, bytes, sha),
           b = Skip \/ \E mode, transport, bytes, sha : b = LoadOf(mode, transport, bytes, sha),
           KeyOfLoad(a) = KeyOfLoad(b)
    PROVE  a = b
<1>1. DOMAIN a \ {"data"} = DOMAIN b \ {"data"}
    BY DEF KeyOfLoad
<1>2. \A k \in DOMAIN a \ {"data"} : a[k] = b[k]
    BY <1>1 DEF KeyOfLoad
<1>3. DOMAIN Skip = {"mode", "transport"}
    BY DEF Skip
<1>4. CASE a # Skip /\ b # Skip
    <2>1. PICK mode, transport, bytes, sha : a = LoadOf(mode, transport, bytes, sha)
        BY <1>4
    <2>2. PICK mode2, transport2, bytes2, sha2 : b = LoadOf(mode2, transport2, bytes2, sha2)
        BY <1>4
    <2>3. /\ DOMAIN a = {"mode", "transport", "bytes", "sha", "data"}
          /\ a["mode"] = mode /\ a["transport"] = transport /\ a["bytes"] = bytes /\ a["sha"] = sha
        BY <2>1, LoadOfShape
    <2>4. /\ b["mode"] = mode2 /\ b["transport"] = transport2 /\ b["bytes"] = bytes2 /\ b["sha"] = sha2
        BY <2>2, LoadOfShape
    <2>5. mode = mode2 /\ transport = transport2 /\ bytes = bytes2 /\ sha = sha2
        BY <1>2, <2>3, <2>4
    <2> QED BY <2>1, <2>2, <2>5
<1>5. ASSUME NEW x, NEW y, x = Skip, y # Skip, DOMAIN x \ {"data"} = DOMAIN y \ {"data"},
             \E mode, transport, bytes, sha : y = LoadOf(mode, transport, bytes, sha)
      PROVE  FALSE
    <2>1. PICK mode, transport, bytes, sha : y = LoadOf(mode, transport, bytes, sha)
        BY <1>5
    <2>2. DOMAIN y = {"mode", "transport", "bytes", "sha", "data"}
        BY <2>1, LoadOfShape
    <2>3. "sha" \in DOMAIN x \ {"data"}
        BY <1>5, <2>2
    <2> QED BY <1>3, <1>5, <2>3
<1> QED BY <1>1, <1>4, <1>5

PlanRecord(o, w, l, s, m, a) == [operation |-> o, who |-> w, load |-> l, store |-> s, miss |-> m, affinity |-> a]
LEMMA PlanRecordTells ==
    ASSUME NEW o, NEW w, NEW l, NEW s, NEW m, NEW a, NEW o2, NEW w2, NEW l2, NEW s2, NEW m2, NEW a2
    PROVE  /\ PlanRecord(o, w, l, s, m, a) = PlanRecord(o2, w2, l2, s2, m2, a2) =>
                  o = o2 /\ w = w2 /\ l = l2 /\ s = s2 /\ m = m2 /\ a = a2
           /\ [PlanRecord(o, w, l, s, m, a) EXCEPT !.load = l2] = PlanRecord(o, w, l2, s, m, a)
           /\ PlanRecord(o, w, l, s, m, a).load = l
BY DEF PlanRecord

LEMMA PlanShape ==
    ASSUME NEW p, NEW d, p = Normalize(d)
    PROVE  \E o, w, s, m, a : p = PlanRecord(o, w, p.load, s, m, a)
BY DEF Normalize, PlanRecord

LEMMA BatchKeyTells ==
    ASSUME NEW p \in Plans, NEW q \in Plans, BatchKey(p) = BatchKey(q)
    PROVE  p = q
<1>1. ASSUME NEW d \in AcceptedDirectives
      PROVE  /\ Normalize(d).operation # Absent /\ Normalize(d) # NoPlan
             /\ BatchKey(Normalize(d)) = [Normalize(d) EXCEPT !.load = KeyOfLoad(Normalize(d).load)]
             /\ BatchKey(Normalize(d)).operation = Normalize(d).operation
    <2>1. Normalize(d).operation \in {"load_store", "load", "store"}
        BY DEF Normalize, Operation
    <2>2. Normalize(d).operation # Absent
        BY <2>1 DEF Absent
    <2>3. Normalize(d) # NoPlan
        BY <2>2 DEF NoPlan
    <2>4. BatchKey(Normalize(d)) = [Normalize(d) EXCEPT !.load = KeyOfLoad(Normalize(d).load)]
        BY <2>3 DEF BatchKey, KeyOfLoad
    <2>5. [Normalize(d) EXCEPT !.load = KeyOfLoad(Normalize(d).load)].operation = Normalize(d).operation
        BY DEF Normalize
    <2> QED BY <2>2, <2>3, <2>4, <2>5
<1>2. BatchKey(NoPlan) = NoPlan /\ NoPlan.operation = Absent
    BY DEF BatchKey, NoPlan
<1>3. CASE p = NoPlan \/ q = NoPlan
    BY <1>1, <1>2, <1>3 DEF Plans
<1>4. CASE p # NoPlan /\ q # NoPlan
    <2>1. PICK d \in AcceptedDirectives : p = Normalize(d)
        BY <1>4 DEF Plans
    <2>2. PICK c \in AcceptedDirectives : q = Normalize(c)
        BY <1>4 DEF Plans
    <2>3. [p EXCEPT !.load = KeyOfLoad(p.load)] = [q EXCEPT !.load = KeyOfLoad(q.load)]
        BY <1>1, <2>1, <2>2
    <2>4. PICK o, w, st, m, a : p = PlanRecord(o, w, p.load, st, m, a)
        BY <2>1, PlanShape
    <2>5. PICK o2, w2, st2, m2, a2 : q = PlanRecord(o2, w2, q.load, st2, m2, a2)
        BY <2>2, PlanShape
    <2> DEFINE k == KeyOfLoad(p.load)
               h == KeyOfLoad(q.load)
    <2>7. [p EXCEPT !.load = k] = PlanRecord(o, w, k, st, m, a)
        <3>1. PICK l : p = PlanRecord(o, w, l, st, m, a)
            BY <2>4
        <3> HIDE DEF k
        <3> QED BY <3>1, PlanRecordTells
    <2>8. [q EXCEPT !.load = h] = PlanRecord(o2, w2, h, st2, m2, a2)
        <3>1. PICK l : q = PlanRecord(o2, w2, l, st2, m2, a2)
            BY <2>5
        <3> HIDE DEF h
        <3> QED BY <3>1, PlanRecordTells
    <2>9. k = h /\ o = o2 /\ w = w2 /\ st = st2 /\ m = m2 /\ a = a2
        <3>1. PlanRecord(o, w, k, st, m, a) = PlanRecord(o2, w2, h, st2, m2, a2)
            BY <2>3, <2>7, <2>8
        <3> HIDE DEF k, h
        <3> QED BY <3>1 DEF PlanRecord
    <2>6. p.load = q.load
        <3> DEFINE x == p.load
                   y == q.load
        <3>1. /\ x = Skip \/ \E mode, transport, bytes, sha : x = LoadOf(mode, transport, bytes, sha)
              /\ y = Skip \/ \E mode, transport, bytes, sha : y = LoadOf(mode, transport, bytes, sha)
            <4>1. IsLoad(x) /\ IsLoad(y)
                BY <2>1, <2>2, LoadNormalized
            <4> QED BY <4>1 DEF IsLoad
        <3>2. KeyOfLoad(x) = KeyOfLoad(y)
            BY <2>9
        <3> HIDE DEF x, y
        <3>3. x = y
            BY <3>1, <3>2, KeyOfLoadTells
        <3> QED BY <3>3 DEF x, y
    <2> QED BY <2>4, <2>5, <2>6, <2>9
<1> QED BY <1>3, <1>4

LEMMA DirectiveInitInv == DirectiveInit => DirectiveInv
<1> SUFFICES ASSUME NEW d \in [KvRequests -> Directives \cup {NoPlan}], NEW ref \in [KvRequests -> Refs],
                    NEW f \in PrefixFiles, DirectiveStart(d, ref, f)
             PROVE  DirectiveInv
    BY DEF DirectiveInit, Refs
<1>1. ASSUME NEW r \in KvRequests PROVE RawInput(d[r], ref[r]) \in InputRows /\ PrefixKnown(RawInput(d[r], ref[r]))
    <2>1. d[r] \in Directives \cup {NoPlan} /\ ref[r] \in Refs /\ Absent \in Refs /\ NoPlan \in Plans
        BY DEF Refs, Plans
    <2> QED BY <2>1 DEF RawInput, InputRows, PrefixKnown
<1>2. request = [r \in KvRequests |-> RawInput(d[r], ref[r])] /\ prefixFile = f /\ acceptedKv = <<>>
    BY DEF DirectiveStart
<1>3. DOMAIN acceptedKv = {}
    BY <1>2
<1> QED BY <1>1, <1>2, <1>3 DEF DirectiveInv, QueuedVerifiable

(* A request is given a row that is as rows are. *)
LEMMA DirectiveMoves ==
    ASSUME DirectiveInv, NEW r \in KvRequests, NEW row \in InputRows, PrefixKnown(row),
           request' = [request EXCEPT ![r] = row], UNCHANGED <<prefixFile, acceptedKv>>
    PROVE  DirectiveInv'
BY DEF DirectiveInv, QueuedVerifiable, PrefixKnown

LEMMA NormalizedIsPlan ==
    ASSUME NEW d \in Directives, DirectiveAccepted(d)
    PROVE  Normalize(d) \in Plans
BY DEF Plans, AcceptedDirectives

(* The row of a request after its references were resolved. *)
ResolvedRow(req) ==
    IF ~PrefixAccepted(req) \/ ~PlanAccepted(req) THEN [req EXCEPT !.state = "refused"]
    ELSE [req EXCEPT !.state = "resolved",
                    !.plan = IF req.directive = NoPlan THEN @ ELSE Normalize(req.directive),
                    !.prefix = IF req.ref = Absent THEN @ ELSE prefixFile,
                    !.prefixHash = IF req.ref = Absent THEN @ ELSE req.ref]

LEMMA ResolvedRowRight ==
    ASSUME DirectiveInv, NEW req \in InputRows, PrefixKnown(req), req.state \in {"raw", "resolved"}
    PROVE  ResolvedRow(req) \in InputRows /\ PrefixKnown(ResolvedRow(req))
<1>1. CASE ~PrefixAccepted(req) \/ ~PlanAccepted(req)
    <2>1. ResolvedRow(req) = [req EXCEPT !.state = "refused"]
        BY <1>1 DEF ResolvedRow
    <2> QED BY <2>1 DEF InputRows, PrefixKnown
<1>2. CASE PrefixAccepted(req) /\ PlanAccepted(req)
    <2> DEFINE p == IF req.directive = NoPlan THEN req.plan ELSE Normalize(req.directive)
               x == IF req.ref = Absent THEN req.prefix ELSE prefixFile
               h == IF req.ref = Absent THEN req.prefixHash ELSE req.ref
    <2>1. ResolvedRow(req) = [req EXCEPT !.state = "resolved", !.plan = p, !.prefix = x, !.prefixHash = h]
        BY <1>2 DEF ResolvedRow, InputRows
    <2>2. p \in Plans
        BY <1>2, NormalizedIsPlan DEF PlanAccepted, InputRows
    <2>3. x \in Refs /\ h \in Refs
        BY DEF DirectiveInv, InputRows, Refs
    <2>4. x = req.ref /\ (req.ref # Absent => h = req.ref)
        <3>1. CASE req.ref # Absent
            BY <1>2, <3>1 DEF PrefixAccepted
        <3>2. CASE req.ref = Absent
            BY <3>2 DEF PrefixKnown
        <3> QED BY <3>1, <3>2
    <2> HIDE DEF p, x, h
    <2> QED BY <2>1, <2>2, <2>3, <2>4 DEF InputRows, PrefixKnown
<1> QED BY <1>1, <1>2

LEMMA DirectiveResolves ==
    ASSUME DirectiveInv, NEW r \in KvRequests, ResolveCacheRefs(r)
    PROVE  DirectiveInv'
<1>1. request[r] \in InputRows /\ PrefixKnown(request[r])
    BY DEF DirectiveInv
<1>2. /\ request[r].state \in {"raw", "resolved"}
      /\ request' = [request EXCEPT ![r] = ResolvedRow(request[r])]
      /\ UNCHANGED <<prefixFile, acceptedKv>>
    BY DEF ResolveCacheRefs, ResolvedRow
<1>3. ResolvedRow(request[r]) \in InputRows /\ PrefixKnown(ResolvedRow(request[r]))
    BY <1>1, <1>2, ResolvedRowRight
<1> QED BY <1>2, <1>3, DirectiveMoves

LEMMA DirectiveQueues ==
    ASSUME DirectiveInv, NEW r \in KvRequests, QueueRequest(r)
    PROVE  DirectiveInv'
<1>1. request[r] \in InputRows /\ PrefixKnown(request[r])
    BY DEF DirectiveInv
<1> DEFINE row == [request[r] EXCEPT !.state = "queued"]
<1>2. row \in InputRows /\ PrefixKnown(row)
    BY <1>1 DEF InputRows, PrefixKnown, QueueRequest
<1>3. request' = [request EXCEPT ![r] = row] /\ UNCHANGED prefixFile
    BY DEF QueueRequest
<1>4. acceptedKv' = [q \in DOMAIN acceptedKv \cup {r} |-> IF q = r THEN request[r] ELSE acceptedKv[q]]
    BY DEF QueueRequest
<1>5. request[r].plan \in Plans
    BY <1>1 DEF InputRows
<1>6. /\ request[r].plan # NoPlan /\ request[r].plan.load # Skip => request[r].plan.load.sha # Absent
      /\ request[r].ref # Absent => request[r].prefix = request[r].ref /\ request[r].prefixHash = request[r].ref
    <2>1. ASSUME request[r].plan # NoPlan, request[r].plan.load # Skip PROVE request[r].plan.load.sha # Absent
        <3>1. PICK d \in AcceptedDirectives : request[r].plan = Normalize(d)
            BY <1>5, <2>1 DEF Plans
        <3>2. IsLoad(request[r].plan.load)
            BY <3>1, LoadNormalized
        <3>3. PICK mode, transport, bytes, sha :
                  sha # Absent /\ request[r].plan.load = LoadOf(mode, transport, bytes, sha)
            BY <2>1, <3>2 DEF IsLoad
        <3> QED BY <3>3 DEF LoadOf
    <2>2. request[r].ref # Absent => request[r].prefix = request[r].ref /\ request[r].prefixHash = request[r].ref
        BY <1>1 DEF QueueRequest, Queueable, PrefixKnown
    <2> QED BY <2>1, <2>2
<1>7. /\ request' \in [KvRequests -> InputRows] /\ prefixFile' \in PrefixFiles
      /\ \A q \in KvRequests : PrefixKnown(request'[q])
    <2> HIDE DEF row
    <2> QED BY <1>2, <1>3 DEF DirectiveInv
<1>8. ASSUME NEW q \in DOMAIN acceptedKv'
      PROVE  /\ acceptedKv'[q].plan \in Plans
             /\ acceptedKv'[q].plan # NoPlan /\ acceptedKv'[q].plan.load # Skip => acceptedKv'[q].plan.load.sha # Absent
             /\ acceptedKv'[q].ref # Absent => acceptedKv'[q].prefix = acceptedKv'[q].ref /\ acceptedKv'[q].prefixHash = acceptedKv'[q].ref
    <2>1. CASE q = r
        BY <1>4, <1>5, <1>6, <2>1
    <2>2. CASE q # r
        <3>1. q \in DOMAIN acceptedKv /\ acceptedKv'[q] = acceptedKv[q]
            BY <1>4, <2>2
        <3> QED BY <3>1 DEF DirectiveInv, QueuedVerifiable
    <2> QED BY <2>1, <2>2
<1> QED BY <1>7, <1>8 DEF DirectiveInv, QueuedVerifiable, PrefixKnown

LEMMA DirectiveChanges ==
    ASSUME DirectiveInv, NEW r \in KvRequests, NEW d \in Directives, ChangeDirective(r, d)
    PROVE  DirectiveInv'
<1> DEFINE row == [request[r] EXCEPT !.directive = d]
<1>1. request[r] \in InputRows /\ PrefixKnown(request[r])
    BY DEF DirectiveInv
<1>2. row \in InputRows /\ PrefixKnown(row)
    BY <1>1 DEF InputRows, PrefixKnown
<1>3. request' = [request EXCEPT ![r] = row] /\ UNCHANGED <<prefixFile, acceptedKv>>
    BY DEF ChangeDirective
<1> QED BY <1>2, <1>3, DirectiveMoves

LEMMA DirectiveInvStep == DirectiveInv /\ [DirectiveNext]_directiveVars => DirectiveInv'
<1> SUFFICES ASSUME DirectiveInv, [DirectiveNext]_directiveVars PROVE DirectiveInv'
    OBVIOUS
<1>1. CASE UNCHANGED directiveVars
    BY <1>1 DEF directiveVars, DirectiveInv, QueuedVerifiable, PrefixKnown
<1>2. ASSUME NEW f \in PrefixFiles, RewritePrefixFile(f) PROVE DirectiveInv'
    BY <1>2 DEF RewritePrefixFile, DirectiveInv, QueuedVerifiable, PrefixKnown
<1> QED BY <1>1, <1>2, DirectiveResolves, DirectiveQueues, DirectiveChanges DEF DirectiveNext

(* What a step does to a resolved request whose directive and file stand. *)
ResolutionStands(r) ==
    LET req == request[r] IN
    req.state = "resolved" /\ req.directive \in {NoPlan} \cup {d \in Directives : DirectiveAccepted(d) /\ Normalize(d) = req.plan}
    /\ (req.ref # Absent => prefixFile = req.ref)
    => request'[r].state # "refused" /\ request'[r].plan = req.plan

LEMMA ResolvingAgain ==
    ASSUME DirectiveInv, [DirectiveNext]_directiveVars, NEW r \in KvRequests
    PROVE  ResolutionStands(r)
<1> SUFFICES ASSUME request[r].state = "resolved",
                    request[r].directive \in {NoPlan} \cup {d \in Directives : DirectiveAccepted(d) /\ Normalize(d) = request[r].plan},
                    request[r].ref # Absent => prefixFile = request[r].ref
             PROVE  request'[r].state # "refused" /\ request'[r].plan = request[r].plan
    BY DEF ResolutionStands
<1>1. request[r] \in InputRows /\ PrefixKnown(request[r]) /\ r \in DOMAIN request
    BY DEF DirectiveInv
<1>2. CASE UNCHANGED request
    BY <1>2
<1>3. ASSUME NEW q \in KvRequests, NEW row, request' = [request EXCEPT ![q] = row], q # r
      PROVE  request'[r] = request[r]
    BY <1>1, <1>3
<1>4. CASE ResolveCacheRefs(r)
    <2>1. PrefixAccepted(request[r])
        BY <1>1 DEF PrefixAccepted, PrefixKnown
    <2>2. PlanAccepted(request[r])
        BY DEF PlanAccepted
    <2> DEFINE p == IF request[r].directive = NoPlan THEN request[r].plan ELSE Normalize(request[r].directive)
    <2>3. p = request[r].plan
        OBVIOUS
    <2>4. PICK x, h : request' = [request EXCEPT ![r] =
                [request[r] EXCEPT !.state = "resolved", !.plan = p, !.prefix = x, !.prefixHash = h]]
        BY <1>4, <1>1, <2>1, <2>2 DEF ResolveCacheRefs, InputRows
    <2> HIDE DEF p
    <2> QED BY <1>1, <2>3, <2>4 DEF InputRows
<1>5. CASE QueueRequest(r)
    BY <1>1, <1>5 DEF QueueRequest, InputRows
<1>6. ASSUME NEW d \in Directives, ChangeDirective(r, d)
      PROVE  request'[r].state # "refused" /\ request'[r].plan = request[r].plan
    BY <1>1, <1>6 DEF ChangeDirective, InputRows
<1>7. ASSUME NEW q \in KvRequests, q # r, ResolveCacheRefs(q) \/ QueueRequest(q) \/ \E d \in Directives : ChangeDirective(q, d)
      PROVE  request'[r] = request[r]
    BY <1>1, <1>7 DEF ResolveCacheRefs, QueueRequest, ChangeDirective
<1>8. CASE \E f \in PrefixFiles : RewritePrefixFile(f)
    BY <1>8 DEF RewritePrefixFile
<1>9. CASE UNCHANGED directiveVars
    BY <1>9 DEF directiveVars
<1> QED BY <1>4, <1>5, <1>6, <1>7, <1>8, <1>9 DEF DirectiveNext

LEMMA DirectiveInvCohort == DirectiveInv => CohortLoadsAlike /\ QueuedVerifiable
BY BatchKeyTells DEF DirectiveInv, CohortLoadsAlike

(* A KV directive means the same at every step, for every set of directives *)
(* that name their transport, and every content of the files: requests of   *)
(* one cohort load alike, what was queued can be verified, and resolving    *)
(* again changes nothing (kv_cache.py).                                     *)
THEOREM DirectivesMeanOneThing == PartsSpec => DirectivesStand
<1> DEFINE Stands == [\A r \in KvRequests : ResolutionStands(r)]_directiveVars
<1>1. PartsInit => DirectiveInv
    <2> SUFFICES ASSUME PartsInit PROVE DirectiveInv
        OBVIOUS
    <2>1. CASE focus = "directive"
        BY <2>1, DirectiveInitInv DEF PartsInit, KvInit
    <2>2. CASE focus # "directive" /\ PrefixFiles # {}
        <3>1. (CHOOSE f \in PrefixFiles : TRUE) \in PrefixFiles
            BY <2>2
        <3>2. DirectiveInit
            BY <2>2, <3>1 DEF PartsInit, KvInit, DirectiveInit
        <3> QED BY <3>2, DirectiveInitInv
    <2> QED BY <2>1, <2>2, DirectiveAssumption
<1>2. DirectiveInv /\ [PartsNext]_<<focus, kvParts, configParts, servingParts, operatorParts, upkeepParts>> => DirectiveInv' /\ Stands
    <2> SUFFICES ASSUME DirectiveInv, [PartsNext]_<<focus, kvParts, configParts, servingParts, operatorParts, upkeepParts>>
                 PROVE  DirectiveInv' /\ Stands
        OBVIOUS
    <2>1. [DirectiveNext]_directiveVars
        BY DEF PartsNext, KvNext, kvParts
    <2> QED BY <2>1, DirectiveInvStep, ResolvingAgain
<1>3. [][Stands]_directiveVars => ResolveIdempotent
    BY PTL DEF ResolveIdempotent, ResolutionStands
<1> QED BY <1>1, <1>2, <1>3, DirectiveInvCohort, PTL DEF PartsSpec, DirectivesStand

-----------------------------------------------------------------------------
(* Payloads.  One function over another: its keys, and where they come from. *)
LEMMA OverGives ==
    ASSUME NEW f, NEW g
    PROVE  /\ DOMAIN Over(f, g) = DOMAIN f \cup DOMAIN g
           /\ \A k \in DOMAIN f : Over(f, g)[k] = f[k]
           /\ \A k \in DOMAIN g \ DOMAIN f : Over(f, g)[k] = g[k]
BY DEF Over

(* A payload tells of a plan in both places, or of none in neither.         *)
KvTop == "kv_transfer_params"
KvExtra == "ds4_kv_cache"
Told(p, plan) ==
    IF plan = "none" THEN KvTop \notin DOMAIN p.top /\ KvExtra \notin DOMAIN p.extra
    ELSE /\ KvTop \in DOMAIN p.top /\ p.top[KvTop] = plan
         /\ KvExtra \in DOMAIN p.extra /\ p.extra[KvExtra] = plan

LEMMA MergedTells ==
    ASSUME NEW p, NEW chat, NEW body, KvExtra \notin DOMAIN body, NEW plan, Told(p, plan)
    PROVE  Told(Merged(p, chat, body), plan)
<1> DEFINE top == IF chat THEN DOMAIN body \cap TopLevelFields ELSE {}
           upper == [k \in top |-> body[k]]
           lower == [k \in DOMAIN body \ top |-> body[k]]
<1>1. Merged(p, chat, body) = [top |-> Over(upper, p.top), extra |-> Over(lower, p.extra)]
    BY DEF Merged
<1>2. DOMAIN upper = top /\ KvTop \notin top
    BY DEF TopLevelFields, KvTop
<1>3. DOMAIN lower \subseteq DOMAIN body
    OBVIOUS
<1> HIDE DEF top, upper, lower
<1>4. /\ DOMAIN Over(upper, p.top) = DOMAIN upper \cup DOMAIN p.top
      /\ \A k \in DOMAIN p.top \ DOMAIN upper : Over(upper, p.top)[k] = p.top[k]
    BY OverGives
<1>5. /\ DOMAIN Over(lower, p.extra) = DOMAIN lower \cup DOMAIN p.extra
      /\ \A k \in DOMAIN p.extra \ DOMAIN lower : Over(lower, p.extra)[k] = p.extra[k]
    BY OverGives
<1>6. PICK t, e : t = Over(upper, p.top) /\ e = Over(lower, p.extra)
    OBVIOUS
<1>7. Merged(p, chat, body).top = t /\ Merged(p, chat, body).extra = e
    BY <1>1, <1>6
<1> QED BY <1>2, <1>3, <1>4, <1>5, <1>6, <1>7 DEF Told

LEMMA WithPlanTells ==
    ASSUME NEW p, NEW plan, Told(p, "none")
    PROVE  Told(WithPlan(p, plan), plan)
<1>1. CASE plan = "none"
    BY <1>1 DEF WithPlan
<1>2. CASE plan # "none"
    <2>1. PICK t, e : t = Over(From({KvTop}, plan), p.top) /\ e = Over(From({KvExtra}, plan), p.extra)
        OBVIOUS
    <2>2. WithPlan(p, plan) = [top |-> t, extra |-> e]
        BY <1>2, <2>1 DEF WithPlan, KvTop, KvExtra
    <2>3. /\ DOMAIN From({KvTop}, plan) = {KvTop} /\ From({KvTop}, plan)[KvTop] = plan
          /\ DOMAIN From({KvExtra}, plan) = {KvExtra} /\ From({KvExtra}, plan)[KvExtra] = plan
        BY DEF From
    <2>4. KvTop \in DOMAIN t /\ t[KvTop] = plan
        <3>1. PICK f, g : f = From({KvTop}, plan) /\ g = p.top
            OBVIOUS
        <3>2. t = Over(f, g) /\ DOMAIN f = {KvTop} /\ f[KvTop] = plan
            BY <2>1, <2>3, <3>1
        <3> QED BY <3>2 DEF Over
    <2>5. KvExtra \in DOMAIN e /\ e[KvExtra] = plan
        <3>1. PICK f, g : f = From({KvExtra}, plan) /\ g = p.extra
            OBVIOUS
        <3>2. e = Over(f, g) /\ DOMAIN f = {KvExtra} /\ f[KvExtra] = plan
            BY <2>1, <2>3, <3>1
        <3> QED BY <3>2 DEF Over
    <2> QED BY <1>2, <2>2, <2>4, <2>5 DEF Told
<1> QED BY <1>1, <1>2

LEMMA PayloadTells ==
    ASSUME NEW q \in AskedForms
    PROVE  Told(Posted(q), PlanOf(q))
<1> DEFINE base == [top |-> Over(From(q.sampling, "sampling"), From(q.openai, "openai")), extra |-> NoFields]
<1>1. Told(base, "none")
    <2>1. DOMAIN From(q.sampling, "sampling") = q.sampling /\ DOMAIN From(q.openai, "openai") = q.openai
        BY DEF From
    <2>2. q.sampling \subseteq {"seed"} /\ q.openai \subseteq {"seed"}
        BY DEF AskedForms
    <2>3. PICK t : t = Over(From(q.sampling, "sampling"), From(q.openai, "openai"))
        OBVIOUS
    <2>4. DOMAIN t \subseteq {"seed"}
        <3>1. PICK f, g : f = From(q.sampling, "sampling") /\ g = From(q.openai, "openai")
            OBVIOUS
        <3>2. t = Over(f, g) /\ DOMAIN f = q.sampling /\ DOMAIN g = q.openai
            BY <2>1, <2>3, <3>1
        <3> QED BY <2>2, <3>2 DEF Over
    <2>5. DOMAIN NoFields = {}
        BY DEF NoFields
    <2>6. base.top = t /\ base.extra = NoFields
        BY <2>3
    <2> HIDE DEF base
    <2> QED BY <2>4, <2>5, <2>6 DEF Told, KvTop, KvExtra
<1>2. KvExtra \notin DOMAIN RequestExtra(q)
    <2> DEFINE a == From(IF q.budget THEN {"thinking"} ELSE {}, "request")
               b == From(IF q.chat /\ q.template THEN {"chat_template_kwargs"} ELSE {}, "request")
               c == From(q.extra, "client")
    <2>1. KvExtra \notin DOMAIN a /\ KvExtra \notin DOMAIN b /\ KvExtra \notin DOMAIN c
        BY DEF From, AskedForms, KvExtra
    <2>2. RequestExtra(q) = Over(Over(a, b), c)
        BY DEF RequestExtra
    <2> HIDE DEF a, b, c
    <2>3. DOMAIN Over(a, b) = DOMAIN a \cup DOMAIN b
        BY OverGives
    <2>4. PICK d : d = Over(a, b)
        OBVIOUS
    <2>5. DOMAIN Over(d, c) = DOMAIN d \cup DOMAIN c
        BY OverGives
    <2> QED BY <2>1, <2>2, <2>3, <2>4, <2>5
<1>3. KvExtra \notin DOMAIN From(q.defaults, "runner")
    BY DEF From, AskedForms, KvExtra
<1>4. Payload(q) = WithPlan(Merged(base, q.chat, RequestExtra(q)), PlanOf(q))
    BY DEF Payload
<1> HIDE DEF base
<1>5. Told(Merged(base, q.chat, RequestExtra(q)), "none")
    BY <1>1, <1>2, MergedTells
<1>6. Told(Payload(q), PlanOf(q))
    BY <1>4, <1>5, WithPlanTells
<1> QED BY <1>3, <1>6, MergedTells DEF Posted

LEMMA SuppressedTells ==
    ASSUME NEW p, NEW plan, Told(p, plan)
    PROVE  Told(Suppressed(p), IF plan = "auto" THEN "none" ELSE plan)
<1>1. CASE plan = "auto"
    <2>1. Suppressed(p) = [top |-> [k \in DOMAIN p.top \ {KvTop} |-> p.top[k]],
                           extra |-> [k \in DOMAIN p.extra \ {KvExtra} |-> p.extra[k]]]
        BY <1>1 DEF Told, Suppressed, KvTop, KvExtra
    <2> QED BY <1>1, <2>1 DEF Told
<1>2. CASE plan # "auto"
    <2>1. Suppressed(p) = p
        BY <1>2 DEF Told, Suppressed, KvTop, KvExtra
    <2> QED BY <1>2, <2>1
<1> QED BY <1>1, <1>2

LEMMA AskedFormTells ==
    ASSUME asked \in AskedForms
    PROVE  PlanToldTwice
<1>1. Told(Posted(asked), PlanOf(asked))
    BY PayloadTells
<1>2. PICK v, p, s : v = PlanOf(asked) /\ p = Posted(asked) /\ s = Suppressed(Posted(asked))
    OBVIOUS
<1>3. v \in {"own", "auto", "none"} /\ (asked.plan = "own" => v = "own")
    BY <1>2 DEF PlanOf
<1>4. Told(p, v) /\ Told(s, IF v = "auto" THEN "none" ELSE v)
    BY <1>1, <1>2, SuppressedTells
<1>5. ASSUME NEW x, NEW w \in {"own", "auto", "none"}, Told(x, w)
      PROVE  /\ KvTop \in DOMAIN x.top <=> KvExtra \in DOMAIN x.extra
             /\ KvTop \in DOMAIN x.top => x.top[KvTop] = x.extra[KvExtra]
             /\ w = "own" => KvExtra \in DOMAIN x.extra /\ x.extra[KvExtra] = "own"
    BY <1>5 DEF Told
<1>6. PICK w : w = (IF v = "auto" THEN "none" ELSE v)
    OBVIOUS
<1>7. w \in {"own", "auto", "none"} /\ (asked.plan = "own" => w = "own") /\ Told(s, w)
    BY <1>3, <1>4, <1>6
<1> QED BY <1>2, <1>3, <1>4, <1>5, <1>7 DEF PlanToldTwice, KvTop, KvExtra

-----------------------------------------------------------------------------
(* A batch posted directly.  The first of some numbers is one of them.      *)
LEMMA FirstIsLeast ==
    ASSUME NEW S \in SUBSET Nat, S # {}
    PROVE  FirstOf(S) \in S /\ \A k \in S : FirstOf(S) <= k
<1>1. \E m \in S : \A k \in S : m <= k
    BY LeastMember
<1> QED BY <1>1 DEF FirstOf

(* Rows of the service as functions of their places. *)
ServiceRow == [label : Ids \cup {""}, of : Ids, ok : BOOLEAN]
LEMMA ServiceRowsShape ==
    ASSUME NEW rows \in ServiceRows
    PROVE  /\ \E n \in Nat : rows \in [1..n -> ServiceRow] /\ DOMAIN rows = 1..n /\ Len(rows) = n
           /\ \/ \A i \in DOMAIN rows : rows[i].label = rows[i].of
              \/ /\ DOMAIN rows = DOMAIN DirectIds
                 /\ \A i \in DOMAIN rows : rows[i].label = "" /\ rows[i].of = DirectIds[i]
<1>1. Len(DirectIds) \in Nat /\ DOMAIN DirectIds = 1..Len(DirectIds) /\ DirectIds \in [1..Len(DirectIds) -> Ids]
    <2>1. DirectIds \in Seq(STRING) /\ Ids = {DirectIds[i] : i \in DOMAIN DirectIds}
        BY RunnersAssumption DEF Ids, ToSet
    <2>2. DOMAIN DirectIds = 1..Len(DirectIds) /\ Len(DirectIds) \in Nat
        BY <2>1, SeqFacts
    <2>3. \A i \in 1..Len(DirectIds) : DirectIds[i] \in Ids
        BY <2>1, <2>2
    <2>4. DirectIds = [i \in 1..Len(DirectIds) |-> DirectIds[i]]
        BY <2>1
    <2> QED BY <2>2, <2>3, <2>4
<1>2. ASSUME NEW n \in Nat, NEW s \in [1..n -> Ids], NEW ok \in [Ids -> BOOLEAN], rows = LabelledRows(s, ok)
      PROVE  /\ rows \in [1..n -> ServiceRow] /\ DOMAIN rows = 1..n
             /\ \A i \in DOMAIN rows : rows[i].label = rows[i].of
    BY <1>2 DEF ServiceRow, LabelledRows
<1>3. ASSUME NEW ok \in [Ids -> BOOLEAN], rows = PlainRows(ok)
      PROVE  /\ rows \in [1..Len(DirectIds) -> ServiceRow] /\ DOMAIN rows = 1..Len(DirectIds)
             /\ \A i \in DOMAIN rows : rows[i].label = "" /\ rows[i].of = DirectIds[i]
    BY <1>1, <1>3 DEF ServiceRow, PlainRows
<1>4. ASSUME NEW n \in Nat, rows \in [1..n -> ServiceRow] PROVE Len(rows) = n
    BY <1>4
<1>5. \/ \E s \in RowOrders, ok \in [Ids -> BOOLEAN] : rows = LabelledRows(s, ok)
      \/ \E ok \in [Ids -> BOOLEAN] : rows = PlainRows(ok)
    BY DEF ServiceRows
<1>6. ASSUME NEW s \in RowOrders
      PROVE  \E n \in Nat : s \in [1..n -> Ids]
    BY <1>1, <1>6 DEF RowOrders
<1>7. CASE \E s \in RowOrders, ok \in [Ids -> BOOLEAN] : rows = LabelledRows(s, ok)
    <2>1. PICK s \in RowOrders, ok \in [Ids -> BOOLEAN] : rows = LabelledRows(s, ok)
        BY <1>7
    <2>2. PICK n \in Nat : s \in [1..n -> Ids]
        BY <1>6
    <2> QED BY <1>2, <1>4, <2>1, <2>2
<1>8. CASE \E ok \in [Ids -> BOOLEAN] : rows = PlainRows(ok)
    <2>1. PICK ok \in [Ids -> BOOLEAN] : rows = PlainRows(ok)
        BY <1>8
    <2> QED BY <1>1, <1>3, <1>4, <2>1
<1> QED BY <1>5, <1>7, <1>8

(* Whom the row that is chosen for a request is of. *)
DirectPlace(r) == CHOOSE i \in DOMAIN DirectIds : DirectIds[i] = r
LEMMA RowOfRight ==
    ASSUME NEW rows \in ServiceRows, NEW r \in Ids, NEW j, j = RowOf(rows, DirectPlace(r)), j # 0
    PROVE  /\ j \in DOMAIN rows /\ rows[j].of \in Ids
           /\ rows[j].of # r => \A i \in DOMAIN rows : rows[i].of # r
<1>1. PICK n \in Nat : rows \in [1..n -> ServiceRow] /\ DOMAIN rows = 1..n /\ Len(rows) = n
    BY ServiceRowsShape
<1>2. PICK p : p = DirectPlace(r) /\ p \in DOMAIN DirectIds /\ DirectIds[p] = r
    <2>1. \E i \in DOMAIN DirectIds : DirectIds[i] = r
        BY DEF Ids, ToSet
    <2> QED BY <2>1 DEF DirectPlace
<1>3. p \in Nat \ {0}
    <2>1. DOMAIN DirectIds = 1..Len(DirectIds) /\ Len(DirectIds) \in Nat
        BY RunnersAssumption, SeqFacts
    <2> QED BY <1>2, <2>1
<1> DEFINE own == {k \in DOMAIN rows : rows[k].label = DirectIds[p]}
<1>4. own \in SUBSET Nat /\ own \subseteq DOMAIN rows
    BY <1>1
<1>5. j = IF own # {} THEN FirstOf(own) ELSE IF p <= Len(rows) THEN p ELSE 0
    BY <1>2 DEF RowOf
<1>6. \/ j \in own
      \/ own = {} /\ j = p /\ j \in DOMAIN rows
    <2>1. CASE own # {}
        <3> HIDE DEF own
        <3> QED BY <1>4, <1>5, <2>1, FirstIsLeast
    <2>2. CASE own = {}
        <3>1. j = IF p <= Len(rows) THEN p ELSE 0
            BY <1>5, <2>2
        <3>2. j = p /\ p <= n
            BY <1>1, <3>1
        <3>3. j \in DOMAIN rows
            <4>1. n \in Nat /\ DOMAIN rows = 1..n
                BY <1>1
            <4>2. p \in 1..n
                BY <1>3, <3>2
            <4> HIDE DEF own
            <4> QED BY <3>2, <4>1, <4>2, Zenon
        <3> HIDE DEF own
        <3> QED BY <2>2, <3>2, <3>3
    <2> QED BY <2>1, <2>2
<1>7. j \in DOMAIN rows /\ rows[j].of \in Ids
    BY <1>1, <1>6 DEF ServiceRow
<1>8. CASE \A i \in DOMAIN rows : rows[i].label = rows[i].of
    BY <1>2, <1>6, <1>7, <1>8
<1>9. CASE \A i \in DOMAIN rows : rows[i].label = "" /\ rows[i].of = DirectIds[i]
    <2>1. "" \notin Ids
        BY RunnersAssumption DEF Ids
    <2>2. own = {}
        BY <1>2, <1>9, <2>1
    <2>3. j = p /\ rows[j].of = DirectIds[p]
        BY <1>6, <1>9, <2>2
    <2> HIDE DEF own
    <2> QED BY <1>2, <1>7, <2>3
<1> QED BY <1>7, <1>8, <1>9, ServiceRowsShape

DirectInv ==
    /\ batch \in [kind : {"spark", "antirez"}, step : {"start", "posted", "done"}, posts : {batch.posts},
                  connected : {batch.connected}, rows : {batch.rows}, result : {batch.result}]
    /\ RowsMatched

LEMMA DirectStep ==
    ASSUME DirectInv, DirectNext
    PROVE  DirectInv'
<1> DEFINE Shape(b) == b \in [kind : {"spark", "antirez"}, step : {"start", "posted", "done"}, posts : {b.posts},
                              connected : {b.connected}, rows : {b.rows}, result : {b.result}]
<1>1. CASE Preconnect
    <2>1. PICK c : batch' = [batch EXCEPT !.connected = c]
        BY <1>1 DEF Preconnect
    <2>2. batch'.step = "start" /\ Shape(batch')
        BY <1>1, <2>1 DEF Preconnect, DirectInv
    <2> QED BY <2>2 DEF DirectInv, RowsMatched
<1>2. CASE PostBatch
    <2>1. batch' = [batch EXCEPT !.step = "posted", !.posts = 1]
        BY <1>2 DEF PostBatch
    <2>2. batch'.step = "posted" /\ Shape(batch')
        BY <2>1 DEF DirectInv
    <2> QED BY <2>2 DEF DirectInv, RowsMatched
<1>3. CASE PostFails
    <2>1. batch' = [batch EXCEPT !.step = "done", !.result = [r \in Ids |-> Failed]]
        BY <1>3 DEF PostFails
    <2>2. batch'.result = [r \in Ids |-> Failed] /\ Shape(batch')
        BY <2>1 DEF DirectInv
    <2> QED BY <2>2 DEF DirectInv, RowsMatched, Failed
<1>4. CASE BatchAnswered
    <2>1. PICK rows \in ServiceRows :
              batch' = [batch EXCEPT !.step = "done", !.rows = rows,
                          !.result = [r \in Ids |-> LET j == RowOf(rows, DirectPlace(r))
                                                    IN  IF j = 0 \/ ~rows[j].ok THEN Failed ELSE rows[j].of]]
        BY <1>4 DEF BatchAnswered, DirectPlace
    <2> DEFINE res == [r \in Ids |-> LET j == RowOf(rows, DirectPlace(r))
                                     IN  IF j = 0 \/ ~rows[j].ok THEN Failed ELSE rows[j].of]
    <2>2. ASSUME NEW r \in Ids
          PROVE  /\ res[r] # "none"
                 /\ res[r] \notin {r, Failed} => \A i \in DOMAIN rows : rows[i].of # r
        <3>1. PICK j : j = RowOf(rows, DirectPlace(r))
            OBVIOUS
        <3>2. res[r] = IF j = 0 \/ ~rows[j].ok THEN Failed ELSE rows[j].of
            BY <3>1
        <3>3. CASE j = 0 \/ ~rows[j].ok
            BY <3>2, <3>3 DEF Failed
        <3>4. CASE j # 0 /\ rows[j].ok
            <4>1. /\ rows[j].of \in Ids
                  /\ rows[j].of # r => \A i \in DOMAIN rows : rows[i].of # r
                BY <3>1, <3>4, RowOfRight
            <4>2. "none" \notin Ids
                BY RunnersAssumption DEF Ids
            <4> HIDE DEF res
            <4> QED BY <3>2, <3>4, <4>1, <4>2
        <3> QED BY <3>3, <3>4
    <2> HIDE DEF res
    <2>3. batch' = [batch EXCEPT !.step = "done", !.rows = rows, !.result = res]
        BY <2>1 DEF res
    <2>4. Shape(batch') /\ batch'.rows = rows /\ batch'.result = res
        BY <2>3 DEF DirectInv
    <2> QED BY <2>2, <2>4 DEF DirectInv, RowsMatched
<1>5. CASE PostCompletion
    <2>1. batch.kind = "antirez"
        BY <1>5 DEF PostCompletion
    <2>2. \/ \E p, s : batch' = [batch EXCEPT !.posts = p, !.step = "done", !.result = s]
          \/ \E p : batch' = [batch EXCEPT !.posts = p]
        BY <1>5 DEF PostCompletion
    <2>3. batch'.kind = "antirez" /\ Shape(batch')
        BY <2>1, <2>2 DEF DirectInv
    <2> QED BY <2>3 DEF DirectInv, RowsMatched
<1> QED BY <1>1, <1>2, <1>3, <1>4, <1>5 DEF DirectNext

LEMMA DirectUnchanged == DirectInv /\ UNCHANGED batch => DirectInv'
BY DEF DirectInv, RowsMatched

LEMMA DirectInitInv ==
    ASSUME NEW kind \in {"spark", "antirez"}, DirectStart(kind)
    PROVE  DirectInv
<1>1. batch = [kind |-> kind, step |-> "start", posts |-> 0, connected |-> FALSE, rows |-> <<>>,
               result |-> [r \in Ids |-> "none"]]
    BY DEF DirectStart
<1> QED BY <1>1 DEF DirectInv, RowsMatched

-----------------------------------------------------------------------------
(* The agent's messages.  What a model may say is a sequence of calls.      *)
SaidCalls == UNION {{ExtractCalls(r)[k] : k \in DOMAIN ExtractCalls(r)} : r \in AgentReplies}

LEMMA OpenAiCallsShape ==
    ASSUME NEW R, NEW said \in Seq(R)
    PROVE  \E A : OpenAiCalls(said) \in Seq(A)
<1> DEFINE A == {OpenAiCall(said[i], i) : i \in DOMAIN said}
           pieces == [i \in DOMAIN said |-> IF said[i].tool = "nameless" THEN <<>> ELSE <<OpenAiCall(said[i], i)>>]
<1>1. DOMAIN said = 1..Len(said) /\ Len(said) \in Nat
    BY SeqFacts
<1>2. \A i \in DOMAIN said : OpenAiCall(said[i], i) \in A
    OBVIOUS
<1> HIDE DEF A
<1>3. \A i \in DOMAIN said : pieces[i] \in Seq(A)
    BY <1>2, OneSeq, EmptySeq
<1>4. pieces \in [1..Len(said) -> Seq(A)]
    <2>1. DOMAIN pieces = 1..Len(said) /\ pieces = [i \in DOMAIN pieces |-> pieces[i]]
        BY <1>1
    <2> HIDE DEF pieces
    <2> QED BY <1>1, <1>3, <2>1
<1> HIDE DEF pieces
<1>5. pieces \in Seq(Seq(A))
    BY <1>1, <1>4
<1>6. FlattenSeq(pieces) \in Seq(A)
    BY <1>5, FlattenMembers
<1> QED BY <1>6 DEF OpenAiCalls, pieces

LEMMA DsmlCallsShape ==
    ASSUME NEW R, NEW tools \in Seq(R)
    PROVE  \E A : DsmlCalls(tools) \in Seq(A)
<1> DEFINE One(i) == [id |-> <<"dsml", i - 1>>, tool |-> tools[i]]
           A == {One(i) : i \in DOMAIN tools}
           all == [i \in DOMAIN tools |-> One(i)]
<1>1. DOMAIN tools = 1..Len(tools) /\ Len(tools) \in Nat
    BY SeqFacts
<1>2. DsmlCalls(tools) = all
    BY DEF DsmlCalls
<1>3. \A i \in DOMAIN tools : One(i) \in A
    OBVIOUS
<1> HIDE DEF A, One
<1>4. all \in [1..Len(tools) -> A]
    BY <1>1, <1>3
<1> HIDE DEF all
<1>5. all \in Seq(A)
    BY <1>1, <1>4
<1> QED BY <1>2, <1>5

LEMMA SaidShape ==
    ASSUME NEW said \in AgentReplies
    PROVE  ExtractCalls(said) \in Seq(SaidCalls)
<1>1. PICK A : OpenAiCalls(said.openai) \in Seq(A)
    BY AgentAssumption, OpenAiCallsShape
<1>2. PICK B : DsmlCalls(said.dsml) \in Seq(B)
    BY AgentAssumption, DsmlCallsShape
<1>3. PICK x, y, c : /\ x = OpenAiCalls(said.openai) /\ y = DsmlCalls(said.dsml)
                     /\ c = ExtractCalls(said) /\ c = x \o y
    BY DEF ExtractCalls
<1>4. x \in Seq(A \cup B) /\ y \in Seq(A \cup B)
    <2>1. A \subseteq A \cup B /\ B \subseteq A \cup B
        OBVIOUS
    <2> QED BY <1>1, <1>2, <1>3, <2>1, SeqWider
<1>5. c \in Seq(A \cup B)
    BY <1>3, <1>4, ConcatFacts
<1>6. DOMAIN c = 1..Len(c) /\ Len(c) \in Nat
    BY <1>5, SeqFacts
<1>7. ASSUME NEW k \in DOMAIN c PROVE c[k] \in SaidCalls
    <2> DEFINE Of(r) == {ExtractCalls(r)[i] : i \in DOMAIN ExtractCalls(r)}
    <2>1. c[k] \in Of(said)
        BY <1>3, <1>7
    <2>2. SaidCalls = UNION {Of(r) : r \in AgentReplies}
        BY DEF SaidCalls
    <2> HIDE DEF Of
    <2> QED BY <2>1, <2>2
<1>8. c = [k \in 1..Len(c) |-> c[k]]
    BY <1>5, <1>6
<1>9. c \in [1..Len(c) -> SaidCalls]
    BY <1>6, <1>7, <1>8
<1>10. c \in Seq(SaidCalls)
    BY <1>6, <1>9
<1> QED BY <1>3, <1>10

ToolResults == {"ok", "failed", "denied"}
AgentMsg ==
    {[role |-> "user"]} \cup {AgentMessage(c) : c \in Seq(SaidCalls)}
    \cup {ToolMessage(c, r) : c \in SaidCalls, r \in ToolResults}

LEMMA MsgFacts ==
    ASSUME NEW m \in AgentMsg, m.role = "assistant"
    PROVE  m.calls \in Seq(SaidCalls) /\ Len(m.calls) \in Nat
<1>1. m \in {AgentMessage(c) : c \in Seq(SaidCalls)}
    BY DEF AgentMsg, ToolMessage
<1>2. PICK c \in Seq(SaidCalls) : m = AgentMessage(c)
    BY <1>1
<1> QED BY <1>2, SeqFacts DEF AgentMessage

LEMMA MsgMade ==
    /\ \A c \in Seq(SaidCalls) : /\ AgentMessage(c) \in AgentMsg
                                 /\ AgentMessage(c).role = "assistant" /\ AgentMessage(c).calls = c
    /\ \A c \in SaidCalls, r \in ToolResults :
          /\ ToolMessage(c, r) \in AgentMsg
          /\ ToolMessage(c, r).role = "tool" /\ ToolMessage(c, r).id = c.id /\ ToolMessage(c, r).tool = c.tool
<1>1. ASSUME NEW c \in Seq(SaidCalls)
      PROVE  AgentMessage(c) \in AgentMsg /\ AgentMessage(c).role = "assistant" /\ AgentMessage(c).calls = c
    BY DEF AgentMessage, AgentMsg
<1>2. ASSUME NEW c \in SaidCalls, NEW r \in ToolResults
      PROVE  /\ ToolMessage(c, r) \in AgentMsg
             /\ ToolMessage(c, r).role = "tool" /\ ToolMessage(c, r).id = c.id /\ ToolMessage(c, r).tool = c.tool
    BY DEF ToolMessage, AgentMsg
<1> QED BY <1>1, <1>2

(* The calls of a message are answered, in order, by the messages after it. *)
AnswersCall(t, c) == t.role = "tool" /\ t.id = c.id /\ t.tool = c.tool
Answered(m, i) ==
    LET n == Len(m[i].calls)
    IN  /\ i + n <= Len(m) /\ \A k \in 1..n : AnswersCall(m[i + k], m[i].calls[k])
        /\ i + n < Len(m) => m[i + n + 1].role = "assistant"
AllAnswered(m) == \A i \in DOMAIN m : m[i].role = "assistant" => Answered(m, i)

(* The last message with calls is the one at p, and todo are the calls of   *)
(* it that no message answers yet.                                          *)
OpenAt(m, todo, p) ==
    LET n == Len(m[p].calls)
        d == Len(m) - p
    IN  /\ p \in 1..Len(m) /\ m[p].role = "assistant"
        /\ \A i \in 1..Len(m) : m[i].role = "assistant" => i <= p
        /\ \A i \in 1..Len(m) : m[i].role = "assistant" /\ i < p =>
              /\ i + Len(m[i].calls) < p
              /\ \A k \in 1..Len(m[i].calls) : AnswersCall(m[i + k], m[i].calls[k])
              /\ m[i + Len(m[i].calls) + 1].role = "assistant"
        /\ d <= n /\ Len(todo) = n - d
        /\ \A k \in 1..Len(todo) : todo[k] = m[p].calls[d + k]
        /\ \A k \in 1..d : AnswersCall(m[p + k], m[p].calls[k])

LEMMA AgentMessageNext ==
    ASSUME NEW m \in Seq(AgentMsg), AllAnswered(m), NEW c \in Seq(SaidCalls), NEW w, w = Append(m, AgentMessage(c))
    PROVE  /\ w \in Seq(AgentMsg) /\ OpenAt(w, c, Len(m) + 1)
           /\ c = <<>> => AllAnswered(w)
<1>1. PICK a \in AgentMsg : a = AgentMessage(c) /\ a.role = "assistant" /\ a.calls = c
    BY MsgMade
<1>2. PICK L : L = Len(m) /\ L \in Nat /\ DOMAIN m = 1..L /\ (\A i \in 1..L : m[i] \in AgentMsg)
    BY SeqFacts
<1>3. /\ w \in Seq(AgentMsg) /\ Len(w) = L + 1 /\ w[L + 1] = a
      /\ \A i \in 1..L : w[i] = m[i]
    BY <1>1, <1>2, AppendFacts
<1>4. DOMAIN w = 1..L + 1
    BY <1>3, SeqFacts
<1>5. Len(c) \in Nat
    BY SeqFacts
<1>6. ASSUME NEW i \in 1..L, w[i].role = "assistant"
      PROVE  /\ Len(w[i].calls) \in Nat /\ i + Len(w[i].calls) < L + 1
             /\ \A k \in 1..Len(w[i].calls) : AnswersCall(w[i + k], w[i].calls[k])
             /\ w[i + Len(w[i].calls) + 1].role = "assistant"
    <2>1. w[i] = m[i] /\ m[i] \in AgentMsg
        BY <1>2, <1>3
    <2>2. PICK n \in Nat : n = Len(m[i].calls)
        BY <1>6, <2>1, MsgFacts
    <2>3. /\ i + n <= L /\ \A k \in 1..n : AnswersCall(m[i + k], m[i].calls[k])
          /\ i + n < L => m[i + n + 1].role = "assistant"
        BY <1>2, <1>6, <2>1, <2>2 DEF AllAnswered, Answered
    <2>4. \A k \in 1..n : AnswersCall(w[i + k], w[i].calls[k])
        <3>1. ASSUME NEW k \in 1..n PROVE AnswersCall(w[i + k], w[i].calls[k])
            <4>1. i + k \in 1..L
                BY <1>2, <2>3
            <4> QED BY <1>3, <2>1, <2>3, <4>1
        <3> QED BY <3>1
    <2>5. w[i + n + 1].role = "assistant"
        <3>1. CASE i + n < L
            <4>1. i + n + 1 \in 1..L
                BY <1>2, <3>1
            <4> QED BY <1>3, <2>3, <3>1, <4>1
        <3>2. CASE i + n = L
            <4>1. i + n + 1 = L + 1
                BY <3>2
            <4> QED BY <1>1, <1>3, <4>1
        <3>3. i + n < L \/ i + n = L
            <4>1. i + n <= L /\ i + n \in Nat
                BY <1>2, <2>3
            <4> QED BY <1>2, <4>1
        <3> QED BY <3>1, <3>2, <3>3
    <2>6. i + n < L + 1
        BY <1>2, <2>3
    <2> QED BY <2>1, <2>2, <2>4, <2>5, <2>6
<1>7. OpenAt(w, c, L + 1)
    <2>1. L + 1 \in 1..Len(w) /\ w[L + 1].role = "assistant" /\ w[L + 1].calls = c
        BY <1>1, <1>2, <1>3
    <2>2. \A i \in 1..Len(w) : w[i].role = "assistant" => i <= L + 1
        BY <1>2, <1>3
    <2>3. \A i \in 1..Len(w) : w[i].role = "assistant" /\ i < L + 1 =>
              /\ i + Len(w[i].calls) < L + 1
              /\ \A k \in 1..Len(w[i].calls) : AnswersCall(w[i + k], w[i].calls[k])
              /\ w[i + Len(w[i].calls) + 1].role = "assistant"
        <3>1. ASSUME NEW i \in 1..Len(w), w[i].role = "assistant", i < L + 1 PROVE i \in 1..L
            BY <1>2, <1>3, <3>1
        <3> QED BY <1>6, <3>1
    <2>4. Len(w) - (L + 1) = 0
        BY <1>2, <1>3
    <2>5. \A k \in 1..Len(c) : c[k] = w[L + 1].calls[0 + k]
        BY <1>5, <2>1
    <2>6. 0 <= Len(w[L + 1].calls) /\ Len(c) = Len(w[L + 1].calls) - 0 /\ 1..0 = {}
        BY <1>5, <2>1
    <2> HIDE DEF AnswersCall
    <2> QED BY <2>1, <2>2, <2>3, <2>4, <2>5, <2>6 DEF OpenAt
<1>8. ASSUME c = <<>>, NEW i \in DOMAIN w, w[i].role = "assistant" PROVE Answered(w, i)
    <2>1. CASE i \in 1..L
        <3>1. i + Len(w[i].calls) <= Len(w)
            BY <1>2, <1>3, <1>6, <1>8, <2>1
        <3> QED BY <1>6, <1>8, <2>1, <3>1 DEF Answered
    <2>2. CASE i = L + 1
        <3>1. Len(w[i].calls) = 0
            BY <1>1, <1>3, <1>8, <2>2
        <3>2. i + 0 = Len(w) /\ 1..0 = {} /\ ~(i + 0 < Len(w)) /\ i + 0 <= Len(w)
            BY <1>2, <1>3, <2>2
        <3> QED BY <3>1, <3>2 DEF Answered
    <2> QED BY <1>2, <1>4, <1>8, <2>1, <2>2
<1>9. L + 1 = Len(m) + 1
    BY <1>2
<1> QED BY <1>3, <1>7, <1>8, <1>9 DEF AllAnswered

LEMMA ToolMessageNext ==
    ASSUME NEW m \in Seq(AgentMsg), NEW todo \in Seq(SaidCalls), NEW p, OpenAt(m, todo, p), todo # <<>>,
           NEW r \in ToolResults, NEW w, w = Append(m, ToolMessage(Head(todo), r))
    PROVE  w \in Seq(AgentMsg) /\ OpenAt(w, Tail(todo), p)
<1>1. PICK rest \in Seq(SaidCalls), c \in SaidCalls :
          /\ rest = Tail(todo) /\ c = Head(todo) /\ c = todo[1] /\ Len(rest) = Len(todo) - 1
          /\ \A i \in 1..Len(rest) : rest[i] = todo[i + 1] /\ i + 1 \in 1..Len(todo)
    BY TailFacts
<1>2. PICK t \in AgentMsg : t = ToolMessage(c, r) /\ t.role = "tool" /\ AnswersCall(t, c)
    BY MsgMade DEF AnswersCall
<1>3. PICK L : L = Len(m) /\ L \in Nat /\ DOMAIN m = 1..L /\ (\A i \in 1..L : m[i] \in AgentMsg)
    BY SeqFacts
<1>4. /\ w \in Seq(AgentMsg) /\ Len(w) = L + 1 /\ w[L + 1] = t
      /\ \A i \in 1..L : w[i] = m[i]
    BY <1>1, <1>2, <1>3, AppendFacts
<1>5. /\ p \in 1..L /\ m[p].role = "assistant"
      /\ \A i \in 1..L : m[i].role = "assistant" => i <= p
      /\ \A i \in 1..L : m[i].role = "assistant" /\ i < p =>
            /\ i + Len(m[i].calls) < p
            /\ \A k \in 1..Len(m[i].calls) : AnswersCall(m[i + k], m[i].calls[k])
            /\ m[i + Len(m[i].calls) + 1].role = "assistant"
    BY <1>3 DEF OpenAt
<1>6. PICK n \in Nat : n = Len(m[p].calls) /\ w[p] = m[p] /\ n = Len(w[p].calls)
    BY <1>3, <1>4, <1>5, MsgFacts
<1>7. PICK d : d = L - p /\ d \in Nat
    BY <1>3, <1>5
<1>8. /\ d <= n /\ Len(todo) = n - d
      /\ \A k \in 1..Len(todo) : todo[k] = m[p].calls[d + k]
      /\ \A k \in 1..d : AnswersCall(m[p + k], m[p].calls[k])
    BY <1>3, <1>6, <1>7 DEF OpenAt
<1>9. Len(todo) \in Nat /\ 1 \in 1..Len(todo)
    BY TailFacts
<1>10. d + 1 <= n /\ Len(rest) = n - (d + 1) /\ Len(w) - p = d + 1
    BY <1>1, <1>3, <1>4, <1>5, <1>7, <1>8, <1>9
<1>11. \A k \in 1..Len(rest) : rest[k] = w[p].calls[(d + 1) + k]
    <2>1. ASSUME NEW k \in 1..Len(rest) PROVE rest[k] = w[p].calls[(d + 1) + k]
        <3>1. rest[k] = todo[k + 1] /\ k + 1 \in 1..Len(todo)
            BY <1>1
        <3>2. todo[k + 1] = m[p].calls[d + (k + 1)]
            BY <1>8, <3>1
        <3>3. d + (k + 1) = (d + 1) + k
            BY <1>7
        <3> QED BY <1>6, <3>1, <3>2, <3>3
    <2> QED BY <2>1
<1>12. \A k \in 1..d + 1 : AnswersCall(w[p + k], w[p].calls[k])
    <2>1. ASSUME NEW k \in 1..d + 1 PROVE AnswersCall(w[p + k], w[p].calls[k])
        <3>1. CASE k \in 1..d
            <4>1. p + k \in 1..L
                BY <1>3, <1>5, <1>7, <3>1
            <4> QED BY <1>4, <1>6, <1>8, <3>1, <4>1
        <3>2. CASE k = d + 1
            <4>1. p + k = L + 1
                BY <1>3, <1>5, <1>7, <3>2
            <4>2. c = m[p].calls[d + 1]
                BY <1>1, <1>8, <1>9
            <4>3. w[p + k] = t /\ w[p].calls[k] = c
                BY <1>4, <1>6, <3>2, <4>1, <4>2
            <4> QED BY <1>2, <4>3
        <3>3. k \in 1..d \/ k = d + 1
            BY <1>7
        <3> QED BY <3>1, <3>2, <3>3
    <2> QED BY <2>1
<1>13. ASSUME NEW i \in 1..Len(w), w[i].role = "assistant" PROVE i \in 1..L /\ w[i] = m[i]
    <2>1. i # L + 1
        BY <1>2, <1>4, <1>13
    <2> QED BY <1>3, <1>4, <2>1
<1>14. \A i \in 1..Len(w) : w[i].role = "assistant" => i <= p
    BY <1>5, <1>13
<1>15. ASSUME NEW i \in 1..Len(w), w[i].role = "assistant", i < p
       PROVE  /\ i + Len(w[i].calls) < p
              /\ \A k \in 1..Len(w[i].calls) : AnswersCall(w[i + k], w[i].calls[k])
              /\ w[i + Len(w[i].calls) + 1].role = "assistant"
    <2>1. i \in 1..L /\ w[i] = m[i]
        BY <1>13, <1>15
    <2>2. PICK q \in Nat : q = Len(m[i].calls) /\ q = Len(w[i].calls)
        BY <1>3, <1>15, <2>1, MsgFacts
    <2> DEFINE Ahead(x) == /\ x + Len(m[x].calls) < p
                           /\ \A k \in 1..Len(m[x].calls) : AnswersCall(m[x + k], m[x].calls[k])
                           /\ m[x + Len(m[x].calls) + 1].role = "assistant"
    <2>5. \A x \in 1..L : m[x].role = "assistant" /\ x < p => Ahead(x)
        BY <1>5
    <2>6. Ahead(i)
        <3> HIDE DEF Ahead
        <3> QED BY <1>15, <2>1, <2>5
    <2>3. /\ i + q < p
          /\ \A k \in 1..q : AnswersCall(m[i + k], m[i].calls[k])
          /\ m[i + q + 1].role = "assistant"
        BY <2>2, <2>6
    <2>4. i + q + 1 \in 1..L /\ \A k \in 1..q : i + k \in 1..L
        BY <1>3, <1>5, <2>1, <2>3
    <2> QED BY <1>4, <2>1, <2>2, <2>3, <2>4
<1>16. p \in 1..Len(w) /\ w[p].role = "assistant"
    BY <1>3, <1>4, <1>5, <1>6
<1>17. OpenAt(w, rest, p)
    <2> HIDE DEF AnswersCall
    <2> QED BY <1>6, <1>10, <1>11, <1>12, <1>14, <1>15, <1>16 DEF OpenAt
<1> QED BY <1>1, <1>4, <1>17

LEMMA RoundAnswered ==
    ASSUME NEW m \in Seq(AgentMsg), NEW p, OpenAt(m, <<>>, p)
    PROVE  AllAnswered(m)
<1>1. PICK L : L = Len(m) /\ L \in Nat /\ DOMAIN m = 1..L /\ (\A i \in 1..L : m[i] \in AgentMsg)
    BY SeqFacts
<1>2. /\ p \in 1..L /\ m[p].role = "assistant"
      /\ \A i \in 1..L : m[i].role = "assistant" => i <= p
      /\ \A i \in 1..L : m[i].role = "assistant" /\ i < p =>
            /\ i + Len(m[i].calls) < p
            /\ \A k \in 1..Len(m[i].calls) : AnswersCall(m[i + k], m[i].calls[k])
            /\ m[i + Len(m[i].calls) + 1].role = "assistant"
    BY <1>1 DEF OpenAt
<1>3. PICK n \in Nat : n = Len(m[p].calls)
    BY <1>1, <1>2, MsgFacts
<1>4. /\ L - p <= n /\ 0 = n - (L - p)
      /\ \A k \in 1..(L - p) : AnswersCall(m[p + k], m[p].calls[k])
    BY <1>1, <1>3, EmptySeq DEF OpenAt
<1>5. p + n = L /\ n = L - p
    BY <1>1, <1>2, <1>4
<1>6. ASSUME NEW i \in DOMAIN m, m[i].role = "assistant" PROVE Answered(m, i)
    <2>1. i \in 1..L /\ i <= p
        BY <1>1, <1>2, <1>6
    <2>2. CASE i < p
        <3>1. PICK q \in Nat : q = Len(m[i].calls)
            BY <1>1, <1>6, <2>1, MsgFacts
        <3> DEFINE Ahead(x) == /\ x + Len(m[x].calls) < p
                               /\ \A k \in 1..Len(m[x].calls) : AnswersCall(m[x + k], m[x].calls[k])
                               /\ m[x + Len(m[x].calls) + 1].role = "assistant"
        <3>4. \A x \in 1..L : m[x].role = "assistant" /\ x < p => Ahead(x)
            BY <1>2
        <3>5. Ahead(i)
            <4> HIDE DEF Ahead
            <4> QED BY <1>6, <2>1, <2>2, <3>4
        <3>2. /\ i + q < p
              /\ \A k \in 1..q : AnswersCall(m[i + k], m[i].calls[k])
              /\ m[i + q + 1].role = "assistant"
            BY <3>1, <3>5
        <3>3. i + q <= L
            BY <1>1, <1>2, <2>1, <3>2
        <3> QED BY <1>1, <3>1, <3>2, <3>3 DEF Answered
    <2>3. CASE i = p
        <3>1. \A k \in 1..n : AnswersCall(m[p + k], m[p].calls[k])
            BY <1>4, <1>5
        <3>2. p + n <= L /\ ~(p + n < L)
            BY <1>1, <1>5
        <3> QED BY <1>1, <1>3, <2>3, <3>1, <3>2 DEF Answered
    <2> QED BY <1>2, <2>1, <2>2, <2>3
<1> QED BY <1>6 DEF AllAnswered

-----------------------------------------------------------------------------
(* What the agent ran, and what its rounds say of it.                       *)
SaidTools == {c.tool : c \in SaidCalls}
RecordEntries == {[call |-> c, result |-> r] : c \in SaidCalls, r \in ToolResults}
PieceOf(e) == IF ToolRan(e.call.tool) THEN <<e.call.tool>> ELSE <<>>

LEMMA PieceShape == \A e \in RecordEntries : PieceOf(e) \in Seq(SaidTools)
<1>1. ASSUME NEW e \in RecordEntries PROVE PieceOf(e) \in Seq(SaidTools)
    <2>1. PICK t \in SaidTools : t = e.call.tool
        BY DEF RecordEntries, SaidTools
    <2> QED BY <2>1, OneSeq, EmptySeq DEF PieceOf
<1> QED BY <1>1

LEMMA RanOfMore ==
    ASSUME NEW l \in Seq(RecordEntries), NEW e \in RecordEntries
    PROVE  RanOf(l) \in Seq(SaidTools) /\ RanOf(Append(l, e)) = RanOf(l) \o PieceOf(e)
<1> DEFINE P(s) == [i \in DOMAIN s |-> PieceOf(s[i])]
<1>1. PICK L, w : /\ L = Len(l) /\ L \in Nat /\ DOMAIN l = 1..L /\ (\A i \in 1..L : l[i] \in RecordEntries)
                  /\ w = Append(l, e)
    BY SeqFacts
<1>2. /\ w \in Seq(RecordEntries) /\ Len(w) = L + 1 /\ DOMAIN w = 1..L + 1 /\ w[L + 1] = e
      /\ \A i \in 1..L : w[i] = l[i]
    BY <1>1, AppendFacts, SeqFacts
<1>3. P(l) \in [1..L -> Seq(SaidTools)]
    BY <1>1, PieceShape
<1>4. P(l) \in Seq(Seq(SaidTools)) /\ Len(P(l)) = L
    <2> HIDE DEF P
    <2> QED BY <1>1, <1>3
<1>5. PICK z \in Seq(SaidTools) : z = PieceOf(e)
    BY PieceShape
<1>6. P(w) = Append(P(l), z)
    <2>1. PICK u : u = Append(P(l), z)
        OBVIOUS
    <2>2. /\ u \in Seq(Seq(SaidTools)) /\ Len(u) = L + 1 /\ u[L + 1] = z
          /\ \A i \in 1..L : u[i] = P(l)[i]
        <3> HIDE DEF P
        <3> QED BY <1>4, <2>1, AppendFacts
    <2>3. DOMAIN u = 1..L + 1 /\ u = [i \in 1..L + 1 |-> u[i]]
        BY <2>2, SeqFacts
    <2>4. \A i \in 1..L + 1 : i \in 1..L \/ i = L + 1
        BY <1>1
    <2>5. \A i \in 1..L + 1 : u[i] = PieceOf(w[i])
        BY <1>1, <1>2, <1>5, <2>2, <2>4
    <2>6. P(w) = [i \in 1..L + 1 |-> PieceOf(w[i])]
        BY <1>2
    <2> HIDE DEF P
    <2> QED BY <2>1, <2>3, <2>5, <2>6
<1> HIDE DEF P
<1>7. FlattenSeq(P(l)) \in Seq(SaidTools) /\ FlattenSeq(Append(P(l), z)) = FlattenSeq(P(l)) \o z
    BY <1>4, FlattenMembers, FlattenAppend
<1>8. RanOf(l) = FlattenSeq(P(l)) /\ RanOf(w) = FlattenSeq(P(w))
    BY DEF RanOf, P, PieceOf
<1> QED BY <1>1, <1>5, <1>6, <1>7, <1>8

(* A log is genuine: what ran is in it, and what it calls ok ran.           *)
Genuine(log, ran) ==
    /\ ran = RanOf(log)
    /\ \A i \in DOMAIN log : log[i].result = "ok" =>
          \E k \in DOMAIN ran : ran[k] = log[i].call.tool

LEMMA FlattenNone == FlattenSeq(<<>>) = <<>>
<1>1. PICK ss : ss = <<>> /\ ss \in Seq(Seq({})) /\ Len(ss) = 0
    <2>1. <<>> \in Seq(Seq({})) /\ Len(<<>>) = 0
        BY EmptySeq
    <2> QED BY <2>1, Zenon
<1>2. PICK g : FlattenRun(g, ss, {}) /\ FlattenSeq(ss) = g[Len(ss)]
    BY <1>1, FlattenRuns
<1>3. g[0] = <<>>
    BY <1>2 DEF FlattenRun
<1> QED BY <1>1, <1>2, <1>3

LEMMA RanEmpty == RanOf(<<>>) = <<>>
<1> DEFINE P == [i \in DOMAIN <<>> |-> PieceOf(<<>>[i])]
<1>1. P = <<>>
    OBVIOUS
<1>2. RanOf(<<>>) = FlattenSeq(P)
    BY DEF RanOf, PieceOf
<1> HIDE DEF P
<1> QED BY <1>1, <1>2, FlattenNone

LEMMA GenuineMore ==
    ASSUME NEW log \in Seq(RecordEntries), NEW ran \in Seq(SaidTools), Genuine(log, ran),
           NEW e \in RecordEntries, e.result = "ok" => ToolRan(e.call.tool)
    PROVE  Genuine(Append(log, e), IF ToolRan(e.call.tool) THEN Append(ran, e.call.tool) ELSE ran)
<1>1. PICK L, w, more, R : /\ L = Len(log) /\ L \in Nat /\ DOMAIN log = 1..L
                           /\ w = Append(log, e) /\ R = Len(ran) /\ R \in Nat /\ DOMAIN ran = 1..R
                           /\ more = IF ToolRan(e.call.tool) THEN Append(ran, e.call.tool) ELSE ran
    BY SeqFacts
<1>2. /\ w \in Seq(RecordEntries) /\ DOMAIN w = 1..L + 1 /\ w[L + 1] = e
      /\ \A i \in 1..L : w[i] = log[i]
    BY <1>1, AppendFacts, SeqFacts
<1>3. PICK t \in SaidTools : t = e.call.tool
    BY DEF RecordEntries, SaidTools
<1>4. Append(ran, t) = ran \o <<t>> /\ ran \o <<>> = ran
    BY <1>1, <1>3
<1>5. more = RanOf(w)
    <2>1. RanOf(w) = ran \o PieceOf(e)
        BY <1>1, RanOfMore DEF Genuine
    <2> QED BY <1>1, <1>3, <1>4, <2>1 DEF PieceOf
<1>6. /\ ToolRan(e.call.tool) => \E k \in DOMAIN more : more[k] = t
      /\ \A k \in DOMAIN ran : k \in DOMAIN more /\ more[k] = ran[k]
    <2>1. CASE ToolRan(e.call.tool)
        <3>1. more = Append(ran, t)
            BY <1>1, <1>3, <2>1
        <3>2. /\ DOMAIN more = 1..R + 1 /\ more[R + 1] = t
              /\ \A i \in 1..R : more[i] = ran[i] /\ i \in 1..R + 1
            BY <1>1, <3>1, AppendFacts, SeqFacts
        <3>3. R + 1 \in 1..R + 1
            BY <1>1
        <3> QED BY <1>1, <3>2, <3>3
    <2>2. CASE ~ToolRan(e.call.tool)
        BY <1>1, <2>2
    <2> QED BY <2>1, <2>2
<1>7. ASSUME NEW i \in DOMAIN w, w[i].result = "ok"
      PROVE  \E k \in DOMAIN more : more[k] = w[i].call.tool
    <2>1. CASE i = L + 1
        BY <1>2, <1>3, <1>6, <1>7, <2>1
    <2>2. CASE i \in 1..L
        BY <1>1, <1>2, <1>6, <1>7, <2>2 DEF Genuine
    <2>3. i = L + 1 \/ i \in 1..L
        BY <1>1, <1>2
    <2> QED BY <2>1, <2>2, <2>3
<1> QED BY <1>1, <1>5, <1>7 DEF Genuine

(* How often the model was asked.                                           *)
AskedTimes(m) == Cardinality({i \in DOMAIN m : m[i].role = "assistant"})

LEMMA AskedTimesMore ==
    ASSUME NEW m \in Seq(AgentMsg), NEW a \in AgentMsg
    PROVE  /\ AskedTimes(m) \in Nat
           /\ AskedTimes(Append(m, a)) = IF a.role = "assistant" THEN AskedTimes(m) + 1 ELSE AskedTimes(m)
<1> DEFINE S(s) == {i \in DOMAIN s : s[i].role = "assistant"}
<1>1. PICK L, w : L = Len(m) /\ L \in Nat /\ DOMAIN m = 1..L /\ w = Append(m, a)
    BY SeqFacts
<1>2. /\ DOMAIN w = 1..L + 1 /\ w[L + 1] = a
      /\ \A i \in 1..L : w[i] = m[i]
    BY <1>1, AppendFacts, SeqFacts
<1>3. S(w) = IF a.role = "assistant" THEN S(m) \cup {L + 1} ELSE S(m)
    <2>1. 1..L + 1 = 1..L \cup {L + 1}
        BY <1>1
    <2> QED BY <1>1, <1>2, <2>1
<1>4. L + 1 \notin S(m)
    BY <1>1
<1>5. IsFiniteSet(S(m))
    <2>1. IsFiniteSet(1..L)
        BY <1>1, FS_Interval
    <2>2. S(m) \subseteq 1..L
        BY <1>1
    <2> HIDE DEF S
    <2> QED BY <2>1, <2>2, FS_Subset
<1> HIDE DEF S
<1>6. Cardinality(S(m)) \in Nat /\ Cardinality(S(m) \cup {L + 1}) = Cardinality(S(m)) + 1
    BY <1>4, <1>5, FS_AddElement, FS_CardinalityType
<1>7. AskedTimes(m) = Cardinality(S(m)) /\ AskedTimes(w) = Cardinality(S(w))
    BY DEF AskedTimes, S
<1> QED BY <1>1, <1>3, <1>6, <1>7

AgentShapeInv ==
    /\ messages \in Seq(AgentMsg) /\ callsLeft \in Seq(SaidCalls) /\ executed \in Seq(SaidTools)
    /\ record \in Seq(RecordEntries) /\ rounds \in Seq(Seq(RecordEntries))
    /\ agentStatus \in {"asking", "calling", "completed", "max_tool_rounds_exceeded", "max_tool_calls_exceeded"}
    /\ roundIndex \in Nat /\ toolCalls \in Nat
AgentOrderInv ==
    /\ agentStatus \in {"asking", "completed"} => AllAnswered(messages)
    /\ agentStatus = "calling" => \E p \in 1..Len(messages) : OpenAt(messages, callsLeft, p)
AgentCountInv ==
    /\ Len(executed) <= toolCalls /\ Len(executed) <= MaxToolCalls
    /\ AskedTimes(messages) <= MaxToolRounds + 1
    /\ agentStatus = "asking" => AskedTimes(messages) = roundIndex /\ roundIndex <= MaxToolRounds
    /\ agentStatus = "calling" => AskedTimes(messages) = roundIndex + 1 /\ roundIndex < MaxToolRounds
AgentLogInv ==
    /\ \A i \in DOMAIN executed : ToolRan(executed[i])
    /\ agentStatus \in {"asking", "completed"} => Genuine(FlattenSeq(rounds), executed)
    /\ agentStatus = "calling" => Genuine(FlattenSeq(rounds) \o record, executed)
AgentInv == AgentShapeInv /\ AgentOrderInv /\ AgentCountInv /\ AgentLogInv

LEMMA AgentInitInv == AgentInit => AgentInv
<1> SUFFICES ASSUME AgentInit PROVE AgentInv
    OBVIOUS
<1>1. /\ messages = <<[role |-> "user"]>> /\ roundIndex = 0 /\ toolCalls = 0 /\ agentStatus = "asking"
      /\ callsLeft = <<>> /\ record = <<>> /\ rounds = <<>> /\ executed = <<>>
    BY DEF AgentInit
<1>2. PICK u \in AgentMsg : u = [role |-> "user"] /\ u.role = "user"
    <2>1. [role |-> "user"] \in AgentMsg /\ [role |-> "user"].role = "user"
        BY DEF AgentMsg
    <2> QED BY <2>1
<1>3. PICK m \in Seq(AgentMsg) : m = messages /\ Len(m) = 1 /\ m[1] = u /\ DOMAIN m = 1..1 /\ 1..1 = {1}
    <2>1. <<u>> \in Seq(AgentMsg) /\ Len(<<u>>) = 1 /\ <<u>>[1] = u /\ 1..1 = {1}
        BY OneSeq
    <2>2. DOMAIN <<u>> = 1..Len(<<u>>)
        BY <2>1, SeqFacts
    <2> QED BY <1>1, <1>2, <2>1, <2>2
<1>4. AgentShapeInv
    BY <1>1, <1>3, EmptySeq DEF AgentShapeInv
<1>5. \A i \in DOMAIN m : m[i].role # "assistant"
    BY <1>2, <1>3
<1>6. AgentOrderInv
    BY <1>1, <1>3, <1>5 DEF AgentOrderInv, AllAnswered
<1>7. AgentCountInv
    <2>1. {i \in DOMAIN m : m[i].role = "assistant"} = {}
        BY <1>5
    <2>2. AskedTimes(messages) = 0
        BY <1>3, <2>1, FS_EmptySet DEF AskedTimes
    <2>3. Len(executed) = 0
        BY <1>1, EmptySeq
    <2> QED BY <1>1, <2>2, <2>3, AgentAssumption DEF AgentCountInv
<1>8. AgentLogInv
    <2>1. DOMAIN executed = {}
        BY <1>1
    <2>2. FlattenSeq(rounds) = <<>>
        BY <1>1, FlattenNone
    <2>3. Genuine(<<>>, <<>>)
        <3>1. DOMAIN <<>> = {}
            OBVIOUS
        <3> QED BY <3>1, RanEmpty DEF Genuine
    <2> QED BY <1>1, <2>1, <2>2, <2>3 DEF AgentLogInv
<1> QED BY <1>4, <1>6, <1>7, <1>8 DEF AgentInv

LEMMA AgentAsksStep ==
    ASSUME AgentInv, NEW said \in AgentReplies, AgentAsks(said)
    PROVE  AgentInv'
<1>1. PICK c \in Seq(SaidCalls) :
          /\ messages' = Append(messages, AgentMessage(c)) /\ callsLeft' = c
          /\ agentStatus' = CASE c = <<>> -> "completed"
                              [] c # <<>> /\ roundIndex >= MaxToolRounds -> "max_tool_rounds_exceeded"
                              [] OTHER -> "calling"
    BY SaidShape DEF AgentAsks
<1>2. /\ agentStatus = "asking" /\ record' = <<>> /\ roundIndex' = roundIndex /\ toolCalls' = toolCalls
      /\ rounds' = rounds /\ executed' = executed
    BY DEF AgentAsks
<1>3. /\ messages \in Seq(AgentMsg) /\ executed \in Seq(SaidTools) /\ rounds \in Seq(Seq(RecordEntries))
      /\ roundIndex \in Nat /\ toolCalls \in Nat /\ AllAnswered(messages)
      /\ Len(executed) <= toolCalls /\ Len(executed) <= MaxToolCalls
      /\ AskedTimes(messages) = roundIndex /\ roundIndex <= MaxToolRounds
      /\ (\A i \in DOMAIN executed : ToolRan(executed[i])) /\ Genuine(FlattenSeq(rounds), executed)
    BY <1>2 DEF AgentInv, AgentShapeInv, AgentOrderInv, AgentCountInv, AgentLogInv
<1>4. PICK w : w = messages' /\ w = Append(messages, AgentMessage(c))
    BY <1>1
<1>5. w \in Seq(AgentMsg) /\ OpenAt(w, c, Len(messages) + 1) /\ (c = <<>> => AllAnswered(w))
    BY <1>3, <1>4, AgentMessageNext
<1>6. \/ c = <<>> /\ agentStatus' = "completed"
      \/ c # <<>> /\ roundIndex >= MaxToolRounds /\ agentStatus' = "max_tool_rounds_exceeded"
      \/ c # <<>> /\ ~(roundIndex >= MaxToolRounds) /\ agentStatus' = "calling"
    BY <1>1
<1>7. AgentShapeInv'
    BY <1>1, <1>2, <1>3, <1>4, <1>5, <1>6, EmptySeq DEF AgentShapeInv
<1>8. AgentOrderInv'
    <2>1. CASE agentStatus' = "completed"
        BY <1>4, <1>5, <1>6, <2>1 DEF AgentOrderInv
    <2>2. CASE agentStatus' = "calling"
        <3>1. Len(messages) + 1 \in 1..Len(w)
            BY <1>5 DEF OpenAt
        <3> QED BY <1>1, <1>4, <1>5, <2>2, <3>1 DEF AgentOrderInv
    <2>3. CASE agentStatus' = "max_tool_rounds_exceeded"
        BY <2>3 DEF AgentOrderInv
    <2> QED BY <1>6, <2>1, <2>2, <2>3
<1>9. AgentCountInv'
    <2>1. AskedTimes(w) = roundIndex + 1
        <3>1. PICK a \in AgentMsg : a = AgentMessage(c) /\ a.role = "assistant"
            BY MsgMade
        <3> QED BY <1>3, <1>4, <3>1, AskedTimesMore
    <2>2. agentStatus' # "asking" /\ (agentStatus' = "calling" => ~(roundIndex >= MaxToolRounds))
        BY <1>6
    <2>3. /\ Len(executed') <= toolCalls' /\ Len(executed') <= MaxToolCalls
          /\ AskedTimes(messages') = roundIndex + 1 /\ roundIndex' = roundIndex
        BY <1>2, <1>3, <1>4, <2>1
    <2>4. roundIndex + 1 <= MaxToolRounds + 1
        BY <1>3, AgentAssumption
    <2>5. agentStatus' = "calling" => roundIndex < MaxToolRounds
        BY <1>3, <2>2, AgentAssumption
    <2> QED BY <2>2, <2>3, <2>4, <2>5 DEF AgentCountInv
<1>10. AgentLogInv'
    <2>1. FlattenSeq(rounds) \o <<>> = FlattenSeq(rounds)
        <3>1. FlattenSeq(rounds) \in Seq(RecordEntries)
            BY <1>3, FlattenMembers
        <3> QED BY <3>1
    <2> QED BY <1>2, <1>3, <2>1 DEF AgentLogInv
<1> QED BY <1>7, <1>8, <1>9, <1>10 DEF AgentInv

LEMMA AgentExceedsStep ==
    ASSUME AgentInv, AgentExceeds
    PROVE  AgentInv'
<1>1. /\ toolCalls' = toolCalls + 1 /\ agentStatus' = "max_tool_calls_exceeded"
      /\ UNCHANGED <<messages, roundIndex, callsLeft, record, rounds, executed>>
    BY DEF AgentExceeds
<1>2. AgentShapeInv' /\ AgentOrderInv' /\ AgentLogInv'
    BY <1>1 DEF AgentInv, AgentShapeInv, AgentOrderInv, AgentLogInv
<1>3. AgentCountInv'
    <2>1. Len(executed) \in Nat /\ toolCalls \in Nat /\ Len(executed) <= toolCalls
        BY SeqFacts DEF AgentInv, AgentShapeInv, AgentCountInv
    <2>2. Len(executed) <= toolCalls + 1
        BY <2>1
    <2> QED BY <1>1, <2>2 DEF AgentInv, AgentCountInv
<1> QED BY <1>2, <1>3 DEF AgentInv

LEMMA AgentCallsStep ==
    ASSUME AgentInv, AgentCalls
    PROVE  AgentInv'
<1>1. /\ agentStatus = "calling" /\ callsLeft # <<>> /\ toolCalls < MaxToolCalls /\ toolCalls' = toolCalls + 1
      /\ callsLeft' = Tail(callsLeft) /\ roundIndex' = roundIndex /\ rounds' = rounds /\ agentStatus' = "calling"
    BY DEF AgentCalls
<1>2. /\ messages \in Seq(AgentMsg) /\ callsLeft \in Seq(SaidCalls) /\ executed \in Seq(SaidTools)
      /\ record \in Seq(RecordEntries) /\ rounds \in Seq(Seq(RecordEntries)) /\ roundIndex \in Nat /\ toolCalls \in Nat
      /\ Len(executed) <= toolCalls /\ AskedTimes(messages) <= MaxToolRounds + 1
      /\ AskedTimes(messages) = roundIndex + 1 /\ roundIndex < MaxToolRounds
      /\ (\A i \in DOMAIN executed : ToolRan(executed[i])) /\ Genuine(FlattenSeq(rounds) \o record, executed)
    BY <1>1 DEF AgentInv, AgentShapeInv, AgentCountInv, AgentLogInv
<1>3. PICK p \in 1..Len(messages) : OpenAt(messages, callsLeft, p)
    BY <1>1 DEF AgentInv, AgentOrderInv
<1>4. PICK c \in SaidCalls : c = Head(callsLeft)
    BY <1>1, <1>2, TailFacts
<1>5. PICK r \in ToolResults :
          /\ r = "ok" => ToolRan(c.tool)
          /\ messages' = Append(messages, ToolMessage(c, r))
          /\ record' = Append(record, [call |-> c, result |-> r])
          /\ executed' = IF ToolRan(c.tool) THEN Append(executed, c.tool) ELSE executed
    <2>1. PICK r \in IF AllowedTool(c.tool) THEN InvokeResults(c.tool) ELSE {"denied"} :
              /\ messages' = Append(messages, ToolMessage(c, r))
              /\ record' = Append(record, [call |-> c, result |-> r])
              /\ executed' = IF AllowedTool(c.tool) /\ RunsTool(c.tool) THEN Append(executed, c.tool) ELSE executed
        BY <1>4 DEF AgentCalls
    <2>2. r \in ToolResults /\ (r = "ok" => ToolRan(c.tool))
        BY <2>1 DEF InvokeResults, ToolResults, ToolRan
    <2> QED BY <2>1, <2>2 DEF ToolRan
<1>6. PICK e \in RecordEntries : e = [call |-> c, result |-> r] /\ e.call = c /\ e.result = r
    <2>1. [call |-> c, result |-> r] \in RecordEntries
        BY DEF RecordEntries
    <2>2. [call |-> c, result |-> r].call = c /\ [call |-> c, result |-> r].result = r
        OBVIOUS
    <2> QED BY <2>1, <2>2
<1>7. PICK t \in SaidTools : t = c.tool
    BY DEF SaidTools
<1>8. PICK w, more : /\ w = messages' /\ w = Append(messages, ToolMessage(c, r))
                     /\ more = executed' /\ more = IF ToolRan(t) THEN Append(executed, t) ELSE executed
    BY <1>5, <1>7
<1>9. w \in Seq(AgentMsg) /\ OpenAt(w, Tail(callsLeft), p)
    BY <1>1, <1>2, <1>3, <1>4, <1>8, ToolMessageNext
<1>10. more \in Seq(SaidTools) /\ Tail(callsLeft) \in Seq(SaidCalls) /\ Append(record, e) \in Seq(RecordEntries)
    BY <1>1, <1>2, <1>8, AppendFacts, TailFacts
<1>11. AgentShapeInv'
    <2>1. toolCalls + 1 \in Nat
        BY <1>2
    <2> QED BY <1>1, <1>2, <1>5, <1>6, <1>8, <1>9, <1>10, <2>1 DEF AgentShapeInv
<1>12. AgentOrderInv'
    <2>1. p \in 1..Len(w)
        BY <1>9 DEF OpenAt
    <2> QED BY <1>1, <1>8, <1>9, <2>1 DEF AgentOrderInv
<1>13. AgentCountInv'
    <2>1. AskedTimes(w) = AskedTimes(messages)
        <3>1. PICK a \in AgentMsg : a = ToolMessage(c, r) /\ a.role = "tool"
            BY MsgMade
        <3> QED BY <1>2, <1>8, <3>1, AskedTimesMore
    <2>2. Len(executed) \in Nat
        BY <1>2, SeqFacts
    <2>3. Len(more) = Len(executed) \/ Len(more) = Len(executed) + 1
        BY <1>2, <1>8, AppendFacts
    <2>4. Len(more) <= toolCalls + 1 /\ Len(more) <= MaxToolCalls
        BY <1>1, <1>2, <2>2, <2>3, AgentAssumption
    <2> QED BY <1>1, <1>2, <1>8, <2>1, <2>4 DEF AgentCountInv
<1>14. AgentLogInv'
    <2>1. PICK log \in Seq(RecordEntries) : log = FlattenSeq(rounds) \o record
        <3>1. FlattenSeq(rounds) \in Seq(RecordEntries)
            BY <1>2, FlattenMembers
        <3> QED BY <1>2, <3>1, ConcatFacts
    <2>2. FlattenSeq(rounds) \o record' = Append(log, e)
        <3>1. FlattenSeq(rounds) \in Seq(RecordEntries)
            BY <1>2, FlattenMembers
        <3>2. record' = Append(record, e)
            BY <1>5, <1>6
        <3>3. \A f \in Seq(RecordEntries) : f \o Append(record, e) = Append(f \o record, e)
            BY <1>2
        <3> QED BY <2>1, <3>1, <3>2, <3>3
    <2>3. Genuine(Append(log, e), more)
        <3>1. e.result = "ok" => ToolRan(e.call.tool)
            BY <1>5, <1>6
        <3> QED BY <1>2, <1>6, <1>7, <1>8, <2>1, <3>1, GenuineMore
    <2>4. \A i \in DOMAIN more : ToolRan(more[i])
        <3>1. CASE ToolRan(t)
            <4>1. /\ more \in Seq(SaidTools) /\ Len(more) = Len(executed) + 1 /\ more[Len(executed) + 1] = t
                  /\ \A i \in 1..Len(executed) : more[i] = executed[i]
                  /\ \A i \in 1..Len(executed) + 1 : i \in 1..Len(executed) \/ i = Len(executed) + 1
                BY <1>2, <1>8, <3>1, AppendFacts
            <4>2. DOMAIN more = 1..Len(executed) + 1 /\ DOMAIN executed = 1..Len(executed)
                BY <1>2, <4>1, SeqFacts
            <4> QED BY <1>2, <3>1, <4>1, <4>2
        <3>2. CASE ~ToolRan(t)
            BY <1>2, <1>8, <3>2
        <3> QED BY <3>1, <3>2
    <2> QED BY <1>1, <1>8, <2>2, <2>3, <2>4 DEF AgentLogInv
<1> QED BY <1>11, <1>12, <1>13, <1>14 DEF AgentInv

LEMMA AgentRoundEndsStep ==
    ASSUME AgentInv, AgentRoundEnds
    PROVE  AgentInv'
<1>1. /\ agentStatus = "calling" /\ callsLeft = <<>> /\ rounds' = Append(rounds, record)
      /\ roundIndex' = roundIndex + 1 /\ agentStatus' = "asking"
      /\ UNCHANGED <<messages, callsLeft, toolCalls, record, executed>>
    BY DEF AgentRoundEnds
<1>2. /\ messages \in Seq(AgentMsg) /\ callsLeft \in Seq(SaidCalls) /\ executed \in Seq(SaidTools)
      /\ record \in Seq(RecordEntries) /\ rounds \in Seq(Seq(RecordEntries)) /\ roundIndex \in Nat /\ toolCalls \in Nat
    BY DEF AgentInv, AgentShapeInv
<1>3. AgentShapeInv'
    <2>1. Append(rounds, record) \in Seq(Seq(RecordEntries)) /\ roundIndex + 1 \in Nat
        BY <1>2
    <2> QED BY <1>1, <1>2, <2>1 DEF AgentShapeInv
<1>4. AgentOrderInv'
    <2>1. AllAnswered(messages)
        BY <1>1, <1>2, RoundAnswered DEF AgentInv, AgentOrderInv
    <2> QED BY <1>1, <2>1 DEF AgentOrderInv
<1>5. AgentCountInv'
    <2>1. AskedTimes(messages) = roundIndex + 1 /\ roundIndex < MaxToolRounds
        BY <1>1 DEF AgentInv, AgentCountInv
    <2>2. roundIndex + 1 <= MaxToolRounds
        BY <1>2, <2>1, AgentAssumption
    <2> QED BY <1>1, <2>1, <2>2 DEF AgentInv, AgentCountInv
<1>6. AgentLogInv'
    <2>1. FlattenSeq(Append(rounds, record)) = FlattenSeq(rounds) \o record
        BY <1>2, FlattenAppend
    <2> QED BY <1>1, <2>1 DEF AgentInv, AgentLogInv
<1> QED BY <1>3, <1>4, <1>5, <1>6 DEF AgentInv

LEMMA AgentStep == AgentInv /\ AgentNext => AgentInv'
BY AgentAsksStep, AgentExceedsStep, AgentCallsStep, AgentRoundEndsStep DEF AgentNext

LEMMA AgentRests == AgentInv /\ UNCHANGED agentVars => AgentInv'
BY DEF AgentInv, AgentShapeInv, AgentOrderInv, AgentCountInv, AgentLogInv, agentVars

LEMMA AgentGood == AgentInv => CallsAnswered /\ RunsWithinLimits
<1> SUFFICES ASSUME AgentInv PROVE CallsAnswered /\ RunsWithinLimits
    OBVIOUS
<1>1. CallsAnswered
    BY DEF AgentInv, AgentOrderInv, AllAnswered, Answered, AnswersCall, CallsAnswered
<1>2. /\ \A i \in DOMAIN executed : ToolRan(executed[i])
      /\ Len(executed) <= MaxToolCalls
      /\ Cardinality({i \in DOMAIN messages : messages[i].role = "assistant"}) <= MaxToolRounds + 1
    BY DEF AgentInv, AgentCountInv, AgentLogInv, AskedTimes
<1>3. ASSUME agentStatus = "completed"
      PROVE  /\ executed = RanOf(FlattenSeq(rounds))
             /\ \A i \in DOMAIN FlattenSeq(rounds) : FlattenSeq(rounds)[i].result = "ok" =>
                   FlattenSeq(rounds)[i].call.tool \in ToSet(executed)
    BY <1>3 DEF AgentInv, AgentLogInv, Genuine, ToSet
<1> QED BY <1>1, <1>2, <1>3 DEF RunsWithinLimits

-----------------------------------------------------------------------------
(* The client.  Draining a page is a run of one event after the other.      *)
DrainRun(g, f, events) ==
    g[0] = f /\ \A i \in 1..Len(events) : g[i] = Drain(g[i - 1], events[i])

LEMMA DrainRuns ==
    ASSUME NEW A, NEW events \in Seq(A), NEW f
    PROVE  \E g : DrainRun(g, f, events) /\ DrainAll(f, events) = g[Len(events)]
<1> DEFINE N == Len(events)
           Run(g, n) == DOMAIN g = 0..n /\ g[0] = f /\ \A i \in 1..n : g[i] = Drain(g[i - 1], events[i])
           T == {n \in Nat : n <= N => \E g : Run(g, n)}
<1>0. N \in Nat
    OBVIOUS
<1> HIDE DEF N
<1>1. 0 \in T
    <2> DEFINE g == [i \in 0..0 |-> f]
    <2>1. DOMAIN g = 0..0 /\ g[0] = f /\ 1..0 = {}
        OBVIOUS
    <2> HIDE DEF g
    <2>2. Run(g, 0)
        BY <2>1
    <2> HIDE DEF Run
    <2> QED BY <2>2
<1>2. ASSUME NEW n \in Nat, n \in T PROVE n + 1 \in T
    <2> HIDE DEF Run
    <2> SUFFICES ASSUME n + 1 <= N PROVE \E h : Run(h, n + 1)
        OBVIOUS
    <2> USE DEF Run
    <2>1. n <= N
        BY <1>0
    <2>2. PICK g : Run(g, n)
        BY <1>2, <2>1
    <2>3. PICK z : z = Drain(g[n], events[n + 1])
        OBVIOUS
    <2> DEFINE h == [i \in 0..n + 1 |-> IF i <= n THEN g[i] ELSE z]
    <2>4. h[0] = f
        BY <2>2
    <2>5. ASSUME NEW i \in 1..n + 1 PROVE h[i] = Drain(h[i - 1], events[i])
        <3>1. CASE i <= n
            <4>1. i \in 1..n /\ i - 1 \in 0..n + 1 /\ i \in 0..n + 1 /\ i - 1 <= n
                BY <3>1
            <4>2. h[i] = g[i] /\ h[i - 1] = g[i - 1]
                BY <3>1, <4>1
            <4>3. g[i] = Drain(g[i - 1], events[i])
                BY <2>2, <4>1
            <4> HIDE DEF h
            <4> QED BY <4>2, <4>3
        <3>2. CASE ~(i <= n)
            <4>1. i = n + 1 /\ i - 1 = n /\ n \in 0..n + 1 /\ n + 1 \in 0..n + 1 /\ ~(n + 1 <= n) /\ n <= n
                BY <3>2
            <4>2. h[n] = g[n] /\ h[n + 1] = z
                BY <4>1
            <4> HIDE DEF h
            <4> QED BY <2>3, <4>1, <4>2
        <3> QED BY <3>1, <3>2
    <2>6. DOMAIN h = 0..n + 1
        OBVIOUS
    <2> HIDE DEF h
    <2> QED BY <2>4, <2>5, <2>6
<1>3. N \in T
    <2> HIDE DEF T
    <2> QED BY <1>0, <1>1, <1>2, NaturalsReached
<1>4. PICK g : Run(g, N)
    <2>1. N <= N
        BY <1>0
    <2> HIDE DEF Run
    <2> QED BY <1>3, <2>1
<1> DEFINE Fun(a) == a = [n \in 0..N |-> IF n = 0 THEN f ELSE Drain(a[n - 1], events[n])]
           c == CHOOSE a : Fun(a)
           k == [n \in 0..N |-> g[n]]
<1>5. DrainAll(f, events) = c[N]
    BY DEF DrainAll, N
<1>6. Fun(k)
    <2>1. ASSUME NEW n \in 0..N PROVE g[n] = IF n = 0 THEN f ELSE Drain(k[n - 1], events[n])
        <3>1. CASE n = 0
            BY <1>4, <3>1
        <3>2. CASE n # 0
            <4>1. n \in 1..N /\ n - 1 \in 0..N
                BY <1>0, <3>2
            <4>2. k[n - 1] = g[n - 1] /\ g[n] = Drain(g[n - 1], events[n])
                BY <1>4, <4>1
            <4> HIDE DEF k
            <4> QED BY <3>2, <4>2
        <3> QED BY <3>1, <3>2
    <2> QED BY <2>1
<1>7. Fun(c)
    <2> HIDE DEF Fun, k
    <2> QED BY <1>6
<1>8. c[0] = f /\ \A n \in 1..N : c[n] = Drain(c[n - 1], events[n])
    <2>1. \A n \in 0..N : c[n] = IF n = 0 THEN f ELSE Drain(c[n - 1], events[n])
        <3> HIDE DEF c
        <3> QED BY <1>7
    <2>2. 0 \in 0..N /\ \A n \in 1..N : n \in 0..N /\ n # 0
        BY <1>0
    <2> HIDE DEF c
    <2> QED BY <2>1, <2>2
<1>9. PICK a : a = c
    OBVIOUS
<1> HIDE DEF c
<1> QED BY <1>5, <1>8, <1>9 DEF DrainRun, N

(* One event drained: what it changes.                                      *)
Events == [req : CallRequests, type : {"queued", "running", "delta", "end"}]
FeedShape == [pending : SUBSET CallRequests, streamed : SUBSET CallRequests,
              given : [CallRequests -> Nat], finishes : [CallRequests -> Nat]]
QueuedShape == [CallRequests -> [state : {"absent", "queued", "running"} \cup TerminalStates, tries : Nat,
                                 text : 0..MaxDeltas, status : ResultStatuses \cup {"none"}]]
EndAt(u, i, r) == u[i].req = r /\ u[i].type = "end"
DeltaAt(u, i, r) == u[i].req = r /\ u[i].type = "delta"

LEMMA DrainOne ==
    ASSUME NEW f \in FeedShape, NEW e \in Events, NEW x, x = e.req, NEW g, g = Drain(f, e), queued \in QueuedShape
    PROVE  /\ g \in FeedShape
           /\ \A r \in CallRequests : r # x =>
                 /\ r \in g.pending <=> r \in f.pending
                 /\ r \in g.streamed <=> r \in f.streamed
                 /\ g.given[r] = f.given[r] /\ g.finishes[r] = f.finishes[r]
           /\ x \in CallRequests
           /\ x \notin f.pending => g = f
           /\ e.type \in {"queued", "running"} => g = f
           /\ x \in f.pending /\ e.type = "delta" =>
                 x \in g.pending /\ x \in g.streamed /\ g.given[x] = f.given[x] + 1 /\ g.finishes[x] = f.finishes[x]
           /\ x \in f.pending /\ e.type = "end" =>
                 /\ x \notin g.pending /\ g.finishes[x] = f.finishes[x] + 1
                 /\ x \in f.streamed => g.given[x] = f.given[x]
                 /\ x \notin f.streamed => g.given[x] = f.given[x] + queued[x].text
<1>1. x \in CallRequests /\ e.type \in {"queued", "running", "delta", "end"}
    BY DEF Events
<1>2. PICK P, S, G, F : /\ P = f.pending /\ S = f.streamed /\ G = f.given /\ F = f.finishes
                        /\ P \in SUBSET CallRequests /\ S \in SUBSET CallRequests
                        /\ G \in [CallRequests -> Nat] /\ F \in [CallRequests -> Nat]
    BY DEF FeedShape
<1>3. PICK t : t = queued[x].text /\ t \in Nat
    BY <1>1, ClientAssumption DEF QueuedShape
<1>4. CASE x \notin f.pending \/ e.type \in {"queued", "running"}
    <2>1. g = f
        BY <1>4 DEF Drain
    <2> QED BY <1>1, <1>4, <2>1
<1>5. CASE x \in f.pending /\ e.type = "delta"
    <2>1. g = [f EXCEPT !.streamed = f.streamed \cup {x}, !.given = [f.given EXCEPT ![x] = f.given[x] + 1]]
        BY <1>5 DEF Drain
    <2>2. /\ g.pending = P /\ g.streamed = S \cup {x} /\ g.given = [G EXCEPT ![x] = G[x] + 1] /\ g.finishes = F
          /\ g = [pending |-> g.pending, streamed |-> g.streamed, given |-> g.given, finishes |-> g.finishes]
        BY <1>2, <2>1 DEF FeedShape
    <2>3. PICK H : H = [G EXCEPT ![x] = G[x] + 1]
        OBVIOUS
    <2>4. /\ H \in [CallRequests -> Nat] /\ H[x] = G[x] + 1
          /\ \A r \in CallRequests : r # x => H[r] = G[r]
        BY <1>1, <1>2, <2>3
    <2>5. g \in FeedShape
        BY <1>1, <1>2, <2>2, <2>3, <2>4 DEF FeedShape
    <2> QED BY <1>1, <1>2, <1>5, <2>2, <2>3, <2>4, <2>5
<1>6. CASE x \in f.pending /\ e.type = "end"
    <2>1. g = [f EXCEPT !.pending = f.pending \ {x}, !.finishes = [f.finishes EXCEPT ![x] = f.finishes[x] + 1],
                        !.given = [f.given EXCEPT ![x] = IF x \in f.streamed THEN f.given[x] ELSE f.given[x] + queued[x].text]]
        BY <1>6 DEF Drain
    <2>2. PICK H, K : /\ H = [G EXCEPT ![x] = IF x \in S THEN G[x] ELSE G[x] + t]
                      /\ K = [F EXCEPT ![x] = F[x] + 1]
        OBVIOUS
    <2>3. /\ g.pending = P \ {x} /\ g.streamed = S /\ g.given = H /\ g.finishes = K
          /\ g = [pending |-> g.pending, streamed |-> g.streamed, given |-> g.given, finishes |-> g.finishes]
        BY <1>2, <1>3, <2>1, <2>2 DEF FeedShape
    <2>4. /\ H \in [CallRequests -> Nat] /\ H[x] = (IF x \in S THEN G[x] ELSE G[x] + t)
          /\ \A r \in CallRequests : r # x => H[r] = G[r]
        BY <1>1, <1>2, <1>3, <2>2
    <2>5. /\ K \in [CallRequests -> Nat] /\ K[x] = F[x] + 1
          /\ \A r \in CallRequests : r # x => K[r] = F[r]
        BY <1>1, <1>2, <2>2
    <2>6. g \in FeedShape
        BY <1>1, <1>2, <2>3, <2>4, <2>5 DEF FeedShape
    <2> QED BY <1>1, <1>2, <1>3, <1>6, <2>3, <2>4, <2>5, <2>6
<1> QED BY <1>1, <1>4, <1>5, <1>6

(* After k events of u the feed f0 has become f.                            *)
Passed(f0, f, u, k) ==
    /\ f \in FeedShape
    /\ \A r \in CallRequests :
          /\ r \in f.pending => r \in f0.pending /\ f.finishes[r] = f0.finishes[r]
          /\ r \notin f.pending /\ r \notin f0.pending => f.finishes[r] = f0.finishes[r]
          /\ r \notin f.pending /\ r \in f0.pending =>
                f.finishes[r] = f0.finishes[r] + 1 /\ \E i \in 1..k : EndAt(u, i, r)
          /\ \A i \in 1..k : EndAt(u, i, r) => r \notin f.pending

LEMMA PassedNext ==
    ASSUME NEW u \in Seq(Events), NEW k \in Nat, k + 1 <= Len(u), queued \in QueuedShape, NEW f0 \in FeedShape,
           NEW f, Passed(f0, f, u, k), NEW g, g = Drain(f, u[k + 1])
    PROVE  Passed(f0, g, u, k + 1)
<1>1. PICK e \in Events : e = u[k + 1]
    BY SeqFacts
<1>2. PICK x \in CallRequests : x = e.req /\ f \in FeedShape
    BY DEF Events, Passed
<1>3. /\ g \in FeedShape
      /\ \A r \in CallRequests : r # x =>
            (r \in g.pending <=> r \in f.pending) /\ g.finishes[r] = f.finishes[r]
      /\ x \notin f.pending => g = f
      /\ e.type \in {"queued", "running"} => g = f
      /\ x \in f.pending /\ e.type = "delta" => x \in g.pending /\ g.finishes[x] = f.finishes[x]
      /\ x \in f.pending /\ e.type = "end" => x \notin g.pending /\ g.finishes[x] = f.finishes[x] + 1
    <2>1. g = Drain(f, e)
        BY <1>1
    <2> QED BY <1>2, <2>1, DrainOne
<1>4. \A i \in 1..k + 1 : i \in 1..k \/ i = k + 1
    OBVIOUS
<1>5. \A i \in 1..k : i \in 1..k + 1
    OBVIOUS
<1>6. k + 1 \in 1..k + 1
    OBVIOUS
<1>7. e.type \in {"queued", "running", "delta", "end"}
    BY DEF Events
<1>8. ASSUME NEW r \in CallRequests
      PROVE  /\ r \in g.pending => r \in f0.pending /\ g.finishes[r] = f0.finishes[r]
             /\ r \notin g.pending /\ r \notin f0.pending => g.finishes[r] = f0.finishes[r]
             /\ r \notin g.pending /\ r \in f0.pending =>
                   g.finishes[r] = f0.finishes[r] + 1 /\ \E i \in 1..k + 1 : EndAt(u, i, r)
             /\ \A i \in 1..k + 1 : EndAt(u, i, r) => r \notin g.pending
    <2>1. /\ r \in f.pending => r \in f0.pending /\ f.finishes[r] = f0.finishes[r]
          /\ r \notin f.pending /\ r \notin f0.pending => f.finishes[r] = f0.finishes[r]
          /\ r \notin f.pending /\ r \in f0.pending =>
                f.finishes[r] = f0.finishes[r] + 1 /\ \E i \in 1..k : EndAt(u, i, r)
          /\ \A i \in 1..k : EndAt(u, i, r) => r \notin f.pending
        BY DEF Passed
    <2>2. (\E i \in 1..k : EndAt(u, i, r)) => \E i \in 1..k + 1 : EndAt(u, i, r)
        BY <1>5
    <2>3. CASE r \in g.pending <=> r \in f.pending
        <3>1. g.finishes[r] = f.finishes[r]
            <4>1. CASE r # x
                BY <1>3, <4>1
            <4>2. CASE r = x /\ x \notin f.pending
                BY <1>3, <4>2
            <4>3. CASE r = x /\ x \in f.pending
                BY <1>3, <1>7, <2>3, <4>3
            <4> QED BY <4>1, <4>2, <4>3
        <3>2. EndAt(u, k + 1, r) => r \notin g.pending
            BY <1>1, <1>2, <1>3 DEF EndAt
        <3>3. \A i \in 1..k + 1 : EndAt(u, i, r) => r \notin g.pending
            BY <1>4, <2>1, <2>3, <3>2
        <3> QED BY <2>1, <2>2, <2>3, <3>1, <3>3
    <2>4. CASE ~(r \in g.pending <=> r \in f.pending)
        <3>1. r = x /\ x \in f.pending /\ e.type = "end"
            BY <1>3, <1>7, <2>4
        <3>2. r \notin g.pending /\ g.finishes[r] = f.finishes[r] + 1
            BY <1>3, <3>1
        <3>3. r \in f0.pending /\ f.finishes[r] = f0.finishes[r]
            BY <2>1, <3>1
        <3>4. EndAt(u, k + 1, r)
            BY <1>1, <1>2, <3>1 DEF EndAt
        <3>5. g.finishes[r] = f0.finishes[r] + 1
            BY <3>2, <3>3
        <3> QED BY <1>6, <3>2, <3>3, <3>4, <3>5
    <2> QED BY <2>3, <2>4
<1> HIDE DEF Passed
<1> QED BY <1>3, <1>8 DEF Passed

(* How much text of r the events still to be drained can give: w[k] after   *)
(* k of them.                                                               *)
Weighs(w, u, r) ==
    /\ w \in [0..Len(u) -> Nat]
    /\ \A i \in 1..Len(u) : w[i] <= w[i - 1] /\ (DeltaAt(u, i, r) => w[i] + 1 <= w[i - 1])
TextLeft(f, w, k, r) ==
    /\ f.given[r] <= MaxDeltas
    /\ f.finishes[r] = 0 => f.given[r] + w[k] <= queued[r].text /\ (r \notin f.streamed => f.given[r] = 0)
(* what is pending again is told of no more *)
Quiet(f, u, r) ==
    r \in f.pending /\ f.finishes[r] # 0 => \A i \in 1..Len(u) : ~EndAt(u, i, r) /\ ~DeltaAt(u, i, r)

LEMMA TextNext ==
    ASSUME NEW u \in Seq(Events), NEW k \in Nat, k + 1 <= Len(u), queued \in QueuedShape,
           NEW r \in CallRequests, NEW f0 \in FeedShape, Quiet(f0, u, r), NEW f, Passed(f0, f, u, k),
           NEW w, Weighs(w, u, r), TextLeft(f, w, k, r), NEW g, g = Drain(f, u[k + 1])
    PROVE  TextLeft(g, w, k + 1, r)
<1>1. PICK e \in Events : e = u[k + 1] /\ k + 1 \in 1..Len(u)
    BY SeqFacts
<1>2. PICK x \in CallRequests : x = e.req /\ f \in FeedShape
    BY DEF Events, Passed
<1>3. /\ g \in FeedShape
      /\ r # x => /\ (r \in g.streamed <=> r \in f.streamed)
                  /\ g.given[r] = f.given[r] /\ g.finishes[r] = f.finishes[r]
      /\ x \notin f.pending => g = f
      /\ e.type \in {"queued", "running"} => g = f
      /\ x \in f.pending /\ e.type = "delta" =>
            x \in g.streamed /\ g.given[x] = f.given[x] + 1 /\ g.finishes[x] = f.finishes[x]
      /\ x \in f.pending /\ e.type = "end" =>
            /\ g.finishes[x] = f.finishes[x] + 1
            /\ x \in f.streamed => g.given[x] = f.given[x]
            /\ x \notin f.streamed => g.given[x] = f.given[x] + queued[x].text
    <2>1. g = Drain(f, e)
        BY <1>1
    <2> QED BY <1>2, <2>1, DrainOne
<1>4. /\ f.given[r] \in Nat /\ f.finishes[r] \in Nat /\ g.given[r] \in Nat /\ g.finishes[r] \in Nat
      /\ queued[r].text \in Nat /\ queued[r].text <= MaxDeltas /\ MaxDeltas \in Nat
    <2>1. /\ f.given \in [CallRequests -> Nat] /\ f.finishes \in [CallRequests -> Nat]
          /\ g.given \in [CallRequests -> Nat] /\ g.finishes \in [CallRequests -> Nat]
        BY <1>2, <1>3 DEF FeedShape
    <2>2. queued[r].text \in 0..MaxDeltas /\ MaxDeltas \in Nat
        BY ClientAssumption DEF QueuedShape
    <2>3. queued[r].text \in Nat /\ queued[r].text <= MaxDeltas
        BY <2>2
    <2> QED BY <2>1, <2>2, <2>3
<1>5. /\ w[k] \in Nat /\ w[k + 1] \in Nat /\ w[k + 1] <= w[k]
      /\ DeltaAt(u, k + 1, r) => w[k + 1] + 1 <= w[k]
    <2>1. Len(u) \in Nat /\ k \in 0..Len(u) /\ k + 1 \in 0..Len(u) /\ (k + 1) - 1 = k
        BY <1>1, SeqFacts
    <2> QED BY <1>1, <2>1 DEF Weighs
<1>6. CASE (r \in g.streamed <=> r \in f.streamed) /\ g.given[r] = f.given[r] /\ g.finishes[r] = f.finishes[r]
    <2>1. f.given[r] <= MaxDeltas /\ (f.finishes[r] = 0 => f.given[r] + w[k] <= queued[r].text)
        BY DEF TextLeft
    <2>2. f.finishes[r] = 0 => f.given[r] + w[k + 1] <= queued[r].text
        BY <1>4, <1>5, <2>1
    <2> QED BY <1>6, <2>1, <2>2 DEF TextLeft
<1>7. CASE r = x /\ x \in f.pending /\ e.type = "delta"
    <2>1. DeltaAt(u, k + 1, r)
        BY <1>1, <1>2, <1>7 DEF DeltaAt
    <2>2. f.finishes[r] = 0
        <3>1. r \in f0.pending /\ f.finishes[r] = f0.finishes[r]
            BY <1>2, <1>7 DEF Passed
        <3>2. r \in f0.pending /\ f0.finishes[r] # 0 => ~DeltaAt(u, k + 1, r)
            BY <1>1 DEF Quiet
        <3> QED BY <2>1, <3>1, <3>2
    <2>3. f.given[r] + w[k] <= queued[r].text
        BY <2>2 DEF TextLeft
    <2>4. g.given[r] = f.given[r] + 1 /\ r \in g.streamed
        BY <1>3, <1>7
    <2>5. g.given[r] + w[k + 1] <= queued[r].text /\ g.given[r] <= MaxDeltas
        <3>1. w[k + 1] + 1 <= w[k]
            BY <1>5, <2>1
        <3>2. PICK a, b, v, z, t : /\ a = f.given[r] /\ b = g.given[r] /\ v = w[k] /\ z = w[k + 1] /\ t = queued[r].text
            OBVIOUS
        <3>3. {a, b, v, z, t} \subseteq Nat /\ t <= MaxDeltas /\ a + v <= t /\ z + 1 <= v /\ b = a + 1
            BY <1>4, <1>5, <2>3, <2>4, <3>1, <3>2
        <3>4. b + z <= t /\ b <= MaxDeltas
            BY <1>4, <3>3
        <3> QED BY <3>2, <3>4
    <2> QED BY <2>4, <2>5 DEF TextLeft
<1>8. CASE r = x /\ x \in f.pending /\ e.type = "end"
    <2>1. EndAt(u, k + 1, r)
        BY <1>1, <1>2, <1>8 DEF EndAt
    <2>2. f.finishes[r] = 0
        <3>1. r \in f0.pending /\ f.finishes[r] = f0.finishes[r]
            BY <1>2, <1>8 DEF Passed
        <3>2. r \in f0.pending /\ f0.finishes[r] # 0 => ~EndAt(u, k + 1, r)
            BY <1>1 DEF Quiet
        <3> QED BY <2>1, <3>1, <3>2
    <2>3. g.finishes[r] # 0
        BY <1>3, <1>4, <1>8, <2>2
    <2>4. g.given[r] <= MaxDeltas
        <3>1. CASE r \in f.streamed
            BY <1>3, <1>8, <3>1 DEF TextLeft
        <3>2. CASE r \notin f.streamed
            <4>1. f.given[r] = 0
                BY <2>2, <3>2 DEF TextLeft
            <4>2. g.given[r] = f.given[r] + queued[r].text
                BY <1>3, <1>8, <3>2
            <4> QED BY <1>4, <4>1, <4>2
        <3> QED BY <3>1, <3>2
    <2> QED BY <2>3, <2>4 DEF TextLeft
<1>9. e.type \in {"queued", "running", "delta", "end"}
    BY DEF Events
<1>10. r # x \/ x \notin f.pending \/ e.type \in {"queued", "running"} =>
          (r \in g.streamed <=> r \in f.streamed) /\ g.given[r] = f.given[r] /\ g.finishes[r] = f.finishes[r]
    BY <1>3
<1> QED BY <1>6, <1>7, <1>8, <1>9, <1>10

LEMMA PagePassed ==
    ASSUME NEW u \in Seq(Events), NEW N \in Nat, N <= Len(u), queued \in QueuedShape, NEW f0 \in FeedShape,
           NEW g, g[0] = f0, \A i \in 1..N : g[i] = Drain(g[i - 1], u[i])
    PROVE  Passed(f0, g[N], u, N)
<1> DEFINE T == {k \in Nat : k <= N => Passed(f0, g[k], u, k)}
<1>1. 0 \in T
    <2>1. 1..0 = {}
        OBVIOUS
    <2> QED BY <2>1 DEF Passed
<1>2. ASSUME NEW k \in Nat, k \in T PROVE k + 1 \in T
    <2> SUFFICES ASSUME k + 1 <= N PROVE Passed(f0, g[k + 1], u, k + 1)
        OBVIOUS
    <2>1. Len(u) \in Nat
        BY SeqFacts
    <2>2. k <= N /\ k + 1 <= Len(u) /\ k + 1 \in 1..N /\ (k + 1) - 1 = k
        BY <2>1
    <2>3. g[k + 1] = Drain(g[k], u[k + 1])
        BY <2>2
    <2>4. Passed(f0, g[k], u, k)
        BY <1>2, <2>2
    <2> QED BY <2>2, <2>3, <2>4, PassedNext
<1>3. N \in T
    <2> HIDE DEF T
    <2> QED BY <1>1, <1>2, NaturalsReached
<1> QED BY <1>3

LEMMA PageText ==
    ASSUME NEW u \in Seq(Events), NEW N \in Nat, N <= Len(u), queued \in QueuedShape, NEW f0 \in FeedShape,
           NEW g, g[0] = f0, \A i \in 1..N : g[i] = Drain(g[i - 1], u[i]),
           NEW r \in CallRequests, Quiet(f0, u, r), NEW w, Weighs(w, u, r), TextLeft(f0, w, 0, r)
    PROVE  TextLeft(g[N], w, N, r)
<1> DEFINE T == {k \in Nat : k <= N => TextLeft(g[k], w, k, r)}
<1>0. Len(u) \in Nat
    BY SeqFacts
<1>1. 0 \in T
    OBVIOUS
<1>2. ASSUME NEW k \in Nat, k \in T PROVE k + 1 \in T
    <2> SUFFICES ASSUME k + 1 <= N PROVE TextLeft(g[k + 1], w, k + 1, r)
        OBVIOUS
    <2>2. k <= N /\ k + 1 <= Len(u) /\ k + 1 \in 1..N /\ (k + 1) - 1 = k /\ k <= Len(u)
        BY <1>0
    <2>3. g[k + 1] = Drain(g[k], u[k + 1])
        BY <2>2
    <2>4. TextLeft(g[k], w, k, r)
        BY <1>2, <2>2
    <2>5. \A i \in 1..k : g[i] = Drain(g[i - 1], u[i])
        BY <2>2
    <2>6. Passed(f0, g[k], u, k)
        BY <2>2, <2>5, PagePassed
    <2> QED BY <2>2, <2>3, <2>4, <2>6, TextNext
<1>3. N \in T
    <2> HIDE DEF T
    <2> QED BY <1>1, <1>2, NaturalsReached
<1> QED BY <1>3

(* What is left of the events after a page.                                 *)
LEMMA RestFacts ==
    ASSUME NEW A, NEW u \in Seq(A), NEW N \in Nat, N <= Len(u), NEW v, v = SubSeq(u, N + 1, Len(u))
    PROVE  /\ v \in Seq(A) /\ Len(v) = Len(u) - N /\ Len(v) \in Nat
           /\ \A i \in 1..Len(v) : v[i] = u[N + i] /\ N + i \in 1..Len(u)
           /\ \A i \in 1..Len(u) : i \notin 1..N => i - N \in 1..Len(v) /\ v[i - N] = u[i]
<1>1. SubSeq(u, N + 1, Len(u)) \in Seq(A) /\ Len(SubSeq(u, N + 1, Len(u))) = Len(u) - N /\ Len(u) \in Nat
    <2>1. Len(u) \in Nat
        OBVIOUS
    <2>2. CASE N = Len(u)
        BY <2>1, <2>2
    <2>3. CASE N < Len(u)
        BY <2>1, <2>3
    <2> QED BY <2>1, <2>2, <2>3
<1>2. \A i \in 1..(Len(u) - N) : SubSeq(u, N + 1, Len(u))[i] = u[N + i]
    OBVIOUS
<1>3. PICK L, M : L = Len(u) /\ L \in Nat /\ M = L - N /\ M \in Nat
    BY <1>1
<1>4. v \in Seq(A) /\ Len(v) = M /\ \A i \in 1..M : v[i] = u[N + i]
    BY <1>1, <1>2, <1>3
<1>5. \A i \in 1..M : N + i \in 1..L
    BY <1>3
<1>6. ASSUME NEW i \in 1..L, i \notin 1..N PROVE i - N \in 1..M /\ N + (i - N) = i
    BY <1>3, <1>6
<1> QED BY <1>3, <1>4, <1>5, <1>6

LEMMA PageFacts ==
    ASSUME NEW A, NEW u \in Seq(A), NEW N \in Nat, N <= Len(u), NEW v, v = SubSeq(u, 1, N)
    PROVE  v \in Seq(A) /\ Len(v) = N /\ \A i \in 1..N : v[i] = u[i]
<1>1. PICK L : L = Len(u) /\ L \in Nat /\ u \in [1..L -> A]
    OBVIOUS
<1>2. v \in Seq(A) /\ Len(v) = N
    BY <1>1
<1>3. ASSUME NEW i \in 1..N PROVE v[i] = u[i]
    <2>1. v[i] = u[1 + i - 1] /\ 1 + i - 1 = i
        BY <1>1, <1>2
    <2> QED BY <2>1
<1> QED BY <1>2, <1>3

LEMMA WeighsRest ==
    ASSUME NEW u \in Seq(Events), NEW N \in Nat, N <= Len(u), NEW r, NEW w, Weighs(w, u, r)
    PROVE  \E z : Weighs(z, SubSeq(u, N + 1, Len(u)), r) /\ z[0] = w[N]
<1>0. PICK v : v = SubSeq(u, N + 1, Len(u))
    OBVIOUS
<1>1. PICK L, M : /\ L = Len(u) /\ L \in Nat /\ M = Len(v) /\ M = L - N /\ M \in Nat
                  /\ \A i \in 1..M : v[i] = u[N + i] /\ N + i \in 1..L
    <2>1. /\ Len(v) = Len(u) - N /\ Len(v) \in Nat /\ Len(u) \in Nat
          /\ \A i \in 1..Len(v) : v[i] = u[N + i] /\ N + i \in 1..Len(u)
        BY <1>0, RestFacts, SeqFacts
    <2> QED BY <2>1
<1> DEFINE z == [i \in 0..M |-> w[N + i]]
<1>2. \A i \in 0..M : N + i \in 0..L
    BY <1>1
<1>3. z \in [0..M -> Nat]
    BY <1>1, <1>2 DEF Weighs
<1>4. ASSUME NEW i \in 1..M
      PROVE  z[i] <= z[i - 1] /\ (DeltaAt(v, i, r) => z[i] + 1 <= z[i - 1])
    <2>1. i \in 0..M /\ i - 1 \in 0..M /\ N + (i - 1) = (N + i) - 1
        BY <1>1
    <2>2. z[i] = w[N + i] /\ z[i - 1] = w[(N + i) - 1]
        BY <2>1
    <2>3. v[i] = u[N + i] /\ N + i \in 1..L
        BY <1>1
    <2>4. w[N + i] <= w[(N + i) - 1] /\ (DeltaAt(u, N + i, r) => w[N + i] + 1 <= w[(N + i) - 1])
        BY <1>1, <2>3 DEF Weighs
    <2>5. DeltaAt(v, i, r) => DeltaAt(u, N + i, r)
        BY <2>3 DEF DeltaAt
    <2> HIDE DEF z
    <2> QED BY <2>2, <2>4, <2>5
<1>5. z[0] = w[N]
    <2>1. 0 \in 0..M /\ N + 0 = N
        BY <1>1
    <2> QED BY <2>1
<1> HIDE DEF z
<1>6. Weighs(z, v, r)
    BY <1>1, <1>3, <1>4 DEF Weighs
<1> QED BY <1>0, <1>5, <1>6

(* One event more.                                                          *)
DeltaOf(e, r) == e.req = r /\ e.type = "delta"
MoreText(z, w, e, r) == (DeltaOf(e, r) => z[0] = w[0] + 1) /\ (~DeltaOf(e, r) => z[0] = w[0])
LEMMA WeighsMore ==
    ASSUME NEW u \in Seq(Events), NEW e \in Events, NEW r, NEW w, Weighs(w, u, r), NEW v, v = Append(u, e)
    PROVE  \E z : Weighs(z, v, r) /\ MoreText(z, w, e, r)
<1>1. PICK L : /\ L = Len(u) /\ L \in Nat /\ Len(v) = L + 1 /\ v[L + 1] = e
               /\ \A i \in 1..L : v[i] = u[i]
    BY AppendFacts, SeqFacts
<1> DEFINE more == IF DeltaOf(e, r) THEN 1 ELSE 0
           z == [i \in 0..L + 1 |-> IF i <= L THEN w[i] + more ELSE 0]
<1>2. more \in Nat /\ (DeltaOf(e, r) => more = 1) /\ (~DeltaOf(e, r) => more = 0)
    OBVIOUS
<1> HIDE DEF more
<1>3. w \in [0..L -> Nat]
    BY <1>1 DEF Weighs
<1>4. z \in [0..L + 1 -> Nat]
    BY <1>1, <1>2, <1>3
<1>5. ASSUME NEW i \in 1..L + 1
      PROVE  z[i] <= z[i - 1] /\ (DeltaAt(v, i, r) => z[i] + 1 <= z[i - 1])
    <2>1. CASE i <= L
        <3>1. i \in 1..L /\ i \in 0..L + 1 /\ i - 1 \in 0..L + 1 /\ i - 1 <= L /\ i \in 0..L /\ i - 1 \in 0..L
            BY <1>1, <2>1
        <3>2. z[i] = w[i] + more /\ z[i - 1] = w[i - 1] + more
            BY <2>1, <3>1
        <3>3. w[i] <= w[i - 1] /\ (DeltaAt(u, i, r) => w[i] + 1 <= w[i - 1])
            BY <1>1, <3>1 DEF Weighs
        <3>4. DeltaAt(v, i, r) => DeltaAt(u, i, r)
            BY <1>1, <3>1 DEF DeltaAt
        <3>5. w[i] \in Nat /\ w[i - 1] \in Nat
            BY <1>3, <3>1
        <3> HIDE DEF z
        <3> QED BY <1>2, <3>2, <3>3, <3>4, <3>5
    <2>2. CASE i = L + 1
        <3>1. i \in 0..L + 1 /\ i - 1 = L /\ L \in 0..L + 1 /\ ~(i <= L) /\ L \in 0..L /\ L <= L
            BY <1>1, <2>2
        <3>2. z[i] = 0 /\ z[i - 1] = w[L] + more
            BY <3>1
        <3>3. DeltaAt(v, i, r) => more = 1
            BY <1>1, <1>2, <2>2 DEF DeltaAt, DeltaOf
        <3>4. w[L] \in Nat
            BY <1>3, <3>1
        <3> HIDE DEF z
        <3> QED BY <1>2, <3>2, <3>3, <3>4
    <2> QED BY <1>1, <2>1, <2>2
<1>6. z[0] = w[0] + more /\ w[0] \in Nat
    <2>1. 0 \in 0..L + 1 /\ 0 <= L /\ 0 \in 0..L
        BY <1>1
    <2> QED BY <1>3, <2>1
<1> HIDE DEF z
<1>7. Weighs(z, v, r)
    BY <1>1, <1>4, <1>5 DEF Weighs
<1>8. MoreText(z, w, e, r)
    BY <1>2, <1>6 DEF MoreText
<1> QED BY <1>7, <1>8

(* Events that say nothing of r.                                            *)
NoDelta(t, r) == \A i \in 1..Len(t) : ~DeltaAt(t, i, r)
LEMMA WeighsSame ==
    ASSUME NEW u \in Seq(Events), NEW t \in Seq(Events), NEW r, NoDelta(t, r),
           NEW w, Weighs(w, u, r)
    PROVE  \E z : Weighs(z, u \o t, r) /\ z[0] = w[0]
<1>0. PICK v : v = u \o t
    OBVIOUS
<1>1. PICK L, M : /\ L = Len(u) /\ L \in Nat /\ M = Len(t) /\ M \in Nat /\ Len(v) = L + M
                  /\ \A i \in 1..L : v[i] = u[i]
                  /\ \A i \in 1..M : v[L + i] = t[i]
    <2>1. Len(u) \in Nat /\ Len(t) \in Nat
        BY SeqFacts
    <2>2. /\ Len(u \o t) = Len(u) + Len(t)
          /\ \A i \in 1..Len(u) : (u \o t)[i] = u[i]
          /\ \A i \in 1..Len(t) : (u \o t)[Len(u) + i] = t[i]
        BY ConcatFacts
    <2> QED BY <1>0, <2>1, <2>2
<1> DEFINE z == [i \in 0..L + M |-> IF i <= L THEN w[i] ELSE 0]
<1>2. w \in [0..L -> Nat]
    BY <1>1 DEF Weighs
<1>3. z \in [0..L + M -> Nat]
    BY <1>1, <1>2
<1>4. ASSUME NEW i \in 1..L + M
      PROVE  z[i] <= z[i - 1] /\ (DeltaAt(v, i, r) => z[i] + 1 <= z[i - 1])
    <2>1. CASE i <= L
        <3>1. i \in 1..L /\ i \in 0..L + M /\ i - 1 \in 0..L + M /\ i - 1 <= L
            BY <1>1, <2>1
        <3>2. z[i] = w[i] /\ z[i - 1] = w[i - 1]
            BY <2>1, <3>1
        <3>3. w[i] <= w[i - 1] /\ (DeltaAt(u, i, r) => w[i] + 1 <= w[i - 1])
            BY <1>1, <3>1 DEF Weighs
        <3>4. DeltaAt(v, i, r) => DeltaAt(u, i, r)
            BY <1>1, <3>1 DEF DeltaAt
        <3> HIDE DEF z
        <3> QED BY <3>2, <3>3, <3>4
    <2>2. CASE ~(i <= L)
        <3>1. i \in 0..L + M /\ i - 1 \in 0..L + M /\ i - L \in 1..M /\ L + (i - L) = i
            BY <1>1, <2>2
        <3>2. z[i] = 0 /\ z[i - 1] \in Nat
            BY <1>3, <2>2, <3>1
        <3>3. ~DeltaAt(v, i, r)
            <4>1. v[i] = t[i - L] /\ ~DeltaAt(t, i - L, r)
                BY <1>1, <3>1 DEF NoDelta
            <4> QED BY <4>1 DEF DeltaAt
        <3> HIDE DEF z
        <3> QED BY <3>2, <3>3
    <2> QED BY <2>1, <2>2
<1>5. z[0] = w[0]
    <2>1. 0 \in 0..L + M /\ 0 <= L
        BY <1>1
    <2> QED BY <2>1
<1> HIDE DEF z
<1>6. Weighs(z, v, r)
    BY <1>1, <1>3, <1>4, <1>5 DEF Weighs
<1> QED BY <1>0, <1>5, <1>6

-----------------------------------------------------------------------------
(* The invariant of a call.                                                 *)
CallShape == [pc : {"idle", "submitting", "streaming", "waiting", "done"}, kind : CallKinds, prompt : Int, output : Int,
              thinking : Int, asked : SUBSET CallRequests, fresh : SUBSET CallRequests]
Ended(q, r) == q[r].state \in TerminalStates
ClientShapeInv == call \in CallShape /\ queued \in QueuedShape /\ unread \in Seq(Events) /\ feed \in FeedShape

KindsRight(c, u) ==
    /\ c.pc = "idle" => c.kind = "sync" /\ c.asked = {}
    /\ c.pc = "waiting" => c.kind = "sync"
    /\ c.pc = "streaming" => c.kind # "sync"
    /\ c.kind = "chat_stream" => \E x : c.asked = {x}
    /\ c.kind # "completion_stream" => \A i \in 1..Len(u), r \in CallRequests : ~DeltaAt(u, i, r)
NotStarted(f) ==
    /\ f.pending = {} /\ f.streamed = {}
    /\ \A r \in CallRequests : f.finishes[r] = 0 /\ f.given[r] = 0
EndsTold(u, q) ==
    \A r \in CallRequests :
        /\ \A i, j \in 1..Len(u) : EndAt(u, i, r) /\ EndAt(u, j, r) => i = j
        /\ \A i \in 1..Len(u) : EndAt(u, i, r) => Ended(q, r)
FinishesTold(f, u, q) ==
    \A r \in CallRequests :
        /\ f.finishes[r] \in {0, 1}
        /\ f.finishes[r] = 1 => Ended(q, r) /\ \A i \in 1..Len(u) : ~EndAt(u, i, r)
PendingRight(c, f) ==
    /\ f.pending \subseteq c.asked
    /\ c.kind = "completion_stream" =>
          \A r \in c.asked : /\ r \in f.pending => f.finishes[r] = 0
                             /\ r \notin f.pending => f.finishes[r] = 1
EndAhead(c, f, u, q) ==
    \A r \in f.pending : r \in c.fresh /\ Ended(q, r) =>
        \/ \E i \in 1..Len(u) : EndAt(u, i, r)
        \/ c.kind = "chat_stream" /\ f.finishes[r] = 1
TextBound(c, f, u, q, r) ==
    /\ q[r].tries = 0 => q[r].text = 0 /\ q[r].state \in {"absent", "queued"}
    /\ q[r].tries <= 1 => f.given[r] <= MaxDeltas
    /\ q[r].tries <= 1 /\ c.pc # "done" =>
          \E w : Weighs(w, u, r) /\ (f.finishes[r] = 0 => f.given[r] + w[0] <= q[r].text
                                                          /\ (r \notin f.streamed => f.given[r] = 0))

ClientFlowInv ==
    /\ KindsRight(call, unread)
    /\ call.pc \in {"idle", "submitting"} => NotStarted(feed)
    /\ EndsTold(unread, queued)
    /\ call.pc = "streaming" => /\ FinishesTold(feed, unread, queued) /\ PendingRight(call, feed)
                                /\ EndAhead(call, feed, unread, queued)
    /\ call.pc = "done" /\ call.kind = "completion_stream" => \A r \in call.asked : feed.finishes[r] = 1
ClientTextInv == \A r \in CallRequests : TextBound(call, feed, unread, queued, r)
ClientInv == ClientShapeInv /\ FitsWindow /\ ClientFlowInv /\ ClientTextInv

(* Nothing is read yet.                                                     *)
LEMMA NothingWeighs == \A u, r : u = <<>> => \E w : Weighs(w, u, r) /\ w[0] = 0
<1> SUFFICES ASSUME NEW u, NEW r, u = <<>> PROVE \E w : Weighs(w, u, r) /\ w[0] = 0
    OBVIOUS
<1> DEFINE w == [i \in 0..0 |-> 0]
<1>1. w \in [0..0 -> Nat] /\ w[0] = 0 /\ 1..0 = {} /\ Len(u) = 0
    OBVIOUS
<1> HIDE DEF w
<1> QED BY <1>1 DEF Weighs

LEMMA ClientInitInv == ClientInit => ClientInv
<1> SUFFICES ASSUME ClientInit PROVE ClientInv
    OBVIOUS
<1>1. /\ call = [pc |-> "idle", kind |-> "sync", prompt |-> 1, output |-> 1, thinking |-> 0, asked |-> {}, fresh |-> {}]
      /\ queued = [r \in CallRequests |-> [state |-> "absent", tries |-> 0, text |-> 0, status |-> "none"]]
      /\ unread = <<>>
      /\ feed = [pending |-> {}, streamed |-> {},
                 given |-> [r \in CallRequests |-> 0], finishes |-> [r \in CallRequests |-> 0]]
    BY DEF ClientInit
<1>2. call \in CallShape /\ call.pc = "idle" /\ call.kind = "sync" /\ call.asked = {}
    BY <1>1 DEF CallShape, CallKinds
<1>3. /\ queued \in QueuedShape
      /\ \A r \in CallRequests : queued[r].tries = 0 /\ queued[r].text = 0 /\ queued[r].state = "absent"
    BY <1>1, ClientAssumption DEF QueuedShape
<1>4. /\ feed \in FeedShape /\ feed.pending = {} /\ feed.streamed = {}
      /\ \A r \in CallRequests : feed.given[r] = 0 /\ feed.finishes[r] = 0
    BY <1>1 DEF FeedShape
<1>5. unread \in Seq(Events) /\ Len(unread) = 0 /\ 1..Len(unread) = {}
    BY <1>1, EmptySeq
<1>6. ClientShapeInv
    BY <1>2, <1>3, <1>4, <1>5 DEF ClientShapeInv
<1>7. FitsWindow
    BY <1>2 DEF FitsWindow
<1>8. ClientFlowInv
    BY <1>2, <1>4, <1>5 DEF ClientFlowInv, KindsRight, NotStarted, EndsTold
<1>9. ASSUME NEW r \in CallRequests PROVE TextBound(call, feed, unread, queued, r)
    <2>1. PICK w : Weighs(w, unread, r) /\ w[0] = 0
        BY <1>1, NothingWeighs
    <2>2. feed.given[r] + w[0] <= queued[r].text /\ feed.given[r] <= MaxDeltas
        BY <1>3, <1>4, <2>1, ClientAssumption
    <2> QED BY <1>3, <1>4, <2>1, <2>2 DEF TextBound
<1> QED BY <1>6, <1>7, <1>8, <1>9 DEF ClientInv, ClientTextInv

LEMMA OutputFits ==
    ASSUME NEW prompt \in 1..Window + 1, NEW asked_ \in 1..Window, NEW thinking \in 0..Window,
           Window - thinking - Safety > 1, NEW output, output = OutputTokens(asked_, thinking),
           NEW kept, kept = PromptTokens(prompt, output, thinking)
    PROVE  kept + output + thinking + Safety <= Window
<1>1. Window \in Nat /\ Safety \in Nat
    BY ClientAssumption
<1>2. output \in Nat /\ output <= Window - thinking - Safety - 1
    BY <1>1 DEF OutputTokens
<1>3. PromptBudget(output, thinking) = Window - output - thinking - Safety
    BY <1>1, <1>2 DEF PromptBudget
<1>4. CASE prompt + output + thinking + Safety > Window
    <2>1. kept = Window - output - thinking - Safety
        BY <1>1, <1>2, <1>3, <1>4 DEF PromptTokens
    <2> QED BY <1>1, <1>2, <2>1
<1>5. CASE ~(prompt + output + thinking + Safety > Window)
    <2>1. kept = prompt
        BY <1>5 DEF PromptTokens
    <2> QED BY <1>1, <1>2, <1>5, <2>1
<1> QED BY <1>4, <1>5

LEMMA OutputIsNumber ==
    ASSUME NEW prompt \in 1..Window + 1, NEW asked_ \in 1..Window, NEW thinking \in 0..Window,
           NEW output, output = OutputTokens(asked_, thinking)
    PROVE  output \in Int /\ thinking \in Int /\ PromptTokens(prompt, output, thinking) \in Int
<1>1. Window \in Nat /\ Safety \in Nat
    BY ClientAssumption
<1>2. output \in Int
    BY <1>1 DEF OutputTokens
<1>3. PromptBudget(output, thinking) \in Int
    BY <1>1, <1>2 DEF PromptBudget
<1> QED BY <1>1, <1>2, <1>3 DEF PromptTokens

LEMMA AdmitStep ==
    ASSUME ClientInv, NEW kind \in CallKinds, NEW prompt \in 1..Window + 1, NEW asked_ \in 1..Window,
           NEW thinking \in 0..Window, Admit(kind, prompt, asked_, thinking)
    PROVE  ClientInv'
<1>1. /\ call \in CallShape /\ queued \in QueuedShape /\ feed \in FeedShape
      /\ call.pc = "idle" /\ call.kind = "sync" /\ call.asked = {} /\ NotStarted(feed)
      /\ unread' = <<>> /\ queued' = queued /\ feed' = feed
    BY DEF Admit, ClientInv, ClientShapeInv, ClientFlowInv, KindsRight
<1>2. unread' \in Seq(Events) /\ 1..Len(unread') = {}
    BY <1>1, EmptySeq
<1>3. PICK output : output = OutputTokens(asked_, thinking)
    OBVIOUS
<1>4. /\ call' \in CallShape /\ FitsWindow'
      /\ \/ call'.pc = "done" /\ call'.kind = "sync"
         \/ call'.pc = "submitting" /\ (call'.kind = "chat_stream" => \E x : call'.asked = {x})
    <2>1. CASE Refused(prompt, output, thinking)
        <3>1. call' = [call EXCEPT !.pc = "done"]
            BY <1>3, <2>1 DEF Admit
        <3>2. call' \in CallShape /\ call'.pc = "done" /\ call'.kind = "sync"
            BY <1>1, <3>1 DEF CallShape
        <3> QED BY <3>2 DEF FitsWindow
    <2>2. CASE ~Refused(prompt, output, thinking)
        <3>0. PICK kept : kept = PromptTokens(prompt, output, thinking)
            OBVIOUS
        <3>1. PICK R \in SUBSET CallRequests \ {{}} :
                  /\ kind = "chat_stream" => Cardinality(R) = 1
                  /\ call' = [pc |-> "submitting", kind |-> kind, output |-> output, thinking |-> thinking,
                              prompt |-> kept, asked |-> R, fresh |-> {}]
            BY <1>3, <2>2, <3>0 DEF Admit
        <3>2. output \in Int /\ thinking \in Int /\ kept \in Int
            BY <1>3, <3>0, OutputIsNumber
        <3>3. call' \in CallShape
            BY <3>1, <3>2 DEF CallShape
        <3>4. /\ call'.pc = "submitting" /\ call'.kind = kind /\ call'.asked = R
              /\ call'.output = output /\ call'.thinking = thinking /\ call'.prompt = kept
            BY <3>1
        <3>5. Cardinality(R) = 1 => \E x : R = {x}
            <4>1. IsFiniteSet(R)
                BY ClientAssumption, FS_Subset
            <4> QED BY <4>1, FS_Singleton
        <3>6. FitsWindow'
            <4>1. Window - thinking - Safety > 1 => kept + output + thinking + Safety <= Window
                BY <1>3, <3>0, OutputFits
            <4> QED BY <3>4, <4>1 DEF FitsWindow
        <3> QED BY <3>1, <3>3, <3>4, <3>5, <3>6
    <2> QED BY <2>1, <2>2
<1>5. ClientShapeInv'
    BY <1>1, <1>2, <1>4 DEF ClientShapeInv
<1>6. ClientFlowInv'
    <2>1. KindsRight(call', unread')
        BY <1>2, <1>4 DEF KindsRight
    <2>2. EndsTold(unread', queued')
        BY <1>2 DEF EndsTold
    <2>3. NotStarted(feed')
        BY <1>1
    <2>4. call'.pc # "streaming" /\ (call'.pc = "done" => call'.kind = "sync")
        BY <1>4
    <2> QED BY <2>1, <2>2, <2>3, <2>4 DEF ClientFlowInv
<1>7. ASSUME NEW r \in CallRequests PROVE TextBound(call', feed', unread', queued', r)
    <2>1. PICK w : Weighs(w, unread', r) /\ w[0] = 0
        BY <1>1, NothingWeighs
    <2>2. /\ queued[r].tries = 0 => queued[r].text = 0 /\ queued[r].state \in {"absent", "queued"}
          /\ queued[r].tries <= 1 => feed.given[r] <= MaxDeltas
        BY DEF ClientInv, ClientTextInv, TextBound
    <2>3. queued[r].text \in Nat
        BY <1>1, ClientAssumption DEF QueuedShape
    <2>4. feed.given[r] + w[0] <= queued[r].text
        BY <1>1, <2>1, <2>3 DEF NotStarted
    <2>5. feed.given[r] = 0
        BY <1>1 DEF NotStarted
    <2> QED BY <1>1, <2>1, <2>2, <2>4, <2>5 DEF TextBound
<1> QED BY <1>4, <1>5, <1>6, <1>7 DEF ClientInv, ClientTextInv

(* The queue and its workers: one request changes and its event is logged.  *)
LEMMA QueueEventStep ==
    ASSUME ClientInv, NEW r \in CallRequests, NEW type \in {"queued", "running", "delta", "end"},
           NEW q, queued' = [queued EXCEPT ![r] = q],
           q \in [state : {"absent", "queued", "running"} \cup TerminalStates, tries : Nat,
                  text : 0..MaxDeltas, status : ResultStatuses \cup {"none"}],
           Event(r, type), call' = call, feed' = feed, call.pc # "done", ~Ended(queued, r),
           type = "end" => q.state \in TerminalStates, type # "end" => q.state \notin TerminalStates,
           type = "delta" => call.kind = "completion_stream" /\ q.text = queued[r].text + 1,
           q.tries <= 1 => queued[r].tries <= 1 /\ (type # "delta" => queued[r].text <= q.text),
           q.tries = 0 => q.text = 0 /\ q.state \in {"absent", "queued"}
    PROVE  ClientInv'
<1>1. /\ call \in CallShape /\ queued \in QueuedShape /\ unread \in Seq(Events) /\ feed \in FeedShape
      /\ FitsWindow /\ KindsRight(call, unread) /\ EndsTold(unread, queued)
      /\ call.pc \in {"idle", "submitting", "streaming", "waiting"}
    BY DEF ClientInv, ClientShapeInv, ClientFlowInv, CallShape
<1>2. PICK e \in Events : e = [req |-> r, type |-> type] /\ e.req = r /\ e.type = type
    <2>1. [req |-> r, type |-> type] \in Events
        BY DEF Events
    <2> QED BY <2>1
<1>3. PICK v, L : /\ v = unread' /\ L = Len(unread) /\ L \in Nat
    BY <1>1, SeqFacts
<1>4. \/ v = Append(unread, e) /\ Listening
      \/ v = unread /\ call.kind = "sync"
    <2>1. CASE Listening
        BY <1>2, <1>3, <2>1 DEF Event
    <2>2. CASE ~Listening
        BY <1>1, <1>3, <2>2 DEF Event, Listening, KindsRight
    <2> QED BY <2>1, <2>2
<1>5. /\ queued' \in QueuedShape /\ queued'[r] = q
      /\ \A x \in CallRequests : x # r => queued'[x] = queued[x]
    BY <1>1 DEF QueuedShape
<1>6. /\ v \in Seq(Events)
      /\ \A i \in 1..L : v[i] = unread[i] /\ i \in 1..Len(v)
      /\ \A i \in 1..Len(v) : i \in 1..L \/ (i = L + 1 /\ v[i] = e)
      /\ v = Append(unread, e) => L + 1 \in 1..Len(v) /\ v[L + 1] = e
    <2>1. CASE v = Append(unread, e)
        <3>1. /\ v \in Seq(Events) /\ Len(v) = L + 1 /\ v[L + 1] = e
              /\ \A i \in 1..L : v[i] = unread[i] /\ i \in 1..L + 1
              /\ \A i \in 1..L + 1 : i \in 1..L \/ i = L + 1
            BY <1>1, <1>3, <2>1, AppendFacts
        <3>2. L + 1 \in 1..L + 1
            BY <1>3
        <3> QED BY <3>1, <3>2
    <2>2. CASE v = unread /\ v # Append(unread, e)
        BY <1>1, <1>3, <2>2
    <2> QED BY <1>4, <2>1, <2>2
<1>7. \A i \in 1..L : ~EndAt(unread, i, r)
    BY <1>1, <1>3 DEF EndsTold
<1>8. ASSUME NEW i \in 1..Len(v), NEW x \in CallRequests, EndAt(v, i, x)
      PROVE  \/ x # r /\ i \in 1..L /\ EndAt(unread, i, x)
             \/ x = r /\ i = L + 1 /\ type = "end"
    <2>1. CASE i \in 1..L
        <3>1. EndAt(unread, i, x)
            BY <1>6, <1>8, <2>1 DEF EndAt
        <3> QED BY <1>7, <2>1, <3>1
    <2>2. CASE i = L + 1 /\ v[i] = e
        BY <1>2, <1>8, <2>2 DEF EndAt
    <2> QED BY <1>6, <2>1, <2>2
<1>9. EndsTold(v, queued')
    <2>1. ASSUME NEW x \in CallRequests, NEW i \in 1..Len(v), NEW j \in 1..Len(v), EndAt(v, i, x), EndAt(v, j, x)
          PROVE  i = j
        <3>1. CASE x # r
            <4>1. i \in 1..L /\ EndAt(unread, i, x) /\ j \in 1..L /\ EndAt(unread, j, x)
                BY <1>8, <2>1, <3>1
            <4> QED BY <1>1, <1>3, <4>1 DEF EndsTold
        <3>2. CASE x = r
            BY <1>8, <2>1, <3>2
        <3> QED BY <3>1, <3>2
    <2>2. ASSUME NEW x \in CallRequests, NEW i \in 1..Len(v), EndAt(v, i, x)
          PROVE  Ended(queued', x)
        <3>1. CASE x # r
            <4>1. i \in 1..L /\ EndAt(unread, i, x)
                BY <1>8, <2>2, <3>1
            <4>2. Ended(queued, x)
                BY <1>1, <1>3, <4>1 DEF EndsTold
            <4> QED BY <1>5, <3>1, <4>2 DEF Ended
        <3>2. CASE x = r
            BY <1>5, <1>8, <2>2, <3>2 DEF Ended
        <3> QED BY <3>1, <3>2
    <2> QED BY <2>1, <2>2 DEF EndsTold
<1>10. KindsRight(call, v)
    <2>1. ASSUME call.kind # "completion_stream", NEW i \in 1..Len(v), NEW x \in CallRequests
          PROVE  ~DeltaAt(v, i, x)
        <3>1. CASE i \in 1..L
            <4>1. ~DeltaAt(unread, i, x)
                BY <1>1, <1>3, <2>1, <3>1 DEF KindsRight
            <4> QED BY <1>6, <3>1, <4>1 DEF DeltaAt
        <3>2. CASE i = L + 1 /\ v[i] = e
            <4>1. type # "delta"
                BY <2>1
            <4> QED BY <1>2, <3>2, <4>1 DEF DeltaAt
        <3> QED BY <1>6, <3>1, <3>2
    <2> QED BY <1>1, <2>1 DEF KindsRight
<1>11. ASSUME call.pc = "streaming"
       PROVE  FinishesTold(feed, v, queued') /\ PendingRight(call, feed) /\ EndAhead(call, feed, v, queued')
    <2>1. FinishesTold(feed, unread, queued) /\ PendingRight(call, feed) /\ EndAhead(call, feed, unread, queued)
        BY <1>11 DEF ClientInv, ClientFlowInv
    <2>2. v = Append(unread, e)
        BY <1>1, <1>4, <1>11 DEF KindsRight
    <2>3. ASSUME NEW x \in CallRequests, feed.finishes[x] = 1
          PROVE  Ended(queued', x) /\ \A i \in 1..Len(v) : ~EndAt(v, i, x)
        <3>1. Ended(queued, x) /\ \A i \in 1..L : ~EndAt(unread, i, x)
            BY <1>3, <2>1, <2>3 DEF FinishesTold
        <3>2. x # r
            BY <3>1
        <3> QED BY <1>5, <1>8, <3>1, <3>2 DEF Ended
    <2>4. FinishesTold(feed, v, queued')
        BY <2>1, <2>3 DEF FinishesTold
    <2>5. ASSUME NEW x \in feed.pending, x \in call.fresh, Ended(queued', x)
          PROVE  \/ \E i \in 1..Len(v) : EndAt(v, i, x)
                 \/ call.kind = "chat_stream" /\ feed.finishes[x] = 1
        <3>1. CASE x = r
            <4>1. type = "end"
                BY <1>5, <2>5, <3>1 DEF Ended
            <4>2. L + 1 \in 1..Len(v) /\ EndAt(v, L + 1, x)
                BY <1>2, <1>6, <2>2, <3>1, <4>1 DEF EndAt
            <4> QED BY <4>2
        <3>2. CASE x # r
            <4>1. x \in CallRequests
                BY <1>1, <2>5 DEF FeedShape
            <4>2. Ended(queued, x)
                BY <1>5, <2>5, <3>2, <4>1 DEF Ended
            <4>3. CASE \E i \in 1..L : EndAt(unread, i, x)
                BY <1>6, <4>3 DEF EndAt
            <4>4. CASE call.kind = "chat_stream" /\ feed.finishes[x] = 1
                BY <4>4
            <4> QED BY <1>3, <2>1, <2>5, <4>2, <4>3, <4>4 DEF EndAhead
        <3> QED BY <3>1, <3>2
    <2> QED BY <2>1, <2>4, <2>5 DEF EndAhead
<1>12. ASSUME NEW x \in CallRequests PROVE TextBound(call, feed, v, queued', x)
    <2>1. /\ queued[x].tries = 0 => queued[x].text = 0 /\ queued[x].state \in {"absent", "queued"}
          /\ queued[x].tries <= 1 => feed.given[x] <= MaxDeltas
          /\ queued[x].tries <= 1 => \E w : Weighs(w, unread, x) /\
                (feed.finishes[x] = 0 => feed.given[x] + w[0] <= queued[x].text
                                         /\ (x \notin feed.streamed => feed.given[x] = 0))
        BY DEF ClientInv, ClientTextInv, TextBound
    <2>2. queued'[x].tries <= 1 => queued[x].tries <= 1
        BY <1>5
    <2>3. queued'[x].tries = 0 => queued'[x].text = 0 /\ queued'[x].state \in {"absent", "queued"}
        BY <1>5, <2>1
    <2>4. ASSUME queued'[x].tries <= 1
          PROVE  \E w : Weighs(w, v, x) /\
                    (feed.finishes[x] = 0 => feed.given[x] + w[0] <= queued'[x].text
                                             /\ (x \notin feed.streamed => feed.given[x] = 0))
        <3>1. PICK w : Weighs(w, unread, x) /\
                 (feed.finishes[x] = 0 => feed.given[x] + w[0] <= queued[x].text
                                          /\ (x \notin feed.streamed => feed.given[x] = 0))
            BY <2>1, <2>2, <2>4
        <3>6. Weighs(w, unread, x) /\ unread \in Seq(Events)
            BY <1>1, <3>1
        <3>7. ASSUME v = Append(unread, e)
              PROVE  \E z : Weighs(z, v, x) /\ MoreText(z, w, e, x)
            BY <3>6, <3>7, WeighsMore
        <3>2. /\ queued[x].text \in Nat /\ queued'[x].text \in Nat /\ feed.given[x] \in Nat /\ w[0] \in Nat
            <4>1. queued[x].text \in 0..MaxDeltas /\ queued'[x].text \in 0..MaxDeltas
                BY <1>1, <1>5 DEF QueuedShape
            <4>2. feed.given[x] \in Nat
                BY <1>1 DEF FeedShape
            <4>3. w[0] \in Nat
                <5>1. 0 \in 0..Len(unread)
                    BY <1>3
                <5> QED BY <3>1, <5>1 DEF Weighs
            <4> QED BY <4>1, <4>2, <4>3
        <3>3. PICK g, a, t, s : g = feed.given[x] /\ a = w[0] /\ t = queued[x].text /\ s = queued'[x].text
            OBVIOUS
        <3>4. CASE x = r /\ type = "delta"
            <4>1. v = Append(unread, e)
                BY <1>4, <3>4
            <4>5. DeltaOf(e, x)
                BY <1>2, <3>4 DEF DeltaOf
            <4>6. \E z : Weighs(z, v, x) /\ MoreText(z, w, e, x)
                BY <3>7, <4>1
            <4>2. PICK z : Weighs(z, v, x) /\ z[0] = w[0] + 1
                BY <4>5, <4>6 DEF MoreText
            <4>3. s = t + 1
                BY <1>5, <3>3, <3>4
            <4>4. g + a <= t => g + (a + 1) <= s
                BY <3>2, <3>3, <4>3
            <4> QED BY <3>1, <3>3, <4>2, <4>4
        <3>5. CASE ~(x = r /\ type = "delta")
            <4>1. PICK z : Weighs(z, v, x) /\ z[0] = w[0]
                <5>1. CASE v = Append(unread, e)
                    <6>1. ~DeltaOf(e, x)
                        BY <1>2, <3>5 DEF DeltaOf
                    <6>2. \E z : Weighs(z, v, x) /\ MoreText(z, w, e, x)
                        BY <3>7, <5>1
                    <6> QED BY <6>1, <6>2 DEF MoreText
                <5>2. CASE v = unread
                    BY <3>1, <5>2
                <5> QED BY <1>4, <5>1, <5>2
            <4>2. t <= s
                <5>1. CASE x = r
                    BY <1>5, <2>4, <3>3, <3>5, <5>1
                <5>2. CASE x # r
                    BY <1>5, <3>2, <3>3, <5>2
                <5> QED BY <5>1, <5>2
            <4>3. g + a <= t => g + a <= s
                BY <3>2, <3>3, <4>2
            <4> QED BY <3>1, <3>3, <4>1, <4>3
        <3> QED BY <3>4, <3>5
    <2> QED BY <2>1, <2>2, <2>3, <2>4 DEF TextBound
<1>13. ClientShapeInv' /\ FitsWindow'
    BY <1>1, <1>3, <1>5, <1>6 DEF ClientShapeInv, FitsWindow
<1>14. ClientFlowInv'
    <2>1. call.pc \in {"idle", "submitting"} => NotStarted(feed)
        BY DEF ClientInv, ClientFlowInv
    <2> QED BY <1>3, <1>9, <1>10, <1>11, <2>1 DEF ClientFlowInv
<1>15. ClientTextInv'
    BY <1>3, <1>12 DEF ClientTextInv
<1> QED BY <1>13, <1>14, <1>15 DEF ClientInv

LEMMA RequestFacts ==
    ASSUME ClientInv, NEW r \in CallRequests
    PROVE  /\ queued[r] \in [state : {"absent", "queued", "running"} \cup TerminalStates, tries : Nat,
                             text : 0..MaxDeltas, status : ResultStatuses \cup {"none"}]
           /\ queued[r].tries = 0 => queued[r].text = 0 /\ queued[r].state \in {"absent", "queued"}
           /\ queued[r].tries \in Nat /\ queued[r].text \in Nat /\ queued[r].text <= MaxDeltas
<1>1. queued \in QueuedShape /\ TextBound(call, feed, unread, queued, r) /\ MaxDeltas \in Nat
    BY ClientAssumption DEF ClientInv, ClientShapeInv, ClientTextInv
<1>2. queued[r] \in [state : {"absent", "queued", "running"} \cup TerminalStates, tries : Nat,
                     text : 0..MaxDeltas, status : ResultStatuses \cup {"none"}]
    BY <1>1 DEF QueuedShape
<1>3. queued[r].tries \in Nat /\ queued[r].text \in 0..MaxDeltas
    BY <1>2
<1>4. queued[r].text \in Nat /\ queued[r].text <= MaxDeltas
    BY <1>1, <1>3
<1> QED BY <1>1, <1>2, <1>3, <1>4 DEF TextBound

LEMMA EarlierStep == ASSUME ClientInv, NEW r \in CallRequests, Earlier(r) PROVE ClientInv'
<1>1. PICK q : q = [queued[r] EXCEPT !.state = "queued"]
    OBVIOUS
<1>2. /\ queued' = [queued EXCEPT ![r] = q] /\ call.pc = "idle" /\ queued[r].state = "absent"
      /\ Event(r, "queued") /\ call' = call /\ feed' = feed
    BY <1>1 DEF Earlier
<1>3. /\ q \in [state : {"absent", "queued", "running"} \cup TerminalStates, tries : Nat,
                text : 0..MaxDeltas, status : ResultStatuses \cup {"none"}]
      /\ q.state = "queued" /\ q.tries = queued[r].tries /\ q.text = queued[r].text
    BY <1>1, RequestFacts
<1>4. ~Ended(queued, r) /\ q.state \notin TerminalStates
    BY <1>2, <1>3 DEF Ended, TerminalStates
<1>5. q.tries = 0 => q.text = 0 /\ q.state \in {"absent", "queued"}
    BY <1>3, RequestFacts
<1>6. q.tries <= 1 => queued[r].tries <= 1 /\ queued[r].text <= q.text
    BY <1>3, RequestFacts
<1> QED BY <1>2, <1>3, <1>4, <1>5, <1>6, QueueEventStep

LEMMA AttemptStep == ASSUME ClientInv, NEW r \in CallRequests, Attempt(r) PROVE ClientInv'
<1>1. PICK q, m : q = [queued[r] EXCEPT !.state = "running", !.tries = m, !.text = 0] /\ m = queued[r].tries + 1
    OBVIOUS
<1>2. /\ queued' = [queued EXCEPT ![r] = q] /\ call.pc # "done" /\ queued[r].state = "queued"
      /\ Event(r, "running") /\ call' = call /\ feed' = feed
    <2>1. queued' = [queued EXCEPT ![r] = [queued[r] EXCEPT !.state = "running", !.tries = queued[r].tries + 1, !.text = 0]]
        BY DEF Attempt
    <2>2. call.pc # "done" /\ queued[r].state = "queued" /\ Event(r, "running") /\ call' = call /\ feed' = feed
        BY DEF Attempt, Followed
    <2> QED BY <1>1, <2>1, <2>2
<1>3. /\ q \in [state : {"absent", "queued", "running"} \cup TerminalStates, tries : Nat,
                text : 0..MaxDeltas, status : ResultStatuses \cup {"none"}]
      /\ q.state = "running" /\ q.tries = queued[r].tries + 1 /\ q.text = 0
    <2>1. m \in Nat /\ 0 \in 0..MaxDeltas
        BY <1>1, RequestFacts, ClientAssumption
    <2>2. queued[r] \in [state : {"absent", "queued", "running"} \cup TerminalStates, tries : Nat,
                         text : 0..MaxDeltas, status : ResultStatuses \cup {"none"}]
        BY RequestFacts
    <2> QED BY <1>1, <2>1, <2>2
<1>4. ~Ended(queued, r) /\ q.state \notin TerminalStates
    BY <1>2, <1>3 DEF Ended, TerminalStates
<1>5. q.tries # 0 /\ (q.tries <= 1 => queued[r].tries = 0)
    BY <1>3, RequestFacts
<1>6. q.tries <= 1 => queued[r].tries <= 1 /\ queued[r].text <= q.text
    BY <1>3, <1>5, RequestFacts
<1> QED BY <1>2, <1>3, <1>4, <1>5, <1>6, QueueEventStep

LEMMA StreamDeltaStep == ASSUME ClientInv, NEW r \in CallRequests, StreamDelta(r) PROVE ClientInv'
<1>1. PICK q : q = [queued[r] EXCEPT !.text = queued[r].text + 1]
    OBVIOUS
<1>2. /\ queued' = [queued EXCEPT ![r] = q] /\ call.pc # "done" /\ queued[r].state = "running"
      /\ Event(r, "delta") /\ call' = call /\ feed' = feed /\ call.kind = "completion_stream"
      /\ queued[r].text < MaxDeltas
    BY <1>1 DEF StreamDelta, Followed
<1>3. queued[r].text + 1 \in 0..MaxDeltas
    BY <1>2, RequestFacts, ClientAssumption
<1>4. /\ q \in [state : {"absent", "queued", "running"} \cup TerminalStates, tries : Nat,
                text : 0..MaxDeltas, status : ResultStatuses \cup {"none"}]
      /\ q.state = "running" /\ q.tries = queued[r].tries /\ q.text = queued[r].text + 1
    BY <1>1, <1>2, <1>3, RequestFacts
<1>5. ~Ended(queued, r) /\ q.state \notin TerminalStates
    BY <1>2, <1>4 DEF Ended, TerminalStates
<1>6. q.tries # 0 /\ (q.tries <= 1 => queued[r].tries <= 1)
    BY <1>2, <1>4, RequestFacts
<1> QED BY <1>2, <1>4, <1>5, <1>6, QueueEventStep

LEMMA RetryAttemptStep == ASSUME ClientInv, NEW r \in CallRequests, RetryAttempt(r) PROVE ClientInv'
<1>1. PICK q : q = [queued[r] EXCEPT !.state = "queued"]
    OBVIOUS
<1>2. /\ queued' = [queued EXCEPT ![r] = q] /\ call.pc # "done" /\ queued[r].state = "running"
      /\ Event(r, "queued") /\ call' = call /\ feed' = feed
    BY <1>1 DEF RetryAttempt, Followed
<1>3. /\ q \in [state : {"absent", "queued", "running"} \cup TerminalStates, tries : Nat,
                text : 0..MaxDeltas, status : ResultStatuses \cup {"none"}]
      /\ q.state = "queued" /\ q.tries = queued[r].tries /\ q.text = queued[r].text
    BY <1>1, RequestFacts
<1>4. ~Ended(queued, r) /\ q.state \notin TerminalStates
    BY <1>2, <1>3 DEF Ended, TerminalStates
<1>5. q.tries # 0 /\ (q.tries <= 1 => queued[r].tries <= 1 /\ queued[r].text <= q.text)
    BY <1>2, <1>3, RequestFacts
<1> QED BY <1>2, <1>3, <1>4, <1>5, QueueEventStep

LEMMA EndRequestStep ==
    ASSUME ClientInv, NEW r \in CallRequests, NEW status \in ResultStatuses, EndRequest(r, status) PROVE ClientInv'
<1>0. PICK s : s = (IF status = "transport_failed" THEN "failed" ELSE status) /\ s \in TerminalStates
    BY DEF ResultStatuses, TerminalStates
<1>1. PICK q : q = [queued[r] EXCEPT !.status = status, !.text = MaxDeltas, !.state = s]
    OBVIOUS
<1>2. /\ queued' = [queued EXCEPT ![r] = q] /\ call.pc # "done" /\ queued[r].state = "running"
      /\ Event(r, "end") /\ call' = call /\ feed' = feed
    BY <1>0, <1>1 DEF EndRequest, Followed
<1>3. MaxDeltas \in 0..MaxDeltas
    BY ClientAssumption
<1>4. /\ q \in [state : {"absent", "queued", "running"} \cup TerminalStates, tries : Nat,
                text : 0..MaxDeltas, status : ResultStatuses \cup {"none"}]
      /\ q.state = s /\ q.tries = queued[r].tries /\ q.text = MaxDeltas
    BY <1>0, <1>1, <1>3, RequestFacts
<1>5. ~Ended(queued, r) /\ q.state \in TerminalStates
    BY <1>0, <1>2, <1>4 DEF Ended, TerminalStates
<1>6. q.tries # 0 /\ (q.tries <= 1 => queued[r].tries <= 1 /\ queued[r].text <= q.text)
    BY <1>2, <1>4, RequestFacts
<1> QED BY <1>2, <1>4, <1>5, <1>6, QueueEventStep

(* The requests of the call are submitted.                                  *)
LEMMA SubmitCallStep == ASSUME ClientInv, SubmitCall PROVE ClientInv'
<1>1. /\ call \in CallShape /\ queued \in QueuedShape /\ unread \in Seq(Events) /\ feed \in FeedShape
      /\ KindsRight(call, unread) /\ EndsTold(unread, queued) /\ call.pc = "submitting" /\ NotStarted(feed)
    BY DEF ClientInv, ClientShapeInv, ClientFlowInv, SubmitCall
<1>2. PICK new, pc : /\ new = {r \in call.asked : queued[r].state = "absent"}
                     /\ pc = IF call.kind = "sync" THEN "waiting" ELSE "streaming"
                     /\ call' = [call EXCEPT !.pc = pc, !.fresh = new, !.prompt = 1, !.output = 1, !.thinking = 0]
    BY DEF SubmitCall
<1>3. new \subseteq CallRequests /\ IsFiniteSet(new) /\ pc \in {"waiting", "streaming"} /\ call.asked \subseteq CallRequests
    <2>1. new \subseteq CallRequests /\ call.asked \subseteq CallRequests
        BY <1>1, <1>2 DEF CallShape
    <2> QED BY <1>2, <2>1, ClientAssumption, FS_Subset
<1>4. /\ call' \in CallShape /\ call'.pc = pc /\ call'.kind = call.kind /\ call'.asked = call.asked /\ call'.fresh = new
    <2>1. call = [pc |-> call.pc, kind |-> call.kind, prompt |-> call.prompt, output |-> call.output,
                  thinking |-> call.thinking, asked |-> call.asked, fresh |-> call.fresh]
          /\ call.kind \in CallKinds /\ call.asked \in SUBSET CallRequests
        BY <1>1 DEF CallShape
    <2>2. call' = [pc |-> pc, kind |-> call.kind, prompt |-> 1, output |-> 1, thinking |-> 0,
                   asked |-> call.asked, fresh |-> new]
        BY <1>2, <2>1
    <2>3. 0 \in Int /\ 1 \in Int /\ pc \in {"idle", "submitting", "streaming", "waiting", "done"}
          /\ new \in SUBSET CallRequests
        BY <1>3
    <2> QED BY <2>1, <2>2, <2>3 DEF CallShape
<1>5. \A r \in CallRequests : queued'[r] = IF r \in new THEN [queued[r] EXCEPT !.state = "queued"] ELSE queued[r]
    BY <1>2 DEF SubmitCall
<1>6. /\ queued' \in QueuedShape
      /\ \A r \in CallRequests : /\ queued'[r].tries = queued[r].tries /\ queued'[r].text = queued[r].text
                                 /\ r \notin new => queued'[r].state = queued[r].state
                                 /\ r \in new => queued'[r].state = "queued" /\ queued[r].state = "absent"
    <2>1. \A r \in CallRequests :
             queued[r] \in [state : {"absent", "queued", "running"} \cup TerminalStates, tries : Nat,
                            text : 0..MaxDeltas, status : ResultStatuses \cup {"none"}]
        BY <1>1 DEF QueuedShape
    <2>2. \A r \in CallRequests :
             queued'[r] \in [state : {"absent", "queued", "running"} \cup TerminalStates, tries : Nat,
                             text : 0..MaxDeltas, status : ResultStatuses \cup {"none"}]
        <3>1. ASSUME NEW r \in CallRequests, r \in new
              PROVE  queued'[r] \in [state : {"absent", "queued", "running"} \cup TerminalStates, tries : Nat,
                                     text : 0..MaxDeltas, status : ResultStatuses \cup {"none"}]
            <4>1. queued'[r] = [queued[r] EXCEPT !.state = "queued"]
                BY <1>5, <3>1
            <4> QED BY <2>1, <4>1
        <3> QED BY <1>5, <2>1, <3>1
    <2>3. queued' = [r \in CallRequests |-> queued'[r]]
        BY <1>2 DEF SubmitCall
    <2>4. queued' \in QueuedShape
        BY <2>2, <2>3 DEF QueuedShape
    <2>5. \A r \in CallRequests : /\ queued'[r].tries = queued[r].tries /\ queued'[r].text = queued[r].text
                                  /\ r \notin new => queued'[r].state = queued[r].state
                                  /\ r \in new => queued'[r].state = "queued"
        BY <1>5, <2>1
    <2> QED BY <1>2, <2>4, <2>5
<1>7. /\ feed' \in FeedShape /\ feed'.pending = call.asked /\ feed'.streamed = feed.streamed
      /\ feed'.given = feed.given /\ feed'.finishes = feed.finishes
    BY <1>1, <1>3 DEF SubmitCall, FeedShape
<1>8. PICK S, t : S = [req : new, type : {"queued"}] /\ t = SetToSeq(S)
    OBVIOUS
<1>9. t \in Seq(Events) /\ Len(t) \in Nat /\ \A i \in 1..Len(t) : t[i].type = "queued"
    <2>1. S \subseteq Events
        BY <1>3, <1>8 DEF Events
    <2>2. IsFiniteSet(S)
        <3>1. PICK f : f = [x \in new |-> [req |-> x, type |-> "queued"]]
            OBVIOUS
        <3>2. f \in Surjection(new, S)
            <4>1. f \in [new -> S]
                BY <1>8, <3>1
            <4>2. \A y \in S : \E x \in new : f[x] = y
                BY <1>8, <3>1
            <4> QED BY <4>1, <4>2 DEF Surjection
        <3> QED BY <1>3, <3>2, FS_Surjection
    <2>3. t \in Seq(S)
        BY <1>8, <2>2, SetToSeqCovers
    <2>4. t \in Seq(Events)
        BY <2>1, <2>3, SeqWider
    <2>5. \A i \in 1..Len(t) : t[i] \in S
        BY <2>3, SeqFacts
    <2> QED BY <1>8, <2>4, <2>5, SeqFacts
<1>10. PICK v : v = unread' /\ (v = unread \o t \/ v = unread)
    BY <1>2, <1>8 DEF SubmitCall
<1>11. PICK L, M : L = Len(unread) /\ M = Len(t) /\ L \in Nat /\ M \in Nat
    BY <1>1, <1>9, SeqFacts
<1>12. /\ v \in Seq(Events)
       /\ \A i \in 1..Len(v) : (i \in 1..L /\ v[i] = unread[i]) \/ v[i].type = "queued"
    <2>1. CASE v = unread
        BY <1>1, <1>11, <2>1
    <2>2. CASE v = unread \o t
        <3>1. /\ v \in Seq(Events) /\ Len(v) = L + M /\ \A i \in 1..L : v[i] = unread[i]
              /\ \A i \in 1..M : v[L + i] = t[i]
            BY <1>1, <1>9, <1>11, <2>2, ConcatFacts
        <3>2. ASSUME NEW i \in 1..L + M, i \notin 1..L PROVE v[i].type = "queued"
            <4>1. i - L \in 1..M /\ L + (i - L) = i
                BY <1>11, <3>2
            <4> QED BY <1>9, <1>11, <3>1, <4>1
        <3> QED BY <3>1, <3>2
    <2> QED BY <1>10, <2>1, <2>2
<1>13. ASSUME NEW i \in 1..Len(v), NEW r \in CallRequests
       PROVE  /\ EndAt(v, i, r) => i \in 1..L /\ EndAt(unread, i, r)
              /\ DeltaAt(v, i, r) => i \in 1..L /\ DeltaAt(unread, i, r)
    BY <1>12 DEF EndAt, DeltaAt
<1>14. EndsTold(v, queued')
    <2>1. ASSUME NEW r \in CallRequests, Ended(queued, r) PROVE Ended(queued', r)
        BY <1>6, <2>1 DEF Ended, TerminalStates
    <2> QED BY <1>1, <1>11, <1>13, <2>1 DEF EndsTold
<1>15. KindsRight(call', v)
    <2>1. call.kind = "chat_stream" => \E x : call.asked = {x}
        BY <1>1 DEF KindsRight
    <2>2. call.kind # "completion_stream" => \A i \in 1..Len(v), r \in CallRequests : ~DeltaAt(v, i, r)
        BY <1>1, <1>11, <1>13 DEF KindsRight
    <2>3. /\ call'.pc \notin {"idle"} /\ call'.kind = call.kind /\ call'.asked = call.asked
          /\ (call'.pc = "waiting" => call.kind = "sync") /\ (call'.pc = "streaming" => call.kind # "sync")
        BY <1>2, <1>3, <1>4
    <2> QED BY <2>1, <2>2, <2>3 DEF KindsRight
<1>16. FinishesTold(feed', v, queued')
    BY <1>1, <1>7 DEF FinishesTold, NotStarted
<1>17. PendingRight(call', feed')
    BY <1>1, <1>3, <1>4, <1>7 DEF PendingRight, NotStarted
<1>18. EndAhead(call', feed', v, queued')
    <2>1. ASSUME NEW r, r \in new PROVE ~Ended(queued', r)
        BY <1>3, <1>6, <2>1 DEF Ended, TerminalStates
    <2> QED BY <1>4, <2>1 DEF EndAhead
<1>19. ASSUME NEW r \in CallRequests PROVE TextBound(call', feed', v, queued', r)
    <2>1. /\ queued[r].tries = 0 => queued[r].text = 0 /\ queued[r].state \in {"absent", "queued"}
          /\ queued[r].tries <= 1 => feed.given[r] <= MaxDeltas
          /\ queued[r].tries <= 1 => \E w : Weighs(w, unread, r) /\
                (feed.finishes[r] = 0 => feed.given[r] + w[0] <= queued[r].text
                                         /\ (r \notin feed.streamed => feed.given[r] = 0))
        BY <1>1 DEF ClientInv, ClientTextInv, TextBound
    <2>2. ASSUME queued[r].tries <= 1
          PROVE  \E w : Weighs(w, v, r) /\
                (feed.finishes[r] = 0 => feed.given[r] + w[0] <= queued[r].text
                                         /\ (r \notin feed.streamed => feed.given[r] = 0))
        <3>1. PICK w : Weighs(w, unread, r) /\
                (feed.finishes[r] = 0 => feed.given[r] + w[0] <= queued[r].text
                                         /\ (r \notin feed.streamed => feed.given[r] = 0))
            BY <2>1, <2>2
        <3>2. NoDelta(t, r)
            BY <1>9 DEF DeltaAt, NoDelta
        <3>3. v = unread \o t => \E z : Weighs(z, v, r) /\ z[0] = w[0]
            <4>1. Weighs(w, unread, r) /\ unread \in Seq(Events) /\ t \in Seq(Events)
                BY <1>1, <1>9, <3>1
            <4>2. \E z : Weighs(z, unread \o t, r) /\ z[0] = w[0]
                BY <3>2, <4>1, WeighsSame
            <4> QED BY <4>2
        <3>4. PICK z : Weighs(z, v, r) /\ z[0] = w[0]
            BY <1>10, <3>1, <3>3
        <3> QED BY <3>1, <3>4
    <2>3. queued'[r].tries = 0 => queued'[r].text = 0 /\ queued'[r].state \in {"absent", "queued"}
        BY <1>6, <2>1
    <2>4. queued'[r].tries = queued[r].tries /\ queued'[r].text = queued[r].text
        BY <1>6
    <2> HIDE DEF Weighs
    <2> QED BY <1>7, <2>1, <2>2, <2>3, <2>4 DEF TextBound
<1>20. FitsWindow'
    BY <1>3, <1>4 DEF FitsWindow
<1>21. ClientShapeInv'
    BY <1>4, <1>6, <1>7, <1>10, <1>12 DEF ClientShapeInv
<1>22. ClientFlowInv'
    <2>1. call'.pc \notin {"idle", "submitting", "done"}
        BY <1>3, <1>4
    <2> QED BY <1>10, <1>14, <1>15, <1>16, <1>17, <1>18, <2>1 DEF ClientFlowInv
<1> QED BY <1>10, <1>19, <1>20, <1>21, <1>22 DEF ClientInv, ClientTextInv

(* A page is read.                                                          *)
LEMMA PollEventsStep == ASSUME ClientInv, PollEvents PROVE ClientInv'
<1>1. /\ call \in CallShape /\ queued \in QueuedShape /\ unread \in Seq(Events) /\ feed \in FeedShape
      /\ FitsWindow /\ KindsRight(call, unread) /\ EndsTold(unread, queued)
      /\ call.pc = "streaming" /\ feed.pending # {} /\ call' = call /\ queued' = queued
      /\ FinishesTold(feed, unread, queued) /\ PendingRight(call, feed) /\ EndAhead(call, feed, unread, queued)
    BY DEF ClientInv, ClientShapeInv, ClientFlowInv, PollEvents
<1>2. PICK N, L : /\ N = (IF PageLimit < Len(unread) THEN PageLimit ELSE Len(unread)) /\ L = Len(unread)
                  /\ N \in Nat /\ L \in Nat /\ N <= L
    <2>1. Len(unread) \in Nat /\ PageLimit \in Nat
        BY <1>1, SeqFacts, ClientAssumption
    <2> QED BY <2>1
<1>3. PICK p, after : /\ p = SubSeq(unread, 1, N) /\ after = DrainAll(feed, p)
                      /\ feed' = [after EXCEPT !.pending = StillPending(after)]
    BY <1>2 DEF PollEvents
<1>4. PICK v : v = unread' /\ v = SubSeq(unread, N + 1, Len(unread))
    BY <1>2 DEF PollEvents
<1>5. p \in Seq(Events) /\ Len(p) = N /\ \A i \in 1..N : p[i] = unread[i]
    BY <1>1, <1>2, <1>3, PageFacts
<1>6. PICK g : g[0] = feed /\ after = g[N] /\ \A i \in 1..N : g[i] = Drain(g[i - 1], unread[i])
    <2>1. PICK g : DrainRun(g, feed, p) /\ DrainAll(feed, p) = g[Len(p)]
        BY <1>5, DrainRuns
    <2>2. g[0] = feed /\ after = g[N]
        BY <1>3, <1>5, <2>1 DEF DrainRun
    <2>3. \A i \in 1..N : g[i] = Drain(g[i - 1], p[i])
        BY <1>5, <2>1 DEF DrainRun
    <2> QED BY <1>5, <2>2, <2>3
<1>7. Passed(feed, after, unread, N)
    BY <1>1, <1>2, <1>6, PagePassed
<1>8. /\ v \in Seq(Events)
      /\ \A i \in 1..Len(v) : v[i] = unread[N + i] /\ N + i \in 1..L /\ N + i \notin 1..N
      /\ \A i \in 1..L : i \notin 1..N => i - N \in 1..Len(v) /\ v[i - N] = unread[i]
    <2>0. N \in Nat /\ N <= Len(unread) /\ v = SubSeq(unread, N + 1, Len(unread))
        BY <1>2, <1>4
    <2>1. /\ v \in Seq(Events) /\ Len(v) = L - N
          /\ \A i \in 1..Len(v) : v[i] = unread[N + i] /\ N + i \in 1..L
          /\ \A i \in 1..L : i \notin 1..N => i - N \in 1..Len(v) /\ v[i - N] = unread[i]
        <3>1. /\ v \in Seq(Events) /\ Len(v) = Len(unread) - N
              /\ \A i \in 1..Len(v) : v[i] = unread[N + i] /\ N + i \in 1..Len(unread)
              /\ \A i \in 1..Len(unread) : i \notin 1..N => i - N \in 1..Len(v) /\ v[i - N] = unread[i]
            BY <1>1, <2>0, RestFacts
        <3> QED BY <1>2, <3>1
    <2>2. \A i \in 1..(L - N) : N + i \notin 1..N
        BY <1>2
    <2> QED BY <2>1, <2>2
<1>9. ASSUME NEW i \in 1..Len(v), NEW r \in CallRequests
      PROVE  /\ EndAt(v, i, r) => EndAt(unread, N + i, r)
             /\ DeltaAt(v, i, r) => DeltaAt(unread, N + i, r)
    BY <1>8 DEF EndAt, DeltaAt
<1>10. /\ after \in FeedShape
       /\ \A r \in CallRequests :
             /\ r \in after.pending => r \in feed.pending /\ after.finishes[r] = feed.finishes[r]
             /\ r \notin after.pending /\ r \notin feed.pending => after.finishes[r] = feed.finishes[r]
             /\ r \notin after.pending /\ r \in feed.pending =>
                   after.finishes[r] = feed.finishes[r] + 1 /\ \E i \in 1..N : EndAt(unread, i, r)
             /\ \A i \in 1..N : EndAt(unread, i, r) => r \notin after.pending
    BY <1>7 DEF Passed
<1>11. /\ \A r \in CallRequests : feed.finishes[r] \in {0, 1}
       /\ \A r \in CallRequests : feed.finishes[r] = 1 => Ended(queued, r) /\ \A i \in 1..L : ~EndAt(unread, i, r)
    BY <1>1, <1>2 DEF FinishesTold
<1>12. ASSUME NEW r \in CallRequests, r \notin after.pending, r \in feed.pending
       PROVE  /\ feed.finishes[r] = 0 /\ after.finishes[r] = 1 /\ Ended(queued, r)
              /\ \A i \in 1..Len(v) : ~EndAt(v, i, r)
    <2>1. PICK i \in 1..N : EndAt(unread, i, r)
        BY <1>10, <1>12
    <2>2. i \in 1..L
        BY <1>2
    <2>3. feed.finishes[r] = 0
        BY <1>11, <2>1, <2>2
    <2>4. after.finishes[r] = 1
        BY <1>10, <1>12, <2>3
    <2>5. Ended(queued, r) /\ \A j \in 1..L : EndAt(unread, j, r) => j = i
        BY <1>1, <1>2, <2>1, <2>2 DEF EndsTold
    <2>6. ASSUME NEW j \in 1..Len(v) PROVE ~EndAt(v, j, r)
        BY <1>8, <1>9, <2>5
    <2> QED BY <2>3, <2>4, <2>5, <2>6
<1>13. PICK P : /\ P = StillPending(after) /\ P \subseteq call.asked
                /\ \/ P = after.pending
                   \/ call.kind = "chat_stream" /\ \A r \in P : r \in CallRequests /\ r \in feed.pending /\ r \notin after.pending
    <2>1. after.pending \subseteq feed.pending /\ feed.pending \subseteq call.asked
        BY <1>1, <1>10 DEF FeedShape, PendingRight
    <2>2. CASE StillPending(after) = after.pending
        BY <2>1, <2>2
    <2>3. CASE StillPending(after) # after.pending
        <3>1. /\ call.kind = "chat_stream" /\ StillPending(after) = call.asked
              /\ \E r \in call.asked \ after.pending : queued[r].status = "transport_failed"
            BY <2>3 DEF StillPending
        <3>2. PICK x : call.asked = {x}
            BY <1>1, <3>1 DEF KindsRight
        <3>3. x \notin after.pending /\ x \in feed.pending /\ x \in CallRequests
            BY <1>1, <2>1, <3>1, <3>2 DEF FeedShape
        <3> QED BY <3>1, <3>2, <3>3
    <2> QED BY <2>2, <2>3
<1>14. /\ feed' \in FeedShape /\ feed'.pending = P /\ feed'.streamed = after.streamed
       /\ feed'.given = after.given /\ feed'.finishes = after.finishes
    <2>1. P \subseteq CallRequests
        BY <1>1, <1>13 DEF CallShape
    <2>2. feed' = [after EXCEPT !.pending = P]
        BY <1>3, <1>13
    <2> QED BY <1>10, <2>1, <2>2 DEF FeedShape
<1>15. FinishesTold(feed', v, queued)
    <2>1. ASSUME NEW r \in CallRequests
          PROVE  /\ after.finishes[r] \in {0, 1}
                 /\ after.finishes[r] = 1 => Ended(queued, r) /\ \A i \in 1..Len(v) : ~EndAt(v, i, r)
        <3>1. CASE r \notin after.pending /\ r \in feed.pending
            BY <1>12, <3>1
        <3>2. CASE r \in after.pending \/ r \notin feed.pending
            <4>1. after.finishes[r] = feed.finishes[r]
                BY <1>10, <3>2
            <4> QED BY <1>8, <1>9, <1>11, <4>1
        <3> QED BY <3>1, <3>2
    <2> QED BY <1>14, <2>1 DEF FinishesTold
<1>16. PendingRight(call, feed')
    <2>1. ASSUME call.kind = "completion_stream", NEW r \in call.asked
          PROVE  (r \in P => after.finishes[r] = 0) /\ (r \notin P => after.finishes[r] = 1)
        <3>1. r \in CallRequests /\ P = after.pending
            BY <1>1, <1>13, <2>1 DEF CallShape
        <3>2. (r \in feed.pending => feed.finishes[r] = 0) /\ (r \notin feed.pending => feed.finishes[r] = 1)
            BY <1>1, <2>1 DEF PendingRight
        <3> QED BY <1>10, <1>12, <3>1, <3>2
    <2> QED BY <1>13, <1>14, <2>1 DEF PendingRight
<1>17. EndAhead(call, feed', v, queued)
    <2>1. ASSUME NEW r \in P, r \in call.fresh, Ended(queued, r)
          PROVE  \/ \E i \in 1..Len(v) : EndAt(v, i, r)
                 \/ call.kind = "chat_stream" /\ after.finishes[r] = 1
        <3>1. CASE P = after.pending
            <4>1. r \in CallRequests /\ r \in after.pending /\ r \in feed.pending
                  /\ after.finishes[r] = feed.finishes[r]
                BY <1>10, <3>1 DEF FeedShape
            <4>2. \/ \E i \in 1..L : EndAt(unread, i, r)
                  \/ call.kind = "chat_stream" /\ feed.finishes[r] = 1
                BY <1>1, <1>2, <2>1, <4>1 DEF EndAhead
            <4>3. ASSUME NEW i \in 1..L, EndAt(unread, i, r) PROVE \E j \in 1..Len(v) : EndAt(v, j, r)
                <5>1. i \notin 1..N
                    BY <1>10, <4>1, <4>3
                <5>2. i - N \in 1..Len(v) /\ v[i - N] = unread[i]
                    BY <1>8, <5>1
                <5>3. EndAt(v, i - N, r)
                    BY <4>3, <5>2 DEF EndAt
                <5> QED BY <5>2, <5>3
            <4> QED BY <4>1, <4>2, <4>3
        <3>2. CASE P # after.pending
            BY <1>12, <1>13, <3>2
        <3> QED BY <3>1, <3>2
    <2> QED BY <1>14, <2>1 DEF EndAhead
<1>18. EndsTold(v, queued)
    <2>1. ASSUME NEW r \in CallRequests, NEW i \in 1..Len(v), NEW j \in 1..Len(v), EndAt(v, i, r), EndAt(v, j, r)
          PROVE  i = j
        <3>1. EndAt(unread, N + i, r) /\ EndAt(unread, N + j, r) /\ N + i \in 1..L /\ N + j \in 1..L
            BY <1>8, <1>9, <2>1
        <3>2. N + i = N + j
            BY <1>1, <1>2, <3>1 DEF EndsTold
        <3> QED BY <1>2, <3>2
    <2>2. ASSUME NEW r \in CallRequests, NEW i \in 1..Len(v), EndAt(v, i, r) PROVE Ended(queued, r)
        <3>1. EndAt(unread, N + i, r) /\ N + i \in 1..L
            BY <1>8, <1>9, <2>2
        <3> QED BY <1>1, <1>2, <3>1 DEF EndsTold
    <2> QED BY <2>1, <2>2 DEF EndsTold
<1>19. KindsRight(call, v)
    <2>1. call.kind # "completion_stream" => \A i \in 1..L, r \in CallRequests : ~DeltaAt(unread, i, r)
        BY <1>1, <1>2 DEF KindsRight
    <2>2. call.kind # "completion_stream" => \A i \in 1..Len(v), r \in CallRequests : ~DeltaAt(v, i, r)
        BY <1>8, <1>9, <2>1
    <2> QED BY <1>1, <2>2 DEF KindsRight
<1>20. ASSUME NEW r \in CallRequests PROVE TextBound(call, feed', v, queued, r)
    <2>1. /\ queued[r].tries = 0 => queued[r].text = 0 /\ queued[r].state \in {"absent", "queued"}
          /\ queued[r].tries <= 1 => feed.given[r] <= MaxDeltas
          /\ queued[r].tries <= 1 => \E w : Weighs(w, unread, r) /\
                (feed.finishes[r] = 0 => feed.given[r] + w[0] <= queued[r].text
                                         /\ (r \notin feed.streamed => feed.given[r] = 0))
        BY <1>1 DEF ClientInv, ClientTextInv, TextBound
    <2>2. Quiet(feed, unread, r)
        <3>1. ASSUME r \in feed.pending, feed.finishes[r] # 0, NEW i \in 1..L
              PROVE  ~EndAt(unread, i, r) /\ ~DeltaAt(unread, i, r)
            <4>1. ~EndAt(unread, i, r)
                BY <1>11, <3>1
            <4>2. call.kind # "completion_stream"
                BY <1>1, <3>1 DEF PendingRight
            <4> QED BY <1>1, <1>2, <4>1, <4>2 DEF KindsRight
        <3> QED BY <1>2, <3>1 DEF Quiet
    <2>3. ASSUME queued[r].tries <= 1
          PROVE  /\ after.given[r] <= MaxDeltas
                 /\ \E w : Weighs(w, v, r) /\
                      (after.finishes[r] = 0 => after.given[r] + w[0] <= queued[r].text
                                                /\ (r \notin after.streamed => after.given[r] = 0))
        <3>1. PICK w : Weighs(w, unread, r) /\
                 (feed.finishes[r] = 0 => feed.given[r] + w[0] <= queued[r].text
                                          /\ (r \notin feed.streamed => feed.given[r] = 0))
            BY <2>1, <2>3
        <3>2. Weighs(w, unread, r) /\ TextLeft(feed, w, 0, r)
            BY <2>1, <2>3, <3>1 DEF TextLeft
        <3>3. TextLeft(after, w, N, r)
            <4>1. TextLeft(g[N], w, N, r)
                BY <1>1, <1>2, <1>6, <2>2, <3>2, PageText
            <4> QED BY <1>6, <4>1
        <3>4. PICK z : Weighs(z, v, r) /\ z[0] = w[N]
            <4>1. Weighs(w, unread, r) /\ N \in Nat /\ N <= Len(unread) /\ v = SubSeq(unread, N + 1, Len(unread))
                  /\ unread \in Seq(Events)
                BY <1>1, <1>2, <1>4, <3>2
            <4>2. \E z : Weighs(z, SubSeq(unread, N + 1, Len(unread)), r) /\ z[0] = w[N]
                BY <4>1, WeighsRest
            <4> QED BY <4>1, <4>2
        <3> QED BY <3>3, <3>4 DEF TextLeft
    <2> QED BY <1>14, <2>1, <2>3 DEF TextBound
<1>21. ClientShapeInv' /\ FitsWindow'
    BY <1>1, <1>4, <1>8, <1>14 DEF ClientShapeInv, FitsWindow
<1>22. ClientFlowInv'
    BY <1>1, <1>4, <1>15, <1>16, <1>17, <1>18, <1>19 DEF ClientFlowInv
<1>23. ClientTextInv'
    BY <1>1, <1>4, <1>20 DEF ClientTextInv
<1> QED BY <1>21, <1>22, <1>23 DEF ClientInv

(* The stream is over, with an error chunk for what is pending.             *)
LEMMA CloseStreamStep == ASSUME ClientInv, CloseStream PROVE ClientInv'
<1>1. /\ call \in CallShape /\ queued \in QueuedShape /\ feed \in FeedShape
      /\ KindsRight(call, unread) /\ call.pc = "streaming" /\ queued' = queued
      /\ call' = [call EXCEPT !.pc = "done"] /\ unread' = <<>>
      /\ FinishesTold(feed, unread, queued) /\ PendingRight(call, feed)
    BY DEF ClientInv, ClientShapeInv, ClientFlowInv, CloseStream
<1>2. unread' \in Seq(Events) /\ 1..Len(unread') = {}
    BY <1>1, EmptySeq
<1>3. call' \in CallShape /\ call'.pc = "done" /\ call'.kind = call.kind /\ call'.asked = call.asked
    BY <1>1 DEF CallShape
<1>4. /\ feed' \in FeedShape /\ feed'.pending = {} /\ feed'.streamed = feed.streamed /\ feed'.given = feed.given
      /\ \A r \in CallRequests : /\ r \in feed.pending => feed'.finishes[r] = feed.finishes[r] + 1
                                 /\ r \notin feed.pending => feed'.finishes[r] = feed.finishes[r]
    <2>1. PICK F : F = [r \in CallRequests |-> IF r \in feed.pending THEN feed.finishes[r] + 1 ELSE feed.finishes[r]]
        OBVIOUS
    <2>2. feed' = [feed EXCEPT !.pending = {}, !.finishes = F]
        BY <2>1 DEF CloseStream
    <2>3. feed.finishes \in [CallRequests -> Nat]
        BY <1>1 DEF FeedShape
    <2>4. F \in [CallRequests -> Nat]
        BY <2>1, <2>3
    <2>5. \A r \in CallRequests : /\ r \in feed.pending => F[r] = feed.finishes[r] + 1
                                  /\ r \notin feed.pending => F[r] = feed.finishes[r]
        BY <2>1
    <2>6. feed' \in FeedShape /\ feed'.pending = {} /\ feed'.streamed = feed.streamed /\ feed'.given = feed.given
          /\ feed'.finishes = F
        BY <1>1, <2>2, <2>4 DEF FeedShape
    <2> QED BY <2>5, <2>6
<1>5. ASSUME call.kind = "completion_stream", NEW r \in call.asked PROVE feed'.finishes[r] = 1
    <2>1. r \in CallRequests
        BY <1>1 DEF CallShape
    <2>2. (r \in feed.pending => feed.finishes[r] = 0) /\ (r \notin feed.pending => feed.finishes[r] = 1)
        BY <1>1, <1>5 DEF PendingRight
    <2> QED BY <1>4, <2>1, <2>2
<1>6. ASSUME NEW r \in CallRequests PROVE TextBound(call', feed', unread', queued', r)
    BY <1>1, <1>3, <1>4 DEF TextBound, ClientInv, ClientTextInv
<1>7. ClientShapeInv' /\ FitsWindow'
    BY <1>1, <1>2, <1>3, <1>4 DEF ClientShapeInv, FitsWindow
<1>8. KindsRight(call', unread') /\ EndsTold(unread', queued')
    BY <1>1, <1>2, <1>3 DEF KindsRight, EndsTold
<1>9. ClientFlowInv'
    BY <1>3, <1>5, <1>8 DEF ClientFlowInv
<1> QED BY <1>6, <1>7, <1>9 DEF ClientInv, ClientTextInv

(* The batch is collected, or given up.                                     *)
LEMMA AnsweredStep ==
    ASSUME ClientInv, call.pc = "waiting", call' = [call EXCEPT !.pc = "done"], unread' = <<>>,
           UNCHANGED <<queued, feed>>
    PROVE  ClientInv'
<1>1. /\ call \in CallShape /\ queued \in QueuedShape /\ feed \in FeedShape
      /\ KindsRight(call, unread) /\ call.kind = "sync" /\ queued' = queued /\ feed' = feed
    BY DEF ClientInv, ClientShapeInv, ClientFlowInv, KindsRight
<1>2. unread' \in Seq(Events) /\ 1..Len(unread') = {}
    BY EmptySeq
<1>3. call' \in CallShape /\ call'.pc = "done" /\ call'.kind = "sync"
    BY <1>1 DEF CallShape
<1>4. ASSUME NEW r \in CallRequests PROVE TextBound(call', feed', unread', queued', r)
    BY <1>1, <1>3 DEF TextBound, ClientInv, ClientTextInv
<1>5. ClientShapeInv' /\ FitsWindow'
    BY <1>1, <1>2, <1>3 DEF ClientShapeInv, FitsWindow
<1>6. KindsRight(call', unread') /\ EndsTold(unread', queued')
    BY <1>2, <1>3 DEF KindsRight, EndsTold
<1>7. ClientFlowInv'
    BY <1>3, <1>6 DEF ClientFlowInv
<1> QED BY <1>4, <1>5, <1>7 DEF ClientInv, ClientTextInv

LEMMA ClientStep == ClientInv /\ ClientNext => ClientInv'
<1> SUFFICES ASSUME ClientInv, ClientNext PROVE ClientInv'
    OBVIOUS
<1>1. ASSUME NEW kind \in CallKinds, NEW prompt \in 1..Window + 1, NEW asked_ \in 1..Window,
             NEW thinking \in 0..Window, Admit(kind, prompt, asked_, thinking) PROVE ClientInv'
    BY <1>1, AdmitStep
<1>2. ASSUME NEW r \in CallRequests, Earlier(r) PROVE ClientInv'
    BY <1>2, EarlierStep
<1>3. ASSUME NEW r \in CallRequests, Attempt(r) PROVE ClientInv'
    BY <1>3, AttemptStep
<1>4. ASSUME NEW r \in CallRequests, StreamDelta(r) PROVE ClientInv'
    BY <1>4, StreamDeltaStep
<1>5. ASSUME NEW r \in CallRequests, RetryAttempt(r) PROVE ClientInv'
    BY <1>5, RetryAttemptStep
<1>6. ASSUME NEW r \in CallRequests, NEW status \in ResultStatuses, EndRequest(r, status) PROVE ClientInv'
    BY <1>6, EndRequestStep
<1>7. CASE SubmitCall
    BY <1>7, SubmitCallStep
<1>8. CASE PollEvents
    BY <1>8, PollEventsStep
<1>9. CASE CloseStream
    BY <1>9, CloseStreamStep
<1>10. CASE Collect
    BY <1>10, AnsweredStep DEF Collect
<1>11. CASE GiveUpWaiting
    BY <1>11, AnsweredStep DEF GiveUpWaiting
<1> QED BY <1>1, <1>2, <1>3, <1>4, <1>5, <1>6, <1>7, <1>8, <1>9, <1>10, <1>11 DEF ClientNext

LEMMA ClientRests == ClientInv /\ UNCHANGED clientVars => ClientInv'
BY DEF clientVars, ClientInv, ClientShapeInv, ClientFlowInv, ClientTextInv, FitsWindow

LEMMA ClientGood == ClientInv => FitsWindow /\ FinishAhead /\ FinishedOnce /\ TextOnce
<1> SUFFICES ASSUME ClientInv PROVE FitsWindow /\ FinishAhead /\ FinishedOnce /\ TextOnce
    OBVIOUS
<1>1. call \in CallShape /\ unread \in Seq(Events) /\ feed \in FeedShape /\ KindsRight(call, unread)
    BY DEF ClientInv, ClientShapeInv, ClientFlowInv
<1>2. FinishAhead
    <2>1. ASSUME call.pc = "streaming", NEW r \in feed.pending \cap call.fresh, queued[r].state \in TerminalStates,
                 ~(call.kind = "chat_stream" /\ feed.finishes[r] = 1)
          PROVE  Contains(unread, [req |-> r, type |-> "end"])
        <3>1. EndAhead(call, feed, unread, queued)
            BY <2>1 DEF ClientInv, ClientFlowInv
        <3>2. PICK i \in 1..Len(unread) : EndAt(unread, i, r)
            BY <2>1, <3>1 DEF EndAhead, Ended
        <3>3. unread[i] \in Events
            BY <1>1, SeqFacts
        <3>4. unread[i] = [req |-> r, type |-> "end"]
            BY <3>2, <3>3 DEF EndAt, Events
        <3> QED BY <3>4 DEF Contains
    <2> QED BY <2>1 DEF FinishAhead
<1>3. FinishedOnce
    <2>1. ASSUME call.kind = "completion_stream", NEW r \in call.asked
          PROVE  feed.finishes[r] \in {0, 1} /\ (call.pc = "done" => feed.finishes[r] = 1)
        <3>1. r \in CallRequests
            BY <1>1 DEF CallShape
        <3>2. call.pc \in {"idle", "submitting", "streaming", "waiting", "done"}
            BY <1>1 DEF CallShape
        <3>3. CASE call.pc = "done"
            BY <2>1, <3>3 DEF ClientInv, ClientFlowInv
        <3>4. CASE call.pc = "streaming"
            BY <3>1, <3>4 DEF ClientInv, ClientFlowInv, FinishesTold
        <3>5. CASE call.pc \in {"idle", "submitting"}
            BY <3>1, <3>5 DEF ClientInv, ClientFlowInv, NotStarted
        <3>6. CASE call.pc = "waiting"
            BY <1>1, <2>1, <3>6 DEF KindsRight
        <3> QED BY <3>2, <3>3, <3>4, <3>5, <3>6
    <2> QED BY <2>1 DEF FinishedOnce
<1>4. TextOnce
    BY DEF ClientInv, ClientTextInv, TextBound, TextOnce
<1> QED BY <1>2, <1>3, <1>4 DEF ClientInv

-----------------------------------------------------------------------------
(* A member and its stream.  A piece, the end and one sequence in another.  *)
LEMMA MidFacts ==
    ASSUME NEW A, NEW u \in Seq(A), NEW a \in Nat, NEW k \in Nat, a + k <= Len(u), NEW v, v = SubSeq(u, a + 1, a + k)
    PROVE  v \in Seq(A) /\ Len(v) = k /\ \A i \in 1..k : v[i] = u[a + i]
<1>1. PICK L : L = Len(u) /\ L \in Nat /\ u \in [1..L -> A]
    OBVIOUS
<1>2. (a + k) - (a + 1) + 1 = k /\ \A i \in 1..k : a + i \in 1..L /\ i + (a + 1) - 1 = a + i
    BY <1>1
<1>3. v = [i \in 1..k |-> u[a + i]]
    <2>1. v = [i \in 1..((a + k) - (a + 1) + 1) |-> u[i + (a + 1) - 1]]
        OBVIOUS
    <2> QED BY <1>2, <2>1
<1>4. \A i \in 1..k : u[a + i] \in A
    BY <1>1, <1>2
<1>5. PICK f : f = [i \in 1..k |-> u[a + i]]
    OBVIOUS
<1>6. f \in [1..k -> A] /\ \A i \in 1..k : f[i] = u[a + i]
    BY <1>4, <1>5
<1>7. f \in Seq(A) /\ Len(f) = k
    BY <1>6
<1> QED BY <1>3, <1>5, <1>6, <1>7

LEMMA SameSeq ==
    ASSUME NEW A, NEW s \in Seq(A), NEW t \in Seq(A), Len(s) = Len(t), \A i \in 1..Len(s) : s[i] = t[i]
    PROVE  s = t
OBVIOUS

LEMMA SuffixFacts ==
    ASSUME NEW A, NEW s \in Seq(A), NEW t \in Seq(A), Len(s) <= Len(t),
           \A i \in 1..Len(s) : t[(Len(t) - Len(s)) + i] = s[i]
    PROVE  IsSuffix(s, t)
<1>1. PICK K, L : K = Len(s) /\ L = Len(t) /\ K \in Nat /\ L \in Nat /\ K <= L
    BY SeqFacts
<1>2. PICK f, h : f = Reverse(s) /\ h = Reverse(t)
    OBVIOUS
<1>3. /\ f \in Seq(A) /\ Len(f) = K /\ \A i \in 1..K : f[i] = s[(K - i) + 1]
      /\ h \in Seq(A) /\ Len(h) = L /\ \A i \in 1..L : h[i] = t[(L - i) + 1]
    <2>1. f = [i \in 1..K |-> s[(K - i) + 1]] /\ h = [i \in 1..L |-> t[(L - i) + 1]]
        BY <1>1, <1>2 DEF Reverse
    <2>2. /\ \A i \in 1..K : (K - i) + 1 \in 1..K
          /\ \A i \in 1..L : (L - i) + 1 \in 1..L
        BY <1>1
    <2>3. /\ \A i \in 1..K : s[(K - i) + 1] \in A
          /\ \A i \in 1..L : t[(L - i) + 1] \in A
        BY <1>1, <2>2, SeqFacts
    <2>4. f \in [1..K -> A] /\ h \in [1..L -> A]
        BY <2>1, <2>3
    <2>5. f \in Seq(A) /\ Len(f) = K /\ h \in Seq(A) /\ Len(h) = L
        BY <1>1, <2>4
    <2> QED BY <2>1, <2>5
<1>4. PICK x, y : x = SubSeq(f, 1, K) /\ y = SubSeq(h, 1, K)
    OBVIOUS
<1>5. /\ x \in Seq(A) /\ Len(x) = K /\ \A i \in 1..K : x[i] = f[i]
      /\ y \in Seq(A) /\ Len(y) = K /\ \A i \in 1..K : y[i] = h[i]
    BY <1>1, <1>3, <1>4, PageFacts
<1>6. ASSUME NEW i \in 1..K PROVE x[i] = y[i]
    <2>0. K \in Nat /\ L \in Nat /\ K <= L /\ i \in Nat /\ 1 <= i /\ i <= K
        BY <1>1
    <2>1. i \in 1..L /\ (K - i) + 1 \in 1..K /\ (L - K) + ((K - i) + 1) = (L - i) + 1
        BY <2>0
    <2>2. t[(L - K) + ((K - i) + 1)] = s[(K - i) + 1]
        BY <1>1, <2>1
    <2> QED BY <1>3, <1>5, <2>1, <2>2
<1>7. x = y
    BY <1>5, <1>6, SameSeq
<1> QED BY <1>1, <1>2, <1>3, <1>4, <1>7 DEF IsSuffix, IsPrefix

(* Where the visible text starts, and the first whole answer line in it.    *)
VisibleFrom(s) == IF CloseAt(s) = {} THEN 1 ELSE FirstOf(CloseAt(s)) + 2
AnswersAt(s) == {i \in VisibleFrom(s)..Len(s) : s[i] = "Answer" /\ (i = VisibleFrom(s) \/ s[i - 1] = "newline")}
LineEnds(s, i) == {j \in i + 1..Len(s) : s[j] = "newline"}
WholeAnswers(s) == {i \in AnswersAt(s) : LineEnds(s, i) # {}}
FirstLine(s, a, e) ==
    /\ a \in WholeAnswers(s) /\ \A k \in WholeAnswers(s) : a <= k
    /\ e \in LineEnds(s, a) /\ \A k \in LineEnds(s, a) : e <= k

LEMMA StopTextIs ==
    \A s : StopText(s) = IF WholeAnswers(s) = {} THEN <<>>
                         ELSE SubSeq(s, 1, FirstOf(LineEnds(s, FirstOf(WholeAnswers(s)))) - 1)
BY DEF StopText, WholeAnswers, AnswersAt, LineEnds, VisibleFrom

LEMMA CloseFacts ==
    ASSUME NEW s \in Seq(Tokens)
    PROVE  /\ CloseAt(s) \in SUBSET Nat /\ VisibleFrom(s) \in Nat /\ VisibleFrom(s) >= 1
           /\ CloseAt(s) # {} =>
                 /\ FirstOf(CloseAt(s)) \in CloseAt(s) /\ \A k \in CloseAt(s) : FirstOf(CloseAt(s)) <= k
                 /\ FirstOf(CloseAt(s)) \in 1..Len(s) - 1
<1>1. Len(s) \in Nat
    BY SeqFacts
<1>2. CloseAt(s) \in SUBSET Nat /\ CloseAt(s) \subseteq 1..Len(s) - 1
    BY <1>1 DEF CloseAt
<1>3. CloseAt(s) # {} =>
          /\ FirstOf(CloseAt(s)) \in CloseAt(s) /\ \A k \in CloseAt(s) : FirstOf(CloseAt(s)) <= k
    BY <1>2, FirstIsLeast
<1>4. VisibleFrom(s) \in Nat /\ VisibleFrom(s) >= 1
    <2>1. CloseAt(s) # {} => FirstOf(CloseAt(s)) \in Nat
        BY <1>2, <1>3
    <2> QED BY <2>1 DEF VisibleFrom
<1> QED BY <1>2, <1>3, <1>4

LEMMA StopTextLine ==
    ASSUME NEW s \in Seq(Tokens), NEW a, NEW e, FirstLine(s, a, e)
    PROVE  StopText(s) = SubSeq(s, 1, e - 1) /\ a \in Nat /\ e \in Nat /\ VisibleFrom(s) <= a /\ a < e /\ e <= Len(s)
<1>1. PICK L, V : L = Len(s) /\ V = VisibleFrom(s) /\ L \in Nat /\ V \in Nat /\ V >= 1
    BY SeqFacts, CloseFacts
<1>2. a \in V..L /\ e \in a + 1..L
    BY <1>1 DEF FirstLine, WholeAnswers, AnswersAt, LineEnds
<1>3. WholeAnswers(s) \in SUBSET Nat
    BY <1>1 DEF WholeAnswers, AnswersAt
<1>4. LineEnds(s, a) \in SUBSET Nat
    BY <1>1, <1>2 DEF LineEnds
<1>5. FirstOf(WholeAnswers(s)) = a
    <2>1. PICK W : W = WholeAnswers(s)
        OBVIOUS
    <2>2. W \in SUBSET Nat /\ a \in W /\ \A k \in W : a <= k
        BY <1>3, <2>1 DEF FirstLine
    <2>3. FirstOf(W) \in W /\ \A k \in W : FirstOf(W) <= k
        BY <2>2, FirstIsLeast
    <2>4. FirstOf(W) <= a /\ a <= FirstOf(W) /\ FirstOf(W) \in Nat /\ a \in Nat
        BY <2>2, <2>3
    <2>5. FirstOf(W) = a
        BY <2>4
    <2> QED BY <2>1, <2>5
<1>6. FirstOf(LineEnds(s, a)) = e
    <2>1. PICK W : W = LineEnds(s, a)
        OBVIOUS
    <2>2. W \in SUBSET Nat /\ e \in W /\ \A k \in W : e <= k
        BY <1>4, <2>1 DEF FirstLine
    <2>3. FirstOf(W) \in W /\ \A k \in W : FirstOf(W) <= k
        BY <2>2, FirstIsLeast
    <2>4. FirstOf(W) <= e /\ e <= FirstOf(W) /\ FirstOf(W) \in Nat /\ e \in Nat
        BY <2>2, <2>3
    <2>5. FirstOf(W) = e
        BY <2>4
    <2> QED BY <2>1, <2>5
<1>7. WholeAnswers(s) # {}
    BY DEF FirstLine
<1>8. StopText(s) = SubSeq(s, 1, e - 1)
    BY <1>5, <1>6, <1>7, StopTextIs
<1> QED BY <1>1, <1>2, <1>8

LEMMA StopTextFound ==
    ASSUME NEW s \in Seq(Tokens), StopText(s) # <<>>
    PROVE  \E a, e : FirstLine(s, a, e)
<1>1. PICK L, V : L = Len(s) /\ V = VisibleFrom(s) /\ L \in Nat /\ V \in Nat /\ V >= 1
    BY SeqFacts, CloseFacts
<1>2. WholeAnswers(s) # {}
    BY StopTextIs
<1>3. WholeAnswers(s) \in SUBSET Nat
    BY <1>1 DEF WholeAnswers, AnswersAt
<1>4. PICK a : a \in WholeAnswers(s) /\ \A k \in WholeAnswers(s) : a <= k
    BY <1>2, <1>3, LeastMember
<1>5. LineEnds(s, a) # {}
    BY <1>4 DEF WholeAnswers
<1>6. LineEnds(s, a) \in SUBSET Nat
    BY <1>1, <1>3, <1>4 DEF LineEnds
<1>7. PICK e : e \in LineEnds(s, a) /\ \A k \in LineEnds(s, a) : e <= k
    BY <1>5, <1>6, LeastMember
<1> QED BY <1>4, <1>7 DEF FirstLine

(* A text that is the same up to the end of that line stops there too.      *)
LEMMA SameLine ==
    ASSUME NEW s \in Seq(Tokens), NEW a, NEW e, FirstLine(s, a, e), NEW x \in Seq(Tokens), e <= Len(x),
           \A i \in 1..e : x[i] = s[i], VisibleFrom(x) = VisibleFrom(s)
    PROVE  FirstLine(x, a, e)
<1>1. PICK L, M, V : /\ L = Len(s) /\ M = Len(x) /\ V = VisibleFrom(s) /\ L \in Nat /\ M \in Nat
                     /\ V \in Nat /\ V >= 1 /\ V = VisibleFrom(x)
    BY SeqFacts, CloseFacts
<1>2. a \in Nat /\ e \in Nat /\ V <= a /\ a < e /\ e <= L /\ e <= M
    BY <1>1, StopTextLine
<1>3. /\ a \in V..L /\ s[a] = "Answer" /\ (a = V \/ s[a - 1] = "newline") /\ s[e] = "newline"
      /\ \A k \in WholeAnswers(s) : a <= k
      /\ \A k \in LineEnds(s, a) : e <= k
    BY <1>1 DEF FirstLine, WholeAnswers, AnswersAt, LineEnds
<1>4. a \in AnswersAt(x)
    <2>1. a \in V..M /\ a \in 1..e
        BY <1>1, <1>2
    <2>2. x[a] = "Answer"
        BY <1>3, <2>1
    <2>3. a = V \/ x[a - 1] = "newline"
        <3>1. ASSUME a # V PROVE a - 1 \in 1..e
            BY <1>1, <1>2, <3>1
        <3> QED BY <1>3, <3>1
    <2> QED BY <1>1, <2>1, <2>2, <2>3 DEF AnswersAt
<1>5. e \in LineEnds(x, a)
    <2>1. e \in a + 1..M /\ e \in 1..e
        BY <1>1, <1>2
    <2>2. x[e] = "newline"
        BY <1>3, <2>1
    <2> QED BY <1>1, <2>1, <2>2 DEF LineEnds
<1>6. ASSUME NEW k \in LineEnds(x, a) PROVE e <= k
    <2>1. k \in a + 1..M /\ x[k] = "newline"
        BY <1>1 DEF LineEnds
    <2>2. CASE k < e
        <3>0. k \in Nat /\ a + 1 <= k /\ k < e /\ e <= L /\ L \in Nat /\ a \in Nat /\ e \in Nat
            BY <1>1, <1>2, <2>1, <2>2
        <3>1. k \in 1..e /\ k \in a + 1..L
            BY <3>0
        <3>2. k \in LineEnds(s, a)
            BY <1>1, <2>1, <3>1 DEF LineEnds
        <3> QED BY <1>3, <3>2
    <2>3. k \in Nat
        BY <1>2, <2>1
    <2> QED BY <1>2, <2>2, <2>3
<1>7. ASSUME NEW k \in WholeAnswers(x) PROVE a <= k
    <2>1. k \in V..M /\ x[k] = "Answer" /\ (k = V \/ x[k - 1] = "newline")
        BY <1>1 DEF WholeAnswers, AnswersAt
    <2>2. CASE k < a
        <3>1. k \in 1..e /\ k \in V..L /\ (k # V => k - 1 \in 1..e) /\ e \in k + 1..L
            BY <1>1, <1>2, <2>1, <2>2
        <3>2. k \in AnswersAt(s)
            BY <1>1, <2>1, <3>1 DEF AnswersAt
        <3>3. e \in LineEnds(s, k)
            BY <1>1, <1>3, <3>1 DEF LineEnds
        <3> QED BY <1>3, <3>2, <3>3 DEF WholeAnswers
    <2>3. k \in Nat
        BY <1>1, <2>1
    <2> QED BY <1>2, <2>2, <2>3
<1> QED BY <1>4, <1>5, <1>6, <1>7 DEF FirstLine, WholeAnswers

(* The text before the line end, with one: it stops where the text did.     *)
LEMMA StopsAgain ==
    ASSUME NEW s \in Seq(Tokens), NEW a, NEW e, FirstLine(s, a, e), NEW t, t = SubSeq(s, 1, e - 1)
    PROVE  t \in Seq(Tokens) /\ StopText(t \o <<"newline">>) = t
<1>1. PICK L, V : L = Len(s) /\ V = VisibleFrom(s) /\ L \in Nat /\ V \in Nat /\ V >= 1
    BY SeqFacts, CloseFacts
<1>2. a \in Nat /\ e \in Nat /\ V <= a /\ a < e /\ e <= L /\ e - 1 \in Nat /\ e - 1 <= L
    BY <1>1, StopTextLine
<1>3. t \in Seq(Tokens) /\ Len(t) = e - 1 /\ \A i \in 1..(e - 1) : t[i] = s[i]
    BY <1>1, <1>2, PageFacts
<1>4. s[e] = "newline"
    BY <1>1 DEF FirstLine, LineEnds
<1>5. PICK x : x = t \o <<"newline">>
    OBVIOUS
<1>6. x \in Seq(Tokens) /\ Len(x) = e /\ \A i \in 1..e : x[i] = s[i]
    <2>1. PICK l : l = <<"newline">> /\ l \in Seq(Tokens) /\ Len(l) = 1 /\ l[1] = "newline"
        BY OneSeq DEF Tokens
    <2>2. /\ x \in Seq(Tokens) /\ Len(x) = Len(t) + Len(l)
          /\ \A i \in 1..Len(t) : x[i] = t[i]
          /\ \A i \in 1..Len(l) : x[Len(t) + i] = l[i]
        <3>1. /\ t \o l \in Seq(Tokens) /\ Len(t \o l) = Len(t) + Len(l)
              /\ \A i \in 1..Len(t) : (t \o l)[i] = t[i]
              /\ \A i \in 1..Len(l) : (t \o l)[Len(t) + i] = l[i]
            <4>1. t \in Seq(Tokens) /\ l \in Seq(Tokens)
                BY <1>3, <2>1
            <4> QED BY <4>1, ConcatFacts
        <3>2. x = t \o l
            BY <1>5, <2>1
        <3> QED BY <3>1, <3>2
    <2>3. Len(x) = e
        BY <1>2, <1>3, <2>1, <2>2
    <2>4. x[e] = "newline"
        <3>1. 1 \in 1..Len(l) /\ Len(t) + 1 = e
            BY <1>2, <1>3, <2>1
        <3> QED BY <2>1, <2>2, <3>1
    <2>5. \A i \in 1..e : i \in 1..(e - 1) \/ i = e
        BY <1>2
    <2> QED BY <1>3, <1>4, <2>2, <2>3, <2>4, <2>5
<1>7. VisibleFrom(x) = V
    <2>1. \A i \in 1..e - 1 : i \in 1..e /\ i + 1 \in 1..e /\ i \in 1..L - 1
        BY <1>1, <1>2
    <2>2. \A i : i \in CloseAt(x) => i \in CloseAt(s)
        BY <1>1, <1>6, <2>1 DEF CloseAt
    <2>3. \A i \in 1..e - 1 : i \in CloseAt(s) => i \in CloseAt(x)
        BY <1>6, <2>1 DEF CloseAt
    <2>4. CASE CloseAt(s) = {}
        <3>1. CloseAt(x) = {}
            BY <2>2, <2>4
        <3> QED BY <1>1, <2>4, <3>1 DEF VisibleFrom
    <2>5. CASE CloseAt(s) # {}
        <3>1. PICK c : /\ c = FirstOf(CloseAt(s)) /\ c \in CloseAt(s) /\ c \in Nat /\ c \in 1..L - 1
                       /\ \A k \in CloseAt(s) : c <= k
            BY <1>1, <2>5, CloseFacts
        <3>2. V = c + 2
            BY <1>1, <2>5, <3>1 DEF VisibleFrom
        <3>3. c \in 1..e - 1
            BY <1>1, <1>2, <3>1, <3>2
        <3>4. c \in CloseAt(x)
            BY <2>3, <3>1, <3>3
        <3>5. PICK d : d = FirstOf(CloseAt(x)) /\ d \in CloseAt(x) /\ d \in Nat /\ \A k \in CloseAt(x) : d <= k
            BY <1>6, <3>4, CloseFacts
        <3>6. d <= c /\ c <= d
            BY <2>2, <3>1, <3>4, <3>5
        <3>7. d = c
            BY <3>1, <3>5, <3>6
        <3> QED BY <3>2, <3>4, <3>5, <3>7 DEF VisibleFrom
    <2> QED BY <2>4, <2>5
<1>8. FirstLine(x, a, e)
    <2>1. e <= Len(x)
        BY <1>2, <1>6
    <2> QED BY <1>1, <1>6, <1>7, <2>1, SameLine
<1>9. StopText(x) = SubSeq(x, 1, e - 1)
    BY <1>6, <1>8, StopTextLine
<1>10. SubSeq(x, 1, e - 1) = t
    <2>1. PICK y : y = SubSeq(x, 1, e - 1)
        OBVIOUS
    <2>2. y \in Seq(Tokens) /\ Len(y) = e - 1 /\ \A i \in 1..(e - 1) : y[i] = x[i]
        <3>1. e - 1 <= Len(x)
            BY <1>2, <1>6
        <3> QED BY <1>2, <1>6, <2>1, <3>1, PageFacts
    <2>3. \A i \in 1..(e - 1) : i \in 1..e
        BY <1>2
    <2>4. \A i \in 1..(e - 1) : y[i] = t[i]
        BY <1>3, <1>6, <2>2, <2>3
    <2>5. y = t
        BY <1>3, <2>2, <2>4, SameSeq
    <2> QED BY <2>1, <2>5
<1> QED BY <1>3, <1>5, <1>9, <1>10

(* What the engine sends closes the thinking at most once.                  *)
ClosesOnce(o) ==
    \A i, j \in 1..Len(o) : o[i] = "</thi" /\ o[j] = "nk>" => j = i + 1
LEMMA EngineTextCloses == \A o \in EngineTexts : o \in Seq(Tokens) /\ ClosesOnce(o)
<1> SUFFICES ASSUME NEW o \in EngineTexts PROVE o \in Seq(Tokens) /\ ClosesOnce(o)
    OBVIOUS
<1>1. MaxText \in Nat
    BY RunnersAssumption
<1>2. /\ o \in UNION {[1..n -> Tokens] : n \in 1..MaxText}
      /\ \A i, j \in DOMAIN o : o[i] = "</thi" /\ o[j] = "nk>" => j = i + 1
    BY DEF EngineTexts
<1>3. PICK n \in 1..MaxText : o \in [1..n -> Tokens]
    BY <1>2
<1>4. n \in Nat
    BY <1>1
<1>5. o \in Seq(Tokens)
    BY <1>3, <1>4
<1>6. DOMAIN o = 1..Len(o)
    BY <1>5, SeqFacts
<1> QED BY <1>2, <1>5, <1>6 DEF ClosesOnce

(* What a member has of the first p tokens: all, or all but the marker that *)
(* came in one piece.                                                       *)
AllOf(t, o, p) == Len(t) = p /\ \A i \in 1..p : t[i] = o[i]
WithoutMarker(t, o, p) ==
    \E c \in CloseAt(o) :
        /\ c + 1 <= p /\ Len(t) = p - 2
        /\ \A i \in 1..c - 1 : t[i] = o[i]
        /\ \A i \in c..p - 2 : t[i] = o[i + 2]
Received(t, o, p) == AllOf(t, o, p) \/ WithoutMarker(t, o, p)

LEMMA NoMarkerInside ==
    ASSUME NEW o \in Seq(Tokens), ClosesOnce(o), NEW p \in Nat, p <= Len(o), NEW t \in Seq(Tokens), WithoutMarker(t, o, p)
    PROVE  CloseAt(t) = {}
<1>1. PICK L : L = Len(o) /\ L \in Nat
    BY SeqFacts
<1>2. PICK c \in CloseAt(o) : /\ c + 1 <= p /\ Len(t) = p - 2
                              /\ \A i \in 1..c - 1 : t[i] = o[i]
                              /\ \A i \in c..p - 2 : t[i] = o[i + 2]
    BY DEF WithoutMarker
<1>3. c \in 1..L - 1 /\ o[c] = "</thi" /\ o[c + 1] = "nk>"
    BY <1>1, <1>2 DEF CloseAt
<1>4. c \in Nat /\ c >= 1 /\ c + 1 \in 1..L /\ c \in 1..L
    BY <1>1, <1>3
<1>5. ASSUME NEW i \in CloseAt(t) PROVE FALSE
    <2>1. i \in Nat /\ i >= 1 /\ i + 1 <= p - 2 /\ t[i] = "</thi"
        <3>1. i \in 1..(p - 2) - 1 /\ t[i] = "</thi"
            BY <1>2, <1>5 DEF CloseAt
        <3> QED BY <3>1
    <2>2. ASSUME NEW k \in 1..L, o[k] = "</thi" PROVE k = c
        <3>1. c + 1 = k + 1
            BY <1>1, <1>3, <1>4, <2>2 DEF ClosesOnce
        <3> QED BY <1>4, <3>1
    <2>3. CASE i < c
        <3>1. i \in 1..c - 1 /\ i \in 1..L
            BY <1>1, <1>4, <2>1, <2>3
        <3>2. o[i] = "</thi"
            BY <1>2, <2>1, <3>1
        <3> QED BY <1>4, <2>1, <2>2, <2>3, <3>1, <3>2
    <2>4. CASE i >= c
        <3>1. i \in c..p - 2 /\ i + 2 \in 1..L
            BY <1>1, <1>4, <2>1, <2>4
        <3>2. o[i + 2] = "</thi"
            BY <1>2, <2>1, <3>1
        <3>3. i + 2 = c
            BY <2>2, <3>1, <3>2
        <3> QED BY <1>4, <2>1, <2>4, <3>3
    <2> QED BY <1>4, <2>1, <2>3, <2>4
<1> QED BY <1>5

(* One token, or two, more.                                                 *)
Piece(d, o, p, k) ==
    \/ d \in Seq(Tokens) /\ Len(d) = k /\ \A i \in 1..k : d[i] = o[p + i]
    \/ d = <<>> /\ k = 2 /\ p + 1 \in CloseAt(o)
LEMMA StripPiece ==
    ASSUME NEW o \in Seq(Tokens), NEW p \in Nat, NEW k \in 1..2, p + k <= Len(o)
    PROVE  Piece(Strip(SubSeq(o, p + 1, p + k)), o, p, k)
<1>0. PICK d : d = Strip(SubSeq(o, p + 1, p + k))
    OBVIOUS
<1>1. PICK s : s = SubSeq(o, p + 1, p + k)
    OBVIOUS
<1>2. s \in Seq(Tokens) /\ Len(s) = k /\ \A i \in 1..k : s[i] = o[p + i]
    <2>1. k \in Nat
        OBVIOUS
    <2> QED BY <1>1, <2>1, MidFacts
<1>3. ASSUME CloseAt(s) = {} PROVE Piece(d, o, p, k)
    <2>1. d = s
        BY <1>0, <1>1, <1>3 DEF Strip
    <2> QED BY <1>2, <2>1 DEF Piece
<1>4. ASSUME CloseAt(s) # {} PROVE Piece(d, o, p, k)
    <2>1. PICK i : i \in 1..k - 1 /\ s[i] = "</thi" /\ s[i + 1] = "nk>"
        BY <1>2, <1>4 DEF CloseAt
    <2>2. k = 2 /\ i = 1
        BY <2>1
    <2>3. FirstOf(CloseAt(s)) = 1
        <3>1. FirstOf(CloseAt(s)) \in 1..Len(s) - 1
            BY <1>2, <1>4, CloseFacts
        <3> QED BY <1>2, <2>2, <3>1
    <2>4. d = SubSeq(s, 3, 2)
        <3>1. d = SubSeq(s, FirstOf(CloseAt(s)) + 2, Len(s))
            BY <1>0, <1>1, <1>4 DEF Strip
        <3> QED BY <1>2, <2>2, <2>3, <3>1
    <2>5. d = <<>>
        BY <1>2, <2>4
    <2>6. p + 1 \in CloseAt(o)
        <3>1. o[p + 1] = "</thi" /\ o[(p + 1) + 1] = "nk>"
            <4>1. 1 \in 1..k /\ 2 \in 1..k /\ p + 2 = (p + 1) + 1 /\ i + 1 = 2
                BY <2>2
            <4> QED BY <1>2, <2>1, <2>2, <4>1
        <3>2. p + 1 \in 1..Len(o) - 1
            BY <2>2, SeqFacts
        <3> QED BY <3>1, <3>2 DEF CloseAt
    <2> QED BY <2>2, <2>5, <2>6 DEF Piece
<1>5. Piece(d, o, p, k)
    BY <1>3, <1>4
<1> QED BY <1>0, <1>5

LEMMA ReceivedMore ==
    ASSUME NEW o \in Seq(Tokens), ClosesOnce(o), NEW p \in Nat, NEW k \in 1..2, p + k <= Len(o),
           NEW t \in Seq(Tokens), Received(t, o, p), NEW d, d = Strip(SubSeq(o, p + 1, p + k)), NEW n, n = t \o d
    PROVE  n \in Seq(Tokens) /\ Received(n, o, p + k)
<1>1. PICK L : L = Len(o) /\ L \in Nat /\ p + k <= L
    BY SeqFacts
<1>2. \/ d \in Seq(Tokens) /\ Len(d) = k /\ \A i \in 1..k : d[i] = o[p + i]
      \/ d = <<>> /\ k = 2 /\ p + 1 \in CloseAt(o)
    <2>1. Piece(Strip(SubSeq(o, p + 1, p + k)), o, p, k)
        BY StripPiece
    <2> QED BY <2>1 DEF Piece
<1>3. PICK M : M = Len(t) /\ M \in Nat
    BY SeqFacts
<1>4. CASE d \in Seq(Tokens) /\ Len(d) = k /\ \A i \in 1..k : d[i] = o[p + i]
    <2>1. /\ n \in Seq(Tokens) /\ Len(n) = M + k
          /\ \A i \in 1..M : n[i] = t[i]
          /\ \A i \in 1..k : n[M + i] = d[i]
        <3>1. /\ t \o d \in Seq(Tokens) /\ Len(t \o d) = Len(t) + Len(d)
              /\ \A i \in 1..Len(t) : (t \o d)[i] = t[i]
              /\ \A i \in 1..Len(d) : (t \o d)[Len(t) + i] = d[i]
            BY <1>4, ConcatFacts
        <3> QED BY <1>3, <1>4, <3>1
    <2>2. CASE AllOf(t, o, p)
        <3>1. M = p /\ \A i \in 1..p : t[i] = o[i]
            BY <1>3, <2>2 DEF AllOf
        <3>2. ASSUME NEW i \in 1..p + k PROVE n[i] = o[i]
            <4>1. CASE i <= p
                <5>1. i \in 1..p /\ i \in 1..M
                    BY <3>1, <4>1
                <5> QED BY <2>1, <3>1, <5>1
            <4>2. CASE ~(i <= p)
                <5>1. i - p \in 1..k /\ p + (i - p) = i /\ M + (i - p) = i
                    BY <3>1, <4>2
                <5> QED BY <1>4, <2>1, <5>1
            <4> QED BY <4>1, <4>2
        <3>3. Len(n) = p + k
            BY <2>1, <3>1
        <3> QED BY <2>1, <3>2, <3>3 DEF AllOf, Received
    <2>3. CASE WithoutMarker(t, o, p)
        <3>1. PICK c \in CloseAt(o) : /\ c + 1 <= p /\ M = p - 2
                                      /\ \A i \in 1..c - 1 : t[i] = o[i]
                                      /\ \A i \in c..p - 2 : t[i] = o[i + 2]
            BY <1>3, <2>3 DEF WithoutMarker
        <3>2. c \in Nat /\ c >= 1
            BY <1>1, <3>1 DEF CloseAt
        <3>3. ASSUME NEW i \in 1..c - 1 PROVE n[i] = o[i]
            <4>1. i \in 1..M
                BY <1>3, <3>1, <3>2
            <4> QED BY <2>1, <3>1, <4>1
        <3>4. ASSUME NEW i \in c..(p + k) - 2 PROVE n[i] = o[i + 2]
            <4>1. CASE i <= p - 2
                <5>1. i \in c..p - 2 /\ i \in 1..M
                    BY <1>3, <3>1, <3>2, <4>1
                <5> QED BY <2>1, <3>1, <5>1
            <4>2. CASE ~(i <= p - 2)
                <5>0. i \in Int /\ i > p - 2 /\ i <= (p + k) - 2 /\ M = p - 2 /\ k \in Nat /\ p \in Nat
                    BY <3>1, <3>2, <4>2
                <5>1. i - M \in 1..k /\ M + (i - M) = i /\ p + (i - M) = i + 2
                    BY <5>0
                <5>2. PICK j : j = i - M
                    OBVIOUS
                <5>3. j \in 1..k /\ M + j = i /\ p + j = i + 2
                    BY <5>1, <5>2
                <5>4. n[M + j] = d[j] /\ d[j] = o[p + j]
                    BY <1>4, <2>1, <5>3
                <5> QED BY <5>3, <5>4
            <4> QED BY <4>1, <4>2
        <3>5. c + 1 <= p + k /\ Len(n) = (p + k) - 2
            BY <2>1, <3>1, <3>2
        <3>6. WithoutMarker(n, o, p + k)
            BY <3>1, <3>3, <3>4, <3>5 DEF WithoutMarker
        <3> QED BY <2>1, <3>6 DEF Received
    <2> QED BY <2>2, <2>3 DEF Received
<1>5. CASE d = <<>> /\ k = 2 /\ p + 1 \in CloseAt(o)
    <2>1. n = t
        BY <1>5
    <2>2. p + 1 \in 1..L - 1 /\ o[p + 1] = "</thi" /\ o[(p + 1) + 1] = "nk>"
        BY <1>1, <1>5 DEF CloseAt
    <2>3. CASE AllOf(t, o, p)
        <3>1. M = p /\ \A i \in 1..p : t[i] = o[i]
            BY <1>3, <2>3 DEF AllOf
        <3>2. PICK c : c = p + 1
            OBVIOUS
        <3>3. c \in CloseAt(o) /\ c + 1 <= p + k /\ Len(n) = (p + k) - 2 /\ c - 1 = p
            <4>1. c \in CloseAt(o) /\ Len(n) = p
                BY <1>3, <1>5, <2>1, <3>1, <3>2
            <4>2. c + 1 <= p + k /\ (p + k) - 2 = p /\ c - 1 = p
                BY <1>5, <3>2
            <4> QED BY <4>1, <4>2
        <3>4. \A i \in 1..c - 1 : n[i] = o[i]
            BY <2>1, <3>1, <3>3
        <3>5. c..(p + k) - 2 = {}
            BY <1>5, <3>2
        <3>6. WithoutMarker(n, o, p + k)
            BY <3>3, <3>4, <3>5 DEF WithoutMarker
        <3> QED BY <2>1, <3>6 DEF Received
    <2>4. CASE WithoutMarker(t, o, p)
        <3>1. PICK c \in CloseAt(o) : c + 1 <= p
            BY <2>4 DEF WithoutMarker
        <3>2. c \in 1..L - 1 /\ o[c] = "</thi"
            BY <1>1, <3>1 DEF CloseAt
        <3>3. c \in 1..L /\ (p + 1) + 1 \in 1..L
            BY <1>1, <2>2, <3>2
        <3>4. (p + 1) + 1 = c + 1
            BY <1>1, <2>2, <3>2, <3>3 DEF ClosesOnce
        <3>5. FALSE
            BY <3>1, <3>2, <3>4
        <3> QED BY <3>5
    <2> QED BY <2>3, <2>4 DEF Received
<1> QED BY <1>2, <1>4, <1>5

(* The answer of a chat ends with all that was received and is visible.     *)
LEMMA ReceivedVisible ==
    ASSUME NEW o \in Seq(Tokens), ClosesOnce(o), NEW p \in Nat, p <= Len(o), NEW t \in Seq(Tokens), Received(t, o, p)
    PROVE  IsSuffix(Strip(SubSeq(o, 1, p)), Strip(t)) /\ Strip(t) \in Seq(Tokens)
<1>1. PICK L, g : L = Len(o) /\ L \in Nat /\ g = SubSeq(o, 1, p)
    BY SeqFacts
<1>2. g \in Seq(Tokens) /\ Len(g) = p /\ \A i \in 1..p : g[i] = o[i]
    BY <1>1, PageFacts
<1>3. \A s \in Seq(Tokens) : Strip(s) \in Seq(Tokens)
    <2> SUFFICES ASSUME NEW s \in Seq(Tokens) PROVE Strip(s) \in Seq(Tokens)
        OBVIOUS
    <2>1. CASE CloseAt(s) = {}
        BY <2>1 DEF Strip
    <2>2. CASE CloseAt(s) # {}
        <3>1. PICK c : c = FirstOf(CloseAt(s)) /\ c \in 1..Len(s) - 1
            BY <2>2, CloseFacts
        <3>2. c + 1 \in Nat /\ c + 1 <= Len(s) /\ (c + 1) + 1 = c + 2
            BY <3>1, SeqFacts
        <3>3. SubSeq(s, (c + 1) + 1, Len(s)) \in Seq(Tokens)
            BY <3>2, RestFacts
        <3> QED BY <2>2, <3>1, <3>2, <3>3 DEF Strip
    <2> QED BY <2>1, <2>2
<1>4. CASE AllOf(t, o, p)
    <2>1. t = g
        BY <1>2, <1>4, SameSeq DEF AllOf
    <2>2. PICK v : v = Strip(g) /\ v \in Seq(Tokens)
        BY <1>2, <1>3
    <2>3. IsSuffix(v, v)
        <3>1. Len(v) \in Nat
            BY <2>2, SeqFacts
        <3>2. Len(v) <= Len(v) /\ \A i \in 1..Len(v) : (Len(v) - Len(v)) + i = i
            BY <3>1
        <3> QED BY <2>2, <3>2, SuffixFacts
    <2> QED BY <1>1, <2>1, <2>2, <2>3
<1>5. CASE WithoutMarker(t, o, p)
    <2>1. CloseAt(t) = {}
        BY <1>5, NoMarkerInside
    <2>2. Strip(t) = t
        BY <2>1 DEF Strip
    <2>3. PICK c \in CloseAt(o) : /\ c + 1 <= p /\ Len(t) = p - 2
                                  /\ \A i \in 1..c - 1 : t[i] = o[i]
                                  /\ \A i \in c..p - 2 : t[i] = o[i + 2]
        BY <1>5 DEF WithoutMarker
    <2>4. c \in 1..L - 1 /\ o[c] = "</thi" /\ o[c + 1] = "nk>"
        BY <1>1, <2>3 DEF CloseAt
    <2>5. c \in Nat /\ c >= 1 /\ c \in 1..p - 1 /\ c \in 1..p /\ c + 1 \in 1..p /\ c + 1 \in 1..L
        BY <1>1, <2>3, <2>4
    <2>6. c \in CloseAt(g)
        BY <1>2, <2>4, <2>5 DEF CloseAt
    <2>7. FirstOf(CloseAt(g)) = c
        <3>1. PICK k : k = FirstOf(CloseAt(g)) /\ k \in CloseAt(g)
            BY <1>2, <2>6, CloseFacts
        <3>2. k \in 1..p - 1 /\ g[k] = "</thi"
            BY <1>2, <3>1 DEF CloseAt
        <3>3. k \in 1..p /\ k \in 1..L /\ k \in Nat
            BY <1>1, <3>2
        <3>4. o[k] = "</thi"
            BY <1>2, <3>2, <3>3
        <3>5. c + 1 = k + 1
            BY <1>1, <2>4, <2>5, <3>3, <3>4 DEF ClosesOnce
        <3> QED BY <2>5, <3>1, <3>3, <3>5
    <2>8. PICK v : v = SubSeq(g, (c + 1) + 1, Len(g))
        OBVIOUS
    <2>9. Strip(g) = v
        <3>1. (c + 1) + 1 = c + 2
            BY <2>5
        <3> QED BY <2>6, <2>7, <2>8, <3>1 DEF Strip
    <2>10. v \in Seq(Tokens) /\ Len(v) = p - (c + 1) /\ \A i \in 1..Len(v) : v[i] = g[(c + 1) + i]
        <3>1. PICK N : N = c + 1 /\ N \in Nat /\ N <= Len(g)
            <4>1. c + 1 \in Nat /\ c + 1 <= Len(g)
                BY <1>2, <2>3, <2>5
            <4> QED BY <4>1
        <3>2. g \in Seq(Tokens) /\ v = SubSeq(g, N + 1, Len(g))
            BY <1>2, <2>8, <3>1
        <3>3. /\ SubSeq(g, N + 1, Len(g)) \in Seq(Tokens) /\ Len(SubSeq(g, N + 1, Len(g))) = Len(g) - N
              /\ \A i \in 1..Len(SubSeq(g, N + 1, Len(g))) : SubSeq(g, N + 1, Len(g))[i] = g[N + i]
            <4>1. g \in Seq(Tokens) /\ N \in Nat /\ N <= Len(g)
                BY <3>1, <3>2
            <4> QED BY <4>1, RestFacts
        <3>4. Len(g) = p
            BY <1>2
        <3> QED BY <3>1, <3>2, <3>3, <3>4
    <2>11. IsSuffix(v, t)
        <3>1. PICK K : K = Len(v) /\ K = p - (c + 1) /\ K \in Nat /\ K <= p - 2 /\ (p - 2) - K = c - 1
            BY <2>3, <2>5, <2>10
        <3>2. ASSUME NEW i \in 1..K PROVE t[((p - 2) - K) + i] = v[i]
            <4>1. (c - 1) + i \in c..p - 2 /\ ((c - 1) + i) + 2 = (c + 1) + i /\ (c + 1) + i \in 1..p
                BY <2>3, <2>5, <3>1
            <4>2. t[(c - 1) + i] = o[(c + 1) + i]
                BY <2>3, <4>1
            <4>3. v[i] = o[(c + 1) + i]
                BY <1>2, <2>10, <3>1, <4>1
            <4> QED BY <3>1, <4>2, <4>3
        <3>3. Len(v) <= Len(t) /\ \A i \in 1..Len(v) : t[(Len(t) - Len(v)) + i] = v[i]
            BY <2>3, <3>1, <3>2
        <3> QED BY <2>10, <3>3, SuffixFacts
    <2> QED BY <1>1, <2>2, <2>9, <2>11
<1> QED BY <1>4, <1>5 DEF Received

(* The invariant of a member.                                               *)
MemberShape == [kind : {"chat", "prompt"}, out : EngineTexts, stops : BOOLEAN, pos : Nat, text : Seq(Tokens),
                status : {"streaming", "completed", "failed"}, early : BOOLEAN, finished : BOOLEAN, cancelled : BOOLEAN]
MemberInv ==
    /\ member \in MemberShape /\ member.pos <= Len(member.out)
    /\ Streaming => ~member.early /\ Received(member.text, member.out, member.pos)
    /\ CancelNotAnswer /\ StopsAtFirstAnswer /\ VisibleKept

LEMMA MemberInitInv ==
    ASSUME NEW kind \in {"chat", "prompt"}, NEW out \in EngineTexts, NEW stops \in BOOLEAN, MemberStart(kind, out, stops)
    PROVE  MemberInv
<1>1. member = [kind |-> kind, out |-> out, stops |-> stops, pos |-> 0, text |-> <<>>,
                status |-> "streaming", early |-> FALSE, finished |-> FALSE, cancelled |-> FALSE]
    BY DEF MemberStart
<1>2. <<>> \in Seq(Tokens) /\ Len(<<>>) = 0 /\ 1..0 = {} /\ 0 \in Nat
    BY EmptySeq
<1>3. member \in MemberShape
    BY <1>1, <1>2 DEF MemberShape
<1>4. AllOf(member.text, member.out, member.pos)
    BY <1>1, <1>2 DEF AllOf
<1>5. member.pos <= Len(member.out)
    <2>1. out \in Seq(Tokens)
        BY EngineTextCloses
    <2>2. Len(out) \in Nat
        BY <2>1, SeqFacts
    <2> QED BY <1>1, <2>2
<1>6. member.status = "streaming" /\ ~member.early
    BY <1>1
<1> QED BY <1>3, <1>4, <1>5, <1>6 DEF MemberInv, Received, CancelNotAnswer, StopsAtFirstAnswer, VisibleKept

(* A member whose outcome is not an answer.                                 *)
LEMMA MemberFails ==
    ASSUME NEW b \in MemberShape, b.pos <= Len(b.out), member' = [b EXCEPT !.status = "failed"], ~b.early
    PROVE  MemberInv'
<1>1. member' \in MemberShape
    BY DEF MemberShape
<1>2. member'.pos = b.pos /\ member'.out = b.out /\ member'.early = b.early /\ member'.status = "failed"
    BY DEF MemberShape
<1> QED BY <1>1, <1>2 DEF MemberInv, Streaming, CancelNotAnswer, StopsAtFirstAnswer, VisibleKept

LEMMA MemberGoesOn ==
    ASSUME NEW b \in MemberShape, b.pos <= Len(b.out), member' = b, ~b.early, b.status = "streaming",
           Received(b.text, b.out, b.pos)
    PROVE  MemberInv'
BY DEF MemberInv, Streaming, CancelNotAnswer, StopsAtFirstAnswer, VisibleKept

(* A chat that is answered, and a completion.                               *)
LEMMA ChatCompletes ==
    ASSUME NEW b \in MemberShape, b.pos <= Len(b.out), Received(b.text, b.out, b.pos), b.kind = "chat",
           b.cancelled => b.finished, member' = Completes(b, Strip(b.text), FALSE)
    PROVE  MemberInv'
<1>1. /\ b.out \in Seq(Tokens) /\ ClosesOnce(b.out) /\ b.pos \in Nat /\ b.text \in Seq(Tokens)
    BY EngineTextCloses DEF MemberShape
<1>2. IsSuffix(Strip(SubSeq(b.out, 1, b.pos)), Strip(b.text)) /\ Strip(b.text) \in Seq(Tokens)
    BY <1>1, ReceivedVisible
<1>3. PICK n : n = Strip(b.text) /\ n \in Seq(Tokens)
    BY <1>2
<1>4. /\ member' \in MemberShape /\ member'.kind = "chat" /\ member'.status = "completed" /\ member'.early = FALSE
      /\ member'.text = n /\ member'.out = b.out /\ member'.pos = b.pos /\ member'.cancelled = b.cancelled
      /\ member'.finished = b.finished
    BY <1>3 DEF Completes, MemberShape
<1>5. CancelNotAnswer' /\ StopsAtFirstAnswer'
    BY <1>4 DEF CancelNotAnswer, StopsAtFirstAnswer
<1>6. VisibleKept'
    BY <1>2, <1>3, <1>4 DEF VisibleKept
<1> QED BY <1>4, <1>5, <1>6 DEF MemberInv, Streaming

LEMMA PromptCompletes ==
    ASSUME NEW b \in MemberShape, b.pos <= Len(b.out), b.kind = "prompt", member' = Completes(b, b.text, FALSE)
    PROVE  MemberInv'
<1>1. /\ member' \in MemberShape /\ member'.kind = "prompt" /\ member'.status = "completed" /\ member'.early = FALSE
      /\ member'.out = b.out /\ member'.pos = b.pos
    BY DEF Completes, MemberShape
<1> QED BY <1>1 DEF MemberInv, Streaming, CancelNotAnswer, StopsAtFirstAnswer, VisibleKept

LEMMA PromptStops ==
    ASSUME NEW b \in MemberShape, b.pos <= Len(b.out), b.kind = "prompt", Received(b.text, b.out, b.pos),
           StopText(b.text) # <<>>, member' = Completes(b, StopText(b.text), TRUE)
    PROVE  MemberInv'
<1>1. PICK o, p, t : /\ o = b.out /\ p = b.pos /\ t = b.text /\ o \in Seq(Tokens) /\ p \in Nat /\ p <= Len(o)
                     /\ t \in Seq(Tokens) /\ Received(t, o, p)
    BY EngineTextCloses DEF MemberShape
<1>2. PICK a, e : FirstLine(t, a, e)
    BY <1>1, StopTextFound
<1>3. PICK n : n = SubSeq(t, 1, e - 1)
    OBVIOUS
<1>4. /\ StopText(t) = n /\ a \in Nat /\ e \in Nat /\ VisibleFrom(t) <= a /\ a < e /\ e <= Len(t)
    BY <1>1, <1>2, <1>3, StopTextLine
<1>5. n \in Seq(Tokens) /\ StopText(n \o <<"newline">>) = n
    BY <1>1, <1>2, <1>3, StopsAgain
<1>6. ASSUME CloseAt(o) = {} PROVE StopText(o) = n
    <2>1. Len(t) = p /\ \A i \in 1..p : t[i] = o[i]
        BY <1>1, <1>6 DEF Received, AllOf, WithoutMarker
    <2>2. Len(o) \in Nat /\ e <= Len(o) /\ \A i \in 1..e : i \in 1..p
        BY <1>1, <1>4, <2>1, SeqFacts
    <2>3. CloseAt(t) = {}
        <3>1. ASSUME NEW i \in CloseAt(t) PROVE FALSE
            <4>1. i \in 1..p - 1 /\ t[i] = "</thi" /\ t[i + 1] = "nk>"
                BY <2>1 DEF CloseAt
            <4>2. i \in 1..p /\ i + 1 \in 1..p /\ i \in 1..Len(o) - 1
                BY <1>1, <2>2, <4>1
            <4>3. i \in CloseAt(o)
                BY <2>1, <4>1, <4>2 DEF CloseAt
            <4> QED BY <1>6, <4>3
        <3> QED BY <3>1
    <2>4. VisibleFrom(o) = VisibleFrom(t)
        BY <1>6, <2>3 DEF VisibleFrom
    <2>5. \A i \in 1..e : o[i] = t[i]
        BY <2>1, <2>2
    <2>6. FirstLine(o, a, e)
        BY <1>1, <1>2, <2>2, <2>4, <2>5, SameLine
    <2>7. StopText(o) = SubSeq(o, 1, e - 1)
        BY <1>1, <2>6, StopTextLine
    <2>8. PICK y : y = SubSeq(o, 1, e - 1)
        OBVIOUS
    <2>9. e - 1 \in Nat /\ e - 1 <= Len(o) /\ e - 1 <= Len(t) /\ \A i \in 1..(e - 1) : i \in 1..e
        BY <1>4, <2>2, <1>1, SeqFacts
    <2>10. y \in Seq(Tokens) /\ Len(y) = e - 1 /\ \A i \in 1..(e - 1) : y[i] = o[i]
        BY <1>1, <2>8, <2>9, PageFacts
    <2>11. Len(n) = e - 1 /\ \A i \in 1..(e - 1) : n[i] = t[i]
        BY <1>1, <1>3, <2>9, PageFacts
    <2>12. y = n
        BY <1>5, <2>5, <2>9, <2>10, <2>11, SameSeq
    <2> QED BY <2>7, <2>8, <2>12
<1>7. member' = [b EXCEPT !.text = n, !.status = "completed", !.early = TRUE]
    BY <1>1, <1>4 DEF Completes
<1>8. /\ member' \in MemberShape /\ member'.kind = "prompt" /\ member'.status = "completed"
      /\ member'.text = n /\ member'.out = o /\ member'.pos = p
    BY <1>1, <1>5, <1>7 DEF MemberShape
<1>9. StopsAtFirstAnswer'
    BY <1>5, <1>6, <1>8 DEF StopsAtFirstAnswer
<1> QED BY <1>1, <1>8, <1>9 DEF MemberInv, Streaming, CancelNotAnswer, VisibleKept

LEMMA MemberStep == ASSUME MemberInv, MemberNext PROVE MemberInv'
<1>1. /\ member \in MemberShape /\ member.pos <= Len(member.out) /\ Streaming
      /\ ~member.early /\ Received(member.text, member.out, member.pos)
    BY DEF MemberInv, MemberNext, StreamEventArrives, StreamStops, StreamRaises, CancelMemberStream
<1>2. CASE StreamEventArrives
    <2>1. PICK k, fin, m :
              /\ k \in 1..2 /\ fin \in BOOLEAN
              /\ member.pos + k <= Len(member.out)
              /\ fin => member.pos + k = Len(member.out)
              /\ m = [member EXCEPT !.pos = member.pos + k,
                                    !.text = member.text \o Strip(SubSeq(member.out, member.pos + 1, member.pos + k)),
                                    !.finished = fin]
              /\ member' = IF m.kind = "chat" THEN ChatEvent(m, fin) ELSE PromptEvent(m, fin)
        BY <1>2 DEF StreamEventArrives
    <2>2. PICK o, p, t : /\ o = member.out /\ p = member.pos /\ t = member.text
                         /\ o \in Seq(Tokens) /\ ClosesOnce(o) /\ p \in Nat /\ t \in Seq(Tokens)
        BY <1>1, EngineTextCloses DEF MemberShape
    <2>3. PICK d, n : d = Strip(SubSeq(o, p + 1, p + k)) /\ n = t \o d
        OBVIOUS
    <2>4. n \in Seq(Tokens) /\ Received(n, o, p + k)
        BY <1>1, <2>1, <2>2, <2>3, ReceivedMore
    <2>5. p + k \in Nat
        BY <2>1, <2>2
    <2>6. PICK q : q = p + k /\ q \in Nat
        BY <2>5
    <2>7. m = [member EXCEPT !.pos = q, !.text = n, !.finished = fin]
        BY <2>1, <2>2, <2>3, <2>6
    <2>8. /\ m \in MemberShape /\ m.pos = q /\ m.text = n /\ m.finished = fin /\ m.out = o
          /\ m.kind = member.kind /\ m.early = member.early /\ m.status = member.status /\ m.kind \in {"chat", "prompt"}
        BY <1>1, <2>1, <2>2, <2>4, <2>6, <2>7 DEF MemberShape
    <2>9. m.pos <= Len(m.out) /\ Received(m.text, m.out, m.pos) /\ ~m.early /\ m.status = "streaming"
        BY <1>1, <2>1, <2>2, <2>4, <2>6, <2>8 DEF Streaming
    <2>10. CASE m.kind = "chat"
        <3>1. member' = ChatEvent(m, fin)
            BY <2>1, <2>10
        <3>2. CASE fin
            BY <2>8, <2>9, <2>10, <3>1, <3>2, ChatCompletes DEF ChatEvent
        <3>3. CASE ~fin /\ m.cancelled
            BY <2>8, <2>9, <3>1, <3>3, MemberFails DEF ChatEvent
        <3>4. CASE ~fin /\ ~m.cancelled
            BY <2>8, <2>9, <3>1, <3>4, MemberGoesOn DEF ChatEvent
        <3> QED BY <3>2, <3>3, <3>4
    <2>11. CASE m.kind = "prompt"
        <3>1. member' = PromptEvent(m, fin)
            BY <2>1, <2>11
        <3>2. CASE m.stops /\ StopText(m.text) # <<>>
            BY <2>8, <2>9, <2>11, <3>1, <3>2, PromptStops DEF PromptEvent
        <3>3. CASE ~(m.stops /\ StopText(m.text) # <<>>) /\ fin
            BY <2>8, <2>9, <2>11, <3>1, <3>3, PromptCompletes DEF PromptEvent
        <3>4. CASE ~(m.stops /\ StopText(m.text) # <<>>) /\ ~fin
            BY <2>8, <2>9, <3>1, <3>4, MemberGoesOn DEF PromptEvent
        <3> QED BY <3>2, <3>3, <3>4
    <2> QED BY <2>8, <2>10, <2>11
<1>3. CASE StreamStops
    <2>1. CASE (member.kind = "chat" /\ member.cancelled) \/ member.text = <<>>
        BY <1>1, <1>3, <2>1, MemberFails DEF StreamStops
    <2>2. CASE ~((member.kind = "chat" /\ member.cancelled) \/ member.text = <<>>)
        <3>1. member' = Completes(member, IF member.kind = "chat" THEN Strip(member.text) ELSE member.text, FALSE)
            BY <1>3, <2>2 DEF StreamStops
        <3>2. member.kind \in {"chat", "prompt"}
            BY <1>1 DEF MemberShape
        <3>3. CASE member.kind = "chat"
            BY <1>1, <2>2, <3>1, <3>3, ChatCompletes
        <3>4. CASE member.kind = "prompt"
            BY <1>1, <3>1, <3>4, PromptCompletes
        <3> QED BY <3>2, <3>3, <3>4
    <2> QED BY <2>1, <2>2
<1>4. CASE StreamRaises
    BY <1>1, <1>4, MemberFails DEF StreamRaises
<1>5. CASE CancelMemberStream
    <2>1. PICK b : b = [member EXCEPT !.cancelled = TRUE] /\ member' = b
        BY <1>5 DEF CancelMemberStream
    <2>2. /\ b \in MemberShape /\ b.pos = member.pos /\ b.out = member.out /\ b.text = member.text
          /\ b.early = member.early /\ b.status = member.status
        BY <1>1, <2>1 DEF MemberShape
    <2> QED BY <1>1, <2>1, <2>2, MemberGoesOn DEF Streaming
<1> QED BY <1>2, <1>3, <1>4, <1>5 DEF MemberNext

LEMMA MemberRests == MemberInv /\ UNCHANGED member => MemberInv'
BY DEF MemberInv, Streaming, CancelNotAnswer, StopsAtFirstAnswer, VisibleKept

-----------------------------------------------------------------------------
(* What a client, a caller and an agent are given.                          *)
AnswersInv ==
    /\ ClientInv /\ AgentInv
    /\ focus = "member" => MemberInv
    /\ focus = "direct" => DirectInv
    /\ focus = "asked" => asked \in AskedForms

LEMMA AnswersInit == PartsInit => AnswersInv
<1> SUFFICES ASSUME PartsInit PROVE AnswersInv
    OBVIOUS
<1>1. ServingInit
    BY DEF PartsInit
<1>2. ClientInv /\ AgentInv
    BY <1>1, ClientInitInv, AgentInitInv DEF ServingInit
<1>3. ASSUME focus = "member" PROVE MemberInv
    <2>1. PICK k \in MemberKinds, out \in EngineTexts : MemberStart(k[1], out, k[2])
        BY <1>1, <1>3 DEF ServingInit
    <2>2. k[1] \in {"chat", "prompt"} /\ k[2] \in BOOLEAN
        <3>1. k = <<"chat", FALSE>> \/ k = <<"prompt", FALSE>> \/ k = <<"prompt", TRUE>>
            BY <2>1 DEF MemberKinds
        <3>2. /\ <<"chat", FALSE>>[1] = "chat" /\ <<"prompt", FALSE>>[1] = "prompt" /\ <<"prompt", TRUE>>[1] = "prompt"
              /\ <<"chat", FALSE>>[2] = FALSE /\ <<"prompt", FALSE>>[2] = FALSE /\ <<"prompt", TRUE>>[2] = TRUE
            OBVIOUS
        <3>3. k[1] = "chat" \/ k[1] = "prompt"
            BY <3>1, <3>2
        <3>4. k[2] = TRUE \/ k[2] = FALSE
            BY <3>1, <3>2
        <3> QED BY <3>3, <3>4
    <2> QED BY <2>1, <2>2, MemberInitInv
<1>4. ASSUME focus = "direct" PROVE DirectInv
    BY <1>1, <1>4, DirectInitInv DEF ServingInit
<1>5. ASSUME focus = "asked" PROVE asked \in AskedForms
    BY <1>1, <1>5 DEF ServingInit, AskedStart
<1> QED BY <1>2, <1>3, <1>4, <1>5 DEF AnswersInv

LEMMA AnswersStep ==
    AnswersInv /\ [PartsNext]_<<focus, kvParts, configParts, servingParts, operatorParts, upkeepParts>> => AnswersInv'
<1> SUFFICES ASSUME AnswersInv, [PartsNext]_<<focus, kvParts, configParts, servingParts, operatorParts, upkeepParts>>
             PROVE  AnswersInv'
    OBVIOUS
<1>1. (ServingNext \/ UNCHANGED servingParts) /\ focus' = focus
    BY DEF PartsNext
<1>2. /\ ClientNext \/ UNCHANGED clientVars
      /\ AgentNext \/ UNCHANGED agentVars
    BY <1>1 DEF ServingNext, servingParts
<1>3. /\ focus = "member" => MemberNext \/ UNCHANGED member
      /\ focus = "direct" => DirectNext \/ UNCHANGED batch
      /\ focus = "asked" => asked' = asked
    BY <1>1 DEF ServingNext, servingParts, runnerVars
<1>4. ClientInv'
    BY <1>2, ClientStep, ClientRests DEF AnswersInv
<1>5. AgentInv'
    BY <1>2, AgentStep, AgentRests DEF AnswersInv
<1>6. ASSUME focus = "member" PROVE MemberInv'
    BY <1>3, <1>6, MemberStep, MemberRests DEF AnswersInv
<1>7. ASSUME focus = "direct" PROVE DirectInv'
    BY <1>3, <1>7, DirectStep, DirectUnchanged DEF AnswersInv
<1>8. ASSUME focus = "asked" PROVE asked' \in AskedForms
    BY <1>3, <1>8 DEF AnswersInv
<1> QED BY <1>1, <1>4, <1>5, <1>6, <1>7, <1>8 DEF AnswersInv

(* What is answered is what was asked for, for every window, page, set of   *)
(* requests, engine text and cut of it, order of rows, payload and reply of *)
(* a model: a request fits the context window and no end of a stream is     *)
(* missed, told twice or told without its text (_apply_profile_context_     *)
(* budget, _drain_completion_stream_events); a member stops at the first    *)
(* whole answer line and a chat loses no visible word; rows go to their     *)
(* requests; a KV plan is told twice or not at all; an agent's calls are    *)
(* answered in order and within their limits (chat_streaming.py,            *)
(* _batch_results, runner_payloads.py, loop.py).                            *)
THEOREM AnswersGiven == PartsSpec => []AnswersRight
<1>1. PartsInit => AnswersInv
    BY AnswersInit
<1>2. AnswersInv => AnswersRight
    <2> SUFFICES ASSUME AnswersInv PROVE AnswersRight
        OBVIOUS
    <2>1. FitsWindow /\ FinishAhead /\ FinishedOnce /\ TextOnce
        BY ClientGood DEF AnswersInv
    <2>2. CallsAnswered /\ RunsWithinLimits
        BY AgentGood DEF AnswersInv
    <2>3. focus = "member" => CancelNotAnswer /\ StopsAtFirstAnswer /\ VisibleKept
        BY DEF AnswersInv, MemberInv
    <2>4. focus = "direct" => RowsMatched
        BY DEF AnswersInv, DirectInv
    <2>5. focus = "asked" => PlanToldTwice
        BY AskedFormTells DEF AnswersInv
    <2> QED BY <2>1, <2>2, <2>3, <2>4, <2>5 DEF AnswersRight
<1> QED BY <1>1, <1>2, AnswersStep, PTL DEF PartsSpec
==============================================================================
