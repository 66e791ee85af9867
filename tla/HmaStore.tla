------------------------------ MODULE HmaStore ------------------------------
(***************************************************************************)
(* The store of HMA state packages (ds4_hma/state_package.py) and the vLLM *)
(* connector over it (vllm_connector.py).  Writers of packages are         *)
(* processes of their own on one directory: parts, then the package, then  *)
(* the index, each replaced atomically and none under a lock.  A prompt is *)
(* stored again under the same package id.  The content of a part is the   *)
(* write it comes from, which is what its sha256 tells apart.              *)
(***************************************************************************)
EXTENDS Integers, FiniteSets

CONSTANTS Writers, Prompts, Partitions, Parts,
          HmaRequests,   \* requests to the connector
          MaxWrites      \* bound: packages ever started

ASSUME HmaAssumption == IsFiniteSet(Writers) /\ MaxWrites \in Nat

VARIABLES part,      \* parts on disk: the write a part is from, 0 when absent
          package,   \* package files: the write its checksums are of, 0 when absent
          index,     \* packages entered in index.json
          writer,    \* what each writer does
          writes,    \* number of writes started
          need,      \* connector: _requests_need_load
          hmaStep    \* connector: what became of the engine step of a request

hmaVars == <<part, package, index, writer, writes, need, hmaStep>>

(* _token_partition_key and create_manifest_package: id by prompt and       *)
(* layer partition.                                                         *)
PackageIds == Prompts \X Partitions
Resting == [pc |-> "idle"]
Busy == [pc : {"parts", "package", "index"}, id : PackageIds, nr : 1..MaxWrites, left : SUBSET Parts, read : SUBSET PackageIds]

HmaTypeOK ==
    /\ part \in [PackageIds -> [Parts -> 0..MaxWrites]]
    /\ package \in [PackageIds -> 0..MaxWrites]
    /\ index \subseteq PackageIds
    /\ writer \in [Writers -> {Resting} \cup Busy]
    /\ writes \in 0..MaxWrites
    /\ need \subseteq HmaRequests
    /\ hmaStep \in [HmaRequests -> {"waiting", "miss", "promised", "raised", "ran"}]

HmaInit ==
    /\ part = [i \in PackageIds |-> [p \in Parts |-> 0]]
    /\ package = [i \in PackageIds |-> 0]
    /\ index = {} /\ writes = 0
    /\ writer = [w \in Writers |-> Resting]
    /\ need = {}
    /\ hmaStep = [q \in HmaRequests |-> "waiting"]

BeginWrite(w, i) ==
    /\ writer[w] = Resting /\ writes < MaxWrites
    /\ writes' = writes + 1
    /\ writer' = [writer EXCEPT ![w] = [pc |-> "parts", id |-> i, nr |-> writes + 1, left |-> Parts, read |-> {}]]
    /\ UNCHANGED <<part, package, index, need, hmaStep>>

(* write_part *)
WritePart(w, p) ==
    /\ writer[w].pc = "parts" /\ p \in writer[w].left
    /\ part' = [part EXCEPT ![writer[w].id][p] = writer[w].nr]
    /\ writer' = [writer EXCEPT ![w].left = @ \ {p}, ![w].pc = IF writer[w].left = {p} THEN "package" ELSE @]
    /\ UNCHANGED <<package, index, writes, need, hmaStep>>

(* write_package: the package, then the index as it was read, and the entry. *)
WritePackage(w) ==
    /\ writer[w].pc = "package"
    /\ package' = [package EXCEPT ![writer[w].id] = writer[w].nr]
    /\ writer' = [writer EXCEPT ![w].pc = "index", ![w].read = index]
    /\ UNCHANGED <<part, index, writes, need, hmaStep>>

WriteIndex(w) ==
    /\ writer[w].pc = "index"
    /\ index' = writer[w].read \cup {writer[w].id}
    /\ writer' = [writer EXCEPT ![w] = Resting]
    /\ UNCHANGED <<part, package, writes, need, hmaStep>>

WriterDies(w) ==
    /\ writer[w] # Resting
    /\ writer' = [writer EXCEPT ![w] = Resting]
    /\ UNCHANGED <<part, package, index, writes, need, hmaStep>>

(* lookup_by_token_ids and validate_package: what is found, or "none", or   *)
(* an exception over a part that is not the package's.                      *)
Intact(i) == \A p \in Parts : part[i][p] = package[i]
Lookup(i) ==
    IF i \notin index \/ package[i] = 0 THEN "none"
    ELSE IF Intact(i) THEN "found" ELSE "raise"

(* get_num_new_matched_tokens with hard_fail, then the load of the step.    *)
Match(q, i) ==
    /\ hmaStep[q] = "waiting"
    /\ hmaStep' = [hmaStep EXCEPT ![q] = CASE Lookup(i) = "none" -> "miss"
                                           [] Lookup(i) = "raise" -> "raised"
                                           [] Lookup(i) = "found" -> "promised"]
    /\ need' = IF Lookup(i) = "found" THEN need \cup {q} ELSE need
    /\ UNCHANGED <<part, package, index, writer, writes>>

(* start_load_kv walks the requests that were promised tokens; the hook     *)
(* that would load is not there, so with hard_fail the step raises whether  *)
(* the package is still there or not. need is never emptied, so the step of *)
(* any request raises once one was promised.                                *)
StartLoad(q) ==
    /\ hmaStep[q] \in {"miss", "promised"}
    /\ hmaStep' = [hmaStep EXCEPT ![q] = IF need # {} THEN "raised" ELSE "ran"]
    /\ UNCHANGED <<part, package, index, writer, writes, need>>

HmaNext ==
    \/ \E w \in Writers :
          \/ \E i \in PackageIds : BeginWrite(w, i)
          \/ \E p \in Parts : WritePart(w, p)
          \/ WritePackage(w) \/ WriteIndex(w) \/ WriterDies(w)
    \/ \E q \in HmaRequests : (\E i \in PackageIds : Match(q, i)) \/ StartLoad(q)

-----------------------------------------------------------------------------
(* A lookup gives a package only when all its parts are of one write,       *)
(* whatever writers were interleaved on it or died half way (write_part,    *)
(* validate_package).                                                       *)
NoMixedPackage ==
    \A i \in PackageIds : Lookup(i) = "found" =>
        \E n \in 1..writes : \A p \in Parts : part[i][p] = n

(* The index never names a package that is not on disk, although it is read *)
(* and replaced without a lock (write_package).                             *)
IndexedExists == \A i \in index : package[i] # 0

(* The connector fails closed: a request that was promised tokens from a    *)
(* package does not run without them (get_num_new_matched_tokens,           *)
(* start_load_kv, _fail_or_log).                                            *)
FailsClosed == \A q \in HmaRequests : hmaStep[q] = "ran" => q \notin need
=============================================================================
