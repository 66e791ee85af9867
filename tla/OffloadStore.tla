---------------------------- MODULE OffloadStore ----------------------------
(***************************************************************************)
(* The persistent store behind vLLM's CPU offload (persistent_disk.py) and *)
(* the hooks patch_vllm.py puts into the offload scheduler and workers:    *)
(* a stored block is written by every worker, then entered in the worker's *)
(* index, and after all workers are done in the scheduler's.  The engine   *)
(* may die between any two of these writes and restores from the indexes.  *)
(* What vLLM itself does (which CPU block gets which hash) is external.    *)
(***************************************************************************)
EXTENDS Integers, FiniteSets

CONSTANTS Ranks, Blocks, Hashes,
          MaxCrashes   \* bound

ASSUME OffloadAssumption == IsFiniteSet(Ranks) /\ MaxCrashes \in Nat

VARIABLES pool,       \* scheduler: hash of each CPU block, or NoHash
          stored,     \* scheduler: blocks whose store is complete
          memory,     \* worker: what the tensors of a CPU block hold
          known,      \* worker: _persistent_known
          persisting, \* worker: where the store of a block is
          files,      \* disk: block payloads of a rank, by hash
          wIndex,     \* disk: worker_index.json, block of a hash
          sIndex,     \* disk: scheduler_index.json
          engine,     \* running, or how it came down
          crashes

offloadVars == <<pool, stored, memory, known, persisting, files, wIndex, sIndex, engine, crashes>>

NoHash == "none"
ASSUME OffloadSentinel == NoHash \notin Blocks \cup Hashes
NoIndex == [h \in Hashes |-> NoHash]
NoBlocks == [b \in Blocks |-> NoHash]
Index == [Hashes -> Blocks \cup {NoHash}]

OffloadTypeOK ==
    /\ pool \in [Blocks -> Hashes \cup {NoHash}] /\ stored \subseteq Blocks
    /\ memory \in [Ranks -> [Blocks -> Hashes \cup {NoHash}]]
    /\ known \in [Ranks -> [Blocks -> Hashes \cup {NoHash}]]
    /\ persisting \in [Ranks -> [Blocks -> {"none", "copying", "written", "done"}]]
    /\ files \in [Ranks -> SUBSET Hashes]
    /\ wIndex \in [Ranks -> Index] /\ sIndex \in Index
    /\ engine \in {"up", "raised_load", "raised_start", "killed"}
    /\ crashes \in 0..MaxCrashes

OffloadInit ==
    /\ pool = NoBlocks /\ stored = {}
    /\ memory = [r \in Ranks |-> NoBlocks] /\ known = [r \in Ranks |-> NoBlocks]
    /\ persisting = [r \in Ranks |-> [b \in Blocks |-> "none"]]
    /\ files = [r \in Ranks |-> {}]
    /\ wIndex = [r \in Ranks |-> NoIndex] /\ sIndex = NoIndex
    /\ engine = "up" /\ crashes = 0

(* _upsert_index: another hash at the same block goes, and a hash has one   *)
(* entry.                                                                   *)
Upserted(index, b, h) ==
    [g \in Hashes |-> IF g = h THEN b ELSE IF index[g] = b THEN NoHash ELSE index[g]]

(* _entries_from_index gives one entry per block; here the indexes are      *)
(* one to one already.                                                      *)
Entries(index) == [b \in Blocks |-> IF \E h \in Hashes : index[h] = b
                                    THEN CHOOSE h \in Hashes : index[h] = b ELSE NoHash]

(* The scheduler gives a free CPU block to a hash it does not have and has  *)
(* the workers copy it (build_connector_meta with store_block_hashes).      *)
StoreBlock(b, h) ==
    /\ engine = "up"
    /\ pool[b] = NoHash \/ b \in stored
    /\ \A c \in Blocks : pool[c] # h
    /\ pool' = [pool EXCEPT ![b] = h]
    /\ stored' = stored \ {b}
    /\ memory' = [r \in Ranks |-> [memory[r] EXCEPT ![b] = NoHash]]
    /\ persisting' = [r \in Ranks |-> [persisting[r] EXCEPT ![b] = "copying"]]
    /\ UNCHANGED <<known, files, wIndex, sIndex, engine, crashes>>

(* Mutation: the index is written before the payload. *)
WorkerIndexesFirst(r, b) ==
    /\ engine = "up" /\ persisting[r][b] = "copying"
    /\ memory' = [memory EXCEPT ![r][b] = pool[b]]
    /\ wIndex' = [wIndex EXCEPT ![r] = Upserted(@, b, pool[b])]
    /\ persisting' = [persisting EXCEPT ![r][b] = "written"]
    /\ UNCHANGED <<pool, stored, known, files, sIndex, engine, crashes>>

(* persist_worker_blocks after the copy: the payload under the hash, by an  *)
(* atomic rename, ...                                                       *)
WorkerWritesBlock(r, b) ==
    /\ engine = "up" /\ persisting[r][b] = "copying"
    /\ memory' = [memory EXCEPT ![r][b] = pool[b]]
    /\ files' = [files EXCEPT ![r] = @ \cup {pool[b]}]
    /\ persisting' = [persisting EXCEPT ![r][b] = "written"]
    /\ UNCHANGED <<pool, stored, known, wIndex, sIndex, engine, crashes>>

(* ... then the index and what the worker knows of the block.               *)
WorkerIndexesBlock(r, b) ==
    /\ engine = "up" /\ persisting[r][b] = "written"
    /\ wIndex' = [wIndex EXCEPT ![r] = Upserted(@, b, pool[b])]
    /\ known' = [known EXCEPT ![r][b] = pool[b]]
    /\ persisting' = [persisting EXCEPT ![r][b] = "done"]
    /\ UNCHANGED <<pool, stored, memory, files, sIndex, engine, crashes>>

(* _process_store_completion and save_scheduler_blocks, when all workers    *)
(* have reported the event.                                                 *)
SchedulerSaves(b) ==
    /\ engine = "up" /\ pool[b] # NoHash /\ b \notin stored
    /\ \A r \in Ranks : persisting[r][b] = "done"
    /\ stored' = stored \cup {b}
    /\ sIndex' = Upserted(sIndex, b, pool[b])
    /\ UNCHANGED <<pool, memory, known, persisting, files, wIndex, engine, crashes>>

(* A hit: every worker checks the hash it is asked for against what it      *)
(* knows (validate_loaded_blocks, strict) before it loads.                  *)
Validated(r, b, h) == known[r][b] = h
LoadBlock(b) ==
    /\ engine = "up" /\ b \in stored
    /\ engine' = IF \A r \in Ranks : Validated(r, b, pool[b]) THEN engine ELSE "raised_load"
    /\ UNCHANGED <<pool, stored, memory, known, persisting, files, wIndex, sIndex, crashes>>

EngineDies ==
    /\ engine = "up" /\ crashes < MaxCrashes
    /\ engine' = "killed" /\ crashes' = crashes + 1
    /\ UNCHANGED <<pool, stored, memory, known, persisting, files, wIndex, sIndex>>

(* Startup with restore: the scheduler enters the hashes of its index, each *)
(* worker loads the payloads of its own (restore_worker_blocks) and, being  *)
(* strict, raises when one is missing.                                      *)
EngineStarts(restore) ==
    /\ engine # "up"
    /\ LET ents(r) == IF restore THEN Entries(wIndex[r]) ELSE NoBlocks IN
       /\ engine' = IF \A r \in Ranks, b \in Blocks : ents(r)[b] \in files[r] \cup {NoHash}
                    THEN "up" ELSE "raised_start"
       /\ memory' = [r \in Ranks |-> ents(r)] /\ known' = [r \in Ranks |-> ents(r)]
    /\ pool' = IF restore THEN Entries(sIndex) ELSE NoBlocks
    /\ stored' = {b \in Blocks : pool'[b] # NoHash}
    /\ persisting' = [r \in Ranks |-> [b \in Blocks |-> "none"]]
    /\ UNCHANGED <<files, wIndex, sIndex, crashes>>

OffloadNext ==
    \/ \E b \in Blocks : (\E h \in Hashes : StoreBlock(b, h)) \/ SchedulerSaves(b) \/ LoadBlock(b)
    \/ \E r \in Ranks, b \in Blocks : WorkerWritesBlock(r, b) \/ WorkerIndexesBlock(r, b)
    \/ EngineDies
    \/ \E restore \in BOOLEAN : EngineStarts(restore)

-----------------------------------------------------------------------------
(* What the scheduler would load from a stored block without an error is    *)
(* the data of that hash on every rank, although the engine may have died   *)
(* between the writes of payloads and indexes, at different points on each  *)
(* rank (validate_loaded_blocks; indexes out of step raise instead).        *)
LoadsTruthful ==
    engine = "up" =>
        \A b \in stored, r \in Ranks : Validated(r, b, pool[b]) => memory[r][b] = pool[b]

(* A restart never stops at its own store: every entry of an index has its  *)
(* payload, wherever the engine died (persist_worker_blocks writes payloads *)
(* before the index; restore_worker_blocks, strict).                        *)
RestoreStarts == engine # "raised_start"

(* Indexes stay one to one between blocks and hashes, so that a restore     *)
(* gives no block two contents (_upsert_index, _entries_from_index).        *)
IndexOneToOne ==
    \A g, h \in Hashes : g # h =>
        /\ sIndex[g] = NoHash \/ sIndex[g] # sIndex[h]
        /\ \A r \in Ranks : wIndex[r][g] = NoHash \/ wIndex[r][g] # wIndex[r][h]
=============================================================================
