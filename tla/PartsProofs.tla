---------------------------- MODULE PartsProofs ----------------------------
(***************************************************************************)
(* Proofs about the parts of the system outside the queue and its          *)
(* dispatcher, each by itself: what it does does not depend on the others. *)
(***************************************************************************)
EXTENDS MCParts, Uplink, SumLemmas, TLAPS

-----------------------------------------------------------------------------
(* The registry of external KV objects.                                     *)

(* What the proof needs of the types: the size of an object is a sum that   *)
(* is compared with itself only, so its values stay in some set.            *)
ObjectRows ==
    [state : KvStates, pins : {object[o].pins : o \in Objects}, bytes : {object[o].bytes : o \in Objects}]
ShardRows == [Stages -> ShardRow]
RegistryShape ==
    /\ object \in [Objects -> ObjectRows]
    /\ shard \in [Objects -> ShardRows]
    /\ kvlease \subseteq Objects \X KvClients
    /\ holds \subseteq kvlease
    /\ wrote \in [Objects -> StateWriters]

(* What was concluded of one object, from its row, its shards and who wrote. *)
Accords(row, rows, by, summed) ==
    /\ by = "commit" /\ (\E s \in Stages : rows[s].state \notin ReadyStates) =>
          row.state = IF \E s \in Stages : rows[s].state \in FailedStates THEN "degraded" ELSE "partial"
    /\ by = "evict" => row.state = "evicted" /\ \A s \in Stages : rows[s].state = "evicted" /\ ~rows[s].gpu
    /\ by = "recovery" => row.state = "declared" /\ \A s \in Stages : rows[s].state \notin PrefetchStates
    /\ summed => row.bytes = SumBytes(rows)
ObjectStands(o) == Accords(object[o], shard[o], wrote[o], o \in sized)
RegistryInv == RegistryShape /\ \A o \in Objects : ObjectStands(o)

(* It is enough that every object has a row of the fields. *)
LEMMA RegistryFields ==
    /\ RegistryInv => \E Pins, Sizes : object \in [Objects -> [state : KvStates, pins : Pins, bytes : Sizes]]
    /\ \A Pins, Sizes : object \in [Objects -> [state : KvStates, pins : Pins, bytes : Sizes]]
            => object \in [Objects -> ObjectRows]
<1>1. ASSUME RegistryInv
      PROVE  \E Pins, Sizes : object \in [Objects -> [state : KvStates, pins : Pins, bytes : Sizes]]
    <2> DEFINE P == {object[o].pins : o \in Objects}
               S == {object[o].bytes : o \in Objects}
    <2>1. object \in [Objects -> [state : KvStates, pins : P, bytes : S]]
        BY <1>1 DEF RegistryInv, RegistryShape, ObjectRows
    <2> HIDE DEF P, S
    <2> QED BY <2>1
<1>2. ASSUME NEW Pins, NEW Sizes, object \in [Objects -> [state : KvStates, pins : Pins, bytes : Sizes]]
      PROVE  object \in [Objects -> ObjectRows]
    BY <1>2 DEF ObjectRows
<1> QED BY <1>1, <1>2

LEMMA RegistryRows ==
    ASSUME RegistryInv, NEW o \in Objects, NEW s \in Stages
    PROVE  /\ shard \in [Objects -> ShardRows] /\ shard[o] \in ShardRows /\ shard[o][s] \in ShardRow
           /\ shard[o][s] \in [state : KvStates, bytes : Nat, gpu : BOOLEAN]
BY DEF RegistryInv, RegistryShape, ShardRows, ShardRow

(* The size of shards depends on their sizes only. *)
LEMMA SameSizes ==
    ASSUME NEW rows, NEW other, \A s \in Stages : rows[s].bytes = other[s].bytes
    PROVE  SumBytes(rows) = SumBytes(other)
<1>1. [s \in Stages |-> rows[s].bytes] = [s \in Stages |-> other[s].bytes]
    OBVIOUS
<1> QED BY <1>1 DEF SumBytes

LEMMA RegistryInitInv == RegistryInit => RegistryInv
<1> SUFFICES ASSUME RegistryInit PROVE RegistryInv
    OBVIOUS
<1>1. object \in [Objects -> ObjectRows]
    <2>1. object \in [Objects -> [state : KvStates, pins : {0}, bytes : {0}]]
        BY RegistryAssumption DEF RegistryInit
    <2> QED BY <2>1, RegistryFields
<1>2. shard \in [Objects -> ShardRows]
    BY RegistryAssumption DEF RegistryInit, ShardRows, ShardRow
<1>3. RegistryShape
    BY <1>1, <1>2 DEF RegistryInit, RegistryShape, StateWriters
<1>4. ASSUME NEW o \in Objects PROVE ObjectStands(o)
    <2>1. wrote[o] = "caller" /\ o \notin sized
        BY DEF RegistryInit
    <2> QED BY <2>1 DEF ObjectStands, Accords
<1> QED BY <1>3, <1>4 DEF RegistryInv

(* A handler that writes the rows of one object leaves those of the others. *)
LEMMA RegistryOneObject ==
    ASSUME RegistryInv, NEW o \in Objects, NEW row, NEW rows \in ShardRows, NEW by \in StateWriters,
           object' = [object EXCEPT ![o] = row], shard' = [shard EXCEPT ![o] = rows],
           wrote' = [wrote EXCEPT ![o] = by], sized' \ {o} = sized \ {o},
           UNCHANGED <<kvlease, holds>>,
           \E Pins, Sizes : row \in [state : KvStates, pins : Pins, bytes : Sizes],
           Accords(row, rows, by, o \in sized')
    PROVE  RegistryInv'
<1>1. PICK Pins, Sizes : object \in [Objects -> [state : KvStates, pins : Pins, bytes : Sizes]]
    BY RegistryFields
<1>2. PICK MorePins, MoreSizes : row \in [state : KvStates, pins : MorePins, bytes : MoreSizes]
    OBVIOUS
<1>3. object' \in [Objects -> [state : KvStates, pins : Pins \cup MorePins, bytes : Sizes \cup MoreSizes]]
    BY <1>1, <1>2
<1>4. shard' \in [Objects -> ShardRows] /\ wrote' \in [Objects -> StateWriters]
    BY DEF RegistryInv, RegistryShape
<1>5. RegistryShape'
    <2>1. object' \in [Objects -> ObjectRows']
        BY <1>3 DEF ObjectRows
    <2>2. kvlease' \subseteq Objects \X KvClients /\ holds' \subseteq kvlease'
        BY DEF RegistryInv, RegistryShape
    <2> QED BY <1>4, <2>1, <2>2 DEF RegistryShape, ShardRows
<1>6. ASSUME NEW x \in Objects PROVE ObjectStands(x)'
    <2>1. CASE x = o
        <3>1. object'[x] = row /\ shard'[x] = rows /\ wrote'[x] = by
            BY <1>1, <2>1 DEF RegistryInv, RegistryShape
        <3>2. Accords(object'[x], shard'[x], wrote'[x], x \in sized')
            BY <2>1, <3>1
        <3> QED BY <3>2 DEF ObjectStands
    <2>2. CASE x # o
        <3>1. object'[x] = object[x] /\ shard'[x] = shard[x] /\ wrote'[x] = wrote[x] /\ (x \in sized' <=> x \in sized)
            BY <1>1, <2>2 DEF RegistryInv, RegistryShape
        <3> QED BY <3>1 DEF RegistryInv, ObjectStands, Accords
    <2> QED BY <2>1, <2>2
<1> QED BY <1>5, <1>6 DEF RegistryInv

LEMMA RegistryUnchanged ==
    ASSUME RegistryInv, UNCHANGED <<object, shard, kvlease, holds, wrote, sized>>
    PROVE  RegistryInv'
BY DEF RegistryInv, RegistryShape, ObjectRows, ObjectStands

LEMMA RegistryDeclares ==
    ASSUME RegistryInv, NEW o \in Objects, NEW b \in DeclareBodies, KvDeclare(o, b)
    PROVE  RegistryInv'
<1> DEFINE row == [state |-> b.state, pins |-> b.pins, bytes |-> b.bytes]
           rows == b.shards
<1>1. rows \in ShardRows /\ row \in [state : KvStates, pins : {b.pins}, bytes : {b.bytes}]
    BY RegistryAssumption DEF ShardRows
<1>2. /\ object' = [object EXCEPT ![o] = row] /\ shard' = [shard EXCEPT ![o] = rows]
      /\ wrote' = [wrote EXCEPT ![o] = "caller"] /\ sized' = sized \ {o} /\ UNCHANGED <<kvlease, holds>>
    BY Zenon DEF KvDeclare
<1>3. sized' \ {o} = sized \ {o} /\ o \notin sized'
    BY <1>2
<1>4. Accords(row, rows, "caller", o \in sized') /\ "caller" \in StateWriters
    BY <1>3 DEF Accords, StateWriters
<1> HIDE DEF row, rows
<1> QED BY <1>1, <1>2, <1>3, <1>4, RegistryOneObject

(* A caller enters a state of the object; the sizes stay. *)
LEMMA RegistryEnters ==
    ASSUME RegistryInv, NEW o \in Objects, NEW to \in KvStates, NEW rows \in ShardRows,
           \A s \in Stages : rows[s].bytes = shard[o][s].bytes,
           object' = [object EXCEPT ![o].state = to], shard' = [shard EXCEPT ![o] = rows],
           wrote' = [wrote EXCEPT ![o] = "caller"], UNCHANGED <<kvlease, holds, sized>>
    PROVE  RegistryInv'
<1> DEFINE row == [object[o] EXCEPT !.state = to]
<1>1. PICK Pins, Sizes : object \in [Objects -> [state : KvStates, pins : Pins, bytes : Sizes]]
    BY RegistryFields
<1>2. row \in [state : KvStates, pins : Pins, bytes : Sizes] /\ row.bytes = object[o].bytes
    BY <1>1
<1>3. object' = [object EXCEPT ![o] = row]
    BY <1>1
<1>4. o \in sized => row.bytes = SumBytes(rows)
    BY <1>2, SameSizes DEF RegistryInv, ObjectStands, Accords
<1>5. Accords(row, rows, "caller", o \in sized') /\ "caller" \in StateWriters
    BY <1>4 DEF Accords, StateWriters
<1> HIDE DEF row
<1> QED BY <1>2, <1>3, <1>5, RegistryOneObject

LEMMA RegistryTransits ==
    ASSUME RegistryInv, NEW o \in Objects, NEW b \in TransitionBodies \cup {PrefetchBody}, KvTransition(o, b)
    PROVE  RegistryInv'
<1>1. b.state \in KvStates /\ b.shards \in KvStates \cup {NotGiven}
    BY RegistryAssumption DEF PrefetchBody
<1>2. CASE b.shards = NotGiven
    <2>1. shard' = [shard EXCEPT ![o] = shard[o]] /\ shard[o] \in ShardRows
        BY <1>2 DEF KvTransition, RegistryInv, RegistryShape
    <2> QED BY <1>1, <2>1, RegistryEnters DEF KvTransition
<1>3. CASE b.shards # NotGiven
    <2> DEFINE rows == [s \in Stages |-> [shard[o][s] EXCEPT !.state = b.shards]]
    <2>1. shard' = [shard EXCEPT ![o] = rows]
        BY <1>3 DEF KvTransition, RegistryInv, RegistryShape
    <2>2. b.shards \in KvStates
        BY <1>1, <1>3
    <2>3. rows \in ShardRows /\ \A s \in Stages : rows[s].bytes = shard[o][s].bytes
        BY <2>2, RegistryRows DEF ShardRows, ShardRow
    <2> HIDE DEF rows
    <2> QED BY <1>1, <2>1, <2>3, RegistryEnters DEF KvTransition
<1> QED BY <1>2, <1>3

LEMMA RegistryTouches ==
    ASSUME RegistryInv, NEW o \in Objects, NEW to \in TouchStates, KvTouch(o, to)
    PROVE  RegistryInv'
<1>1. to \in KvStates
    BY RegistryAssumption
<1>2. shard' = [shard EXCEPT ![o] = shard[o]] /\ shard[o] \in ShardRows
    BY DEF KvTouch, RegistryInv, RegistryShape
<1> QED BY <1>1, <1>2, RegistryEnters DEF KvTouch

(* A commit enters what the shards add up to. *)
LEMMA RegistryCommits ==
    ASSUME RegistryInv, NEW o \in Objects, NEW b, KvCommit(o, b), b.state \in KvStates,
           CommittedShards(shard[o], b) \in ShardRows
    PROVE  RegistryInv'
<1> DEFINE rows == CommittedShards(shard[o], b)
           row == [object[o] EXCEPT !.state = ObjectStateFromShards(rows, b.state), !.bytes = SumBytes(rows)]
<1>1. PICK Pins, Sizes : object \in [Objects -> [state : KvStates, pins : Pins, bytes : Sizes]]
    BY RegistryFields
<1>2. rows \in ShardRows
    OBVIOUS
<1>3. /\ object' = [object EXCEPT ![o] = row] /\ shard' = [shard EXCEPT ![o] = rows]
      /\ wrote' = [wrote EXCEPT ![o] = "commit"] /\ sized' = sized \cup {o} /\ UNCHANGED <<kvlease, holds>>
    BY <1>1 DEF KvCommit
<1> HIDE DEF rows
<1>4. ObjectStateFromShards(rows, b.state) \in KvStates
    BY RegistryAssumption DEF ObjectStateFromShards
<1>5. /\ row \in [state : KvStates, pins : Pins, bytes : {SumBytes(rows)}]
      /\ row.state = ObjectStateFromShards(rows, b.state) /\ row.bytes = SumBytes(rows)
    BY <1>1, <1>4
<1> HIDE DEF row
<1>6. Accords(row, rows, "commit", o \in sized') /\ "commit" \in StateWriters
    BY <1>5 DEF Accords, ObjectStateFromShards, StateWriters
<1>7. sized' \ {o} = sized \ {o}
    BY <1>3
<1> QED BY <1>2, <1>3, <1>5, <1>6, <1>7, RegistryOneObject

LEMMA RegistryCommitted ==
    ASSUME RegistryInv, NEW o \in Objects,
           \/ \E b \in CommitBodies : KvCommit(o, b)
           \/ \E s \in Stages, u \in ShardUpdates : KvCommit(o, ShardCommitBody(s, u))
    PROVE  RegistryInv'
<1>1. ASSUME NEW row \in ShardRow, NEW u \in UpdateRow PROVE UpdatedShard(row, u) \in ShardRow
    BY DEF UpdatedShard, ShardRow, UpdateRow
<1>2. ASSUME NEW b, b.state \in KvStates, b.shards \in KvStates,
             \A s \in DOMAIN b.updates : s \in Stages /\ b.updates[s] \in UpdateRow,
             KvCommit(o, b)
      PROVE  RegistryInv'
    <2>1. ASSUME NEW s \in Stages PROVE CommittedShards(shard[o], b)[s] \in ShardRow
        <3>1. CASE DOMAIN b.updates = {}
            <4>1. CommittedShards(shard[o], b)[s] = [shard[o][s] EXCEPT !.state = b.shards]
                BY <3>1 DEF CommittedShards
            <4> QED BY <1>2, <4>1, RegistryRows DEF ShardRow
        <3>2. CASE DOMAIN b.updates # {} /\ s \in DOMAIN b.updates
            <4>1. CommittedShards(shard[o], b)[s] = UpdatedShard(shard[o][s], b.updates[s])
                BY <3>2 DEF CommittedShards
            <4> QED BY <1>1, <1>2, <3>2, <4>1, RegistryRows
        <3>3. CASE DOMAIN b.updates # {} /\ s \notin DOMAIN b.updates
            <4>1. CommittedShards(shard[o], b)[s] = shard[o][s]
                BY <3>3 DEF CommittedShards
            <4> QED BY <4>1, RegistryRows
        <3> QED BY <3>1, <3>2, <3>3
    <2>2. CommittedShards(shard[o], b) \in ShardRows
        BY <2>1 DEF CommittedShards, ShardRows
    <2> QED BY <1>2, <2>2, RegistryCommits
<1>3. ASSUME NEW b \in CommitBodies, KvCommit(o, b) PROVE RegistryInv'
    BY <1>2, <1>3, RegistryAssumption
<1>4. ASSUME NEW s \in Stages, NEW u \in ShardUpdates, KvCommit(o, ShardCommitBody(s, u)) PROVE RegistryInv'
    <2> DEFINE b == ShardCommitBody(s, u)
    <2>1. u \in UpdateRow /\ u.state \in KvStates
        BY RegistryAssumption DEF UpdateRow
    <2>2. /\ b.state \in KvStates /\ b.shards \in KvStates
          /\ \A x \in DOMAIN b.updates : x \in Stages /\ b.updates[x] \in UpdateRow
        <3>1. b.state = "available" /\ b.shards = u.state /\ b.updates = [x \in {s} |-> u]
            BY DEF ShardCommitBody
        <3>2. "available" \in KvStates
            BY RegistryAssumption
        <3> QED BY <2>1, <3>1, <3>2
    <2> HIDE DEF b
    <2> QED BY <1>2, <1>4, <2>2 DEF b
<1> QED BY <1>3, <1>4

LEMMA RegistryEvicts ==
    ASSUME RegistryInv, NEW c \in KvClients, KvEvictWrite(c)
    PROVE  RegistryInv'
<1> DEFINE o == kvop[c].obj
           row == [object[o] EXCEPT !.state = "evicted"]
           rows == [s \in Stages |-> [shard[o][s] EXCEPT !.state = "evicted", !.gpu = FALSE]]
<1>1. PICK Pins, Sizes : object \in [Objects -> [state : KvStates, pins : Pins, bytes : Sizes]]
    BY RegistryFields
<1>2. /\ object' = [object EXCEPT ![o] = row] /\ UNCHANGED <<kvlease, holds, sized>>
      /\ wrote' = [wrote EXCEPT ![o] = "evict"]
      /\ shard' = [shard EXCEPT ![o] = [s \in Stages |-> [@[s] EXCEPT !.state = "evicted", !.gpu = FALSE]]]
    BY <1>1 DEF KvEvictWrite
<1>3. CASE o \in Objects
    <2>1. shard' = [shard EXCEPT ![o] = rows]
        BY <1>2, <1>3 DEF RegistryInv, RegistryShape
    <2>2. /\ rows \in ShardRows
          /\ \A s \in Stages : rows[s].state = "evicted" /\ ~rows[s].gpu /\ rows[s].bytes = shard[o][s].bytes
        <3>1. "evicted" \in KvStates
            BY RegistryAssumption
        <3> HIDE DEF o
        <3> QED BY <1>3, <3>1, RegistryRows DEF ShardRows, ShardRow
    <2>3. /\ row \in [state : KvStates, pins : Pins, bytes : Sizes]
          /\ row.state = "evicted" /\ row.bytes = object[o].bytes
        BY <1>1, <1>3, RegistryAssumption
    <2> HIDE DEF row, rows, o
    <2>4. o \in sized => row.bytes = SumBytes(rows)
        BY <1>3, <2>2, <2>3, SameSizes DEF RegistryInv, ObjectStands, Accords
    <2>5. Accords(row, rows, "evict", o \in sized') /\ "evict" \in StateWriters
        BY <1>2, <2>2, <2>3, <2>4 DEF Accords, StateWriters
    <2> QED BY <1>2, <1>3, <2>1, <2>2, <2>3, <2>5, RegistryOneObject
<1>4. CASE o \notin Objects
    <2>1. object' = object /\ shard' = shard /\ wrote' = wrote
        BY <1>1, <1>2, <1>4 DEF RegistryInv, RegistryShape
    <2> QED BY <1>2, <2>1, RegistryUnchanged
<1> QED BY <1>3, <1>4

(* Handlers that leave states, shards and leases of objects alone. *)
LEMMA RegistryRests ==
    ASSUME RegistryInv, UNCHANGED <<shard, kvlease, holds, wrote, sized>>,
           object' \in [Objects -> ObjectRows'],
           \A o \in Objects : object'[o].state = object[o].state /\ object'[o].bytes = object[o].bytes
    PROVE  RegistryInv'
<1>1. RegistryShape'
    BY DEF RegistryInv, RegistryShape
<1> QED BY <1>1 DEF RegistryInv, ObjectStands, Accords

LEMMA RegistryPins ==
    ASSUME RegistryInv, NEW c \in KvClients, KvPinWrite(c)
    PROVE  RegistryInv'
<1> DEFINE o == kvop[c].obj
           n == kvop[c].read + kvop[c].delta
           pins == IF n < 0 THEN 0 ELSE n
<1>1. PICK Pins, Sizes : object \in [Objects -> [state : KvStates, pins : Pins, bytes : Sizes]]
    BY RegistryFields
<1>2. object' = [object EXCEPT ![o].pins = pins] /\ UNCHANGED <<shard, kvlease, holds, wrote, sized>>
    BY DEF KvPinWrite
<1> HIDE DEF pins, o
<1>3. /\ object' \in [Objects -> [state : KvStates, pins : Pins \cup {pins}, bytes : Sizes]]
      /\ \A x \in Objects : object'[x].state = object[x].state /\ object'[x].bytes = object[x].bytes
    BY <1>1, <1>2
<1>4. object' \in [Objects -> ObjectRows']
    BY <1>3 DEF ObjectRows
<1> QED BY <1>2, <1>3, <1>4, RegistryRests

LEMMA RegistryLeases ==
    ASSUME RegistryInv, NEW c \in KvClients, NEW o \in Objects, KvLease(c, o) \/ KvRelease(c, o) \/ KvExpire(c, o)
    PROVE  RegistryInv'
<1>1. /\ UNCHANGED <<object, shard, wrote, sized>>
      /\ kvlease' \subseteq Objects \X KvClients /\ holds' \subseteq kvlease'
    BY DEF KvLease, KvRelease, KvExpire, RegistryInv, RegistryShape
<1> QED BY <1>1 DEF RegistryInv, RegistryShape, ObjectRows, ObjectStands

(* The startup changes states of shards and objects, and no size. *)
LEMMA RegistryRestarts ==
    ASSUME RegistryInv, KvRestart
    PROVE  RegistryInv'
<1>1. PICK Pins, Sizes : object \in [Objects -> [state : KvStates, pins : Pins, bytes : Sizes]]
    BY RegistryFields
<1> DEFINE found == {o \in Objects : object[o].state \in PrefetchStates}
<1>2. /\ object' = [o \in Objects |-> IF o \in found THEN [object[o] EXCEPT !.state = "declared"] ELSE object[o]]
      /\ wrote' = [o \in Objects |-> IF o \in found THEN "recovery" ELSE wrote[o]]
      /\ shard' = [o \in Objects |-> [s \in Stages |-> RecoveredShard(shard[o][s])]]
      /\ UNCHANGED <<kvlease, holds, sized>>
    BY DEF KvRestart
<1>3. /\ object' \in [Objects -> [state : KvStates, pins : Pins, bytes : Sizes]]
      /\ \A o \in Objects : /\ object'[o].bytes = object[o].bytes
                            /\ o \in found => object'[o].state = "declared" /\ wrote'[o] = "recovery"
                            /\ o \notin found => object'[o].state = object[o].state /\ wrote'[o] = wrote[o]
      /\ wrote' \in [Objects -> StateWriters]
    <2> HIDE DEF found
    <2>1. wrote \in [Objects -> StateWriters] /\ "recovery" \in StateWriters
        BY DEF RegistryInv, RegistryShape, StateWriters
    <2> QED BY <1>1, <1>2, <2>1, RegistryAssumption
<1> HIDE DEF found
<1>4. ASSUME NEW row \in ShardRow
      PROVE  /\ RecoveredShard(row) \in ShardRow /\ RecoveredShard(row).bytes = row.bytes
             /\ RecoveredShard(row).state \notin PrefetchStates
             /\ row.state \notin PrefetchStates => RecoveredShard(row) = row
             /\ RecoveredShard(row).state # row.state => RecoveredShard(row).state = "declared" /\ row.state \in PrefetchStates
    BY RegistryAssumption DEF RecoveredShard, ShardRow, PrefetchStates
<1>5. ASSUME NEW o \in Objects, NEW s \in Stages
      PROVE  shard'[o][s] = RecoveredShard(shard[o][s]) /\ shard[o][s] \in ShardRow
    BY <1>2, RegistryRows
<1>6. shard' \in [Objects -> ShardRows]
    BY <1>2, <1>4, RegistryRows DEF ShardRows
<1>7. ASSUME NEW o \in Objects PROVE ObjectStands(o)'
    <2>1. \A s \in Stages : shard'[o][s].bytes = shard[o][s].bytes /\ shard'[o][s].state \notin PrefetchStates
        BY <1>4, <1>5
    <2>2. SumBytes(shard'[o]) = SumBytes(shard[o])
        BY <2>1, SameSizes
    <2>3. o \in sized' => object'[o].bytes = SumBytes(shard'[o])
        BY <1>2, <1>3, <2>2 DEF RegistryInv, ObjectStands, Accords
    <2>4. /\ "declared" \notin ReadyStates \cup FailedStates /\ "evicted" \notin PrefetchStates
          /\ PrefetchStates \cap (ReadyStates \cup FailedStates) = {}
        BY DEF ReadyStates, FailedStates, PrefetchStates
    <2>5. CASE o \in found
        BY <1>3, <2>1, <2>3, <2>5 DEF ObjectStands, Accords
    <2>6. CASE o \notin found
        <3>1. object'[o].state = object[o].state /\ wrote'[o] = wrote[o]
            BY <1>3, <2>6
        <3>2. \A s \in Stages : /\ shard'[o][s].state \in ReadyStates <=> shard[o][s].state \in ReadyStates
                                /\ shard'[o][s].state \in FailedStates <=> shard[o][s].state \in FailedStates
            BY <1>4, <1>5, <2>4
        <3>3. \A s \in Stages : shard[o][s].state = "evicted" => shard'[o][s] = shard[o][s]
            BY <1>4, <1>5, <2>4
        <3>4. Accords(object[o], shard[o], wrote[o], o \in sized)
            BY DEF RegistryInv, ObjectStands
        <3>5. Accords(object'[o], shard'[o], wrote'[o], o \in sized')
            BY <2>1, <2>3, <3>1, <3>2, <3>3, <3>4 DEF Accords
        <3> QED BY <3>5 DEF ObjectStands
    <2> QED BY <2>5, <2>6
<1>8. object' \in [Objects -> ObjectRows']
    BY <1>3 DEF ObjectRows
<1> QED BY <1>2, <1>3, <1>6, <1>7, <1>8 DEF RegistryInv, RegistryShape, ShardRows

LEMMA RegistryInvStep == RegistryInv /\ [RegistryNext]_registryVars => RegistryInv'
<1> SUFFICES ASSUME RegistryInv, [RegistryNext]_registryVars PROVE RegistryInv'
    OBVIOUS
<1>2. CASE UNCHANGED registryVars
    BY <1>2, RegistryUnchanged DEF registryVars
<1>3. ASSUME NEW c \in KvClients, NEW o \in Objects, KvEvictRead(c, o) \/ \E d \in {1, -1} : KvPinRead(c, o, d)
      PROVE  RegistryInv'
    BY <1>3, RegistryUnchanged DEF KvPinRead, KvEvictRead
<1> QED BY <1>2, <1>3, RegistryDeclares, RegistryTransits, RegistryTouches, RegistryCommitted, RegistryEvicts,
       RegistryPins, RegistryLeases, RegistryRestarts DEF RegistryNext

LEMMA RegistryInvStore == RegistryInv => ConclusionsHold /\ LiveLeaseKept
<1> SUFFICES ASSUME RegistryInv PROVE ConclusionsHold /\ LiveLeaseKept
    OBVIOUS
<1>1. ConclusionsHold
    BY DEF RegistryInv, ObjectStands, Accords, ConclusionsHold, Concluded, KvLookup
<1>2. ASSUME NEW h \in holds PROVE h \in kvlease /\ h[2] \in KvLookup(h[1]).leases
    <2>1. h \in kvlease /\ h \in Objects \X KvClients
        BY DEF RegistryInv, RegistryShape
    <2>2. h = <<h[1], h[2]>> /\ h[2] \in KvClients
        BY <2>1
    <2>3. <<h[1], h[2]>> \in kvlease \cap holds
        BY <2>1, <2>2
    <2> QED BY <2>1, <2>2, <2>3 DEF KvLookup
<1> QED BY <1>1, <1>2 DEF LiveLeaseKept

-----------------------------------------------------------------------------
(* The persistent store behind the engine's CPU offload.                    *)

(* A block that a worker has copied holds what the scheduler gave it, and   *)
(* its payload is on disk before the index names it.                        *)
CopiesHold ==
    \A r \in Ranks, b \in Blocks :
        /\ persisting[r][b] # "none" => pool[b] \in Hashes
        /\ persisting[r][b] \in {"written", "done"} => memory[r][b] = pool[b] /\ pool[b] \in files[r]
IndexedPayloads == \A r \in Ranks, h \in Hashes : wIndex[r][h] # NoHash => h \in files[r]
StoredHold ==
    \A b \in stored, r \in Ranks : Validated(r, b, pool[b]) => memory[r][b] = pool[b]
OffloadInv ==
    OffloadTypeOK /\ CopiesHold /\ IndexedPayloads /\ StoredHold /\ RestoreStarts /\ IndexOneToOne

LEMMA OffloadInitInv == OffloadInit => OffloadInv
<1> SUFFICES ASSUME OffloadInit PROVE OffloadInv
    OBVIOUS
<1>1. OffloadTypeOK
    BY OffloadAssumption DEF OffloadInit, OffloadTypeOK, NoBlocks, NoIndex, Index
<1>2. CopiesHold /\ StoredHold /\ RestoreStarts
    BY DEF OffloadInit, CopiesHold, StoredHold, RestoreStarts
<1>3. IndexedPayloads /\ IndexOneToOne
    BY DEF OffloadInit, IndexedPayloads, IndexOneToOne, NoIndex
<1> QED BY <1>1, <1>2, <1>3 DEF OffloadInv

(* Entering a block under a hash keeps an index one to one. *)
OneToOne(ix) == \A g, h \in Hashes : g # h => ix[g] = NoHash \/ ix[g] # ix[h]

LEMMA UpsertedOneToOne ==
    ASSUME NEW ix \in Index, NEW b \in Blocks, NEW h \in Hashes, OneToOne(ix)
    PROVE  /\ Upserted(ix, b, h) \in Index
           /\ OneToOne(Upserted(ix, b, h))
           /\ \A g \in Hashes : Upserted(ix, b, h)[g] # NoHash => g = h \/ ix[g] # NoHash
BY OffloadSentinel DEF Upserted, Index, OneToOne

(* What a restore makes of an index. *)
LEMMA EntriesType ==
    ASSUME NEW ix \in Index
    PROVE  /\ Entries(ix) \in [Blocks -> Hashes \cup {NoHash}]
           /\ \A b \in Blocks : Entries(ix)[b] # NoHash =>
                Entries(ix)[b] \in Hashes /\ ix[Entries(ix)[b]] = b
BY DEF Entries

LEMMA IndexOneToOneEach ==
    ASSUME OffloadTypeOK
    PROVE  IndexOneToOne <=> OneToOne(sIndex) /\ \A r \in Ranks : OneToOne(wIndex[r])
BY DEF IndexOneToOne, OneToOne

LEMMA OffloadStoreBlock ==
    ASSUME OffloadInv, NEW b \in Blocks, NEW h \in Hashes, StoreBlock(b, h)
    PROVE  OffloadInv'
<1>1. /\ pool' = [pool EXCEPT ![b] = h] /\ stored' = stored \ {b}
      /\ \A c \in Blocks : pool'[c] = IF c = b THEN h ELSE pool[c]
      /\ UNCHANGED <<known, files, wIndex, sIndex, engine, crashes>>
    BY DEF StoreBlock, OffloadInv, OffloadTypeOK
<1>2. /\ memory' \in [Ranks -> [Blocks -> Hashes \cup {NoHash}]]
      /\ \A r \in Ranks, c \in Blocks : memory'[r][c] = IF c = b THEN NoHash ELSE memory[r][c]
    BY DEF StoreBlock, OffloadInv, OffloadTypeOK
<1>3. /\ persisting' \in [Ranks -> [Blocks -> {"none", "copying", "written", "done"}]]
      /\ \A r \in Ranks, c \in Blocks : persisting'[r][c] = IF c = b THEN "copying" ELSE persisting[r][c]
    BY DEF StoreBlock, OffloadInv, OffloadTypeOK
<1>4. OffloadTypeOK'
    BY <1>1, <1>2, <1>3 DEF OffloadInv, OffloadTypeOK
<1>5. CopiesHold'
    BY <1>1, <1>2, <1>3 DEF OffloadInv, CopiesHold
<1>6. StoredHold'
    BY <1>1, <1>2 DEF OffloadInv, OffloadTypeOK, StoredHold, Validated
<1> QED BY <1>1, <1>4, <1>5, <1>6 DEF OffloadInv, IndexedPayloads, RestoreStarts, IndexOneToOne

LEMMA OffloadWorkerWrites ==
    ASSUME OffloadInv, NEW r \in Ranks, NEW b \in Blocks, WorkerWritesBlock(r, b)
    PROVE  OffloadInv'
<1>1. pool[b] \in Hashes
    BY DEF WorkerWritesBlock, OffloadInv, CopiesHold
<1>2. /\ memory' \in [Ranks -> [Blocks -> Hashes \cup {NoHash}]]
      /\ \A q \in Ranks, c \in Blocks : memory'[q][c] = IF q = r /\ c = b THEN pool[b] ELSE memory[q][c]
    BY <1>1 DEF WorkerWritesBlock, OffloadInv, OffloadTypeOK
<1>3. /\ persisting' \in [Ranks -> [Blocks -> {"none", "copying", "written", "done"}]]
      /\ \A q \in Ranks, c \in Blocks : persisting'[q][c] = IF q = r /\ c = b THEN "written" ELSE persisting[q][c]
    BY DEF WorkerWritesBlock, OffloadInv, OffloadTypeOK
<1>4. /\ files' \in [Ranks -> SUBSET Hashes]
      /\ \A q \in Ranks : files'[q] = IF q = r THEN files[q] \cup {pool[b]} ELSE files[q]
    BY <1>1 DEF WorkerWritesBlock, OffloadInv, OffloadTypeOK
<1>5. UNCHANGED <<pool, stored, known, wIndex, sIndex, engine, crashes>>
    BY DEF WorkerWritesBlock
<1>6. OffloadTypeOK'
    BY <1>2, <1>3, <1>4, <1>5 DEF OffloadInv, OffloadTypeOK
<1>7. CopiesHold'
    BY <1>1, <1>2, <1>3, <1>4, <1>5 DEF OffloadInv, CopiesHold
<1>8. IndexedPayloads'
    BY <1>4, <1>5 DEF OffloadInv, IndexedPayloads
<1>9. StoredHold'
    BY <1>2, <1>5 DEF OffloadInv, OffloadTypeOK, StoredHold, Validated
<1> QED BY <1>5, <1>6, <1>7, <1>8, <1>9 DEF OffloadInv, RestoreStarts, IndexOneToOne

LEMMA OffloadWorkerIndexes ==
    ASSUME OffloadInv, NEW r \in Ranks, NEW b \in Blocks, WorkerIndexesBlock(r, b)
    PROVE  OffloadInv'
<1>1. pool[b] \in Hashes /\ pool[b] \in files[r] /\ memory[r][b] = pool[b]
    BY DEF WorkerIndexesBlock, OffloadInv, CopiesHold
<1>2. /\ known' \in [Ranks -> [Blocks -> Hashes \cup {NoHash}]]
      /\ \A q \in Ranks, c \in Blocks : known'[q][c] = IF q = r /\ c = b THEN pool[b] ELSE known[q][c]
    BY <1>1 DEF WorkerIndexesBlock, OffloadInv, OffloadTypeOK
<1>3. /\ persisting' \in [Ranks -> [Blocks -> {"none", "copying", "written", "done"}]]
      /\ \A q \in Ranks, c \in Blocks : persisting'[q][c] = IF q = r /\ c = b THEN "done" ELSE persisting[q][c]
      /\ persisting[r][b] = "written"
    BY DEF WorkerIndexesBlock, OffloadInv, OffloadTypeOK
<1>4. UNCHANGED <<pool, stored, memory, files, sIndex, engine, crashes>>
    BY DEF WorkerIndexesBlock
<1>5. /\ wIndex' \in [Ranks -> Index]
      /\ \A q \in Ranks : OneToOne(wIndex'[q])
      /\ \A q \in Ranks, h \in Hashes : wIndex'[q][h] # NoHash => wIndex[q][h] # NoHash \/ (q = r /\ h = pool[b])
    <2>1. wIndex[r] \in Index /\ \A q \in Ranks : OneToOne(wIndex[q])
        BY IndexOneToOneEach DEF OffloadInv, OffloadTypeOK
    <2>2. wIndex' = [wIndex EXCEPT ![r] = Upserted(wIndex[r], b, pool[b])]
        BY DEF WorkerIndexesBlock
    <2> QED BY <1>1, <2>1, <2>2, UpsertedOneToOne DEF OffloadInv, OffloadTypeOK
<1>6. OffloadTypeOK'
    BY <1>2, <1>3, <1>4, <1>5 DEF OffloadInv, OffloadTypeOK
<1>7. CopiesHold' /\ IndexedPayloads'
    BY <1>1, <1>3, <1>4, <1>5 DEF OffloadInv, CopiesHold, IndexedPayloads
<1>8. StoredHold'
    <2>1. ASSUME NEW c \in stored, NEW q \in Ranks, known'[q][c] = pool[c] PROVE memory[q][c] = pool[c]
        <3>1. CASE q = r /\ c = b
            BY <1>1, <3>1
        <3>2. CASE ~(q = r /\ c = b)
            <4>1. c \in Blocks /\ known'[q][c] = known[q][c]
                BY <1>2, <3>2 DEF OffloadInv, OffloadTypeOK
            <4> QED BY <2>1, <4>1 DEF OffloadInv, StoredHold, Validated
        <3> QED BY <3>1, <3>2
    <2> QED BY <1>4, <2>1 DEF StoredHold, Validated
<1>9. IndexOneToOne'
    <2>1. OneToOne(sIndex')
        BY <1>4, IndexOneToOneEach DEF OffloadInv
    <2> QED BY <1>5, <2>1 DEF IndexOneToOne, OneToOne
<1> QED BY <1>4, <1>6, <1>7, <1>8, <1>9 DEF OffloadInv, RestoreStarts

LEMMA OffloadSchedulerSaves ==
    ASSUME OffloadInv, NEW b \in Blocks, SchedulerSaves(b)
    PROVE  OffloadInv'
<1>1. /\ pool[b] \in Hashes /\ stored' = stored \cup {b}
      /\ \A r \in Ranks : memory[r][b] = pool[b]
      /\ UNCHANGED <<pool, memory, known, persisting, files, wIndex, engine, crashes>>
    BY DEF SchedulerSaves, OffloadInv, OffloadTypeOK, CopiesHold
<1>2. sIndex' \in Index /\ OneToOne(sIndex')
    <2>1. sIndex \in Index /\ OneToOne(sIndex)
        BY IndexOneToOneEach DEF OffloadInv, OffloadTypeOK
    <2>2. sIndex' = Upserted(sIndex, b, pool[b])
        BY DEF SchedulerSaves
    <2> QED BY <1>1, <2>1, <2>2, UpsertedOneToOne
<1>3. OffloadTypeOK'
    BY <1>1, <1>2 DEF OffloadInv, OffloadTypeOK
<1>4. IndexOneToOne'
    <2>1. \A r \in Ranks : OneToOne(wIndex'[r])
        BY <1>1, IndexOneToOneEach DEF OffloadInv
    <2> QED BY <1>2, <2>1 DEF IndexOneToOne, OneToOne
<1>5. StoredHold'
    BY <1>1 DEF OffloadInv, StoredHold, Validated
<1> QED BY <1>1, <1>3, <1>4, <1>5 DEF OffloadInv, CopiesHold, IndexedPayloads, RestoreStarts

LEMMA OffloadEngineStarts ==
    ASSUME OffloadInv, NEW restore \in BOOLEAN, EngineStarts(restore)
    PROVE  OffloadInv'
<1> DEFINE ents(r) == IF restore THEN Entries(wIndex[r]) ELSE NoBlocks
<1>1. \A r \in Ranks : ents(r) \in [Blocks -> Hashes \cup {NoHash}]
    BY EntriesType DEF OffloadInv, OffloadTypeOK, NoBlocks
<1>2. \A r \in Ranks, b \in Blocks : ents(r)[b] \in files[r] \cup {NoHash}
    <2> SUFFICES ASSUME NEW r \in Ranks, NEW b \in Blocks PROVE ents(r)[b] \in files[r] \cup {NoHash}
        OBVIOUS
    <2>1. CASE ~restore
        BY <2>1 DEF NoBlocks
    <2>2. CASE restore
        <3> DEFINE h == Entries(wIndex[r])[b]
        <3>1. wIndex[r] \in Index
            BY DEF OffloadInv, OffloadTypeOK
        <3>2. h # NoHash => h \in Hashes /\ wIndex[r][h] = b
            BY <3>1, EntriesType
        <3>3. b # NoHash
            BY OffloadSentinel
        <3>4. h # NoHash => h \in files[r]
            BY <3>2, <3>3 DEF OffloadInv, IndexedPayloads
        <3> QED BY <2>2, <3>4
    <2> QED BY <2>1, <2>2
<1>3. /\ engine' = "up"
      /\ memory' = [r \in Ranks |-> ents(r)] /\ known' = [r \in Ranks |-> ents(r)]
      /\ UNCHANGED <<files, wIndex, sIndex, crashes>>
    BY <1>2 DEF EngineStarts
<1>4. /\ pool' \in [Blocks -> Hashes \cup {NoHash}] /\ stored' \subseteq Blocks
      /\ persisting' = [r \in Ranks |-> [b \in Blocks |-> "none"]]
    BY EntriesType DEF EngineStarts, OffloadInv, OffloadTypeOK, NoBlocks
<1>5. OffloadTypeOK'
    BY <1>1, <1>3, <1>4 DEF OffloadInv, OffloadTypeOK
<1>6. CopiesHold' /\ IndexedPayloads' /\ RestoreStarts' /\ IndexOneToOne'
    BY <1>3, <1>4 DEF OffloadInv, CopiesHold, IndexedPayloads, RestoreStarts, IndexOneToOne
<1>7. StoredHold'
    <2>1. known' = memory'
        BY <1>3
    <2> QED BY <2>1 DEF StoredHold, Validated
<1> QED BY <1>5, <1>6, <1>7 DEF OffloadInv

LEMMA OffloadEngineEnds ==
    ASSUME OffloadInv, EngineDies \/ \E b \in Blocks : LoadBlock(b)
    PROVE  OffloadInv'
<1>1. /\ UNCHANGED <<pool, stored, memory, known, persisting, files, wIndex, sIndex>>
      /\ engine' \in {"up", "raised_load", "killed"} /\ crashes' \in 0..MaxCrashes
    BY OffloadAssumption DEF EngineDies, LoadBlock, OffloadInv, OffloadTypeOK
<1> QED BY <1>1 DEF OffloadInv, OffloadTypeOK, CopiesHold, IndexedPayloads, StoredHold, Validated,
       RestoreStarts, IndexOneToOne

LEMMA OffloadInvStep == OffloadInv /\ [OffloadNext]_offloadVars => OffloadInv'
<1> SUFFICES ASSUME OffloadInv, [OffloadNext]_offloadVars PROVE OffloadInv'
    OBVIOUS
<1>1. CASE UNCHANGED offloadVars
    BY <1>1 DEF offloadVars, OffloadInv, OffloadTypeOK, CopiesHold, IndexedPayloads, StoredHold, Validated,
       RestoreStarts, IndexOneToOne
<1> QED BY <1>1, OffloadStoreBlock, OffloadWorkerWrites, OffloadWorkerIndexes, OffloadSchedulerSaves,
       OffloadEngineStarts, OffloadEngineEnds DEF OffloadNext

-----------------------------------------------------------------------------
(* The store of HMA packages and its connector.                             *)

(* What a writer holds is of writes that were started, and what it will     *)
(* enter in the index is on disk.                                           *)
WritersHonest ==
    \A w \in Writers : writer[w].pc # "idle" =>
        /\ writer[w].nr <= writes
        /\ writer[w].pc = "index" => \A i \in writer[w].read \cup {writer[w].id} : package[i] # 0
PackagesStarted == \A i \in PackageIds : package[i] <= writes
PromisedFails == \A q \in need : hmaStep[q] \in {"promised", "raised"}
HmaInv == HmaTypeOK /\ WritersHonest /\ PackagesStarted /\ IndexedExists /\ PromisedFails

LEMMA HmaInitInv == HmaInit => HmaInv
BY HmaAssumption DEF HmaInit, HmaInv, HmaTypeOK, WritersHonest, PackagesStarted, IndexedExists, PromisedFails, Resting

(* What a writer is doing, as its record. *)
LEMMA HmaWriterBusy ==
    ASSUME HmaTypeOK, NEW w \in Writers
    PROVE  /\ writer[w].pc # "idle" <=> writer[w] # Resting
           /\ writer[w].pc # "idle" =>
                /\ writer[w] \in Busy /\ writer[w].id \in PackageIds
                /\ writer[w].nr \in 1..MaxWrites /\ writer[w].read \in SUBSET PackageIds
BY DEF HmaTypeOK, Resting, Busy

(* The index that a writer replaces and the requests are left alone by the  *)
(* writers, the packages on disk only grow newer.                           *)
LEMMA HmaBeginWrite ==
    ASSUME HmaInv, NEW w \in Writers, NEW i \in PackageIds, BeginWrite(w, i)
    PROVE  HmaInv'
<1> DEFINE rec == [pc |-> "parts", id |-> i, nr |-> writes + 1, left |-> Parts, read |-> {}]
<1>1. /\ writes \in 0..MaxWrites /\ writes' = writes + 1 /\ writes' \in 1..MaxWrites
      /\ writer' = [writer EXCEPT ![w] = rec]
      /\ UNCHANGED <<part, package, index, need, hmaStep>>
    BY HmaAssumption DEF BeginWrite, HmaInv, HmaTypeOK
<1>2. rec \in Busy /\ rec.pc = "parts" /\ rec.nr = writes'
    BY <1>1 DEF Busy
<1>3. HmaTypeOK'
    BY <1>1, <1>2 DEF HmaInv, HmaTypeOK
<1>4. ASSUME NEW v \in Writers, writer'[v].pc # "idle"
      PROVE  /\ writer'[v].nr <= writes'
             /\ writer'[v].pc = "index" => \A j \in writer'[v].read \cup {writer'[v].id} : package'[j] # 0
    <2>1. CASE v = w
        <3>1. writer'[v] = rec
            BY <1>1, <2>1 DEF HmaInv, HmaTypeOK
        <3> QED BY <1>1, <1>2, <3>1
    <2>2. CASE v # w
        <3>1. writer'[v] = writer[v]
            BY <1>1, <2>2 DEF HmaInv, HmaTypeOK
        <3>2. writer[v].nr \in 1..MaxWrites
            BY <1>4, <3>1, HmaWriterBusy DEF HmaInv
        <3> QED BY <1>1, <1>4, <3>1, <3>2, HmaAssumption DEF HmaInv, WritersHonest
    <2> QED BY <2>1, <2>2
<1>5. PackagesStarted'
    BY <1>1, HmaAssumption DEF HmaInv, PackagesStarted, HmaTypeOK
<1>6. IndexedExists' /\ PromisedFails'
    BY <1>1 DEF HmaInv, IndexedExists, PromisedFails
<1> QED BY <1>3, <1>4, <1>5, <1>6 DEF HmaInv, WritersHonest

LEMMA HmaWritePart ==
    ASSUME HmaInv, NEW w \in Writers, NEW p \in Parts, WritePart(w, p)
    PROVE  HmaInv'
<1>1. writer[w].pc = "parts" /\ writer[w] \in Busy
    BY HmaWriterBusy DEF WritePart, HmaInv
<1> DEFINE rec == [writer[w] EXCEPT !.left = @ \ {p}, !.pc = IF writer[w].left = {p} THEN "package" ELSE @]
<1>2. /\ writer' = [writer EXCEPT ![w] = rec]
      /\ UNCHANGED <<package, index, writes, need, hmaStep>>
    BY DEF WritePart, HmaInv, HmaTypeOK
<1>3. rec \in Busy /\ rec.pc \in {"parts", "package"} /\ rec.nr = writer[w].nr
    BY <1>1 DEF Busy
<1>4. part' \in [PackageIds -> [Parts -> 0..MaxWrites]]
    <2> DEFINE id == writer[w].id
               nr == writer[w].nr
    <2>1. id \in PackageIds /\ nr \in 0..MaxWrites
        BY <1>1 DEF Busy
    <2>2. part' = [part EXCEPT ![id][p] = nr] /\ part \in [PackageIds -> [Parts -> 0..MaxWrites]]
        BY DEF WritePart, HmaInv, HmaTypeOK
    <2> HIDE DEF id, nr
    <2>3. [part[id] EXCEPT ![p] = nr] \in [Parts -> 0..MaxWrites]
        BY <2>1, <2>2
    <2> QED BY <2>1, <2>2, <2>3
<1>5. HmaTypeOK'
    BY <1>2, <1>3, <1>4 DEF HmaInv, HmaTypeOK
<1>6. WritersHonest'
    <2>1. ASSUME NEW v \in Writers PROVE writer'[v] = IF v = w THEN rec ELSE writer[v]
        BY <1>2 DEF HmaInv, HmaTypeOK
    <2>2. UNCHANGED <<package, writes>>
        BY <1>2
    <2> HIDE DEF rec
    <2>3. rec.nr <= writes /\ rec.pc # "index"
        BY <1>1, <1>3 DEF HmaInv, WritersHonest
    <2> QED BY <2>1, <2>2, <2>3 DEF HmaInv, WritersHonest
<1> QED BY <1>2, <1>5, <1>6 DEF HmaInv, PackagesStarted, IndexedExists, PromisedFails

LEMMA HmaWritePackage ==
    ASSUME HmaInv, NEW w \in Writers, WritePackage(w)
    PROVE  HmaInv'
<1>1. /\ writer[w].pc = "package" /\ writer[w] \in Busy /\ writer[w].id \in PackageIds
      /\ writer[w].nr \in 1..MaxWrites /\ writer[w].nr <= writes
    BY HmaWriterBusy DEF WritePackage, HmaInv, WritersHonest
<1> DEFINE rec == [writer[w] EXCEPT !.pc = "index", !.read = index]
<1>2. /\ writer' = [writer EXCEPT ![w] = rec]
      /\ package' = [package EXCEPT ![writer[w].id] = writer[w].nr]
      /\ UNCHANGED <<part, index, writes, need, hmaStep>>
    BY DEF WritePackage, HmaInv, HmaTypeOK
<1>3. rec \in Busy /\ rec.pc = "index" /\ rec.nr = writer[w].nr /\ rec.id = writer[w].id /\ rec.read = index
    BY <1>1 DEF Busy, HmaInv, HmaTypeOK
<1>4. HmaTypeOK'
    BY <1>1, <1>2, <1>3 DEF HmaInv, HmaTypeOK
<1>5. \A i \in PackageIds : package'[i] = IF i = writer[w].id THEN writer[w].nr ELSE package[i]
    BY <1>2 DEF HmaInv, HmaTypeOK
<1>6. PackagesStarted' /\ IndexedExists'
    BY <1>1, <1>2, <1>5 DEF HmaInv, HmaTypeOK, PackagesStarted, IndexedExists
<1>7. WritersHonest'
    <2>1. ASSUME NEW v \in Writers PROVE writer'[v] = IF v = w THEN rec ELSE writer[v]
        BY <1>2 DEF HmaInv, HmaTypeOK
    <2>2. \A i \in index \cup {writer[w].id} : package'[i] # 0
        BY <1>1, <1>5 DEF HmaInv, HmaTypeOK, IndexedExists
    <2>3. ASSUME NEW v \in Writers, v # w, writer[v].pc = "index"
          PROVE  \A i \in writer[v].read \cup {writer[v].id} : package'[i] # 0
        BY <1>1, <1>5, <2>3, HmaWriterBusy DEF HmaInv, WritersHonest
    <2> QED BY <1>1, <1>2, <1>3, <2>1, <2>2, <2>3 DEF HmaInv, WritersHonest
<1> QED BY <1>2, <1>4, <1>6, <1>7 DEF HmaInv, PromisedFails

LEMMA HmaWriterRests ==
    ASSUME HmaInv, NEW w \in Writers, WriteIndex(w) \/ WriterDies(w)
    PROVE  HmaInv'
<1>1. /\ writer' = [writer EXCEPT ![w] = Resting]
      /\ UNCHANGED <<part, package, writes, need, hmaStep>>
    BY DEF WriteIndex, WriterDies
<1>2. index' \subseteq PackageIds /\ \A i \in index' : package[i] # 0
    <2>1. CASE WriteIndex(w)
        BY <2>1, HmaWriterBusy DEF WriteIndex, HmaInv, WritersHonest
    <2>2. CASE WriterDies(w)
        BY <2>2 DEF WriterDies, HmaInv, HmaTypeOK, IndexedExists
    <2> QED BY <2>1, <2>2
<1>3. HmaTypeOK'
    BY <1>1, <1>2 DEF HmaInv, HmaTypeOK
<1>4. WritersHonest'
    <2>1. ASSUME NEW v \in Writers PROVE writer'[v] = IF v = w THEN Resting ELSE writer[v]
        BY <1>1 DEF HmaInv, HmaTypeOK
    <2> QED BY <1>1, <2>1 DEF HmaInv, WritersHonest, Resting
<1> QED BY <1>1, <1>2, <1>3, <1>4 DEF HmaInv, PackagesStarted, IndexedExists, PromisedFails

LEMMA HmaConnector ==
    ASSUME HmaInv, NEW q \in HmaRequests, (\E i \in PackageIds : Match(q, i)) \/ StartLoad(q)
    PROVE  HmaInv'
<1>1. UNCHANGED <<part, package, index, writer, writes>>
    BY DEF Match, StartLoad
<1>2. /\ hmaStep' \in [HmaRequests -> {"waiting", "miss", "promised", "raised", "ran"}]
      /\ need' \subseteq HmaRequests /\ PromisedFails'
    <2>1. ASSUME NEW i \in PackageIds, Match(q, i)
          PROVE  /\ hmaStep' \in [HmaRequests -> {"waiting", "miss", "promised", "raised", "ran"}]
                 /\ need' \subseteq HmaRequests /\ PromisedFails'
        <3>1. Lookup(i) \in {"none", "found", "raise"}
            BY DEF Lookup
        <3>2. CASE Lookup(i) = "found"
            <4>1. hmaStep' = [hmaStep EXCEPT ![q] = "promised"] /\ need' = need \cup {q}
                BY <2>1, <3>2 DEF Match
            <4> QED BY <4>1 DEF HmaInv, HmaTypeOK, PromisedFails
        <3>3. CASE Lookup(i) # "found"
            <4>1. /\ \E s \in {"miss", "raised"} : hmaStep' = [hmaStep EXCEPT ![q] = s]
                  /\ need' = need /\ hmaStep[q] = "waiting"
                BY <2>1, <3>1, <3>3 DEF Match
            <4> QED BY <4>1 DEF HmaInv, HmaTypeOK, PromisedFails
        <3> QED BY <3>2, <3>3
    <2>2. ASSUME StartLoad(q)
          PROVE  /\ hmaStep' \in [HmaRequests -> {"waiting", "miss", "promised", "raised", "ran"}]
                 /\ need' \subseteq HmaRequests /\ PromisedFails'
        BY <2>2 DEF StartLoad, HmaInv, HmaTypeOK, PromisedFails
    <2> QED BY <2>1, <2>2
<1> QED BY <1>1, <1>2 DEF HmaInv, HmaTypeOK, WritersHonest, PackagesStarted, IndexedExists

LEMMA HmaInvStep == HmaInv /\ [HmaNext]_hmaVars => HmaInv'
<1> SUFFICES ASSUME HmaInv, [HmaNext]_hmaVars PROVE HmaInv'
    OBVIOUS
<1>1. CASE UNCHANGED hmaVars
    BY <1>1 DEF hmaVars, HmaInv, HmaTypeOK, WritersHonest, PackagesStarted, IndexedExists, PromisedFails
<1> QED BY <1>1, HmaBeginWrite, HmaWritePart, HmaWritePackage, HmaWriterRests, HmaConnector DEF HmaNext

(* The three facts of the store of HMA packages follow from the invariant. *)
LEMMA HmaInvStore == HmaInv => NoMixedPackage /\ IndexedExists /\ FailsClosed
<1> SUFFICES ASSUME HmaInv PROVE NoMixedPackage /\ IndexedExists /\ FailsClosed
    OBVIOUS
<1>1. ASSUME NEW i \in PackageIds, Lookup(i) = "found"
      PROVE  \E n \in 1..writes : \A p \in Parts : part[i][p] = n
    <2>1. package[i] # 0 /\ \A p \in Parts : part[i][p] = package[i]
        BY <1>1 DEF Lookup, Intact
    <2>2. package[i] \in 1..writes
        BY <2>1, HmaAssumption DEF HmaInv, HmaTypeOK, PackagesStarted
    <2> QED BY <2>1, <2>2
<1>2. FailsClosed
    BY DEF HmaInv, PromisedFails, FailsClosed
<1> QED BY <1>1, <1>2 DEF HmaInv, NoMixedPackage

-----------------------------------------------------------------------------
(* The stores together: a step of PartsSpec is one of the part in focus.    *)

StoresInv == RegistryInv /\ OffloadInv /\ HmaInv

LEMMA StoresInitInv == PartsInit => StoresInv
BY RegistryInitInv, OffloadInitInv, HmaInitInv DEF PartsInit, KvInit, StoresInv

LEMMA StoresInvStep ==
    StoresInv /\ [PartsNext]_<<focus, kvParts, configParts, servingParts, operatorParts, upkeepParts>> => StoresInv'
<1> SUFFICES ASSUME StoresInv, [PartsNext]_<<focus, kvParts, configParts, servingParts, operatorParts, upkeepParts>>
             PROVE  StoresInv'
    OBVIOUS
<1>1. KvNext \/ UNCHANGED kvParts
    BY DEF PartsNext
<1>2. [RegistryNext]_registryVars /\ [OffloadNext]_offloadVars /\ [HmaNext]_hmaVars
    BY <1>1 DEF KvNext, kvParts
<1> QED BY <1>2, RegistryInvStep, OffloadInvStep, HmaInvStep DEF StoresInv

(* What the stores say of KV is so, in the registry whatever handlers and   *)
(* restarts are interleaved, in the offload store wherever the engine died, *)
(* in the package store whatever writers were at work (queue.py,            *)
(* persistent_disk.py, state_package.py, vllm_connector.py).                *)
THEOREM StoresAreTruthful == PartsSpec => []StoresTruthful
<1>1. StoresInv => StoresTruthful
    BY RegistryInvStore, HmaInvStore DEF StoresInv, StoresTruthful, OffloadInv, StoredHold, LoadsTruthful
<1> QED BY <1>1, StoresInitInv, StoresInvStep, PTL DEF PartsSpec

-----------------------------------------------------------------------------
(* The telemetry monitor of a node.                                         *)

PrevTotals == UNION {[S -> Nat] : S \in SUBSET (Engines \ Headless)}
MonitorShape ==
    /\ server \in [Engines -> [up : BOOLEAN, total : Nat]]
    /\ made \in [Engines -> Nat] /\ shownSum \in [Engines -> Nat]
    /\ monitor \in [alive : BOOLEAN, schema : Schemas, header : BOOLEAN, prev : PrevTotals]
    /\ csvFile \in [header : Schemas \cup {"none", "absent"}, rows : SUBSET Schemas]

(* What the next rate of an engine would be is covered by its tokens too.   *)
RatesCovered ==
    \A e \in DOMAIN monitor.prev : shownSum[e] + AtLeastZero(server[e].total - monitor.prev[e]) <= made[e]

(* A file without a header has no rows, and the running monitor writes      *)
(* under its own header or still has it to write.                           *)
HeaderFirst ==
    /\ csvFile.header \in {"none", "absent"} => csvFile.rows = {}
    /\ monitor.alive => \/ csvFile.header = monitor.schema
                        \/ csvFile.header = "none" /\ monitor.header
MonitorInv == MonitorShape /\ RatesNeverOver /\ RatesCovered /\ RowsUnderHeader /\ HeaderFirst

LEMMA NoTotalsType == NoTotals \in PrevTotals /\ DOMAIN NoTotals = {}
<1>1. NoTotals \in [{} -> Nat] /\ {} \in SUBSET (Engines \ Headless)
    BY DEF NoTotals
<1> QED BY <1>1 DEF PrevTotals

LEMMA MonitorInitInv == MonitorStartState => MonitorInv
<1> SUFFICES ASSUME MonitorStartState PROVE MonitorInv
    OBVIOUS
<1>1. (CHOOSE s \in Schemas : TRUE) \in Schemas
    BY MonitorAssumption
<1>2. MonitorShape
    BY <1>1, NoTotalsType DEF MonitorStartState, MonitorShape, NoFile
<1>3. RatesNeverOver
    BY DEF MonitorStartState, RatesNeverOver
<1>4. RatesCovered
    BY NoTotalsType DEF MonitorStartState, RatesCovered
<1>5. RowsUnderHeader /\ HeaderFirst
    BY DEF MonitorStartState, NoFile, RowsUnderHeader, HeaderFirst
<1> QED BY <1>2, <1>3, <1>4, <1>5 DEF MonitorInv

LEMMA MonitorPrev ==
    ASSUME MonitorShape
    PROVE  /\ monitor.prev \in PrevTotals /\ DOMAIN monitor.prev \subseteq Engines \ Headless
           /\ \A e \in DOMAIN monitor.prev :
                e \in Engines /\ monitor.prev[e] \in Nat /\ server[e].total \in Nat
                              /\ shownSum[e] \in Nat /\ made[e] \in Nat
BY DEF MonitorShape, PrevTotals

(* What engines do by themselves. *)
LEMMA MonitorEngines ==
    ASSUME MonitorInv, NEW e \in Engines,
           MakeToken(e) \/ EngineStops(e) \/ \E reset \in BOOLEAN : EngineAnswers(e, reset)
    PROVE  MonitorInv'
<1>1. UNCHANGED <<shownSum, monitor, csvFile>>
    BY DEF MakeToken, EngineStops, EngineAnswers
<1>2. /\ server' \in [Engines -> [up : BOOLEAN, total : Nat]] /\ made' \in [Engines -> Nat]
      /\ \A x \in Engines :
            /\ made[x] <= made'[x]
            /\ \/ server'[x].total - server[x].total = made'[x] - made[x]
               \/ server'[x].total = 0
    <2>1. CASE MakeToken(e)
        BY <2>1 DEF MakeToken, MonitorInv, MonitorShape
    <2>2. CASE EngineStops(e)
        <3>1. /\ server' \in [Engines -> [up : BOOLEAN, total : Nat]] /\ made' = made
              /\ \A x \in Engines : server'[x].total = server[x].total
            BY <2>2 DEF EngineStops, MonitorInv, MonitorShape
        <3> QED BY <3>1 DEF MonitorInv, MonitorShape
    <2>3. ASSUME NEW reset \in BOOLEAN, EngineAnswers(e, reset)
          PROVE  /\ server' \in [Engines -> [up : BOOLEAN, total : Nat]] /\ made' = made
                 /\ \A x \in Engines : server'[x].total = server[x].total \/ server'[x].total = 0
        BY <2>3 DEF EngineAnswers, MonitorInv, MonitorShape
    <2>4. CASE \E reset \in BOOLEAN : EngineAnswers(e, reset)
        BY <2>3, <2>4 DEF MonitorInv, MonitorShape
    <2> QED BY <2>1, <2>2, <2>4
<1>3. MonitorShape'
    BY <1>1, <1>2 DEF MonitorInv, MonitorShape, PrevTotals
<1>4. RatesNeverOver'
    BY <1>1, <1>2 DEF MonitorInv, MonitorShape, RatesNeverOver
<1>5. RatesCovered'
    <2> SUFFICES ASSUME NEW x \in DOMAIN monitor.prev
                 PROVE  shownSum[x] + AtLeastZero(server'[x].total - monitor.prev[x]) <= made'[x]
        BY <1>1 DEF RatesCovered, AtLeastZero
    <2>1. /\ x \in Engines /\ monitor.prev[x] \in Nat /\ server[x].total \in Nat
          /\ shownSum[x] \in Nat /\ made[x] \in Nat
        BY MonitorPrev DEF MonitorInv
    <2>2. server'[x].total \in Nat /\ made'[x] \in Nat
        BY <1>2, <2>1
    <2>3. shownSum[x] + AtLeastZero(server[x].total - monitor.prev[x]) <= made[x] /\ shownSum[x] <= made[x]
        BY <2>1 DEF MonitorInv, RatesCovered, RatesNeverOver
    <2> QED BY <1>2, <2>1, <2>2, <2>3 DEF AtLeastZero
<1>6. RowsUnderHeader' /\ HeaderFirst'
    BY <1>1 DEF MonitorInv, RowsUnderHeader, HeaderFirst
<1> QED BY <1>3, <1>4, <1>5, <1>6 DEF MonitorInv

LEMMA MonitorStarts ==
    ASSUME MonitorInv, NEW s \in Schemas, Start(s)
    PROVE  MonitorInv'
<1>1. /\ monitor' = [alive |-> TRUE, schema |-> s, header |-> CsvNeedsHeader(s), prev |-> NoTotals]
      /\ UNCHANGED <<server, made, shownSum>>
      /\ csvFile' = IF Rotated(s) = NoFile THEN [NoFile EXCEPT !.header = "none"] ELSE Rotated(s)
    BY DEF Start
<1>2. [NoFile EXCEPT !.header = "none"] = [header |-> "none", rows |-> {}]
    BY DEF NoFile
<1>3. csvFile' = IF csvFile.header = s THEN csvFile ELSE [header |-> "none", rows |-> {}]
    <2>1. s \notin {"none", "absent"} /\ csvFile \in [header : Schemas \cup {"none", "absent"}, rows : SUBSET Schemas]
        BY MonitorAssumption DEF MonitorInv, MonitorShape
    <2>2. CASE csvFile.header = s
        BY <1>1, <2>1, <2>2 DEF Rotated, NoFile
    <2>3. CASE csvFile.header \in Schemas \ {s}
        BY <1>1, <1>2, <2>3 DEF Rotated
    <2>4. CASE csvFile.header \in {"none", "absent"}
        <3>1. csvFile.rows = {} /\ Rotated(s) = csvFile
            BY <2>4, MonitorAssumption DEF MonitorInv, HeaderFirst, Rotated
        <3>2. csvFile = [header |-> csvFile.header, rows |-> {}]
            BY <2>1, <3>1
        <3>3. csvFile' = [header |-> "none", rows |-> {}]
            BY <1>1, <1>2, <2>4, <3>1, <3>2 DEF NoFile
        <3> QED BY <2>1, <2>4, <3>3
    <2> QED BY <2>1, <2>2, <2>3, <2>4
<1>4. CsvNeedsHeader(s) = (csvFile.header # s)
    BY DEF CsvNeedsHeader
<1>5. monitor' \in [alive : BOOLEAN, schema : Schemas, header : BOOLEAN, prev : PrevTotals]
    BY <1>1, <1>4, NoTotalsType
<1>6. MonitorShape'
    BY <1>1, <1>3, <1>5 DEF MonitorInv, MonitorShape, PrevTotals
<1>7. RatesNeverOver' /\ RatesCovered'
    BY <1>1, NoTotalsType DEF MonitorInv, RatesNeverOver, RatesCovered
<1>8. RowsUnderHeader'
    BY <1>3 DEF MonitorInv, RowsUnderHeader
<1>9. HeaderFirst'
    <2>1. monitor'.schema = s /\ monitor'.header = (csvFile.header # s)
        BY <1>1, <1>4
    <2>2. CASE csvFile.header = s
        BY <1>3, <2>1, <2>2 DEF MonitorInv, HeaderFirst
    <2>3. CASE csvFile.header # s
        <3>1. monitor'.header = TRUE /\ csvFile'.header = "none" /\ csvFile'.rows = {}
            BY <1>3, <2>1, <2>3
        <3> QED BY <3>1 DEF HeaderFirst
    <2> QED BY <2>2, <2>3
<1> QED BY <1>6, <1>7, <1>8, <1>9 DEF MonitorInv

LEMMA MonitorStops ==
    ASSUME MonitorInv, Stop
    PROVE  MonitorInv'
<1>1. /\ monitor' = [monitor EXCEPT !.alive = FALSE, !.header = FALSE]
      /\ UNCHANGED <<server, made, shownSum, csvFile>>
    BY DEF Stop
<1>2. /\ monitor' \in [alive : BOOLEAN, schema : Schemas, header : BOOLEAN, prev : PrevTotals]
      /\ monitor'.prev = monitor.prev /\ monitor'.alive = FALSE
    BY <1>1 DEF MonitorInv, MonitorShape
<1>3. MonitorShape'
    BY <1>1, <1>2 DEF MonitorInv, MonitorShape, PrevTotals
<1>4. RatesNeverOver' /\ RowsUnderHeader' /\ HeaderFirst'
    BY <1>1, <1>2 DEF MonitorInv, RatesNeverOver, RowsUnderHeader, HeaderFirst
<1>5. RatesCovered'
    BY <1>1, <1>2 DEF MonitorInv, RatesCovered, AtLeastZero
<1> QED BY <1>3, <1>4, <1>5 DEF MonitorInv

LEMMA MonitorSamples ==
    ASSUME MonitorInv, Sample
    PROVE  MonitorInv'
<1> DEFINE rates == IF monitor.prev = NoTotals THEN [e \in Answering |-> 0] ELSE RateByModel
           file == [header |-> IF monitor.header /\ csvFile.header = "none" THEN monitor.schema ELSE csvFile.header,
                    rows |-> csvFile.rows \cup {monitor.schema}]
<1>1. /\ monitor.alive /\ csvFile' = file
      /\ monitor' = [monitor EXCEPT !.header = FALSE, !.prev = NextVllm]
      /\ shownSum' = [e \in Engines |-> shownSum[e] + (IF e \in DOMAIN rates THEN rates[e] ELSE 0)]
      /\ UNCHANGED <<server, made>>
    BY DEF Sample
<1>2. Answering \subseteq Engines \ Headless /\ DOMAIN rates = Answering
    BY DEF Answering, MetricsTargets, RateByModel
<1>3. \A e \in Answering : rates[e] = IF e \in DOMAIN monitor.prev THEN AtLeastZero(server[e].total - monitor.prev[e]) ELSE 0
    <2> SUFFICES ASSUME NEW e \in Answering
                 PROVE  rates[e] = IF e \in DOMAIN monitor.prev THEN AtLeastZero(server[e].total - monitor.prev[e]) ELSE 0
        OBVIOUS
    <2>1. server[e].total \in Nat
        BY <1>2 DEF MonitorInv, MonitorShape
    <2>2. CASE monitor.prev = NoTotals
        BY <2>2, NoTotalsType
    <2>3. CASE monitor.prev # NoTotals
        BY <2>1, <2>3 DEF RateByModel, PrevTotal, AtLeastZero
    <2> QED BY <2>2, <2>3
<1>4. \A e \in Engines :
        shownSum'[e] = shownSum[e] + (IF e \in Answering /\ e \in DOMAIN monitor.prev
                                      THEN AtLeastZero(server[e].total - monitor.prev[e]) ELSE 0)
    BY <1>1, <1>2, <1>3
<1> HIDE DEF rates
<1>5. shownSum' \in [Engines -> Nat] /\ \A e \in Engines : shownSum'[e] <= made[e]
    <2>1. ASSUME NEW e \in Engines
          PROVE  shownSum[e] + (IF e \in DOMAIN rates THEN rates[e] ELSE 0) \in Nat /\ shownSum'[e] <= made[e]
                 /\ shownSum'[e] = shownSum[e] + (IF e \in DOMAIN rates THEN rates[e] ELSE 0)
        <3>1. shownSum[e] \in Nat /\ made[e] \in Nat /\ server[e].total \in Nat /\ shownSum[e] <= made[e]
            BY DEF MonitorInv, MonitorShape, RatesNeverOver
        <3>2. shownSum'[e] = shownSum[e] + (IF e \in DOMAIN rates THEN rates[e] ELSE 0)
            BY <1>1
        <3>3. CASE e \in Answering /\ e \in DOMAIN monitor.prev
            <4>1. monitor.prev[e] \in Nat /\ shownSum[e] + AtLeastZero(server[e].total - monitor.prev[e]) <= made[e]
                BY <3>3, MonitorPrev DEF MonitorInv, RatesCovered
            <4>2. shownSum'[e] = shownSum[e] + AtLeastZero(server[e].total - monitor.prev[e])
                BY <1>4, <3>3
            <4> QED BY <3>1, <3>2, <4>1, <4>2 DEF AtLeastZero
        <3>4. CASE ~(e \in Answering /\ e \in DOMAIN monitor.prev)
            <4>1. shownSum'[e] = shownSum[e]
                BY <1>4, <3>1, <3>4
            <4> QED BY <3>1, <3>2, <4>1
        <3> QED BY <3>3, <3>4
    <2> QED BY <1>1, <2>1
<1>6. NextVllm \in PrevTotals
    <2>1. CASE Answering = {}
        BY <2>1, MonitorPrev DEF NextVllm, MonitorInv
    <2>2. CASE Answering # {}
        <3>1. Totals \in [Answering -> Nat] /\ Answering \in SUBSET (Engines \ Headless)
            BY <1>2 DEF Totals, MonitorInv, MonitorShape
        <3> QED BY <2>2, <3>1 DEF NextVllm, PrevTotals
    <2> QED BY <2>1, <2>2
<1>7. /\ monitor' \in [alive : BOOLEAN, schema : Schemas, header : BOOLEAN, prev : PrevTotals]
      /\ monitor'.prev = NextVllm /\ monitor'.schema = monitor.schema /\ monitor'.alive = monitor.alive
    BY <1>1, <1>6 DEF MonitorInv, MonitorShape
<1>8. /\ monitor.schema \in Schemas
      /\ \/ csvFile.header = monitor.schema
         \/ csvFile.header = "none" /\ monitor.header /\ csvFile.rows = {}
    BY <1>1 DEF MonitorInv, MonitorShape, HeaderFirst
<1>9. /\ csvFile' \in [header : Schemas \cup {"none", "absent"}, rows : SUBSET Schemas]
      /\ csvFile'.header = monitor.schema /\ csvFile'.rows \subseteq {monitor.schema}
    <2>1. file \in [header : Schemas \cup {"none", "absent"}, rows : SUBSET Schemas]
        BY <1>8 DEF MonitorInv, MonitorShape
    <2>2. csvFile.rows \subseteq {monitor.schema}
        BY <1>8 DEF MonitorInv, RowsUnderHeader
    <2>3. file.header = monitor.schema /\ file.rows \subseteq {monitor.schema}
        BY <1>8, <2>2
    <2> HIDE DEF file
    <2> QED BY <1>1, <2>1, <2>3
<1>10. MonitorShape'
    BY <1>1, <1>5, <1>7, <1>9 DEF MonitorInv, MonitorShape, PrevTotals
<1>11. RatesCovered'
    <2> SUFFICES ASSUME NEW e \in DOMAIN NextVllm
                 PROVE  shownSum'[e] + AtLeastZero(server[e].total - NextVllm[e]) <= made[e]
        BY <1>1, <1>7 DEF RatesCovered, AtLeastZero
    <2>1. CASE Answering = {}
        <3>1. NextVllm = monitor.prev /\ e \in DOMAIN monitor.prev /\ e \in Engines
            BY <2>1, MonitorPrev DEF NextVllm, MonitorInv
        <3>2. shownSum'[e] = shownSum[e] + 0 /\ shownSum[e] \in Nat
            BY <1>4, <2>1, <3>1 DEF MonitorInv, MonitorShape
        <3> QED BY <3>1, <3>2 DEF MonitorInv, RatesCovered
    <2>2. CASE Answering # {}
        <3>1. e \in Answering /\ e \in Engines /\ NextVllm[e] = server[e].total
            BY <1>2, <2>2 DEF NextVllm, Totals
        <3>2. server[e].total \in Nat /\ shownSum'[e] \in Nat /\ made[e] \in Nat
            BY <1>5, <3>1 DEF MonitorInv, MonitorShape
        <3> QED BY <1>5, <3>1, <3>2 DEF AtLeastZero
    <2> QED BY <2>1, <2>2
<1>12. RatesNeverOver'
    BY <1>1, <1>5 DEF RatesNeverOver
<1>13. RowsUnderHeader' /\ HeaderFirst'
    BY <1>7, <1>8, <1>9, MonitorAssumption DEF RowsUnderHeader, HeaderFirst
<1> QED BY <1>10, <1>11, <1>12, <1>13 DEF MonitorInv

LEMMA MonitorInvStep == MonitorInv /\ [MonitorNext]_monitorVars => MonitorInv'
<1> SUFFICES ASSUME MonitorInv, [MonitorNext]_monitorVars PROVE MonitorInv'
    OBVIOUS
<1>1. CASE UNCHANGED monitorVars
    BY <1>1 DEF monitorVars, MonitorInv, MonitorShape, PrevTotals, RatesNeverOver, RatesCovered, AtLeastZero,
       RowsUnderHeader, HeaderFirst
<1> QED BY <1>1, MonitorEngines, MonitorStarts, MonitorStops, MonitorSamples DEF MonitorNext

LEMMA PartsMonitorStep ==
    MonitorInv /\ [PartsNext]_<<focus, kvParts, configParts, servingParts, operatorParts, upkeepParts>> => MonitorInv'
<1> SUFFICES ASSUME MonitorInv, [PartsNext]_<<focus, kvParts, configParts, servingParts, operatorParts, upkeepParts>>
             PROVE  MonitorInv'
    OBVIOUS
<1>1. OperatorNext \/ UNCHANGED operatorParts
    BY DEF PartsNext
<1>2. [MonitorNext]_monitorVars
    BY <1>1 DEF OperatorNext, operatorParts
<1> QED BY <1>2, MonitorInvStep

-----------------------------------------------------------------------------
(* From the node monitors to the operator.                                  *)

StageTables == [ViewNodes -> ViewServices \cup {""}]
Summaries ==
    [id : Nat, nodes : [ViewNodes -> [row : Nat, stale : BOOLEAN]], service : StageTables,
     resident : SUBSET ViewServices]
Fetches == [ViewNodes -> [ok : BOOLEAN, done : BOOLEAN, row : Nat]]
Streaks == [ViewNodes -> [observed : Nat, count : Nat]]
RoundShape ==
    /\ now \in Nat \ {0}
    /\ coordQ \in [resident : SUBSET ViewServices, stage : StageTables]
    /\ round \in [fetched : Fetches, since : Nat, status : [ok : BOOLEAN, stage : StageTables],
                  pc : {"fetch", "write"}, resident : SUBSET ViewServices]
    /\ copies \in [ViewNodes -> Nat]
ShownShape ==
    /\ summary \in Summaries
    /\ dash \in [read : Summaries, pc : {"idle", "count"}, streak : Streaks]
    /\ bad \in [ViewNodes -> Nat]

(* A round in progress is young, knows every service that was resident      *)
(* since it began and comes after the summary of the one before; the rows   *)
(* it has fetched were written while it ran.                                *)
RoundYoung ==
    /\ ~BrowserIdle => /\ round.since <= now /\ now <= round.since + RoundTime
                       /\ coordQ.resident \subseteq round.resident
                       /\ summary.id < now
    /\ \A n \in ViewNodes : round.fetched[n].ok =>
          round.fetched[n].done /\ round.since <= round.fetched[n].row /\ round.fetched[n].row <= now
    /\ \A n \in ViewNodes : copies[n] <= now

(* What a summary says of a node was so shortly before it was written. *)
RecentRows(s) ==
    \A n \in ViewNodes : s.nodes[n].row # 0 =>
        /\ s.nodes[n].row <= s.id
        /\ s.id <= s.nodes[n].row + (IF s.nodes[n].stale THEN StaleOk ELSE RoundTime)
SummariesInOrder ==
    /\ summary.id <= now /\ RecentRows(summary)
    /\ dash.pc = "count" => dash.read.id <= summary.id /\ RecentRows(dash.read)

(* The streak of a node is no longer than its bad summaries, those that are *)
(* still to be counted included.                                            *)
Uncounted(n, s) == HasError(s.nodes[n]) /\ dash.streak[n].observed # s.id
StreakCovered(n) ==
    /\ dash.streak[n].observed <= summary.id
    /\ dash.pc = "count" => dash.streak[n].observed <= dash.read.id
    /\ dash.streak[n].count <= bad[n]
    /\ Uncounted(n, summary) => dash.streak[n].count + 1 <= bad[n]
    /\ dash.pc = "count" /\ Uncounted(n, dash.read) =>
          /\ dash.streak[n].count + 1 <= bad[n]
          /\ HasError(summary.nodes[n]) /\ summary.id # dash.read.id => dash.streak[n].count + 2 <= bad[n]
StreaksCovered == \A n \in ViewNodes : StreakCovered(n)
ViewInv == RoundShape /\ ShownShape /\ RoundYoung /\ SummariesInOrder /\ StreaksCovered /\ ServiceShownServed

ViewStep == NodesNext \/ QueueNext

LEMMA ViewInitInv == ViewStart => ViewInv
<1> SUFFICES ASSUME ViewStart PROVE ViewInv
    OBVIOUS
<1>1. /\ now = 1 /\ round = [NoRound EXCEPT !.since = 1] /\ copies = [n \in ViewNodes |-> 0]
      /\ coordQ = [resident |-> ViewServices, stage |-> [n \in ViewNodes |-> CHOOSE s \in ViewServices : TRUE]]
      /\ summary = NoSummary /\ bad = [n \in ViewNodes |-> 0]
      /\ dash = [read |-> NoSummary, pc |-> "idle", streak |-> [n \in ViewNodes |-> [observed |-> 0, count |-> 0]]]
    BY DEF ViewStart
<1>2. RoundShape
    <2>1. (CHOOSE s \in ViewServices : TRUE) \in ViewServices
        BY ViewAssumption
    <2>2. coordQ \in [resident : SUBSET ViewServices, stage : StageTables]
        BY <1>1, <2>1 DEF StageTables
    <2>3. round.fetched = [n \in ViewNodes |-> Todo] /\ round.pc = "fetch" /\ round.since = 1
        BY <1>1 DEF NoRound
    <2>4. [n \in ViewNodes |-> Todo] \in Fetches
        BY DEF Todo, Fetches
    <2>5. [n \in ViewNodes |-> ""] \in StageTables
        BY DEF StageTables
    <2>6. round = [fetched |-> [n \in ViewNodes |-> Todo], since |-> 1,
                   status |-> [ok |-> FALSE, stage |-> [n \in ViewNodes |-> ""]], pc |-> "fetch", resident |-> {}]
        BY <1>1 DEF NoRound
    <2>7. round \in [fetched : Fetches, since : Nat, status : [ok : BOOLEAN, stage : StageTables],
                     pc : {"fetch", "write"}, resident : SUBSET ViewServices]
        BY <2>4, <2>5, <2>6
    <2> QED BY <1>1, <2>2, <2>7 DEF RoundShape
<1>3. NoSummary \in Summaries
    <2>1. [n \in ViewNodes |-> ""] \in StageTables
        BY DEF StageTables
    <2>2. [n \in ViewNodes |-> NoEntry] \in [ViewNodes -> [row : Nat, stale : BOOLEAN]]
        BY DEF NoEntry
    <2> QED BY <2>1, <2>2 DEF NoSummary, Summaries
<1>4. ShownShape
    <2>1. [n \in ViewNodes |-> [observed |-> 0, count |-> 0]] \in Streaks
        BY DEF Streaks
    <2>2. dash \in [read : Summaries, pc : {"idle", "count"}, streak : Streaks]
        BY <1>1, <1>3, <2>1
    <2> QED BY <1>1, <1>3, <2>2 DEF ShownShape
<1>5. RoundYoung
    <2>1. round.pc = "fetch" /\ \A n \in ViewNodes : round.fetched[n] = Todo
        BY <1>1 DEF NoRound
    <2>2. \A n \in ViewNodes : ~round.fetched[n].done /\ ~round.fetched[n].ok
        BY <2>1 DEF Todo
    <2>3. \A n \in ViewNodes : copies[n] <= now
        BY <1>1
    <2> QED BY <2>1, <2>2, <2>3 DEF RoundYoung, BrowserIdle
<1>6. NoSummary.id = 0 /\ \A n \in ViewNodes : NoSummary.nodes[n].row = 0 /\ NoSummary.service[n] = ""
    BY DEF NoSummary, NoEntry
<1>7. SummariesInOrder
    <2>1. dash.pc = "idle"
        BY <1>1
    <2>2. \A n \in ViewNodes : summary.nodes[n].row = 0
        BY <1>1, <1>6, Zenon
    <2>3. RecentRows(summary)
        <3> SUFFICES ASSUME NEW n \in ViewNodes, summary.nodes[n].row # 0 PROVE FALSE
            BY DEF RecentRows
        <3> QED BY <2>2
    <2>4. summary.id <= now
        <3>1. summary.id = 0 /\ now = 1
            BY <1>1, <1>6, Zenon
        <3> QED BY <3>1
    <2> QED BY <2>1, <2>3, <2>4 DEF SummariesInOrder
<1>8. StreaksCovered
    <2>1. dash.pc = "idle" /\ \A n \in ViewNodes : dash.streak[n].observed = 0 /\ dash.streak[n].count = 0 /\ bad[n] = 0
        BY <1>1
    <2>2. summary.id = 0
        BY <1>1, <1>6
    <2> QED BY <2>1, <2>2 DEF StreaksCovered, StreakCovered, Uncounted
<1>9. ServiceShownServed
    BY <1>1, <1>6 DEF ServiceShownServed
<1> QED BY <1>2, <1>4, <1>5, <1>7, <1>8, <1>9 DEF ViewInv

(* One action for both questions. *)
LEMMA ViewActions ==
    ASSUME ViewStep
    PROVE  \/ ViewTick \/ ReadSummary \/ Snapshot
           \/ \E n \in ViewNodes, s \in ViewServices : StageHeartbeat(n, s)
           \/ \E services \in SUBSET ViewServices : Relaunch(services)
           \/ \E n \in ViewNodes, ok \in BOOLEAN : FetchNode(n, ok)
           \/ \E ok \in BOOLEAN : ReadStatus(ok) \/ WriteCombined(ok)
BY DEF ViewStep, NodesNext, QueueNext

(* What WriteCombined writes. *)
LEMMA SummaryWritten ==
    ASSUME RoundShape, ShownShape, RoundYoung, NEW ok \in BOOLEAN, WriteCombined(ok)
    PROVE  /\ summary' \in Summaries /\ summary'.id = now /\ RecentRows(summary') /\ summary.id < now
           /\ \A n \in ViewNodes : summary'.service[n] \in summary'.resident \cup {""}
           /\ copies' \in [ViewNodes -> Nat] /\ \A n \in ViewNodes : copies'[n] <= now
           /\ bad' \in [ViewNodes -> Nat]
           /\ \A n \in ViewNodes : bad'[n] = IF HasError(summary'.nodes[n]) THEN bad[n] + 1 ELSE bad[n]
           /\ round' = NoRound /\ UNCHANGED <<now, coordQ, dash>>
<1> DEFINE nodes == [n \in ViewNodes |-> SummarizedNode(n)]
           services == [n \in ViewNodes |-> IF ok /\ round.status.ok THEN CurrentService(round.status.stage[n]) ELSE ""]
<1>1. summary' = [id |-> now, nodes |-> nodes, resident |-> round.resident, service |-> services]
    BY DEF WriteCombined
<1>2. ~BrowserIdle
    BY DEF WriteCombined, BrowserIdle
<1>3. ASSUME NEW n \in ViewNodes
      PROVE  /\ SummarizedNode(n) \in [row : Nat, stale : BOOLEAN]
             /\ SummarizedNode(n).row # 0 =>
                   /\ SummarizedNode(n).row <= now
                   /\ now <= SummarizedNode(n).row + (IF SummarizedNode(n).stale THEN StaleOk ELSE RoundTime)
    <2>1. /\ round.fetched[n] \in [ok : BOOLEAN, done : BOOLEAN, row : Nat]
          /\ copies[n] \in Nat /\ copies[n] <= now /\ now \in Nat /\ round.since \in Nat
          /\ StaleOk \in Nat /\ RoundTime \in Nat
        BY ViewAssumption DEF RoundShape, Fetches, RoundYoung
    <2>2. CASE round.fetched[n].ok
        <3>1. SummarizedNode(n) = [row |-> round.fetched[n].row, stale |-> FALSE]
            BY <2>2 DEF SummarizedNode
        <3>2. /\ round.since <= round.fetched[n].row /\ round.fetched[n].row <= now
              /\ now <= round.since + RoundTime
            BY <1>2, <2>2 DEF RoundYoung
        <3> DEFINE row == round.fetched[n].row
        <3>3. row \in Nat
            BY <2>1
        <3>4. now <= row + RoundTime /\ row <= now
            <4> HIDE DEF row
            <4>1. round.since <= row /\ row <= now
                BY <3>2 DEF row
            <4> QED BY <2>1, <3>2, <3>3, <4>1
        <3> QED BY <3>1, <3>3, <3>4
    <2>3. CASE ~round.fetched[n].ok
        <3>1. SummarizedNode(n) = [row |-> CachedRows(n), stale |-> CachedRows(n) # 0]
            BY <2>3 DEF SummarizedNode
        <3> DEFINE row == CachedRows(n)
        <3>2. row \in Nat /\ (row # 0 => row <= now /\ now <= row + StaleOk)
            BY <2>1 DEF CachedRows
        <3> HIDE DEF row
        <3>3. SummarizedNode(n) = [row |-> row, stale |-> row # 0]
            BY <3>1 DEF row
        <3>4. SummarizedNode(n) \in [row : Nat, stale : BOOLEAN] /\ SummarizedNode(n).row = row
            BY <3>2, <3>3
        <3>5. row # 0 => (IF SummarizedNode(n).stale THEN StaleOk ELSE RoundTime) = StaleOk
            <4> SUFFICES ASSUME row # 0 PROVE (IF SummarizedNode(n).stale THEN StaleOk ELSE RoundTime) = StaleOk
                OBVIOUS
            <4>1. (row # 0) = TRUE
                OBVIOUS
            <4>2. SummarizedNode(n) = [row |-> row, stale |-> TRUE]
                BY <3>3, <4>1, Zenon
            <4> QED BY <4>2
        <3> DEFINE late == IF SummarizedNode(n).stale THEN StaleOk ELSE RoundTime
        <3> HIDE DEF late
        <3>6. row # 0 => late = StaleOk
            BY <3>5 DEF late
        <3>7. row # 0 => row <= now /\ now <= row + late
            BY <3>2, <3>6
        <3> QED BY <3>4, <3>7 DEF late
    <2> QED BY <2>2, <2>3
<1>4. nodes \in [ViewNodes -> [row : Nat, stale : BOOLEAN]] /\ \A n \in ViewNodes : nodes[n] = SummarizedNode(n)
    BY <1>3
<1>5. \A n \in ViewNodes : services[n] \in coordQ.resident \cup {""}
    BY DEF CurrentService
<1>6. coordQ.resident \subseteq round.resident /\ round.resident \subseteq ViewServices /\ summary.id < now
    BY <1>2 DEF RoundYoung, RoundShape
<1>7. services \in StageTables /\ \A n \in ViewNodes : services[n] \in round.resident \cup {""}
    BY <1>5, <1>6 DEF StageTables
<1> HIDE DEF nodes, services
<1>8. /\ summary' \in Summaries /\ summary'.id = now /\ summary'.nodes = nodes
      /\ summary'.service = services /\ summary'.resident = round.resident
    BY <1>1, <1>4, <1>6, <1>7 DEF Summaries, RoundShape
<1>9. RecentRows(summary')
    BY <1>3, <1>4, <1>8 DEF RecentRows
<1>10. copies' \in [ViewNodes -> Nat] /\ \A n \in ViewNodes : copies'[n] <= now
    <2>1. copies' = [n \in ViewNodes |-> IF round.fetched[n].ok THEN round.fetched[n].row ELSE copies[n]]
        BY DEF WriteCombined
    <2>2. \A n \in ViewNodes : round.fetched[n].row \in Nat /\ copies[n] \in Nat /\ copies[n] <= now
        BY DEF RoundShape, Fetches, RoundYoung
    <2>3. \A n \in ViewNodes : round.fetched[n].ok => round.fetched[n].row <= now
        BY DEF RoundYoung
    <2> QED BY <2>1, <2>2, <2>3
<1>11. /\ bad' \in [ViewNodes -> Nat]
       /\ \A n \in ViewNodes : bad'[n] = IF HasError(summary'.nodes[n]) THEN bad[n] + 1 ELSE bad[n]
    <2>1. bad' = [n \in ViewNodes |-> IF HasError(nodes[n]) THEN bad[n] + 1 ELSE bad[n]]
        BY DEF WriteCombined, nodes
    <2> QED BY <1>8, <2>1 DEF ShownShape
<1>12. round' = NoRound /\ UNCHANGED <<now, coordQ, dash>>
    BY DEF WriteCombined
<1> QED BY <1>6, <1>7, <1>8, <1>9, <1>10, <1>11, <1>12

(* The shape of the tables is kept. *)
LEMMA ViewShapes ==
    ASSUME ViewInv, ViewStep
    PROVE  RoundShape' /\ ShownShape'
<1> USE DEF ViewInv
<1>1. ASSUME NEW ok \in BOOLEAN, WriteCombined(ok) PROVE RoundShape' /\ ShownShape'
    <2>1. /\ summary' \in Summaries /\ copies' \in [ViewNodes -> Nat] /\ bad' \in [ViewNodes -> Nat]
          /\ round' = NoRound /\ UNCHANGED <<now, coordQ, dash>>
        BY <1>1, SummaryWritten
    <2>2. NoRound \in [fetched : Fetches, since : Nat, status : [ok : BOOLEAN, stage : StageTables],
                       pc : {"fetch", "write"}, resident : SUBSET ViewServices]
        <3>1. [n \in ViewNodes |-> Todo] \in Fetches /\ [n \in ViewNodes |-> ""] \in StageTables
            BY DEF Todo, Fetches, StageTables
        <3> QED BY <3>1 DEF NoRound
    <2> QED BY <2>1, <2>2 DEF RoundShape, ShownShape
<1>2. CASE ViewTick
    <2>1. now' \in Nat \ {0}
        BY <1>2 DEF ViewTick, RoundShape
    <2> QED BY <1>2, <2>1 DEF ViewTick, RoundShape, ShownShape
<1>3. CASE ReadSummary
    BY <1>3 DEF ReadSummary, RoundShape, ShownShape
<1>4. CASE Snapshot
    <2>1. \A n \in ViewNodes : ErrorStreak(n) \in [observed : Nat, count : Nat]
        <3> SUFFICES ASSUME NEW n \in ViewNodes PROVE ErrorStreak(n) \in [observed : Nat, count : Nat]
            OBVIOUS
        <3>1. dash.streak[n] \in [observed : Nat, count : Nat] /\ dash.read.id \in Nat
            BY DEF ShownShape, Streaks, Summaries
        <3> QED BY <3>1 DEF ErrorStreak
    <2>2. [n \in ViewNodes |-> ErrorStreak(n)] \in Streaks
        BY <2>1 DEF Streaks
    <2>3. NoSummary \in Summaries
        <3>1. [n \in ViewNodes |-> ""] \in StageTables
            BY DEF StageTables
        <3>2. [n \in ViewNodes |-> NoEntry] \in [ViewNodes -> [row : Nat, stale : BOOLEAN]]
            BY DEF NoEntry
        <3> QED BY <3>1, <3>2 DEF NoSummary, Summaries
    <2>4. dash' \in [read : Summaries, pc : {"idle", "count"}, streak : Streaks]
        BY <1>4, <2>2, <2>3 DEF Snapshot
    <2>5. bad' \in [ViewNodes -> Nat]
        BY <1>4 DEF Snapshot, ShownShape
    <2> QED BY <1>4, <2>4, <2>5 DEF Snapshot, RoundShape, ShownShape
<1>5. ASSUME NEW n \in ViewNodes, NEW s \in ViewServices, StageHeartbeat(n, s)
      PROVE  RoundShape' /\ ShownShape'
    <2>1. coordQ' \in [resident : SUBSET ViewServices, stage : StageTables]
        BY <1>5 DEF StageHeartbeat, RoundShape, StageTables
    <2> QED BY <1>5, <2>1 DEF StageHeartbeat, RoundShape, ShownShape
<1>6. ASSUME NEW services \in SUBSET ViewServices, Relaunch(services) PROVE RoundShape' /\ ShownShape'
    <2>1. coordQ' \in [resident : SUBSET ViewServices, stage : StageTables]
        BY <1>6 DEF Relaunch, RoundShape
    <2>2. round' \in [fetched : Fetches, since : Nat, status : [ok : BOOLEAN, stage : StageTables],
                      pc : {"fetch", "write"}, resident : SUBSET ViewServices]
        BY <1>6 DEF Relaunch, RoundShape
    <2> QED BY <1>6, <2>1, <2>2 DEF Relaunch, RoundShape, ShownShape
<1>7. ASSUME NEW n \in ViewNodes, NEW ok \in BOOLEAN, FetchNode(n, ok) PROVE RoundShape' /\ ShownShape'
    <2>1. round' \in [fetched : Fetches, since : Nat, status : [ok : BOOLEAN, stage : StageTables],
                      pc : {"fetch", "write"}, resident : SUBSET ViewServices]
        <3> DEFINE fetch == [ok |-> ok, done |-> TRUE, row |-> IF ok THEN now ELSE 0]
                   since == IF BrowserIdle THEN now ELSE round.since
                   services == IF BrowserIdle THEN coordQ.resident ELSE round.resident
        <3>1. fetch \in [ok : BOOLEAN, done : BOOLEAN, row : Nat] /\ since \in Nat /\ services \in SUBSET ViewServices
            BY DEF RoundShape
        <3>2. round' = [round EXCEPT !.fetched[n] = fetch, !.since = since, !.resident = services]
            BY <1>7 DEF FetchNode
        <3> HIDE DEF fetch, since, services
        <3>3. [round.fetched EXCEPT ![n] = fetch] \in Fetches
            BY <3>1 DEF Fetches, RoundShape
        <3> QED BY <3>1, <3>2, <3>3 DEF RoundShape
    <2> QED BY <1>7, <2>1 DEF FetchNode, RoundShape, ShownShape
<1>8. ASSUME NEW ok \in BOOLEAN, ReadStatus(ok) PROVE RoundShape' /\ ShownShape'
    BY <1>8 DEF ReadStatus, RoundShape, ShownShape
<1> QED BY <1>1, <1>2, <1>3, <1>4, <1>5, <1>6, <1>7, <1>8, ViewActions

LEMMA ViewRounds ==
    ASSUME ViewInv, ViewStep
    PROVE  RoundYoung'
<1> USE DEF ViewInv
<1>0. now \in Nat /\ round.since \in Nat /\ RoundTime \in Nat /\ \A n \in ViewNodes : copies[n] \in Nat
    BY ViewAssumption DEF RoundShape
<1>1. ASSUME NEW ok \in BOOLEAN, WriteCombined(ok) PROVE RoundYoung'
    <2>1. round' = NoRound /\ now' = now /\ \A n \in ViewNodes : copies'[n] <= now
        BY <1>1, SummaryWritten
    <2>2. round'.pc = "fetch" /\ \A n \in ViewNodes : ~round'.fetched[n].done /\ ~round'.fetched[n].ok
        BY <2>1 DEF NoRound, Todo
    <2> QED BY <2>1, <2>2 DEF RoundYoung, BrowserIdle
<1>2. CASE ViewTick
    <2>1. /\ now' = now + 1 /\ UNCHANGED <<coordQ, round, copies, summary>>
          /\ ~BrowserIdle => now - round.since < RoundTime
        BY <1>2 DEF ViewTick
    <2>2. ~BrowserIdle => now' <= round.since + RoundTime /\ round.since <= now' /\ summary.id < now'
        BY <1>0, <2>1 DEF RoundYoung, ShownShape, Summaries
    <2>3. \A n \in ViewNodes : copies[n] <= now' /\ (round.fetched[n].row <= now => round.fetched[n].row <= now')
        BY <1>0, <2>1 DEF RoundYoung, RoundShape, Fetches
    <2> QED BY <2>1, <2>2, <2>3 DEF RoundYoung, BrowserIdle
<1>3. CASE ReadSummary \/ Snapshot
    BY <1>3 DEF ReadSummary, Snapshot, RoundYoung, BrowserIdle
<1>4. ASSUME NEW n \in ViewNodes, NEW s \in ViewServices, StageHeartbeat(n, s) PROVE RoundYoung'
    <2>1. coordQ'.resident = coordQ.resident
        BY <1>4 DEF StageHeartbeat, RoundShape
    <2> QED BY <1>4, <2>1 DEF StageHeartbeat, RoundYoung, BrowserIdle
<1>5. ASSUME NEW services \in SUBSET ViewServices, Relaunch(services) PROVE RoundYoung'
    <2>1. /\ coordQ'.resident = services /\ round'.resident = round.resident \cup services
          /\ round'.since = round.since /\ round'.fetched = round.fetched /\ round'.pc = round.pc
        BY <1>5 DEF Relaunch, RoundShape
    <2> QED BY <1>5, <2>1 DEF Relaunch, RoundYoung, BrowserIdle
<1>6. ASSUME NEW n \in ViewNodes, NEW ok \in BOOLEAN, FetchNode(n, ok) PROVE RoundYoung'
    <2>1. /\ round'.fetched[n] = [ok |-> ok, done |-> TRUE, row |-> IF ok THEN now ELSE 0]
          /\ \A m \in ViewNodes : m # n => round'.fetched[m] = round.fetched[m]
          /\ round'.since = IF BrowserIdle THEN now ELSE round.since
          /\ round'.resident = IF BrowserIdle THEN coordQ.resident ELSE round.resident
        BY <1>6 DEF FetchNode, RoundShape, Fetches
    <2>2. UNCHANGED <<now, coordQ, copies, summary>> /\ summary.id < now
        BY <1>6 DEF FetchNode
    <2>3. /\ round'.since <= now /\ now <= round'.since + RoundTime
          /\ coordQ.resident \subseteq round'.resident
        BY <1>0, <2>1 DEF RoundYoung
    <2>4. ASSUME NEW m \in ViewNodes, round'.fetched[m].ok
          PROVE  round'.fetched[m].done /\ round'.since <= round'.fetched[m].row /\ round'.fetched[m].row <= now
        <3>1. CASE m = n
            <4>1. round'.fetched[n].done /\ round'.fetched[n].row = now
                BY <2>1, <2>4, <3>1
            <4> QED BY <1>0, <2>3, <3>1, <4>1
        <3>2. CASE m # n
            <4>1. round'.fetched[m] = round.fetched[m]
                BY <2>1, <3>2
            <4>2. round.fetched[m].done /\ ~BrowserIdle
                BY <2>4, <4>1 DEF RoundYoung, BrowserIdle
            <4> QED BY <2>1, <2>4, <4>1, <4>2 DEF RoundYoung
        <3> QED BY <3>1, <3>2
    <2> QED BY <2>2, <2>3, <2>4 DEF RoundYoung
<1>7. ASSUME NEW ok \in BOOLEAN, ReadStatus(ok) PROVE RoundYoung'
    <2>1. /\ round'.fetched = round.fetched /\ round'.since = round.since /\ round'.resident = round.resident
          /\ UNCHANGED <<now, coordQ, copies, summary>>
        BY <1>7 DEF ReadStatus, RoundShape
    <2>2. ~BrowserIdle
        BY <1>7, ViewAssumption DEF ReadStatus, BrowserIdle
    <2> QED BY <2>1, <2>2 DEF RoundYoung
<1> QED BY <1>1, <1>2, <1>3, <1>4, <1>5, <1>6, <1>7, ViewActions

(* Summaries in the order of their ids. *)
LEMMA ViewSummaries ==
    ASSUME ViewInv, ViewStep
    PROVE  SummariesInOrder'
<1> USE DEF ViewInv
<1>0. now \in Nat /\ summary.id \in Nat /\ dash.read.id \in Nat
    BY DEF RoundShape, ShownShape, Summaries
<1>1. ASSUME NEW ok \in BOOLEAN, WriteCombined(ok) PROVE SummariesInOrder'
    <2>1. /\ summary'.id = now /\ RecentRows(summary') /\ summary.id < now
          /\ now' = now /\ dash' = dash
        BY <1>1, SummaryWritten
    <2>2. summary'.id <= now' /\ (dash.pc = "count" => dash.read.id <= summary'.id)
        BY <1>0, <2>1 DEF SummariesInOrder
    <2>3. dash'.pc = "count" => RecentRows(dash'.read)
        BY <2>1 DEF SummariesInOrder
    <2> QED BY <2>1, <2>2, <2>3 DEF SummariesInOrder
<1>2. CASE ViewTick
    <2>1. now' = now + 1 /\ UNCHANGED <<summary, dash>>
        BY <1>2 DEF ViewTick
    <2>2. summary.id <= now'
        BY <1>0, <2>1 DEF SummariesInOrder
    <2> QED BY <2>1, <2>2 DEF SummariesInOrder, RecentRows
<1>3. CASE ReadSummary
    <2>1. dash'.read = summary /\ UNCHANGED <<now, summary>>
        BY <1>3 DEF ReadSummary, ShownShape
    <2>2. RecentRows(summary)' /\ RecentRows(dash'.read)
        BY <2>1 DEF SummariesInOrder, RecentRows
    <2>3. dash'.read.id <= summary'.id /\ summary'.id <= now'
        BY <1>0, <2>1 DEF SummariesInOrder
    <2> QED BY <2>1, <2>2, <2>3 DEF SummariesInOrder
<1>4. CASE Snapshot
    <2>1. dash'.pc = "idle" /\ UNCHANGED <<now, summary>>
        BY <1>4 DEF Snapshot
    <2> QED BY <2>1 DEF SummariesInOrder, RecentRows
<1>5. CASE UNCHANGED <<now, summary, dash>>
    BY <1>5 DEF SummariesInOrder, RecentRows
<1>6. \/ ViewTick \/ ReadSummary \/ Snapshot \/ UNCHANGED <<now, summary, dash>>
      \/ \E ok \in BOOLEAN : WriteCombined(ok)
    BY ViewActions DEF StageHeartbeat, Relaunch, FetchNode, ReadStatus
<1> QED BY <1>1, <1>2, <1>3, <1>4, <1>5, <1>6

(* An error is counted once, whenever the page is drawn. *)
LEMMA ViewStreaks ==
    ASSUME ViewInv, ViewStep, NEW n \in ViewNodes
    PROVE  StreakCovered(n)'
<1> USE DEF ViewInv
<1>0. /\ now \in Nat /\ summary.id \in Nat /\ dash.read.id \in Nat /\ bad[n] \in Nat
      /\ dash.streak[n] \in [observed : Nat, count : Nat]
      /\ dash.streak[n].observed \in Nat /\ dash.streak[n].count \in Nat
    BY DEF RoundShape, ShownShape, Summaries, Streaks
<1>00. StreakCovered(n)
    BY DEF StreaksCovered
<1>1. ASSUME NEW ok \in BOOLEAN, WriteCombined(ok) PROVE StreakCovered(n)'
    <2>1. /\ summary'.id = now /\ summary.id < now /\ dash' = dash
          /\ bad'[n] = IF HasError(summary'.nodes[n]) THEN bad[n] + 1 ELSE bad[n]
        BY <1>1, SummaryWritten
    <2>2. dash.streak[n].observed <= summary'.id /\ dash.streak[n].count <= bad'[n] /\ bad[n] <= bad'[n]
        BY <1>0, <1>00, <2>1 DEF StreakCovered
    <2>3. HasError(summary'.nodes[n]) => bad'[n] = bad[n] + 1
        BY <2>1
    <2>4. ASSUME dash.pc = "count", Uncounted(n, dash.read) PROVE dash.streak[n].count + 1 <= bad[n]
        BY <1>00, <2>4 DEF StreakCovered
    <2>5. ASSUME HasError(summary'.nodes[n]) PROVE dash.streak[n].count + 1 <= bad'[n]
        BY <1>0, <1>00, <2>3, <2>5 DEF StreakCovered
    <2>6. ASSUME dash.pc = "count", Uncounted(n, dash.read)
          PROVE  /\ dash.streak[n].count + 1 <= bad'[n]
                 /\ HasError(summary'.nodes[n]) => dash.streak[n].count + 2 <= bad'[n]
        <3>1. bad'[n] \in Nat
            BY <1>0, <2>1
        <3> QED BY <1>0, <2>2, <2>3, <2>4, <2>6, <3>1
    <2>7. dash.pc = "count" => dash.streak[n].observed <= dash.read.id
        BY <1>00 DEF StreakCovered
    <2> QED BY <2>1, <2>2, <2>5, <2>6, <2>7 DEF StreakCovered, Uncounted
<1>2. CASE ReadSummary
    <2>1. /\ dash' = [dash EXCEPT !.pc = "count", !.read = summary] /\ UNCHANGED <<summary, bad>>
          /\ dash'.read = summary /\ dash'.streak = dash.streak
        BY <1>2 DEF ReadSummary, ShownShape
    <2> QED BY <1>00, <2>1 DEF StreakCovered, Uncounted
<1>3. CASE Snapshot
    <2>1. /\ dash'.pc = "idle" /\ dash'.streak[n] = ErrorStreak(n) /\ summary' = summary /\ dash.pc = "count"
          /\ bad'[n] = IF HasError(dash.read.nodes[n]) THEN bad[n]
                       ELSE IF HasError(summary.nodes[n]) /\ summary # dash.read THEN 1 ELSE 0
        BY <1>3 DEF Snapshot
    <2>2. CASE ~HasError(dash.read.nodes[n])
        <3>1. dash'.streak[n].observed = 0 /\ dash'.streak[n].count = 0
            BY <2>1, <2>2 DEF ErrorStreak
        <3>2. HasError(summary.nodes[n]) => bad'[n] = 1
            <4>1. HasError(summary.nodes[n]) => summary # dash.read
                BY <2>2
            <4> QED BY <2>1, <2>2, <4>1
        <3>3. bad'[n] \in Nat
            BY <2>1, <2>2
        <3>4. 0 <= summary.id /\ 0 <= bad'[n] /\ (HasError(summary.nodes[n]) => 0 + 1 <= bad'[n])
            BY <1>0, <3>2, <3>3
        <3> QED BY <2>1, <3>1, <3>4 DEF StreakCovered, Uncounted
    <2>3. CASE HasError(dash.read.nodes[n]) /\ dash.streak[n].observed = dash.read.id
        <3>1. dash'.streak[n] = dash.streak[n] /\ bad'[n] = bad[n]
            BY <2>1, <2>3 DEF ErrorStreak
        <3> QED BY <1>00, <2>1, <3>1 DEF StreakCovered, Uncounted
    <2>4. CASE HasError(dash.read.nodes[n]) /\ dash.streak[n].observed # dash.read.id
        <3>1. /\ dash'.streak[n].observed = dash.read.id /\ dash'.streak[n].count = dash.streak[n].count + 1
              /\ bad'[n] = bad[n]
            BY <2>1, <2>4 DEF ErrorStreak
        <3>2. /\ dash.streak[n].count + 1 <= bad[n]
              /\ HasError(summary.nodes[n]) /\ summary.id # dash.read.id => dash.streak[n].count + 2 <= bad[n]
            BY <1>00, <2>1, <2>4 DEF StreakCovered, Uncounted
        <3>3. dash.read.id <= summary.id
            BY <2>1 DEF SummariesInOrder
        <3>4. HasError(summary.nodes[n]) /\ dash'.streak[n].observed # summary.id => dash'.streak[n].count + 1 <= bad'[n]
            <4>1. ASSUME HasError(summary.nodes[n]), dash.read.id # summary.id
                  PROVE  (dash.streak[n].count + 1) + 1 <= bad[n]
                BY <1>0, <3>2, <4>1
            <4> QED BY <3>1, <4>1
        <3> QED BY <2>1, <3>1, <3>2, <3>3, <3>4 DEF StreakCovered, Uncounted
    <2> QED BY <2>2, <2>3, <2>4
<1>4. CASE UNCHANGED <<summary, dash, bad>>
    BY <1>00, <1>4 DEF StreakCovered, Uncounted
<1>5. \/ ReadSummary \/ Snapshot \/ UNCHANGED <<summary, dash, bad>>
      \/ \E ok \in BOOLEAN : WriteCombined(ok)
    BY ViewActions DEF ViewTick, StageHeartbeat, Relaunch, FetchNode, ReadStatus
<1> QED BY <1>1, <1>2, <1>3, <1>4, <1>5

LEMMA ViewInvStep == ViewInv /\ (ViewStep \/ UNCHANGED viewVars) => ViewInv'
<1>1. ASSUME ViewInv, UNCHANGED viewVars PROVE ViewInv'
    BY <1>1 DEF viewVars, ViewInv, RoundShape, ShownShape, RoundYoung, BrowserIdle, SummariesInOrder, RecentRows,
       StreaksCovered, StreakCovered, Uncounted, ServiceShownServed
<1>2. ASSUME ViewInv, ViewStep PROVE ViewInv'
    <2>1. ServiceShownServed'
        <3>1. ASSUME NEW ok \in BOOLEAN, WriteCombined(ok) PROVE ServiceShownServed'
            <4>1. \A n \in ViewNodes : summary'.service[n] \in summary'.resident \cup {""}
                BY <1>2, <3>1, SummaryWritten DEF ViewInv
            <4> QED BY <4>1 DEF ServiceShownServed
        <3>2. CASE summary' = summary
            BY <1>2, <3>2 DEF ViewInv, ServiceShownServed
        <3>3. summary' = summary \/ \E ok \in BOOLEAN : WriteCombined(ok)
            BY <1>2, ViewActions
               DEF ViewTick, ReadSummary, Snapshot, StageHeartbeat, Relaunch, FetchNode, ReadStatus
        <3> QED BY <3>1, <3>2, <3>3
    <2>2. RoundShape' /\ ShownShape' /\ RoundYoung' /\ SummariesInOrder'
        BY <1>2, ViewShapes, ViewRounds, ViewSummaries
    <2>3. StreaksCovered'
        BY <1>2, ViewStreaks DEF StreaksCovered
    <2> QED BY <2>1, <2>2, <2>3 DEF ViewInv
<1> QED BY <1>1, <1>2

(* The sum in the order of CHOOSE is a sum in any order. *)
LEMMA LayersAreTotal ==
    ASSUME NEW of, \A n \in ViewNodes : of[n] \in Nat
    PROVE  TotalLayers(of) = SumOver(of, ViewNodes) /\ SumOver(of, ViewNodes) \in Nat
<1> DEFINE Sums(iter) == iter = [s \in SUBSET ViewNodes |->
                                   IF s = {} THEN 0
                                   ELSE of[CHOOSE x \in s : TRUE] + iter[s \ {CHOOSE x \in s : TRUE}]]
           g == CHOOSE iter : Sums(iter)
<1>1. TotalLayers(of) = g[ViewNodes]
    BY DEF TotalLayers, MapThenSumSet, MapThenFoldSet
<1>2. \A h : SumsUp(h, of, ViewNodes) <=> Sums(h)
    BY DEF SumsUp, Pick
<1>3. IsFiniteSet(ViewNodes)
    BY ViewAssumption
<1> HIDE DEF Sums
<1>4. PICK h : SumsUp(h, of, ViewNodes)
    BY <1>3, SumsUpExists
<1>5. SumsUp(g, of, ViewNodes)
    BY <1>2, <1>4
<1> HIDE DEF g
<1> QED BY <1>1, <1>3, <1>5, SumOverType

LEMMA ViewDown == ViewInv => DownMeansSilent
<1> SUFFICES ASSUME ViewInv, dash.pc = "count", NEW n \in ViewNodes, NodeState(n) = "down"
             PROVE  bad[n] >= DownThreshold
    BY DEF DownMeansSilent
<1> USE DEF ViewInv
<1>1. HasError(dash.read.nodes[n]) /\ ErrorStreak(n).count >= DownThreshold
    BY DEF NodeState
<1>2. /\ bad[n] \in Nat /\ dash.streak[n].count \in Nat /\ DownThreshold \in Nat
      /\ dash.streak[n] \in [observed : Nat, count : Nat]
    BY ViewAssumption DEF ShownShape, Streaks
<1>3. StreakCovered(n)
    BY DEF StreaksCovered
<1>4. CASE dash.streak[n].observed = dash.read.id
    <2>1. ErrorStreak(n).count = dash.streak[n].count
        BY <1>1, <1>4 DEF ErrorStreak
    <2>2. dash.streak[n].count <= bad[n]
        BY <1>3 DEF StreakCovered
    <2> QED BY <1>1, <1>2, <2>1, <2>2
<1>5. CASE dash.streak[n].observed # dash.read.id
    <2>1. ErrorStreak(n).count = dash.streak[n].count + 1
        BY <1>1, <1>5 DEF ErrorStreak
    <2>2. dash.streak[n].count + 1 <= bad[n]
        BY <1>1, <1>3, <1>5 DEF StreakCovered, Uncounted
    <2> QED BY <1>1, <1>2, <2>1, <2>2
<1> QED BY <1>4, <1>5

LEMMA ViewRecent == ViewInv => ShownRecent
<1> SUFFICES ASSUME ViewInv, dash.pc = "count", NEW n \in ViewNodes
             PROVE  /\ NodeState(n) = "live" => now - dash.read.nodes[n].row <= SummaryStale + RoundTime
                    /\ NodeState(n) = "stale" /\ ~OldSummary => now - dash.read.nodes[n].row <= StaleOk + SummaryStale
    BY DEF ShownRecent
<1> DEFINE row == dash.read.nodes[n].row
           id == dash.read.id
<1>1. /\ now \in Nat /\ id \in Nat /\ row \in Nat
      /\ StaleOk \in Nat /\ SummaryStale \in Nat /\ RoundTime \in Nat
    BY ViewAssumption DEF ViewInv, RoundShape, ShownShape, Summaries
<1>2. row # 0 => row <= id /\ id <= row + (IF dash.read.nodes[n].stale THEN StaleOk ELSE RoundTime)
    BY DEF ViewInv, SummariesInOrder, RecentRows
<1>3. OldSummary <=> now - id > SummaryStale
    BY DEF OldSummary
<1>4. HasError(dash.read.nodes[n]) <=> row = 0
    BY DEF HasError
<1>5. ASSUME NodeState(n) = "live" PROVE ~OldSummary /\ row # 0 /\ ~dash.read.nodes[n].stale
    BY <1>4, <1>5 DEF NodeState
<1>6. ASSUME NodeState(n) = "stale", ~OldSummary PROVE row # 0 /\ dash.read.nodes[n].stale
    BY <1>4, <1>6 DEF NodeState
<1> HIDE DEF row, id
<1>7. ASSUME NodeState(n) = "live" PROVE now - row <= SummaryStale + RoundTime
    <2>1. id <= row + RoundTime
        BY <1>2, <1>5, <1>7
    <2>2. now - id <= SummaryStale
        BY <1>1, <1>3, <1>5, <1>7
    <2> QED BY <1>1, <2>1, <2>2
<1>8. ASSUME NodeState(n) = "stale", ~OldSummary PROVE now - row <= StaleOk + SummaryStale
    <2>1. id <= row + StaleOk
        BY <1>2, <1>6, <1>8
    <2>2. now - id <= SummaryStale
        BY <1>1, <1>3, <1>8
    <2> QED BY <1>1, <2>1, <2>2
<1> QED BY <1>7, <1>8 DEF row

LEMMA ViewShares == ViewInv => SharesAddUp
<1> DEFINE shares == [n \in ViewNodes |-> LayerShare(n)]
           none == [n \in ViewNodes |-> 0]
<1>0. IsFiniteSet(ViewNodes) /\ HeadNode \in ViewNodes
    BY ViewAssumption
<1>1. \A n \in ViewNodes : LayersOf[n] \in Nat /\ shares[n] \in Nat /\ shares[n] <= LayersOf[n]
    <2>1. \A n \in ViewNodes : LayersOf[n] \in Nat
        BY ViewAssumption
    <2> QED BY <2>1 DEF LayerShare
<1>2. ASSUME \A n \in ViewNodes : NodeState(n) = "live" PROVE \A n \in ViewNodes : shares[n] = LayersOf[n]
    <2>1. \A n \in ViewNodes : ~HasError(dash.read.nodes[n])
        BY <1>2 DEF NodeState
    <2> QED BY <1>0, <2>1 DEF LayerShare
<1>3. ASSUME HasError(dash.read.nodes[HeadNode]) PROVE \A n \in ViewNodes : shares[n] = none[n]
    BY <1>3 DEF LayerShare
<1>4. SumOver(none, ViewNodes) = 0
    <2> DEFINE zero == [s \in SUBSET ViewNodes |-> 0]
    <2>1. SumsUp(zero, none, ViewNodes)
        <3>1. ASSUME NEW s \in SUBSET ViewNodes
              PROVE  zero[s] = IF s = {} THEN 0 ELSE none[Pick(s)] + zero[s \ {Pick(s)}]
            <4>1. s # {} => Pick(s) \in s
                BY PickIn
            <4> QED BY <4>1
        <3> QED BY <3>1 DEF SumsUp
    <2>2. zero[ViewNodes] = 0 /\ \A n \in ViewNodes : none[n] \in Nat
        OBVIOUS
    <2> HIDE DEF zero, none
    <2> QED BY <1>0, <2>1, <2>2, SumOverType
<1>5. /\ TotalLayers(LayersOf) = SumOver(LayersOf, ViewNodes) /\ SumOver(LayersOf, ViewNodes) \in Nat
      /\ TotalLayers(shares) = SumOver(shares, ViewNodes) /\ SumOver(shares, ViewNodes) \in Nat
    <2> HIDE DEF shares
    <2> QED BY <1>1, LayersAreTotal
<1>6. SumOver(shares, ViewNodes) <= SumOver(LayersOf, ViewNodes)
    <2> HIDE DEF shares
    <2> QED BY <1>0, <1>1, SumOverMonotone
<1>7. ASSUME \A n \in ViewNodes : shares[n] = LayersOf[n]
      PROVE  SumOver(LayersOf, ViewNodes) <= SumOver(shares, ViewNodes)
    <2> HIDE DEF shares
    <2>1. \A n \in ViewNodes : LayersOf[n] <= shares[n]
        BY <1>1, <1>7
    <2> QED BY <1>0, <1>1, <2>1, SumOverMonotone
<1>8. ASSUME \A n \in ViewNodes : shares[n] = none[n] PROVE SumOver(shares, ViewNodes) <= 0
    <2>1. \A n \in ViewNodes : none[n] \in Nat /\ shares[n] \in Nat /\ shares[n] <= none[n]
        BY <1>1, <1>8
    <2> HIDE DEF shares, none
    <2>2. SumOver(shares, ViewNodes) <= SumOver(none, ViewNodes)
        BY <1>0, <2>1, SumOverMonotone
    <2> QED BY <1>4, <2>2
<1> DEFINE all == SumOver(LayersOf, ViewNodes)
           some == SumOver(shares, ViewNodes)
<1>9. /\ TotalLayers(LayersOf) = all /\ TotalLayers(shares) = some
      /\ all \in Nat /\ some \in Nat /\ some <= all
      /\ (\A n \in ViewNodes : NodeState(n) = "live") => all <= some
      /\ HasError(dash.read.nodes[HeadNode]) => some <= 0
    BY <1>2, <1>3, <1>5, <1>6, <1>7, <1>8
<1> HIDE DEF all, some
<1>10. some <= all /\ ((\A n \in ViewNodes : NodeState(n) = "live") => some = all)
    BY <1>9
<1>11. HasError(dash.read.nodes[HeadNode]) => some = 0
    BY <1>9
<1> QED BY <1>9, <1>10, <1>11 DEF SharesAddUp

LEMMA PartsViewStep ==
    ViewInv /\ [PartsNext]_<<focus, kvParts, configParts, servingParts, operatorParts, upkeepParts>> => ViewInv'
<1> SUFFICES ASSUME ViewInv, [PartsNext]_<<focus, kvParts, configParts, servingParts, operatorParts, upkeepParts>>
             PROVE  ViewInv'
    OBVIOUS
<1>1. OperatorNext \/ UNCHANGED operatorParts
    BY DEF PartsNext
<1>2. ViewStep \/ UNCHANGED viewVars
    BY <1>1 DEF OperatorNext, operatorParts, ViewStep
<1> QED BY <1>2, ViewInvStep

(* What an operator sees is what the nodes wrote.  The rates of a node stand *)
(* for tokens its engines made, and every row of its file is under the       *)
(* header it was written for, however engines and monitor stop, restart and  *)
(* are upgraded (read_vllm_metrics, build_rows, csv_needs_header).  A node   *)
(* is called down only after DownThreshold summaries without it, what is     *)
(* shown as live or stale was so lately, services shown were resident and    *)
(* the shares of a model's rate add up to it, for any nodes, limits and      *)
(* order of fetches, summaries and pages (collect_once, build_snapshot).     *)
THEOREM TelemetryIsHonest == PartsSpec => []TelemetryHonest
<1>1. PartsInit => MonitorInv /\ ViewInv
    BY MonitorInitInv, ViewInitInv DEF PartsInit, OperatorInit
<1>2. MonitorInv => RatesNeverOver /\ RowsUnderHeader
    BY DEF MonitorInv
<1>3. ViewInv => ServiceShownServed
    BY DEF ViewInv
<1>4. MonitorInv /\ ViewInv => TelemetryHonest
    BY <1>2, <1>3, ViewDown, ViewRecent, ViewShares DEF TelemetryHonest
<1> QED BY <1>1, <1>4, PartsMonitorStep, PartsViewStep, PTL DEF PartsSpec

-----------------------------------------------------------------------------
(* Uplink.                                                                  *)

UplinkInit ==
    \E n \in [Links -> {"ok", "dead", "gone"}], profiles \in SUBSET WifiProfiles : UplinkStart(n, profiles)
UplinkSpec == UplinkInit /\ [][UplinkNext]_uplinkVars

(* The kernel keeps no route through a wired link without a carrier. *)
NoRouteWithoutLink == net["wired"] = "gone" => ~wiredRoute /\ ~probeRoute

(* What a run that nothing disturbs has found out at each of its steps. *)
AsusOffered == "asus" \in saved /\ net["asus"] = "ok" /\ run.due
RunKnows ==
    /\ run.step \in {"wiredOk", "standby"} => net["wired"] = "ok"
    /\ run.step \notin {"idle", "carrier", "wired", "wiredOk", "standby"} => net["wired"] # "ok"
    /\ run.step \notin {"idle", "carrier", "wired"} => ~probeRoute
    /\ run.step = "standby" => wiredRoute
    /\ run.step \in {"asusUp", "asusProbe", "tplinkUp", "tplinkProbe"} => ~wiredRoute
    /\ run.step = "asusProbe" => wifi = "asus"
    /\ run.step = "tplinkProbe" => wifi = "tplink"
    /\ run.step \in {"tplinkUp", "tplinkProbe"} => ~AsusOffered
UplinkInv == UplinkTypeOK /\ NoRouteWithoutLink /\ (steady => RunKnows) /\ PathHonest

LEMMA UplinkInitInv == UplinkInit => UplinkInv
<1> SUFFICES ASSUME NEW n \in [Links -> {"ok", "dead", "gone"}], NEW profiles \in SUBSET WifiProfiles,
                    UplinkStart(n, profiles)
             PROVE  UplinkInv
    BY DEF UplinkInit
<1>1. UplinkTypeOK
    <2>1. wait \in 0..RetryTicks /\ changes \in 0..MaxLinkChanges
        BY UplinkAssumption DEF UplinkStart
    <2>2. wiredRoute \in BOOLEAN /\ probeRoute \in BOOLEAN /\ steady \in BOOLEAN
        BY DEF UplinkStart
    <2>3. run \in [step : UplinkSteps, due : BOOLEAN, ended : {"none", "recorded", "raised"}]
        BY DEF UplinkStart, UplinkSteps
    <2> QED BY <2>1, <2>2, <2>3 DEF UplinkStart, UplinkTypeOK
<1> QED BY <1>1 DEF UplinkStart, UplinkInv, NoRouteWithoutLink, PathHonest

(* The two ways a step of a run ends: with a next step, or with the run.    *)
LEMMA UplinkRunMoves ==
    ASSUME UplinkTypeOK
    PROVE  /\ \A s \in UplinkSteps :
                Then(s) => /\ run'.step = s /\ run'.due = run.due
                           /\ run' \in [step : UplinkSteps, due : BOOLEAN, ended : {"none", "recorded", "raised"}]
           /\ \A p : RecordPath(p) =>
                /\ run'.step = "idle" /\ run'.ended = "recorded" /\ run'.due = run.due /\ path' = p
                /\ run' \in [step : UplinkSteps, due : BOOLEAN, ended : {"none", "recorded", "raised"}]
BY DEF UplinkTypeOK, UplinkSteps, Then, RecordPath

LEMMA UplinkMonitorType ==
    ASSUME UplinkTypeOK, MonitorStep
    PROVE  UplinkTypeOK'
<1> DEFINE Runs == [step : UplinkSteps, due : BOOLEAN, ended : {"none", "recorded", "raised"}]
<1>0. DeferredRetry \in 0..RetryTicks
    BY UplinkAssumption DEF DeferredRetry
<1>1. ASSUME NEW s \in UplinkSteps, Then(s) PROVE run' \in Runs
    BY <1>1, UplinkRunMoves
<1>2. ASSUME NEW p, RecordPath(p) PROVE run' \in Runs
    BY <1>2, UplinkRunMoves
<1>3. ASSUME RouteRefused PROVE run' \in Runs
    BY <1>3 DEF RouteRefused, UplinkTypeOK, UplinkSteps
<1>4. \/ \E s \in UplinkSteps : Then(s)
      \/ \E p \in {"wired", "asus_wifi", "tplink_wifi", "failed"} : RecordPath(p)
      \/ RouteRefused
    BY DEF MonitorStep, AddProbeRoute, ProbeWired, RestoreWired, EnsureStandby, DropWired,
       ActivateAsus, ProbeAsus, ActivateTplink, ProbeTplink, UplinkSteps
<1>5. wiredRoute' \in BOOLEAN /\ probeRoute' \in BOOLEAN
    BY DEF MonitorStep, AddProbeRoute, ProbeWired, RestoreWired, RouteRefused, EnsureStandby, DropWired,
       ActivateAsus, ProbeAsus, ActivateTplink, ProbeTplink, UplinkTypeOK
<1>6. wifi' \in WifiProfiles \cup {"none"}
    BY DEF MonitorStep, AddProbeRoute, ProbeWired, RestoreWired, RouteRefused, EnsureStandby, DropWired,
       ActivateAsus, ProbeAsus, ActivateTplink, ProbeTplink, Activates, ActivationFails, UplinkTypeOK, WifiProfiles
<1>7. wait' \in 0..RetryTicks
    BY <1>0 DEF MonitorStep, AddProbeRoute, ProbeWired, RestoreWired, RouteRefused, EnsureStandby, DropWired,
       ActivateAsus, ProbeAsus, ActivateTplink, ProbeTplink, UplinkTypeOK
<1>8. path' \in {"unknown", "wired", "asus_wifi", "tplink_wifi", "failed"}
    BY DEF MonitorStep, AddProbeRoute, ProbeWired, RestoreWired, RouteRefused, EnsureStandby, DropWired,
       ActivateAsus, ProbeAsus, ActivateTplink, ProbeTplink, RecordPath, UplinkTypeOK
<1>9. UNCHANGED <<net, saved, steady, changes>>
    BY DEF MonitorStep, AddProbeRoute, ProbeWired, RestoreWired, RouteRefused, EnsureStandby, DropWired,
       ActivateAsus, ProbeAsus, ActivateTplink, ProbeTplink
<1>10. run' \in Runs
    BY <1>1, <1>2, <1>3, <1>4
<1> QED BY <1>5, <1>6, <1>7, <1>8, <1>9, <1>10 DEF UplinkTypeOK

LEMMA UplinkTypeStep ==
    ASSUME UplinkTypeOK, UplinkNext
    PROVE  UplinkTypeOK'
<1>1. ASSUME TimerFires PROVE UplinkTypeOK'
    BY <1>1 DEF TimerFires, AsusRetryDue, UplinkTypeOK, UplinkSteps
<1>2. ASSUME RunRaises \/ RunKilled PROVE UplinkTypeOK'
    <2>1. changes' \in 0..MaxLinkChanges
        BY <1>2, UplinkAssumption DEF RunRaises, RunKilled, Disturbs, UplinkTypeOK
    <2>2. run' \in [step : UplinkSteps, due : BOOLEAN, ended : {"none", "recorded", "raised"}]
        BY <1>2 DEF RunRaises, RunKilled, UplinkTypeOK, UplinkSteps
    <2> QED BY <1>2, <2>1, <2>2 DEF RunRaises, RunKilled, Disturbs, UplinkTypeOK
<1>3. ASSUME NEW l \in Links, NEW s \in {"ok", "dead", "gone"}, LinkChanges(l, s) PROVE UplinkTypeOK'
    <2>1. changes' \in 0..MaxLinkChanges
        BY <1>3, UplinkAssumption DEF LinkChanges, Disturbs, UplinkTypeOK
    <2>2. wifi' \in WifiProfiles \cup {"none"} /\ wiredRoute' \in BOOLEAN /\ probeRoute' \in BOOLEAN
        BY <1>3 DEF LinkChanges, UplinkTypeOK
    <2> QED BY <1>3, <2>1, <2>2 DEF LinkChanges, Disturbs, UplinkTypeOK
<1>4. ASSUME NetworkManagerConnects PROVE UplinkTypeOK'
    BY <1>4 DEF NetworkManagerConnects, UplinkTypeOK
<1>5. ASSUME ApplyProfiles PROVE UplinkTypeOK'
    <2>1. changes' \in 0..MaxLinkChanges
        BY <1>5, UplinkAssumption DEF ApplyProfiles, Disturbs, UplinkTypeOK
    <2>2. wifi' \in WifiProfiles \cup {"none"} /\ wiredRoute' \in BOOLEAN /\ saved' \in SUBSET WifiProfiles
        BY <1>5 DEF ApplyProfiles, UplinkTypeOK, WifiProfiles
    <2> QED BY <1>5, <2>1, <2>2 DEF ApplyProfiles, Disturbs, UplinkTypeOK
<1>6. ASSUME Tick PROVE UplinkTypeOK'
    <2>1. wait' \in 0..RetryTicks
        BY <1>6, UplinkAssumption DEF Tick, UplinkTypeOK
    <2> QED BY <1>6, <2>1 DEF Tick, UplinkTypeOK
<1> QED BY <1>1, <1>2, <1>3, <1>4, <1>5, <1>6, UplinkMonitorType DEF UplinkNext

(* Only what disturbs a run changes links and profiles. *)
LEMMA UplinkDisturbed ==
    ASSUME UplinkTypeOK, NoRouteWithoutLink,
           RunRaises \/ RunKilled \/ ApplyProfiles
               \/ \E l \in Links, s \in {"ok", "dead", "gone"} : LinkChanges(l, s)
    PROVE  NoRouteWithoutLink' /\ ~steady'
<1>1. ASSUME NEW l \in Links, NEW s \in {"ok", "dead", "gone"}, LinkChanges(l, s)
      PROVE  NoRouteWithoutLink' /\ ~steady'
    <2>1. net' = [net EXCEPT ![l] = s] /\ ~steady'
        BY <1>1 DEF LinkChanges, Disturbs
    <2>2. CASE l = "wired"
        BY <1>1, <2>1, <2>2 DEF LinkChanges, NoRouteWithoutLink, UplinkTypeOK, Links
    <2>3. CASE l # "wired"
        BY <1>1, <2>1, <2>3 DEF LinkChanges, NoRouteWithoutLink, UplinkTypeOK, Links
    <2> QED BY <2>2, <2>3
<1>2. ASSUME RunRaises \/ RunKilled \/ ApplyProfiles PROVE NoRouteWithoutLink' /\ ~steady'
    BY <1>2 DEF RunRaises, RunKilled, ApplyProfiles, Disturbs, NoRouteWithoutLink, UplinkTypeOK
<1> QED BY <1>1, <1>2

(* The steps of an undisturbed run keep what it knows. *)
LEMMA UplinkRunKnows ==
    ASSUME UplinkTypeOK, NoRouteWithoutLink, steady => RunKnows, MonitorStep
    PROVE  NoRouteWithoutLink' /\ (steady' => RunKnows')
<1> DEFINE Known == NoRouteWithoutLink' /\ (steady' => RunKnows')
<1>0. /\ \A s \in UplinkSteps : Then(s) => run'.step = s /\ run'.due = run.due
      /\ \A p : RecordPath(p) => run'.step = "idle"
    BY UplinkRunMoves
<1>1. ASSUME AddProbeRoute PROVE Known
    <2>1. run'.step = IF net["wired"] = "gone" THEN "wiredFailed" ELSE "wired"
        BY <1>0, <1>1 DEF AddProbeRoute, UplinkSteps
    <2>2. probeRoute' = (probeRoute \/ net["wired"] # "gone") /\ net' = net /\ wiredRoute' = wiredRoute
        BY <1>1 DEF AddProbeRoute
    <2> QED BY <2>1, <2>2 DEF RunKnows, NoRouteWithoutLink
<1>2. ASSUME ProbeWired PROVE Known
    <2>1. run'.step = IF net["wired"] = "ok" THEN "wiredOk" ELSE "wiredFailed"
        BY <1>0, <1>2 DEF ProbeWired, UplinkSteps
    <2>2. probeRoute' = FALSE /\ net' = net /\ wiredRoute' = wiredRoute
        BY <1>2 DEF ProbeWired
    <2> QED BY <2>1, <2>2 DEF RunKnows, NoRouteWithoutLink
<1>3. ASSUME RestoreWired PROVE Known
    BY <1>0, <1>3 DEF RestoreWired, AtStep, UplinkSteps, NoRouteWithoutLink, RunKnows
<1>4. ASSUME RouteRefused \/ EnsureStandby \/ ProbeTplink PROVE Known
    <2>1. run'.step = "idle" /\ UNCHANGED <<net, wiredRoute, probeRoute>>
        BY <1>0, <1>4 DEF RouteRefused, EnsureStandby, ProbeTplink, UplinkTypeOK
    <2> QED BY <2>1 DEF RunKnows, NoRouteWithoutLink
<1>5. ASSUME DropWired PROVE Known
    <2>1. /\ run'.step = IF wifi = "asus" THEN "asusProbe" ELSE IF run.due THEN "asusUp" ELSE "tplinkUp"
          /\ run'.due = run.due
        BY <1>0, <1>5 DEF DropWired, UplinkSteps
    <2> QED BY <1>5, <2>1 DEF DropWired, AtStep, NoRouteWithoutLink, RunKnows, AsusOffered
<1>6. ASSUME ActivateAsus PROVE Known
    BY <1>0, <1>6 DEF ActivateAsus, AtStep, Activates, ActivationFails, UplinkSteps,
       NoRouteWithoutLink, RunKnows, AsusOffered
<1>7. ASSUME ProbeAsus PROVE Known
    <2>1. CASE WifiReaches
        BY <1>0, <1>7, <2>1 DEF ProbeAsus, NoRouteWithoutLink, RunKnows
    <2>2. CASE ~WifiReaches
        <3>1. run'.step = "tplinkUp" /\ run'.due = run.due
            BY <1>0, <1>7, <2>2 DEF ProbeAsus, UplinkSteps
        <3>2. UNCHANGED <<net, wifi, wiredRoute, probeRoute, saved, steady>> /\ run.step = "asusProbe"
            BY <1>7 DEF ProbeAsus, AtStep
        <3> QED BY <2>2, <3>1, <3>2 DEF WifiReaches, NoRouteWithoutLink, RunKnows, AsusOffered
    <2> QED BY <2>1, <2>2
<1>8. ASSUME ActivateTplink PROVE Known
    BY <1>0, <1>8 DEF ActivateTplink, AtStep, Activates, ActivationFails, UplinkSteps,
       NoRouteWithoutLink, RunKnows, AsusOffered
<1> QED BY <1>1, <1>2, <1>3, <1>4, <1>5, <1>6, <1>7, <1>8 DEF MonitorStep

(* What an undisturbed run records is what it has found. *)
LEMMA UplinkRecords ==
    ASSUME UplinkTypeOK, steady => RunKnows, MonitorStep
    PROVE  PathHonest'
<1>0. /\ \A s \in UplinkSteps : Then(s) => run'.step = s
      /\ \A p : RecordPath(p) => run'.due = run.due /\ path' = p
    BY UplinkRunMoves
<1>1. ASSUME NEW s \in UplinkSteps \ {"idle"}, Then(s) PROVE PathHonest'
    BY <1>0, <1>1 DEF PathHonest, AtStep
<1>2. ASSUME EnsureStandby PROVE PathHonest'
    <2>1. /\ path' = "wired" /\ run.step = "standby"
          /\ UNCHANGED <<net, wiredRoute, probeRoute, saved, steady>>
        BY <1>0, <1>2 DEF EnsureStandby, AtStep
    <2> QED BY <2>1 DEF RunKnows, PathHonest
<1>3. ASSUME ProbeAsus, WifiReaches PROVE PathHonest'
    <2>1. /\ path' = "asus_wifi" /\ run.step = "asusProbe"
          /\ UNCHANGED <<net, wifi, wiredRoute, probeRoute, saved, steady>>
        BY <1>0, <1>3 DEF ProbeAsus, AtStep
    <2>2. steady => wifi = "asus" /\ net["asus"] = "ok" /\ net["wired"] # "ok"
        BY <1>3, <2>1 DEF WifiReaches, RunKnows
    <2>3. steady => wiredRoute = FALSE /\ ~probeRoute
        BY <2>1 DEF RunKnows, UplinkTypeOK
    <2> QED BY <2>1, <2>2, <2>3 DEF PathHonest
<1>4. ASSUME ProbeTplink PROVE PathHonest'
    <2>1. /\ path' = (IF WifiReaches THEN "tplink_wifi" ELSE "failed") /\ run'.due = run.due
          /\ run.step = "tplinkProbe"
          /\ UNCHANGED <<net, wifi, wiredRoute, probeRoute, saved, steady>>
        BY <1>0, <1>4 DEF ProbeTplink, AtStep
    <2>2. steady => wifi = "tplink" /\ net["wired"] # "ok" /\ ~AsusOffered
        BY <2>1 DEF RunKnows
    <2>3. steady => wiredRoute = FALSE /\ ~probeRoute
        BY <2>1 DEF RunKnows, UplinkTypeOK
    <2>4. steady /\ path' = "tplink_wifi" => net["tplink"] = "ok"
        BY <2>1, <2>2 DEF WifiReaches
    <2>5. steady /\ path' # "tplink_wifi" => net["tplink"] # "ok" /\ path' = "failed"
        BY <2>1, <2>2 DEF WifiReaches
    <2> QED BY <2>1, <2>2, <2>3, <2>4, <2>5 DEF AsusOffered, PathHonest
<1>5. ASSUME ActivateTplink, ActivationFails("tplink"), RecordPath("failed") PROVE PathHonest'
    <2>1. /\ path' = "failed" /\ run'.due = run.due /\ run.step = "tplinkUp"
          /\ UNCHANGED <<net, wiredRoute, probeRoute, saved, steady>>
        BY <1>0, <1>5 DEF ActivateTplink, AtStep
    <2>2. steady => net["wired"] # "ok" /\ ~AsusOffered
        BY <2>1 DEF RunKnows
    <2>3. steady => wiredRoute = FALSE /\ ~probeRoute
        BY <2>1 DEF RunKnows, UplinkTypeOK
    <2>4. "tplink" \in saved => net["tplink"] # "ok"
        BY <1>5 DEF ActivationFails
    <2> QED BY <2>1, <2>2, <2>3, <2>4 DEF AsusOffered, PathHonest
<1>6. ASSUME RouteRefused PROVE PathHonest'
    BY <1>6 DEF RouteRefused, PathHonest, UplinkTypeOK
<1>7. \/ \E s \in UplinkSteps \ {"idle"} : Then(s)
      \/ EnsureStandby \/ ProbeTplink \/ RouteRefused
      \/ ProbeAsus /\ WifiReaches
      \/ ActivateTplink /\ ActivationFails("tplink") /\ RecordPath("failed")
    BY DEF MonitorStep, AddProbeRoute, ProbeWired, RestoreWired, DropWired, ActivateAsus, ProbeAsus,
       ActivateTplink, UplinkSteps
<1> QED BY <1>1, <1>2, <1>3, <1>4, <1>5, <1>6, <1>7

LEMMA UplinkInvStep == UplinkInv /\ [UplinkNext]_uplinkVars => UplinkInv'
<1> SUFFICES ASSUME UplinkInv, [UplinkNext]_uplinkVars PROVE UplinkInv'
    OBVIOUS
<1>1. CASE UNCHANGED uplinkVars
    BY <1>1 DEF uplinkVars, UplinkInv, UplinkTypeOK, NoRouteWithoutLink, RunKnows, AsusOffered,
       PathHonest, AtStep
<1>2. CASE MonitorStep
    <2>1. UplinkTypeOK'
        BY <1>2, UplinkTypeStep DEF UplinkInv, UplinkNext
    <2> QED BY <1>2, <2>1, UplinkRunKnows, UplinkRecords DEF UplinkInv
<1>3. CASE RunRaises \/ RunKilled \/ ApplyProfiles
             \/ \E l \in Links, s \in {"ok", "dead", "gone"} : LinkChanges(l, s)
    <2>1. UplinkTypeOK'
        BY <1>3, UplinkTypeStep DEF UplinkInv, UplinkNext
    <2>2. NoRouteWithoutLink' /\ ~steady'
        BY <1>3, UplinkDisturbed DEF UplinkInv
    <2> QED BY <2>1, <2>2 DEF UplinkInv, PathHonest
<1>4. CASE TimerFires \/ NetworkManagerConnects \/ Tick
    <2>1. UplinkTypeOK'
        BY <1>4, UplinkTypeStep DEF UplinkInv, UplinkNext
    <2>2. NoRouteWithoutLink'
        BY <1>4 DEF TimerFires, NetworkManagerConnects, Tick, UplinkInv, NoRouteWithoutLink
    <2>3. CASE TimerFires
        <3>1. run'.step = "carrier"
            BY <2>3 DEF TimerFires
        <3> QED BY <2>1, <2>2, <3>1 DEF UplinkInv, RunKnows, PathHonest, AtStep
    <2>4. CASE NetworkManagerConnects \/ Tick
        <3>1. /\ UNCHANGED <<net, wiredRoute, probeRoute, saved, path, run, steady>>
              /\ wifi # "none" => wifi' = wifi
            BY <2>4 DEF NetworkManagerConnects, Tick
        <3>2. steady' => RunKnows'
            BY <3>1 DEF UplinkInv, RunKnows, AsusOffered
        <3>3. PathHonest'
            BY <3>1 DEF UplinkInv, PathHonest, AtStep
        <3> QED BY <2>1, <2>2, <3>2, <3>3 DEF UplinkInv
    <2> QED BY <1>4, <2>3, <2>4
<1> QED BY <1>1, <1>2, <1>3, <1>4 DEF UplinkNext

(* What a run of the monitor records, if nothing else touched the network   *)
(* while it ran, is true and the best that could be had, whatever runs      *)
(* before it left behind when they raised or were killed (monitor_uplink,   *)
(* record_path of scripts/ds4_spark_uplink.py).                             *)
THEOREM RecordedPathHonest == UplinkSpec => []PathHonest
<1>1. UplinkInv => PathHonest
    BY DEF UplinkInv
<1> QED BY <1>1, UplinkInitInv, UplinkInvStep, PTL DEF UplinkSpec

-----------------------------------------------------------------------------
(* Flattening a sequence of sequences, as a run that appends one after the  *)
(* other.                                                                   *)
FlattenRun(g, ss, A) ==
    /\ g \in [0..Len(ss) -> Seq(A)] /\ g[0] = <<>>
    /\ \A i \in 1..Len(ss) : g[i] = g[i - 1] \o ss[i]

LEMMA FlattenRuns ==
    ASSUME NEW A, NEW ss \in Seq(Seq(A))
    PROVE  \E g : FlattenRun(g, ss, A) /\ FlattenSeq(ss) = g[Len(ss)]
<1> DEFINE N == Len(ss)
           Run(g, n) == /\ g \in [0..n -> Seq(A)] /\ g[0] = <<>>
                        /\ \A i \in 1..n : g[i] = g[i - 1] \o ss[i]
           T == {n \in Nat : n <= N => \E g : Run(g, n)}
<1>0. N \in Nat /\ \A i \in 1..N : ss[i] \in Seq(A)
    OBVIOUS
<1> HIDE DEF N
<1>1. 0 \in T
    <2> DEFINE g == [i \in 0..0 |-> <<>>]
    <2>1. Run(g, 0)
        <3>1. <<>> \in Seq(A)
            OBVIOUS
        <3>2. g \in [0..0 -> Seq(A)] /\ g[0] = <<>>
            BY <3>1
        <3> HIDE DEF g
        <3>3. \A i \in 1..0 : g[i] = g[i - 1] \o ss[i]
            OBVIOUS
        <3> QED BY <3>2, <3>3
    <2> HIDE DEF g, Run
    <2> QED BY <2>1
<1>2. ASSUME NEW n \in Nat, n \in T PROVE n + 1 \in T
    <2> HIDE DEF Run
    <2> SUFFICES ASSUME n + 1 <= N PROVE \E h : Run(h, n + 1)
        OBVIOUS
    <2> USE DEF Run
    <2>1. n <= N /\ n + 1 \in 1..N
        BY <1>0
    <2>2. PICK g : Run(g, n)
        BY <1>2, <2>1
    <2> DEFINE h == [i \in 0..n + 1 |-> IF i <= n THEN g[i] ELSE g[n] \o ss[n + 1]]
    <2>3. h \in [0..n + 1 -> Seq(A)]
        <3>1. g[n] \o ss[n + 1] \in Seq(A)
            BY <1>0, <2>1, <2>2
        <3>2. \A i \in 0..n + 1 : i <= n => g[i] \in Seq(A)
            BY <2>2
        <3> QED BY <3>1, <3>2
    <2>4. h[0] = <<>>
        BY <2>2
    <2>5. ASSUME NEW i \in 1..n + 1 PROVE h[i] = h[i - 1] \o ss[i]
        <3>1. CASE i <= n
            <4>1. i \in 1..n /\ i - 1 \in 0..n + 1 /\ i \in 0..n + 1 /\ i - 1 <= n
                BY <3>1
            <4>2. g[i] = g[i - 1] \o ss[i]
                BY <2>2, <4>1
            <4> QED BY <3>1, <4>1, <4>2
        <3>2. CASE ~(i <= n)
            <4>1. i = n + 1 /\ i - 1 = n /\ n \in 0..n + 1 /\ n + 1 \in 0..n + 1 /\ ~(n + 1 <= n) /\ n <= n
                BY <3>2
            <4>2. h[n] = g[n] /\ h[n + 1] = g[n] \o ss[n + 1]
                BY <4>1
            <4> QED BY <4>1, <4>2
        <3> QED BY <3>1, <3>2
    <2> HIDE DEF h
    <2> QED BY <2>3, <2>4, <2>5
<1>3. N \in T
    <2> HIDE DEF T
    <2> QED BY <1>0, <1>1, <1>2, NaturalsReached
<1>4. PICK g : Run(g, N)
    <2>1. N <= N
        BY <1>0
    <2> HIDE DEF Run
    <2> QED BY <1>3, <2>1
<1>5. FlattenSeq(ss) = g[N]
    <2>1. CASE N = 0
        BY <2>1, <1>4 DEF FlattenSeq, N
    <2>2. CASE N # 0
        <3> DEFINE Flat(f) == f = [i \in 1..N |-> IF i = 1 THEN ss[i] ELSE f[i - 1] \o ss[i]]
                   c == CHOOSE f : Flat(f)
                   k == [i \in 1..N |-> g[i]]
        <3>1. FlattenSeq(ss) = c[N]
            BY <2>2 DEF FlattenSeq, N
        <3>2. Flat(k)
            <4>1. ASSUME NEW i \in 1..N PROVE g[i] = IF i = 1 THEN ss[i] ELSE k[i - 1] \o ss[i]
                <5>1. g[i] = g[i - 1] \o ss[i] /\ g[0] = <<>>
                    BY <1>4
                <5>2. CASE i = 1
                    <6>1. ss[1] \in Seq(A) /\ 1 - 1 = 0
                        BY <1>0, <5>2
                    <6>2. <<>> \o ss[1] = ss[1]
                        BY <6>1
                    <6> QED BY <5>1, <5>2, <6>1, <6>2
                <5>3. CASE i # 1
                    <6>1. i - 1 \in 1..N
                        BY <1>0, <5>3
                    <6> QED BY <5>1, <5>3, <6>1
                <5> QED BY <5>2, <5>3
            <4> QED BY <4>1
        <3>3. Flat(c)
            <4> HIDE DEF Flat, k
            <4> QED BY <3>2
        <3> DEFINE U == {n \in Nat : n + 1 <= N => c[n + 1] = g[n + 1]}
        <3>4. \A i \in 1..N : c[i] = IF i = 1 THEN ss[i] ELSE c[i - 1] \o ss[i]
            <4> HIDE DEF c
            <4> QED BY <3>3
        <3>5. \A i \in 1..N : g[i] = IF i = 1 THEN ss[i] ELSE g[i - 1] \o ss[i]
            <4>1. \A i \in 1..N : i # 1 => i - 1 \in 1..N
                BY <1>0
            <4> QED BY <3>2, <4>1
        <3> HIDE DEF c
        <3>6. 0 \in U
            <4>1. 1 \in 1..N
                BY <1>0, <2>2
            <4> QED BY <3>4, <3>5, <4>1
        <3>7. ASSUME NEW n \in Nat, n \in U PROVE n + 1 \in U
            <4> SUFFICES ASSUME (n + 1) + 1 <= N PROVE c[(n + 1) + 1] = g[(n + 1) + 1]
                OBVIOUS
            <4>1. n + 1 <= N /\ (n + 1) + 1 \in 1..N /\ (n + 1) + 1 # 1 /\ ((n + 1) + 1) - 1 = n + 1
                BY <1>0
            <4>2. c[n + 1] = g[n + 1]
                BY <3>7, <4>1
            <4> QED BY <3>4, <3>5, <4>1, <4>2
        <3>8. N - 1 \in U
            <4> HIDE DEF U
            <4>1. N - 1 \in Nat
                BY <1>0, <2>2
            <4> QED BY <3>6, <3>7, <4>1, NaturalsReached
        <3>9. c[N] = g[N]
            <4>1. (N - 1) + 1 = N
                BY <1>0
            <4> QED BY <1>0, <3>8, <4>1
        <3> QED BY <3>1, <3>9
    <2> QED BY <2>1, <2>2
<1> QED BY <1>4, <1>5 DEF FlattenRun, N

LEMMA FlattenRunSame ==
    ASSUME NEW A, NEW ss \in Seq(Seq(A)), NEW g, NEW h, FlattenRun(g, ss, A), FlattenRun(h, ss, A)
    PROVE  \A n \in 0..Len(ss) : g[n] = h[n]
<1> DEFINE N == Len(ss)
           T == {n \in Nat : n <= N => g[n] = h[n]}
<1>0. N \in Nat
    OBVIOUS
<1>1. 0 \in T
    BY DEF FlattenRun
<1>2. ASSUME NEW n \in Nat, n \in T PROVE n + 1 \in T
    <2> SUFFICES ASSUME n + 1 <= N PROVE g[n + 1] = h[n + 1]
        OBVIOUS
    <2>1. n + 1 \in 1..N /\ n <= N /\ (n + 1) - 1 = n
        OBVIOUS
    <2>2. g[n] = h[n]
        BY <1>2, <2>1
    <2> QED BY <2>1, <2>2 DEF FlattenRun
<1>3. Nat \subseteq T
    <2> HIDE DEF T
    <2> QED BY <1>1, <1>2, NaturalsReached
<1> QED BY <1>3

(* What the flattened sequence holds: each of its members with those before *)
(* it in its own sequence, and every member of each sequence.               *)
Flattened(f, ss, n) ==
    /\ \A i \in 1..Len(f) : \E k \in 1..n : \E m \in 1..Len(ss[k]) :
          f[i] = ss[k][m] /\ \A b \in 1..m - 1 : \E a \in 1..i - 1 : f[a] = ss[k][b]
    /\ \A k \in 1..n : \A m \in 1..Len(ss[k]) : \E i \in 1..Len(f) : f[i] = ss[k][m]

LEMMA ConcatFacts ==
    ASSUME NEW A, NEW f \in Seq(A), NEW t \in Seq(A)
    PROVE  /\ f \o t \in Seq(A) /\ Len(f \o t) = Len(f) + Len(t)
           /\ \A i \in 1..Len(f) : (f \o t)[i] = f[i] /\ i \in 1..Len(f \o t)
           /\ \A i \in 1..Len(t) : (f \o t)[Len(f) + i] = t[i] /\ Len(f) + i \in 1..Len(f \o t)
           /\ \A i \in 1..Len(f \o t) : i \notin 1..Len(f) => i - Len(f) \in 1..Len(t) /\ Len(f) + (i - Len(f)) = i
OBVIOUS

LEMMA FlattenMore ==
    ASSUME NEW A, NEW ss \in Seq(Seq(A)), NEW n \in Nat, n + 1 <= Len(ss), NEW f \in Seq(A), Flattened(f, ss, n)
    PROVE  Flattened(f \o ss[n + 1], ss, n + 1)
<1> DEFINE N == Len(ss)
           t == ss[n + 1]
           h == f \o t
           L == Len(f)
           K == Len(t)
           M == Len(h)
<1>0. N \in Nat /\ \A i \in 1..N : ss[i] \in Seq(A)
    OBVIOUS
<1>1. n + 1 \in 1..N /\ t \in Seq(A) /\ 1..n \subseteq 1..N /\ n + 1 \in 1..n + 1 /\ 1..n \subseteq 1..n + 1
    OBVIOUS
<1>2. /\ L \in Nat /\ K \in Nat /\ M = L + K
      /\ \A i \in 1..L : h[i] = f[i] /\ i \in 1..M
      /\ \A i \in 1..K : h[L + i] = t[i] /\ L + i \in 1..M
      /\ \A i \in 1..M : i \notin 1..L => i - L \in 1..K /\ L + (i - L) = i
    <2>1. L \in Nat /\ K \in Nat
        BY <1>1
    <2>2. PICK x : x = t /\ x \in Seq(A) /\ K = Len(x)
        BY <1>1
    <2>3. /\ Len(f \o x) = Len(f) + Len(x)
          /\ \A i \in 1..Len(f) : (f \o x)[i] = f[i] /\ i \in 1..Len(f \o x)
          /\ \A i \in 1..Len(x) : (f \o x)[Len(f) + i] = x[i] /\ Len(f) + i \in 1..Len(f \o x)
          /\ \A i \in 1..Len(f \o x) : i \notin 1..Len(f) => i - Len(f) \in 1..Len(x) /\ Len(f) + (i - Len(f)) = i
        BY <2>2, ConcatFacts
    <2> QED BY <2>1, <2>2, <2>3
<1>3. /\ \A i \in 1..L : \E k \in 1..n : \E m \in 1..Len(ss[k]) :
            f[i] = ss[k][m] /\ \A b \in 1..m - 1 : \E a \in 1..i - 1 : f[a] = ss[k][b]
      /\ \A k \in 1..n : \A m \in 1..Len(ss[k]) : \E i \in 1..L : f[i] = ss[k][m]
    BY DEF Flattened
<1>4. t = ss[n + 1] /\ K = Len(ss[n + 1])
    OBVIOUS
<1> HIDE DEF N, t, h, L, K, M
<1>5. ASSUME NEW i \in 1..M
      PROVE  \E k \in 1..n + 1 : \E m \in 1..Len(ss[k]) :
                 h[i] = ss[k][m] /\ \A b \in 1..m - 1 : \E a \in 1..i - 1 : h[a] = ss[k][b]
    <2>1. CASE i \in 1..L
        <3>1. PICK k \in 1..n : \E m \in 1..Len(ss[k]) :
                  f[i] = ss[k][m] /\ \A b \in 1..m - 1 : \E a \in 1..i - 1 : f[a] = ss[k][b]
            BY <1>3, <2>1
        <3>2. PICK m \in 1..Len(ss[k]) :
                  f[i] = ss[k][m] /\ \A b \in 1..m - 1 : \E a \in 1..i - 1 : f[a] = ss[k][b]
            BY <3>1
        <3>3. ASSUME NEW b \in 1..m - 1 PROVE \E a \in 1..i - 1 : h[a] = ss[k][b]
            <4>1. PICK a \in 1..i - 1 : f[a] = ss[k][b]
                BY <3>2
            <4>2. a \in 1..L
                BY <1>2, <2>1
            <4> QED BY <1>2, <4>1, <4>2
        <3>4. h[i] = ss[k][m] /\ k \in 1..n + 1
            BY <1>1, <1>2, <2>1, <3>2
        <3> QED BY <3>2, <3>3, <3>4
    <2>2. CASE i \notin 1..L
        <3> DEFINE m == i - L
        <3>1. m \in 1..K /\ L + m = i /\ h[L + m] = t[m]
            BY <1>2, <2>2
        <3>2. ASSUME NEW b \in 1..m - 1 PROVE \E a \in 1..i - 1 : h[a] = t[b]
            <4>1. b \in 1..K /\ L + b \in 1..i - 1
                BY <1>2, <3>1
            <4> QED BY <1>2, <4>1
        <3> HIDE DEF m
        <3> QED BY <1>1, <1>4, <3>1, <3>2
    <2> QED BY <2>1, <2>2
<1>6. ASSUME NEW k \in 1..n + 1, NEW m \in 1..Len(ss[k])
      PROVE  \E i \in 1..M : h[i] = ss[k][m]
    <2>1. CASE k \in 1..n
        <3>1. PICK i \in 1..L : f[i] = ss[k][m]
            BY <1>3, <2>1
        <3> QED BY <1>2, <3>1
    <2>2. CASE k \notin 1..n
        <3>1. k = n + 1
            BY <2>2
        <3>2. m \in 1..K /\ ss[k][m] = t[m]
            BY <1>4, <3>1
        <3> QED BY <1>2, <3>2
    <2> QED BY <2>1, <2>2
<1> QED BY <1>5, <1>6 DEF Flattened, h, t, M

LEMMA FlattenMembers ==
    ASSUME NEW A, NEW ss \in Seq(Seq(A))
    PROVE  FlattenSeq(ss) \in Seq(A) /\ Flattened(FlattenSeq(ss), ss, Len(ss))
<1> DEFINE N == Len(ss)
<1>1. N \in Nat
    OBVIOUS
<1>2. PICK g : FlattenRun(g, ss, A) /\ FlattenSeq(ss) = g[N]
    BY FlattenRuns
<1> DEFINE T == {n \in Nat : n <= N => Flattened(g[n], ss, n)}
<1>3. 0 \in T
    <2>1. g[0] = <<>>
        BY <1>2 DEF FlattenRun
    <2>2. Len(<<>>) = 0 /\ 1..0 = {}
        OBVIOUS
    <2>3. Flattened(g[0], ss, 0)
        BY <2>1, <2>2 DEF Flattened
    <2> QED BY <2>3
<1>4. ASSUME NEW n \in Nat, n \in T PROVE n + 1 \in T
    <2> SUFFICES ASSUME n + 1 <= N PROVE Flattened(g[n + 1], ss, n + 1)
        OBVIOUS
    <2>1. n <= N /\ n + 1 \in 1..N /\ n \in 0..N /\ (n + 1) - 1 = n
        BY <1>1
    <2>2. g[n + 1] = g[n] \o ss[n + 1] /\ g[n] \in Seq(A)
        BY <1>2, <2>1 DEF FlattenRun
    <2>3. Flattened(g[n], ss, n) /\ n + 1 <= Len(ss)
        BY <1>4, <2>1
    <2> HIDE DEF N
    <2>4. Flattened(g[n] \o ss[n + 1], ss, n + 1)
        BY <2>2, <2>3, FlattenMore
    <2> QED BY <2>2, <2>4
<1>5. Nat \subseteq T
    <2> HIDE DEF T
    <2> QED BY <1>3, <1>4, NaturalsReached
<1>6. Flattened(g[N], ss, N)
    BY <1>1, <1>5
<1>7. g[N] \in Seq(A)
    <2>1. N \in 0..N
        BY <1>1
    <2> QED BY <1>2, <2>1 DEF FlattenRun
<1> QED BY <1>2, <1>6, <1>7

LEMMA FlattenAppend ==
    ASSUME NEW A, NEW ss \in Seq(Seq(A)), NEW t \in Seq(A)
    PROVE  FlattenSeq(Append(ss, t)) = FlattenSeq(ss) \o t
<1> DEFINE N == Len(ss)
           more == Append(ss, t)
<1>1. N \in Nat /\ more \in Seq(Seq(A)) /\ Len(more) = N + 1 /\ more[N + 1] = t /\ \A i \in 1..N : more[i] = ss[i]
    OBVIOUS
<1> HIDE DEF more
<1>2. PICK g : FlattenRun(g, ss, A) /\ FlattenSeq(ss) = g[N]
    BY FlattenRuns
<1>3. PICK h : FlattenRun(h, more, A) /\ FlattenSeq(more) = h[N + 1]
    BY <1>1, FlattenRuns
<1> DEFINE k == [i \in 0..N |-> h[i]]
<1>4. FlattenRun(k, ss, A)
    <2>1. h \in [0..N + 1 -> Seq(A)] /\ h[0] = <<>> /\ \A i \in 1..N + 1 : h[i] = h[i - 1] \o more[i]
        BY <1>1, <1>3 DEF FlattenRun
    <2>2. 0..N \subseteq 0..N + 1 /\ 0 \in 0..N /\ \A i \in 1..N : i \in 0..N /\ i - 1 \in 0..N /\ i \in 1..N + 1
        BY <1>1
    <2>3. k \in [0..N -> Seq(A)] /\ k[0] = <<>>
        BY <2>1, <2>2
    <2>4. \A i \in 1..N : k[i] = k[i - 1] \o ss[i]
        BY <1>1, <2>1, <2>2
    <2> HIDE DEF k
    <2> QED BY <2>3, <2>4 DEF FlattenRun
<1>5. h[N] = g[N]
    <2>1. N \in 0..N
        BY <1>1
    <2>2. k[N] = g[N]
        <3> HIDE DEF k
        <3> QED BY <1>2, <1>4, <2>1, FlattenRunSame
    <2> QED BY <2>1, <2>2
<1>6. h[N + 1] = h[N] \o t
    <2>1. N + 1 \in 1..N + 1 /\ (N + 1) - 1 = N
        BY <1>1
    <2> QED BY <1>1, <1>3, <2>1 DEF FlattenRun
<1> QED BY <1>2, <1>3, <1>5, <1>6 DEF more

LEMMA SeqFacts ==
    ASSUME NEW A, NEW s \in Seq(A)
    PROVE  Len(s) \in Nat /\ DOMAIN s = 1..Len(s) /\ \A i \in 1..Len(s) : s[i] \in A
OBVIOUS

LEMMA EmptySeq == \A A : <<>> \in Seq(A) /\ Len(<<>>) = 0 /\ 1..Len(<<>>) = {}
OBVIOUS

LEMMA OneSeq ==
    ASSUME NEW A, NEW z \in A
    PROVE  <<z>> \in Seq(A) /\ Len(<<z>>) = 1 /\ <<z>>[1] = z /\ 1..1 = {1}
OBVIOUS

LEMMA AppendFacts ==
    ASSUME NEW A, NEW s \in Seq(A), NEW z \in A
    PROVE  /\ Append(s, z) \in Seq(A) /\ Len(Append(s, z)) = Len(s) + 1 /\ Append(s, z)[Len(s) + 1] = z
           /\ \A i \in 1..Len(s) : Append(s, z)[i] = s[i] /\ i \in 1..Len(s) + 1
           /\ \A i \in 1..Len(s) + 1 : i \in 1..Len(s) \/ i = Len(s) + 1
OBVIOUS

LEMMA TailFacts ==
    ASSUME NEW A, NEW s \in Seq(A), s # <<>>
    PROVE  /\ Tail(s) \in Seq(A) /\ Head(s) \in A /\ Head(s) = s[1] /\ Len(s) \in Nat /\ 1 \in 1..Len(s)
           /\ Len(Tail(s)) = Len(s) - 1
           /\ \A i \in 1..Len(Tail(s)) : Tail(s)[i] = s[i + 1] /\ i + 1 \in 1..Len(s)
           /\ \A i \in 1..Len(s) : i # 1 => i - 1 \in 1..Len(Tail(s)) /\ Tail(s)[i - 1] = s[i]
OBVIOUS

LEMMA FiveSeq ==
    ASSUME NEW A, NEW a \in A, NEW b \in A, NEW c \in A, NEW d \in A, NEW e \in A
    PROVE  <<a, b, c, d, e>> \in Seq(A) /\ Len(<<a, b, c, d, e>>) = 5 /\ <<a, b, c, d, e>>[2] = b
OBVIOUS

LEMMA SetToSeqCovers ==
    ASSUME NEW S, IsFiniteSet(S)
    PROVE  /\ Cardinality(S) \in Nat
           /\ \A k \in 1..Cardinality(S) : SetToSeq(S)[k] \in S
           /\ \A x \in S : \E k \in 1..Cardinality(S) : SetToSeq(S)[k] = x
           /\ SetToSeq(S) \in Seq(S)
<1> DEFINE D == 1..Cardinality(S)
           f == SetToSeq(S)
<1>1. Cardinality(S) \in Nat /\ ExistsBijection(D, S)
    BY FS_CardinalityType
<1>2. IsFiniteSet(D) /\ Cardinality(D) = Cardinality(S)
    <2>1. IsFiniteSet(1..Cardinality(S)) /\ Cardinality(1..Cardinality(S)) = IF 1 > Cardinality(S) THEN 0 ELSE Cardinality(S) - 1 + 1
        BY <1>1, FS_Interval
    <2> QED BY <1>1, <2>1
<1>3. \E b \in [D -> S] : IsInjective(b)
    BY <1>1 DEF ExistsBijection, Bijection, Injection
<1>4. f \in [D -> S] /\ IsInjective(f)
    <2>1. f = CHOOSE b \in [D -> S] : IsInjective(b)
        BY DEF SetToSeq
    <2> HIDE DEF f, D
    <2> QED BY <1>3, <2>1
<1> HIDE DEF f, D
<1>5. f \in Injection(D, S)
    BY <1>4 DEF Injection
<1>6. f \in Surjection(D, S)
    BY <1>2, <1>5, FS_Injection
<1>7. \A x \in S : \E k \in D : f[k] = x
    BY <1>6 DEF Surjection
<1>8. f \in Seq(S)
    BY <1>1, <1>4 DEF D
<1> QED BY <1>1, <1>4, <1>7, <1>8 DEF f, D

LEMMA SeqWider == ASSUME NEW A, NEW B, A \subseteq B, NEW s \in Seq(A) PROVE s \in Seq(B)
OBVIOUS
=============================================================================
