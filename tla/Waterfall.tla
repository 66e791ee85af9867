----------------------------- MODULE Waterfall -----------------------------
(***************************************************************************)
(* The relay of files along a chain of nodes (waterfall_copy.py): one      *)
(* thread per edge of the chain, a queue in front of each, a sentinel that *)
(* ends them, and an event that stops all of them after an error.  A file  *)
(* goes as far as the last node that keeps it.  The tool may be killed and *)
(* is run again over what is on the disks.                                 *)
(***************************************************************************)
EXTENDS Integers, Sequences, FiniteSets, FiniteSetsExt, SequencesExt

CONSTANTS Files, LastNode,
          Weights,    \* the *.safetensors among the files
          Manifests,  \* which files the manifests keep, per node
          MaxRuns     \* bound: runs of the tool

(* An object of its own, which is no file. *)
Sentinel == "sentinel"

ASSUME WaterfallAssumption ==
    /\ IsFiniteSet(Files) /\ Sentinel \notin Files /\ LastNode \in Nat \ {0}
    /\ Weights \subseteq Files /\ MaxRuns \in Nat
    /\ Manifests \subseteq [0..LastNode -> (SUBSET Files) \ {{}}]

VARIABLES keep,     \* keep_by_node, from the manifests
          cleanup,  \* --cleanup-transit
          disk,     \* a file on a node under its final name: none, ok, or of a wrong size
          toFeed,     \* what the main thread still puts into the first queue
          queue,    \* per edge
          worker,   \* per edge: where its thread is, and the file it holds
          stop, errors,
          outcome,  \* of the main thread
          wfruns

waterfallVars == <<keep, cleanup, disk, toFeed, queue, worker, stop, errors, outcome, wfruns>>

Nodes == 0..LastNode
Edges == 0..LastNode - 1

(* build_waterfall_plan: how far each file goes. *)
LastNeededIndex(f) == Max({n \in Nodes : f \in keep[n]} \cup {0})

WaterfallTypeOK ==
    /\ keep \in [Nodes -> SUBSET Files] /\ cleanup \in BOOLEAN
    /\ disk \in [Nodes -> [Files -> {"none", "ok", "wrong"}]]
    /\ \A e \in Edges : queue[e] \in Seq(Files \cup {Sentinel})
    /\ worker \in [Edges -> [pc : {"starting", "getting", "copying", "copied", "ended"}, file : Files \cup {Sentinel}]]
    /\ stop \in BOOLEAN /\ errors \subseteq Edges
    /\ outcome \in {"running", "ok", "raised"}
    /\ wfruns \in 0..MaxRuns

(* _run_waterfall up to the start of the threads.                           *)
RunStart ==
    /\ toFeed' = SetToSeq({f \in Files : \E n \in Nodes \ {0} : f \in keep[n]}) \o <<Sentinel>>
    /\ queue' = [e \in Edges |-> <<>>]
    /\ worker' = [e \in Edges |-> [pc |-> "starting", file |-> Sentinel]]
    /\ stop' = FALSE /\ errors' = {} /\ outcome' = "running"

(* A manifest names files of the source and is not empty.                   *)
WaterfallStart(k, c) ==
    /\ keep = k /\ cleanup = c
    /\ disk = [n \in Nodes |-> [f \in Files |-> IF n = 0 THEN "ok" ELSE "none"]]
    /\ toFeed = <<>> /\ queue = [e \in Edges |-> <<>>]
    /\ worker = [e \in Edges |-> [pc |-> "ended", file |-> Sentinel]]
    /\ stop = FALSE /\ errors = {} /\ outcome = "raised" /\ wfruns = 0
WaterfallInit == \E k \in Manifests, c \in BOOLEAN : WaterfallStart(k, c)

(* Run the tool, first or again. *)
WfRun ==
    /\ outcome = "raised" /\ wfruns < MaxRuns
    /\ wfruns' = wfruns + 1
    /\ RunStart
    /\ UNCHANGED <<keep, cleanup, disk>>

WfFeed ==
    /\ outcome = "running" /\ toFeed # <<>>
    /\ queue' = [queue EXCEPT ![0] = Append(@, Head(toFeed))]
    /\ toFeed' = Tail(toFeed)
    /\ UNCHANGED <<keep, cleanup, disk, worker, stop, errors, outcome, wfruns>>

Goto(e, pc, f) == worker' = [worker EXCEPT ![e] = [pc |-> pc, file |-> f]]

(* The except clause of _edge_worker: stop everybody, with a sentinel in    *)
(* every queue.                                                             *)
EdgeRaises(e) ==
    /\ stop' = TRUE
    /\ errors' = errors \cup {e}
    /\ queue' = [d \in Edges |-> Append(queue[d], Sentinel)]
    /\ Goto(e, "ended", Sentinel)

(* Rails and the directory of the destination. *)
EdgeStart(e) ==
    /\ worker[e].pc = "starting"
    /\ \/ Goto(e, "getting", Sentinel) /\ UNCHANGED <<queue, stop, errors>>
       \/ EdgeRaises(e)
    /\ UNCHANGED <<keep, cleanup, disk, toFeed, outcome, wfruns>>

Forwarded(e, x) == IF e + 1 \in Edges THEN [queue EXCEPT ![e] = Tail(@), ![e + 1] = Append(@, x)]
                                      ELSE [queue EXCEPT ![e] = Tail(@)]

EdgeGet(e) ==
    /\ worker[e].pc = "getting" /\ queue[e] # <<>>
    /\ \/ /\ Head(queue[e]) = Sentinel
          /\ queue' = Forwarded(e, Sentinel)
          /\ Goto(e, "ended", Sentinel)
       \/ /\ Head(queue[e]) # Sentinel
          /\ queue' = [queue EXCEPT ![e] = Tail(@)]
          /\ IF stop THEN UNCHANGED worker ELSE Goto(e, "copying", Head(queue[e]))
    /\ UNCHANGED <<keep, cleanup, disk, toFeed, stop, errors, outcome, wfruns>>

(* _copy_or_skip: source and destination are looked at by size; when the    *)
(* look fails the file counts as not there.  So a copy may go over a good   *)
(* one, and one that fails leaves what it found, or a short file under the  *)
(* final name (nc ends early, mv, and only then the size check).            *)
EdgeCopy(e) ==
    LET f == worker[e].file IN
    /\ worker[e].pc = "copying"
    /\ \/ /\ disk[e][f] = "ok"
          /\ disk' = [disk EXCEPT ![e + 1][f] = "ok"]
          /\ Goto(e, "copied", f)
          /\ UNCHANGED <<queue, stop, errors>>
       \/ /\ disk[e][f] = "ok"
          /\ disk' = [disk EXCEPT ![e + 1][f] = "wrong"]
          /\ EdgeRaises(e)
       \/ UNCHANGED disk /\ EdgeRaises(e)
    /\ UNCHANGED <<keep, cleanup, toFeed, outcome, wfruns>>

(* Mutation: weights are removed from nodes that keep them. *)
MayRemoveAny(e, f) == cleanup /\ e # 0 /\ f \in Weights

(* _cleanup_transit and _forward_file; the removal may fail. *)
MayRemove(e, f) == cleanup /\ e # 0 /\ f \notin keep[e] /\ f \in Weights
EdgeForward(e) ==
    LET f == worker[e].file IN
    /\ worker[e].pc = "copied"
    /\ \/ /\ disk' = IF MayRemove(e, f) THEN [disk EXCEPT ![e][f] = "none"] ELSE disk
          /\ queue' = IF LastNeededIndex(f) > e + 1 /\ e + 1 \in Edges
                      THEN [queue EXCEPT ![e + 1] = Append(@, f)] ELSE queue
          /\ Goto(e, "getting", Sentinel)
          /\ UNCHANGED <<stop, errors>>
       \/ MayRemove(e, f) /\ EdgeRaises(e) /\ UNCHANGED disk
    /\ UNCHANGED <<keep, cleanup, toFeed, outcome, wfruns>>

(* join of all threads *)
WfJoin ==
    /\ outcome = "running" /\ toFeed = <<>>
    /\ \A e \in Edges : worker[e].pc = "ended"
    /\ outcome' = IF errors = {} THEN "ok" ELSE "raised"
    /\ UNCHANGED <<keep, cleanup, disk, toFeed, queue, worker, stop, errors, wfruns>>

(* The tool is killed: only disks are left.  What was being copied arrives, *)
(* or in part, or not.                                                      *)
WfKill ==
    /\ outcome = "running"
    /\ outcome' = "raised"
    /\ worker' = [e \in Edges |-> [pc |-> "ended", file |-> Sentinel]]
    /\ toFeed' = <<>> /\ queue' = [e \in Edges |-> <<>>] /\ stop' = FALSE /\ errors' = {}
    /\ \E now \in [Edges -> {"same", "ok", "wrong"}] :
          disk' = [n \in Nodes |-> [f \in Files |->
                      IF /\ n > 0 /\ worker[n - 1] = [pc |-> "copying", file |-> f]
                         /\ disk[n - 1][f] = "ok" /\ now[n - 1] # "same"
                      THEN now[n - 1] ELSE disk[n][f]]]
    /\ UNCHANGED <<keep, cleanup, wfruns>>

WaterfallNext ==
    \/ WfRun \/ WfFeed \/ WfJoin \/ WfKill
    \/ \E e \in Edges : EdgeStart(e) \/ EdgeGet(e) \/ EdgeCopy(e) \/ EdgeForward(e)

-----------------------------------------------------------------------------
(* A run that reports ok has put every file where a manifest keeps it, and, *)
(* asked to clean up, left no weights on nodes they only passed, also when  *)
(* earlier runs stopped anywhere (build_waterfall_plan, _edge_worker,       *)
(* _cleanup_transit).                                                       *)
WaterfallDelivers ==
    outcome = "ok" =>
        \A n \in Nodes \ {0}, f \in Files :
            /\ f \in keep[n] => disk[n][f] = "ok"
            /\ cleanup /\ f \in Weights \ keep[n] => disk[n][f] = "none"

(* A run ends although a thread died with files in the queues: nobody waits *)
(* for a queue that gets no sentinel (_stop_all_queues, _forward_sentinel). *)
WaterfallEnds == (outcome = "running") ~> (outcome # "running")
=============================================================================
