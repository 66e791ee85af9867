--------------------------- MODULE TelemetryView ---------------------------
(***************************************************************************)
(* From the files of the node monitors to what an operator sees:           *)
(* spark_telemetry_collect.py fetches the file of every node and the state *)
(* of the coordinator's queue in rounds and writes one summary;            *)
(* spark_telemetry_dashboard.py turns a summary into node states each time *)
(* a browser asks.  Nodes fall silent, fetches fail, the coordinator is    *)
(* relaunched with other services, browsers ask at any time.               *)
(***************************************************************************)
EXTENDS Integers, FiniteSets, FiniteSetsExt

CONSTANTS ViewNodes, HeadNode,  \* nodes of one pipeline; the head's engine has the metrics
          LayersOf,             \* its layer partition, ViewNodes -> layers
          ViewServices,
          StaleOk,              \* --stale-ok-seconds of the collector
          SummaryStale,         \* --summary-stale-s of the dashboard
          DownThreshold,        \* NODE_DOWN_ERROR_THRESHOLD
          RoundTime,            \* longest a round takes (ssh and http timeouts)
          MaxNow                \* bound of the clock

ASSUME ViewAssumption ==
    /\ IsFiniteSet(ViewNodes) /\ HeadNode \in ViewNodes /\ LayersOf \in [ViewNodes -> Nat \ {0}] /\ ViewServices # {}
    /\ StaleOk \in Nat /\ SummaryStale \in Nat \ {0} /\ DownThreshold \in Nat \ {0} /\ RoundTime \in Nat /\ MaxNow \in Nat

VARIABLES now,      \* the clock
          coordQ,   \* the coordinator: resident services, and the service of each node's last stage heartbeat
          round,    \* the collector's round: what was fetched, the queue status read, when it began
          copies,   \* ViewNodes -> newest row of the collector's copy of the file, 0 without one
          summary,  \* cluster_summary.json
          dash,     \* the dashboard: the summary it has read, NODE_ERROR_STREAKS
          bad       \* ViewNodes -> summaries with an error for it since the dashboard last saw it well (history)

viewVars == <<now, coordQ, round, copies, summary, dash, bad>>

Todo == [ok |-> FALSE, done |-> FALSE, row |-> 0]
NoRound == [fetched |-> [n \in ViewNodes |-> Todo], since |-> 0, status |-> [ok |-> FALSE, stage |-> [n \in ViewNodes |-> ""]],
            pc |-> "fetch", resident |-> {}]
NoEntry == [row |-> 0, stale |-> FALSE]
NoSummary == [id |-> 0, nodes |-> [n \in ViewNodes |-> NoEntry], service |-> [n \in ViewNodes |-> ""], resident |-> {}]

ViewTypeOK ==
    /\ now \in 1..MaxNow
    /\ coordQ.resident \subseteq ViewServices
    /\ round.pc \in {"fetch", "write"} /\ summary.id \in 0..now
    /\ dash.pc \in {"idle", "count"}
    /\ bad \in [ViewNodes -> Nat]

ViewStart ==
    /\ now = 1
    /\ coordQ = [resident |-> ViewServices, stage |-> [n \in ViewNodes |-> CHOOSE s \in ViewServices : TRUE]]
    /\ round = [NoRound EXCEPT !.since = 1] /\ copies = [n \in ViewNodes |-> 0]
    /\ summary = NoSummary
    /\ dash = [read |-> NoSummary, pc |-> "idle", streak |-> [n \in ViewNodes |-> [observed |-> 0, count |-> 0]]]
    /\ bad = [n \in ViewNodes |-> 0]

-----------------------------------------------------------------------------
(* Around the collector: time (running monitors write at every instant), a  *)
(* coordinator that is relaunched with other resident services, heartbeats  *)
(* of its stages.                                                           *)
BrowserIdle == round.pc = "fetch" /\ \A n \in ViewNodes : ~round.fetched[n].done
ViewTick ==
    /\ now < MaxNow /\ (BrowserIdle \/ now - round.since < RoundTime) /\ now' = now + 1
    /\ UNCHANGED <<coordQ, round, copies, summary, dash, bad>>
Relaunch(services) ==
    /\ coordQ' = [coordQ EXCEPT !.resident = services]
    /\ round' = [round EXCEPT !.resident = @ \cup services]
    /\ UNCHANGED <<now, copies, summary, dash, bad>>
StageHeartbeat(n, s) ==
    /\ s \in coordQ.resident /\ coordQ' = [coordQ EXCEPT !.stage[n] = s]
    /\ UNCHANGED <<now, round, copies, summary, dash, bad>>

-----------------------------------------------------------------------------
(* fetch_node, in threads: the end of the file, or an error.  A round       *)
(* starts --loop-interval after the one before.                             *)
FetchNode(n, ok) ==
    /\ round.pc = "fetch" /\ ~round.fetched[n].done /\ summary.id < now
    /\ round' = [round EXCEPT !.fetched[n] = [ok |-> ok, done |-> TRUE, row |-> IF ok THEN now ELSE 0],
                              !.since = IF BrowserIdle THEN now ELSE @,
                              !.resident = IF BrowserIdle THEN coordQ.resident ELSE @]
    /\ UNCHANGED <<now, coordQ, copies, summary, dash, bad>>

(* read_ds4_api_queue, first call: /ds4/queue/status with pipeline_status.  *)
ReadStatus(ok) ==
    /\ round.pc = "fetch" /\ \A n \in ViewNodes : round.fetched[n].done
    /\ round' = [round EXCEPT !.pc = "write", !.status = [ok |-> ok, stage |-> coordQ.stage]]
    /\ UNCHANGED <<now, coordQ, copies, summary, dash, bad>>

(* read_cached_rows: the last good copy, while its newest row is recent.    *)
CachedRows(n) == IF now - copies[n] <= StaleOk THEN copies[n] ELSE 0

(* summarize_node of a fetched file, of a cached one, of none.              *)
SummarizedNode(n) ==
    LET f == round.fetched[n] IN
    IF f.ok THEN [row |-> f.row, stale |-> FALSE]
    ELSE [row |-> CachedRows(n), stale |-> CachedRows(n) # 0]

(* ds4_api_queue_from_status: a stage's service, if it is still resident    *)
(* when /ds4/dispatcher/status is read.                                     *)
CurrentService(s) == IF s \in coordQ.resident THEN s ELSE ""

(* The rest of collect_once: the other two calls to the coordinator, the    *)
(* copies, and write_combined, which replaces the summary.                  *)
HasError(entry) == entry.row = 0
WriteCombined(ok) ==
    LET nodes == [n \in ViewNodes |-> SummarizedNode(n)] IN
    /\ round.pc = "write"
    /\ copies' = [n \in ViewNodes |-> IF round.fetched[n].ok THEN round.fetched[n].row ELSE copies[n]]
    /\ summary' = [id |-> now, nodes |-> nodes, resident |-> round.resident,
                   service |-> [n \in ViewNodes |-> IF ok /\ round.status.ok THEN CurrentService(round.status.stage[n]) ELSE ""]]
    /\ bad' = [n \in ViewNodes |-> IF HasError(nodes[n]) THEN bad[n] + 1 ELSE bad[n]]
    /\ round' = NoRound /\ UNCHANGED <<now, coordQ, dash>>

-----------------------------------------------------------------------------
(* build_snapshot, when a browser or its event stream asks: the summary is  *)
(* read, then the streaks are kept and the nodes shown.                     *)
ReadSummary ==
    /\ dash.pc = "idle" /\ summary # NoSummary
    /\ dash' = [dash EXCEPT !.pc = "count", !.read = summary] /\ UNCHANGED <<now, coordQ, round, copies, summary, bad>>

(* Mutation: an error is counted once per page. *)
ErrorStreakPages(n) ==
    IF ~HasError(dash.read.nodes[n]) THEN [observed |-> 0, count |-> 0]
    ELSE [observed |-> dash.read.id, count |-> dash.streak[n].count + 1]

(* node_error_streak: an error is counted once per summary.                 *)
ErrorStreak(n) ==
    LET old == dash.streak[n] IN
    IF ~HasError(dash.read.nodes[n]) THEN [observed |-> 0, count |-> 0]
    ELSE IF old.observed = dash.read.id THEN old
    ELSE [observed |-> dash.read.id, count |-> old.count + 1]

(* node_state, and the state of all nodes when the summary itself is old.   *)
OldSummary == now - dash.read.id > SummaryStale
NodeState(n) ==
    IF OldSummary THEN "stale"
    ELSE IF HasError(dash.read.nodes[n]) THEN (IF ErrorStreak(n).count >= DownThreshold THEN "down" ELSE "checking")
    ELSE IF dash.read.nodes[n].stale THEN "stale" ELSE "live"

(* The rate of the model, as its head reports it, is shared out by layers   *)
(* over the nodes that report its stages (layer_share); here for a rate of  *)
(* one token per layer.                                                     *)
LayerShare(n) == IF HasError(dash.read.nodes[HeadNode]) \/ HasError(dash.read.nodes[n]) THEN 0 ELSE LayersOf[n]
Snapshot ==
    /\ dash.pc = "count"
    /\ dash' = [read |-> NoSummary, pc |-> "idle", streak |-> [n \in ViewNodes |-> ErrorStreak(n)]]
    /\ bad' = [n \in ViewNodes |-> IF HasError(dash.read.nodes[n]) THEN bad[n]
                                    ELSE IF HasError(summary.nodes[n]) /\ summary # dash.read THEN 1 ELSE 0]
    /\ UNCHANGED <<now, coordQ, round, copies, summary>>

(* The two questions asked of a round are kept apart: what nodes and        *)
(* browsers do, and what the coordinator does.                              *)
NodesNext ==
    \/ ViewTick
    \/ \E n \in ViewNodes, ok \in BOOLEAN : FetchNode(n, ok)
    \/ ReadStatus(FALSE) \/ WriteCombined(FALSE)
    \/ ReadSummary \/ Snapshot
QueueNext ==
    \/ \E n \in ViewNodes, s \in ViewServices : StageHeartbeat(n, s)
    \/ \E services \in (SUBSET ViewServices) \ {{}} : Relaunch(services)
    \/ \E n \in ViewNodes : FetchNode(n, TRUE)
    \/ \E ok \in BOOLEAN : ReadStatus(ok) \/ WriteCombined(ok)

-----------------------------------------------------------------------------
(* A node is shown down only after DownThreshold summaries without it since *)
(* it was last seen well: refreshing the page, or a summary that stays,     *)
(* does not count again (node_error_streak).  One browser; two that read    *)
(* different summaries can count one of them twice.                         *)
DownMeansSilent == dash.pc = "count" => \A n \in ViewNodes : NodeState(n) = "down" => bad[n] >= DownThreshold

(* What is shown was on the node lately: a node shown as live was read in   *)
(* the round before the screen was drawn, a stale one at most StaleOk       *)
(* before that (read_cached_rows, --summary-stale-s).                       *)
ShownRecent ==
    dash.pc = "count" =>
    \A n \in ViewNodes : LET age == now - dash.read.nodes[n].row IN
        /\ NodeState(n) = "live" => age <= SummaryStale + RoundTime
        /\ NodeState(n) = "stale" /\ ~OldSummary => age <= StaleOk + SummaryStale

(* A service shown at a node was resident while the round ran, although its *)
(* stage rows outlive it and were read before the dispatcher was asked      *)
(* (ds4_api_queue_from_status).                                             *)
ServiceShownServed == \A n \in ViewNodes : summary.service[n] \in summary.resident \cup {""}

TotalLayers(of) == MapThenSumSet(LAMBDA n : of[n], ViewNodes)

(* The tokens of a model are shown once: its nodes together have the rate   *)
(* of the head if all report, and never more (layer_share).                 *)
SharesAddUp ==
    LET all == TotalLayers(LayersOf)
        shown == TotalLayers([n \in ViewNodes |-> LayerShare(n)]) IN
    dash.pc = "count" =>
    /\ shown <= all /\ ((\A n \in ViewNodes : NodeState(n) = "live") => shown = all)
    /\ HasError(dash.read.nodes[HeadNode]) => shown = 0
=============================================================================
