---------------------------- MODULE NodeMonitor ----------------------------
(***************************************************************************)
(* The telemetry monitor of one node (spark_node_telemetry_monitor.py): it *)
(* scrapes the engines of the node, turns their counters into rates and    *)
(* appends rows to a CSV file that other versions of it wrote before.      *)
(* Engines restart and stop answering, the monitor is stopped, killed and  *)
(* started again in another version.                                       *)
(***************************************************************************)
EXTENDS Integers

CONSTANTS Engines,      \* vLLM servers of the node, each serving a model of its own
          Headless,     \* those of them that are a later rank of a pipeline
          Schemas,      \* versions of CSV_FIELDS
          MaxTokens     \* bound: tokens a server makes

ASSUME MonitorAssumption ==
    /\ Headless \subseteq Engines /\ MaxTokens \in Nat
    /\ Schemas # {} /\ {"none", "absent"} \cap Schemas = {}

VARIABLES server,   \* Engines -> [up, total]: does it answer, and its token counter
          made,     \* Engines -> tokens it made since the monitor first saw it (history)
          shownSum, \* Engines -> tokens the reported rates stand for (history)
          monitor,  \* the process: alive, its schema, header not yet flushed, last totals
          csvFile   \* node_telemetry.csv: the schema of its first line, and of its rows

monitorVars == <<server, made, shownSum, monitor, csvFile>>

NoTotals == [e \in {} |-> 0]
NoFile == [header |-> "absent", rows |-> {}]

MonitorTypeOK ==
    /\ server \in [Engines -> [up : BOOLEAN, total : Nat]]
    /\ made \in [Engines -> Nat] /\ shownSum \in [Engines -> Nat]
    /\ monitor.schema \in Schemas /\ monitor.alive \in BOOLEAN /\ monitor.header \in BOOLEAN
    /\ DOMAIN monitor.prev \subseteq Engines \ Headless
    /\ csvFile.header \in Schemas \cup {"none", "absent"} /\ csvFile.rows \subseteq Schemas

MonitorStartState ==
    /\ server = [e \in Engines |-> [up |-> TRUE, total |-> 0]]
    /\ made = [e \in Engines |-> 0] /\ shownSum = [e \in Engines |-> 0]
    /\ monitor = [alive |-> FALSE, schema |-> CHOOSE s \in Schemas : TRUE, header |-> FALSE, prev |-> NoTotals]
    /\ csvFile = NoFile

-----------------------------------------------------------------------------
(* Engines (external): tokens, a restart that resets the counter, a scrape  *)
(* that times out.                                                          *)
MakeToken(e) ==
    /\ e \notin Headless /\ made[e] < MaxTokens
    /\ server' = [server EXCEPT ![e].total = @ + 1] /\ made' = [made EXCEPT ![e] = @ + 1]
    /\ UNCHANGED <<shownSum, monitor, csvFile>>
EngineStops(e) == server[e].up /\ server' = [server EXCEPT ![e].up = FALSE] /\ UNCHANGED <<made, shownSum, monitor, csvFile>>
EngineAnswers(e, reset) ==
    /\ ~server[e].up /\ server' = [server EXCEPT ![e] = [up |-> TRUE, total |-> IF reset THEN 0 ELSE @.total]]
    /\ UNCHANGED <<made, shownSum, monitor, csvFile>>

-----------------------------------------------------------------------------
(* csv_needs_header: a file of another schema is moved away, an empty one   *)
(* is used.                                                                 *)
CsvNeedsHeader(s) == csvFile.header # s
Rotated(s) == IF csvFile.header \in Schemas \ {s} THEN NoFile ELSE csvFile

(* main up to the loop: the file is opened for appending, and the header    *)
(* stays in the buffer until the first rows are flushed.  A restart of the  *)
(* service, or spark_telemetry_stop.py, has ended the monitor before.       *)
Start(s) ==
    /\ ~monitor.alive
    /\ monitor' = [alive |-> TRUE, schema |-> s, header |-> CsvNeedsHeader(s), prev |-> NoTotals]
    /\ csvFile' = IF Rotated(s) = NoFile THEN [NoFile EXCEPT !.header = "none"] ELSE Rotated(s)
    /\ UNCHANGED <<server, made, shownSum>>

(* spark_telemetry_stop.py: SIGTERM, and SIGKILL for what is left.          *)
Stop == monitor.alive /\ monitor' = [monitor EXCEPT !.alive = FALSE, !.header = FALSE] /\ UNCHANGED <<server, made, shownSum, csvFile>>

(* Mutation: later ranks of a pipeline are scraped too. *)
MetricsTargetsAll == Engines

(* metrics_targets: the servers found in the process table, without the     *)
(* headless ranks of a pipeline.  Those that answer are the sources.        *)
MetricsTargets == Engines \ Headless
Answering == {e \in MetricsTargets : server[e].up}
Totals == [e \in Answering |-> server[e].total]

(* read_vllm_metrics: the rate of a model against the totals of the last    *)
(* scrape that had a source; a model it did not list starts at its total.   *)
AtLeastZero(x) == IF x < 0 THEN 0 ELSE x
PrevTotal(e) == IF e \in DOMAIN monitor.prev THEN monitor.prev[e] ELSE server[e].total
RateByModel == [e \in Answering |-> AtLeastZero(server[e].total - PrevTotal(e))]

(* build_rows and one turn of the loop in main.                             *)
NextVllm == IF Answering = {} THEN monitor.prev ELSE Totals
Sample ==
    LET rates == IF monitor.prev = NoTotals THEN [e \in Answering |-> 0] ELSE RateByModel IN
    /\ monitor.alive
    /\ csvFile' = [header |-> IF monitor.header /\ csvFile.header = "none" THEN monitor.schema ELSE csvFile.header,
                   rows |-> csvFile.rows \cup {monitor.schema}]
    /\ monitor' = [monitor EXCEPT !.header = FALSE, !.prev = NextVllm]
    /\ shownSum' = [e \in Engines |-> shownSum[e] + (IF e \in DOMAIN rates THEN rates[e] ELSE 0)]
    /\ UNCHANGED <<server, made>>

MonitorNext ==
    \/ \E e \in Engines : MakeToken(e) \/ EngineStops(e) \/ \E reset \in BOOLEAN : EngineAnswers(e, reset)
    \/ \E s \in Schemas : Start(s)
    \/ Stop \/ Sample

-----------------------------------------------------------------------------
(* The rates of a model never stand for more tokens than it made, however   *)
(* engines restart, vanish for some scrapes and come back, and however      *)
(* often the monitor is restarted (read_vllm_metrics, build_rows).          *)
RatesNeverOver == \A e \in Engines : shownSum[e] <= made[e]

(* A reader that takes the first line for the header and passes over        *)
(* repeated ones (read_rows of the collector) reads every row with the      *)
(* columns it was written with, after any upgrade, and after a monitor that *)
(* was killed before its header reached the file (csv_needs_header).        *)
RowsUnderHeader == csvFile.rows \subseteq {csvFile.header}
=============================================================================
