---------------------------- MODULE BatchClients ----------------------------
(***************************************************************************)
(* Two batch clients of one coordinator: the evaluation runner             *)
(* (ds4_eval_api_runner.py run), which follows the event log and grades    *)
(* each answer as it arrives, and the queue benchmark                      *)
(* (ds4_api_queue_benchmark.py), which watches the batch status.  Each     *)
(* submits a batch; events of the other batch, of retries and of streamed  *)
(* text are what it has to read past.  Every request to the coordinator is *)
(* an action, since the queue moves on between two of them.                *)
(***************************************************************************)
EXTENDS Integers, Sequences, FiniteSets, SequencesExt

CONSTANTS EvalIds, BenchIds,  \* request ids of the two batches
          EventPage,          \* limit of /ds4/queue/poll
          MaxRowRuns,            \* attempts a request has
          RunOptions,         \* a set of Options
          StreamIds,          \* bound: the requests that stream a chunk of text
          MaxUnread           \* bound: events beyond which requests wait for the runner to read

ASSUME BatchAssumption ==
    /\ EvalIds \cap BenchIds = {} /\ EvalIds # {} /\ IsFiniteSet(EvalIds) /\ IsFiniteSet(BenchIds)
    /\ EventPage \in Nat \ {0} /\ MaxRowRuns \in [EvalIds \cup BenchIds -> Nat \ {0}] /\ MaxUnread \in Nat
    /\ StreamIds \subseteq EvalIds \cup BenchIds
    /\ RunOptions \subseteq [timeout : BOOLEAN, progress : BOOLEAN, abort : BOOLEAN, cancel : BOOLEAN]

VARIABLES row,      \* per request: state, attempts, a chunk streamed, and whether its text is right
          backlog,   \* the event log after the runner's cursor: [id, delta, state]
          evals,    \* the evaluation runner
          bench     \* the benchmark

batchVars == <<row, backlog, evals, bench>>

BatchIds == EvalIds \cup BenchIds
EndStates == {"completed", "failed", "cancelled"}
RowStates == EndStates \cup {"unknown", "queued", "running"}
NotYet == [state |-> "unknown", right |-> FALSE, runs |-> 0, streamed |-> FALSE]

(* _refresh_batch: the state of a batch, kept with every change of a row.   *)
AllEnded(ids) == \A r \in ids : row[r].state \in EndStates
QueueEvent(r, delta, s) == [id |-> r, delta |-> delta, state |-> IF s \in EndStates THEN s ELSE "open"]

(* _event: the log matters from where the runner reads on.                  *)
Logged(es) == backlog' = IF evals.pc \in {"start", "ended", "aborted", "timeout"} THEN <<>> ELSE backlog \o es

BatchTypeOK ==
    /\ row \in [BatchIds -> [state : RowStates, right : BOOLEAN, runs : Nat, streamed : BOOLEAN]]
    /\ \A k \in DOMAIN backlog : backlog[k].id \in BatchIds /\ backlog[k].state \in EndStates \cup {"open"} /\ backlog[k].delta \in BOOLEAN
    /\ evals.pc \in {"start", "submit", "poll", "handle", "collect", "ended", "aborted", "timeout"}
    /\ evals.pending \subseteq EvalIds
    /\ bench.pc \in {"start", "watch", "collect", "ended", "timeout"}

(* RunOptions: a timeout that fires, a progress interval, an accuracy *)
(* below which the run is given up, /ds4/queue/cancel on a timeout.         *)
BatchStart(o) ==
    /\ row = [r \in BatchIds |-> NotYet] /\ backlog = <<>>
    /\ evals = [pc |-> "start", opt |-> o, pending |-> EvalIds, answers |-> <<>>, page |-> <<>>,
                live |-> 0, grade |-> [total |-> 0, passed |-> 0]]
    /\ bench = [pc |-> "start", opt |-> o, completed |-> 0, failed |-> 0, valid |-> TRUE]
BatchInit == \E o \in RunOptions : BatchStart(o)

-----------------------------------------------------------------------------
(* The coordinator, as these clients see it.                                *)
Submitted(ids) == /\ row' = [r \in BatchIds |-> IF r \in ids THEN [NotYet EXCEPT !.state = "queued"] ELSE row[r]]
                  /\ Logged(SetToSeq({QueueEvent(r, FALSE, "queued") : r \in ids}))

RunRow(r) ==
    /\ row[r].state = "queued" /\ row[r].runs < MaxRowRuns[r]
    /\ row' = [row EXCEPT ![r].state = "running", ![r].runs = @ + 1]
    /\ Logged(<<QueueEvent(r, FALSE, "running")>>) /\ UNCHANGED <<evals, bench>>

(* A transport failure or an expired lease; the last attempt fails.         *)
RetryRow(r) ==
    LET s == IF row[r].runs < MaxRowRuns[r] THEN "queued" ELSE "failed" IN
    /\ row[r].state = "running" /\ row' = [row EXCEPT ![r].state = s]
    /\ Logged(<<QueueEvent(r, FALSE, s)>>) /\ UNCHANGED <<evals, bench>>
Outcomes(r) == IF r \in EvalIds THEN BOOLEAN ELSE {TRUE}
FinishRow(r, right) ==
    /\ row[r].state = "running" /\ row' = [row EXCEPT ![r].state = "completed", ![r].right = right]
    /\ Logged(<<QueueEvent(r, FALSE, "completed")>>) /\ UNCHANGED <<evals, bench>>

(* stream_delta logs the state the row has now, which may be an end state   *)
(* when a chunk comes late.                                                 *)
RowDelta(r) ==
    /\ r \in StreamIds /\ row[r].runs > 0 /\ ~row[r].streamed
    /\ row' = [row EXCEPT ![r].streamed = TRUE]
    /\ Logged(<<QueueEvent(r, TRUE, row[r].state)>>) /\ UNCHANGED <<evals, bench>>

(* cancel with force_running: every request of the batch that has not ended *)
Cancelled(ids) ==
    LET open == {r \in ids : row[r].state \notin EndStates} IN
    /\ row' = [r \in BatchIds |-> IF r \in open THEN [row[r] EXCEPT !.state = "cancelled"] ELSE row[r]]
    /\ Logged(SetToSeq({QueueEvent(r, FALSE, "cancelled") : r \in open}))

(* poll: the oldest events after the cursor, and the newest of them.        *)
PageSize == IF EventPage < Len(backlog) THEN EventPage ELSE Len(backlog)

-----------------------------------------------------------------------------
(* The evaluation runner.  _submit_eval_batch: the newest event is read     *)
(* before the batch is submitted.                                           *)
EvalNewest ==
    /\ evals.pc = "start"
    /\ evals' = [evals EXCEPT !.pc = "submit"] /\ backlog' = <<>> /\ UNCHANGED <<row, bench>>
EvalSubmit ==
    /\ evals.pc = "submit" /\ Submitted(EvalIds)
    /\ evals' = [evals EXCEPT !.pc = "poll"] /\ UNCHANGED bench

(* Mutation: the cursor moves to the newest event of the log. *)
NewestOfLog(page) == Len(backlog)

(* _poll_live_answers: the cursor moves past the page that was read.        *)
NewestOf(page) == Len(page)
EvalPoll ==
    LET page == SubSeq(backlog, 1, PageSize) IN
    /\ evals.pc = "poll" /\ page # <<>>
    /\ evals' = [evals EXCEPT !.pc = "handle", !.page = page]
    /\ backlog' = SubSeq(backlog, NewestOf(page) + 1, Len(backlog))
    /\ UNCHANGED <<row, bench>>

(* _answer_record of the row as it is now; _append_answer.                  *)
AnswerRecord(r) == [id |-> r, state |-> row[r].state, passed |-> row[r].right]
Passed(answers) == Cardinality({k \in DOMAIN answers : answers[k].passed})

(* _should_abort_for_accuracy: after the first answer, below one half.      *)
BelowAccuracy(answers) == evals.opt.abort /\ answers # <<>> /\ 2 * Passed(answers) < Len(answers)

(* Mutation: only a completed request counts as answered. *)
AnswersCompleted(e) == e.id \in evals.pending /\ ~e.delta /\ e.state = "completed"

(* _handle_poll_events, one event: events of others, of requests already    *)
(* answered, text and states that are not final are passed over.            *)
Answers(e) == e.id \in evals.pending /\ ~e.delta /\ e.state \in EndStates
EvalHandle ==
    LET e == Head(evals.page)
        answers == IF Answers(e) THEN Append(evals.answers, AnswerRecord(e.id)) ELSE evals.answers
        pending == IF Answers(e) THEN evals.pending \ {e.id} ELSE evals.pending
        next == [evals EXCEPT !.page = Tail(@), !.answers = answers, !.pending = pending] IN
    /\ evals.pc = "handle"
    /\ IF Answers(e) /\ BelowAccuracy(answers)
       THEN evals' = [next EXCEPT !.pc = "aborted"] /\ Cancelled(EvalIds)
       ELSE /\ evals' = [next EXCEPT !.pc =
                   IF next.page # <<>> THEN "handle" ELSE IF pending = {} THEN "collect" ELSE "poll"]
            /\ UNCHANGED <<row, backlog>>
    /\ UNCHANGED bench

(* _wait_or_stop after a page or an empty poll: when progress is due, a     *)
(* batch that has ended ends the following too; then the timeout.           *)
EvalProgress ==
    /\ evals.pc = "poll" /\ evals.opt.progress /\ AllEnded(EvalIds)
    /\ evals' = [evals EXCEPT !.pc = "collect", !.pending = {}] /\ UNCHANGED <<row, backlog, bench>>
EvalTimeout ==
    /\ evals.pc = "poll" /\ evals.opt.timeout
    /\ evals' = [evals EXCEPT !.pc = "timeout"]
    /\ IF evals.opt.cancel THEN Cancelled(EvalIds) ELSE UNCHANGED <<row, backlog>>
    /\ UNCHANGED bench

(* run_eval after the loop: the batch is collected, what was not answered   *)
(* live is added (_backfill_answers), and the collected rows are graded.    *)
Backfilled(answers) ==
    LET seen == {answers[k].id : k \in DOMAIN answers} IN
    answers \o SetToSeq({AnswerRecord(r) : r \in EvalIds \ seen})
GradeCollect == [total |-> Cardinality(EvalIds), passed |-> Cardinality({r \in EvalIds : row[r].right})]
EvalCollect ==
    /\ evals.pc = "collect"
    /\ evals' = [evals EXCEPT !.pc = "ended", !.answers = Backfilled(@), !.live = Len(evals.answers), !.grade = GradeCollect]
    /\ UNCHANGED <<row, backlog, bench>>

-----------------------------------------------------------------------------
(* The benchmark, _submit_and_collect.                                      *)
BenchSubmit ==
    /\ bench.pc = "start" /\ Submitted(BenchIds)
    /\ bench' = [bench EXCEPT !.pc = "watch"] /\ UNCHANGED evals
BenchStatus ==
    /\ bench.pc = "watch" /\ AllEnded(BenchIds)
    /\ bench' = [bench EXCEPT !.pc = "collect"] /\ UNCHANGED <<row, backlog, evals>>
BenchTimeout ==
    /\ bench.pc = "watch" /\ bench.opt.timeout
    /\ bench' = [bench EXCEPT !.pc = "timeout"]
    /\ IF bench.opt.cancel THEN Cancelled(BenchIds) ELSE UNCHANGED <<row, backlog>>
    /\ UNCHANGED evals

(* _benchmark_metrics: rows completed and not, and whether the rates mean   *)
(* anything (no request ran twice).                                         *)
CompletedRows == {r \in BenchIds : row[r].state = "completed"}
FailedRows == BenchIds \ CompletedRows
PerfValid == \A r \in BenchIds : row[r].runs <= 1
BenchCollect ==
    /\ bench.pc = "collect"
    /\ bench' = [bench EXCEPT !.pc = "ended", !.completed = Cardinality(CompletedRows),
                              !.failed = Cardinality(FailedRows), !.valid = PerfValid]
    /\ UNCHANGED <<row, backlog, evals>>

BatchNext ==
    \/ Len(backlog) < MaxUnread /\ \E r \in BatchIds : RunRow(r) \/ RetryRow(r) \/ RowDelta(r) \/ \E right \in Outcomes(r) : FinishRow(r, right)
    \/ EvalNewest \/ EvalSubmit \/ EvalPoll \/ EvalHandle \/ EvalProgress \/ EvalTimeout \/ EvalCollect
    \/ BenchSubmit \/ BenchStatus \/ BenchTimeout \/ BenchCollect

-----------------------------------------------------------------------------
(* No end is read past: the final event of a request that still counts as   *)
(* pending is in the page at hand or after the cursor, whatever pages,      *)
(* other batches and late text lie between (_submit_eval_batch,             *)
(* _poll_live_answers).                                                     *)
EndStillAhead ==
    evals.pc \in {"poll", "handle"} =>
    \A r \in evals.pending :
        row[r].state \in EndStates =>
        \/ \E k \in DOMAIN evals.page : evals.page[k] = QueueEvent(r, FALSE, row[r].state)
        \/ \E k \in DOMAIN backlog : backlog[k] = QueueEvent(r, FALSE, row[r].state)

(* A run that ended has every request once, in its final state, and its     *)
(* answers tell the same score as the collected rows, although some were    *)
(* graded live and the others at the end (_backfill_answers,                *)
(* grade_collect).                                                          *)
AnsweredOnce ==
    evals.pc = "ended" =>
    /\ Len(evals.answers) = Cardinality(EvalIds) /\ {evals.answers[k].id : k \in DOMAIN evals.answers} = EvalIds
    /\ \A k \in DOMAIN evals.answers :
          evals.answers[k] = AnswerRecord(evals.answers[k].id) /\ evals.answers[k].state \in EndStates
    /\ evals.grade = [total |-> Len(evals.answers), passed |-> Passed(evals.answers)]

(* Nothing is left running by a client that gave up and cancels: its batch  *)
(* has ended, running requests too (force_running).                         *)
NothingLeftRunning ==
    /\ evals.pc = "aborted" \/ (evals.pc = "timeout" /\ evals.opt.cancel) => AllEnded(EvalIds)
    /\ bench.pc = "timeout" /\ bench.opt.cancel => AllEnded(BenchIds)

(* The benchmark's exit status and its validity are those of the batch: it  *)
(* succeeds only if every request completed, and rates count only if each   *)
(* ran once (_benchmark_metrics, main).                                     *)
BenchTruthful ==
    bench.pc = "ended" =>
    /\ AllEnded(BenchIds)
    /\ (bench.failed = 0) = (\A r \in BenchIds : row[r].state = "completed")
    /\ bench.valid => \A r \in BenchIds : row[r].runs <= 1

(* Without a timeout the runner still ends: every request ends, and its     *)
(* end is seen without the progress check.                                  *)
EvalEnds == ~evals.opt.timeout ~> evals.pc \in {"ended", "aborted"}
=============================================================================
