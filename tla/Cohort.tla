------------------------------- MODULE Cohort -------------------------------
(***************************************************************************)
(* The pipeline runner (runners.py, cohort_safety.py, coalesced_groups.py, *)
(* chat_streaming.py): a cohort of claimed requests is cut into chunks the *)
(* engine can take, every chunk is one HTTP request (or a pool of them)    *)
(* and every member must come back with one result.  The text of a member  *)
(* is the number of deltas received; Whole of them are the whole answer.   *)
(***************************************************************************)
EXTENDS Integers, Sequences, FiniteSets, SequencesExt

CONSTANTS Cohorts,          \* cohorts to run: [items, route, client, cancelable]
          MaxCohort,        \* _completion_effective_max_cohort
          TokenBudget,      \* coalesced_completion_token_budget, 0 for none
          ChunkConcurrency, \* _completion_chunk_concurrency
          Whole             \* bound: deltas of an answer

ASSUME CohortAssumption ==
    /\ MaxCohort \in Nat \ {0} /\ TokenBudget \in Nat
    /\ ChunkConcurrency \in Nat \ {0} /\ Whole \in Nat \ {0}
    /\ \A c \in Cohorts : c.items \in Seq(Range(c.items)) /\ \A r \in Range(c.items) : r.tokens \in Nat

VARIABLES cohort,    \* the cohort of this run: items are [chat, key, tokens]
          mode,      \* the transport chosen for it
          work,      \* per chunk: the sub-chunks its thread has still to run
          open,      \* per chunk: the stream of its first sub-chunk is open
          text,      \* per member: deltas received
          answer,    \* per member: the result given to on_result
          calls,     \* per member: how often on_result was called
          cancelEvent,
          returned   \* run_many_on_node_incremental has returned and the worker has settled

cohortVars == <<cohort, mode, work, open, text, answer, calls, cancelEvent, returned>>

None == <<>>
MembersOf(c) == [i \in DOMAIN c.items |-> i]
ItemKey(c, m) == c.items[m].key
AllChat(c) == \A m \in DOMAIN c.items : c.items[m].chat

(* _completion_cohort_chunks: a chunk is closed when it is full or when the *)
(* next request would pass the token budget; a lone request always fits.    *)
Tokens(c, chunk) == FoldLeft(LAMBDA sum, i : sum + c.items[i].tokens, 0, chunk)
ChunkFull(c, chunk, m) ==
    \/ Len(chunk) >= MaxCohort
    \/ TokenBudget > 0 /\ chunk # <<>> /\ Tokens(c, chunk) + c.items[m].tokens > TokenBudget
CohortChunks(c, group) ==
    FoldLeft(LAMBDA chunks, m :
                IF chunks = <<>> \/ ChunkFull(c, Last(chunks), m)
                THEN Append(chunks, <<m>>)
                ELSE Front(chunks) \o <<Append(Last(chunks), m)>>,
             <<>>, group)

(* plan_compatible_payload_groups: requests whose payloads differ only in   *)
(* the prompt form a group; None when one of them cannot be a completion or *)
(* a group is too small.                                                    *)
GroupOf(c, groups, m) == {g \in DOMAIN groups : ItemKey(c, groups[g][1]) = ItemKey(c, m)}
Groups(c) ==
    FoldLeft(LAMBDA groups, m :
                IF GroupOf(c, groups, m) = {}
                THEN Append(groups, <<m>>)
                ELSE [g \in DOMAIN groups |-> IF g \in GroupOf(c, groups, m) THEN Append(groups[g], m) ELSE groups[g]],
             <<>>, MembersOf(c))
CompletionPlan(c, minimum) ==
    LET groups == Groups(c)
    IN  IF (\E m \in DOMAIN c.items : c.items[m].chat) \/ \E i \in DOMAIN groups : Len(groups[i]) < minimum
        THEN None
        ELSE FoldLeft(LAMBDA chunks, group : chunks \o CohortChunks(c, group), <<>>, groups)

(* The chat transports: the parallel ones post each member on its own, the  *)
(* others need one payload for a chunk.                                     *)
Parallel(c) == c.route \in {"parallel_chat_completions", "parallel_completion_prompts"}
CancelableMinimum(c) == IF c.cancelable THEN 1 ELSE 2
ChatPlan(c) ==
    LET chunks == CohortChunks(c, MembersOf(c))
        fits(chunk) == Cardinality({ItemKey(c, chunk[i]) : i \in DOMAIN chunk}) = 1
    IN  IF /\ AllChat(c)
           /\ Len(c.items) >= (IF Parallel(c) THEN CancelableMinimum(c) ELSE 2)
           /\ Parallel(c) \/ \A i \in DOMAIN chunks : fits(chunks[i])
        THEN chunks ELSE None

(* run_many_on_node(_incremental): chat cohort, else streamed completion    *)
(* cohort, else completion cohort, else one request each.                   *)
Mode(c) ==
    IF ~c.client /\ ChatPlan(c) # None THEN (IF Parallel(c) THEN "pool" ELSE "post")
    ELSE IF (c.client \/ c.cancelable) /\ CompletionPlan(c, CancelableMinimum(c)) # None THEN "stream"
    ELSE IF CompletionPlan(c, 2) # None THEN "post"
    ELSE "single"
ChunksOf(c) ==
    IF ~c.client /\ ChatPlan(c) # None THEN ChatPlan(c)
    ELSE IF Mode(c) = "stream" THEN CompletionPlan(c, CancelableMinimum(c))
    ELSE IF Mode(c) = "post" THEN CompletionPlan(c, 2)
    ELSE [m \in DOMAIN c.items |-> <<m>>]

Members == DOMAIN cohort.items
CohortTypeOK ==
    /\ cohort \in Cohorts /\ mode \in {"pool", "post", "stream", "single"} /\ returned \in BOOLEAN /\ cancelEvent \in BOOLEAN
    /\ text \in [Members -> 0..Whole] /\ calls \in [Members -> 0..2]
    /\ answer \in [Members -> {"none", "whole", "short", "cut", "failed"}]
    /\ open \in [DOMAIN work -> BOOLEAN]

CohortStart(c) ==
    /\ cohort = c /\ mode = Mode(c)
    /\ work = [i \in DOMAIN ChunksOf(c) |-> <<ChunksOf(c)[i]>>]
    /\ open = [i \in DOMAIN ChunksOf(c) |-> FALSE]
    /\ text = [m \in DOMAIN c.items |-> 0]
    /\ answer = [m \in DOMAIN c.items |-> "none"]
    /\ calls = [m \in DOMAIN c.items |-> 0]
    /\ cancelEvent = FALSE /\ returned = FALSE
CohortInit == \E c \in Cohorts : CohortStart(c)

(* The executor takes chunks in order, ChunkConcurrency at a time; chunks   *)
(* of a pool run one after the other.                                       *)
Unfinished == {i \in DOMAIN work : work[i] # <<>>}
Running(i) ==
    /\ i \in Unfinished
    /\ Cardinality({j \in Unfinished : j < i}) < (IF mode = "pool" THEN 1 ELSE ChunkConcurrency)
Current(i) == Head(work[i])
Waiting(i) == {m \in Range(Current(i)) : answer[m] = "none"}

(* on_result for a set of members, and the thread's next sub-chunk.  The    *)
(* chat batch loop stops after a chunk once it sees the cancel event.       *)
Report(S, verdict(_)) ==
    /\ answer' = [m \in Members |-> IF m \in S THEN verdict(m) ELSE answer[m]]
    /\ calls' = [m \in Members |-> IF m \in S THEN calls[m] + 1 ELSE calls[m]]
Failure(m) == "failed"
ChatBatch == AllChat(cohort) /\ mode = "post" /\ cohort.route = "batch_endpoint"
NextSubchunk(i) ==
    /\ work' = IF ChatBatch /\ cancelEvent THEN [j \in DOMAIN work |-> <<>>] ELSE [work EXCEPT ![i] = Tail(@)]
    /\ open' = [open EXCEPT ![i] = FALSE]
Halves(s) == LET mid == Len(s) \div 2 IN <<SubSeq(s, 1, mid), SubSeq(s, mid + 1, Len(s))>>

(* _run_completion_chunk, _run_chat_chunk, run_one: the response holds a    *)
(* choice, with its index, for some of the prompts; the others fail.        *)
PostAnswers(i, present) ==
    /\ mode \in {"post", "single"} /\ Running(i) /\ present \subseteq Waiting(i)
    /\ Report(Waiting(i), LAMBDA m : IF m \in present THEN "whole" ELSE "failed")
    /\ NextSubchunk(i)
    /\ UNCHANGED <<cohort, mode, text, cancelEvent, returned>>

(* The request is refused.  A refusal for its size (HTTP 400 and 413, out   *)
(* of memory, context length) splits a chunk in two halves, run one after   *)
(* the other by the same thread; chat members cannot be made a completion   *)
(* payload again, and _run_chat_chunk does not split at all.                *)
Splits(i, size) == size /\ Len(Current(i)) > 1 /\ ~AllChat(cohort)
RequestRefused(i, size) ==
    /\ mode \in {"post", "single", "stream"} /\ Running(i) /\ ~open[i]
    /\ IF Splits(i, size)
       THEN work' = [work EXCEPT ![i] = Halves(Head(@)) \o Tail(@)] /\ UNCHANGED <<open, answer, calls>>
       ELSE Report(Waiting(i), Failure) /\ NextSubchunk(i)
    /\ UNCHANGED <<cohort, mode, text, cancelEvent, returned>>

StreamOpens(i) ==
    /\ mode = "stream" /\ Running(i) /\ ~open[i]
    /\ open' = [open EXCEPT ![i] = TRUE]
    /\ UNCHANGED <<cohort, mode, work, text, answer, calls, cancelEvent, returned>>

(* _run_completion_stream_chunk: an event for one member, its last one with *)
(* a finish reason.  After an event the wall deadline (late) and the cancel *)
(* event fail the members that have not finished.                           *)
StreamEvent(i, m, late) ==
    /\ mode = "stream" /\ Running(i) /\ open[i] /\ m \in Waiting(i)
    /\ text' = [text EXCEPT ![m] = @ + 1]
    /\ LET done == {m} \cap {n \in Waiting(i) : text'[n] = Whole}
           stop == late \/ cancelEvent
       IN  /\ Report(IF stop THEN Waiting(i) ELSE done, LAMBDA n : IF n \in done THEN "whole" ELSE "failed")
           /\ IF stop \/ Waiting(i) = done THEN NextSubchunk(i) ELSE UNCHANGED <<work, open>>
    /\ UNCHANGED <<cohort, mode, cancelEvent, returned>>

(* _post_sse_json ends without an error when the connection is closed and   *)
(* when it sees the cancel event between two events: whoever has some text  *)
(* is given it as a completed result.                                       *)
StreamEnds(i) ==
    /\ mode = "stream" /\ Running(i) /\ open[i]
    /\ Report(Waiting(i), LAMBDA m : IF text[m] = 0 THEN "failed" ELSE IF cancelEvent THEN "cut" ELSE "short")
    /\ NextSubchunk(i)
    /\ UNCHANGED <<cohort, mode, text, cancelEvent, returned>>

(* A read error, or an idle timeout where one is set.  Its text asks for no *)
(* split.                                                                   *)
StreamBreaks(i) ==
    /\ mode = "stream" /\ Running(i) /\ open[i]
    /\ Report(Waiting(i), Failure) /\ NextSubchunk(i)
    /\ UNCHANGED <<cohort, mode, text, cancelEvent, returned>>

(* _run_many_chat_parallel and _run_many_chat_completion_parallel: a member *)
(* of the chunk comes back, with what it has when its stream was closed or, *)
(* as a completion prompt, cut by the event; what came before the event may *)
(* be collected after it.  If the event is set then, the loop stops: a chat *)
(* pool fails the rest of this chunk, a completion-prompt pool leaves it    *)
(* without a result, and later chunks are not started.                      *)
PoolResult(result) ==
    \/ result \in {"whole", "short", "failed"}
    \/ result = "cut" /\ cancelEvent /\ cohort.route = "parallel_completion_prompts"
PoolAnswers(i, m, result) ==
    /\ mode = "pool" /\ Running(i) /\ m \in Waiting(i) /\ PoolResult(result)
    /\ LET rest == cancelEvent /\ cohort.route = "parallel_chat_completions"
       IN  Report(IF rest THEN Waiting(i) ELSE {m}, LAMBDA n : IF n = m THEN result ELSE "failed")
    /\ work' = IF cancelEvent THEN [j \in DOMAIN work |-> <<>>]
               ELSE IF Waiting(i) = {m} THEN [work EXCEPT ![i] = <<>>] ELSE work
    /\ UNCHANGED <<cohort, mode, open, text, cancelEvent, returned>>

(* Chunks run one after the other are not started once the event is set.    *)
SkipChunks ==
    /\ cancelEvent /\ Unfinished # {}
    /\ mode = "pool" \/ (ChatBatch /\ ChunkConcurrency = 1)
    /\ \A i \in Unfinished : \A m \in Range(work[i][1]) : answer[m] = "none"
    /\ work' = [i \in DOMAIN work |-> <<>>]
    /\ UNCHANGED <<cohort, mode, open, text, answer, calls, cancelEvent, returned>>

(* The worker sets the event as soon as one member of the cohort has been   *)
(* cancelled.                                                               *)
CancelMember ==
    /\ cohort.cancelable /\ ~cancelEvent /\ ~returned /\ cancelEvent' = TRUE
    /\ UNCHANGED <<cohort, mode, work, open, text, answer, calls, returned>>

(* The runner returns; the worker fails whoever it has no result for.       *)
CohortReturns ==
    /\ Unfinished = {} /\ ~returned /\ returned' = TRUE
    /\ answer' = [m \in Members |-> IF answer[m] = "none" THEN "failed" ELSE answer[m]]
    /\ UNCHANGED <<cohort, mode, work, open, text, calls, cancelEvent>>

CohortNext ==
    \/ \E i \in DOMAIN work :
          \/ \E present \in SUBSET Members : PostAnswers(i, present)
          \/ \E size \in BOOLEAN : RequestRefused(i, size)
          \/ StreamOpens(i) \/ StreamEnds(i) \/ StreamBreaks(i)
          \/ \E m \in Members, late \in BOOLEAN : StreamEvent(i, m, late)
          \/ \E m \in Members, result \in {"whole", "short", "cut", "failed"} : PoolAnswers(i, m, result)
    \/ SkipChunks \/ CancelMember \/ CohortReturns

(* What a chunk asks of the engine stays within the limits of the profile,  *)
(* a lone request excepted: also the halves of a refused chunk.             *)
WithinBudget ==
    \A i \in Unfinished : \A j \in DOMAIN work[i] :
        LET chunk == work[i][j]
        IN  \/ Len(chunk) = 1 \/ mode = "single"
            \/ /\ Len(chunk) \in 2..MaxCohort
               /\ TokenBudget > 0 => Tokens(cohort, chunk) <= TokenBudget

(* Nobody is forgotten: unless a member was cancelled, the runner itself    *)
(* has a result for every member when it returns, however often chunks were *)
(* refused, split or broken.                                                *)
NobodyForgotten == returned /\ ~cancelEvent => \A m \in Members : calls[m] = 1

(* on_result is final: it is called once for a member, and no later chunk,  *)
(* half or cancellation changes what it was given.                          *)
ResultFinal ==
    [][\A m \in Members : calls[m] = 1 => calls'[m] = 1 /\ answer'[m] = answer[m]]_cohortVars

(* Cancelling ends the run whatever the engine does: every loop looks at    *)
(* the event.                                                               *)
CancelReturns == cancelEvent ~> returned
=============================================================================
