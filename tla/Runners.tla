------------------------------ MODULE Runners ------------------------------
(***************************************************************************)
(* The parts of the model runners (runners.py, chat_streaming.py,          *)
(* runner_payloads.py) below a cohort:                                     *)
(*   - one member read from an event stream, whose deltas cut the text     *)
(*     anywhere: a chat stream, or a completion that stops on the answer;  *)
(*   - a batch posted over ssh to the batch service of a Spark, or one     *)
(*     request posted to an engine with a fallback endpoint;               *)
(*   - the payload of a request, assembled from five sources.              *)
(***************************************************************************)
EXTENDS Integers, Sequences, SequencesExt

CONSTANTS DirectIds,     \* the requests of a batch, in order
          MaxText        \* bound: tokens the engine sends for a member

ASSUME RunnersAssumption ==
    /\ MaxText \in Nat \ {0} /\ DirectIds \in Seq(STRING) /\ DirectIds # <<>>
    /\ IsInjective(DirectIds) /\ ToSet(DirectIds) \cap {"", "none", "failed"} = {}

VARIABLES member,    \* one member and its stream
          batch,     \* one batch of a runner that posts directly
          asked      \* a request, as far as its payload depends on it

runnerVars == <<member, batch, asked>>

-----------------------------------------------------------------------------
(* One member of a cohort.  Tokens: a word, the marker of an answer line   *)
(* with a value on it, a line end, and the two halves of </think>.         *)

Tokens == {"word", "Answer", "newline", "</thi", "nk>"}
CloseAt(s) == {i \in 1..Len(s) - 1 : s[i] = "</thi" /\ s[i + 1] = "nk>"}
FirstOf(S) == CHOOSE x \in S : \A y \in S : x <= y

(* strip_visible_thinking *)
Strip(s) == IF CloseAt(s) = {} THEN s ELSE SubSeq(s, FirstOf(CloseAt(s)) + 2, Len(s))

(* _answer_marker_early_stop_text: up to the end of the first whole answer *)
(* line after the thinking, or <<>>                                        *)
StopText(s) ==
    LET from == IF CloseAt(s) = {} THEN 1 ELSE FirstOf(CloseAt(s)) + 2
        markers == {i \in from..Len(s) : s[i] = "Answer" /\ (i = from \/ s[i - 1] = "newline")}
        ends(i) == {j \in i + 1..Len(s) : s[j] = "newline"}
        whole == {i \in markers : ends(i) # {}}
    IN  IF whole = {} THEN <<>> ELSE SubSeq(s, 1, FirstOf(ends(FirstOf(whole))) - 1)

(* the engine closes its thinking once, with a whole marker *)
EngineTexts ==
    {s \in UNION {[1..n -> Tokens] : n \in 1..MaxText} :
        \A i, j \in DOMAIN s : s[i] = "</thi" /\ s[j] = "nk>" => j = i + 1}
    \ {s \in UNION {[1..n -> Tokens] : n \in 1..MaxText} :
        ("</thi" \in ToSet(s)) # ("nk>" \in ToSet(s))}

MemberStart(kind, out, stops) ==
    member = [kind |-> kind, out |-> out, stops |-> stops, pos |-> 0, text |-> <<>>,
              status |-> "streaming", early |-> FALSE, finished |-> FALSE, cancelled |-> FALSE]

Streaming == member.status = "streaming"
Completes(m, t, isEarly) == [m EXCEPT !.text = t, !.status = "completed", !.early = isEarly]

(* run_parallel_chat_stream, after an event *)
ChatEvent(m, fin) ==
    IF fin THEN Completes(m, Strip(m.text), FALSE)
    ELSE IF m.cancelled THEN [m EXCEPT !.status = "failed"]
    ELSE m

(* _run_one_chat_completion_parallel_member_stream, after an event *)
PromptEvent(m, fin) ==
    IF m.stops /\ StopText(m.text) # <<>> THEN Completes(m, StopText(m.text), TRUE)
    ELSE IF fin THEN Completes(m, m.text, FALSE)
    ELSE m

(* an event of the engine: a delta of one or two tokens, and the finish    *)
(* reason with the last one.  An event read when the cancel came is still  *)
(* handed on.                                                              *)
StreamEventArrives ==
    /\ Streaming /\ member.pos < Len(member.out)
    /\ \E k \in 1..2, fin \in BOOLEAN :
        /\ member.pos + k <= Len(member.out)
        /\ fin => member.pos + k = Len(member.out)
        /\ LET delta == SubSeq(member.out, member.pos + 1, member.pos + k)
               m == [member EXCEPT !.pos = @ + k, !.text = @ \o Strip(delta), !.finished = fin]
           IN  member' = IF m.kind = "chat" THEN ChatEvent(m, fin) ELSE PromptEvent(m, fin)
    /\ UNCHANGED <<batch, asked>>

(* the connection ends without a finish reason, or the cancel is seen      *)
(* between two events                                                      *)
StreamStops ==
    /\ Streaming
    /\ member' = IF (member.kind = "chat" /\ member.cancelled) \/ member.text = <<>>
                 THEN [member EXCEPT !.status = "failed"]
                 ELSE Completes(member, IF member.kind = "chat" THEN Strip(member.text)
                                        ELSE member.text, FALSE)
    /\ UNCHANGED <<batch, asked>>

(* an error while reading *)
StreamRaises ==
    /\ Streaming
    /\ member' = [member EXCEPT !.status = "failed"]
    /\ UNCHANGED <<batch, asked>>

(* cancel_event of the worker *)
CancelMemberStream ==
    /\ Streaming /\ ~member.cancelled
    /\ member' = [member EXCEPT !.cancelled = TRUE]
    /\ UNCHANGED <<batch, asked>>

MemberNext == StreamEventArrives \/ StreamStops \/ StreamRaises \/ CancelMemberStream

-----------------------------------------------------------------------------
(* A batch posted directly                                                 *)

Failed == "failed"
Ids == ToSet(DirectIds)

DirectStart(kind) ==
    batch = [kind |-> kind, step |-> "start", posts |-> 0, connected |-> FALSE, rows |-> <<>>,
             result |-> [r \in Ids |-> "none"]]

(* ensure_persistent_connection: check, else start the master *)
Preconnect ==
    /\ batch.kind = "spark" /\ batch.step = "start"
    /\ \E up \in BOOLEAN : batch' = [batch EXCEPT !.connected = batch.connected \/ up]
    /\ UNCHANGED <<member, asked>>

(* _remote_post_batch; the service runs the batch even if ssh gives up     *)
PostBatch ==
    /\ batch.kind = "spark" /\ batch.step = "start"
    /\ batch' = [batch EXCEPT !.step = "posted", !.posts = 1]
    /\ UNCHANGED <<member, asked>>

(* _completed_error, a timeout of ssh, or an answer without results *)
PostFails ==
    /\ batch.kind = "spark" /\ batch.step = "posted"
    /\ batch' = [batch EXCEPT !.step = "done", !.result = [r \in Ids |-> Failed]]
    /\ UNCHANGED <<member, asked>>

(* what the service answers for each item: labelled rows in any order and  *)
(* perhaps not all, or unlabelled ones in the order of the items           *)
RowOrders == {s \in UNION {[1..n -> Ids] : n \in 0..Len(DirectIds)} : IsInjective(s)}
LabelledRows(s, ok) == [i \in DOMAIN s |-> [label |-> s[i], of |-> s[i], ok |-> ok[s[i]]]]
PlainRows(ok) == [i \in DOMAIN DirectIds |-> [label |-> "", of |-> DirectIds[i], ok |-> ok[DirectIds[i]]]]
ServiceRows ==
    {LabelledRows(s, ok) : s \in RowOrders, ok \in [Ids -> BOOLEAN]}
    \cup {PlainRows(ok) : ok \in [Ids -> BOOLEAN]}

(* _batch_results: the row labelled with the request, else the row at its  *)
(* place                                                                   *)
RowOf(rows, i) ==
    LET own == {j \in DOMAIN rows : rows[j].label = DirectIds[i]}
    IN  IF own # {} THEN FirstOf(own) ELSE IF i <= Len(rows) THEN i ELSE 0

BatchAnswered ==
    /\ batch.kind = "spark" /\ batch.step = "posted"
    /\ \E rows \in ServiceRows :
        batch' = [batch EXCEPT !.step = "done", !.rows = rows,
                    !.result = [r \in Ids |->
                        LET j == RowOf(rows, CHOOSE i \in DOMAIN DirectIds : DirectIds[i] = r)
                        IN  IF j = 0 \/ ~rows[j].ok THEN Failed ELSE rows[j].of]]
    /\ UNCHANGED <<member, asked>>

(* AntirezRunner._post_completion: the endpoints one after the other       *)
Endpoints == 2
PostCompletion ==
    /\ batch.kind = "antirez" /\ batch.step = "start"
    /\ LET r == DirectIds[1] IN
       \/ batch' = [batch EXCEPT !.posts = @ + 1, !.step = "done", !.result[r] = r]
       \/ /\ batch.posts + 1 < Endpoints
          /\ batch' = [batch EXCEPT !.posts = @ + 1]
       \/ /\ batch.posts + 1 = Endpoints
          /\ batch' = [batch EXCEPT !.posts = @ + 1, !.step = "done", !.result[r] = Failed]
    /\ UNCHANGED <<member, asked>>

DirectNext == Preconnect \/ PostBatch \/ PostFails \/ BatchAnswered \/ PostCompletion

-----------------------------------------------------------------------------
(* The payload of a request: which source each field comes from            *)

TopLevelFields == {"thinking", "chat_template_kwargs"}
NoFields == << >>
From(keys, source) == [k \in keys |-> source]
Over(f, g) == [k \in DOMAIN f \cup DOMAIN g |-> IF k \in DOMAIN f THEN f[k] ELSE g[k]]

AskedForms ==
    [chat : BOOLEAN, openai : SUBSET {"seed"}, sampling : SUBSET {"seed"},
     extra : SUBSET {"thinking", "nested"}, budget : BOOLEAN, template : BOOLEAN,
     plan : {"none", "own"}, auto : BOOLEAN, optOut : BOOLEAN,
     defaults : SUBSET {"thinking", "nested"}]

AskedStart(q) == asked = q

(* apply_thinking_fields and the removal of a disabled "thinking" *)
RequestExtra(q) ==
    LET budget == From(IF q.budget THEN {"thinking"} ELSE {}, "request")
        template == From(IF q.chat /\ q.template THEN {"chat_template_kwargs"} ELSE {}, "request")
    IN  Over(Over(budget, template), From(q.extra, "client"))

(* merge_payload_extra_body *)
Merged(p, chat, body) ==
    LET top == IF chat THEN DOMAIN body \cap TopLevelFields ELSE {}
    IN  [top |-> Over([k \in top |-> body[k]], p.top),
         extra |-> Over([k \in DOMAIN body \ top |-> body[k]], p.extra)]

(* _auto_kv_cache_plan *)
PlanOf(q) == IF q.plan = "own" THEN "own" ELSE IF q.auto /\ ~q.optOut THEN "auto" ELSE "none"

(* _apply_openai_payload_extras *)
WithPlan(p, plan) ==
    IF plan = "none" THEN p
    ELSE [top |-> Over(From({"kv_transfer_params"}, plan), p.top),
          extra |-> Over(From({"ds4_kv_cache"}, plan), p.extra)]

Payload(q) ==
    LET base == [top |-> Over(From(q.sampling, "sampling"), From(q.openai, "openai")), extra |-> NoFields]
    IN  WithPlan(Merged(base, q.chat, RequestExtra(q)), PlanOf(q))

(* what the runner posts for one request: its defaults come last *)
Posted(q) == Merged(Payload(q), q.chat, From(q.defaults, "runner"))

(* maybe_suppress_generated_auto_kv_for_cohort *)
Suppressed(p) ==
    IF "ds4_kv_cache" \in DOMAIN p.extra /\ p.extra["ds4_kv_cache"] = "auto"
       /\ "kv_transfer_params" \in DOMAIN p.top /\ p.top["kv_transfer_params"] = "auto"
    THEN [top |-> [k \in DOMAIN p.top \ {"kv_transfer_params"} |-> p.top[k]],
          extra |-> [k \in DOMAIN p.extra \ {"ds4_kv_cache"} |-> p.extra[k]]]
    ELSE p

-----------------------------------------------------------------------------
(* Properties                                                              *)

RunnersTypeOK ==
    /\ member.text \in Seq(Tokens) /\ member.pos \in 0..Len(member.out)
    /\ member.status \in {"streaming", "completed", "failed"}
    /\ batch.step \in {"start", "posted", "done"} /\ batch.posts \in 0..Endpoints
    /\ batch.result \in [Ids -> Ids \cup {"none", Failed}]
    /\ asked \in AskedForms

(* A chat member cancelled before the engine finished is never reported    *)
(* completed with the text so far (run_parallel_chat_stream).              *)
CancelNotAnswer ==
    member.kind = "chat" /\ member.cancelled /\ member.status = "completed" => member.finished

(* Where a completion stops does not depend on how the stream was cut: the *)
(* text ends with the first whole answer line of what the engine sent, and *)
(* keeps all before it (_answer_marker_early_stop_text on joined deltas).  *)
StopsAtFirstAnswer ==
    member.early =>
        /\ member.text = StopText(member.text \o <<"newline">>)
        /\ CloseAt(member.out) = {} => member.text = StopText(member.out)

(* A chat answer ends with everything visible that was received: stripping *)
(* the thinking of each delta and again of the whole loses no word.        *)
VisibleKept ==
    member.kind = "chat" /\ member.status = "completed" =>
        LET got == SubSeq(member.out, 1, member.pos) IN IsSuffix(Strip(got), member.text)

(* A request is given the answer of another only when the batch service    *)
(* left out its own row, and every request of a batch is answered (the     *)
(* lookup of _batch_results, the except of run_many_on_node).              *)
RowsMatched ==
    batch.kind = "spark" /\ batch.step = "done" =>
        \A r \in Ids :
            /\ batch.result[r] # "none"
            /\ batch.result[r] \notin {r, Failed} => \A i \in DOMAIN batch.rows : batch.rows[i].of # r

(* The engine is told of a KV plan in both places it reads or in neither,  *)
(* a request's own plan is always told, and what a cohort drops is only a  *)
(* plan the runner made itself (kv_transfer_params, extra_body).           *)
PlanToldTwice ==
    \A p \in {Posted(asked), Suppressed(Posted(asked))} :
        /\ "kv_transfer_params" \in DOMAIN p.top <=> "ds4_kv_cache" \in DOMAIN p.extra
        /\ "kv_transfer_params" \in DOMAIN p.top =>
               p.top["kv_transfer_params"] = p.extra["ds4_kv_cache"]
        /\ asked.plan = "own" => "ds4_kv_cache" \in DOMAIN p.extra /\ p.extra["ds4_kv_cache"] = "own"
=============================================================================
