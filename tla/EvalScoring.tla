----------------------------- MODULE EvalScoring -----------------------------
(***************************************************************************)
(* What the evaluation runner and the benchmark compute: which cases are   *)
(* asked with which limits, how an answer is read out of a text, how usage *)
(* and metrics are attributed, which requests a shape mix makes.  The      *)
(* input in hand grows item by item; a text is a sequence of marks, what   *)
(* the patterns of the runner find in it:                                  *)
(*   "think_end"  </think>                                                 *)
(*   "marker"     Answer: v, on a line of its own                          *)
(*   "phrase"     the v-th wording of pattern number p ("answer is v")     *)
(*   "value"      a letter or an integer by itself                         *)
(***************************************************************************)
EXTENDS Integers, Sequences, FiniteSets
LOCAL INSTANCE FiniteSetsExt

CONSTANTS Letters,    \* letters a case offers
          OtherValue, \* a letter beyond them
          Sources,    \* sources of cases
          Limits,     \* per source, as in CENTAUR92_QUALITY_SOURCE_LIMITS
          Shapes,     \* per source, as in CENTAUR92_QUALITY_SHAPE_OUTPUT_TOKENS
          MaxSample   \* bound: items of the input in hand

ASSUME ScoringAssumption ==
    /\ OtherValue \notin Letters /\ MaxSample \in Nat
    /\ Limits \in [Sources -> Nat \ {0}] /\ Shapes \in [Sources -> Nat \ {0}]

VARIABLE sample       \* [kind, items]

scoringVars == <<sample>>

Last1(s) == s[Len(s)]
Smaller(a, b) == IF a < b THEN a ELSE b
Marks ==
    [mark : {"think_end"}, v : {OtherValue}, p : {0}] \cup [mark : {"marker", "value"}, v : Letters \cup {OtherValue}, p : {0}]
    \cup [mark : {"phrase"}, v : Letters, p : 1..2]

-----------------------------------------------------------------------------
(* Cases and requests.  write_requests filters the cases and cuts them; run *)
(* with a requests file filters and cuts the requests written before.       *)
Filtered(cases, wanted) == SelectSeq(cases, LAMBDA c : wanted = {} \/ c \in wanted)
Cut(cases, limit) == IF limit = 0 THEN cases ELSE SubSeq(cases, 1, Smaller(limit, Len(cases)))
WriteRequests(cases, wanted, limit) == Cut(Filtered(cases, wanted), limit)
PrepareRunRequests(rows, wanted, limit) == Cut(Filtered(rows, wanted), limit)

(* _remap_request_ids: the position in this run.                            *)
RemappedIds(rows) == [k \in DOMAIN rows |-> [id |-> k, source |-> rows[k]]]

(* _case_max_output_tokens and _case_shape_output_tokens of the quality     *)
(* policy.                                                                  *)
CaseMaxOutputTokens(source, fallback) == Smaller(fallback, Limits[source])
CaseShapeOutputTokens(source, max) == Smaller(max, Shapes[source])

-----------------------------------------------------------------------------
(* Grading.  _answer_region: what follows the first </think>.               *)
AnswerRegion(t) ==
    LET ends == {k \in DOMAIN t : t[k].mark = "think_end"} IN
    IF ends = {} THEN t ELSE SubSeq(t, Min(ends) + 1, Len(t))
ValidMarks(t, mark) == {k \in DOMAIN t : t[k].mark = mark /\ t[k].v \in Letters}

(* _phrase_letter_answer: pattern by pattern; the last match of the last    *)
(* pattern that matches.                                                    *)
PhraseAnswer(t) ==
    LET found == ValidMarks(t, "phrase")
        p == Max({t[k].p : k \in found}) IN
    IF found = {} THEN "?" ELSE t[Max({k \in found : t[k].p = p})].v

(* _letter_answer and _integer_answer: the last marker if a value follows   *)
(* it, else a phrase, else the last value anywhere.                         *)
LastMarker(t) == {k \in DOMAIN t : t[k].mark = "marker" /\ \A j \in k + 1..Len(t) : t[j].mark # "marker"}
(* Mutation: a phrase goes before a marker. *)
AnswerOfPhrase(text) ==
    LET t == AnswerRegion(text) any == {k \in DOMAIN t : t[k].v \in Letters} IN
    IF PhraseAnswer(t) # "?" THEN PhraseAnswer(t) ELSE IF any # {} THEN t[Max(any)].v ELSE "?"

AnswerOf(text) ==
    LET t == AnswerRegion(text)
        marked == {k \in LastMarker(t) : t[k].v \in Letters}
        any == {k \in DOMAIN t : t[k].v \in Letters} IN
    IF marked # {} THEN t[CHOOSE k \in marked : TRUE].v
    ELSE IF PhraseAnswer(t) # "?" THEN PhraseAnswer(t)
    ELSE IF any # {} THEN t[Max(any)].v ELSE "?"
GradeOne(text, expected) == AnswerOf(text) = expected

-----------------------------------------------------------------------------
(* run-direct-vllm: choices by their index, missing ones empty              *)
(* (_direct_collect_from_completion); the usage of the whole call is split  *)
(* over the rows (_split_usage_value).                                      *)
ChoiceOf(choices, row) ==
    LET of == {k \in DOMAIN choices : choices[k].index = row} IN
    IF of = {} THEN "" ELSE choices[Max(of)].text
SplitUsage(whole, count, row) == whole \div count + (IF row < whole % count THEN 1 ELSE 0)

(* The shapes of a benchmark: grouped, or one of each in turn               *)
(* (_generated_requests, _generated_round_robin_shape_requests).            *)
WantedOf(mix, i) == IF mix[i] < 1 THEN 1 ELSE mix[i]
ShapeSlots(mix) == UNION {{<<i, n>> : n \in 1..WantedOf(mix, i)} : i \in DOMAIN mix}
InOrder(slots, Before(_, _)) ==
    [k \in 1..Cardinality(slots) |-> (CHOOSE a \in slots : Cardinality({b \in slots : Before(b, a)}) = k - 1)[1]]
GroupedShapes(mix) == InOrder(ShapeSlots(mix), LAMBDA a, b : a[1] < b[1] \/ (a[1] = b[1] /\ a[2] < b[2]))
RoundRobinShapes(mix) == InOrder(ShapeSlots(mix), LAMBDA a, b : a[2] < b[2] \/ (a[2] = b[2] /\ a[1] < b[1]))

(* Prometheus counters before and after (_parse_vllm_prometheus_metrics,    *)
(* _dict_metric_delta, _vllm_metrics_derived_summary): series of one name   *)
(* are added up.                                                            *)
TokenSources == {"local_compute", "local_cache_hit", "external_kv_transfer"}
Counters(lines) == [s \in TokenSources |-> MapThenSumSet(LAMBDA k : lines[k].n, {k \in DOMAIN lines : lines[k].source = s})]
MetricDelta(before, after) == [s \in TokenSources |-> after[s] - before[s]]
TotalPrompt(delta) == MapThenSumSet(LAMBDA s : delta[s], TokenSources)
CacheHits(delta) == delta["external_kv_transfer"] + delta["local_cache_hit"]

-----------------------------------------------------------------------------
Items ==
    [text |-> Marks, cases |-> Sources, choices |-> [index : 0..1, text : {"x", "y"}], mix |-> 0..2,
     lines |-> [source : TokenSources, n : 1..2]]

ScoringTypeOK == sample.kind \in DOMAIN Items /\ \A k \in DOMAIN sample.items : sample.items[k] \in Items[sample.kind]

ScoringStart(kind) == sample = [kind |-> kind, items |-> <<>>]
ScoringInit == \E kind \in DOMAIN Items : ScoringStart(kind)

(* One more mark of the text, case of the file, choice of the answer, shape *)
(* of the mix or line of the metrics.                                       *)
ReadItem ==
    /\ Len(sample.items) < MaxSample
    /\ \E x \in Items[sample.kind] : sample' = [sample EXCEPT !.items = Append(@, x)]
ScoringNext == ReadItem

-----------------------------------------------------------------------------
(* A marked answer decides: the one written last is graded, whatever was    *)
(* written or thought before, and further text without a marker does not    *)
(* change the grade (the styles that ask for the answer first; _letter_     *)
(* answer, _answer_region).                                                 *)
MarkerDecides ==
    [][sample.kind = "text" /\ Len(sample'.items) = Len(sample.items) + 1 =>
       LET m == Last1(sample'.items)
           t == AnswerRegion(sample.items)
           held == \E k \in LastMarker(t) : t[k].v \in Letters IN
       /\ m.mark = "marker" /\ m.v \in Letters => GradeOne(sample'.items, m.v)
       /\ m.mark \in {"value", "phrase"} /\ held => AnswerOf(sample'.items) = AnswerOf(sample.items)]_scoringVars

(* The same cases are asked when a run writes its own requests and when it  *)
(* reads a file that was written with no filter or limit, and each request  *)
(* keeps its source under its new id (_prepare_run_requests,                *)
(* _remap_request_ids).  No case is planned longer than it may get.         *)
SameCases ==
    sample.kind = "cases" =>
    /\ \A wanted \in SUBSET Sources, limit \in 0..MaxSample :
          LET own == WriteRequests(sample.items, wanted, limit)
              file == PrepareRunRequests(WriteRequests(sample.items, {}, 0), wanted, limit) IN
          /\ own = file
          /\ Len(own) = Cardinality({RemappedIds(own)[k].id : k \in DOMAIN own})
          /\ limit > 0 => Len(own) = Smaller(limit, Len(SelectSeq(sample.items, LAMBDA c : wanted = {} \/ c \in wanted)))
    /\ \A k \in DOMAIN sample.items, fallback \in 1..4 :
          LET max == CaseMaxOutputTokens(sample.items[k], fallback) IN CaseShapeOutputTokens(sample.items[k], max) <= max

(* Usage of one call is attributed to the last token: the shares of the     *)
(* rows add up to it and differ by at most one (_split_usage_value), and    *)
(* each row has the text of its own index in whatever order choices come.   *)
UsageAddsUp ==
    sample.kind = "choices" =>
    /\ \A k \in DOMAIN sample.items :
          (\A j \in k + 1..Len(sample.items) : sample.items[j].index # sample.items[k].index)
          => ChoiceOf(sample.items, sample.items[k].index) = sample.items[k].text
    /\ \A whole \in 0..2 * MaxSample + 1, count \in 1..MaxSample + 1 :
          /\ MapThenSumSet(LAMBDA i : SplitUsage(whole, count, i), 0..count - 1) = whole
          /\ \A i, j \in 0..count - 1 : SplitUsage(whole, count, i) - SplitUsage(whole, count, j) <= 1

(* Both orders of a mix ask for the same requests, and in turn no shape is  *)
(* two ahead of one that still has requests to come                         *)
(* (_generated_round_robin_shape_requests).                                 *)
MixFair ==
    sample.kind = "mix" =>
    LET g == GroupedShapes(sample.items)
        r == RoundRobinShapes(sample.items)
        count(s, i, n) == Cardinality({k \in 1..n : s[k] = i}) IN
    /\ Len(g) = Len(r)
    /\ \A i \in DOMAIN sample.items : count(g, i, Len(g)) = count(r, i, Len(r)) /\ count(r, i, Len(r)) >= sample.items[i]
    /\ \A n \in DOMAIN r, i, j \in DOMAIN sample.items :
          count(r, j, n) < WantedOf(sample.items, j) => count(r, i, n) <= count(r, j, n) + 1

(* The cache share of a window stays within the tokens of the window,       *)
(* wherever in the growth of the counters the two snapshots fall            *)
(* (_vllm_metrics_derived_summary).                                         *)
CacheShareSane ==
    sample.kind = "lines" =>
    \A m \in 0..Len(sample.items) :
        LET before == Counters(SubSeq(sample.items, 1, m))
            delta == MetricDelta(before, Counters(sample.items)) IN
        /\ CacheHits(delta) \in 0..TotalPrompt(delta)
        /\ TotalPrompt(delta) = MapThenSumSet(LAMBDA k : sample.items[k].n, m + 1..Len(sample.items))
=============================================================================
