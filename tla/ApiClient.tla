----------------------------- MODULE ApiClient -----------------------------
(***************************************************************************)
(* A client of the coordinator's OpenAI and Anthropic endpoints (api.py,   *)
(* api_stream.py): admission against the context window, submission, and   *)
(* waiting for the answer, either by polling the batch or as an SSE stream *)
(* fed from the queue's event log.  The queue itself is InferenceQueue;    *)
(* here it is the environment that appends events.  Text is counted in     *)
(* deltas.                                                                 *)
(***************************************************************************)
EXTENDS Integers, Sequences, FiniteSets, SequencesExt

CONSTANTS CallRequests,  \* requests of one completion call
          PageLimit,     \* limit of a poll
          MaxAttempts,   \* bound: attempts of a request
          MaxDeltas,     \* bound: deltas of one attempt
          MaxBacklog,    \* bound: events a stream is behind
          Window,        \* max_model_len of the profile
          Safety,        \* DS4_API_CONTEXT_SAFETY_TOKENS
          LargePrompt,   \* DS4_API_LARGE_CONTEXT_PROMPT_TOKENS
          LargeBudget    \* DS4_API_LARGE_CONTEXT_GENERATION_BUDGET_TOKENS

ASSUME ClientAssumption ==
    /\ PageLimit \in Nat \ {0} /\ MaxAttempts \in Nat \ {0} /\ MaxDeltas \in Nat /\ MaxBacklog \in Nat
    /\ Window \in Nat \ {0} /\ {Safety, LargePrompt, LargeBudget} \subseteq Nat
    /\ IsFiniteSet(CallRequests)

VARIABLES call,    \* the call: its kind, tokens asked for and where the handler is
          queued,  \* per request: state in the queue, attempts, text so far, result status
          unread,  \* the events the stream has not read yet: [req, type]
          feed,    \* the stream: pending, streamed, deltas and finishes given out
          reply    \* what the handler answered

clientVars == <<call, queued, unread, feed, reply>>

(* A cancelled request is to a client what a failed one is.                 *)
TerminalStates == {"completed", "failed"}
ResultStatuses == TerminalStates \cup {"transport_failed"}
CallKinds == {"chat_stream", "completion_stream", "sync"}

(* _context_bounded_output_tokens, _apply_profile_context_budget and        *)
(* _enforce_large_context_generation_budget: the output asked for is cut to *)
(* what the window leaves, then the prompt to what the output leaves.       *)
OutputTokens(asked, thinking) ==
    LET available == Window - thinking - Safety
    IN  IF available <= 1 THEN 1 ELSE IF asked < available - 1 THEN asked ELSE available - 1
PromptBudget(output, thinking) ==
    LET left == Window - output - thinking - Safety IN IF left < 1 THEN 1 ELSE left
PromptTokens(prompt, output, thinking) ==
    IF prompt + output + thinking + Safety > Window /\ PromptBudget(output, thinking) < prompt
    THEN PromptBudget(output, thinking) ELSE prompt
Refused(prompt, output, thinking) ==
    /\ LargePrompt > 0 /\ LargeBudget > 0
    /\ prompt >= LargePrompt /\ output + thinking > LargeBudget

ClientTypeOK ==
    /\ call.pc \in {"idle", "submitting", "streaming", "waiting", "done"} /\ call.kind \in CallKinds
    /\ queued \in [CallRequests -> [state : {"absent", "queued", "running"} \cup TerminalStates,
                                tries : 0..MaxAttempts, text : 0..MaxDeltas, status : ResultStatuses \cup {"none"}]]
    /\ unread \in Seq([req : CallRequests, type : {"queued", "running", "delta", "end"}])
    /\ feed.pending \subseteq CallRequests /\ feed.streamed \subseteq CallRequests
    /\ reply \in {"none", "refused", "ended", "failed"} \cup ResultStatuses

ClientInit ==
    /\ call = [pc |-> "idle", kind |-> "sync", prompt |-> 1, output |-> 1, thinking |-> 0,
             asked |-> {}, fresh |-> {}]
    /\ queued = [r \in CallRequests |-> [state |-> "absent", tries |-> 0, text |-> 0, status |-> "none"]]
    /\ unread = <<>>
    /\ feed = [pending |-> {}, streamed |-> {},
               given |-> [r \in CallRequests |-> 0], finishes |-> [r \in CallRequests |-> 0]]
    /\ reply = "none"

(* The handler resolves the budget and, for a stream, reads the newest      *)
(* event id before it submits: events from then on are unread.              *)
Admit(kind, prompt, asked, thinking) ==
    LET output == OutputTokens(asked, thinking)
    IN  /\ call.pc = "idle"
        /\ IF Refused(prompt, output, thinking)
           THEN /\ call' = [call EXCEPT !.pc = "done"] /\ reply' = "refused"
           ELSE /\ \E R \in SUBSET CallRequests \ {{}} :
                      /\ kind = "chat_stream" => Cardinality(R) = 1
                      /\ call' = [pc |-> "submitting", kind |-> kind, output |-> output, thinking |-> thinking,
                                  prompt |-> PromptTokens(prompt, output, thinking), asked |-> R, fresh |-> {}]
                /\ UNCHANGED reply
        /\ unread' = <<>> /\ UNCHANGED <<queued, feed>>

Listening == call.pc \in {"submitting", "streaming"} /\ call.kind # "sync"

(* submit_requests; a request the queue already has is left as it is.  The  *)
(* budget is part of the request now and not looked at again.               *)
SubmitCall ==
    /\ call.pc = "submitting"
    /\ LET new == {r \in call.asked : queued[r].state = "absent"}
       IN  /\ call' = [call EXCEPT !.pc = IF call.kind = "sync" THEN "waiting" ELSE "streaming",
                                   !.fresh = new, !.prompt = 1, !.output = 1, !.thinking = 0]
           /\ queued' = [r \in CallRequests |-> IF r \in new THEN [queued[r] EXCEPT !.state = "queued"] ELSE queued[r]]
           /\ unread' = IF Listening THEN unread \o SetToSeq([req : new, type : {"queued"}]) ELSE unread
    /\ feed' = [feed EXCEPT !.pending = call.asked]
    /\ UNCHANGED reply

(* The queue and its workers: another client may have submitted a request   *)
(* before; an attempt may stream, be retried and end.  Bound: nothing more  *)
(* is followed once the client has its answer.                              *)
Followed == call.pc # "done" /\ Len(unread) < MaxBacklog
Event(r, type) == unread' = IF Listening THEN Append(unread, [req |-> r, type |-> type]) ELSE unread
Earlier(r) ==
    /\ call.pc = "idle" /\ \A q \in CallRequests : queued[q].state = "absent"
    /\ queued' = [queued EXCEPT ![r].state = "queued"] /\ Event(r, "queued")
    /\ UNCHANGED <<call, feed, reply>>
Attempt(r) ==
    /\ Followed /\ queued[r].state = "queued" /\ queued[r].tries < MaxAttempts
    /\ queued' = [queued EXCEPT ![r] = [queued[r] EXCEPT !.state = "running", !.tries = @ + 1, !.text = 0]]
    /\ Event(r, "running")
    /\ UNCHANGED <<call, feed, reply>>
StreamDelta(r) ==
    /\ Followed /\ queued[r].state = "running" /\ queued[r].text < MaxDeltas
    /\ r \in call.asked /\ call.kind = "completion_stream"
    /\ queued' = [queued EXCEPT ![r].text = @ + 1] /\ Event(r, "delta")
    /\ UNCHANGED <<call, feed, reply>>
RetryAttempt(r) ==
    /\ Followed /\ queued[r].state = "running" /\ queued[r].tries < MaxAttempts
    /\ queued' = [queued EXCEPT ![r].state = "queued"] /\ Event(r, "queued")
    /\ UNCHANGED <<call, feed, reply>>
EndRequest(r, status) ==
    /\ Followed /\ queued[r].state = "running"
    /\ queued' = [queued EXCEPT ![r] = [@ EXCEPT !.status = status, !.text = MaxDeltas,
                     !.state = IF status = "transport_failed" THEN "failed" ELSE status]]
    /\ status = "completed" /\ call.kind = "completion_stream" /\ queued[r].text > 0 => queued[r].text = MaxDeltas
    /\ Event(r, "end")
    /\ UNCHANGED <<call, feed, reply>>

(* _drain_completion_stream_events and _drain_chat_stream_events, one event *)
(* of the page.  The last chunk repeats the text only if no delta was seen. *)
Drain(f, event) ==
    LET r == event.req
    IN  IF r \notin f.pending \/ event.type \in {"queued", "running"} THEN f
        ELSE IF event.type = "delta"
        THEN [f EXCEPT !.streamed = @ \cup {r}, !.given[r] = @ + 1]
        ELSE [f EXCEPT !.pending = @ \ {r}, !.finishes[r] = @ + 1,
                       !.given[r] = IF r \in f.streamed THEN @ ELSE @ + queued[r].text]

DrainAll(f, events) ==
    LET after[n \in 0..Len(events)] == IF n = 0 THEN f ELSE Drain(after[n - 1], events[n])
    IN  after[Len(events)]

(* A chat stream goes on after the last chunk unless the status it read is  *)
(* one of API_TERMINAL_STATES, which transport_failed is not.               *)
StillPending(f) ==
    IF call.kind = "chat_stream" /\ \E r \in call.asked \ f.pending : queued[r].status = "transport_failed"
    THEN call.asked ELSE f.pending

(* Mutation: the cursor moves to the newest event, not to the last one read. *)
PollEventsSkips ==
    /\ call.pc = "streaming" /\ feed.pending # {}
    /\ LET read == IF PageLimit < Len(unread) THEN PageLimit ELSE Len(unread)
       IN  feed' = DrainAll(feed, SubSeq(unread, 1, read)) /\ unread' = <<>>
    /\ UNCHANGED <<call, queued, reply>>

PollEvents ==
    /\ call.pc = "streaming" /\ feed.pending # {}
    /\ LET read == IF PageLimit < Len(unread) THEN PageLimit ELSE Len(unread)
           after == DrainAll(feed, SubSeq(unread, 1, read))
       IN  /\ feed' = [after EXCEPT !.pending = StillPending(after)]
           /\ unread' = SubSeq(unread, read + 1, Len(unread))
    /\ UNCHANGED <<call, queued, reply>>

(* The stream is over: all pending requests have ended, the deadline has    *)
(* come or the dispatcher is gone; the rest is given an error chunk.        *)
CloseStream ==
    /\ call.pc = "streaming"
    /\ feed' = [feed EXCEPT !.pending = {}, !.finishes = [r \in CallRequests |-> IF r \in feed.pending THEN @[r] + 1 ELSE @[r]]]
    /\ call' = [call EXCEPT !.pc = "done"] /\ reply' = "ended" /\ unread' = <<>>
    /\ UNCHANGED queued

(* _run_until_collected and _run_batch_until_collected: the batch is over,  *)
(* or the deadline has come or the dispatcher is gone.                      *)
Collect ==
    /\ call.pc = "waiting" /\ \A r \in call.asked : queued[r].state \in TerminalStates
    /\ reply' = IF \A r \in call.asked : queued[r].status = "completed" THEN "completed" ELSE "failed"
    /\ call' = [call EXCEPT !.pc = "done"] /\ unread' = <<>> /\ UNCHANGED <<queued, feed>>
GiveUpWaiting ==
    /\ call.pc = "waiting"
    /\ reply' = "failed" /\ call' = [call EXCEPT !.pc = "done"]
    /\ unread' = <<>> /\ UNCHANGED <<queued, feed>>

ClientNext ==
    \/ \E kind \in CallKinds, prompt \in 1..Window + 1, asked \in 1..Window, thinking \in 0..Window :
          Admit(kind, prompt, asked, thinking)
    \/ \E r \in CallRequests :
          \/ Earlier(r) \/ Attempt(r) \/ StreamDelta(r) \/ RetryAttempt(r)
          \/ \E status \in ResultStatuses : EndRequest(r, status)
    \/ SubmitCall \/ PollEvents \/ CloseStream \/ Collect \/ GiveUpWaiting

(* What is asked of the engine fits its window, prompt, thinking and output *)
(* together, unless thinking and the safety margin alone leave no room.     *)
FitsWindow ==
    call.pc = "submitting" /\ Window - call.thinking - Safety > 1 =>
        call.prompt + call.output + call.thinking + Safety <= Window

(* No end is missed: as long as a stream waits for a request that it        *)
(* submitted and that has ended, the event of that end is still to be read, *)
(* however submission, polls and workers interleave.  (A chat stream that   *)
(* has given its last chunk for a transport failure waits on for nothing.)  *)
FinishAhead ==
    call.pc = "streaming" =>
        \A r \in feed.pending \cap call.fresh : queued[r].state \in TerminalStates =>
            \/ Contains(unread, [req |-> r, type |-> "end"])
            \/ call.kind = "chat_stream" /\ feed.finishes[r] = 1

(* A prompt of a completion stream is finished exactly once, by its result  *)
(* or by the timeout chunk; and the text of a request that took one attempt *)
(* is given out once, as deltas or with the last chunk, never both.         *)
FinishedOnce ==
    call.kind = "completion_stream" =>
        \A r \in call.asked : feed.finishes[r] <= 1 /\ (call.pc = "done" => feed.finishes[r] = 1)
TextOnce == \A r \in CallRequests : queued[r].tries = 1 => feed.given[r] <= MaxDeltas
=============================================================================
