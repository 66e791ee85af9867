----------------------------- MODULE AgentLoop -----------------------------
(***************************************************************************)
(* The agent loop (ds4_agent/loop.py) with its two forms of tool calls     *)
(* (tool_calls.py) and the tool registry (ds4_tools/registry.py): rounds   *)
(* of a model's message and the results of the tools it calls, within a    *)
(* number of rounds and of calls, and only for tools with an allowed       *)
(* prefix.  What the model says is chosen freely from AgentReplies.        *)
(***************************************************************************)
EXTENDS Integers, Sequences, FiniteSets, SequencesExt

CONSTANTS MaxToolRounds,     \* max_tool_rounds
          MaxToolCalls,      \* max_tool_calls
          AgentTools,        \* tools called: [kind, prefix allowed, in the registry]
          AgentReplies       \* messages: calls of the tool_calls field and in the text

ASSUME AgentAssumption ==
    /\ MaxToolRounds \in Nat /\ MaxToolCalls \in Nat
    /\ \A r \in AgentReplies : r.openai \in Seq([id : STRING, tool : STRING]) /\ r.dsml \in Seq(STRING)

VARIABLES messages,    \* what the model is given
          roundIndex,
          callsLeft,   \* calls of the last message that are still to be answered
          toolCalls,   \* total_tool_calls
          record,      \* round_record: the calls of this round that were answered
          rounds,
          agentStatus,
          executed     \* history: tools that ran

agentVars == <<messages, roundIndex, callsLeft, toolCalls, record, rounds, agentStatus, executed>>

(* _extract_openai_tool_calls: entries without a name are passed over and  *)
(* still counted in the id a nameless call gets                            *)
OpenAiCall(c, i) == [id |-> IF c.id = "none" THEN <<"call", i - 1>> ELSE <<c.id, 0>>, tool |-> c.tool]
OpenAiCalls(raw) ==
    FlattenSeq([i \in DOMAIN raw |-> IF raw[i].tool = "nameless" THEN <<>> ELSE <<OpenAiCall(raw[i], i)>>])

(* _extract_dsml_tool_calls *)
DsmlCalls(tools) == [i \in DOMAIN tools |-> [id |-> <<"dsml", i - 1>>, tool |-> tools[i]]]

(* extract_tool_calls: a message may hold both *)
ExtractCalls(reply) == OpenAiCalls(reply.openai) \o DsmlCalls(reply.dsml)

AllowedTool(t) == AgentTools[t].allowed
KnownTool(t) == AgentTools[t].known

(* ToolRegistry.invoke: every exception becomes a result; what runs is a   *)
(* known tool whose arguments and executor are accepted                    *)
RunsTool(t) == KnownTool(t) /\ AgentTools[t].kind \in {"python", "bash"}
InvokeResults(t) == IF RunsTool(t) THEN {"ok", "failed"} ELSE {"failed"}

AgentMessage(calls) == [role |-> "assistant", calls |-> calls]
ToolMessage(call, result) == [role |-> "tool", id |-> call.id, tool |-> call.tool, result |-> result]

AgentTypeOK ==
    /\ \A i \in DOMAIN messages : messages[i].role \in {"user", "assistant", "tool"}
    /\ roundIndex \in 0..MaxToolRounds + 1 /\ toolCalls \in 0..MaxToolCalls + 1
    /\ \A i \in DOMAIN callsLeft : callsLeft[i].tool \in DOMAIN AgentTools
    /\ executed \in Seq(DOMAIN AgentTools)
    /\ Len(rounds) <= MaxToolRounds
    /\ agentStatus \in {"asking", "calling", "completed", "max_tool_rounds_exceeded", "max_tool_calls_exceeded"}

AgentInit ==
    /\ messages = <<[role |-> "user"]>>
    /\ roundIndex = 0 /\ toolCalls = 0
    /\ callsLeft = <<>> /\ record = <<>> /\ rounds = <<>> /\ executed = <<>>
    /\ agentStatus = "asking"

(* next_message, and whether the loop goes on *)
AgentAsks(reply) ==
    /\ agentStatus = "asking"
    /\ LET calls == ExtractCalls(reply) IN
          /\ messages' = Append(messages, AgentMessage(calls))
          /\ agentStatus' = CASE calls = <<>> -> "completed"
                              [] calls # <<>> /\ roundIndex >= MaxToolRounds -> "max_tool_rounds_exceeded"
                              [] OTHER -> "calling"
          /\ callsLeft' = calls
    /\ record' = <<>>
    /\ UNCHANGED <<roundIndex, toolCalls, rounds, executed>>

(* one call too many ends the run where it is: the round that was under    *)
(* way is not among its rounds                                             *)
AgentExceeds ==
    /\ agentStatus = "calling" /\ callsLeft # <<>>
    /\ toolCalls >= MaxToolCalls
    /\ toolCalls' = toolCalls + 1
    /\ agentStatus' = "max_tool_calls_exceeded"
    /\ UNCHANGED <<messages, roundIndex, callsLeft, record, rounds, executed>>

AgentCalls ==
    /\ agentStatus = "calling" /\ callsLeft # <<>>
    /\ toolCalls < MaxToolCalls
    /\ toolCalls' = toolCalls + 1
    /\ LET call == Head(callsLeft) IN
       \E result \in IF AllowedTool(call.tool) THEN InvokeResults(call.tool) ELSE {"denied"} :
          /\ messages' = Append(messages, ToolMessage(call, result))
          /\ record' = Append(record, [call |-> call, result |-> result])
          /\ executed' = IF AllowedTool(call.tool) /\ RunsTool(call.tool) THEN Append(executed, call.tool) ELSE executed
    /\ callsLeft' = Tail(callsLeft)
    /\ UNCHANGED <<roundIndex, rounds, agentStatus>>

AgentRoundEnds ==
    /\ agentStatus = "calling" /\ callsLeft = <<>>
    /\ rounds' = Append(rounds, record)
    /\ roundIndex' = roundIndex + 1
    /\ agentStatus' = "asking"
    /\ UNCHANGED <<messages, callsLeft, toolCalls, record, executed>>

AgentNext ==
    \/ \E reply \in AgentReplies : AgentAsks(reply)
    \/ AgentExceeds \/ AgentCalls \/ AgentRoundEnds

-----------------------------------------------------------------------------
(* Properties                                                              *)

(* Every time the model is asked, and in the end of a completed run, each  *)
(* call of each of its messages is answered once, in order, before its     *)
(* next message, whichever of the two forms the calls had and whatever     *)
(* became of them (run_agent_loop, extract_tool_calls).                    *)
CallsAnswered ==
    agentStatus \in {"asking", "completed"} =>
        \A i \in DOMAIN messages : messages[i].role = "assistant" =>
            LET n == Len(messages[i].calls) IN
            /\ i + n <= Len(messages)
            /\ \A k \in 1..n : /\ messages[i + k].role = "tool"
                               /\ messages[i + k].id = messages[i].calls[k].id
                               /\ messages[i + k].tool = messages[i].calls[k].tool
            /\ i + n < Len(messages) => messages[i + n + 1].role = "assistant"

(* No tool runs that is denied, unknown or given the wrong arguments, not  *)
(* more run than the limits allow, and the rounds of a run that completed  *)
(* list all that ran and no other result calls itself ok                   *)
(* (max_tool_calls, allowed_tool_prefixes, ToolRegistry.invoke).           *)
ToolRan(t) == AllowedTool(t) /\ RunsTool(t)
RanOf(answered) == FlattenSeq([i \in DOMAIN answered |->
                                  IF ToolRan(answered[i].call.tool) THEN <<answered[i].call.tool>> ELSE <<>>])
RunsWithinLimits ==
    LET listed == FlattenSeq(rounds)
    IN  /\ \A i \in DOMAIN executed : ToolRan(executed[i])
        /\ Len(executed) <= MaxToolCalls
        /\ Cardinality({i \in DOMAIN messages : messages[i].role = "assistant"}) <= MaxToolRounds + 1
        /\ agentStatus = "completed" =>
              /\ executed = RanOf(listed)
              /\ \A i \in DOMAIN listed : listed[i].result = "ok" => listed[i].call.tool \in ToSet(executed)
=============================================================================
