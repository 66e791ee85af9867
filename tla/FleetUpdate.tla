---------------------------- MODULE FleetUpdate ----------------------------
(***************************************************************************)
(* Bringing the checkouts of the Sparks to origin/main                     *)
(* (scripts/ds4_update_spark_nodes.sh): the local checkout, the guard      *)
(* against active work, the probe of all nodes, then node by node a remote *)
(* script of several git commands, then the runtime of the Qwen gateways.  *)
(* The first command that fails ends the run.  People push to main and     *)
(* work in the checkouts meanwhile, and a remote script whose connection   *)
(* broke goes on by itself.                                                *)
(***************************************************************************)
EXTENDS Integers, Sequences, SequencesExt

CONSTANTS FleetOrder,        \* the nodes of the run, in order
          Gateways,          \* node_is_qwen_gateway
          Checkouts,         \* how a checkout may be when the run begins
          UpdateOptions,     \* settings of the run and what it finds: the local checkout, the
                             \* gateways' runtime ("missing", "no trim", "trim") and env file
          MaxPushes          \* bound: pushes to main and edits in checkouts

ASSUME FleetUpdateAssumption ==
    /\ FleetOrder \in Seq(STRING) /\ IsInjective(FleetOrder) /\ MaxPushes \in Nat
    /\ \A c \in Checkouts :  \* main had one commit when the run began
          c \in [main : {0, 1}, own : Nat, dirty : BOOLEAN, on : {"main", "elsewhere", "none"}]
    /\ \A o \in UpdateOptions :
          /\ o.local \in {"clean", "dirty", "left alone"} /\ o.runtime \in {"missing", "no trim", "trim"}
          /\ {o.skip, o.allowed, o.qwen, o.restart} \subseteq BOOLEAN /\ o.env \in Seq(STRING)

VARIABLES origin,    \* commits on origin/main, and how many there were when the run began
          local,     \* the local checkout, when it is to be updated first
          tree,      \* checkouts: commits of main and own ones, dirty, on the branch
          remote,    \* the script on a node: its next step and what it fetched
          left,      \* history: the checkout as the script left it
          update,    \* the run: its phase, the node it is at, nodes that answered the probe
          gateway,   \* gateways: runtime there, runtime linked, env file, restarted
          others     \* pushes and edits so far

updateVars == <<origin, local, tree, remote, left, update, gateway, others>>

UpdateNodes == ToSet(FleetOrder)
NotLeft == -1
RunPhases == {"self", "guard", "probe", "update", "qwen", "done", "refused", "aborted"}

UpdateTypeOK ==
    /\ origin \in [now : Nat, begun : Nat]
    /\ local \in {"clean", "dirty", "left alone"}
    /\ \A n \in UpdateNodes :
          /\ tree[n] \in [main : Nat, own : Nat, dirty : BOOLEAN, on : {"main", "elsewhere", "none"}]
          /\ remote[n] \in [step : {"idle", "fetch", "check", "checkout", "merge", "ok", "failed"}, fetched : Nat]
          /\ left[n] \in Nat \cup {NotLeft}
    /\ update \in [phase : RunPhases, at : Nat, reachable : Seq(UpdateNodes), skip : BOOLEAN,
                   allowed : BOOLEAN, qwen : BOOLEAN, restart : BOOLEAN]
    /\ \A n \in Gateways : gateway[n].linked \in {"old", "no trim", "trim"}
    /\ others \in 0..MaxPushes

UpdateStart(trees, o) ==
    /\ origin = [now |-> 1, begun |-> 1]
    /\ local = o.local
    /\ tree = trees
    /\ remote = [n \in UpdateNodes |-> [step |-> "idle", fetched |-> 0]]
    /\ left = [n \in UpdateNodes |-> NotLeft]
    /\ update = [phase |-> "self", at |-> 1, reachable |-> <<>>,
                 skip |-> o.skip, allowed |-> o.allowed, qwen |-> o.qwen, restart |-> o.restart]
    /\ gateway = [n \in Gateways |-> [runtime |-> o.runtime, linked |-> "old", env |-> o.env, restarted |-> FALSE]]
    /\ others = 0

UpdateInit == \E trees \in [UpdateNodes -> Checkouts], o \in UpdateOptions : UpdateStart(trees, o)

InPhase(p) == update.phase = p
GoesOn(p) == update' = [update EXCEPT !.phase = p, !.at = 1]
NextNode == update' = [update EXCEPT !.at = @ + 1]

-----------------------------------------------------------------------------
(* Before the first node                                                   *)

(* self_update_local_checkout: a checkout that moved starts the script     *)
(* again, which then finds it done; git may fail                           *)
SelfUpdate ==
    /\ InPhase("self")
    /\ \/ local # "dirty" /\ GoesOn("guard")
       \/ local # "left alone" /\ GoesOn("refused")
    /\ UNCHANGED <<origin, local, tree, remote, left, gateway, others>>

(* check_no_active_work: two answers, of which neither needs to come       *)
GuardAgainstWork ==
    /\ InPhase("guard")
    /\ \E dispatcher \in {"busy", "idle", "down"}, telemetry \in {"busy", "idle", "stale", "down"} :
          GoesOn(IF ~update.allowed /\ "busy" \in {dispatcher, telemetry} THEN "refused" ELSE "probe")
    /\ UNCHANGED <<origin, local, tree, remote, left, gateway, others>>

ProbeNode(answers) ==
    /\ InPhase("probe") /\ update.at <= Len(FleetOrder)
    /\ update' = CASE answers -> [update EXCEPT !.at = @ + 1, !.reachable = Append(@, FleetOrder[update.at])]
                   [] ~answers /\ update.skip -> [update EXCEPT !.at = @ + 1]
                   [] OTHER -> [update EXCEPT !.phase = "refused", !.at = 1]
    /\ UNCHANGED <<origin, local, tree, remote, left, gateway, others>>

ProbedAll ==
    /\ InPhase("probe") /\ update.at > Len(FleetOrder)
    /\ GoesOn(IF update.reachable = <<>> THEN "refused" ELSE "update")
    /\ UNCHANGED <<origin, local, tree, remote, left, gateway, others>>

-----------------------------------------------------------------------------
(* update_remote_repo                                                      *)

AtNode(n) == update.at <= Len(update.reachable) /\ update.reachable[update.at] = n
ScriptAt(n, step) == remote[n].step = step
ScriptGoes(n, step) == remote' = [remote EXCEPT ![n].step = step]

VisitNode(n) ==
    /\ InPhase("update") /\ AtNode(n) /\ ScriptAt(n, "idle")
    /\ ScriptGoes(n, IF tree[n].on = "none" THEN "failed" ELSE "fetch")
    /\ UNCHANGED <<origin, local, tree, left, update, gateway, others>>

FetchMain(n) ==
    /\ ScriptAt(n, "fetch")
    /\ \/ remote' = [remote EXCEPT ![n] = [step |-> "check", fetched |-> origin.now]]
       \/ ScriptGoes(n, "failed")
    /\ UNCHANGED <<origin, local, tree, left, update, gateway, others>>

CheckClean(n) ==
    /\ ScriptAt(n, "check")
    /\ ScriptGoes(n, IF tree[n].dirty THEN "failed" ELSE "checkout")
    /\ UNCHANGED <<origin, local, tree, left, update, gateway, others>>

(* refused by git when it would lose an edit made since *)
CheckoutMain(n) ==
    /\ ScriptAt(n, "checkout")
    /\ \/ tree' = [tree EXCEPT ![n].on = "main"] /\ ScriptGoes(n, "merge")
       \/ tree[n].dirty /\ ScriptGoes(n, "failed") /\ UNCHANGED tree
    /\ UNCHANGED <<origin, local, left, update, gateway, others>>

(* merge --ff-only: nothing to do when main has it all, refused when main  *)
(* has commits of its own besides, or an edit made since is in the way     *)
FastForward(n) ==
    /\ ScriptAt(n, "merge")
    /\ LET behind == tree[n].main < remote[n].fetched
           k == IF behind THEN remote[n].fetched ELSE tree[n].main
       IN  \/ /\ behind /\ (tree[n].own > 0 \/ tree[n].dirty)
              /\ ScriptGoes(n, "failed") /\ UNCHANGED <<tree, left>>
           \/ /\ behind => tree[n].own = 0
              /\ ScriptGoes(n, "ok")
              /\ tree' = [tree EXCEPT ![n].main = k]
              /\ left' = [left EXCEPT ![n] = k]
    /\ UNCHANGED <<origin, local, update, gateway, others>>

NodeUpdated(n) ==
    /\ InPhase("update") /\ AtNode(n) /\ ScriptAt(n, "ok")
    /\ NextNode
    /\ UNCHANGED <<origin, local, tree, remote, left, gateway, others>>

NodeRefused(n) ==
    /\ InPhase("update") /\ AtNode(n) /\ ScriptAt(n, "failed")
    /\ GoesOn("aborted")
    /\ UNCHANGED <<origin, local, tree, remote, left, gateway, others>>

(* ssh fails; the script on the node, if it began, goes on or has ended *)
SshBreaks(n) ==
    /\ InPhase("update") /\ AtNode(n) /\ remote[n].step # "failed"
    /\ GoesOn("aborted")
    /\ UNCHANGED <<origin, local, tree, remote, left, gateway, others>>

UpdatedAll ==
    /\ InPhase("update") /\ update.at > Len(update.reachable)
    /\ GoesOn(IF update.qwen THEN "qwen" ELSE "done")
    /\ UNCHANGED <<origin, local, tree, remote, left, gateway, others>>

-----------------------------------------------------------------------------
(* configure_qwen_node_runtime                                             *)

IsHome(line) == line \in {"home", "other home"}

(* the awk program: the first VLLM_HOME line is replaced, others dropped   *)
RewriteEnv(lines) ==
    LET First(i) == \A k \in 1..i - 1 : ~IsHome(lines[k])
        written == FlattenSeq([i \in DOMAIN lines |->
                       IF ~IsHome(lines[i]) THEN <<lines[i]>> ELSE IF First(i) THEN <<"home">> ELSE <<>>])
    IN  IF \A i \in DOMAIN lines : ~IsHome(lines[i]) THEN Append(written, "home") ELSE written

(* Every node that answered and is a gateway: the link and the file are    *)
(* written before the runtime is asked whether it can trim memory; the     *)
(* script may fail, and its connection break, at any of its commands.      *)
ConfigureGateway ==
    /\ InPhase("qwen") /\ update.at <= Len(update.reachable)
    /\ LET n == update.reachable[update.at]
           linked == [gateway EXCEPT ![n].linked = gateway[n].runtime]
           written == [linked EXCEPT ![n].env = RewriteEnv(@)]
       IN  \/ n \notin Gateways /\ NextNode /\ UNCHANGED gateway
           \/ n \in Gateways /\ GoesOn("aborted")
              /\ gateway' \in IF gateway[n].runtime = "missing" THEN {gateway} ELSE {gateway, linked, written}
           \/ n \in Gateways /\ gateway[n].runtime = "trim" /\ NextNode
              /\ gateway' = [written EXCEPT ![n].restarted = update.restart]
    /\ UNCHANGED <<origin, local, tree, remote, left, others>>

ConfiguredAll ==
    /\ InPhase("qwen") /\ update.at > Len(update.reachable)
    /\ GoesOn("done")
    /\ UNCHANGED <<origin, local, tree, remote, left, gateway, others>>

-----------------------------------------------------------------------------
(* Everybody else                                                          *)

Meanwhile == others < MaxPushes /\ others' = others + 1

PushMain ==
    /\ Meanwhile
    /\ origin' = [origin EXCEPT !.now = @ + 1]
    /\ UNCHANGED <<local, tree, remote, left, update, gateway>>

(* edit or commit, at any time *)
WorkInTree(n) ==
    /\ Meanwhile /\ tree[n].on # "none"
    /\ tree' \in {[tree EXCEPT ![n].dirty = TRUE],
                  [tree EXCEPT ![n].own = IF tree[n].on = "main" THEN @ + 1 ELSE @, ![n].dirty = FALSE]}
    /\ UNCHANGED <<origin, local, remote, left, update, gateway>>

UpdateNext ==
    \/ SelfUpdate \/ GuardAgainstWork \/ ProbedAll \/ UpdatedAll \/ ConfigureGateway \/ ConfiguredAll
    \/ \E answers \in BOOLEAN : ProbeNode(answers)
    \/ \E n \in UpdateNodes :
          \/ VisitNode(n) \/ FetchMain(n) \/ CheckClean(n) \/ CheckoutMain(n) \/ FastForward(n)
          \/ NodeUpdated(n) \/ NodeRefused(n) \/ SshBreaks(n) \/ WorkInTree(n)
    \/ PushMain

-----------------------------------------------------------------------------
(* Properties                                                              *)

(* Nodes that are called updated have all that was on main when the run    *)
(* began, and the same of it unless somebody pushed meanwhile, whatever    *)
(* was in their checkouts (the zero-drift rule of the script's usage).     *)
ZeroDrift ==
    update.phase \in {"qwen", "done"} =>
        \A i \in DOMAIN update.reachable :
            LET n == update.reachable[i] IN
            /\ left[n] # NotLeft /\ left[n] >= origin.begun
            /\ origin.now = origin.begun => left[n] = origin.now

(* A run that is refused changes no node; one that is aborted leaves the   *)
(* nodes after the one it failed at as they were, except that the script   *)
(* there may go on (the loops over the nodes under set -e).                *)
AbortLeavesRest ==
    /\ update.phase \in {"self", "guard", "probe", "refused"} =>
          \A n \in UpdateNodes : ScriptAt(n, "idle") /\ left[n] = NotLeft
    /\ \A i \in DOMAIN update.reachable : left[update.reachable[i]] # NotLeft =>
          \A k \in 1..i - 1 : ScriptAt(update.reachable[k], "ok")

(* the lines that name the runtime, and the others *)
HomeLines(lines) == FlattenSeq([i \in DOMAIN lines |-> IF IsHome(lines[i]) THEN <<lines[i]>> ELSE <<>>])
OtherLines(lines) == FlattenSeq([i \in DOMAIN lines |-> IF IsHome(lines[i]) THEN <<>> ELSE <<lines[i]>>])

(* A gateway gets another runtime only when all nodes have their code, is  *)
(* restarted only on one that can trim and with a file that names it once, *)
(* and the file keeps its other lines (configure_qwen_node_runtime).       *)
GatewayReady ==
    \A n \in Gateways :
        /\ gateway[n].linked # "old" => \A i \in DOMAIN update.reachable : left[update.reachable[i]] # NotLeft
        /\ gateway[n].restarted =>
              gateway[n].linked = "trim" /\ HomeLines(gateway[n].env) = <<"home">>
        /\ \E o \in UpdateOptions : OtherLines(gateway[n].env) = OtherLines(o.env)
=============================================================================
