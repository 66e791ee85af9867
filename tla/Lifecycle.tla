------------------------------ MODULE Lifecycle ------------------------------
(***************************************************************************)
(* How an operator stops and starts the fleet: the ranks of pipeline       *)
(* services over ssh (ds4_pipeline_lifecycle.py) and the coordinator       *)
(* (ds4_relaunch_coordinator_api.py with ds4_stop_coordinator_api.py).     *)
(* ssh fails before or after the remote script ran, ranks fork workers and *)
(* crash meanwhile, engines are late, a coordinator ignores SIGTERM.       *)
(***************************************************************************)
EXTENDS Integers, Sequences, FiniteSets, SequencesExt

CONSTANTS Fleet,       \* services of the topology
          NodesOf,     \* Fleet -> sequence of nodes
          EntryOf,     \* Fleet -> entry node
          CommandLines,\* a set of [actions, sel, cleanup, allowAll], given with --execute
          MaxCommands, \* bound: commands, one after the other
          MaxRelaunch, \* bound: relaunches of the coordinator
          EnvValues    \* values of a coordinator setting, the profile's among them

FleetActions == {"pull", "stop", "write-scripts", "launch", "probe", "relaunch"}  \* those that change something
NotSet == "not set"
ProfileValue == CHOOSE v \in EnvValues : TRUE

ASSUME LifecycleAssumption ==
    /\ IsFiniteSet(Fleet) /\ NodesOf \in [Fleet -> Seq(STRING)]
    /\ \A s \in Fleet : EntryOf[s] \in {NodesOf[s][k] : k \in DOMAIN NodesOf[s]}
    /\ \A c \in CommandLines :
          /\ c.actions \in Seq(FleetActions) /\ c.actions # <<>> /\ c.sel \in SUBSET Fleet
          /\ c.cleanup \in BOOLEAN /\ c.allowAll \in BOOLEAN
    /\ MaxCommands \in Nat /\ MaxRelaunch \in Nat /\ EnvValues # {} /\ NotSet \notin EnvValues

VARIABLES ranks,    \* rank processes: <<service, node, number of the command that started it>>
          forked,   \* their worker processes, which may outlive them
          cmd,      \* the command: its actions, the place it has come to
          coord,    \* coordinator processes, the pid file, the relaunch under way
          envs      \* [override, value] of a safety setting in each coordinator started (history)

lifecycleVars == <<ranks, forked, cmd, coord, envs>>

NoCommand == [number |-> 0, actions |-> <<>>, sel |-> {}, cleanup |-> FALSE, relaunch |-> FALSE, places |-> <<>>, failed |-> {},
              started |-> {}, read |-> FALSE, snapshot |-> {}, status |-> "idle"]

LifecycleTypeOK ==
    /\ \A p \in ranks \cup forked : p[1] \in Fleet /\ p[3] \in 0..MaxCommands
    /\ cmd.status \in {"idle", "running", "cleanup", "ok", "failed", "raised", "refused"} /\ cmd.sel \subseteq Fleet
    /\ coord.running \subseteq 0..MaxRelaunch /\ coord.pidFile \in 0..MaxRelaunch
    /\ coord.pc \in {"idle", "stop", "term", "kill", "start", "health", "healthy", "failed"}

LifecycleStart ==
    /\ ranks = UNION {{<<s, NodesOf[s][k], 0>> : k \in DOMAIN NodesOf[s]} : s \in Fleet} /\ forked = ranks
    /\ cmd = NoCommand
    /\ coord = [running |-> {0}, pidFile |-> 0, number |-> 0, targets |-> {}, override |-> NotSet, inherited |-> NotSet, pc |-> "idle"]
    /\ envs = {}

-----------------------------------------------------------------------------
(* The processes (external): a rank forks its worker, a rank crashes and    *)
(* takes its worker along.                                                  *)
ForkWorker(p) == p \in ranks \ forked /\ forked' = forked \cup {p} /\ UNCHANGED <<ranks, cmd, coord, envs>>
RankCrashes(p) == p \in ranks /\ ranks' = ranks \ {p} /\ forked' = forked \ {p} /\ UNCHANGED <<cmd, coord, envs>>

(* An engine answers /v1/models once all ranks run with their workers.      *)
Serves(s) == \E g \in 0..MaxCommands : \A n \in ToSet(NodesOf[s]) : <<s, n, g>> \in ranks \cap forked

-----------------------------------------------------------------------------
(* _expand_actions, _is_dangerous_all_services,                             *)
(* _cleanup_on_probe_failure_enabled.                                       *)
Expanded(actions) ==
    FlattenSeq([k \in DOMAIN actions |->
        IF actions[k] = "relaunch" THEN <<"pull", "stop", "write-scripts", "launch", "probe">> ELSE <<actions[k]>>])
Mutating(actions) == ToSet(actions) \cap {"pull", "stop", "write-scripts", "launch"} # {}
RefusedCommand(c) == c.sel = Fleet /\ ~c.allowAll /\ Mutating(Expanded(c.actions))
CleanupEnabled(c) ==
    c.cleanup /\ \E i, j \in DOMAIN Expanded(c.actions) : i < j /\ Expanded(c.actions)[i] = "launch" /\ Expanded(c.actions)[j] = "probe"

(* The places an action visits: every node of every selected service; a     *)
(* launch comes to the entry node of a service last; a pull is one local    *)
(* command (FleetUpdate) and visits none.                                   *)
OtherNodes(s) == FlattenSeq([k \in DOMAIN NodesOf[s] |-> IF NodesOf[s][k] = EntryOf[s] THEN <<>> ELSE <<NodesOf[s][k]>>])
LaunchOrder(s) == Append(OtherNodes(s), EntryOf[s])
PlacesOf(action, s) ==
    LET nodes == IF action = "launch" THEN LaunchOrder(s) ELSE IF action = "probe" THEN <<EntryOf[s]>> ELSE NodesOf[s]
    IN  [i \in DOMAIN nodes |-> <<s, nodes[i]>>]
Places(action, sel) ==
    IF action = "pull" THEN <<>> ELSE FlattenSeq([k \in 1..Cardinality(sel) |-> PlacesOf(action, SetToSeq(sel)[k])])

Command(c) ==
    LET actions == Expanded(c.actions) IN
    /\ cmd.status \notin {"running", "cleanup"} /\ cmd.number < MaxCommands
    /\ cmd' = [NoCommand EXCEPT !.number = cmd.number + 1, !.actions = actions, !.sel = c.sel, !.cleanup = CleanupEnabled(c),
                                !.relaunch = "relaunch" \in ToSet(c.actions), !.places = Places(Head(actions), c.sel),
                                !.status = IF RefusedCommand(c) THEN "refused" ELSE "running"]
    /\ UNCHANGED <<ranks, forked, coord, envs>>

(* ssh: the script ran and its status is known, it ran and the connection   *)
(* broke, it did not run.                                                   *)
SshResults == {"done", "lost", "failed"}
Here == Head(cmd.places)
At(p) == p[1] = Here[1] /\ p[2] = Here[2]
Visiting(action) == cmd.status = "running" /\ cmd.actions # <<>> /\ Head(cmd.actions) = action /\ cmd.places # <<>>
Onward(failed) == [cmd EXCEPT !.places = Tail(@), !.failed = @ \cup failed, !.read = FALSE, !.snapshot = {}]

(* An action that has visited all its places: _stop and _probe raise        *)
(* SystemExit if one failed; after a failed probe main cleans up, if there  *)
(* is something launched to clean up.                                       *)
ActionEnds ==
    LET rest == Tail(cmd.actions) IN
    /\ cmd.status = "running" /\ cmd.places = <<>>
    /\ cmd' = IF cmd.failed # {} /\ Head(cmd.actions) = "probe" /\ cmd.cleanup
              THEN [cmd EXCEPT !.status = "cleanup", !.places = Places("stop", cmd.sel), !.failed = {}]
              ELSE IF cmd.failed # {} THEN [cmd EXCEPT !.status = "failed"]
              ELSE [cmd EXCEPT !.actions = rest, !.places = IF rest = <<>> THEN <<>> ELSE Places(Head(rest), cmd.sel),
                               !.status = IF rest = <<>> THEN "ok" ELSE "running"]
    /\ UNCHANGED <<ranks, forked, coord, envs>>
CleanupEnds == cmd.status = "cleanup" /\ cmd.places = <<>> /\ cmd' = [cmd EXCEPT !.status = "failed"] /\ UNCHANGED <<ranks, forked, coord, envs>>

(* _remote_kill: the process table is read; then all that was found, serve  *)
(* processes of the service and what they had forked, gets SIGTERM and two  *)
(* seconds later SIGKILL.                                                   *)
Killing == Visiting("stop") \/ (cmd.status = "cleanup" /\ cmd.places # <<>>)
KillReads ==
    /\ Killing /\ ~cmd.read
    /\ cmd' = [cmd EXCEPT !.read = TRUE, !.snapshot = {<<"rank", p>> : p \in {q \in ranks : At(q)}}
                                                   \cup {<<"worker", p>> : p \in {q \in ranks \cap forked : At(q)}}]
    /\ UNCHANGED <<ranks, forked, coord, envs>>
KillRuns(result) ==
    /\ Killing /\ cmd.read /\ result \in {"done", "lost"}
    /\ ranks' = {p \in ranks : <<"rank", p>> \notin cmd.snapshot}
    /\ forked' = {p \in forked : <<"worker", p>> \notin cmd.snapshot}
    /\ cmd' = Onward(IF result = "done" THEN {} ELSE {Here}) /\ UNCHANGED <<coord, envs>>
(* Mutation: a node that cannot be reached is passed over. *)
KillSkips == Killing /\ ~cmd.read /\ cmd' = Onward({}) /\ UNCHANGED <<ranks, forked, coord, envs>>

KillFails == Killing /\ ~cmd.read /\ cmd' = Onward({Here}) /\ UNCHANGED <<ranks, forked, coord, envs>>

(* The pull, _remote_write and _remote_launch, with check=True: an error    *)
(* ends the command there, and is no SystemExit.                            *)
PullFails ==
    /\ cmd.status = "running" /\ Head(cmd.actions) = "pull"
    /\ cmd' = [cmd EXCEPT !.status = "raised"] /\ UNCHANGED <<ranks, forked, coord, envs>>
WriteScripts(result) ==
    /\ Visiting("write-scripts")
    /\ cmd' = IF result = "done" THEN Onward({}) ELSE [cmd EXCEPT !.status = "raised"]
    /\ UNCHANGED <<ranks, forked, coord, envs>>
Launch(result) ==
    /\ Visiting("launch")
    /\ ranks' = IF result = "failed" THEN ranks ELSE ranks \cup {<<Here[1], Here[2], cmd.number>>}
    /\ cmd' = IF result = "done" THEN [Onward({}) EXCEPT !.started = @ \cup {Here}] ELSE [cmd EXCEPT !.status = "raised"]
    /\ UNCHANGED <<forked, coord, envs>>

(* _probe: the engine answers before the timeout, or the timeout passes.    *)
Probe(ok) ==
    /\ Visiting("probe") /\ (ok => Serves(Here[1]))
    /\ cmd' = Onward(IF ok THEN {} ELSE {Here}) /\ UNCHANGED <<ranks, forked, coord, envs>>

-----------------------------------------------------------------------------
(* The coordinator.  _coordinator_env: an override wins; for a safety       *)
(* setting the profile beats what the operator's shell has exported.        *)
EnvValue(safety, inherited, override) ==
    IF override # NotSet THEN override ELSE IF safety \/ inherited = NotSet THEN ProfileValue ELSE inherited
RelaunchCoordinator(inherited, override) ==
    /\ coord.pc \in {"idle", "healthy", "failed"} /\ coord.number < MaxRelaunch
    /\ coord' = [coord EXCEPT !.pc = "stop", !.number = @ + 1, !.inherited = inherited, !.override = override]
    /\ UNCHANGED <<ranks, forked, cmd, envs>>

(* ds4_stop_coordinator_api.py: SIGTERM, which a coordinator may take too   *)
(* long to obey; SIGKILL, which may take too long as well.                  *)
Terminate(left) ==
    /\ coord.pc = "stop" /\ left \subseteq coord.running
    /\ coord' = [coord EXCEPT !.running = left, !.pc = IF left = {} THEN "start" ELSE "kill"] /\ UNCHANGED <<ranks, forked, cmd, envs>>
Kill(left) ==
    /\ coord.pc = "kill" /\ left \subseteq coord.running
    /\ coord' = [coord EXCEPT !.running = left, !.pc = IF left = {} THEN "start" ELSE "failed"] /\ UNCHANGED <<ranks, forked, cmd, envs>>
StartCoordinator ==
    /\ coord.pc = "start"
    /\ coord' = [coord EXCEPT !.running = @ \cup {coord.number}, !.pidFile = coord.number, !.pc = "health"]
    /\ envs' = envs \cup {[override |-> coord.override, value |-> EnvValue(TRUE, coord.inherited, coord.override)]}
    /\ UNCHANGED <<ranks, forked, cmd>>
CoordinatorDies(g) == g \in coord.running /\ coord' = [coord EXCEPT !.running = @ \ {g}] /\ UNCHANGED <<ranks, forked, cmd, envs>>

(* _wait_health: whoever has the port says that its dispatcher runs.        *)
Health(ok) ==
    /\ coord.pc = "health" /\ (ok => coord.running # {})
    /\ coord' = [coord EXCEPT !.pc = IF ok THEN "healthy" ELSE "failed", !.targets = IF ok THEN coord.running ELSE {}]
    /\ UNCHANGED <<ranks, forked, cmd, envs>>

FleetNext ==
    \/ \E p \in ranks : ForkWorker(p) \/ RankCrashes(p)
    \/ \E c \in CommandLines : Command(c)
    \/ \E r \in SshResults : KillRuns(r) \/ WriteScripts(r) \/ Launch(r)
    \/ KillReads \/ KillFails \/ PullFails \/ (\E ok \in BOOLEAN : Probe(ok)) \/ ActionEnds \/ CleanupEnds
CoordinatorNext ==
    \/ \E i, o \in EnvValues \cup {NotSet} : RelaunchCoordinator(i, o)
    \/ \E left \in SUBSET coord.running : Terminate(left) \/ Kill(left)
    \/ StartCoordinator \/ (\E g \in coord.running : CoordinatorDies(g)) \/ \E ok \in BOOLEAN : Health(ok)

-----------------------------------------------------------------------------
(* A relaunch that succeeds replaced everything: no rank of an earlier      *)
(* launch is left on any node of its services, although nodes were visited  *)
(* one by one, over connections that may break (_stop, _run_action).        *)
RelaunchFresh ==
    cmd.status = "ok" /\ cmd.relaunch => \A p \in ranks : p[1] \in cmd.sel => p[3] = cmd.number

(* The entry rank of a service, which others wait for and which serves, is  *)
(* started after all its other ranks have been (the order in _run_action).  *)
EntryLast ==
    \A s \in Fleet : <<s, EntryOf[s]>> \in cmd.started => \A n \in ToSet(NodesOf[s]) : <<s, n>> \in cmd.started

(* A launch whose probe fails leaves no rank behind, except on nodes that   *)
(* could not be reached for the cleanup (_cleanup_after_failed_probe).      *)
FailedProbeCleans ==
    cmd.status = "failed" /\ cmd.cleanup /\ cmd.started # {} =>
    \A p \in ranks : p[1] \in cmd.sel => <<p[1], p[2]>> \in cmd.failed

(* "healthy" is said of the coordinator just started and noted in the pid   *)
(* file, never of an old one that still has the port (main, _wait_health).  *)
HealthyIsNew == coord.pc = "healthy" => coord.targets = {coord.number} /\ coord.pidFile = coord.number

(* Relaunches with the same overrides run with the same safety settings,    *)
(* whatever the shells they come from have exported (_coordinator_env).     *)
SafetyFromProfile == \A a, b \in envs : a.override = b.override => a.value = b.value
=============================================================================
