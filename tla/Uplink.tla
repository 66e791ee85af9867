------------------------------- MODULE Uplink -------------------------------
(***************************************************************************)
(* The Internet uplink of one Spark (scripts/ds4_spark_uplink.py): a timer *)
(* runs the monitor, which probes the wired link, the ASUS WiFi and the    *)
(* TP-Link WiFi in this order, moves the default route and records the     *)
(* path.  Links change, NetworkManager reconnects and `apply` rewrites the *)
(* profiles between any two of its commands; a command may raise, systemd  *)
(* may kill the run.  A second run finds the lock taken and exits.         *)
(***************************************************************************)
EXTENDS Integers

CONSTANTS RetryTicks,        \* ASUS_RETRY_SECONDS
          MaxLinkChanges     \* bound: changes of links, failed commands and applies

ASSUME UplinkAssumption == RetryTicks \in Nat \ {0} /\ MaxLinkChanges \in Nat

VARIABLES net,        \* of each link: "ok", "dead" (no Internet) or "gone"
          wifi,       \* the profile active on the WiFi interface
          wiredRoute, \* the wired default route, of metric 10, is there
          probeRoute, \* the host route of the wired probe is there
          saved,      \* WiFi profiles NetworkManager has under their canonical names
          path,       \* state_dir/path
          wait,       \* what is left until asus_retry_after
          run,        \* the monitor run: its next step, was a retry due, how it ended
          steady,     \* history: nothing else touched the network since it began
          changes

uplinkVars == <<net, wifi, wiredRoute, probeRoute, saved, path, wait, run, steady, changes>>

Links == {"wired", "asus", "tplink"}
WifiProfiles == {"asus", "tplink"}
UplinkSteps == {"idle", "carrier", "wired", "wiredOk", "standby", "wiredFailed",
                "asusUp", "asusProbe", "tplinkUp", "tplinkProbe"}

UplinkTypeOK ==
    /\ net \in [Links -> {"ok", "dead", "gone"}]
    /\ wifi \in WifiProfiles \cup {"none"}
    /\ wiredRoute \in BOOLEAN /\ probeRoute \in BOOLEAN /\ steady \in BOOLEAN
    /\ saved \in SUBSET WifiProfiles
    /\ path \in {"unknown", "wired", "asus_wifi", "tplink_wifi", "failed"}
    /\ wait \in 0..RetryTicks
    /\ run \in [step : UplinkSteps, due : BOOLEAN, ended : {"none", "recorded", "raised"}]
    /\ changes \in 0..MaxLinkChanges

UplinkStart(n, profiles) ==
    /\ net = n /\ wifi = "none"
    /\ wiredRoute = (n["wired"] # "gone") /\ probeRoute = FALSE
    /\ saved = profiles
    /\ path = "unknown" /\ wait = 0
    /\ run = [step |-> "idle", due |-> FALSE, ended |-> "none"]
    /\ steady = FALSE /\ changes = 0

AtStep(s) == run.step = s
Then(s) == run' = [run EXCEPT !.step = s]

(* interface_probe of the WiFi interface, whatever profile is on it *)
WifiReaches == wifi # "none" /\ net[wifi] = "ok"

(* asus_retry_due *)
AsusRetryDue == wait = 0

(* Mutation: a deferral is added to the one before. *)
DeferredAgain == wait + RetryTicks

(* defer_asus_retry *)
DeferredRetry == RetryTicks

(* record_path, which ends a run *)
RecordPath(p) ==
    /\ path' = p
    /\ run' = [run EXCEPT !.step = "idle", !.ended = "recorded"]

(* activate_wifi: the profile is missing, or does not come up and leaves   *)
(* the interface as it was or without a connection                         *)
Activates(p) == p \in saved /\ net[p] # "gone" /\ wifi' = p
ActivationFails(p) == (p \notin saved \/ net[p] = "gone") /\ wifi' \in {wifi, "none"}

-----------------------------------------------------------------------------
(* monitor_uplink                                                          *)

TimerFires ==
    /\ AtStep("idle")
    /\ run' = [step |-> "carrier", due |-> AsusRetryDue, ended |-> "none"]
    /\ steady' = TRUE
    /\ UNCHANGED <<net, wifi, wiredRoute, probeRoute, saved, path, wait, changes>>

(* wired_probe: without a carrier it fails at once *)
AddProbeRoute ==
    /\ AtStep("carrier")
    /\ probeRoute' = (probeRoute \/ net["wired"] # "gone")
    /\ Then(IF net["wired"] = "gone" THEN "wiredFailed" ELSE "wired")
    /\ UNCHANGED <<net, wifi, wiredRoute, saved, path, wait, steady, changes>>

ProbeWired ==
    /\ AtStep("wired")
    /\ probeRoute' = FALSE
    /\ Then(IF net["wired"] = "ok" THEN "wiredOk" ELSE "wiredFailed")
    /\ UNCHANGED <<net, wifi, wiredRoute, saved, path, wait, steady, changes>>

RestoreWired ==
    /\ AtStep("wiredOk")
    /\ net["wired"] # "gone"
    /\ wiredRoute' = TRUE
    /\ Then("standby")
    /\ UNCHANGED <<net, wifi, probeRoute, saved, path, wait, steady, changes>>

(* the route through a link that is gone is refused, and ends the run *)
RouteRefused ==
    /\ AtStep("wiredOk") /\ net["wired"] = "gone"
    /\ run' = [run EXCEPT !.step = "idle", !.ended = "raised"]
    /\ UNCHANGED <<net, wifi, wiredRoute, probeRoute, saved, path, wait, steady, changes>>

(* ensure_asus_standby *)
EnsureStandby ==
    /\ AtStep("standby")
    /\ \/ (wifi = "asus" \/ ~run.due) /\ UNCHANGED <<wifi, wait>>
       \/ wifi # "asus" /\ run.due /\ Activates("asus") /\ UNCHANGED wait
       \/ wifi # "asus" /\ run.due /\ ActivationFails("asus") /\ wait' = DeferredRetry
    /\ RecordPath("wired")
    /\ UNCHANGED <<net, wiredRoute, probeRoute, saved, steady, changes>>

(* Mutation: the wired default route is left in place. *)
DropWiredNot ==
    /\ AtStep("wiredFailed")
    /\ Then(IF wifi = "asus" THEN "asusProbe" ELSE IF run.due THEN "asusUp" ELSE "tplinkUp")
    /\ UNCHANGED <<net, wifi, wiredRoute, probeRoute, saved, path, wait, steady, changes>>

DropWired ==
    /\ AtStep("wiredFailed")
    /\ wiredRoute' = FALSE
    /\ Then(IF wifi = "asus" THEN "asusProbe" ELSE IF run.due THEN "asusUp" ELSE "tplinkUp")
    /\ UNCHANGED <<net, wifi, probeRoute, saved, path, wait, steady, changes>>

ActivateAsus ==
    /\ AtStep("asusUp")
    /\ \/ Activates("asus") /\ Then("asusProbe") /\ UNCHANGED wait
       \/ ActivationFails("asus") /\ Then("tplinkUp") /\ wait' = DeferredRetry
    /\ UNCHANGED <<net, wiredRoute, probeRoute, saved, path, steady, changes>>

ProbeAsus ==
    /\ AtStep("asusProbe")
    /\ IF WifiReaches THEN RecordPath("asus_wifi") /\ UNCHANGED wait
       ELSE Then("tplinkUp") /\ wait' = DeferredRetry /\ UNCHANGED path
    /\ UNCHANGED <<net, wifi, wiredRoute, probeRoute, saved, steady, changes>>

ActivateTplink ==
    /\ AtStep("tplinkUp")
    /\ \/ Activates("tplink") /\ Then("tplinkProbe") /\ UNCHANGED path
       \/ ActivationFails("tplink") /\ RecordPath("failed")
    /\ UNCHANGED <<net, wiredRoute, probeRoute, saved, wait, steady, changes>>

ProbeTplink ==
    /\ AtStep("tplinkProbe")
    /\ RecordPath(IF WifiReaches THEN "tplink_wifi" ELSE "failed")
    /\ UNCHANGED <<net, wifi, wiredRoute, probeRoute, saved, wait, steady, changes>>

MonitorStep ==
    \/ AddProbeRoute \/ ProbeWired \/ RestoreWired \/ RouteRefused \/ EnsureStandby \/ DropWired
    \/ ActivateAsus \/ ProbeAsus \/ ActivateTplink \/ ProbeTplink

-----------------------------------------------------------------------------
(* Everything else                                                         *)

Disturbs == changes < MaxLinkChanges /\ changes' = changes + 1 /\ steady' = FALSE

(* a command times out or is refused; wired_probe removes its route first *)
RunRaises ==
    /\ ~AtStep("idle")
    /\ run' = [run EXCEPT !.step = "idle", !.ended = "raised"]
    /\ probeRoute' = (probeRoute /\ ~AtStep("wired"))
    /\ Disturbs
    /\ UNCHANGED <<net, wifi, wiredRoute, saved, path, wait>>

(* TimeoutStartSec: nothing is cleaned up *)
RunKilled ==
    /\ ~AtStep("idle")
    /\ run' = [run EXCEPT !.step = "idle", !.ended = "raised"]
    /\ Disturbs
    /\ UNCHANGED <<net, wifi, wiredRoute, probeRoute, saved, path, wait>>

(* the kernel drops the routes of a lost carrier; NetworkManager sets the  *)
(* default route of the wired profile when it is back                      *)
LinkChanges(l, s) ==
    /\ Disturbs
    /\ net[l] # s
    /\ net' = [net EXCEPT ![l] = s]
    /\ wifi' = IF l = wifi /\ s = "gone" THEN "none" ELSE wifi
    /\ IF l # "wired" THEN UNCHANGED <<wiredRoute, probeRoute>>
       ELSE /\ wiredRoute' = (s # "gone" /\ (wiredRoute \/ net["wired"] = "gone"))
            /\ probeRoute' = (probeRoute /\ s # "gone")
    /\ UNCHANGED <<saved, path, wait, run>>

(* autoconnect, by priority *)
NetworkManagerConnects ==
    /\ wifi = "none"
    /\ \E p \in saved : /\ net[p] # "gone"
                        /\ p = "tplink" => "asus" \notin saved \/ net["asus"] = "gone"
                        /\ wifi' = p
    /\ UNCHANGED <<net, wiredRoute, probeRoute, saved, path, wait, run, steady, changes>>

(* apply_profiles takes no lock: it writes the wired and the ASUS profile, *)
(* renames a saved TP-Link profile or raises, then brings both links up    *)
ApplyProfiles ==
    /\ Disturbs
    /\ \/ saved' = saved \cup {"asus"} /\ "tplink" \notin saved /\ UNCHANGED <<wiredRoute, wifi>>
       \/ /\ saved' = WifiProfiles
          /\ wiredRoute' = (wiredRoute \/ net["wired"] # "gone")
          /\ wifi' \in IF net["wired"] = "gone" THEN {wifi}
                       ELSE IF net["asus"] # "gone" THEN {"asus"} ELSE {wifi, "none"}
    /\ UNCHANGED <<net, probeRoute, path, wait, run>>

Tick == wait > 0 /\ wait' = wait - 1
        /\ UNCHANGED <<net, wifi, wiredRoute, probeRoute, saved, path, run, steady, changes>>

UplinkNext ==
    \/ TimerFires \/ MonitorStep \/ Tick
    \/ RunRaises \/ RunKilled \/ NetworkManagerConnects \/ ApplyProfiles
    \/ \E l \in Links, s \in {"ok", "dead", "gone"} : LinkChanges(l, s)

-----------------------------------------------------------------------------
(* Properties                                                              *)

(* What a run recorded while nothing else touched the network is true and  *)
(* is the best that could be had: the wired link if and only if it reaches *)
(* the Internet, then ASUS unless a failed attempt is less than the retry  *)
(* time ago, then TP-Link; the routes and the WiFi interface agree with    *)
(* it, and the probe leaves no route (record_path in monitor_uplink).      *)
PathHonest ==
    AtStep("idle") /\ run.ended = "recorded" /\ steady =>
        LET asusOffered == "asus" \in saved /\ net["asus"] = "ok" /\ run.due
            tplinkOffered == "tplink" \in saved /\ net["tplink"] = "ok"
        IN  /\ wiredRoute = (path = "wired") /\ ~probeRoute
            /\ (path = "wired") = (net["wired"] = "ok")
            /\ path = "asus_wifi" => wifi = "asus" /\ net["asus"] = "ok"
            /\ path = "tplink_wifi" => wifi = "tplink" /\ net["tplink"] = "ok" /\ ~asusOffered
            /\ path = "failed" => ~tplinkOffered /\ ~asusOffered

BestPath ==
    CASE net["wired"] = "ok" -> "wired"
      [] net["wired"] # "ok" /\ "asus" \in saved /\ net["asus"] = "ok" -> "asus_wifi"
      [] net["wired"] # "ok" /\ ~("asus" \in saved /\ net["asus"] = "ok")
            /\ "tplink" \in saved /\ net["tplink"] = "ok" -> "tplink_wifi"
      [] OTHER -> "failed"

(* Once the links stay as they are, the recorded path becomes and stays    *)
(* the best one: a cooldown of ASUS ends, and a run that raised or was     *)
(* killed is followed by one that does not (the timer, asus_retry_due).    *)
BestPathTaken == <>[](path = BestPath)
=============================================================================
