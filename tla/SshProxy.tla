------------------------------ MODULE SshProxy ------------------------------
(***************************************************************************)
(* The SSH proxy command (scripts/ds4_spark_ssh_proxy.py): it tries the    *)
(* routes of a node in order, one process or socket at a time, takes the   *)
(* first that shows an SSH banner and then relays bytes both ways.  What   *)
(* the far end sends is a sequence of chunks; the banner is one of them.   *)
(***************************************************************************)
EXTENDS Integers, Sequences, SequencesExt

CONSTANTS ProxyNodes,      \* the nodes of the profile
          WifiHosts,       \* of each node: its emergency hosts, in order
          FarChunks,       \* bound: chunks the far end sends
          LocalChunks      \* bound: chunks standard input gives

ASSUME SshProxyAssumption ==
    /\ WifiHosts \in [ProxyNodes -> Seq(STRING)]
    /\ FarChunks \in Nat \ {0} /\ LocalChunks \in Nat

VARIABLES routes,    \* the candidates open_channel tries, in order
          far,       \* what each candidate's far end does: see FarEnds
          trying,    \* which candidate is tried or used
          proxy,     \* "trying", "relaying", "probed", "failed" or "done"
          live,      \* candidates with an open socket or a running ssh process
          sent,      \* chunks the far end of the candidate in use has sent
          preface,   \* those read before the channel counted as open
          shown,     \* chunks written to standard output
          typed,     \* chunks read from standard input and passed on
          closed     \* ends that have closed: "far", "near"

proxyVars == <<routes, far, trying, proxy, live, sent, preface, shown, typed, closed>>

(* refused at once; silent; closes without a banner; a banner as its first *)
(* or, after a message of its own, as its second chunk                     *)
FarEnds == {"refuses", "silent", "closes", "banner", "late banner"}
BannerAt(f) == IF f = "banner" THEN 1 ELSE IF f = "late banner" THEN 2 ELSE FarChunks + 1

(* _parse_bastions *)
BastionsAccepted(bs) == bs # <<>> /\ IsInjective(bs) /\ ToSet(bs) \subseteq ProxyNodes

(* _ring_channels and _wifi_channels *)
Ring(bs) == [i \in DOMAIN bs |-> <<"200g", bs[i], "fabric">>]
OwnWifi(n) == [i \in DOMAIN WifiHosts[n] |-> <<"wifi", WifiHosts[n][i], "local">>]
BastionWifi(bs) ==
    FlattenSeq([i \in DOMAIN bs |-> [j \in DOMAIN WifiHosts[bs[i]] |->
                                        <<"wifi", WifiHosts[bs[i]][j], "fabric">>]])

(* the candidates of open_channel *)
Candidates(n, route, ring, wifi) ==
    (IF route \in {"auto", "10g"} THEN << <<"10g", n, "direct">> >> ELSE <<>>)
    \o (IF route \in {"auto", "200g"} THEN Ring(ring) ELSE <<>>)
    \o (IF route \in {"auto", "wifi"} THEN OwnWifi(n) \o BastionWifi(wifi) ELSE <<>>)

SshProxyTypeOK ==
    /\ far \in [DOMAIN routes -> FarEnds]
    /\ trying \in 0..Len(routes) + 1
    /\ proxy \in {"trying", "relaying", "probed", "failed", "done"}
    /\ live \subseteq DOMAIN routes
    /\ sent \in 0..FarChunks /\ shown \in Seq(1..FarChunks) /\ preface \in Seq(1..FarChunks)
    /\ typed \in 0..LocalChunks
    /\ closed \subseteq {"far", "near"}

(* load_profile refuses a profile without accepted bastions *)
ProxyStart(n, route, ring, wifi, ends) ==
    /\ BastionsAccepted(ring) /\ BastionsAccepted(wifi)
    /\ routes = Candidates(n, route, ring, wifi)
    /\ far = [i \in DOMAIN routes |-> ends[i]]
    /\ trying = 0 /\ proxy = "trying" /\ live = {}
    /\ sent = 0 /\ preface = <<>> /\ shown = <<>> /\ typed = 0 /\ closed = {}

Opening == proxy = "trying" /\ trying \in live

(* one factory of open_channel; a refused connection fails it at once *)
TryNext ==
    /\ proxy = "trying" /\ trying \notin live /\ trying < Len(routes)
    /\ trying' = trying + 1
    /\ live' = IF far[trying'] = "refuses" THEN live ELSE live \cup {trying'}
    /\ sent' = 0 /\ preface' = <<>> /\ closed' = {}
    /\ UNCHANGED <<routes, far, proxy, shown, typed>>

(* _read_ssh_preface: it keeps what comes before the banner, and what came *)
(* with it                                                                 *)
ReadPreface ==
    /\ Opening
    /\ Len(preface) < sent
    /\ \E k \in (Len(preface) + 1)..sent :
        /\ preface' = [i \in 1..k |-> i]
        /\ proxy' = IF k >= BannerAt(far[trying]) THEN "relaying" ELSE proxy
    /\ UNCHANGED <<routes, far, trying, live, sent, shown, typed, closed>>

(* no banner in time, or the end of the stream: the socket is closed, the  *)
(* process terminated, then killed                                         *)
PrefaceFails ==
    /\ Opening
    /\ live' = live \ {trying}
    /\ UNCHANGED <<routes, far, trying, proxy, sent, preface, shown, typed, closed>>

NoRouteLeft ==
    /\ proxy = "trying" /\ trying \notin live /\ trying = Len(routes)
    /\ proxy' = "failed"
    /\ UNCHANGED <<routes, far, trying, live, sent, preface, shown, typed, closed>>

(* --probe: close_channel *)
ProbeOnly ==
    /\ proxy = "relaying" /\ shown = <<>> /\ typed = 0
    /\ proxy' = "probed"
    /\ live' = live \ {trying}
    /\ UNCHANGED <<routes, far, trying, sent, preface, shown, typed, closed>>

(* relay_channel writes the preface first *)
WritePreface ==
    /\ proxy = "relaying" /\ shown = <<>>
    /\ shown' = preface
    /\ UNCHANGED <<routes, far, trying, proxy, live, sent, preface, typed, closed>>

(* what it reads next follows the preface *)
RelayOut ==
    /\ proxy = "relaying" /\ shown # <<>> /\ Len(shown) < sent
    /\ shown' = Append(shown, Len(shown) + 1)
    /\ UNCHANGED <<routes, far, trying, proxy, live, sent, preface, typed, closed>>

(* _copy_stdin_to_socket, _copy_stdin_to_file; the end of the input closes *)
(* the sending side only                                                   *)
RelayIn ==
    /\ proxy = "relaying" /\ shown # <<>> /\ "near" \notin closed
    /\ \/ typed < LocalChunks /\ typed' = typed + 1 /\ UNCHANGED closed
       \/ closed' = closed \cup {"near"} /\ UNCHANGED typed
    /\ UNCHANGED <<routes, far, trying, proxy, live, sent, preface, shown>>

(* the stream of the far end is empty and closed *)
RelayEnds ==
    /\ proxy = "relaying" /\ shown # <<>>
    /\ "far" \in closed /\ Len(shown) = sent
    /\ proxy' = "done"
    /\ live' = live \ {trying}
    /\ UNCHANGED <<routes, far, trying, sent, preface, shown, typed, closed>>

(* the far end *)
FarSends ==
    /\ trying \in live /\ "far" \notin closed
    /\ far[trying] \notin {"silent", "closes"} /\ sent < FarChunks
    /\ sent' = sent + 1
    /\ UNCHANGED <<routes, far, trying, proxy, live, preface, shown, typed, closed>>

FarCloses ==
    /\ trying \in live /\ "far" \notin closed
    /\ far[trying] # "silent"
    /\ closed' = closed \cup {"far"}
    /\ UNCHANGED <<routes, far, trying, proxy, live, sent, preface, shown, typed>>

SshProxyNext ==
    \/ TryNext \/ ReadPreface \/ PrefaceFails \/ NoRouteLeft \/ ProbeOnly
    \/ WritePreface \/ RelayOut \/ RelayIn \/ RelayEnds \/ FarSends \/ FarCloses

-----------------------------------------------------------------------------
(* Properties                                                              *)

(* Only the candidate in use holds a socket or an ssh process, and none is *)
(* left when the proxy has failed or ended (the except of the two openers, *)
(* close_channel).                                                         *)
NothingLeftOpen ==
    /\ live \subseteq {trying}
    /\ proxy \in {"failed", "probed", "done"} => live = {}

(* Standard output carries the chunks of the far end from the first on,    *)
(* each once and in order, and all of them when the far end closed: the    *)
(* bytes read while looking for the banner are not lost (preface).         *)
StreamWhole ==
    /\ shown = [i \in 1..Len(shown) |-> i]
    /\ proxy = "done" => Len(shown) = sent
    /\ proxy = "relaying" => \E i \in ToSet(preface) : i >= BannerAt(far[trying])

(* A node without a direct path is still reached: the proxy fails only     *)
(* after every candidate of the route was tried, the direct one before the *)
(* bastions, the bastions before WiFi (open_channel).                      *)
OrderKept ==
    LET Rank(c) == CASE c[1] = "10g" -> 1 [] c[1] = "200g" -> 2
                     [] c[1] = "wifi" /\ c[3] = "local" -> 3 [] OTHER -> 4
    IN  /\ \A i, j \in DOMAIN routes : i < j => Rank(routes[i]) <= Rank(routes[j])
        /\ proxy = "failed" => trying = Len(routes)
=============================================================================
