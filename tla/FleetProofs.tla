---------------------------- MODULE FleetProofs ----------------------------
(***************************************************************************)
(* Proofs about the fleet: its commands and its coordinator, the proxy,    *)
(* the update of its checkouts and the cleanup of its layout.              *)
(***************************************************************************)
EXTENDS PartsProofs

-----------------------------------------------------------------------------
(* The fleet and its coordinator.                                           *)

RankPlaces == UNION {{<<s, NodesOf[s][k]>> : k \in 1..Len(NodesOf[s])} : s \in Fleet}
AllRanks == {p \in Fleet \X STRING \X Nat : <<p[1], p[2]>> \in RankPlaces}

LEMMA FleetNodesFacts ==
    ASSUME NEW s \in Fleet
    PROVE  /\ NodesOf[s] \in Seq(STRING)
           /\ \E k \in 1..Len(NodesOf[s]) : NodesOf[s][k] = EntryOf[s]
           /\ EntryOf[s] \in STRING
           /\ \A k \in 1..Len(NodesOf[s]) : NodesOf[s][k] \in STRING /\ <<s, NodesOf[s][k]>> \in RankPlaces
           /\ <<s, EntryOf[s]>> \in RankPlaces
<1>1. NodesOf[s] \in Seq(STRING)
    BY LifecycleAssumption
<1>2. EntryOf[s] \in {NodesOf[s][k] : k \in DOMAIN NodesOf[s]}
    BY LifecycleAssumption
<1> DEFINE nodes == NodesOf[s]
<1>3. DOMAIN nodes = 1..Len(nodes) /\ \A k \in 1..Len(nodes) : nodes[k] \in STRING
    BY <1>1
<1>4. PICK k \in 1..Len(nodes) : nodes[k] = EntryOf[s]
    BY <1>2, <1>3
<1>5. \A i \in 1..Len(nodes) : <<s, nodes[i]>> \in RankPlaces
    BY DEF RankPlaces
<1> QED BY <1>1, <1>3, <1>4, <1>5

LEMMA OtherNodesFacts ==
    ASSUME NEW s \in Fleet
    PROVE  /\ OtherNodes(s) \in Seq(STRING)
           /\ \A i \in 1..Len(OtherNodes(s)) :
                 OtherNodes(s)[i] # EntryOf[s] /\ \E k \in 1..Len(NodesOf[s]) : OtherNodes(s)[i] = NodesOf[s][k]
           /\ \A k \in 1..Len(NodesOf[s]) : NodesOf[s][k] # EntryOf[s] =>
                 \E i \in 1..Len(OtherNodes(s)) : OtherNodes(s)[i] = NodesOf[s][k]
<1> DEFINE nodes == NodesOf[s]
           N == Len(nodes)
           e == EntryOf[s]
           x == [k \in 1..N |-> IF nodes[k] = e THEN <<>> ELSE <<nodes[k]>>]
<1>1. nodes \in Seq(STRING) /\ N \in Nat /\ DOMAIN nodes = 1..N /\ \A k \in 1..N : nodes[k] \in STRING
    <2>1. nodes \in Seq(STRING)
        BY FleetNodesFacts
    <2> HIDE DEF nodes
    <2> QED BY <2>1
<1>2. OtherNodes(s) = FlattenSeq(x)
    BY <1>1 DEF OtherNodes
<1> HIDE DEF nodes, N, e
<1>3. x \in Seq(Seq(STRING)) /\ Len(x) = N
    <2>1. <<>> \in Seq(STRING) /\ \A z \in STRING : <<z>> \in Seq(STRING)
        BY EmptySeq, OneSeq
    <2>2. \A k \in 1..N : x[k] \in Seq(STRING)
        BY <1>1, <2>1
    <2> QED BY <1>1, <2>2
<1>4. \A k \in 1..N : /\ nodes[k] = e => x[k] = <<>> /\ Len(x[k]) = 0
                      /\ nodes[k] # e => x[k][1] = nodes[k] /\ Len(x[k]) = 1
    OBVIOUS
<1> HIDE DEF x
<1> DEFINE o == OtherNodes(s)
<1>5. o \in Seq(STRING) /\ Flattened(o, x, N)
    BY <1>2, <1>3, FlattenMembers
<1> HIDE DEF o
<1>6. ASSUME NEW i \in 1..Len(o) PROVE o[i] # e /\ \E k \in 1..N : o[i] = nodes[k]
    <2>1. PICK k \in 1..N : \E m \in 1..Len(x[k]) : o[i] = x[k][m]
        BY <1>5 DEF Flattened
    <2>2. PICK m \in 1..Len(x[k]) : o[i] = x[k][m]
        BY <2>1
    <2>3. nodes[k] # e /\ Len(x[k]) = 1
        BY <1>4
    <2>4. m = 1
        BY <2>3
    <2> QED BY <1>4, <2>2, <2>3, <2>4
<1>7. ASSUME NEW k \in 1..N, nodes[k] # e PROVE \E i \in 1..Len(o) : o[i] = nodes[k]
    <2>1. Len(x[k]) = 1 /\ x[k][1] = nodes[k]
        BY <1>4, <1>7
    <2>2. 1 \in 1..Len(x[k])
        BY <2>1
    <2>3. \E i \in 1..Len(o) : o[i] = x[k][1]
        BY <1>5, <2>2 DEF Flattened
    <2> QED BY <2>1, <2>3
<1> QED BY <1>5, <1>6, <1>7 DEF o, nodes, N, e

(* Nodes of a service come before its entry node, where it comes.           *)
EntryAfter(places, done) ==
    \A i \in 1..Len(places) : \A s \in Fleet : places[i] = <<s, EntryOf[s]>> =>
        \A k \in 1..Len(NodesOf[s]) : NodesOf[s][k] # EntryOf[s] =>
            \/ <<s, NodesOf[s][k]>> \in done
            \/ \E j \in 1..i - 1 : places[j] = <<s, NodesOf[s][k]>>

LEMMA PlacesOfFacts ==
    ASSUME NEW action, NEW s \in Fleet
    PROVE  /\ PlacesOf(action, s) \in Seq(RankPlaces)
           /\ \A m \in 1..Len(PlacesOf(action, s)) : PlacesOf(action, s)[m][1] = s
           /\ action = "stop" => \A k \in 1..Len(NodesOf[s]) :
                 \E m \in 1..Len(PlacesOf(action, s)) : PlacesOf(action, s)[m] = <<s, NodesOf[s][k]>>
           /\ action = "launch" => EntryAfter(PlacesOf(action, s), {})
<1> DEFINE nodes == IF action = "launch" THEN LaunchOrder(s) ELSE IF action = "probe" THEN <<EntryOf[s]>> ELSE NodesOf[s]
           p == [i \in 1..Len(nodes) |-> <<s, nodes[i]>>]
           o == OtherNodes(s)
           e == EntryOf[s]
<1>1. o \in Seq(STRING) /\ e \in STRING /\ LaunchOrder(s) = Append(o, e)
    BY OtherNodesFacts, FleetNodesFacts DEF LaunchOrder
<1>2. nodes \in Seq(STRING) /\ \A i \in 1..Len(nodes) : <<s, nodes[i]>> \in RankPlaces
    <2>1. CASE action = "launch"
        <3>1. \A i \in 1..Len(o) : <<s, o[i]>> \in RankPlaces
            BY OtherNodesFacts, FleetNodesFacts
        <3> HIDE DEF o, e
        <3>2. Append(o, e) \in Seq(STRING) /\ \A i \in 1..Len(Append(o, e)) : Append(o, e)[i] = e \/ (i \in 1..Len(o) /\ Append(o, e)[i] = o[i])
            BY <1>1
        <3>3. <<s, e>> \in RankPlaces
            BY FleetNodesFacts DEF e
        <3>4. nodes = Append(o, e)
            BY <1>1, <2>1
        <3> HIDE DEF nodes
        <3> QED BY <3>1, <3>2, <3>3, <3>4
    <2>2. CASE action = "probe"
        <3>1. nodes = <<e>>
            BY <2>2
        <3> HIDE DEF nodes, e
        <3>2. nodes \in Seq(STRING) /\ Len(nodes) = 1 /\ nodes[1] = e
            <4>1. e \in STRING
                BY <1>1
            <4> QED BY <3>1, <4>1, OneSeq
        <3>3. \A i \in 1..1 : i = 1
            OBVIOUS
        <3>4. <<s, e>> \in RankPlaces
            BY FleetNodesFacts DEF e
        <3> QED BY <3>2, <3>3, <3>4
    <2>3. CASE action # "launch" /\ action # "probe"
        BY <2>3, FleetNodesFacts
    <2> QED BY <2>1, <2>2, <2>3
<1>3. PlacesOf(action, s) = p
    <2>1. DOMAIN nodes = 1..Len(nodes)
        <3> HIDE DEF nodes
        <3> QED BY <1>2, SeqFacts
    <2>2. PlacesOf(action, s) = [i \in DOMAIN nodes |-> <<s, nodes[i]>>]
        BY DEF PlacesOf
    <2> HIDE DEF nodes
    <2> QED BY <2>1, <2>2
<1>4. p \in Seq(RankPlaces) /\ Len(p) = Len(nodes) /\ \A i \in 1..Len(nodes) : p[i] = <<s, nodes[i]>>
    <2> HIDE DEF nodes
    <2>1. Len(nodes) \in Nat
        BY <1>2
    <2> DEFINE l == Len(nodes)
    <2>2. l \in Nat /\ \A i \in 1..l : p[i] \in RankPlaces /\ p[i] = <<s, nodes[i]>>
        BY <1>2, <2>1
    <2> HIDE DEF l
    <2> QED BY <2>2 DEF l
<1>5. ASSUME action = "stop", NEW k \in 1..Len(NodesOf[s])
      PROVE  \E m \in 1..Len(p) : p[m] = <<s, NodesOf[s][k]>>
    <2>1. nodes = NodesOf[s]
        BY <1>5
    <2> HIDE DEF p, nodes
    <2> QED BY <1>4, <2>1
<1>6. ASSUME action = "launch" PROVE EntryAfter(p, {})
    <2>1. nodes = Append(o, e)
        BY <1>1, <1>6
    <2> HIDE DEF p, nodes
    <2> SUFFICES ASSUME NEW i \in 1..Len(p), NEW t \in Fleet, p[i] = <<t, EntryOf[t]>>, NEW k \in 1..Len(NodesOf[t]),
                        NodesOf[t][k] # EntryOf[t]
                 PROVE  \E j \in 1..i - 1 : p[j] = <<t, NodesOf[t][k]>>
        BY DEF EntryAfter
    <2>2. t = s /\ nodes[i] = e
        BY <1>4
    <2>3. /\ Len(nodes) = Len(o) + 1 /\ nodes[Len(o) + 1] = e /\ \A j \in 1..Len(o) : nodes[j] = o[j]
          /\ Len(o) \in Nat
        <3> HIDE DEF o, e
        <3> DEFINE A == STRING
        <3>1. o \in Seq(A) /\ e \in A
            BY <1>1
        <3> HIDE DEF A
        <3>2. /\ Len(Append(o, e)) = Len(o) + 1 /\ Append(o, e)[Len(o) + 1] = e /\ Len(o) \in Nat
              /\ \A j \in 1..Len(o) : Append(o, e)[j] = o[j]
            BY <3>1, AppendFacts, SeqFacts
        <3> QED BY <2>1, <3>2
    <2>4. PICK j \in 1..Len(o) : o[j] = NodesOf[s][k]
        BY <2>2, OtherNodesFacts
    <2>5. \A m \in 1..Len(o) : o[m] # e
        BY OtherNodesFacts
    <2>6. i = Len(o) + 1
        <3>1. i \in 1..Len(nodes)
            BY <1>4
        <3> HIDE DEF o, e
        <3>2. i \in 1..Len(o) + 1 /\ i \notin 1..Len(o)
            BY <2>2, <2>3, <2>5, <3>1
        <3> QED BY <2>3, <3>2
    <2>7. j \in 1..i - 1 /\ j \in 1..Len(nodes)
        BY <2>3, <2>6
    <2> QED BY <1>4, <2>2, <2>3, <2>4, <2>7
<1>7. \A m \in 1..Len(p) : p[m][1] = s
    <2> HIDE DEF p, nodes
    <2> QED BY <1>4
<1> HIDE DEF p, nodes
<1> QED BY <1>3, <1>4, <1>5, <1>6, <1>7

LEMMA PlacesFacts ==
    ASSUME NEW action, NEW sel \in SUBSET Fleet
    PROVE  /\ Places(action, sel) \in Seq(RankPlaces)
           /\ action = "stop" => \A p \in RankPlaces : p[1] \in sel =>
                 \E i \in 1..Len(Places(action, sel)) : Places(action, sel)[i] = p
           /\ action = "launch" => EntryAfter(Places(action, sel), {})
<1>1. CASE action = "pull"
    <2>1. Places(action, sel) = <<>>
        BY <1>1 DEF Places
    <2>2. <<>> \in Seq(RankPlaces) /\ Len(<<>>) = 0 /\ action # "stop" /\ action # "launch"
        BY <1>1
    <2> QED BY <2>1, <2>2
<1>2. CASE action # "pull"
    <2> DEFINE n == Cardinality(sel)
               q == SetToSeq(sel)
               x == [k \in 1..n |-> PlacesOf(action, q[k])]
               f == Places(action, sel)
    <2>1. /\ n \in Nat /\ \A k \in 1..n : q[k] \in sel
          /\ \A s \in sel : \E k \in 1..n : q[k] = s
        <3>1. IsFiniteSet(sel)
            BY LifecycleAssumption, FS_Subset
        <3> QED BY <3>1, SetToSeqCovers
    <2>2. f = FlattenSeq(x)
        BY <1>2 DEF Places
    <2> HIDE DEF n, q
    <2>3. \A k \in 1..n : x[k] = PlacesOf(action, q[k]) /\ q[k] \in Fleet /\ x[k] \in Seq(RankPlaces)
        BY <2>1, PlacesOfFacts
    <2>4. x \in Seq(Seq(RankPlaces)) /\ Len(x) = n
        BY <2>1, <2>3
    <2> HIDE DEF x, f
    <2>5. f \in Seq(RankPlaces) /\ Flattened(f, x, n)
        BY <2>2, <2>4, FlattenMembers
    <2>6. ASSUME action = "stop", NEW p \in RankPlaces, p[1] \in sel PROVE \E i \in 1..Len(f) : f[i] = p
        <3>1. PICK s \in Fleet : \E k \in 1..Len(NodesOf[s]) : p = <<s, NodesOf[s][k]>>
            BY DEF RankPlaces
        <3>2. PICK k \in 1..Len(NodesOf[s]) : p = <<s, NodesOf[s][k]>>
            BY <3>1
        <3>3. PICK b \in 1..n : q[b] = s
            <4>1. p[1] = s
                BY <3>2
            <4> QED BY <2>1, <2>6, <4>1
        <3>4. PICK m \in 1..Len(x[b]) : x[b][m] = p
            <4> DEFINE o == PlacesOf(action, s)
            <4>0. action = "stop" => \A j \in 1..Len(NodesOf[s]) : \E m \in 1..Len(o) : o[m] = <<s, NodesOf[s][j]>>
                BY PlacesOfFacts
            <4>1. \E m \in 1..Len(o) : o[m] = <<s, NodesOf[s][k]>>
                <5> HIDE DEF o
                <5> QED BY <2>6, <4>0
            <4> QED BY <2>3, <3>2, <3>3, <4>1
        <3>5. \E i \in 1..Len(f) : f[i] = x[b][m]
            BY <2>5 DEF Flattened
        <3> QED BY <3>4, <3>5
    <2>7. ASSUME action = "launch" PROVE EntryAfter(f, {})
        <3> SUFFICES ASSUME NEW i \in 1..Len(f), NEW s \in Fleet, f[i] = <<s, EntryOf[s]>>, NEW k \in 1..Len(NodesOf[s]),
                            NodesOf[s][k] # EntryOf[s]
                     PROVE  \E j \in 1..i - 1 : f[j] = <<s, NodesOf[s][k]>>
            BY DEF EntryAfter
        <3>1. PICK b \in 1..n : \E m \in 1..Len(x[b]) :
                  f[i] = x[b][m] /\ \A c \in 1..m - 1 : \E a \in 1..i - 1 : f[a] = x[b][c]
            BY <2>5 DEF Flattened
        <3>2. PICK m \in 1..Len(x[b]) : f[i] = x[b][m] /\ \A c \in 1..m - 1 : \E a \in 1..i - 1 : f[a] = x[b][c]
            BY <3>1
        <3>3. EntryAfter(x[b], {})
            BY <2>3, <2>7, PlacesOfFacts
        <3>4. PICK c \in 1..m - 1 : x[b][c] = <<s, NodesOf[s][k]>>
            <4>1. x[b][m] = <<s, EntryOf[s]>>
                BY <3>2
            <4> QED BY <3>3, <4>1 DEF EntryAfter
        <3> QED BY <3>2, <3>4
    <2> QED BY <2>5, <2>6, <2>7 DEF f
<1> QED BY <1>1, <1>2

LEMMA ExpandedFacts ==
    ASSUME NEW actions \in Seq(FleetActions), actions # <<>>
    PROVE  /\ Expanded(actions) \in Seq(FleetActions) /\ Expanded(actions) # <<>>
           /\ "relaunch" \in ToSet(actions) => "stop" \in ToSet(Expanded(actions))
<1> DEFINE N == Len(actions)
           five == <<"pull", "stop", "write-scripts", "launch", "probe">>
           x == [k \in 1..N |-> IF actions[k] = "relaunch" THEN five ELSE <<actions[k]>>]
           f == Expanded(actions)
<1>1. N \in Nat /\ N # 0 /\ DOMAIN actions = 1..N /\ \A k \in 1..N : actions[k] \in FleetActions
    <2>1. N \in Nat /\ DOMAIN actions = 1..N /\ \A k \in 1..N : actions[k] \in FleetActions
        OBVIOUS
    <2>2. N # 0
        OBVIOUS
    <2> QED BY <2>1, <2>2
<1>2. f = FlattenSeq(x)
    BY <1>1 DEF Expanded
<1>3. five \in Seq(FleetActions) /\ Len(five) = 5 /\ five[2] = "stop" /\ 2 \in 1..5
    <2>1. /\ "pull" \in FleetActions /\ "stop" \in FleetActions /\ "write-scripts" \in FleetActions
          /\ "launch" \in FleetActions /\ "probe" \in FleetActions
        BY DEF FleetActions
    <2> QED BY <2>1, FiveSeq
<1> HIDE DEF five, f, N
<1>4. \A k \in 1..N : /\ x[k] \in Seq(FleetActions) /\ Len(x[k]) >= 1
                      /\ actions[k] = "relaunch" => x[k] = five
    <2> SUFFICES ASSUME NEW k \in 1..N
                 PROVE  /\ x[k] \in Seq(FleetActions) /\ Len(x[k]) >= 1
                        /\ actions[k] = "relaunch" => x[k] = five
        OBVIOUS
    <2>1. CASE actions[k] = "relaunch"
        <3>1. x[k] = five
            BY <2>1
        <3> HIDE DEF x
        <3>2. five \in Seq(FleetActions) /\ Len(five) >= 1
            BY <1>3
        <3> QED BY <3>1, <3>2
    <2>2. CASE actions[k] # "relaunch"
        <3> DEFINE z == actions[k]
        <3>1. z \in FleetActions /\ x[k] = <<z>>
            BY <1>1, <2>2
        <3> HIDE DEF x, z
        <3> QED BY <2>2, <3>1, OneSeq DEF z
    <2> QED BY <2>1, <2>2
<1>5. x \in Seq(Seq(FleetActions)) /\ Len(x) = N
    BY <1>1, <1>4
<1> HIDE DEF x
<1>6. f \in Seq(FleetActions) /\ Flattened(f, x, N)
    BY <1>2, <1>5, FlattenMembers
<1>7. f # <<>>
    <2>1. 1 \in 1..N /\ 1 \in 1..Len(x[1])
        BY <1>1, <1>4
    <2>2. \E i \in 1..Len(f) : f[i] = x[1][1]
        BY <1>6, <2>1 DEF Flattened
    <2> QED BY <1>6, <2>2
<1>8. ASSUME "relaunch" \in ToSet(actions) PROVE "stop" \in ToSet(f)
    <2>1. PICK k \in 1..N : actions[k] = "relaunch"
        BY <1>1, <1>8 DEF ToSet
    <2>2. x[k][2] = "stop" /\ 2 \in 1..Len(x[k])
        BY <1>3, <1>4, <2>1
    <2>3. PICK i \in 1..Len(f) : f[i] = x[k][2]
        BY <1>6, <2>2 DEF Flattened
    <2>4. DOMAIN f = 1..Len(f)
        BY <1>6
    <2> QED BY <2>2, <2>3, <2>4 DEF ToSet
<1> QED BY <1>6, <1>7, <1>8 DEF f

CoordSettings == EnvValues \cup {NotSet}
CoordShape ==
    /\ coord \in [running : SUBSET Nat, pidFile : Nat, number : Nat, targets : SUBSET Nat,
                  override : CoordSettings, inherited : CoordSettings,
                  pc : {"idle", "stop", "term", "kill", "start", "health", "healthy", "failed"}]
    /\ coord.number <= MaxRelaunch /\ coord.pidFile <= MaxRelaunch
    /\ \A g \in coord.running : g <= coord.number

(* The old coordinator is gone when the new one is started, so whoever      *)
(* answers is the new one; and settings come from overrides and the profile.*)
CoordInv ==
    /\ CoordShape
    /\ coord.pc = "start" => coord.running = {}
    /\ coord.pc = "health" => coord.running \subseteq {coord.number} /\ coord.pidFile = coord.number
    /\ HealthyIsNew
    /\ \A e \in envs : e.value = IF e.override # NotSet THEN e.override ELSE ProfileValue

LEMMA CoordInitInv == LifecycleStart => CoordInv
<1> SUFFICES ASSUME LifecycleStart PROVE CoordInv
    OBVIOUS
<1>1. coord = [running |-> {0}, pidFile |-> 0, number |-> 0, targets |-> {}, override |-> NotSet, inherited |-> NotSet, pc |-> "idle"]
      /\ envs = {}
    BY DEF LifecycleStart
<1>2. MaxRelaunch \in Nat /\ NotSet \in CoordSettings
    BY LifecycleAssumption DEF CoordSettings
<1> QED BY <1>1, <1>2 DEF CoordInv, CoordShape, HealthyIsNew

LEMMA CoordinatorSteps ==
    ASSUME CoordInv,
           \/ \E i, o \in EnvValues \cup {NotSet} : RelaunchCoordinator(i, o)
           \/ \E pids \in SUBSET coord.running : Terminate(pids) \/ Kill(pids)
           \/ \E g \in coord.running : CoordinatorDies(g)
           \/ \E ok \in BOOLEAN : Health(ok)
    PROVE  CoordInv' /\ UNCHANGED <<ranks, forked, cmd>>
<1> USE DEF CoordInv, CoordShape, HealthyIsNew
<1>0. MaxRelaunch \in Nat
    BY LifecycleAssumption
<1>1. ASSUME NEW i \in EnvValues \cup {NotSet}, NEW o \in EnvValues \cup {NotSet}, RelaunchCoordinator(i, o) PROVE CoordInv'
    <2>1. /\ coord'.pc = "stop" /\ coord'.number = coord.number + 1 /\ coord'.running = coord.running
          /\ coord'.pidFile = coord.pidFile /\ envs' = envs /\ coord.number + 1 <= MaxRelaunch
        <3>1. coord' = [coord EXCEPT !.pc = "stop", !.number = @ + 1, !.inherited = i, !.override = o]
              /\ envs' = envs /\ coord.number < MaxRelaunch
            BY <1>1 DEF RelaunchCoordinator
        <3>2. coord.number \in Nat /\ coord.number + 1 <= MaxRelaunch
            BY <1>0, <3>1
        <3> QED BY <3>1, <3>2
    <2>2. CoordShape'
        <3>1. coord.number + 1 \in Nat /\ i \in CoordSettings /\ o \in CoordSettings
            BY DEF CoordSettings
        <3>2. coord' = [coord EXCEPT !.pc = "stop", !.number = @ + 1, !.inherited = i, !.override = o]
            BY <1>1 DEF RelaunchCoordinator
        <3>3. coord' \in [running : SUBSET Nat, pidFile : Nat, number : Nat, targets : SUBSET Nat,
                          override : CoordSettings, inherited : CoordSettings,
                          pc : {"idle", "stop", "term", "kill", "start", "health", "healthy", "failed"}]
            BY <3>1, <3>2
        <3>4. \A g \in coord.running : g <= coord.number + 1
            OBVIOUS
        <3> QED BY <2>1, <3>3, <3>4
    <2> QED BY <2>1, <2>2
<1>2. ASSUME NEW pids \in SUBSET coord.running, Terminate(pids) PROVE CoordInv'
    BY <1>2 DEF Terminate
<1>3. ASSUME NEW pids \in SUBSET coord.running, Kill(pids) PROVE CoordInv'
    BY <1>3 DEF Kill
<1>4. ASSUME NEW g \in coord.running, CoordinatorDies(g) PROVE CoordInv'
    BY <1>4 DEF CoordinatorDies
<1>5. ASSUME NEW ok \in BOOLEAN, Health(ok) PROVE CoordInv'
    <2>1. coord' = [coord EXCEPT !.pc = IF ok THEN "healthy" ELSE "failed", !.targets = IF ok THEN coord.running ELSE {}]
          /\ envs' = envs /\ coord.pc = "health" /\ (ok => coord.running # {})
        BY <1>5 DEF Health
    <2>2. CoordShape' /\ coord'.running = coord.running /\ coord'.number = coord.number /\ coord'.pidFile = coord.pidFile
          /\ coord'.targets = (IF ok THEN coord.running ELSE {}) /\ coord'.pc = (IF ok THEN "healthy" ELSE "failed")
        BY <2>1
    <2>3. ok => coord.running = {coord.number}
        BY <2>1
    <2> QED BY <2>1, <2>2, <2>3
<1>6. UNCHANGED <<ranks, forked, cmd>>
    BY DEF RelaunchCoordinator, Terminate, Kill, CoordinatorDies, Health
<1> QED BY <1>1, <1>2, <1>3, <1>4, <1>5, <1>6

LEMMA CoordinatorStarts == ASSUME CoordInv, StartCoordinator PROVE CoordInv' /\ UNCHANGED <<ranks, forked, cmd>>
<1>1. coord' = [coord EXCEPT !.running = @ \cup {coord.number}, !.pidFile = coord.number, !.pc = "health"]
      /\ coord.pc = "start" /\ coord.running = {}
    BY DEF StartCoordinator, CoordInv
<1>2. CoordShape' /\ coord'.pc = "health" /\ coord'.running = {coord.number} /\ coord'.number = coord.number /\ coord'.pidFile = coord.number
    <2>1. coord.running = {} /\ coord.number \in Nat /\ MaxRelaunch \in Nat /\ coord.running \cup {coord.number} = {coord.number}
        BY <1>1, LifecycleAssumption DEF CoordShape, CoordInv
    <2>2. coord' = [coord EXCEPT !.running = {coord.number}, !.pidFile = coord.number, !.pc = "health"]
        BY <1>1, <2>1
    <2>3. CoordShape
        BY DEF CoordInv
    <2>4. coord'.pc = "health" /\ coord'.running = {coord.number} /\ coord'.number = coord.number /\ coord'.pidFile = coord.number
        BY <2>2, <2>3 DEF CoordShape
    <2>5. coord' \in [running : SUBSET Nat, pidFile : Nat, number : Nat, targets : SUBSET Nat,
                      override : CoordSettings, inherited : CoordSettings,
                      pc : {"idle", "stop", "term", "kill", "start", "health", "healthy", "failed"}]
        BY <2>1, <2>2, <2>3 DEF CoordShape
    <2> QED BY <2>1, <2>3, <2>4, <2>5 DEF CoordShape
<1>3. \A e \in envs' : e.value = IF e.override # NotSet THEN e.override ELSE ProfileValue
    <2> DEFINE new == [override |-> coord.override, value |-> EnvValue(TRUE, coord.inherited, coord.override)]
    <2>1. envs' = envs \cup {new}
        BY DEF StartCoordinator
    <2>2. new.override = coord.override /\ new.value = EnvValue(TRUE, coord.inherited, coord.override)
        OBVIOUS
    <2>3. new.value = IF new.override # NotSet THEN new.override ELSE ProfileValue
        BY <2>2 DEF EnvValue
    <2> HIDE DEF new
    <2> QED BY <2>1, <2>3 DEF CoordInv
<1> QED BY <1>2, <1>3 DEF CoordInv, HealthyIsNew, StartCoordinator

LEMMA CoordInvProperties == CoordInv => HealthyIsNew /\ SafetyFromProfile
BY DEF CoordInv, SafetyFromProfile

(* The places of ranks, the command as a row, what a remote kill has seen.  *)
PlaceOf(p) == <<p[1], p[2]>>
SnapRows == {"rank", "worker"} \X AllRanks
CmdRows ==
    [number : Nat, actions : Seq(FleetActions), sel : SUBSET Fleet, cleanup : BOOLEAN, relaunch : BOOLEAN,
     places : Seq(RankPlaces), failed : SUBSET RankPlaces, started : SUBSET RankPlaces, read : BOOLEAN,
     snapshot : SUBSET SnapRows,
     status : {"idle", "running", "cleanup", "ok", "failed", "raised", "refused"}]
FleetShape ==
    /\ ranks \subseteq AllRanks /\ forked \subseteq AllRanks
    /\ cmd \in CmdRows /\ cmd.number <= MaxCommands
    /\ \A p \in ranks \cup forked : p[3] <= cmd.number
    /\ cmd.status = "running" => cmd.actions # <<>>

(* The rest of the places and those visited: ranks are left only where the  *)
(* kill has not come to or where it failed, the entry node of a service is  *)
(* ahead of none of its others.                                             *)
Stopping == cmd.status = "cleanup" \/ (cmd.status = "running" /\ Head(cmd.actions) = "stop")
PlacesLeft == {cmd.places[i] : i \in 1..Len(cmd.places)}
Selected(p) == p[1] \in cmd.sel
KilledBehind == Stopping => \A p \in ranks : Selected(p) => PlaceOf(p) \in PlacesLeft \cup cmd.failed
ReadTells == cmd.read => Stopping /\ cmd.places # <<>> /\ \A p \in ranks : At(p) => <<"rank", p>> \in cmd.snapshot
FailuresKnown == cmd.status = "running" /\ cmd.failed # {} => Head(cmd.actions) \in {"stop", "probe"}
OldGone ==
    cmd.status \in {"running", "ok"} /\ cmd.relaunch =>
        "stop" \in ToSet(cmd.actions) \/ \A p \in ranks : Selected(p) => p[3] = cmd.number
EntryWaits == cmd.status = "running" /\ Head(cmd.actions) = "launch" => EntryAfter(cmd.places, cmd.started)
OkAtEnd == cmd.status = "ok" => cmd.actions = <<>>
FleetInv ==
    /\ FleetShape /\ KilledBehind /\ ReadTells /\ FailuresKnown /\ OldGone /\ EntryWaits /\ OkAtEnd
    /\ EntryLast /\ FailedProbeCleans

LEMMA FleetInvProperties == FleetInv => RelaunchFresh /\ EntryLast /\ FailedProbeCleans
<1> SUFFICES ASSUME FleetInv PROVE RelaunchFresh
    BY DEF FleetInv
<1>1. ToSet(<<>>) = {}
    BY DEF ToSet
<1> QED BY <1>1 DEF FleetInv, OkAtEnd, OldGone, RelaunchFresh, Selected

LEMMA FleetInitInv == LifecycleStart => FleetInv
<1> SUFFICES ASSUME LifecycleStart PROVE FleetInv
    OBVIOUS
<1>1. cmd = NoCommand /\ forked = ranks
      /\ ranks = UNION {{<<s, NodesOf[s][k], 0>> : k \in DOMAIN NodesOf[s]} : s \in Fleet}
    BY DEF LifecycleStart
<1>2. ASSUME NEW p \in ranks PROVE p \in AllRanks /\ p[3] = 0
    <2>1. PICK s \in Fleet : \E k \in DOMAIN NodesOf[s] : p = <<s, NodesOf[s][k], 0>>
        BY <1>1
    <2>2. PICK k \in DOMAIN NodesOf[s] : p = <<s, NodesOf[s][k], 0>>
        BY <2>1
    <2> DEFINE x == NodesOf[s][k]
    <2>3. x \in STRING /\ <<s, x>> \in RankPlaces
        <3>1. DOMAIN NodesOf[s] = 1..Len(NodesOf[s])
            BY FleetNodesFacts, SeqFacts
        <3> QED BY <3>1, FleetNodesFacts
    <2>4. p = <<s, x, 0>>
        BY <2>2
    <2> HIDE DEF x
    <2> QED BY <2>3, <2>4 DEF AllRanks
<1>3. cmd \in CmdRows /\ cmd.number = 0 /\ cmd.status = "idle" /\ ~cmd.read /\ cmd.started = {}
    <2>1. <<>> \in Seq(FleetActions) /\ <<>> \in Seq(RankPlaces)
        BY EmptySeq
    <2> QED BY <1>1, <2>1 DEF NoCommand, CmdRows
<1>4. FleetShape
    BY <1>1, <1>2, <1>3, LifecycleAssumption DEF FleetShape
<1> QED BY <1>3, <1>4 DEF FleetInv, KilledBehind, Stopping, ReadTells, FailuresKnown, OldGone, EntryWaits, OkAtEnd,
                          EntryLast, FailedProbeCleans

(* The fields of a command that goes on to its next place.                  *)
LEMMA OnwardFields ==
    ASSUME FleetShape, NEW f \in SUBSET RankPlaces, cmd.places # <<>>
    PROVE  /\ Onward(f) \in CmdRows
           /\ Onward(f).places = Tail(cmd.places) /\ Onward(f).failed = cmd.failed \cup f
           /\ Onward(f).read = FALSE /\ Onward(f).number = cmd.number /\ Onward(f).actions = cmd.actions
           /\ Onward(f).sel = cmd.sel /\ Onward(f).cleanup = cmd.cleanup /\ Onward(f).relaunch = cmd.relaunch
           /\ Onward(f).started = cmd.started /\ Onward(f).status = cmd.status
<1>1. cmd \in CmdRows /\ Tail(cmd.places) \in Seq(RankPlaces) /\ cmd.failed \cup f \in SUBSET RankPlaces
    <2>1. cmd \in CmdRows /\ cmd.places \in Seq(RankPlaces) /\ cmd.failed \in SUBSET RankPlaces
        BY DEF FleetShape, CmdRows
    <2> DEFINE s == cmd.places
    <2>2. s \in Seq(RankPlaces) /\ s # <<>>
        BY <2>1
    <2>3. Tail(s) \in Seq(RankPlaces)
        <3> HIDE DEF s
        <3> QED BY <2>2, TailFacts
    <2> QED BY <2>1, <2>3
<1> DEFINE t == Tail(cmd.places)
           g == cmd.failed \cup f
<1>2. Onward(f) = [cmd EXCEPT !.places = t, !.failed = g, !.read = FALSE, !.snapshot = {}]
    BY DEF Onward
<1>3. t \in Seq(RankPlaces) /\ g \in SUBSET RankPlaces
    BY <1>1
<1> HIDE DEF t, g
<1>4. Onward(f) \in CmdRows
    BY <1>1, <1>2, <1>3 DEF CmdRows
<1>5. /\ Onward(f).places = t /\ Onward(f).failed = g
      /\ Onward(f).read = FALSE /\ Onward(f).number = cmd.number /\ Onward(f).actions = cmd.actions
      /\ Onward(f).sel = cmd.sel /\ Onward(f).cleanup = cmd.cleanup /\ Onward(f).relaunch = cmd.relaunch
      /\ Onward(f).started = cmd.started /\ Onward(f).status = cmd.status
    BY <1>1, <1>2 DEF CmdRows
<1> QED BY <1>4, <1>5 DEF t, g

(* Where the command has come to, and the places left after it.             *)
LEMMA HereFacts ==
    ASSUME FleetShape, cmd.places # <<>>, NEW t, t = Tail(cmd.places)
    PROVE  /\ Here \in RankPlaces /\ Here = <<Here[1], Here[2]>> /\ Here[1] \in Fleet /\ Here[2] \in STRING
           /\ PlacesLeft = {Here} \cup {t[i] : i \in 1..Len(t)}
           /\ t \in Seq(RankPlaces)
           /\ \A p \in AllRanks : At(p) <=> PlaceOf(p) = Here
           /\ \A done : EntryAfter(cmd.places, done) => EntryAfter(t, done \cup {Here})
<1> DEFINE s == cmd.places
<1>1. s \in Seq(RankPlaces) /\ s # <<>>
    BY DEF FleetShape, CmdRows
<1>2. /\ t \in Seq(RankPlaces) /\ Head(s) \in RankPlaces /\ Head(s) = s[1] /\ Len(s) \in Nat /\ 1 \in 1..Len(s)
      /\ \A i \in 1..Len(t) : t[i] = s[i + 1] /\ i + 1 \in 1..Len(s)
      /\ \A i \in 1..Len(s) : i # 1 => i - 1 \in 1..Len(t) /\ t[i - 1] = s[i]
    <2> HIDE DEF s
    <2> QED BY <1>1, TailFacts DEF s
<1>3. Here = s[1] /\ Here \in RankPlaces
    BY <1>2 DEF Here
<1>4. Here = <<Here[1], Here[2]>> /\ Here[1] \in Fleet /\ Here[2] \in STRING
    <2>1. PICK a \in Fleet : \E k \in 1..Len(NodesOf[a]) : Here = <<a, NodesOf[a][k]>>
        BY <1>3 DEF RankPlaces
    <2>2. PICK k \in 1..Len(NodesOf[a]) : Here = <<a, NodesOf[a][k]>>
        BY <2>1
    <2>3. NodesOf[a][k] \in STRING
        BY FleetNodesFacts
    <2> QED BY <2>2, <2>3
<1>5. PlacesLeft = {Here} \cup {t[i] : i \in 1..Len(t)}
    <2>1. PlacesLeft = {s[i] : i \in 1..Len(s)}
        BY DEF PlacesLeft
    <2> HIDE DEF s
    <2>2. ASSUME NEW i \in 1..Len(s) PROVE s[i] \in {Here} \cup {t[j] : j \in 1..Len(t)}
        <3>1. CASE i = 1
            BY <1>3, <3>1
        <3>2. CASE i # 1
            BY <1>2, <3>2
        <3> QED BY <3>1, <3>2
    <2>3. ASSUME NEW j \in 1..Len(t) PROVE t[j] \in {s[i] : i \in 1..Len(s)}
        BY <1>2
    <2>4. Here \in {s[i] : i \in 1..Len(s)}
        BY <1>2, <1>3
    <2> QED BY <2>1, <2>2, <2>3, <2>4
<1>6. ASSUME NEW p \in AllRanks PROVE At(p) <=> PlaceOf(p) = Here
    BY <1>4 DEF At, PlaceOf, AllRanks
<1>7. ASSUME NEW done, EntryAfter(s, done) PROVE EntryAfter(t, done \cup {Here})
    <2> SUFFICES ASSUME NEW i \in 1..Len(t), NEW a \in Fleet, t[i] = <<a, EntryOf[a]>>, NEW k \in 1..Len(NodesOf[a]),
                        NodesOf[a][k] # EntryOf[a]
                 PROVE  \/ <<a, NodesOf[a][k]>> \in done \cup {Here}
                        \/ \E j \in 1..i - 1 : t[j] = <<a, NodesOf[a][k]>>
        BY DEF EntryAfter
    <2> DEFINE pl == <<a, NodesOf[a][k]>>
    <2> HIDE DEF s
    <2>1. s[i + 1] = <<a, EntryOf[a]>> /\ i + 1 \in 1..Len(s)
        BY <1>2
    <2>2. pl \in done \/ \E j \in 1..(i + 1) - 1 : s[j] = pl
        BY <1>7, <2>1 DEF EntryAfter
    <2> HIDE DEF pl
    <2>3. ASSUME NEW j \in 1..(i + 1) - 1, s[j] = pl PROVE pl = Here \/ \E m \in 1..i - 1 : t[m] = pl
        <3>1. CASE j = 1
            BY <1>3, <2>3, <3>1
        <3>2. CASE j # 1
            <4>1. j \in 1..Len(s) /\ j - 1 \in 1..i - 1
                BY <1>2, <2>1, <3>2
            <4> QED BY <1>2, <2>3, <3>2, <4>1
        <3> QED BY <3>1, <3>2
    <2> QED BY <2>2, <2>3 DEF pl
<1> QED BY <1>2, <1>3, <1>4, <1>5, <1>6, <1>7

(* What the other ranks do: fork a worker, crash.                           *)
LEMMA RankSteps ==
    ASSUME FleetInv, NEW p \in ranks, ForkWorker(p) \/ RankCrashes(p)
    PROVE  FleetInv'
<1>1. /\ ranks' \subseteq ranks /\ forked' \subseteq forked \cup {p} /\ cmd' = cmd
    BY DEF ForkWorker, RankCrashes
<1>2. FleetShape'
    BY <1>1 DEF FleetInv, FleetShape
<1>3. KilledBehind'
    <2>1. PlacesLeft' = PlacesLeft /\ Stopping' = Stopping
        BY <1>1 DEF PlacesLeft, Stopping
    <2>2. \A q : Selected(q)' = Selected(q) /\ PlaceOf(q)' = PlaceOf(q)
        BY <1>1 DEF Selected, PlaceOf
    <2>3. KilledBehind
        BY DEF FleetInv
    <2> QED BY <1>1, <2>1, <2>2, <2>3 DEF KilledBehind
<1>4. ReadTells'
    <2>1. \A q : At(q)' = At(q)
        BY <1>1 DEF At, Here
    <2>2. ReadTells /\ Stopping' = Stopping
        BY <1>1 DEF FleetInv, Stopping
    <2> QED BY <1>1, <2>1, <2>2 DEF ReadTells
<1>5. OldGone'
    BY <1>1 DEF FleetInv, OldGone, Selected
<1>6. FailedProbeCleans'
    BY <1>1 DEF FleetInv, FailedProbeCleans
<1>7. FailuresKnown' /\ EntryWaits' /\ OkAtEnd' /\ EntryLast'
    <2>1. FailuresKnown /\ EntryWaits /\ OkAtEnd /\ EntryLast
        BY DEF FleetInv
    <2>2. FailuresKnown'
        BY <1>1, <2>1 DEF FailuresKnown
    <2>3. EntryWaits'
        BY <1>1, <2>1 DEF EntryWaits
    <2>4. OkAtEnd' /\ EntryLast'
        BY <1>1, <2>1 DEF OkAtEnd, EntryLast
    <2> QED BY <2>2, <2>3, <2>4
<1> QED BY <1>2, <1>3, <1>4, <1>5, <1>6, <1>7 DEF FleetInv

(* An error other than SystemExit ends the command where it is.             *)
LEMMA CommandRaises ==
    ASSUME FleetInv, cmd' = [cmd EXCEPT !.status = "raised"], ~cmd.read,
           ranks' \subseteq AllRanks, forked' \subseteq AllRanks, \A p \in ranks' \cup forked' : p[3] <= cmd.number
    PROVE  FleetInv'
<1>1. cmd \in CmdRows /\ cmd.number <= MaxCommands /\ EntryLast
    BY DEF FleetInv, FleetShape
<1>2. /\ cmd' \in CmdRows /\ cmd'.number = cmd.number /\ cmd'.status = "raised" /\ cmd'.read = cmd.read
      /\ cmd'.started = cmd.started
    BY <1>1 DEF CmdRows
<1>3. FleetShape'
    BY <1>1, <1>2 DEF FleetShape
<1>4. EntryLast'
    BY <1>1, <1>2 DEF EntryLast
<1> QED BY <1>2, <1>3, <1>4 DEF FleetInv, KilledBehind, Stopping, ReadTells, FailuresKnown, OldGone, EntryWaits, OkAtEnd,
                                FailedProbeCleans

(* A command begins: where an operator's relaunch is asked for, a stop of   *)
(* what ran before is among its actions.                                    *)
LEMMA CommandBegins ==
    ASSUME FleetInv, NEW c \in CommandLines, Command(c)
    PROVE  FleetInv'
<1> DEFINE actions == Expanded(c.actions)
           pl == Places(Head(actions), c.sel)
           cl == CleanupEnabled(c)
           re == "relaunch" \in ToSet(c.actions)
           st == IF RefusedCommand(c) THEN "refused" ELSE "running"
           n == cmd.number + 1
<1>1. /\ c.actions \in Seq(FleetActions) /\ c.actions # <<>> /\ c.sel \in SUBSET Fleet /\ c.cleanup \in BOOLEAN
    BY LifecycleAssumption
<1>2. actions \in Seq(FleetActions) /\ actions # <<>> /\ (re => "stop" \in ToSet(actions))
    BY <1>1, ExpandedFacts
<1>3. /\ pl \in Seq(RankPlaces)
      /\ Head(actions) = "stop" => \A p \in RankPlaces : p[1] \in c.sel => \E i \in 1..Len(pl) : pl[i] = p
      /\ Head(actions) = "launch" => EntryAfter(pl, {})
    BY <1>1, PlacesFacts
<1>4. cl \in BOOLEAN /\ re \in BOOLEAN
    BY <1>1 DEF CleanupEnabled
<1>5. /\ ranks' = ranks /\ forked' = forked /\ cmd.number < MaxCommands
      /\ cmd' = [NoCommand EXCEPT !.number = n, !.actions = actions, !.sel = c.sel, !.cleanup = cl,
                                  !.relaunch = re, !.places = pl, !.status = st]
    BY DEF Command
<1>6. /\ cmd.number \in Nat /\ n \in Nat /\ n <= MaxCommands /\ cmd.number <= n
      /\ ranks \subseteq AllRanks /\ forked \subseteq AllRanks
      /\ \A p \in ranks \cup forked : p[3] <= n
    <2>1. cmd.number \in Nat /\ ranks \subseteq AllRanks /\ forked \subseteq AllRanks /\ MaxCommands \in Nat
          /\ \A p \in ranks \cup forked : p[3] <= cmd.number
        BY LifecycleAssumption DEF FleetInv, FleetShape, CmdRows
    <2>2. \A p \in AllRanks : p[3] \in Nat
        BY DEF AllRanks
    <2> QED BY <1>5, <2>1, <2>2
<1>7. st \in {"refused", "running"}
    OBVIOUS
<1> HIDE DEF actions, pl, cl, re, st, n
<1>8. cmd' = [number |-> n, actions |-> actions, sel |-> c.sel, cleanup |-> cl, relaunch |-> re, places |-> pl, failed |-> {},
              started |-> {}, read |-> FALSE, snapshot |-> {}, status |-> st]
    BY <1>5 DEF NoCommand
<1>9. cmd' \in CmdRows
    BY <1>1, <1>2, <1>3, <1>4, <1>6, <1>7, <1>8 DEF CmdRows
<1>10. /\ cmd'.number = n /\ cmd'.actions = actions /\ cmd'.sel = c.sel /\ cmd'.relaunch = re /\ cmd'.places = pl
       /\ cmd'.failed = {} /\ cmd'.started = {} /\ cmd'.read = FALSE /\ cmd'.status = st
    BY <1>8
<1>11. FleetShape'
    BY <1>2, <1>5, <1>6, <1>9, <1>10 DEF FleetShape
<1>12. KilledBehind'
    <2> SUFFICES ASSUME Head(actions) = "stop", NEW p \in ranks, p[1] \in c.sel
                 PROVE  PlaceOf(p) \in PlacesLeft'
        BY <1>5, <1>7, <1>10 DEF KilledBehind, Stopping, Selected, PlaceOf
    <2>1. PlaceOf(p) \in RankPlaces /\ PlaceOf(p)[1] = p[1]
        BY <1>6 DEF AllRanks, PlaceOf
    <2>2. PICK i \in 1..Len(pl) : pl[i] = PlaceOf(p)
        BY <1>3, <2>1
    <2> QED BY <1>10, <2>2 DEF PlacesLeft
<1>13. OldGone'
    BY <1>2, <1>7, <1>10 DEF OldGone
<1>14. EntryWaits'
    BY <1>3, <1>10 DEF EntryWaits
<1>15. ReadTells' /\ FailuresKnown' /\ OkAtEnd' /\ EntryLast' /\ FailedProbeCleans'
    BY <1>7, <1>10 DEF ReadTells, FailuresKnown, OkAtEnd, EntryLast, FailedProbeCleans
<1> QED BY <1>11, <1>12, <1>13, <1>14, <1>15 DEF FleetInv

(* An action that has visited all its places: the stop has left no rank of  *)
(* its services when it ends without a failure.                             *)
LEMMA NoPlacesLeft ==
    ASSUME cmd.places = <<>>
    PROVE  PlacesLeft = {}
BY DEF PlacesLeft

LEMMA ActionFails ==
    ASSUME FleetInv, ranks' = ranks, forked' = forked, cmd' = [cmd EXCEPT !.status = "failed"], cmd.places = <<>>, ~cmd.read,
           \/ cmd.status = "cleanup"
           \/ cmd.status = "running" /\ ~(Head(cmd.actions) = "probe" /\ cmd.cleanup) /\ cmd.failed # {}
    PROVE  FleetInv'
<1>1. cmd \in CmdRows /\ cmd.number <= MaxCommands /\ EntryLast
    BY DEF FleetInv, FleetShape
<1>2. /\ cmd' \in CmdRows /\ cmd'.number = cmd.number /\ cmd'.status = "failed" /\ cmd'.read = cmd.read
      /\ cmd'.started = cmd.started /\ cmd'.sel = cmd.sel /\ cmd'.failed = cmd.failed /\ cmd'.cleanup = cmd.cleanup
    BY <1>1 DEF CmdRows
<1>3. FleetShape'
    BY <1>1, <1>2 DEF FleetInv, FleetShape
<1>4. EntryLast'
    BY <1>1, <1>2 DEF EntryLast
<1>5. FailedProbeCleans'
    <2> SUFFICES ASSUME cmd.cleanup, NEW p \in ranks, p[1] \in cmd.sel PROVE <<p[1], p[2]>> \in cmd.failed
        BY <1>2 DEF FailedProbeCleans
    <2>1. Stopping
        BY DEF FleetInv, FailuresKnown, Stopping
    <2> QED BY <2>1, NoPlacesLeft DEF FleetInv, KilledBehind, Selected, PlaceOf
<1> QED BY <1>2, <1>3, <1>4, <1>5 DEF FleetInv, KilledBehind, Stopping, ReadTells, FailuresKnown, OldGone, EntryWaits, OkAtEnd

(* A failed probe: the cleanup is about to visit every place.               *)
LEMMA CleanupBegins ==
    ASSUME FleetInv, ranks' = ranks, forked' = forked, ~cmd.read, NEW pl, pl = Places("stop", cmd.sel),
           cmd' = [cmd EXCEPT !.status = "cleanup", !.places = pl, !.failed = {}]
    PROVE  FleetInv'
<1>1. cmd \in CmdRows /\ cmd.number <= MaxCommands /\ EntryLast
    BY DEF FleetInv, FleetShape
<1>2. pl \in Seq(RankPlaces) /\ \A p \in RankPlaces : p[1] \in cmd.sel => \E i \in 1..Len(pl) : pl[i] = p
    <2>1. cmd.sel \in SUBSET Fleet
        BY <1>1 DEF CmdRows
    <2> QED BY <2>1, PlacesFacts
<1>4. /\ cmd' \in CmdRows /\ cmd'.number = cmd.number /\ cmd'.status = "cleanup" /\ cmd'.read = cmd.read /\ cmd'.places = pl
      /\ cmd'.started = cmd.started /\ cmd'.sel = cmd.sel
    BY <1>1, <1>2 DEF CmdRows
<1>5. FleetShape'
    BY <1>1, <1>4 DEF FleetInv, FleetShape
<1>6. EntryLast'
    BY <1>1, <1>4 DEF EntryLast
<1>7. KilledBehind'
    <2> SUFFICES ASSUME NEW p \in ranks, p[1] \in cmd.sel PROVE PlaceOf(p) \in PlacesLeft'
        BY <1>4 DEF KilledBehind, Selected, PlaceOf
    <2>1. PlaceOf(p) \in RankPlaces /\ PlaceOf(p)[1] = p[1]
        BY DEF FleetInv, FleetShape, AllRanks, PlaceOf
    <2>2. PICK i \in 1..Len(pl) : pl[i] = PlaceOf(p)
        BY <1>2, <2>1
    <2> QED BY <1>4, <2>2 DEF PlacesLeft
<1> QED BY <1>4, <1>5, <1>6, <1>7 DEF FleetInv, ReadTells, FailuresKnown, OldGone, EntryWaits, OkAtEnd, FailedProbeCleans

LEMMA EntryAfterMore ==
    ASSUME NEW places, NEW few, NEW more, few \subseteq more, EntryAfter(places, few)
    PROVE  EntryAfter(places, more)
BY DEF EntryAfter

LEMMA TailMembers ==
    ASSUME NEW A, NEW s \in Seq(A), s # <<>>
    PROVE  Tail(s) \in Seq(A) /\ \A a \in ToSet(s) : a = Head(s) \/ a \in ToSet(Tail(s))
<1> DEFINE t == Tail(s)
<1>1. t \in Seq(A) /\ Head(s) = s[1]
    BY TailFacts
<1>2. DOMAIN s = 1..Len(s) /\ DOMAIN t = 1..Len(t)
    BY <1>1, SeqFacts
<1>3. \A i \in 1..Len(s) : i # 1 => i - 1 \in 1..Len(t) /\ t[i - 1] = s[i]
    BY TailFacts
<1> HIDE DEF t
<1>4. ASSUME NEW a \in ToSet(s) PROVE a = Head(s) \/ a \in ToSet(t)
    <2>1. PICK i \in 1..Len(s) : a = s[i]
        BY <1>2, <1>4 DEF ToSet
    <2> QED BY <1>1, <1>2, <1>3, <2>1 DEF ToSet
<1> QED BY <1>1, <1>4 DEF t

(* The next action of a command, or its end.                                *)
LEMMA ActionFollows ==
    ASSUME FleetInv, ranks' = ranks, forked' = forked, ~cmd.read, cmd.status = "running", cmd.places = <<>>, cmd.failed = {},
           NEW rest, rest = Tail(cmd.actions),
           cmd' = [cmd EXCEPT !.actions = rest, !.places = IF rest = <<>> THEN <<>> ELSE Places(Head(rest), cmd.sel),
                              !.status = IF rest = <<>> THEN "ok" ELSE "running"]
    PROVE  FleetInv'
<1>1. cmd \in CmdRows /\ cmd.number <= MaxCommands /\ EntryLast /\ cmd.actions # <<>> /\ cmd.sel \in SUBSET Fleet
    BY DEF FleetInv, FleetShape, CmdRows
<1> DEFINE pl == IF rest = <<>> THEN <<>> ELSE Places(Head(rest), cmd.sel)
           st == IF rest = <<>> THEN "ok" ELSE "running"
           acts == cmd.actions
<1>2. /\ rest \in Seq(FleetActions)
      /\ \A a \in ToSet(acts) : a = Head(acts) \/ a \in ToSet(rest)
    <2>1. acts \in Seq(FleetActions) /\ acts # <<>>
        BY <1>1 DEF CmdRows
    <2>2. rest = Tail(acts)
        OBVIOUS
    <2> HIDE DEF acts
    <2>3. Tail(acts) \in Seq(FleetActions) /\ \A a \in ToSet(acts) : a = Head(acts) \/ a \in ToSet(Tail(acts))
        BY <2>1, TailMembers
    <2> QED BY <2>2, <2>3
<1>3. /\ pl \in Seq(RankPlaces)
      /\ rest # <<>> /\ Head(rest) = "stop" => \A p \in RankPlaces : p[1] \in cmd.sel => \E i \in 1..Len(pl) : pl[i] = p
      /\ rest # <<>> /\ Head(rest) = "launch" => EntryAfter(pl, {})
    <2>1. CASE rest = <<>>
        BY <2>1, EmptySeq
    <2>2. CASE rest # <<>>
        <3> DEFINE h == Head(rest)
                   sel == cmd.sel
        <3>1. pl = Places(h, sel) /\ sel \in SUBSET Fleet
            BY <1>1, <2>2
        <3> HIDE DEF h, sel, pl
        <3>2. /\ Places(h, sel) \in Seq(RankPlaces)
              /\ h = "stop" => \A p \in RankPlaces : p[1] \in sel => \E i \in 1..Len(Places(h, sel)) : Places(h, sel)[i] = p
              /\ h = "launch" => EntryAfter(Places(h, sel), {})
            BY <3>1, PlacesFacts
        <3>3. /\ pl \in Seq(RankPlaces)
              /\ h = "stop" => \A p \in RankPlaces : p[1] \in sel => \E i \in 1..Len(pl) : pl[i] = p
              /\ h = "launch" => EntryAfter(pl, {})
            BY <3>1, <3>2
        <3> QED BY <3>3 DEF h, sel
    <2> QED BY <2>1, <2>2
<1>4. cmd' = [cmd EXCEPT !.actions = rest, !.places = pl, !.status = st]
    OBVIOUS
<1>5. st \in {"ok", "running"} /\ (st = "ok" <=> rest = <<>>)
    OBVIOUS
<1> HIDE DEF pl, st
<1>6. /\ cmd' \in CmdRows /\ cmd'.number = cmd.number /\ cmd'.status = st /\ cmd'.read = cmd.read /\ cmd'.places = pl
      /\ cmd'.started = cmd.started /\ cmd'.sel = cmd.sel /\ cmd'.actions = rest /\ cmd'.failed = {}
      /\ cmd'.relaunch = cmd.relaunch
    BY <1>1, <1>2, <1>3, <1>4, <1>5 DEF CmdRows
<1>7. FleetShape'
    BY <1>1, <1>5, <1>6 DEF FleetInv, FleetShape
<1>8. EntryLast'
    BY <1>1, <1>6 DEF EntryLast
<1>9. KilledBehind'
    <2> SUFFICES ASSUME rest # <<>>, Head(rest) = "stop", NEW p \in ranks, p[1] \in cmd.sel PROVE PlaceOf(p) \in PlacesLeft'
        BY <1>5, <1>6 DEF KilledBehind, Selected, PlaceOf, Stopping
    <2>1. PlaceOf(p) \in RankPlaces /\ PlaceOf(p)[1] = p[1]
        BY DEF FleetInv, FleetShape, AllRanks, PlaceOf
    <2>2. PICK i \in 1..Len(pl) : pl[i] = PlaceOf(p)
        BY <1>3, <2>1
    <2> QED BY <1>6, <2>2 DEF PlacesLeft
<1>10. OldGone'
    <2> SUFFICES ASSUME cmd.relaunch, "stop" \notin ToSet(rest), NEW p \in ranks, p[1] \in cmd.sel PROVE p[3] = cmd.number
        BY <1>6 DEF OldGone, Selected
    <2>1. CASE "stop" \in ToSet(cmd.actions)
        <3>1. Head(cmd.actions) = "stop"
            BY <1>2, <2>1
        <3> QED BY <3>1, NoPlacesLeft DEF FleetInv, KilledBehind, Stopping, Selected
    <2>2. CASE "stop" \notin ToSet(cmd.actions)
        BY <2>2 DEF FleetInv, OldGone, Selected
    <2> QED BY <2>1, <2>2
<1>11. EntryWaits'
    <2> SUFFICES ASSUME rest # <<>>, Head(rest) = "launch" PROVE EntryAfter(pl, cmd.started)
        BY <1>5, <1>6 DEF EntryWaits
    <2> QED BY <1>3, EntryAfterMore
<1>12. ReadTells' /\ FailuresKnown' /\ OkAtEnd' /\ FailedProbeCleans'
    BY <1>5, <1>6 DEF ReadTells, FailuresKnown, OkAtEnd, FailedProbeCleans
<1> QED BY <1>7, <1>8, <1>9, <1>10, <1>11, <1>12 DEF FleetInv

LEMMA ActionEndSteps ==
    ASSUME FleetInv, ActionEnds \/ CleanupEnds
    PROVE  FleetInv'
<1>1. cmd.places = <<>> /\ ranks' = ranks /\ forked' = forked
    BY DEF ActionEnds, CleanupEnds
<1>2. ~cmd.read
    BY <1>1 DEF FleetInv, ReadTells
<1>3. CASE CleanupEnds
    BY <1>1, <1>2, <1>3, ActionFails DEF CleanupEnds
<1>4. CASE ActionEnds
    <2>1. CASE cmd.failed # {} /\ Head(cmd.actions) = "probe" /\ cmd.cleanup
        <3>1. cmd' = [cmd EXCEPT !.status = "cleanup", !.places = Places("stop", cmd.sel), !.failed = {}]
            BY <1>4, <2>1 DEF ActionEnds
        <3> DEFINE pl == Places("stop", cmd.sel)
        <3>2. pl = Places("stop", cmd.sel) /\ cmd' = [cmd EXCEPT !.status = "cleanup", !.places = pl, !.failed = {}]
            BY <3>1
        <3> HIDE DEF pl
        <3> QED BY <1>1, <1>2, <3>2, CleanupBegins
    <2>2. CASE cmd.failed # {} /\ ~(Head(cmd.actions) = "probe" /\ cmd.cleanup)
        <3>1. cmd' = [cmd EXCEPT !.status = "failed"] /\ cmd.status = "running"
            BY <1>4, <2>2 DEF ActionEnds
        <3> QED BY <1>1, <1>2, <2>2, <3>1, ActionFails
    <2>3. CASE cmd.failed = {}
        <3> DEFINE rest == Tail(cmd.actions)
        <3>1. /\ cmd.status = "running"
              /\ cmd' = [cmd EXCEPT !.actions = rest, !.places = IF rest = <<>> THEN <<>> ELSE Places(Head(rest), cmd.sel),
                                    !.status = IF rest = <<>> THEN "ok" ELSE "running"]
            BY <1>4, <2>3 DEF ActionEnds
        <3>2. rest = Tail(cmd.actions)
            OBVIOUS
        <3> HIDE DEF rest
        <3> QED BY <1>1, <1>2, <2>3, <3>1, <3>2, ActionFollows
    <2> QED BY <2>1, <2>2, <2>3
<1> QED BY <1>3, <1>4

(* A step to the next place, while nothing is launched: a kill that does    *)
(* not fail leaves no rank of its services at the place.                    *)
LEMMA PlaceGoesOn ==
    ASSUME FleetInv, NEW f \in SUBSET {Here}, cmd' = Onward(f), cmd.places # <<>>,
           ranks' \subseteq ranks, forked' \subseteq forked, cmd.status \in {"running", "cleanup"},
           cmd.status = "running" => Head(cmd.actions) \in {"stop", "probe", "write-scripts"},
           f # {} /\ cmd.status = "running" => Head(cmd.actions) \in {"stop", "probe"},
           Stopping => \A p \in ranks' : PlaceOf(p) = Here => Here \in f
    PROVE  FleetInv'
<1> DEFINE t == Tail(cmd.places)
<1>1. FleetShape /\ EntryLast /\ t = Tail(cmd.places)
    BY DEF FleetInv
<1>2. /\ Here \in RankPlaces /\ PlacesLeft = {Here} \cup {t[i] : i \in 1..Len(t)} /\ t \in Seq(RankPlaces)
    BY <1>1, HereFacts
<1> HIDE DEF t
<1>3. /\ cmd' \in CmdRows /\ cmd'.places = t /\ cmd'.failed = cmd.failed \cup f
      /\ cmd'.read = FALSE /\ cmd'.number = cmd.number /\ cmd'.actions = cmd.actions
      /\ cmd'.sel = cmd.sel /\ cmd'.cleanup = cmd.cleanup /\ cmd'.relaunch = cmd.relaunch
      /\ cmd'.started = cmd.started /\ cmd'.status = cmd.status
    <2>1. f \in SUBSET RankPlaces
        BY <1>2
    <2> QED BY <1>1, <2>1, OnwardFields
<1>4. FleetShape'
    BY <1>1, <1>3 DEF FleetShape
<1>5. KilledBehind'
    <2> SUFFICES ASSUME Stopping, NEW p \in ranks', Selected(p) PROVE PlaceOf(p) \in PlacesLeft' \cup cmd.failed \cup f
        BY <1>3 DEF KilledBehind, Stopping, Selected, PlaceOf
    <2>1. PlaceOf(p) \in PlacesLeft \cup cmd.failed
        BY DEF FleetInv, KilledBehind
    <2>2. PlacesLeft' = {t[i] : i \in 1..Len(t)}
        BY <1>3 DEF PlacesLeft
    <2> QED BY <1>2, <2>1, <2>2
<1>6. OldGone'
    BY <1>3 DEF FleetInv, OldGone, Selected
<1>7. EntryLast'
    BY <1>1, <1>3 DEF EntryLast
<1>8. FailuresKnown'
    BY <1>3 DEF FleetInv, FailuresKnown
<1>9. ReadTells' /\ EntryWaits' /\ OkAtEnd' /\ FailedProbeCleans'
    BY <1>3 DEF ReadTells, EntryWaits, OkAtEnd, FailedProbeCleans
<1> QED BY <1>4, <1>5, <1>6, <1>7, <1>8, <1>9 DEF FleetInv

(* A remote kill: what it has seen in the process table covers the ranks of *)
(* the place; no rank is started there in between.                          *)
LEMMA KillSees ==
    ASSUME FleetInv, KillReads
    PROVE  FleetInv'
<1> DEFINE seen == {<<"rank", p>> : p \in {q \in ranks : At(q)}} \cup {<<"worker", p>> : p \in {q \in ranks \cap forked : At(q)}}
<1>1. /\ cmd' = [cmd EXCEPT !.read = TRUE, !.snapshot = seen] /\ ranks' = ranks /\ forked' = forked
      /\ Stopping /\ cmd.places # <<>>
    BY DEF KillReads, Killing, Visiting, Stopping
<1>2. \A p \in ranks : At(p) => <<"rank", p>> \in seen
    OBVIOUS
<1>3. seen \in SUBSET SnapRows
    BY DEF FleetInv, FleetShape, SnapRows
<1> HIDE DEF seen
<1>4. cmd \in CmdRows /\ EntryLast
    BY DEF FleetInv, FleetShape
<1>5. /\ cmd' \in CmdRows /\ cmd'.places = cmd.places /\ cmd'.failed = cmd.failed
      /\ cmd'.number = cmd.number /\ cmd'.actions = cmd.actions /\ cmd'.snapshot = seen
      /\ cmd'.sel = cmd.sel /\ cmd'.cleanup = cmd.cleanup /\ cmd'.relaunch = cmd.relaunch
      /\ cmd'.started = cmd.started /\ cmd'.status = cmd.status
    BY <1>1, <1>3, <1>4 DEF CmdRows
<1>6. FleetShape'
    BY <1>1, <1>5 DEF FleetInv, FleetShape
<1>7. KilledBehind'
    BY <1>1, <1>5 DEF FleetInv, KilledBehind, Stopping, Selected, PlaceOf, PlacesLeft
<1>8. ReadTells'
    <2>1. \A p : At(p)' <=> At(p)
        BY <1>5 DEF At, Here
    <2> QED BY <1>1, <1>2, <1>5, <2>1 DEF ReadTells, Stopping
<1>9. OldGone'
    BY <1>1, <1>5 DEF FleetInv, OldGone, Selected
<1>10. EntryWaits'
    BY <1>1, <1>5 DEF EntryWaits, Stopping
<1>11. EntryLast'
    BY <1>4, <1>5 DEF EntryLast
<1>12. FailuresKnown' /\ OkAtEnd' /\ FailedProbeCleans'
    BY <1>1, <1>5 DEF FleetInv, FailuresKnown, OkAtEnd, FailedProbeCleans
<1> QED BY <1>6, <1>7, <1>8, <1>9, <1>10, <1>11, <1>12 DEF FleetInv

LEMMA KillSteps ==
    ASSUME FleetInv, KillFails \/ \E result \in SshResults : KillRuns(result)
    PROVE  FleetInv'
<1>1. Killing /\ cmd.places # <<>> /\ Stopping
    BY DEF KillFails, KillRuns, Killing, Visiting, Stopping
<1>2. /\ cmd.status \in {"running", "cleanup"}
      /\ cmd.status = "running" => Head(cmd.actions) \in {"stop", "probe", "write-scripts"}
      /\ cmd.status = "running" => Head(cmd.actions) \in {"stop", "probe"}
    BY <1>1 DEF Stopping
<1>3. CASE KillFails
    <2>1. cmd' = Onward({Here}) /\ ranks' = ranks /\ forked' = forked
        BY <1>3 DEF KillFails
    <2> QED BY <1>1, <1>2, <2>1, PlaceGoesOn
<1>4. ASSUME NEW result \in SshResults, KillRuns(result) PROVE FleetInv'
    <2> DEFINE f == IF result = "done" THEN {} ELSE {Here}
    <2>1. /\ cmd' = Onward(f) /\ ranks' \subseteq ranks /\ forked' \subseteq forked /\ cmd.read
          /\ ranks' = {p \in ranks : <<"rank", p>> \notin cmd.snapshot}
        BY <1>4 DEF KillRuns
    <2>2. f \in SUBSET {Here}
        OBVIOUS
    <2> HIDE DEF f
    <2>3. ASSUME NEW p \in ranks', PlaceOf(p) = Here PROVE FALSE
        <3>1. p \in ranks /\ p \in AllRanks /\ <<"rank", p>> \notin cmd.snapshot
            BY <2>1 DEF FleetInv, FleetShape
        <3>2. At(p)
            <4> DEFINE t == Tail(cmd.places)
            <4>1. FleetShape /\ t = Tail(cmd.places)
                BY DEF FleetInv
            <4> HIDE DEF t
            <4>2. \A q \in AllRanks : At(q) <=> PlaceOf(q) = Here
                BY <1>1, <4>1, HereFacts
            <4> QED BY <2>3, <3>1, <4>2
        <3> QED BY <2>1, <3>1, <3>2 DEF FleetInv, ReadTells
    <2> QED BY <1>1, <1>2, <2>1, <2>2, <2>3, PlaceGoesOn
<1> QED BY <1>3, <1>4

(* Scripts are written, an engine is asked, or the command raises.          *)
LEMMA QuietSteps ==
    ASSUME FleetInv,
           \/ \E result \in SshResults : WriteScripts(result)
           \/ \E ok \in BOOLEAN : Probe(ok)
           \/ PullFails
    PROVE  FleetInv'
<1>0. /\ ranks \subseteq AllRanks /\ forked \subseteq AllRanks
      /\ \A p \in ranks \cup forked : p[3] <= cmd.number
      /\ cmd.read => Stopping
    BY DEF FleetInv, FleetShape, ReadTells
<1>1. ASSUME NEW result \in SshResults, WriteScripts(result) PROVE FleetInv'
    <2>1. /\ cmd.status = "running" /\ cmd.places # <<>> /\ Head(cmd.actions) = "write-scripts" /\ ranks' = ranks /\ forked' = forked
          /\ ~Stopping
        BY <1>1 DEF WriteScripts, Visiting, Stopping
    <2>2. CASE result = "done"
        <3>1. cmd' = Onward({}) /\ {} \in SUBSET {Here}
            BY <1>1, <2>2 DEF WriteScripts
        <3> QED BY <2>1, <3>1, PlaceGoesOn
    <2>3. CASE result # "done"
        <3>1. cmd' = [cmd EXCEPT !.status = "raised"]
            BY <1>1, <2>3 DEF WriteScripts
        <3> QED BY <1>0, <2>1, <3>1, CommandRaises
    <2> QED BY <2>2, <2>3
<1>2. ASSUME NEW ok \in BOOLEAN, Probe(ok) PROVE FleetInv'
    <2> DEFINE f == IF ok THEN {} ELSE {Here}
    <2>1. /\ cmd.status = "running" /\ cmd.places # <<>> /\ Head(cmd.actions) = "probe" /\ ranks' = ranks /\ forked' = forked
          /\ ~Stopping
        BY <1>2 DEF Probe, Visiting, Stopping
    <2>2. cmd' = Onward(f) /\ f \in SUBSET {Here}
        BY <1>2 DEF Probe
    <2> HIDE DEF f
    <2> QED BY <2>1, <2>2, PlaceGoesOn
<1>3. CASE PullFails
    <2>1. cmd' = [cmd EXCEPT !.status = "raised"] /\ ranks' = ranks /\ forked' = forked /\ ~Stopping
        BY <1>3 DEF PullFails, Stopping
    <2> QED BY <1>0, <2>1, CommandRaises
<1> QED BY <1>1, <1>2, <1>3

(* A launch: the entry node of a service has no other of its nodes behind   *)
(* it in the places left.                                                   *)
LEMMA LaunchSteps ==
    ASSUME FleetInv, NEW result \in SshResults, Launch(result)
    PROVE  FleetInv'
<1> DEFINE t == Tail(cmd.places)
           new == <<Here[1], Here[2], cmd.number>>
<1>1. /\ FleetShape /\ EntryLast /\ t = Tail(cmd.places) /\ cmd \in CmdRows /\ cmd.number \in Nat
    BY DEF FleetInv, FleetShape, CmdRows
<1>2. /\ cmd.status = "running" /\ cmd.places # <<>> /\ Head(cmd.actions) = "launch" /\ forked' = forked
      /\ ranks \subseteq ranks' /\ ranks' \subseteq ranks \cup {new}
    BY DEF Launch, Visiting
<1>3. /\ Here \in RankPlaces /\ Here = <<Here[1], Here[2]>> /\ Here[1] \in Fleet /\ Here[2] \in STRING
      /\ t \in Seq(RankPlaces)
      /\ \A done : EntryAfter(cmd.places, done) => EntryAfter(t, done \cup {Here})
    BY <1>1, <1>2, HereFacts
<1> HIDE DEF t
<1>4. ~Stopping /\ ~cmd.read /\ cmd.failed = {} /\ EntryAfter(cmd.places, cmd.started)
    BY <1>2 DEF Stopping, FleetInv, ReadTells, FailuresKnown, EntryWaits
<1>5. new \in AllRanks /\ new[3] = cmd.number
    BY <1>1, <1>3 DEF AllRanks
<1>6. /\ ranks' \subseteq AllRanks /\ forked' \subseteq AllRanks /\ \A p \in ranks' \cup forked' : p[3] <= cmd.number
    <2>1. cmd.number <= cmd.number
        BY <1>1
    <2> HIDE DEF new
    <2> QED BY <1>1, <1>2, <1>5, <2>1 DEF FleetShape
<1>7. CASE result # "done"
    <2>1. cmd' = [cmd EXCEPT !.status = "raised"]
        BY <1>7 DEF Launch
    <2> QED BY <1>4, <1>6, <2>1, CommandRaises
<1>8. CASE result = "done"
    <2> DEFINE on == Onward({})
    <2>1. /\ on \in CmdRows /\ on.places = t /\ on.failed = cmd.failed \cup {}
          /\ on.read = FALSE /\ on.number = cmd.number /\ on.actions = cmd.actions
          /\ on.sel = cmd.sel /\ on.cleanup = cmd.cleanup /\ on.relaunch = cmd.relaunch
          /\ on.started = cmd.started /\ on.status = cmd.status
        BY <1>1, <1>2, OnwardFields DEF t
    <2>2. cmd' = [on EXCEPT !.started = on.started \cup {Here}]
        BY <1>8 DEF Launch
    <2> HIDE DEF on
    <2>3. /\ cmd' \in CmdRows /\ cmd'.places = t /\ cmd'.failed = {}
          /\ cmd'.read = FALSE /\ cmd'.number = cmd.number /\ cmd'.actions = cmd.actions
          /\ cmd'.sel = cmd.sel /\ cmd'.relaunch = cmd.relaunch
          /\ cmd'.started = cmd.started \cup {Here} /\ cmd'.status = "running"
        <3> DEFINE g == on.started \cup {Here}
        <3>1. g \in SUBSET RankPlaces
            BY <1>3, <2>1 DEF CmdRows
        <3>2. cmd' = [on EXCEPT !.started = g] /\ g = cmd.started \cup {Here}
            BY <2>1, <2>2
        <3> HIDE DEF g
        <3>3. /\ cmd' \in CmdRows /\ cmd'.places = on.places /\ cmd'.failed = on.failed
              /\ cmd'.read = on.read /\ cmd'.number = on.number /\ cmd'.actions = on.actions
              /\ cmd'.sel = on.sel /\ cmd'.relaunch = on.relaunch
              /\ cmd'.started = g /\ cmd'.status = on.status
            BY <2>1, <3>1, <3>2 DEF CmdRows
        <3>4. on.failed = {} /\ on.status = "running"
            BY <1>2, <1>4, <2>1
        <3>5. /\ cmd'.places = t /\ cmd'.read = FALSE /\ cmd'.number = cmd.number /\ cmd'.actions = cmd.actions
              /\ cmd'.sel = cmd.sel /\ cmd'.relaunch = cmd.relaunch
            BY <2>1, <3>3
        <3> QED BY <3>2, <3>3, <3>4, <3>5
    <2>4. FleetShape'
        BY <1>1, <1>2, <1>6, <2>3 DEF FleetShape
    <2>5. OldGone'
        <3>1. OldGone
            BY DEF FleetInv
        <3> HIDE DEF new
        <3> QED BY <1>2, <1>5, <2>3, <3>1 DEF OldGone, Selected
    <2>6. EntryWaits'
        BY <1>3, <1>4, <2>3 DEF EntryWaits
    <2>7. EntryLast'
        <3> SUFFICES ASSUME NEW s \in Fleet, <<s, EntryOf[s]>> \in cmd.started \cup {Here}, NEW n \in ToSet(NodesOf[s])
                     PROVE  <<s, n>> \in cmd.started \cup {Here}
            BY <2>3 DEF EntryLast
        <3>1. CASE <<s, EntryOf[s]>> \in cmd.started
            BY <1>1, <3>1 DEF EntryLast
        <3>2. CASE <<s, EntryOf[s]>> = Here
            <4>1. PICK k \in 1..Len(NodesOf[s]) : n = NodesOf[s][k]
                <5>1. DOMAIN NodesOf[s] = 1..Len(NodesOf[s])
                    BY FleetNodesFacts, SeqFacts
                <5> QED BY <5>1 DEF ToSet
            <4>2. CASE n = EntryOf[s]
                BY <3>2, <4>2
            <4>3. CASE n # EntryOf[s]
                <5> DEFINE places == cmd.places
                <5>1. places \in Seq(RankPlaces) /\ places # <<>> /\ EntryAfter(places, cmd.started) /\ Here = Head(places)
                    BY <1>1, <1>2, <1>4 DEF CmdRows, Here
                <5> HIDE DEF places
                <5>2. 1 \in 1..Len(places) /\ places[1] = Here /\ 1..1 - 1 = {}
                    <6>1. 1 \in 1..Len(places) /\ places[1] = Here
                        BY <5>1, TailFacts
                    <6> QED BY <6>1
                <5>3. <<s, NodesOf[s][k]>> \in cmd.started \/ \E j \in 1..1 - 1 : places[j] = <<s, NodesOf[s][k]>>
                    BY <3>2, <4>1, <4>3, <5>1, <5>2 DEF EntryAfter
                <5> QED BY <4>1, <5>2, <5>3
            <4> QED BY <4>2, <4>3
        <3> QED BY <3>1, <3>2
    <2>8. KilledBehind'
        BY <1>2, <2>3 DEF KilledBehind, Stopping
    <2>9. ReadTells' /\ FailuresKnown' /\ OkAtEnd' /\ FailedProbeCleans'
        BY <2>3 DEF ReadTells, FailuresKnown, OkAtEnd, FailedProbeCleans
    <2> QED BY <2>4, <2>5, <2>6, <2>7, <2>8, <2>9 DEF FleetInv
<1> QED BY <1>7, <1>8

LEMMA FleetInvStep ==
    ASSUME FleetInv, FleetNext
    PROVE  FleetInv' /\ UNCHANGED <<coord, envs>>
<1>1. FleetInv'
    BY RankSteps, CommandBegins, KillSteps, KillSees, QuietSteps, LaunchSteps, ActionEndSteps DEF FleetNext
<1>2. UNCHANGED <<coord, envs>>
    BY DEF FleetNext, ForkWorker, RankCrashes, Command, KillRuns, WriteScripts, Launch, KillReads, KillFails, PullFails, Probe,
           ActionEnds, CleanupEnds
<1> QED BY <1>1, <1>2

LEMMA FleetInvUnchanged ==
    ASSUME FleetInv, UNCHANGED <<ranks, forked, cmd>>
    PROVE  FleetInv'
<1>1. FleetShape'
    BY DEF FleetInv, FleetShape
<1>2. KilledBehind'
    BY DEF FleetInv, KilledBehind, Stopping, Selected, PlaceOf, PlacesLeft
<1>3. ReadTells'
    <2>1. \A p : At(p)' <=> At(p)
        BY DEF At, Here
    <2> QED BY <2>1 DEF FleetInv, ReadTells, Stopping
<1>4. FailuresKnown' /\ OldGone' /\ OkAtEnd'
    BY DEF FleetInv, FailuresKnown, OldGone, OkAtEnd, Selected
<1>5. EntryWaits'
    <2>1. EntryWaits
        BY DEF FleetInv
    <2> QED BY <2>1 DEF EntryWaits
<1>6. EntryLast' /\ FailedProbeCleans'
    <2>1. EntryLast /\ FailedProbeCleans
        BY DEF FleetInv
    <2> QED BY <2>1 DEF EntryLast, FailedProbeCleans
<1> QED BY <1>1, <1>2, <1>3, <1>4, <1>5, <1>6 DEF FleetInv

-----------------------------------------------------------------------------
(* Routes of the proxy in the order of their kinds.                         *)
Routes == {"10g", "200g", "wifi"} \X (ProxyNodes \cup STRING) \X {"direct", "fabric", "local"}
RouteRank(c) == CASE c[1] = "10g" -> 1 [] c[1] = "200g" -> 2 [] c[1] = "wifi" /\ c[3] = "local" -> 3 [] OTHER -> 4
Ranked(s, low, high) ==
    /\ s \in Seq(Routes)
    /\ \A i \in 1..Len(s) : low <= RouteRank(s[i]) /\ RouteRank(s[i]) <= high
    /\ \A i, j \in 1..Len(s) : i < j => RouteRank(s[i]) <= RouteRank(s[j])

LEMMA RouteRanks ==
    ASSUME NEW c \in Routes
    PROVE  /\ RouteRank(c) \in 1..4
           /\ c[1] = "10g" => RouteRank(c) = 1
           /\ c[1] = "200g" => RouteRank(c) = 2
           /\ c[1] = "wifi" /\ c[3] = "local" => RouteRank(c) = 3
           /\ c[1] = "wifi" /\ c[3] = "fabric" => RouteRank(c) = 4
BY DEF RouteRank, Routes

LEMMA RankedOfOne ==
    ASSUME NEW s \in Seq(Routes), NEW r \in 1..4, \A i \in 1..Len(s) : RouteRank(s[i]) = r
    PROVE  Ranked(s, r, r)
<1>1. r <= r
    OBVIOUS
<1> QED BY <1>1 DEF Ranked

LEMMA RankedEmpty == ASSUME NEW low, NEW high PROVE Ranked(<<>>, low, high)
<1>1. <<>> \in Seq(Routes) /\ 1..Len(<<>>) = {}
    BY EmptySeq
<1> QED BY <1>1 DEF Ranked

LEMMA RankedWider ==
    ASSUME NEW s, NEW low \in Nat, NEW high \in Nat, NEW lower \in Nat, NEW higher \in Nat,
           Ranked(s, low, high), lower <= low, high <= higher
    PROVE  Ranked(s, lower, higher)
<1>1. \A i \in 1..Len(s) : RouteRank(s[i]) \in 1..4
    <2>1. \A i \in 1..Len(s) : s[i] \in Routes
        BY SeqFacts DEF Ranked
    <2> QED BY <2>1, RouteRanks
<1>2. ASSUME NEW i \in 1..Len(s) PROVE lower <= RouteRank(s[i]) /\ RouteRank(s[i]) <= higher
    BY <1>1 DEF Ranked
<1> QED BY <1>2 DEF Ranked

LEMMA RankedJoin ==
    ASSUME NEW s, NEW t, NEW a \in Nat, NEW b \in Nat, NEW c \in Nat, NEW d \in Nat,
           Ranked(s, a, b), Ranked(t, c, d), b <= c, a <= b, c <= d
    PROVE  Ranked(s \o t, a, d)
<1> DEFINE f == s \o t
           L == Len(s)
           K == Len(t)
           M == Len(f)
<1>1. /\ s \in Seq(Routes) /\ t \in Seq(Routes)
      /\ \A i \in 1..L : a <= RouteRank(s[i]) /\ RouteRank(s[i]) <= b
      /\ \A i, j \in 1..L : i < j => RouteRank(s[i]) <= RouteRank(s[j])
      /\ \A i \in 1..K : c <= RouteRank(t[i]) /\ RouteRank(t[i]) <= d
      /\ \A i, j \in 1..K : i < j => RouteRank(t[i]) <= RouteRank(t[j])
    BY DEF Ranked
<1>2. f \in Seq(Routes) /\ L \in Nat /\ K \in Nat /\ M = L + K
    BY <1>1, ConcatFacts, SeqFacts
<1>3. \A i \in 1..M : (i \in 1..L /\ f[i] = s[i]) \/ (i \notin 1..L /\ i - L \in 1..K /\ f[i] = t[i - L])
    <2>1. /\ \A i \in 1..L : f[i] = s[i]
          /\ \A i \in 1..K : f[L + i] = t[i]
          /\ \A i \in 1..M : i \notin 1..L => i - L \in 1..K /\ L + (i - L) = i
        BY <1>1, ConcatFacts
    <2> HIDE DEF f, L, K, M
    <2> SUFFICES ASSUME NEW i \in 1..M, i \notin 1..L PROVE i - L \in 1..K /\ f[i] = t[i - L]
        BY <2>1
    <2>2. i - L \in 1..K /\ L + (i - L) = i
        BY <2>1
    <2> QED BY <2>1, <2>2
<1>4. /\ \A i \in 1..L : RouteRank(s[i]) \in 1..4
      /\ \A i \in 1..K : RouteRank(t[i]) \in 1..4
    <2>1. (\A i \in 1..L : s[i] \in Routes) /\ (\A i \in 1..K : t[i] \in Routes)
        BY <1>1, SeqFacts
    <2> QED BY <2>1, RouteRanks
<1> HIDE DEF f, L, K, M
<1>5. ASSUME NEW i \in 1..M PROVE a <= RouteRank(f[i]) /\ RouteRank(f[i]) <= d
    <2>1. CASE i \in 1..L /\ f[i] = s[i]
        BY <1>1, <1>4, <2>1
    <2>2. CASE i - L \in 1..K /\ f[i] = t[i - L]
        BY <1>1, <1>4, <2>2
    <2> QED BY <1>3, <2>1, <2>2
<1>6. ASSUME NEW i \in 1..M, NEW j \in 1..M, i < j PROVE RouteRank(f[i]) <= RouteRank(f[j])
    <2>1. CASE j \in 1..L
        <3>1. i \in 1..L
            BY <1>2, <1>6, <2>1
        <3> QED BY <1>1, <1>3, <1>6, <2>1, <3>1
    <2>2. CASE i \notin 1..L
        <3>1. j \notin 1..L
            BY <1>2, <1>6, <2>2
        <3>2. i - L \in 1..K /\ j - L \in 1..K /\ f[i] = t[i - L] /\ f[j] = t[j - L] /\ i - L < j - L
            BY <1>2, <1>3, <1>6, <2>2, <3>1
        <3> QED BY <1>1, <3>2
    <2>3. CASE i \in 1..L /\ j \notin 1..L
        <3>1. f[i] = s[i] /\ j - L \in 1..K /\ f[j] = t[j - L]
            BY <1>3, <2>3
        <3>2. RouteRank(s[i]) <= b /\ c <= RouteRank(t[j - L]) /\ RouteRank(s[i]) \in 1..4 /\ RouteRank(t[j - L]) \in 1..4
            BY <1>1, <1>4, <2>3, <3>1
        <3> QED BY <3>1, <3>2
    <2> QED BY <2>1, <2>2, <2>3
<1>7. Ranked(f, a, d)
    BY <1>2, <1>5, <1>6 DEF Ranked, M
<1> QED BY <1>7 DEF f

(* Bastions give fabric routes, emergency hosts local ones.                 *)
LEMMA BastionWifiRanked ==
    ASSUME NEW bs \in Seq(ProxyNodes)
    PROVE  Ranked(BastionWifi(bs), 4, 4)
<1> DEFINE N == Len(bs)
           hops == [i \in 1..N |-> [j \in 1..Len(WifiHosts[bs[i]]) |-> <<"wifi", WifiHosts[bs[i]][j], "fabric">>]]
           f == BastionWifi(bs)
           Far4 == {c \in Routes : RouteRank(c) = 4}
<1>1. N \in Nat /\ DOMAIN bs = 1..N /\ \A i \in 1..N : bs[i] \in ProxyNodes
    BY SeqFacts
<1>2. ASSUME NEW i \in 1..N PROVE DOMAIN WifiHosts[bs[i]] = 1..Len(WifiHosts[bs[i]]) /\ hops[i] \in Seq(Far4)
    <2> DEFINE w == WifiHosts[bs[i]]
               h == [j \in 1..Len(w) |-> <<"wifi", w[j], "fabric">>]
               A == STRING
    <2>1. w \in Seq(A) /\ hops[i] = h
        BY <1>1, SshProxyAssumption
    <2> HIDE DEF w, A
    <2>2. DOMAIN w = 1..Len(w) /\ Len(w) \in Nat /\ \A j \in 1..Len(w) : w[j] \in A
        BY <2>1, SeqFacts
    <2>3. ASSUME NEW j \in 1..Len(w) PROVE h[j] \in Far4
        <3>1. h[j] = <<"wifi", w[j], "fabric">> /\ h[j] \in Routes
            BY <2>2 DEF Routes, A
        <3>2. h[j][1] = "wifi" /\ h[j][3] = "fabric"
            BY <3>1
        <3> HIDE DEF h
        <3> QED BY <3>1, <3>2, RouteRanks
    <2>4. h \in Seq(Far4)
        <3> HIDE DEF Far4
        <3>1. h = [j \in 1..Len(w) |-> h[j]]
            OBVIOUS
        <3> HIDE DEF h
        <3> QED BY <2>2, <2>3, <3>1
    <2> HIDE DEF h
    <2> QED BY <2>1, <2>2, <2>4 DEF w
<1> HIDE DEF Far4
<1>3. hops \in Seq(Seq(Far4))
    BY <1>1, <1>2
<1>4. f = FlattenSeq(hops)
    <2>1. [i \in DOMAIN bs |-> [j \in DOMAIN WifiHosts[bs[i]] |-> <<"wifi", WifiHosts[bs[i]][j], "fabric">>]] = hops
        BY <1>1, <1>2
    <2> HIDE DEF hops
    <2> QED BY <2>1 DEF BastionWifi
<1> HIDE DEF hops
<1>5. f \in Seq(Far4)
    BY <1>3, <1>4, FlattenMembers
<1> HIDE DEF f
<1>6. \A i \in 1..Len(f) : f[i] \in Far4
    BY <1>5, SeqFacts
<1>7. f \in Seq(Routes) /\ \A i \in 1..Len(f) : RouteRank(f[i]) = 4
    BY <1>5, <1>6 DEF Far4
<1>8. Ranked(f, 4, 4)
    BY <1>7, RankedOfOne
<1> QED BY <1>8 DEF f

LEMMA OwnWifiRanked ==
    ASSUME NEW n \in ProxyNodes
    PROVE  Ranked(OwnWifi(n), 3, 3)
<1> DEFINE w == WifiHosts[n]
           h == [j \in 1..Len(w) |-> <<"wifi", w[j], "local">>]
           A == STRING
<1>1. w \in Seq(A)
    BY SshProxyAssumption
<1> HIDE DEF A, w
<1>2. DOMAIN w = 1..Len(w) /\ Len(w) \in Nat /\ \A j \in 1..Len(w) : w[j] \in A
    BY <1>1, SeqFacts
<1>3. OwnWifi(n) = h
    BY <1>2 DEF OwnWifi, w
<1>4. ASSUME NEW j \in 1..Len(w) PROVE h[j] \in Routes /\ h[j][1] = "wifi" /\ h[j][3] = "local"
    <2>1. h[j] = <<"wifi", w[j], "local">>
        OBVIOUS
    <2> QED BY <1>2, <2>1 DEF Routes, A
<1>5. h \in Seq(Routes) /\ Len(h) = Len(w)
    BY <1>2, <1>4
<1> HIDE DEF h
<1>6. \A j \in 1..Len(h) : RouteRank(h[j]) = 3
    BY <1>4, <1>5, RouteRanks
<1> QED BY <1>3, <1>5, <1>6, RankedOfOne

LEMMA RingRanked ==
    ASSUME NEW bs \in Seq(ProxyNodes)
    PROVE  Ranked(Ring(bs), 2, 2)
<1> DEFINE h == [j \in 1..Len(bs) |-> <<"200g", bs[j], "fabric">>]
<1>2. DOMAIN bs = 1..Len(bs) /\ Len(bs) \in Nat /\ \A j \in 1..Len(bs) : bs[j] \in ProxyNodes
    BY SeqFacts
<1>3. Ring(bs) = h
    BY <1>2 DEF Ring
<1>4. ASSUME NEW j \in 1..Len(bs) PROVE h[j] \in Routes /\ h[j][1] = "200g"
    <2>1. h[j] = <<"200g", bs[j], "fabric">>
        OBVIOUS
    <2> QED BY <1>2, <2>1 DEF Routes
<1>5. h \in Seq(Routes) /\ Len(h) = Len(bs)
    BY <1>2, <1>4
<1> HIDE DEF h
<1>6. \A j \in 1..Len(h) : RouteRank(h[j]) = 2
    BY <1>4, <1>5, RouteRanks
<1> QED BY <1>3, <1>5, <1>6, RankedOfOne

LEMMA CandidatesRanked ==
    ASSUME NEW n \in ProxyNodes, NEW route, NEW ring \in Seq(ProxyNodes), NEW air \in Seq(ProxyNodes)
    PROVE  Ranked(Candidates(n, route, ring, air), 1, 4)
<1> DEFINE direct == IF route \in {"auto", "10g"} THEN << <<"10g", n, "direct">> >> ELSE <<>>
           ringed == IF route \in {"auto", "200g"} THEN Ring(ring) ELSE <<>>
           over == OwnWifi(n) \o BastionWifi(air)
           wireless == IF route \in {"auto", "wifi"} THEN over ELSE <<>>
<1>1. Ranked(direct, 1, 1)
    <2> DEFINE c == <<"10g", n, "direct">>
    <2>1. c \in Routes /\ c[1] = "10g"
        BY DEF Routes
    <2> HIDE DEF c
    <2>2. <<c>> \in Seq(Routes) /\ Len(<<c>>) = 1 /\ <<c>>[1] = c /\ 1..1 = {1}
        BY <2>1, OneSeq
    <2>3. RouteRank(c) = 1
        BY <2>1, RouteRanks
    <2>4. Ranked(<<c>>, 1, 1)
        <3> DEFINE s == <<c>>
        <3>1. s \in Seq(Routes) /\ \A i \in 1..Len(s) : RouteRank(s[i]) = 1
            BY <2>2, <2>3
        <3> HIDE DEF s
        <3>2. Ranked(s, 1, 1)
            BY <3>1, RankedOfOne
        <3> QED BY <3>2 DEF s
    <2> QED BY <2>4, RankedEmpty DEF c
<1>2. Ranked(ringed, 2, 2)
    BY RingRanked, RankedEmpty
<1>3. Ranked(over, 3, 4)
    BY OwnWifiRanked, BastionWifiRanked, RankedJoin
<1>4. Ranked(wireless, 3, 4)
    BY <1>3, RankedEmpty
<1>5. Candidates(n, route, ring, air) = direct \o ringed \o wireless
    BY DEF Candidates
<1> HIDE DEF direct, ringed, wireless
<1>6. Ranked(direct \o ringed, 1, 2)
    BY <1>1, <1>2, RankedJoin
<1>7. Ranked(direct \o ringed \o wireless, 1, 4)
    BY <1>4, <1>6, RankedJoin
<1> QED BY <1>5, <1>7

(* What is read and written is a first part of the far end's chunks.        *)
Counted(k) == [i \in 1..k |-> i]
ProxyInv ==
    /\ Ranked(routes, 1, 4)
    /\ trying \in 0..Len(routes) /\ live \subseteq {trying}
    /\ proxy \in {"trying", "relaying", "probed", "failed", "done"}
    /\ proxy \in {"failed", "probed", "done"} => live = {}
    /\ proxy = "failed" => trying = Len(routes)
    /\ sent \in Nat
    /\ \E k \in 0..sent : preface = Counted(k) /\ (proxy = "relaying" => k > 0 /\ k >= BannerAt(far[trying]))
    /\ \E m \in 0..sent : shown = Counted(m) /\ (proxy = "trying" => m = 0) /\ (proxy = "done" => m = sent)

LEMMA CountedFacts ==
    ASSUME NEW k \in Nat
    PROVE  /\ Counted(k) \in Seq(Nat) /\ Len(Counted(k)) = k /\ Append(Counted(k), k + 1) = Counted(k + 1)
           /\ Counted(0) = <<>> /\ (Counted(k) = <<>> => k = 0)
           /\ \A i \in 1..k : i \in ToSet(Counted(k))
<1>1. Counted(k) \in Seq(Nat) /\ Len(Counted(k)) = k /\ DOMAIN Counted(k) = 1..k /\ \A i \in 1..k : Counted(k)[i] = i
    BY DEF Counted
<1>2. Append(Counted(k), k + 1) = Counted(k + 1)
    BY DEF Counted
<1>3. Counted(0) = <<>>
    BY DEF Counted
<1>4. Counted(k) = <<>> => k = 0
    BY <1>1
<1>5. \A i \in 1..k : i \in ToSet(Counted(k))
    BY <1>1 DEF ToSet
<1> QED BY <1>1, <1>2, <1>3, <1>4, <1>5

LEMMA ProxyInvProperties == ProxyInv => NothingLeftOpen /\ StreamWhole /\ OrderKept
<1> SUFFICES ASSUME ProxyInv PROVE NothingLeftOpen /\ StreamWhole /\ OrderKept
    OBVIOUS
<1>1. NothingLeftOpen
    BY DEF ProxyInv, NothingLeftOpen
<1>2. StreamWhole
    <2>1. PICK m \in 0..sent : shown = Counted(m) /\ (proxy = "done" => m = sent)
        BY DEF ProxyInv
    <2>2. PICK k \in 0..sent : preface = Counted(k) /\ (proxy = "relaying" => k > 0 /\ k >= BannerAt(far[trying]))
        BY DEF ProxyInv
    <2>3. sent \in Nat /\ m \in Nat /\ k \in Nat
        BY DEF ProxyInv
    <2>4. Len(shown) = m
        BY <2>1, <2>3, CountedFacts
    <2>5. shown = [i \in 1..Len(shown) |-> i]
        BY <2>1, <2>4 DEF Counted
    <2>6. ASSUME proxy = "relaying" PROVE \E i \in ToSet(preface) : i >= BannerAt(far[trying])
        <3>1. k \in 1..k /\ k >= BannerAt(far[trying])
            BY <2>2, <2>3, <2>6
        <3>2. k \in ToSet(preface)
            BY <2>2, <2>3, <3>1, CountedFacts
        <3> QED BY <3>1, <3>2
    <2> QED BY <2>1, <2>4, <2>5, <2>6 DEF StreamWhole
<1>3. OrderKept
    <2>1. DOMAIN routes = 1..Len(routes) /\ \A i, j \in 1..Len(routes) : i < j => RouteRank(routes[i]) <= RouteRank(routes[j])
        BY SeqFacts DEF ProxyInv, Ranked
    <2>2. proxy = "failed" => trying = Len(routes)
        BY DEF ProxyInv
    <2> QED BY <2>1, <2>2 DEF OrderKept, RouteRank
<1> QED BY <1>1, <1>2, <1>3

LEMMA ProxyInitInv ==
    ASSUME NEW n \in ProxyNodes, NEW b \in ProxyNodes, NEW route, NEW ends, ProxyStart(n, route, <<b>>, <<b>>, ends)
    PROVE  ProxyInv
<1>1. <<b>> \in Seq(ProxyNodes)
    BY OneSeq
<1>2. /\ routes = Candidates(n, route, <<b>>, <<b>>) /\ trying = 0 /\ proxy = "trying" /\ live = {}
      /\ sent = 0 /\ preface = <<>> /\ shown = <<>>
    BY DEF ProxyStart
<1>3. Ranked(routes, 1, 4)
    BY <1>1, <1>2, CandidatesRanked
<1>4. Len(routes) \in Nat
    BY <1>3, SeqFacts DEF Ranked
<1>5. Counted(0) = <<>>
    BY CountedFacts
<1> QED BY <1>2, <1>3, <1>4, <1>5 DEF ProxyInv

LEMMA ProxyInvStep ==
    ASSUME ProxyInv, SshProxyNext
    PROVE  ProxyInv'
<1> USE DEF ProxyInv
<1>0. Len(routes) \in Nat /\ sent \in Nat /\ trying \in Nat
    BY SeqFacts DEF Ranked
<1>1. PICK k \in 0..sent : preface = Counted(k) /\ (proxy = "relaying" => k > 0 /\ k >= BannerAt(far[trying]))
    OBVIOUS
<1>2. PICK m \in 0..sent : shown = Counted(m) /\ (proxy = "trying" => m = 0) /\ (proxy = "done" => m = sent)
    OBVIOUS
<1>3. Len(preface) = k /\ Len(shown) = m /\ (shown = <<>> <=> m = 0) /\ k \in Nat /\ m \in Nat
    <2>1. k \in Nat /\ m \in Nat
        BY <1>0
    <2> QED BY <1>1, <1>2, <2>1, CountedFacts
<1>4. ASSUME TryNext PROVE ProxyInv'
    <2>1. /\ proxy = "trying" /\ trying \notin live /\ trying < Len(routes) /\ trying' = trying + 1
          /\ live' \subseteq live \cup {trying'} /\ sent' = 0 /\ preface' = <<>>
          /\ routes' = routes /\ proxy' = proxy /\ shown' = shown
        BY <1>4 DEF TryNext
    <2>2. live' \subseteq {trying'} /\ trying' \in 0..Len(routes)
        BY <1>0, <2>1
    <2>3. preface' = Counted(0) /\ shown' = Counted(0)
        BY <1>2, <2>1, CountedFacts
    <2>4. Ranked(routes, 1, 4)'
        BY <2>1 DEF Ranked
    <2> QED BY <2>1, <2>2, <2>3, <2>4
<1>5. ASSUME ReadPreface PROVE ProxyInv'
    <2>1. /\ proxy = "trying" /\ trying \in live
          /\ routes' = routes /\ far' = far /\ trying' = trying /\ live' = live /\ sent' = sent /\ shown' = shown
        BY <1>5 DEF ReadPreface, Opening
    <2>2. PICK n \in (k + 1)..sent : /\ preface' = [i \in 1..n |-> i]
                                     /\ proxy' = IF n >= BannerAt(far[trying]) THEN "relaying" ELSE proxy
        BY <1>3, <1>5 DEF ReadPreface
    <2>3. n \in 0..sent /\ n > 0 /\ preface' = Counted(n)
        BY <1>0, <1>3, <2>2 DEF Counted
    <2>4. Ranked(routes, 1, 4)'
        BY <2>1 DEF Ranked
    <2>5. proxy' \in {"trying", "relaying"} /\ (proxy' = "relaying" => n >= BannerAt(far'[trying']))
        BY <2>1, <2>2
    <2>6. \E q \in 0..sent' : preface' = Counted(q) /\ (proxy' = "relaying" => q > 0 /\ q >= BannerAt(far'[trying']))
        BY <2>1, <2>3, <2>5
    <2>7. \E q \in 0..sent' : shown' = Counted(q) /\ (proxy' = "trying" => q = 0) /\ (proxy' = "done" => q = sent')
        BY <1>2, <2>1, <2>5
    <2> QED BY <2>1, <2>4, <2>5, <2>6, <2>7
<1>6. ASSUME PrefaceFails \/ NoRouteLeft \/ ProbeOnly \/ FarCloses \/ RelayIn PROVE ProxyInv'
    <2>1. /\ routes' = routes /\ far' = far /\ trying' = trying /\ sent' = sent /\ preface' = preface /\ shown' = shown
          /\ live' \subseteq live
          /\ \/ proxy' = proxy
             \/ proxy' = "failed" /\ trying = Len(routes) /\ trying \notin live /\ live' = live
             \/ proxy = "relaying" /\ proxy' = "probed" /\ live' = live \ {trying}
        BY <1>6 DEF PrefaceFails, Opening, NoRouteLeft, ProbeOnly, FarCloses, RelayIn
    <2>2. Ranked(routes, 1, 4)'
        BY <2>1 DEF Ranked
    <2>3. \E q \in 0..sent' : preface' = Counted(q) /\ (proxy' = "relaying" => q > 0 /\ q >= BannerAt(far'[trying']))
        BY <1>1, <2>1
    <2>4. \E q \in 0..sent' : shown' = Counted(q) /\ (proxy' = "trying" => q = 0) /\ (proxy' = "done" => q = sent')
        BY <1>2, <2>1
    <2>5. /\ trying' \in 0..Len(routes)' /\ live' \subseteq {trying'} /\ sent' \in Nat
        BY <2>1
    <2>6. /\ proxy' \in {"trying", "relaying", "probed", "failed", "done"}
          /\ proxy' \in {"failed", "probed", "done"} => live' = {}
          /\ proxy' = "failed" => trying' = Len(routes)'
        BY <2>1
    <2> QED BY <2>2, <2>3, <2>4, <2>5, <2>6
<1>7. ASSUME WritePreface \/ RelayOut \/ RelayEnds PROVE ProxyInv'
    <2>1. /\ routes' = routes /\ far' = far /\ trying' = trying /\ sent' = sent /\ preface' = preface
          /\ live' \subseteq live /\ proxy = "relaying"
          /\ \/ proxy' = proxy /\ shown' = preface
             \/ proxy' = proxy /\ Len(shown) < sent /\ shown' = Append(shown, Len(shown) + 1)
             \/ proxy' = "done" /\ live' = live \ {trying} /\ Len(shown) = sent /\ shown' = shown
        BY <1>7 DEF WritePreface, RelayOut, RelayEnds
    <2>2. Ranked(routes, 1, 4)'
        BY <2>1 DEF Ranked
    <2>3. \E q \in 0..sent' : preface' = Counted(q) /\ (proxy' = "relaying" => q > 0 /\ q >= BannerAt(far'[trying']))
        BY <1>1, <2>1
    <2>4. \E q \in 0..sent' : shown' = Counted(q) /\ (proxy' = "trying" => q = 0) /\ (proxy' = "done" => q = sent')
        <3>1. CASE proxy' = proxy /\ shown' = preface
            BY <1>1, <2>1, <3>1
        <3>2. CASE proxy' = proxy /\ Len(shown) < sent /\ shown' = Append(shown, Len(shown) + 1)
            <4>1. shown' = Counted(m + 1)
                BY <1>2, <1>3, <3>2, CountedFacts
            <4>2. m + 1 \in 0..sent'
                BY <1>0, <1>3, <2>1, <3>2
            <4> QED BY <2>1, <3>2, <4>1, <4>2
        <3>3. CASE proxy' = "done" /\ Len(shown) = sent /\ shown' = shown
            BY <1>2, <1>3, <2>1, <3>3
        <3> QED BY <2>1, <3>1, <3>2, <3>3
    <2>5. /\ trying' \in 0..Len(routes)' /\ live' \subseteq {trying'} /\ sent' \in Nat
        BY <2>1
    <2>6. /\ proxy' \in {"trying", "relaying", "probed", "failed", "done"}
          /\ proxy' \in {"failed", "probed", "done"} => live' = {}
          /\ proxy' = "failed" => trying' = Len(routes)'
        BY <2>1
    <2> QED BY <2>2, <2>3, <2>4, <2>5, <2>6
<1>8. ASSUME FarSends PROVE ProxyInv'
    <2>1. /\ routes' = routes /\ far' = far /\ trying' = trying /\ sent' = sent + 1 /\ preface' = preface /\ shown' = shown
          /\ live' = live /\ proxy' = proxy /\ trying \in live
        BY <1>8 DEF FarSends
    <2>2. Ranked(routes, 1, 4)'
        BY <2>1 DEF Ranked
    <2>3. k \in 0..sent' /\ m \in 0..sent' /\ sent' \in Nat /\ proxy # "done"
        BY <1>0, <1>3, <2>1
    <2>4. \E q \in 0..sent' : preface' = Counted(q) /\ (proxy' = "relaying" => q > 0 /\ q >= BannerAt(far'[trying']))
        BY <1>1, <2>1, <2>3
    <2>5. \E q \in 0..sent' : shown' = Counted(q) /\ (proxy' = "trying" => q = 0) /\ (proxy' = "done" => q = sent')
        BY <1>2, <2>1, <2>3
    <2> QED BY <2>1, <2>2, <2>3, <2>4, <2>5
<1> QED BY <1>4, <1>5, <1>6, <1>7, <1>8 DEF SshProxyNext

LEMMA ProxyInvUnchanged ==
    ASSUME ProxyInv, UNCHANGED proxyVars
    PROVE  ProxyInv'
BY DEF ProxyInv, proxyVars, Ranked

-----------------------------------------------------------------------------
(* The awk program that rewrites an environment file, line by line.         *)
NoHome(lines) == \A i \in 1..Len(lines) : ~IsHome(lines[i])
Written(lines) ==
    FlattenSeq([i \in DOMAIN lines |->
        IF ~IsHome(lines[i]) THEN <<lines[i]>> ELSE IF \A k \in 1..i - 1 : ~IsHome(lines[k]) THEN <<"home">> ELSE <<>>])

LEMMA FrontFacts ==
    ASSUME NEW A, NEW n \in Nat, NEW p \in Seq(A), Len(p) = n + 1
    PROVE  \E q \in Seq(A) : \E x \in A : p = Append(q, x) /\ Len(q) = n
<1> DEFINE q == [i \in 1..n |-> p[i]]
           x == p[n + 1]
<1>1. q \in Seq(A) /\ Len(q) = n /\ x \in A /\ \A i \in 1..n : q[i] = p[i]
    OBVIOUS
<1>2. Append(q, x) \in Seq(A) /\ Len(Append(q, x)) = n + 1 /\ Append(q, x)[n + 1] = x /\ \A i \in 1..n : Append(q, x)[i] = p[i]
    <2> HIDE DEF q, x
    <2> QED BY <1>1
<1>3. p = Append(q, x)
    <2> DEFINE r == Append(q, x)
    <2>1. r \in Seq(A) /\ Len(r) = n + 1 /\ \A i \in 1..n + 1 : r[i] = p[i]
        <3>1. \A i \in 1..n + 1 : i \in 1..n \/ i = n + 1
            OBVIOUS
        <3> HIDE DEF q, x
        <3> QED BY <1>2, <3>1 DEF x
    <2> HIDE DEF r
    <2>2. p = r
        BY <2>1
    <2> QED BY <2>2 DEF r
<1> HIDE DEF q, x
<1> QED BY <1>1, <1>3

(* The pieces of a file that has one more line.                             *)
OneMore(few, n, last) == [i \in 1..n + 1 |-> IF i = n + 1 THEN last ELSE few[i]]

LEMMA FlattenOneMore ==
    ASSUME NEW A, NEW n \in Nat, NEW few \in Seq(Seq(A)), NEW last \in Seq(A), Len(few) = n
    PROVE  FlattenSeq(OneMore(few, n, last)) = FlattenSeq(few) \o last
<1> DEFINE r == Append(few, last)
           more == OneMore(few, n, last)
<1>1. r \in Seq(Seq(A)) /\ Len(r) = n + 1 /\ r[n + 1] = last /\ \A i \in 1..n : r[i] = few[i]
    BY AppendFacts
<1>2. FlattenSeq(r) = FlattenSeq(few) \o last
    BY FlattenAppend
<1> HIDE DEF r
<1>3. r = more
    <2>1. DOMAIN r = 1..n + 1 /\ r = [i \in 1..n + 1 |-> r[i]]
        BY <1>1
    <2>2. \A i \in 1..n + 1 : i # n + 1 => i \in 1..n
        OBVIOUS
    <2> QED BY <1>1, <2>1, <2>2 DEF OneMore
<1> HIDE DEF more
<1>4. FlattenSeq(more) = FlattenSeq(few) \o last
    BY <1>2, <1>3
<1> QED BY <1>4 DEF more

LEMMA HomeLinesMore ==
    ASSUME NEW A, NEW q \in Seq(A), NEW x \in A
    PROVE  /\ HomeLines(q) \in Seq(A)
           /\ HomeLines(Append(q, x)) = HomeLines(q) \o (IF IsHome(x) THEN <<x>> ELSE <<>>)
<1> DEFINE p == Append(q, x)
           n == Len(q)
           last == IF IsHome(x) THEN <<x>> ELSE <<>>
           few == [i \in 1..n |-> IF IsHome(q[i]) THEN <<q[i]>> ELSE <<>>]
           more == OneMore(few, n, last)
<1>1. n \in Nat /\ DOMAIN q = 1..n /\ \A i \in 1..n : q[i] \in A
    BY SeqFacts
<1>2. p \in Seq(A) /\ Len(p) = n + 1 /\ p[n + 1] = x /\ \A i \in 1..n : p[i] = q[i]
    BY AppendFacts
<1>3. <<>> \in Seq(A) /\ \A z \in A : <<z>> \in Seq(A)
    BY EmptySeq, OneSeq
<1> HIDE DEF p, n
<1>4. few \in Seq(Seq(A)) /\ Len(few) = n /\ last \in Seq(A)
    <2>1. \A i \in 1..n : few[i] \in Seq(A)
        BY <1>1, <1>3
    <2> QED BY <1>1, <1>3, <2>1
<1>5. HomeLines(q) = FlattenSeq(few)
    BY <1>1 DEF HomeLines
<1>6. HomeLines(p) = FlattenSeq(more)
    <2>1. DOMAIN p = 1..n + 1
        BY <1>1, <1>2, SeqFacts
    <2>2. \A i \in 1..n + 1 : i # n + 1 => i \in 1..n
        BY <1>1
    <2>3. [i \in DOMAIN p |-> IF IsHome(p[i]) THEN <<p[i]>> ELSE <<>>] = more
        BY <1>2, <2>1, <2>2 DEF OneMore
    <2> HIDE DEF more
    <2> QED BY <2>3 DEF HomeLines
<1>7. FlattenSeq(more) = FlattenSeq(few) \o last
    <2> HIDE DEF few, last
    <2> QED BY <1>1, <1>4, FlattenOneMore
<1>8. FlattenSeq(few) \in Seq(A)
    BY <1>4, FlattenMembers
<1> QED BY <1>5, <1>6, <1>7, <1>8 DEF p

LEMMA OtherLinesMore ==
    ASSUME NEW A, NEW q \in Seq(A), NEW x \in A
    PROVE  /\ OtherLines(q) \in Seq(A)
           /\ OtherLines(Append(q, x)) = OtherLines(q) \o (IF IsHome(x) THEN <<>> ELSE <<x>>)
<1> DEFINE p == Append(q, x)
           n == Len(q)
           last == IF IsHome(x) THEN <<>> ELSE <<x>>
           few == [i \in 1..n |-> IF IsHome(q[i]) THEN <<>> ELSE <<q[i]>>]
           more == OneMore(few, n, last)
<1>1. n \in Nat /\ DOMAIN q = 1..n /\ \A i \in 1..n : q[i] \in A
    BY SeqFacts
<1>2. p \in Seq(A) /\ Len(p) = n + 1 /\ p[n + 1] = x /\ \A i \in 1..n : p[i] = q[i]
    BY AppendFacts
<1>3. <<>> \in Seq(A) /\ \A z \in A : <<z>> \in Seq(A)
    BY EmptySeq, OneSeq
<1> HIDE DEF p, n
<1>4. few \in Seq(Seq(A)) /\ Len(few) = n /\ last \in Seq(A)
    <2>1. \A i \in 1..n : few[i] \in Seq(A)
        BY <1>1, <1>3
    <2> QED BY <1>1, <1>3, <2>1
<1>5. OtherLines(q) = FlattenSeq(few)
    BY <1>1 DEF OtherLines
<1>6. OtherLines(p) = FlattenSeq(more)
    <2>1. DOMAIN p = 1..n + 1
        BY <1>1, <1>2, SeqFacts
    <2>2. \A i \in 1..n + 1 : i # n + 1 => i \in 1..n
        BY <1>1
    <2>3. [i \in DOMAIN p |-> IF IsHome(p[i]) THEN <<>> ELSE <<p[i]>>] = more
        BY <1>2, <2>1, <2>2 DEF OneMore
    <2> HIDE DEF more
    <2> QED BY <2>3 DEF OtherLines
<1>7. FlattenSeq(more) = FlattenSeq(few) \o last
    <2> HIDE DEF few, last
    <2> QED BY <1>1, <1>4, FlattenOneMore
<1>8. FlattenSeq(few) \in Seq(A)
    BY <1>4, FlattenMembers
<1> QED BY <1>5, <1>6, <1>7, <1>8 DEF p

LEMMA WrittenMore ==
    ASSUME NEW A, "home" \in A, NEW q \in Seq(A), NEW x \in A
    PROVE  /\ Written(q) \in Seq(A)
           /\ Written(Append(q, x)) =
                 Written(q) \o (IF ~IsHome(x) THEN <<x>> ELSE IF NoHome(q) THEN <<"home">> ELSE <<>>)
           /\ NoHome(Append(q, x)) <=> NoHome(q) /\ ~IsHome(x)
<1> DEFINE p == Append(q, x)
           n == Len(q)
           last == IF ~IsHome(x) THEN <<x>> ELSE IF NoHome(q) THEN <<"home">> ELSE <<>>
           few == [i \in 1..n |-> IF ~IsHome(q[i]) THEN <<q[i]>>
                                  ELSE IF \A k \in 1..i - 1 : ~IsHome(q[k]) THEN <<"home">> ELSE <<>>]
           more == OneMore(few, n, last)
<1>1. n \in Nat /\ DOMAIN q = 1..n /\ \A i \in 1..n : q[i] \in A
    BY SeqFacts
<1>2. p \in Seq(A) /\ Len(p) = n + 1 /\ p[n + 1] = x /\ \A i \in 1..n : p[i] = q[i]
    BY AppendFacts
<1>3. <<>> \in Seq(A) /\ \A z \in A : <<z>> \in Seq(A)
    BY EmptySeq, OneSeq
<1>9. NoHome(q) <=> \A i \in 1..n : ~IsHome(q[i])
    BY DEF NoHome
<1> HIDE DEF p, n
<1>4. few \in Seq(Seq(A)) /\ Len(few) = n /\ last \in Seq(A)
    <2>1. \A i \in 1..n : few[i] \in Seq(A)
        BY <1>1, <1>3
    <2> QED BY <1>1, <1>3, <2>1
<1>5. Written(q) = FlattenSeq(few)
    BY <1>1 DEF Written
<1>6. Written(p) = FlattenSeq(more)
    <2>1. DOMAIN p = 1..n + 1
        BY <1>1, <1>2, SeqFacts
    <2> DEFINE piece(i) == IF ~IsHome(p[i]) THEN <<p[i]>>
                           ELSE IF \A k \in 1..i - 1 : ~IsHome(p[k]) THEN <<"home">> ELSE <<>>
    <2>2. ASSUME NEW i \in 1..n + 1 PROVE piece(i) = more[i]
        <3>1. CASE i = n + 1
            <4>1. p[i] = x /\ i - 1 = n
                BY <1>1, <1>2, <3>1
            <4>2. (\A k \in 1..i - 1 : ~IsHome(p[k])) <=> NoHome(q)
                BY <1>2, <1>9, <4>1
            <4>3. more[i] = last
                BY <3>1 DEF OneMore
            <4> QED BY <4>1, <4>2, <4>3
        <3>2. CASE i # n + 1
            <4>1. i \in 1..n
                BY <1>1, <3>2
            <4>2. p[i] = q[i] /\ \A k \in 1..i - 1 : p[k] = q[k]
                <5>1. \A k \in 1..i - 1 : k \in 1..n
                    BY <1>1, <4>1
                <5> QED BY <1>2, <4>1, <5>1
            <4>3. more[i] = few[i]
                BY <3>2 DEF OneMore
            <4> QED BY <4>1, <4>2, <4>3
        <3> QED BY <3>1, <3>2
    <2>3. [i \in DOMAIN p |-> piece(i)] = more
        <3> DEFINE w == [i \in 1..n + 1 |-> piece(i)]
        <3>1. w = [i \in 1..n + 1 |-> more[i]]
            <4> HIDE DEF more, piece
            <4> QED BY <2>2
        <3>2. more = [i \in 1..n + 1 |-> more[i]]
            BY DEF OneMore
        <3> HIDE DEF more, piece
        <3> QED BY <2>1, <3>1, <3>2
    <2> HIDE DEF more
    <2> QED BY <2>3 DEF Written
<1>7. FlattenSeq(more) = FlattenSeq(few) \o last
    <2> HIDE DEF few, last
    <2> QED BY <1>1, <1>4, FlattenOneMore
<1>8. FlattenSeq(few) \in Seq(A)
    BY <1>4, FlattenMembers
<1>10. NoHome(p) <=> NoHome(q) /\ ~IsHome(x)
    <2>1. NoHome(p) <=> \A i \in 1..n + 1 : ~IsHome(p[i])
        BY <1>2 DEF NoHome
    <2>2. \A i \in 1..n + 1 : i \in 1..n \/ i = n + 1
        BY <1>1
    <2>3. n + 1 \in 1..n + 1 /\ \A i \in 1..n : i \in 1..n + 1
        BY <1>1
    <2> QED BY <1>2, <1>9, <2>1, <2>2, <2>3
<1> QED BY <1>5, <1>6, <1>7, <1>8, <1>10 DEF p

(* The file keeps its other lines and names the runtime once.               *)
RewriteClaim(p, A) ==
    /\ Written(p) \in Seq(A)
    /\ OtherLines(Written(p)) = OtherLines(p)
    /\ HomeLines(Written(p)) = IF NoHome(p) THEN <<>> ELSE <<"home">>

LEMMA EmptyLines ==
    HomeLines(<<>>) = <<>> /\ OtherLines(<<>>) = <<>> /\ Written(<<>>) = <<>> /\ NoHome(<<>>)
<1> DEFINE A == {}
           N == 0
<1>1. <<>> \in Seq(Seq(A)) /\ Len(<<>>) = 0 /\ DOMAIN <<>> = {} /\ 1..Len(<<>>) = {}
    OBVIOUS
<1>2. FlattenSeq(<<>>) = <<>>
    <2> DEFINE e == <<>>
    <2>0. e \in Seq(Seq(A)) /\ Len(e) = 0
        BY <1>1
    <2> HIDE DEF e
    <2>1. PICK g : FlattenRun(g, e, A) /\ FlattenSeq(e) = g[Len(e)]
        BY <2>0, FlattenRuns
    <2>2. FlattenSeq(e) = <<>>
        BY <2>0, <2>1 DEF FlattenRun
    <2> QED BY <2>2 DEF e
<1>3. HomeLines(<<>>) = <<>>
    <2> DEFINE h == [i \in DOMAIN <<>> |-> IF IsHome(<<>>[i]) THEN <<<<>>[i]>> ELSE <<>>]
    <2>1. h = <<>>
        BY <1>1
    <2>2. HomeLines(<<>>) = FlattenSeq(h)
        BY DEF HomeLines
    <2> HIDE DEF h
    <2> QED BY <1>2, <2>1, <2>2
<1>4. OtherLines(<<>>) = <<>>
    <2> DEFINE h == [i \in DOMAIN <<>> |-> IF IsHome(<<>>[i]) THEN <<>> ELSE <<<<>>[i]>>]
    <2>1. h = <<>>
        BY <1>1
    <2>2. OtherLines(<<>>) = FlattenSeq(h)
        BY DEF OtherLines
    <2> HIDE DEF h
    <2> QED BY <1>2, <2>1, <2>2
<1>5. Written(<<>>) = <<>>
    <2> DEFINE h == [i \in DOMAIN <<>> |-> IF ~IsHome(<<>>[i]) THEN <<<<>>[i]>>
                                           ELSE IF \A k \in 1..i - 1 : ~IsHome(<<>>[k]) THEN <<"home">> ELSE <<>>]
    <2>1. h = <<>>
        BY <1>1
    <2>2. Written(<<>>) = FlattenSeq(h)
        BY DEF Written
    <2> HIDE DEF h
    <2> QED BY <1>2, <2>1, <2>2
<1>6. NoHome(<<>>)
    BY <1>1 DEF NoHome
<1> QED BY <1>3, <1>4, <1>5, <1>6

LEMMA ConcatSmall ==
    ASSUME NEW A, NEW s \in Seq(A), NEW z \in A
    PROVE  s \o <<>> = s /\ s \o <<z>> = Append(s, z) /\ <<>> \o <<z>> = <<z>>
OBVIOUS

LEMMA RewriteMore ==
    ASSUME NEW A, "home" \in A, NEW q \in Seq(A), NEW x \in A, RewriteClaim(q, A)
    PROVE  RewriteClaim(Append(q, x), A)
<1> DEFINE p == Append(q, x)
           w == Written(q)
           last == IF ~IsHome(x) THEN <<x>> ELSE IF NoHome(q) THEN <<"home">> ELSE <<>>
<1>1. w \in Seq(A) /\ OtherLines(w) = OtherLines(q) /\ HomeLines(w) = (IF NoHome(q) THEN <<>> ELSE <<"home">>)
    BY DEF RewriteClaim
<1>2. Written(p) = w \o last /\ (NoHome(p) <=> NoHome(q) /\ ~IsHome(x))
    BY WrittenMore
<1>3. OtherLines(p) = OtherLines(q) \o (IF IsHome(x) THEN <<>> ELSE <<x>>) /\ OtherLines(q) \in Seq(A)
    BY OtherLinesMore
<1>4. IsHome("home")
    BY DEF IsHome
<1> HIDE DEF p, w
<1>5. CASE ~IsHome(x)
    <2>1. Written(p) = Append(w, x)
        <3>1. w \o <<x>> = Append(w, x)
            BY <1>1, ConcatSmall
        <3> QED BY <1>2, <1>5, <3>1
    <2>2. Append(w, x) \in Seq(A)
        BY <1>1, AppendFacts
    <2>3. OtherLines(Append(w, x)) = OtherLines(w) \o <<x>>
        <3>1. OtherLines(Append(w, x)) = OtherLines(w) \o (IF IsHome(x) THEN <<>> ELSE <<x>>)
            BY <1>1, OtherLinesMore
        <3> QED BY <1>5, <3>1
    <2>4. OtherLines(p) = OtherLines(q) \o <<x>>
        BY <1>3, <1>5
    <2>5. HomeLines(Append(w, x)) = HomeLines(w)
        <3>1. HomeLines(Append(w, x)) = HomeLines(w) \o (IF IsHome(x) THEN <<x>> ELSE <<>>) /\ HomeLines(w) \in Seq(A)
            BY <1>1, HomeLinesMore
        <3>2. HomeLines(w) \o <<>> = HomeLines(w)
            BY <3>1, ConcatSmall
        <3> QED BY <1>5, <3>1, <3>2
    <2>6. NoHome(p) <=> NoHome(q)
        BY <1>2, <1>5
    <2>7. RewriteClaim(p, A)
        BY <1>1, <2>1, <2>2, <2>3, <2>4, <2>5, <2>6 DEF RewriteClaim
    <2> QED BY <2>7 DEF p
<1>6. CASE IsHome(x)
    <2>1. OtherLines(p) = OtherLines(q)
        <3>1. OtherLines(q) \o <<>> = OtherLines(q)
            BY <1>3, ConcatSmall
        <3> QED BY <1>3, <1>6, <3>1
    <2>2. CASE NoHome(q)
        <3>1. Written(p) = Append(w, "home")
            <4>1. w \o <<"home">> = Append(w, "home")
                BY <1>1, ConcatSmall
            <4> QED BY <1>2, <1>6, <2>2, <4>1
        <3>2. Append(w, "home") \in Seq(A)
            BY <1>1, AppendFacts
        <3>3. OtherLines(Append(w, "home")) = OtherLines(w)
            <4>1. OtherLines(Append(w, "home")) = OtherLines(w) \o (IF IsHome("home") THEN <<>> ELSE <<"home">>)
                  /\ OtherLines(w) \in Seq(A)
                BY <1>1, OtherLinesMore
            <4>2. OtherLines(w) \o <<>> = OtherLines(w)
                BY <4>1, ConcatSmall
            <4> QED BY <1>4, <4>1, <4>2
        <3>4. HomeLines(Append(w, "home")) = <<"home">>
            <4>1. HomeLines(Append(w, "home")) = HomeLines(w) \o (IF IsHome("home") THEN <<"home">> ELSE <<>>)
                BY <1>1, HomeLinesMore
            <4>2. <<>> \o <<"home">> = <<"home">>
                BY <1>1, ConcatSmall
            <4> QED BY <1>1, <1>4, <2>2, <4>1, <4>2
        <3>5. ~NoHome(p)
            BY <1>2, <1>6
        <3>6. RewriteClaim(p, A)
            BY <1>1, <2>1, <3>1, <3>2, <3>3, <3>4, <3>5 DEF RewriteClaim
        <3> QED BY <3>6 DEF p
    <2>3. CASE ~NoHome(q)
        <3>1. Written(p) = w
            <4>1. w \o <<>> = w
                BY <1>1, ConcatSmall
            <4> QED BY <1>2, <1>6, <2>3, <4>1
        <3>2. ~NoHome(p)
            BY <1>2, <1>6
        <3>3. RewriteClaim(p, A)
            BY <1>1, <2>1, <2>3, <3>1, <3>2 DEF RewriteClaim
        <3> QED BY <3>3 DEF p
    <2> QED BY <2>2, <2>3
<1> QED BY <1>5, <1>6

LEMMA RewriteEnvFacts ==
    ASSUME NEW A, "home" \in A, NEW s \in Seq(A)
    PROVE  /\ RewriteEnv(s) \in Seq(A)
           /\ OtherLines(RewriteEnv(s)) = OtherLines(s) /\ HomeLines(RewriteEnv(s)) = <<"home">>
<1> DEFINE T == {n \in Nat : \A p \in Seq(A) : Len(p) = n => RewriteClaim(p, A)}
<1>1. 0 \in T
    <2> SUFFICES ASSUME NEW p \in Seq(A), Len(p) = 0 PROVE RewriteClaim(p, A)
        OBVIOUS
    <2>1. p = <<>> /\ <<>> \in Seq(A)
        OBVIOUS
    <2> QED BY <2>1, EmptyLines DEF RewriteClaim
<1>2. ASSUME NEW n \in Nat, n \in T PROVE n + 1 \in T
    <2> SUFFICES ASSUME NEW p \in Seq(A), Len(p) = n + 1 PROVE RewriteClaim(p, A)
        OBVIOUS
    <2>1. PICK q \in Seq(A) : \E x \in A : p = Append(q, x) /\ Len(q) = n
        BY FrontFacts
    <2>2. PICK x \in A : p = Append(q, x) /\ Len(q) = n
        BY <2>1
    <2>3. RewriteClaim(q, A)
        BY <1>2, <2>2
    <2>4. RewriteClaim(Append(q, x), A)
        BY <2>3, RewriteMore
    <2> QED BY <2>2, <2>4
<1>3. Nat \subseteq T
    <2> HIDE DEF T
    <2> QED BY <1>1, <1>2, NaturalsReached
<1>4. Len(s) \in Nat /\ DOMAIN s = 1..Len(s)
    BY SeqFacts
<1>5. RewriteClaim(s, A)
    BY <1>3, <1>4
<1> DEFINE w == Written(s)
<1>6. w \in Seq(A) /\ OtherLines(w) = OtherLines(s) /\ HomeLines(w) = (IF NoHome(s) THEN <<>> ELSE <<"home">>)
    BY <1>5 DEF RewriteClaim
<1>7. RewriteEnv(s) = IF NoHome(s) THEN Append(w, "home") ELSE w
    BY <1>4 DEF RewriteEnv, Written, NoHome
<1> HIDE DEF w
<1>8. CASE NoHome(s)
    <2>1. Append(w, "home") \in Seq(A)
        BY <1>6, AppendFacts
    <2>2. IsHome("home")
        BY DEF IsHome
    <2>3. OtherLines(Append(w, "home")) = OtherLines(w)
        <3>1. OtherLines(Append(w, "home")) = OtherLines(w) \o (IF IsHome("home") THEN <<>> ELSE <<"home">>)
              /\ OtherLines(w) \in Seq(A)
            BY <1>6, OtherLinesMore
        <3>2. OtherLines(w) \o <<>> = OtherLines(w)
            BY <3>1, ConcatSmall
        <3> QED BY <2>2, <3>1, <3>2
    <2>4. HomeLines(Append(w, "home")) = <<"home">>
        <3>1. HomeLines(Append(w, "home")) = HomeLines(w) \o (IF IsHome("home") THEN <<"home">> ELSE <<>>)
            BY <1>6, HomeLinesMore
        <3>2. <<>> \o <<"home">> = <<"home">>
            BY <1>6, ConcatSmall
        <3> QED BY <1>6, <1>8, <2>2, <3>1, <3>2
    <2> QED BY <1>6, <1>7, <1>8, <2>1, <2>3, <2>4
<1>9. CASE ~NoHome(s)
    BY <1>6, <1>7, <1>9
<1> QED BY <1>8, <1>9

-----------------------------------------------------------------------------
(* A run of the update: nodes before a border have been updated, none after *)
(* it is begun; a gateway is touched when all have their code.              *)
EnvLines == STRING \cup {"home"}
TreeRows == [main : Nat, own : Nat, dirty : BOOLEAN, on : {"main", "elsewhere", "none"}]
ScriptRows == [step : {"idle", "fetch", "check", "checkout", "merge", "ok", "failed"}, fetched : Nat]
UpdateRows ==
    [phase : RunPhases, at : Nat, reachable : Seq(UpdateNodes), skip : BOOLEAN, allowed : BOOLEAN, qwen : BOOLEAN,
     restart : BOOLEAN]
GatewayRows ==
    [runtime : {"missing", "no trim", "trim"}, linked : {"old", "missing", "no trim", "trim"}, env : Seq(EnvLines),
     restarted : BOOLEAN]
UpdateShape ==
    /\ origin \in [now : Nat, begun : Nat] /\ origin.begun <= origin.now
    /\ tree \in [UpdateNodes -> TreeRows] /\ remote \in [UpdateNodes -> ScriptRows]
    /\ left \in [UpdateNodes -> Nat \cup {NotLeft}]
    /\ update \in UpdateRows /\ update.at >= 1 /\ gateway \in [Gateways -> GatewayRows]
Fetched ==
    \A n \in UpdateNodes :
        /\ tree[n].main <= origin.now /\ remote[n].fetched <= origin.now
        /\ remote[n].step \in {"check", "checkout", "merge", "ok"} => origin.begun <= remote[n].fetched
        /\ remote[n].step = "ok" => origin.begun <= left[n] /\ left[n] <= origin.now /\ left[n] # NotLeft
        /\ remote[n].step # "ok" => left[n] = NotLeft
Visits == 1..Len(update.reachable)
Border(m) ==
    \A k \in Visits :
        /\ k < m => remote[update.reachable[k]].step = "ok"
        /\ m < k => remote[update.reachable[k]].step = "idle"
ProbedOnce ==
    /\ \A i, j \in Visits : update.reachable[i] = update.reachable[j] => i = j
    /\ update.phase = "probe" =>
          \A i \in Visits : \E j \in 1..Len(FleetOrder) : j < update.at /\ update.reachable[i] = FleetOrder[j]
    /\ update.phase \in {"self", "guard"} => update.reachable = <<>>
PhaseBorders ==
    /\ update.phase \in {"self", "guard", "probe", "refused"} => \A n \in UpdateNodes : remote[n].step = "idle"
    /\ update.phase = "update" => Border(update.at)
    /\ update.phase \in {"qwen", "done"} => Border(Len(update.reachable) + 1)
    /\ update.phase = "aborted" => \E m \in 0..Len(update.reachable) + 1 : Border(m)
GatewaysLast ==
    \A n \in Gateways :
        /\ gateway[n].linked # "old" =>
              update.phase \in {"qwen", "done", "aborted"} /\ \A i \in Visits : remote[update.reachable[i]].step = "ok"
        /\ gateway[n].restarted =>
              gateway[n].runtime = "trim" /\ gateway[n].linked = "trim" /\ HomeLines(gateway[n].env) = <<"home">>
        /\ \E o \in UpdateOptions : OtherLines(gateway[n].env) = OtherLines(o.env)
UpdateInv == UpdateShape /\ Fetched /\ ProbedOnce /\ PhaseBorders /\ GatewaysLast

-----------------------------------------------------------------------------
LEMMA UpdateInvProperties == UpdateInv => ZeroDrift /\ AbortLeavesRest /\ GatewayReady
<1> SUFFICES ASSUME UpdateInv PROVE ZeroDrift /\ AbortLeavesRest /\ GatewayReady
    OBVIOUS
<1>1. DOMAIN update.reachable = Visits /\ Len(update.reachable) \in Nat /\ \A i \in Visits : update.reachable[i] \in UpdateNodes
    <2> DEFINE r == update.reachable
               A == UpdateNodes
    <2>1. r \in Seq(A)
        BY DEF UpdateInv, UpdateShape, UpdateRows
    <2> HIDE DEF r, A
    <2>2. DOMAIN r = 1..Len(r) /\ Len(r) \in Nat /\ \A i \in 1..Len(r) : r[i] \in A
        BY <2>1, SeqFacts
    <2> QED BY <2>2 DEF r, A, Visits
<1>2. ASSUME NEW n \in UpdateNodes PROVE (remote[n].step = "ok") <=> (left[n] # NotLeft)
    BY DEF UpdateInv, Fetched
<1>3. ASSUME NEW n \in UpdateNodes, remote[n].step = "ok"
      PROVE  left[n] # NotLeft /\ left[n] >= origin.begun /\ (origin.now = origin.begun => left[n] = origin.now)
    <2>1. /\ origin.begun <= left[n] /\ left[n] <= origin.now /\ left[n] # NotLeft
          /\ origin.begun \in Nat /\ origin.now \in Nat /\ left[n] \in Nat \cup {NotLeft}
        BY <1>3 DEF UpdateInv, Fetched, UpdateShape
    <2>2. left[n] \in Nat
        BY <2>1
    <2> QED BY <2>1, <2>2
<1>4. ZeroDrift
    <2> SUFFICES ASSUME update.phase \in {"qwen", "done"}, NEW i \in Visits
                 PROVE  remote[update.reachable[i]].step = "ok"
        BY <1>1, <1>3 DEF ZeroDrift
    <2>1. Border(Len(update.reachable) + 1)
        BY DEF UpdateInv, PhaseBorders
    <2>2. i < Len(update.reachable) + 1
        BY <1>1 DEF Visits
    <2> QED BY <2>1, <2>2 DEF Border
<1>5. AbortLeavesRest
    <2>1. ASSUME update.phase \in {"self", "guard", "probe", "refused"}, NEW n \in UpdateNodes
          PROVE  remote[n].step = "idle" /\ left[n] = NotLeft
        BY <1>2, <2>1 DEF UpdateInv, PhaseBorders
    <2>2. ASSUME NEW i \in Visits, left[update.reachable[i]] # NotLeft, NEW k \in 1..i - 1
          PROVE  remote[update.reachable[k]].step = "ok"
        <3>1. remote[update.reachable[i]].step = "ok" /\ k \in Visits /\ k < i
            BY <1>1, <1>2, <2>2 DEF Visits
        <3>2. \E m \in Nat : Border(m)
            <4>1. update.phase \notin {"self", "guard", "probe", "refused"}
                BY <1>1, <2>1, <3>1
            <4>2. update.phase \in RunPhases /\ update.at \in Nat
                BY DEF UpdateInv, UpdateShape, UpdateRows
            <4>3. Len(update.reachable) + 1 \in Nat /\ \A m \in 0..Len(update.reachable) + 1 : m \in Nat
                BY <1>1
            <4> QED BY <4>1, <4>2, <4>3 DEF UpdateInv, PhaseBorders, RunPhases
        <3>3. PICK m \in Nat : Border(m)
            BY <3>2
        <3>4. ~(m < i)
            BY <3>1, <3>3 DEF Border
        <3>5. k < m
            BY <3>1, <3>3, <3>4 DEF Visits
        <3> QED BY <3>1, <3>3, <3>5 DEF Border
    <2> QED BY <1>1, <2>1, <2>2 DEF AbortLeavesRest, ScriptAt
<1>6. GatewayReady
    <2> SUFFICES ASSUME NEW n \in Gateways
                 PROVE  /\ gateway[n].linked # "old" => \A i \in Visits : left[update.reachable[i]] # NotLeft
                        /\ gateway[n].restarted => gateway[n].linked = "trim" /\ HomeLines(gateway[n].env) = <<"home">>
                        /\ \E o \in UpdateOptions : OtherLines(gateway[n].env) = OtherLines(o.env)
        BY <1>1 DEF GatewayReady
    <2> QED BY <1>1, <1>2 DEF UpdateInv, GatewaysLast
<1> QED BY <1>4, <1>5, <1>6

LEMMA UpdateInitInv == UpdateInit => UpdateInv
<1> SUFFICES ASSUME NEW trees \in [UpdateNodes -> Checkouts], NEW o \in UpdateOptions, UpdateStart(trees, o)
             PROVE  UpdateInv
    BY DEF UpdateInit
<1>1. /\ origin = [now |-> 1, begun |-> 1] /\ tree = trees
      /\ remote = [n \in UpdateNodes |-> [step |-> "idle", fetched |-> 0]]
      /\ left = [n \in UpdateNodes |-> NotLeft]
      /\ update = [phase |-> "self", at |-> 1, reachable |-> <<>>,
                   skip |-> o.skip, allowed |-> o.allowed, qwen |-> o.qwen, restart |-> o.restart]
      /\ gateway = [n \in Gateways |-> [runtime |-> o.runtime, linked |-> "old", env |-> o.env, restarted |-> FALSE]]
    BY DEF UpdateStart
<1>2. ASSUME NEW n \in UpdateNodes PROVE tree[n] \in TreeRows /\ tree[n].main <= 1
    <2>1. trees[n] \in [main : {0, 1}, own : Nat, dirty : BOOLEAN, on : {"main", "elsewhere", "none"}]
        BY FleetUpdateAssumption
    <2> QED BY <1>1, <2>1 DEF TreeRows
<1>3. /\ o.runtime \in {"missing", "no trim", "trim"} /\ o.skip \in BOOLEAN /\ o.allowed \in BOOLEAN
      /\ o.qwen \in BOOLEAN /\ o.restart \in BOOLEAN /\ o.env \in Seq(EnvLines)
    <2>1. o.env \in Seq(STRING)
        BY FleetUpdateAssumption
    <2> DEFINE A == STRING
    <2>2. A \subseteq EnvLines
        BY DEF EnvLines
    <2>3. o.env \in Seq(A)
        BY <2>1
    <2> HIDE DEF A
    <2>4. o.env \in Seq(EnvLines)
        BY <2>2, <2>3, SeqWider
    <2> QED BY <2>4, FleetUpdateAssumption
<1>4. UpdateShape
    <2>1. tree \in [UpdateNodes -> TreeRows]
        BY <1>1, <1>2
    <2>2. remote \in [UpdateNodes -> ScriptRows] /\ left \in [UpdateNodes -> Nat \cup {NotLeft}]
        BY <1>1 DEF ScriptRows
    <2>3. update \in UpdateRows /\ update.at >= 1
        <3> DEFINE e == <<>>
                   A == Seq(UpdateNodes)
        <3>1. e \in A
            BY EmptySeq
        <3>2. update = [phase |-> "self", at |-> 1, reachable |-> e,
                        skip |-> o.skip, allowed |-> o.allowed, qwen |-> o.qwen, restart |-> o.restart]
            BY <1>1
        <3>3. UpdateRows = [phase : RunPhases, at : Nat, reachable : A, skip : BOOLEAN, allowed : BOOLEAN, qwen : BOOLEAN,
                            restart : BOOLEAN]
            BY DEF UpdateRows
        <3>4. "self" \in RunPhases
            BY DEF RunPhases
        <3> HIDE DEF e, A
        <3>5. [phase |-> "self", at |-> 1, reachable |-> e, skip |-> o.skip, allowed |-> o.allowed, qwen |-> o.qwen,
               restart |-> o.restart]
              \in [phase : RunPhases, at : Nat, reachable : A, skip : BOOLEAN, allowed : BOOLEAN, qwen : BOOLEAN,
                   restart : BOOLEAN]
            BY <1>3, <3>1, <3>4
        <3>6. update.at = 1
            BY <1>1
        <3> QED BY <3>2, <3>3, <3>5, <3>6
    <2>4. gateway \in [Gateways -> GatewayRows]
        <3> DEFINE row == [runtime |-> o.runtime, linked |-> "old", env |-> o.env, restarted |-> FALSE]
        <3>1. row \in GatewayRows
            BY <1>3 DEF GatewayRows
        <3> HIDE DEF row
        <3>2. gateway = [n \in Gateways |-> row]
            BY <1>1 DEF row
        <3> QED BY <3>1, <3>2
    <2>5. origin \in [now : Nat, begun : Nat] /\ origin.begun <= origin.now
        BY <1>1
    <2> QED BY <2>1, <2>2, <2>3, <2>4, <2>5 DEF UpdateShape
<1>5. Fetched
    <2> SUFFICES ASSUME NEW n \in UpdateNodes
                 PROVE  tree[n].main <= 1 /\ remote[n].fetched <= 1 /\ remote[n].step = "idle" /\ left[n] = NotLeft
        BY <1>1 DEF Fetched
    <2> QED BY <1>1, <1>2
<1>6. ProbedOnce
    <2>1. Visits = {} /\ update.reachable = <<>> /\ update.phase = "self"
        BY <1>1, EmptySeq DEF Visits
    <2> QED BY <2>1 DEF ProbedOnce
<1>7. PhaseBorders
    BY <1>1 DEF PhaseBorders
<1>8. GatewaysLast
    <2> SUFFICES ASSUME NEW n \in Gateways
                 PROVE  gateway[n].linked = "old" /\ gateway[n].restarted = FALSE /\ gateway[n].env = o.env
        BY DEF GatewaysLast
    <2> QED BY <1>1
<1> QED BY <1>4, <1>5, <1>6, <1>7, <1>8 DEF UpdateInv

(* The nodes of a run, each once.                                           *)
LEMMA VisitFacts ==
    ASSUME UpdateInv
    PROVE  /\ Len(update.reachable) \in Nat /\ Visits = 1..Len(update.reachable)
           /\ \A i \in Visits : update.reachable[i] \in UpdateNodes
           /\ \A i, j \in Visits : update.reachable[i] = update.reachable[j] => i = j
           /\ update.at \in Nat /\ update.at >= 1
           /\ \A n : AtNode(n) => update.at \in Visits /\ update.reachable[update.at] = n
<1> DEFINE r == update.reachable
           A == UpdateNodes
<1>1. r \in Seq(A) /\ update.at \in Nat /\ update.at >= 1
    BY DEF UpdateInv, UpdateShape, UpdateRows
<1>2. \A i, j \in Visits : r[i] = r[j] => i = j
    BY DEF UpdateInv, ProbedOnce
<1>3. \A n : AtNode(n) => update.at <= Len(r) /\ r[update.at] = n
    BY DEF AtNode
<1>4. Visits = 1..Len(r)
    BY DEF Visits
<1> HIDE DEF r, A
<1>5. Len(r) \in Nat /\ \A i \in 1..Len(r) : r[i] \in A
    BY <1>1, SeqFacts
<1>6. \A n : AtNode(n) => update.at \in Visits /\ r[update.at] = n
    BY <1>1, <1>3, <1>4, <1>5
<1> QED BY <1>1, <1>2, <1>4, <1>5, <1>6 DEF r, A

(* A command of the script on a node.                                       *)
ScriptStep(n) ==
    /\ remote' \in [UpdateNodes -> ScriptRows] /\ left' \in [UpdateNodes -> Nat \cup {NotLeft}]
    /\ tree' \in [UpdateNodes -> TreeRows]
    /\ \A j \in UpdateNodes : (j # n => remote'[j] = remote[j] /\ left'[j] = left[j]) /\ tree'[j].main <= origin.now
    /\ remote'[n].step # "idle" /\ remote'[n].fetched <= origin.now
    /\ remote'[n].step \in {"check", "checkout", "merge", "ok"} => origin.begun <= remote'[n].fetched
    /\ remote'[n].step = "ok" => origin.begun <= left'[n] /\ left'[n] <= origin.now /\ left'[n] # NotLeft
    /\ remote'[n].step # "ok" => left'[n] = NotLeft
    /\ UNCHANGED <<origin, update, gateway>>
    /\ \/ remote[n].step \notin {"ok", "idle"}
       \/ update.phase = "update" /\ remote[n].step = "idle" /\ AtNode(n)

LEMMA ScriptMoves ==
    ASSUME UpdateInv, NEW n \in UpdateNodes, ScriptStep(n)
    PROVE  UpdateInv'
<1>1. UpdateShape'
    BY DEF UpdateInv, UpdateShape, ScriptStep
<1>2. Fetched'
    <2>1. origin' = origin
        BY DEF ScriptStep
    <2> SUFFICES ASSUME NEW j \in UpdateNodes
                 PROVE  /\ tree'[j].main <= origin.now /\ remote'[j].fetched <= origin.now
                        /\ remote'[j].step \in {"check", "checkout", "merge", "ok"} => origin.begun <= remote'[j].fetched
                        /\ remote'[j].step = "ok" => origin.begun <= left'[j] /\ left'[j] <= origin.now /\ left'[j] # NotLeft
                        /\ remote'[j].step # "ok" => left'[j] = NotLeft
        BY <2>1 DEF Fetched, UpdateNodes
    <2>2. CASE j = n
        BY <2>2 DEF ScriptStep
    <2>3. CASE j # n
        <3>1. remote'[j] = remote[j] /\ left'[j] = left[j] /\ tree'[j].main <= origin.now
            BY <2>3 DEF ScriptStep
        <3> QED BY <3>1 DEF UpdateInv, Fetched
    <2> QED BY <2>2, <2>3
<1>3. update' = update /\ gateway' = gateway
    BY DEF ScriptStep
<1>4. ProbedOnce'
    BY <1>3 DEF UpdateInv, ProbedOnce, Visits
<1>5. ASSUME NEW i \in Visits, remote[update.reachable[i]].step = "ok" PROVE remote'[update.reachable[i]].step = "ok"
    <2>1. update.reachable[i] \in UpdateNodes /\ update.reachable[i] # n
        BY <1>5, VisitFacts DEF ScriptStep
    <2> QED BY <1>5, <2>1 DEF ScriptStep
<1>6. ASSUME NEW i \in Visits, remote[update.reachable[i]].step = "idle",
             ~(update.phase = "update" /\ i = update.at)
      PROVE  remote'[update.reachable[i]].step = "idle"
    <2>1. update.reachable[i] \in UpdateNodes
        BY VisitFacts
    <2>2. update.reachable[i] # n
        <3>1. CASE remote[n].step \notin {"ok", "idle"}
            BY <1>6, <3>1
        <3>2. CASE update.phase = "update" /\ AtNode(n)
            BY <1>6, <3>2, VisitFacts
        <3> QED BY <3>1, <3>2 DEF ScriptStep
    <2> QED BY <1>6, <2>1, <2>2 DEF ScriptStep
<1>7. PhaseBorders'
    <2>1. Visits' = Visits
        BY <1>3 DEF Visits
    <2>2. update.phase \notin {"self", "guard", "probe", "refused"}
        <3>1. remote[n].step # "idle" \/ update.phase = "update"
            BY DEF ScriptStep
        <3> QED BY <3>1 DEF UpdateInv, PhaseBorders
    <2>3. ASSUME NEW m \in Nat, update.phase # "update" \/ m = update.at, Border(m) PROVE Border(m)'
        <3> SUFFICES ASSUME NEW k \in Visits
                     PROVE  /\ k < m => remote'[update.reachable[k]].step = "ok"
                            /\ m < k => remote'[update.reachable[k]].step = "idle"
            BY <1>3, <2>1 DEF Border
        <3>1. /\ k < m => remote[update.reachable[k]].step = "ok"
              /\ m < k => remote[update.reachable[k]].step = "idle"
            BY <2>3 DEF Border
        <3>2. ASSUME m < k PROVE ~(update.phase = "update" /\ k = update.at)
            <4> SUFFICES ASSUME update.phase = "update", k = update.at PROVE FALSE
                OBVIOUS
            <4>1. m = k
                BY <2>3
            <4> QED BY <3>2, <4>1
        <3>3. k < m => remote'[update.reachable[k]].step = "ok"
            BY <1>5, <3>1
        <3>4. m < k => remote'[update.reachable[k]].step = "idle"
            BY <1>6, <3>1, <3>2
        <3> QED BY <3>3, <3>4
    <2>4. ASSUME update.phase = "update" PROVE Border(update.at)'
        <3>1. PICK m \in Nat : m = update.at
            BY VisitFacts
        <3>2. Border(m)
            BY <2>4, <3>1 DEF UpdateInv, PhaseBorders
        <3>3. Border(m)'
            BY <2>3, <3>1, <3>2
        <3> QED BY <1>3, <3>1, <3>3 DEF Border, Visits
    <2>5. ASSUME update.phase \in {"qwen", "done"} PROVE Border(Len(update.reachable) + 1)'
        <3>1. PICK m \in Nat : m = Len(update.reachable) + 1
            BY VisitFacts
        <3>2. Border(m)
            BY <2>5, <3>1 DEF UpdateInv, PhaseBorders
        <3>3. Border(m)'
            BY <2>3, <2>5, <3>1, <3>2
        <3> QED BY <1>3, <3>1, <3>3 DEF Border, Visits
    <2>6. ASSUME update.phase = "aborted" PROVE \E m \in 0..Len(update.reachable) + 1 : Border(m)'
        <3>1. PICK m \in 0..Len(update.reachable) + 1 : Border(m)
            BY <2>6 DEF UpdateInv, PhaseBorders
        <3>2. m \in Nat
            BY VisitFacts
        <3>3. Border(m)'
            BY <2>3, <2>6, <3>1, <3>2
        <3> QED BY <3>3
    <2> QED BY <1>3, <2>2, <2>4, <2>5, <2>6 DEF PhaseBorders, Border, Visits
<1>8. GatewaysLast'
    <2> SUFFICES ASSUME NEW g \in Gateways
                 PROVE  /\ gateway[g].linked # "old" =>
                              /\ update.phase \in {"qwen", "done", "aborted"}
                              /\ \A i \in Visits : remote'[update.reachable[i]].step = "ok"
                        /\ gateway[g].restarted =>
                              gateway[g].runtime = "trim" /\ gateway[g].linked = "trim" /\ HomeLines(gateway[g].env) = <<"home">>
                        /\ \E o \in UpdateOptions : OtherLines(gateway[g].env) = OtherLines(o.env)
        BY <1>3 DEF GatewaysLast, Visits
    <2> QED BY <1>5 DEF UpdateInv, GatewaysLast
<1> QED BY <1>1, <1>2, <1>4, <1>7, <1>8 DEF UpdateInv

LEMMA ScriptRow ==
    ASSUME NEW n \in UpdateNodes, NEW step, step \in {"idle", "fetch", "check", "checkout", "merge", "ok", "failed"},
           remote \in [UpdateNodes -> ScriptRows], ScriptGoes(n, step)
    PROVE  /\ remote' \in [UpdateNodes -> ScriptRows] /\ \A j \in UpdateNodes : j # n => remote'[j] = remote[j]
           /\ remote'[n].step = step /\ remote'[n].fetched = remote[n].fetched
<1>1. remote' = [remote EXCEPT ![n].step = step]
    BY DEF ScriptGoes
<1>2. remote[n] \in ScriptRows
    OBVIOUS
<1> DEFINE row == [remote[n] EXCEPT !.step = step]
<1>3. row \in ScriptRows /\ row.step = step /\ row.fetched = remote[n].fetched
    BY <1>2 DEF ScriptRows
<1>4. remote' = [remote EXCEPT ![n] = row]
    BY <1>1
<1> HIDE DEF row
<1> QED BY <1>3, <1>4

(* Commands that leave checkout and commits alone.                          *)
LEMMA ScriptGoesOn ==
    ASSUME UpdateInv, NEW n \in UpdateNodes, NEW step, step \in {"fetch", "check", "checkout", "merge", "failed"},
           ScriptGoes(n, step), UNCHANGED <<origin, left, update, gateway>>,
           tree' \in [UpdateNodes -> TreeRows], \A j \in UpdateNodes : tree'[j].main = tree[j].main,
           step \in {"check", "checkout", "merge"} => remote[n].step \in {"check", "checkout", "merge"},
           \/ remote[n].step \notin {"ok", "idle"}
           \/ update.phase = "update" /\ remote[n].step = "idle" /\ AtNode(n)
    PROVE  UpdateInv'
<1>1. /\ remote \in [UpdateNodes -> ScriptRows] /\ left \in [UpdateNodes -> Nat \cup {NotLeft}] /\ Fetched
    BY DEF UpdateInv, UpdateShape
<1>2. /\ remote' \in [UpdateNodes -> ScriptRows] /\ \A j \in UpdateNodes : j # n => remote'[j] = remote[j]
      /\ remote'[n].step = step /\ remote'[n].fetched = remote[n].fetched
    BY <1>1, ScriptRow
<1>3. remote[n].fetched <= origin.now /\ left[n] = NotLeft
      /\ (step \in {"check", "checkout", "merge"} => origin.begun <= remote[n].fetched)
    BY <1>1 DEF Fetched
<1>4. ASSUME NEW j \in UpdateNodes PROVE tree'[j].main <= origin.now
    BY <1>1 DEF Fetched
<1>5. ScriptStep(n)
    BY <1>1, <1>2, <1>3, <1>4 DEF ScriptStep
<1> QED BY <1>5, ScriptMoves

LEMMA ScriptSteps ==
    ASSUME UpdateInv, NEW n \in UpdateNodes,
           VisitNode(n) \/ FetchMain(n) \/ CheckClean(n) \/ CheckoutMain(n) \/ FastForward(n)
    PROVE  UpdateInv'
<1>0. /\ tree \in [UpdateNodes -> TreeRows] /\ remote \in [UpdateNodes -> ScriptRows]
      /\ left \in [UpdateNodes -> Nat \cup {NotLeft}] /\ Fetched
      /\ origin.now \in Nat /\ origin.begun \in Nat /\ origin.begun <= origin.now
      /\ remote[n] \in ScriptRows /\ tree[n] \in TreeRows
    BY DEF UpdateInv, UpdateShape
<1>1. CASE VisitNode(n)
    <2> DEFINE step == IF tree[n].on = "none" THEN "failed" ELSE "fetch"
    <2>1. /\ ScriptGoes(n, step) /\ UNCHANGED <<origin, left, update, gateway, tree>>
          /\ update.phase = "update" /\ remote[n].step = "idle" /\ AtNode(n)
        BY <1>1 DEF VisitNode, InPhase, ScriptAt
    <2>2. step \in {"fetch", "check", "checkout", "merge", "failed"} /\ step \notin {"check", "checkout", "merge"}
        OBVIOUS
    <2> HIDE DEF step
    <2> QED BY <1>0, <2>1, <2>2, ScriptGoesOn
<1>2. CASE FetchMain(n)
    <2>1. /\ UNCHANGED <<origin, left, update, gateway, tree>> /\ remote[n].step = "fetch"
          /\ \/ remote' = [remote EXCEPT ![n] = [step |-> "check", fetched |-> origin.now]]
             \/ ScriptGoes(n, "failed")
        BY <1>2 DEF FetchMain, ScriptAt
    <2>2. CASE ScriptGoes(n, "failed")
        BY <1>0, <2>1, <2>2, ScriptGoesOn
    <2>3. CASE remote' = [remote EXCEPT ![n] = [step |-> "check", fetched |-> origin.now]]
        <3> DEFINE row == [step |-> "check", fetched |-> origin.now]
        <3>1. row \in ScriptRows /\ row.step = "check" /\ row.fetched = origin.now
            BY <1>0 DEF ScriptRows
        <3>2. remote' = [remote EXCEPT ![n] = row]
            BY <2>3
        <3> HIDE DEF row
        <3>3. /\ remote' \in [UpdateNodes -> ScriptRows] /\ \A j \in UpdateNodes : j # n => remote'[j] = remote[j]
              /\ remote'[n].step = "check" /\ remote'[n].fetched = origin.now
            BY <1>0, <3>1, <3>2
        <3>4. left[n] = NotLeft /\ \A j \in UpdateNodes : tree'[j].main <= origin.now
            BY <1>0, <2>1 DEF Fetched
        <3>5. origin.now <= origin.now
            BY <1>0
        <3>6. ScriptStep(n)
            BY <1>0, <2>1, <3>3, <3>4, <3>5 DEF ScriptStep
        <3> QED BY <3>6, ScriptMoves
    <2> QED BY <2>1, <2>2, <2>3
<1>3. CASE CheckClean(n)
    <2> DEFINE step == IF tree[n].dirty THEN "failed" ELSE "checkout"
    <2>1. ScriptGoes(n, step) /\ UNCHANGED <<origin, left, update, gateway, tree>> /\ remote[n].step = "check"
        BY <1>3 DEF CheckClean, ScriptAt
    <2>2. step \in {"fetch", "check", "checkout", "merge", "failed"}
        OBVIOUS
    <2> HIDE DEF step
    <2> QED BY <1>0, <2>1, <2>2, ScriptGoesOn
<1>4. CASE CheckoutMain(n)
    <2>1. /\ UNCHANGED <<origin, left, update, gateway>> /\ remote[n].step = "checkout"
          /\ \/ tree' = [tree EXCEPT ![n].on = "main"] /\ ScriptGoes(n, "merge")
             \/ tree' = tree /\ ScriptGoes(n, "failed")
        BY <1>4 DEF CheckoutMain, ScriptAt
    <2>2. CASE tree' = tree /\ ScriptGoes(n, "failed")
        BY <1>0, <2>1, <2>2, ScriptGoesOn
    <2>3. CASE tree' = [tree EXCEPT ![n].on = "main"] /\ ScriptGoes(n, "merge")
        <3> DEFINE row == [tree[n] EXCEPT !.on = "main"]
        <3>1. row \in TreeRows /\ row.main = tree[n].main
            BY <1>0 DEF TreeRows
        <3>2. tree' = [tree EXCEPT ![n] = row]
            BY <2>3
        <3> HIDE DEF row
        <3>3. tree' \in [UpdateNodes -> TreeRows] /\ \A j \in UpdateNodes : tree'[j].main = tree[j].main
            BY <1>0, <3>1, <3>2
        <3> QED BY <2>1, <2>3, <3>3, ScriptGoesOn
    <2> QED BY <2>1, <2>2, <2>3
<1>5. CASE FastForward(n)
    <2> DEFINE behind == tree[n].main < remote[n].fetched
               k == IF behind THEN remote[n].fetched ELSE tree[n].main
    <2>1. /\ UNCHANGED <<origin, update, gateway>> /\ remote[n].step = "merge"
          /\ \/ ScriptGoes(n, "failed") /\ tree' = tree /\ left' = left
             \/ ScriptGoes(n, "ok") /\ tree' = [tree EXCEPT ![n].main = k] /\ left' = [left EXCEPT ![n] = k]
        BY <1>5 DEF FastForward, ScriptAt
    <2>2. CASE ScriptGoes(n, "failed") /\ tree' = tree /\ left' = left
        BY <1>0, <2>1, <2>2, ScriptGoesOn
    <2>3. CASE ScriptGoes(n, "ok") /\ tree' = [tree EXCEPT ![n].main = k] /\ left' = [left EXCEPT ![n] = k]
        <3>1. /\ tree[n].main \in Nat /\ remote[n].fetched \in Nat
              /\ tree[n].main <= origin.now /\ remote[n].fetched <= origin.now /\ origin.begun <= remote[n].fetched
            BY <1>0, <2>1 DEF Fetched, TreeRows, ScriptRows
        <3>2. k \in Nat /\ k <= origin.now /\ origin.begun <= k
            BY <1>0, <3>1
        <3> DEFINE row == [tree[n] EXCEPT !.main = k]
        <3>3. tree' = [tree EXCEPT ![n] = row] /\ left' = [left EXCEPT ![n] = k]
            BY <2>3
        <3> HIDE DEF k
        <3>4. row \in TreeRows /\ row.main = k
            BY <1>0, <3>2 DEF TreeRows
        <3> HIDE DEF row
        <3>5. /\ tree' \in [UpdateNodes -> TreeRows] /\ left' \in [UpdateNodes -> Nat \cup {NotLeft}]
              /\ left'[n] = k /\ tree'[n].main = k
              /\ \A j \in UpdateNodes : j # n => left'[j] = left[j] /\ tree'[j] = tree[j]
            BY <1>0, <3>2, <3>3, <3>4
        <3>6. \A j \in UpdateNodes : tree'[j].main <= origin.now
            BY <1>0, <3>2, <3>5 DEF Fetched
        <3>7. /\ remote' \in [UpdateNodes -> ScriptRows] /\ \A j \in UpdateNodes : j # n => remote'[j] = remote[j]
              /\ remote'[n].step = "ok" /\ remote'[n].fetched = remote[n].fetched
            BY <1>0, <2>3, ScriptRow
        <3>8. k # NotLeft
            BY <3>2 DEF NotLeft
        <3>9. ScriptStep(n)
            BY <2>1, <3>1, <3>2, <3>5, <3>6, <3>7, <3>8 DEF ScriptStep
        <3> QED BY <3>9, ScriptMoves
    <2> QED BY <2>1, <2>2, <2>3
<1> QED BY <1>1, <1>2, <1>3, <1>4, <1>5

(* Steps of the run itself.                                                 *)
LEMMA RunMoves ==
    ASSUME UpdateInv, update' \in UpdateRows, update'.at >= 1, UNCHANGED <<origin, tree, remote, left>>,
           ProbedOnce', PhaseBorders', GatewaysLast', gateway' \in [Gateways -> GatewayRows]
    PROVE  UpdateInv'
<1>1. UpdateShape'
    BY DEF UpdateInv, UpdateShape
<1>2. Fetched'
    BY DEF UpdateInv, Fetched, UpdateNodes
<1> QED BY <1>1, <1>2 DEF UpdateInv

LEMMA GatewaysStay ==
    ASSUME UpdateInv, UNCHANGED <<remote, gateway>>, update'.reachable = update.reachable \/ update.phase \notin {"qwen", "done", "aborted"},
           update.phase \in {"qwen", "done", "aborted"} => update'.phase \in {"qwen", "done", "aborted"}
    PROVE  GatewaysLast' /\ gateway' \in [Gateways -> GatewayRows]
<1>1. gateway' \in [Gateways -> GatewayRows]
    BY DEF UpdateInv, UpdateShape
<1>2. ASSUME NEW n \in Gateways
      PROVE  /\ gateway'[n].linked # "old" =>
                    update'.phase \in {"qwen", "done", "aborted"} /\ \A i \in Visits' : remote'[update'.reachable[i]].step = "ok"
             /\ gateway'[n].restarted =>
                   gateway'[n].runtime = "trim" /\ gateway'[n].linked = "trim" /\ HomeLines(gateway'[n].env) = <<"home">>
             /\ \E o \in UpdateOptions : OtherLines(gateway'[n].env) = OtherLines(o.env)
    <2>1. GatewaysLast
        BY DEF UpdateInv
    <2>2. CASE update'.reachable = update.reachable
        <3>1. Visits' = Visits
            BY <2>2 DEF Visits
        <3> QED BY <2>1, <2>2, <3>1 DEF GatewaysLast
    <2>3. CASE update.phase \notin {"qwen", "done", "aborted"}
        BY <2>1, <2>3 DEF GatewaysLast
    <2> QED BY <2>2, <2>3
<1> QED BY <1>1, <1>2 DEF GatewaysLast

LEMMA PhaseFields ==
    ASSUME UpdateInv, NEW p \in RunPhases, GoesOn(p)
    PROVE  /\ update' \in UpdateRows /\ update'.at = 1 /\ update'.at >= 1 /\ update'.phase = p
           /\ update'.reachable = update.reachable /\ Visits' = Visits
<1>1. update \in UpdateRows /\ update' = [update EXCEPT !.phase = p, !.at = 1]
    BY DEF UpdateInv, UpdateShape, GoesOn
<1>2. update' \in UpdateRows /\ update'.at = 1 /\ update'.phase = p /\ update'.reachable = update.reachable
    BY <1>1 DEF UpdateRows
<1>3. 1 >= 1
    OBVIOUS
<1> QED BY <1>2, <1>3 DEF Visits

(* A phase that leaves nodes and gateways alone.                            *)
LEMMA PhaseMoves ==
    ASSUME UpdateInv, NEW p \in RunPhases, GoesOn(p), UNCHANGED <<origin, tree, remote, left, gateway>>,
           update.phase \in {"qwen", "done", "aborted"} => p \in {"qwen", "done", "aborted"},
           p = "probe" => update.phase = "guard", p = "guard" => update.phase = "self", p # "self",
           p = "refused" => update.phase \in {"self", "guard", "probe"},
           p = "update" => update.phase = "probe",
           p \in {"qwen", "done"} => Border(Len(update.reachable) + 1),
           p = "aborted" => \E m \in 0..Len(update.reachable) + 1 : Border(m)
    PROVE  UpdateInv'
<1>1. /\ update' \in UpdateRows /\ update'.at = 1 /\ update'.at >= 1 /\ update'.phase = p
      /\ update'.reachable = update.reachable /\ Visits' = Visits
    BY PhaseFields
<1>2. GatewaysLast' /\ gateway' \in [Gateways -> GatewayRows]
    BY <1>1, GatewaysStay
<1>3. ProbedOnce'
    <2>1. \A i, j \in Visits : update.reachable[i] = update.reachable[j] => i = j
        BY VisitFacts
    <2>2. update.phase \in {"self", "guard"} => update.reachable = <<>> /\ Visits = {}
        BY EmptySeq DEF UpdateInv, ProbedOnce, Visits
    <2> QED BY <1>1, <2>1, <2>2 DEF ProbedOnce
<1>4. ASSUME NEW m PROVE Border(m)' <=> Border(m)
    BY <1>1 DEF Border
<1>5. PhaseBorders'
    <2>1. ASSUME p \in {"guard", "probe", "refused", "update"}, NEW n \in UpdateNodes PROVE remote[n].step = "idle"
        BY <2>1 DEF UpdateInv, PhaseBorders
    <2>2. ASSUME p = "update" PROVE Border(1)
        BY <2>1, <2>2, VisitFacts DEF Border, Visits
    <2>3. p \in {"guard", "probe", "refused"} => \A n \in UpdateNodes : remote'[n].step = "idle"
        BY <2>1
    <2>4. p = "update" => Border(update.at)'
        BY <1>1, <2>2 DEF Border
    <2>5. p \in {"qwen", "done"} => Border(Len(update.reachable) + 1)'
        BY <1>1 DEF Border
    <2>6. p = "aborted" => \E m \in 0..Len(update.reachable) + 1 : Border(m)'
        BY <1>4
    <2> QED BY <1>1, <2>3, <2>4, <2>5, <2>6 DEF PhaseBorders, UpdateNodes
<1> QED BY <1>1, <1>2, <1>3, <1>5, RunMoves

LEMMA PhaseSteps ==
    ASSUME UpdateInv,
           \/ SelfUpdate \/ GuardAgainstWork \/ ProbedAll \/ UpdatedAll \/ ConfiguredAll
           \/ \E n \in UpdateNodes : NodeRefused(n) \/ SshBreaks(n)
    PROVE  UpdateInv'
<1>0. update.phase \in RunPhases
    BY DEF UpdateInv, UpdateShape, UpdateRows
<1>1. CASE SelfUpdate
    <2>1. update.phase = "self" /\ (GoesOn("guard") \/ GoesOn("refused")) /\ UNCHANGED <<origin, tree, remote, left, gateway>>
        BY <1>1 DEF SelfUpdate, InPhase
    <2>2. CASE GoesOn("guard")
        BY <2>1, <2>2, PhaseMoves DEF RunPhases
    <2>3. CASE GoesOn("refused")
        BY <2>1, <2>3, PhaseMoves DEF RunPhases
    <2> QED BY <2>1, <2>2, <2>3
<1>2. CASE GuardAgainstWork
    <2>1. update.phase = "guard" /\ (GoesOn("probe") \/ GoesOn("refused")) /\ UNCHANGED <<origin, tree, remote, left, gateway>>
        BY <1>2 DEF GuardAgainstWork, InPhase
    <2>2. CASE GoesOn("probe")
        BY <2>1, <2>2, PhaseMoves DEF RunPhases
    <2>3. CASE GoesOn("refused")
        BY <2>1, <2>3, PhaseMoves DEF RunPhases
    <2> QED BY <2>1, <2>2, <2>3
<1>3. CASE ProbedAll
    <2>1. update.phase = "probe" /\ (GoesOn("update") \/ GoesOn("refused")) /\ UNCHANGED <<origin, tree, remote, left, gateway>>
        BY <1>3 DEF ProbedAll, InPhase
    <2>2. CASE GoesOn("update")
        BY <2>1, <2>2, PhaseMoves DEF RunPhases
    <2>3. CASE GoesOn("refused")
        BY <2>1, <2>3, PhaseMoves DEF RunPhases
    <2> QED BY <2>1, <2>2, <2>3
<1>4. CASE UpdatedAll
    <2>1. /\ update.phase = "update" /\ update.at > Len(update.reachable) /\ UNCHANGED <<origin, tree, remote, left, gateway>>
          /\ GoesOn("qwen") \/ GoesOn("done")
        BY <1>4 DEF UpdatedAll, InPhase
    <2>2. Border(Len(update.reachable) + 1)
        <3>1. Border(update.at)
            BY <2>1 DEF UpdateInv, PhaseBorders
        <3> QED BY <2>1, <3>1, VisitFacts DEF Border
    <2>3. CASE GoesOn("qwen")
        BY <2>1, <2>2, <2>3, PhaseMoves DEF RunPhases
    <2>4. CASE GoesOn("done")
        BY <2>1, <2>2, <2>4, PhaseMoves DEF RunPhases
    <2> QED BY <2>1, <2>3, <2>4
<1>5. CASE ConfiguredAll
    <2>1. update.phase = "qwen" /\ GoesOn("done") /\ UNCHANGED <<origin, tree, remote, left, gateway>>
        BY <1>5 DEF ConfiguredAll, InPhase
    <2>2. Border(Len(update.reachable) + 1)
        BY <2>1 DEF UpdateInv, PhaseBorders
    <2> QED BY <2>1, <2>2, PhaseMoves DEF RunPhases
<1>6. ASSUME NEW n \in UpdateNodes, NodeRefused(n) \/ SshBreaks(n) PROVE UpdateInv'
    <2>1. update.phase = "update" /\ AtNode(n) /\ GoesOn("aborted") /\ UNCHANGED <<origin, tree, remote, left, gateway>>
        BY <1>6 DEF NodeRefused, SshBreaks, InPhase
    <2>2. update.at \in 0..Len(update.reachable) + 1 /\ Border(update.at)
        <3>1. update.at \in 1..Len(update.reachable) /\ Len(update.reachable) \in Nat
            BY <2>1, VisitFacts
        <3> QED BY <2>1, <3>1 DEF UpdateInv, PhaseBorders
    <2> QED BY <2>1, <2>2, PhaseMoves DEF RunPhases
<1> QED BY <1>1, <1>2, <1>3, <1>4, <1>5, <1>6

LEMMA NextFields ==
    ASSUME UpdateInv, NextNode
    PROVE  /\ update' \in UpdateRows /\ update'.at = update.at + 1 /\ update'.at >= 1 /\ update'.phase = update.phase
           /\ update'.reachable = update.reachable /\ Visits' = Visits
<1>1. update \in UpdateRows /\ update' = [update EXCEPT !.at = update.at + 1] /\ update.at >= 1
    BY DEF UpdateInv, UpdateShape, NextNode
<1>2. update.at + 1 \in Nat /\ update.at + 1 >= 1
    BY <1>1 DEF UpdateRows
<1>3. update' \in UpdateRows /\ update'.at = update.at + 1 /\ update'.phase = update.phase /\ update'.reachable = update.reachable
    BY <1>1, <1>2 DEF UpdateRows
<1> QED BY <1>2, <1>3 DEF Visits

LEMMA ProbeOrder ==
    ASSUME UpdateInv
    PROVE  /\ Len(FleetOrder) \in Nat
           /\ \A i, j \in 1..Len(FleetOrder) : FleetOrder[i] = FleetOrder[j] => i = j
           /\ \A i \in 1..Len(FleetOrder) : FleetOrder[i] \in UpdateNodes
<1> DEFINE A == STRING
           s == FleetOrder
<1>1. s \in Seq(A) /\ \A i, j \in DOMAIN s : s[i] = s[j] => i = j
    BY FleetUpdateAssumption DEF IsInjective
<1>2. UpdateNodes = {s[i] : i \in DOMAIN s}
    BY DEF UpdateNodes, ToSet
<1> HIDE DEF A, s
<1>3. DOMAIN s = 1..Len(s) /\ Len(s) \in Nat
    BY <1>1, SeqFacts
<1>4. /\ Len(s) \in Nat /\ \A i, j \in 1..Len(s) : s[i] = s[j] => i = j
      /\ \A i \in 1..Len(s) : s[i] \in UpdateNodes
    BY <1>1, <1>2, <1>3
<1> QED BY <1>4 DEF s

(* Going to the next node.                                                  *)
LEMMA NextMoves ==
    ASSUME UpdateInv, NextNode, UNCHANGED <<origin, tree, remote, left>>, update.phase \in {"update", "qwen", "probe"},
           update.phase = "update" => update.at \in Visits /\ remote[update.reachable[update.at]].step = "ok",
           GatewaysLast', gateway' \in [Gateways -> GatewayRows]
    PROVE  UpdateInv'
<1>1. /\ update' \in UpdateRows /\ update'.at = update.at + 1 /\ update'.at >= 1 /\ update'.phase = update.phase
      /\ update'.reachable = update.reachable /\ Visits' = Visits
    BY NextFields
<1>2. update.at \in Nat /\ update.at < update.at + 1
    BY VisitFacts
<1>3. ProbedOnce'
    <2>1. \A i, j \in Visits : update.reachable[i] = update.reachable[j] => i = j
        BY VisitFacts
    <2>2. ASSUME update.phase = "probe", NEW i \in Visits
          PROVE  \E j \in 1..Len(FleetOrder) : j < update.at + 1 /\ update.reachable[i] = FleetOrder[j]
        <3>1. PICK j \in 1..Len(FleetOrder) : j < update.at /\ update.reachable[i] = FleetOrder[j]
            BY <2>2 DEF UpdateInv, ProbedOnce
        <3>2. j \in Nat
            BY ProbeOrder
        <3>3. j < update.at + 1
            BY <1>2, <3>1, <3>2
        <3> QED BY <3>1, <3>3
    <2> QED BY <1>1, <2>1, <2>2 DEF ProbedOnce
<1>4. PhaseBorders'
    <2>1. ASSUME update.phase = "probe", NEW n \in UpdateNodes PROVE remote[n].step = "idle"
        BY <2>1 DEF UpdateInv, PhaseBorders
    <2>2. ASSUME update.phase = "update" PROVE Border(update.at)'
        <3>1. PICK m \in Nat : m = update.at
            BY <1>2
        <3>2. Border(m)
            BY <2>2, <3>1 DEF UpdateInv, PhaseBorders
        <3>3. update'.at = m + 1
            BY <1>1, <3>1
        <3>4. ASSUME NEW k \in Visits
              PROVE  /\ k < m + 1 => remote[update.reachable[k]].step = "ok"
                     /\ m + 1 < k => remote[update.reachable[k]].step = "idle"
            <4>1. k \in Nat
                BY VisitFacts
            <4>2. k < m + 1 => k < m \/ k = m
                BY <4>1
            <4>3. m + 1 < k => m < k
                BY <4>1
            <4> HIDE DEF Visits
            <4>4. k < m + 1 => remote[update.reachable[k]].step = "ok"
                BY <2>2, <3>1, <3>2, <4>2 DEF Border
            <4>5. m + 1 < k => remote[update.reachable[k]].step = "idle"
                BY <3>2, <4>3 DEF Border
            <4> QED BY <4>4, <4>5
        <3> QED BY <1>1, <3>3, <3>4 DEF Border
    <2>3. ASSUME update.phase = "qwen" PROVE Border(Len(update.reachable) + 1)'
        <3>1. Border(Len(update.reachable) + 1)
            BY <2>3 DEF UpdateInv, PhaseBorders
        <3> QED BY <1>1, <3>1 DEF Border
    <2>4. update.phase = "probe" => \A n \in UpdateNodes : remote'[n].step = "idle"
        BY <2>1
    <2> QED BY <1>1, <2>2, <2>3, <2>4 DEF PhaseBorders, UpdateNodes
<1> QED BY <1>1, <1>3, <1>4, RunMoves

LEMMA ProbeSteps ==
    ASSUME UpdateInv, NEW answers \in BOOLEAN, ProbeNode(answers)
    PROVE  UpdateInv'
<1>1. /\ update.phase = "probe" /\ update.at <= Len(FleetOrder) /\ UNCHANGED <<origin, tree, remote, left, gateway>>
      /\ \/ update' = [update EXCEPT !.at = @ + 1, !.reachable = Append(@, FleetOrder[update.at])]
         \/ NextNode \/ GoesOn("refused")
    BY DEF ProbeNode, InPhase, NextNode, GoesOn
<1>2. CASE NextNode
    <2>1. /\ update'.reachable = update.reachable
        BY <1>2, NextFields
    <2>2. GatewaysLast' /\ gateway' \in [Gateways -> GatewayRows]
        BY <1>1, <2>1, GatewaysStay
    <2> QED BY <1>1, <1>2, <2>2, NextMoves
<1>3. CASE GoesOn("refused")
    BY <1>1, <1>3, PhaseMoves DEF RunPhases
<1>4. CASE update' = [update EXCEPT !.at = @ + 1, !.reachable = Append(@, FleetOrder[update.at])]
    <2> DEFINE r == update.reachable
               x == FleetOrder[update.at]
               A == UpdateNodes
               more == Append(r, x)
    <2>1. /\ update.at \in Nat /\ update.at >= 1 /\ Len(r) \in Nat /\ Visits = 1..Len(r)
          /\ \A i, j \in Visits : r[i] = r[j] => i = j
        BY VisitFacts
    <2>2. update \in UpdateRows /\ r \in Seq(A)
        BY DEF UpdateInv, UpdateShape, UpdateRows
    <2>3. update.at \in 1..Len(FleetOrder) /\ x \in A
        BY <1>1, <2>1, ProbeOrder
    <2>4. /\ more \in Seq(A) /\ Len(more) = Len(r) + 1 /\ more[Len(r) + 1] = x
          /\ \A i \in 1..Len(r) : more[i] = r[i] /\ i \in 1..Len(r) + 1
          /\ \A i \in 1..Len(r) + 1 : i \in 1..Len(r) \/ i = Len(r) + 1
        <3> HIDE DEF r, x, A
        <3> QED BY <2>2, <2>3, AppendFacts
    <2>5. update.at + 1 \in Nat /\ update.at + 1 >= 1 /\ update.at < update.at + 1
        BY <2>1
    <2>6. update' = [update EXCEPT !.at = update.at + 1, !.reachable = more]
        BY <1>4
    <2> HIDE DEF more
    <2>7. /\ update' \in UpdateRows /\ update'.at = update.at + 1 /\ update'.phase = "probe" /\ update'.reachable = more
          /\ update'.at >= 1
        BY <1>1, <2>2, <2>4, <2>5, <2>6 DEF UpdateRows
    <2>8. GatewaysLast' /\ gateway' \in [Gateways -> GatewayRows]
        BY <1>1, GatewaysStay
    <2>9. Visits' = 1..Len(r) + 1
        BY <2>4, <2>7 DEF Visits
    <2>10. ASSUME NEW i \in 1..Len(r) PROVE \E j \in 1..Len(FleetOrder) : j < update.at /\ r[i] = FleetOrder[j]
        BY <1>1, <2>1 DEF UpdateInv, ProbedOnce
    <2>11. ASSUME NEW i \in 1..Len(r) PROVE r[i] # x
        <3>1. PICK j \in 1..Len(FleetOrder) : j < update.at /\ r[i] = FleetOrder[j]
            BY <2>10
        <3>2. j # update.at
            BY <2>1, <3>1, ProbeOrder
        <3> QED BY <2>3, <3>1, <3>2, ProbeOrder
    <2>12. ASSUME NEW i \in 1..Len(r) + 1, NEW j \in 1..Len(r) + 1, more[i] = more[j] PROVE i = j
        <3> HIDE DEF r, x
        <3>1. CASE i \in 1..Len(r) /\ j \in 1..Len(r)
            BY <2>1, <2>4, <2>12, <3>1
        <3>2. CASE i \in 1..Len(r) /\ j = Len(r) + 1
            BY <2>4, <2>11, <2>12, <3>2
        <3>3. CASE i = Len(r) + 1 /\ j \in 1..Len(r)
            BY <2>4, <2>11, <2>12, <3>3
        <3>4. CASE i = Len(r) + 1 /\ j = Len(r) + 1
            BY <3>4
        <3> QED BY <2>4, <3>1, <3>2, <3>3, <3>4
    <2>13. ASSUME NEW i \in 1..Len(r) + 1 PROVE \E j \in 1..Len(FleetOrder) : j < update.at + 1 /\ more[i] = FleetOrder[j]
        <3>1. CASE i \in 1..Len(r)
            <4>1. PICK j \in 1..Len(FleetOrder) : j < update.at /\ r[i] = FleetOrder[j]
                BY <2>10, <3>1
            <4>2. j < update.at + 1
                BY <2>1, <4>1, ProbeOrder
            <4>3. more[i] = FleetOrder[j]
                BY <2>4, <3>1, <4>1
            <4> QED BY <4>2, <4>3
        <3>2. CASE i = Len(r) + 1
            <4>1. more[i] = FleetOrder[update.at]
                BY <2>4, <3>2
            <4> QED BY <2>3, <2>5, <4>1
        <3> QED BY <2>4, <3>1, <3>2
    <2>14. ProbedOnce'
        <3> HIDE DEF r, x
        <3> QED BY <2>7, <2>9, <2>12, <2>13 DEF ProbedOnce
    <2>15. PhaseBorders'
        <3>1. \A n \in UpdateNodes : remote'[n].step = "idle"
            BY <1>1 DEF UpdateInv, PhaseBorders
        <3> QED BY <2>7, <3>1 DEF PhaseBorders, UpdateNodes
    <2> QED BY <1>1, <2>7, <2>8, <2>14, <2>15, RunMoves
<1> QED BY <1>1, <1>2, <1>3, <1>4

(* A gateway that is configured.                                            *)
LEMMA GatewayMoves ==
    ASSUME UpdateInv, update.phase = "qwen", UNCHANGED remote, update'.reachable = update.reachable,
           update'.phase \in {"qwen", "aborted"},
           NEW g \in Gateways, NEW row \in GatewayRows, gateway' = [gateway EXCEPT ![g] = row],
           OtherLines(row.env) = OtherLines(gateway[g].env),
           row.restarted => row.runtime = "trim" /\ row.linked = "trim" /\ HomeLines(row.env) = <<"home">>
    PROVE  GatewaysLast' /\ gateway' \in [Gateways -> GatewayRows]
<1>1. gateway \in [Gateways -> GatewayRows]
    BY DEF UpdateInv, UpdateShape
<1>2. gateway' \in [Gateways -> GatewayRows] /\ gateway'[g] = row /\ \A n \in Gateways : n # g => gateway'[n] = gateway[n]
    BY <1>1
<1>3. Visits' = Visits
    BY DEF Visits
<1>4. ASSUME NEW i \in Visits PROVE remote[update.reachable[i]].step = "ok"
    <2>1. Border(Len(update.reachable) + 1)
        BY DEF UpdateInv, PhaseBorders
    <2>2. i < Len(update.reachable) + 1
        BY VisitFacts
    <2> QED BY <2>1, <2>2 DEF Border
<1>5. ASSUME NEW n \in Gateways
      PROVE  /\ gateway'[n].restarted =>
                   gateway'[n].runtime = "trim" /\ gateway'[n].linked = "trim" /\ HomeLines(gateway'[n].env) = <<"home">>
             /\ \E o \in UpdateOptions : OtherLines(gateway'[n].env) = OtherLines(o.env)
    <2>1. /\ gateway[n].restarted =>
                gateway[n].runtime = "trim" /\ gateway[n].linked = "trim" /\ HomeLines(gateway[n].env) = <<"home">>
          /\ \E o \in UpdateOptions : OtherLines(gateway[n].env) = OtherLines(o.env)
        BY DEF UpdateInv, GatewaysLast
    <2>2. CASE n = g
        BY <1>2, <2>1, <2>2
    <2>3. CASE n # g
        BY <1>2, <2>1, <2>3
    <2> QED BY <2>2, <2>3
<1>6. ASSUME NEW i \in Visits' PROVE remote'[update'.reachable[i]].step = "ok"
    BY <1>3, <1>4
<1> QED BY <1>2, <1>5, <1>6 DEF GatewaysLast

LEMMA EnvFacts ==
    ASSUME NEW s \in Seq(EnvLines)
    PROVE  RewriteEnv(s) \in Seq(EnvLines) /\ OtherLines(RewriteEnv(s)) = OtherLines(s) /\ HomeLines(RewriteEnv(s)) = <<"home">>
<1> DEFINE A == EnvLines
<1>1. "home" \in A
    BY DEF EnvLines
<1>2. s \in Seq(A)
    OBVIOUS
<1> HIDE DEF A
<1>3. RewriteEnv(s) \in Seq(A) /\ OtherLines(RewriteEnv(s)) = OtherLines(s) /\ HomeLines(RewriteEnv(s)) = <<"home">>
    BY <1>1, <1>2, RewriteEnvFacts
<1> QED BY <1>3 DEF A

(* The row of a gateway after each command of the script.                   *)
LinkedRow(g) == [gateway[g] EXCEPT !.linked = gateway[g].runtime]
WrittenRow(g) == [LinkedRow(g) EXCEPT !.env = RewriteEnv(gateway[g].env)]
RestartedRow(g) == [WrittenRow(g) EXCEPT !.restarted = update.restart]
RowMade(g, row) ==
    /\ row \in GatewayRows /\ OtherLines(row.env) = OtherLines(gateway[g].env)
    /\ row.restarted => row.runtime = "trim" /\ row.linked = "trim" /\ HomeLines(row.env) = <<"home">>

LEMMA RowsMade ==
    ASSUME UpdateInv, NEW g \in Gateways
    PROVE  /\ RowMade(g, gateway[g]) /\ RowMade(g, LinkedRow(g)) /\ RowMade(g, WrittenRow(g))
           /\ gateway[g].runtime = "trim" => RowMade(g, RestartedRow(g))
<1> DEFINE row == gateway[g]
           env == RewriteEnv(row.env)
           A == Seq(EnvLines)
<1>1. row \in GatewayRows
    BY DEF UpdateInv, UpdateShape
<1>2. row.restarted => row.runtime = "trim" /\ row.linked = "trim" /\ HomeLines(row.env) = <<"home">>
    BY DEF UpdateInv, GatewaysLast
<1>3. GatewayRows = [runtime : {"missing", "no trim", "trim"}, linked : {"old", "missing", "no trim", "trim"}, env : A,
                     restarted : BOOLEAN]
    BY DEF GatewayRows
<1>4. row.env \in A
    BY <1>1, <1>3
<1>5. env \in A /\ OtherLines(env) = OtherLines(row.env) /\ HomeLines(env) = <<"home">>
    BY <1>4, EnvFacts
<1>6. update.restart \in BOOLEAN
    BY DEF UpdateInv, UpdateShape, UpdateRows
<1>7. /\ LinkedRow(g) = [row EXCEPT !.linked = row.runtime] /\ WrittenRow(g) = [LinkedRow(g) EXCEPT !.env = env]
      /\ RestartedRow(g) = [WrittenRow(g) EXCEPT !.restarted = update.restart]
    BY DEF LinkedRow, WrittenRow, RestartedRow
<1>8. RowMade(g, row) <=>
          /\ row \in GatewayRows /\ OtherLines(row.env) = OtherLines(row.env)
          /\ row.restarted => row.runtime = "trim" /\ row.linked = "trim" /\ HomeLines(row.env) = <<"home">>
    BY DEF RowMade
<1>9. ASSUME NEW z
      PROVE  RowMade(g, z) <=>
          /\ z \in GatewayRows /\ OtherLines(z.env) = OtherLines(row.env)
          /\ z.restarted => z.runtime = "trim" /\ z.linked = "trim" /\ HomeLines(z.env) = <<"home">>
    BY DEF RowMade
<1> HIDE DEF row, env, A
<1>10. RowMade(g, row)
    BY <1>1, <1>2, <1>8
<1>11. /\ LinkedRow(g) \in GatewayRows /\ LinkedRow(g).env = row.env /\ LinkedRow(g).restarted = row.restarted
       /\ LinkedRow(g).runtime = row.runtime /\ LinkedRow(g).linked = row.runtime
    BY <1>1, <1>3, <1>7
<1>12. RowMade(g, LinkedRow(g))
    BY <1>2, <1>9, <1>11
<1>13. /\ WrittenRow(g) \in GatewayRows /\ WrittenRow(g).env = env /\ WrittenRow(g).restarted = row.restarted
       /\ WrittenRow(g).runtime = row.runtime /\ WrittenRow(g).linked = row.runtime
    BY <1>3, <1>5, <1>7, <1>11
<1>14. RowMade(g, WrittenRow(g))
    BY <1>2, <1>5, <1>9, <1>13
<1>15. /\ RestartedRow(g) \in GatewayRows /\ RestartedRow(g).env = env
       /\ RestartedRow(g).runtime = row.runtime /\ RestartedRow(g).linked = row.runtime
    BY <1>3, <1>6, <1>7, <1>13
<1>16. row.runtime = "trim" => RowMade(g, RestartedRow(g))
    BY <1>5, <1>9, <1>15
<1> QED BY <1>10, <1>12, <1>14, <1>16 DEF row

LEMMA ConfigureSteps ==
    ASSUME UpdateInv, ConfigureGateway
    PROVE  UpdateInv'
<1> DEFINE g == update.reachable[update.at]
           linked == [gateway EXCEPT ![g].linked = gateway[g].runtime]
           written == [linked EXCEPT ![g].env = RewriteEnv(@)]
<1>1. /\ update.phase = "qwen" /\ UNCHANGED <<origin, tree, remote, left>>
      /\ \/ NextNode /\ gateway' = gateway
         \/ g \in Gateways /\ GoesOn("aborted") /\ gateway' \in {gateway, linked, written}
         \/ /\ g \in Gateways /\ gateway[g].runtime = "trim" /\ NextNode
            /\ gateway' = [written EXCEPT ![g].restarted = update.restart]
    BY DEF ConfigureGateway, InPhase
<1>2. CASE NextNode /\ gateway' = gateway
    <2>1. update'.reachable = update.reachable
        BY <1>2, NextFields
    <2>2. update'.phase = update.phase
        BY <1>2, NextFields
    <2>3. GatewaysLast' /\ gateway' \in [Gateways -> GatewayRows]
        BY <1>1, <1>2, <2>1, <2>2, GatewaysStay
    <2> QED BY <1>1, <1>2, <2>3, NextMoves
<1>3. gateway \in [Gateways -> GatewayRows]
    BY DEF UpdateInv, UpdateShape
<1>4. ASSUME g \in Gateways
      PROVE  /\ gateway = [gateway EXCEPT ![g] = gateway[g]] /\ linked = [gateway EXCEPT ![g] = LinkedRow(g)]
             /\ written = [gateway EXCEPT ![g] = WrittenRow(g)]
             /\ [written EXCEPT ![g].restarted = update.restart] = [gateway EXCEPT ![g] = RestartedRow(g)]
    <2> DEFINE row == LinkedRow(g)
               wrow == WrittenRow(g)
               rrow == RestartedRow(g)
    <2>0. /\ row.env = gateway[g].env /\ wrow = [row EXCEPT !.env = RewriteEnv(row.env)]
          /\ rrow = [wrow EXCEPT !.restarted = update.restart]
        <3>1. gateway[g] \in GatewayRows
            BY <1>3, <1>4
        <3>2. row.env = gateway[g].env
            BY <3>1 DEF LinkedRow, GatewayRows
        <3> QED BY <3>2 DEF WrittenRow, RestartedRow
    <2>1. linked = [gateway EXCEPT ![g] = row]
        BY DEF LinkedRow
    <2>2. written = [linked EXCEPT ![g] = [linked[g] EXCEPT !.env = RewriteEnv(linked[g].env)]]
        OBVIOUS
    <2>2a. [written EXCEPT ![g].restarted = update.restart] = [written EXCEPT ![g] = [written[g] EXCEPT !.restarted = update.restart]]
        OBVIOUS
    <2>2b. gateway = [gateway EXCEPT ![g] = gateway[g]]
        BY <1>3, <1>4
    <2> DEFINE more == [written EXCEPT ![g].restarted = update.restart]
    <2> HIDE DEF row, wrow, rrow, linked, written
    <2>3. linked[g] = row
        BY <1>3, <1>4, <2>1
    <2>4. written = [linked EXCEPT ![g] = wrow]
        BY <2>0, <2>2, <2>3
    <2>5. written = [gateway EXCEPT ![g] = wrow]
        <3> HIDE DEF g
        <3> QED BY <1>3, <1>4, <2>1, <2>4
    <2>6. written[g] = wrow
        BY <1>3, <1>4, <2>5
    <2>7. more = [written EXCEPT ![g] = rrow]
        BY <2>0, <2>2a, <2>6
    <2>8. more = [gateway EXCEPT ![g] = rrow]
        <3> HIDE DEF g, more
        <3> QED BY <1>3, <1>4, <2>5, <2>7
    <2> QED BY <2>1, <2>2b, <2>5, <2>8 DEF row, wrow, rrow, more
<1> DEFINE Made(z) == RowMade(g, z) /\ gateway' = [gateway EXCEPT ![g] = z]
<1>5. ASSUME g \in Gateways, NEW z, Made(z), update'.reachable = update.reachable, update'.phase \in {"qwen", "aborted"}
      PROVE  GatewaysLast' /\ gateway' \in [Gateways -> GatewayRows]
    <2>1. /\ z \in GatewayRows /\ gateway' = [gateway EXCEPT ![g] = z]
          /\ OtherLines(z.env) = OtherLines(gateway[g].env)
          /\ z.restarted => z.runtime = "trim" /\ z.linked = "trim" /\ HomeLines(z.env) = <<"home">>
        BY <1>5 DEF RowMade
    <2> HIDE DEF g
    <2> QED BY <1>1, <1>5, <2>1, GatewayMoves
<1>6. CASE g \in Gateways /\ GoesOn("aborted") /\ gateway' \in {gateway, linked, written}
    <2>1. "aborted" \in RunPhases
        BY DEF RunPhases
    <2>2. /\ update' \in UpdateRows /\ update'.at = 1 /\ update'.at >= 1 /\ update'.phase = "aborted"
          /\ update'.reachable = update.reachable /\ Visits' = Visits
        BY <1>6, <2>1, PhaseFields
    <2>3. \E z : Made(z)
        <3>1. RowMade(g, gateway[g]) /\ RowMade(g, LinkedRow(g)) /\ RowMade(g, WrittenRow(g))
            BY <1>6, RowsMade
        <3> HIDE DEF g, linked, written
        <3>2. gateway' = gateway \/ gateway' = linked \/ gateway' = written
            BY <1>6
        <3> QED BY <1>4, <1>6, <3>1, <3>2
    <2>4. PICK z : Made(z)
        BY <2>3
    <2>5. GatewaysLast' /\ gateway' \in [Gateways -> GatewayRows]
        <3> HIDE DEF Made
        <3> QED BY <1>5, <1>6, <2>2, <2>4
    <2>6. ProbedOnce'
        <3>1. \A i, j \in Visits : update.reachable[i] = update.reachable[j] => i = j
            BY VisitFacts
        <3> QED BY <2>2, <3>1 DEF ProbedOnce
    <2>7. PhaseBorders'
        <3>1. PICK m \in Nat : m = Len(update.reachable) + 1
            BY VisitFacts
        <3>2. Border(m) /\ m \in 0..Len(update.reachable) + 1
            <4>1. Border(Len(update.reachable) + 1)
                BY <1>1 DEF UpdateInv, PhaseBorders
            <4>2. Len(update.reachable) \in Nat
                BY VisitFacts
            <4> QED BY <3>1, <4>1, <4>2
        <3>3. Border(m)'
            BY <1>1, <2>2, <3>2 DEF Border
        <3>4. \E k \in 0..Len(update.reachable) + 1 : Border(k)'
            BY <3>2, <3>3
        <3> QED BY <2>2, <3>4 DEF PhaseBorders
    <2> QED BY <1>1, <2>2, <2>5, <2>6, <2>7, RunMoves
<1>7. CASE /\ g \in Gateways /\ gateway[g].runtime = "trim" /\ NextNode
           /\ gateway' = [written EXCEPT ![g].restarted = update.restart]
    <2>1. update'.reachable = update.reachable /\ update'.phase = "qwen"
        BY <1>1, <1>7, NextFields
    <2>2. Made(RestartedRow(g))
        <3>1. RowMade(g, RestartedRow(g))
            BY <1>7, RowsMade
        <3> QED BY <1>4, <1>7, <3>1
    <2>3. GatewaysLast' /\ gateway' \in [Gateways -> GatewayRows]
        <3> HIDE DEF Made
        <3> QED BY <1>5, <1>7, <2>1, <2>2
    <2> QED BY <1>1, <1>7, <2>3, NextMoves
<1> QED BY <1>1, <1>2, <1>6, <1>7

(* What others do to main and to the checkouts.                             *)
LEMMA OthersMove ==
    ASSUME UpdateInv, UNCHANGED <<remote, left, update, gateway>>,
           origin' \in [now : Nat, begun : Nat], origin'.begun = origin.begun, origin.now <= origin'.now,
           tree' \in [UpdateNodes -> TreeRows], \A n \in UpdateNodes : tree'[n].main = tree[n].main
    PROVE  UpdateInv'
<1>1. UpdateShape'
    <2>1. origin \in [now : Nat, begun : Nat] /\ origin.begun <= origin.now
        BY DEF UpdateInv, UpdateShape
    <2>2. origin'.begun <= origin'.now
        BY <2>1
    <2> QED BY <2>2 DEF UpdateInv, UpdateShape, UpdateNodes
<1>2. Fetched'
    <2>1. /\ origin.now \in Nat /\ origin'.now \in Nat /\ origin.now <= origin'.now
        BY DEF UpdateInv, UpdateShape
    <2>2. ASSUME NEW v \in Int, v <= origin.now PROVE v <= origin'.now
        BY <2>1, <2>2
    <2>3. ASSUME NEW n \in UpdateNodes
          PROVE  tree[n].main \in Int /\ remote[n].fetched \in Int /\ left[n] \in Int
        <3>1. tree[n] \in TreeRows /\ remote[n] \in ScriptRows /\ left[n] \in Nat \cup {NotLeft}
            BY DEF UpdateInv, UpdateShape
        <3> QED BY <3>1 DEF TreeRows, ScriptRows, NotLeft
    <2> SUFFICES ASSUME NEW n \in UpdateNodes
                 PROVE  /\ tree'[n].main <= origin'.now /\ remote[n].fetched <= origin'.now
                        /\ remote[n].step \in {"check", "checkout", "merge", "ok"} => origin.begun <= remote[n].fetched
                        /\ remote[n].step = "ok" => origin.begun <= left[n] /\ left[n] <= origin'.now /\ left[n] # NotLeft
                        /\ remote[n].step # "ok" => left[n] = NotLeft
        BY DEF Fetched, UpdateNodes
    <2>4. /\ tree[n].main <= origin.now /\ remote[n].fetched <= origin.now
          /\ remote[n].step \in {"check", "checkout", "merge", "ok"} => origin.begun <= remote[n].fetched
          /\ remote[n].step = "ok" => origin.begun <= left[n] /\ left[n] <= origin.now /\ left[n] # NotLeft
          /\ remote[n].step # "ok" => left[n] = NotLeft
        BY DEF UpdateInv, Fetched
    <2>5. tree'[n].main <= origin'.now /\ remote[n].fetched <= origin'.now
        BY <2>2, <2>3, <2>4
    <2>6. left[n] <= origin.now => left[n] <= origin'.now
        BY <2>2, <2>3
    <2> QED BY <2>4, <2>5, <2>6
<1>3. ProbedOnce'
    BY DEF UpdateInv, ProbedOnce, Visits
<1>4. PhaseBorders'
    BY DEF UpdateInv, PhaseBorders, Border, Visits, UpdateNodes
<1>5. GatewaysLast'
    BY DEF UpdateInv, GatewaysLast, Visits
<1> QED BY <1>1, <1>2, <1>3, <1>4, <1>5 DEF UpdateInv

LEMMA UpdateInvStep == ASSUME UpdateInv, UpdateNext PROVE UpdateInv'
<1>1. CASE PushMain
    <2>1. origin' = [origin EXCEPT !.now = origin.now + 1] /\ UNCHANGED <<tree, remote, left, update, gateway>>
        BY <1>1 DEF PushMain
    <2>2. origin \in [now : Nat, begun : Nat]
        BY DEF UpdateInv, UpdateShape
    <2>3. origin' \in [now : Nat, begun : Nat] /\ origin'.begun = origin.begun /\ origin.now <= origin'.now
        BY <2>1, <2>2
    <2>4. tree' \in [UpdateNodes -> TreeRows] /\ \A n \in UpdateNodes : tree'[n].main = tree[n].main
        BY <2>1 DEF UpdateInv, UpdateShape
    <2> QED BY <2>1, <2>3, <2>4, OthersMove
<1>2. ASSUME NEW n \in UpdateNodes, WorkInTree(n) PROVE UpdateInv'
    <2> DEFINE dirty == [tree[n] EXCEPT !.dirty = TRUE]
               own == IF tree[n].on = "main" THEN tree[n].own + 1 ELSE tree[n].own
               clean == [tree[n] EXCEPT !.own = own, !.dirty = FALSE]
    <2>1. /\ UNCHANGED <<origin, remote, left, update, gateway>>
          /\ tree' \in {[tree EXCEPT ![n].dirty = TRUE],
                  [tree EXCEPT ![n].own = IF tree[n].on = "main" THEN @ + 1 ELSE @, ![n].dirty = FALSE]}
        BY <1>2 DEF WorkInTree
    <2>2. tree \in [UpdateNodes -> TreeRows] /\ origin \in [now : Nat, begun : Nat] /\ tree[n] \in TreeRows
        BY DEF UpdateInv, UpdateShape
    <2>3. own \in Nat
        BY <2>2 DEF TreeRows
    <2>4. [tree EXCEPT ![n].own = IF tree[n].on = "main" THEN @ + 1 ELSE @, ![n].dirty = FALSE] = [tree EXCEPT ![n] = clean]
        BY <2>2
    <2>4a. [tree EXCEPT ![n].dirty = TRUE] = [tree EXCEPT ![n] = dirty]
        OBVIOUS
    <2> HIDE DEF own
    <2>5. dirty \in TreeRows /\ dirty.main = tree[n].main /\ clean \in TreeRows /\ clean.main = tree[n].main
        BY <2>2, <2>3 DEF TreeRows
    <2> HIDE DEF dirty, clean
    <2>6. \E row \in TreeRows : row.main = tree[n].main /\ tree' = [tree EXCEPT ![n] = row]
        <3>1. CASE tree' = [tree EXCEPT ![n].dirty = TRUE]
            BY <2>4a, <2>5, <3>1
        <3>2. CASE tree' = [tree EXCEPT ![n].own = IF tree[n].on = "main" THEN @ + 1 ELSE @, ![n].dirty = FALSE]
            BY <2>4, <2>5, <3>2
        <3> QED BY <2>1, <3>1, <3>2
    <2>7. PICK row \in TreeRows : row.main = tree[n].main /\ tree' = [tree EXCEPT ![n] = row]
        BY <2>6
    <2>8. tree' \in [UpdateNodes -> TreeRows] /\ \A j \in UpdateNodes : tree'[j].main = tree[j].main
        BY <2>2, <2>7
    <2>9. origin' \in [now : Nat, begun : Nat] /\ origin'.begun = origin.begun /\ origin.now <= origin'.now
        BY <2>1, <2>2
    <2> QED BY <2>1, <2>8, <2>9, OthersMove
<1>3. ASSUME NEW n \in UpdateNodes, NodeUpdated(n) PROVE UpdateInv'
    <2>1. /\ update.phase = "update" /\ AtNode(n) /\ remote[n].step = "ok" /\ NextNode
          /\ UNCHANGED <<origin, tree, remote, left, gateway>>
        BY <1>3 DEF NodeUpdated, InPhase, ScriptAt
    <2>2. update.at \in Visits /\ update.reachable[update.at] = n
        BY <2>1, VisitFacts
    <2>3. update'.reachable = update.reachable
        BY <2>1, NextFields
    <2>4. GatewaysLast' /\ gateway' \in [Gateways -> GatewayRows]
        BY <2>1, <2>3, GatewaysStay
    <2> QED BY <2>1, <2>2, <2>4, NextMoves
<1> QED BY <1>1, <1>2, <1>3, PhaseSteps, ScriptSteps, ProbeSteps, ConfigureSteps DEF UpdateNext

LEMMA UpdateInvUnchanged == ASSUME UpdateInv, UNCHANGED updateVars PROVE UpdateInv'
<1>1. UNCHANGED <<origin, tree, remote, left, update, gateway>>
    BY DEF updateVars
<1>2. UpdateShape' /\ Fetched'
    BY <1>1 DEF UpdateInv, UpdateShape, Fetched, UpdateNodes
<1>3. ProbedOnce' /\ PhaseBorders' /\ GatewaysLast'
    BY <1>1 DEF UpdateInv, ProbedOnce, PhaseBorders, GatewaysLast, Border, Visits, UpdateNodes
<1> QED BY <1>2, <1>3 DEF UpdateInv

-----------------------------------------------------------------------------
(* A clean-up: what it accepted is listed and not protected, what is gone   *)
(* is in the archive or was to be deleted, unless others touched it.        *)
Listed == 1..Len(listing)
CleanupShape ==
    /\ disk \in [DiskFiles -> Nat] /\ \A f \in DiskFiles : disk[f] \in {DiskInodes[f], Gone}
    /\ archived \in [DiskFiles -> Nat]
    /\ Len(listing) \in Nat /\ DOMAIN listing = Listed
    /\ \A i \in Listed : listing[i].path \in DiskPaths /\ listing[i].action \in {"delete", "archive", "other"}
    /\ cleanup \in [phase : {"check", "apply", "done", "planned", "refused", "raised"},
                    at : Nat, ready : BOOLEAN, apply : BOOLEAN, archive : BOOLEAN, made : BOOLEAN]
    /\ ext \in [alias : {"link", "other link", "empty", "filled", "missing"}, mounted : BOOLEAN,
                run : {"none", "mounted", "not mounted", "ready", "refused"}, steady : BOOLEAN]
    /\ diskChanges \in Nat /\ cleanup.at >= 1
    /\ receipt => cleanup.phase = "done"
Unprotected(i) == listing[i].path \notin ProtectedPaths
Accepted ==
    /\ cleanup.phase = "check" => (cleanup.ready => \A i \in Listed : i < cleanup.at => Unprotected(i))
    /\ cleanup.phase \in {"apply", "done", "raised"} => cleanup.apply /\ cleanup.ready /\ \A i \in Listed : Unprotected(i)
Deleted(f) == \E k \in Listed : listing[k].action = "delete" /\ f \in FilesOf(listing[k].path)
GoneListed ==
    /\ \A f \in DiskFiles : Untouched(f) /\ disk[f] = Gone =>
          /\ cleanup.phase \in {"apply", "done", "raised"}
          /\ archived[f] = DiskInodes[f] \/ Deleted(f)
          /\ \E i \in Listed : f \in FilesOf(listing[i].path)
    /\ \A f \in DiskFiles : archived[f] # Gone => disk[f] = Gone
Applied(i) ==
    /\ IF listing[i].path \in DiskFiles THEN disk[listing[i].path] = Gone ELSE listing[i].path \in dirsGone
    /\ listing[i].action = "archive" => \A f \in FilesOf(listing[i].path) : Untouched(f) /\ f \notin ExternalFiles => disk[f] = Gone
AppliedBehind ==
    /\ cleanup.phase = "apply" => \A i \in Listed : i < cleanup.at => Applied(i)
    /\ cleanup.phase = "done" => \A i \in Listed : Applied(i)
NothingChanged == touched = {} /\ inUse = {} /\ diskChanges = 0
ListedAsMade(i) ==
    /\ Unprotected(i)
    /\ UniqueStats(listing[i].path) = [bytes |-> listing[i].bytes, files |-> listing[i].files]
    /\ diskChanges = 0 => (\A f \in FilesOf(listing[i].path) : f \in ExternalFiles => ext.mounted /\ ext.alias = "link")
MadeReady ==
    cleanup.made =>
        /\ \A i \in Listed : ListedAsMade(i)
        /\ NothingChanged /\ cleanup.phase \in {"check", "refused"} =>
              cleanup.phase = "check" /\ cleanup.ready /\ disk = DiskInodes /\ sizes = FirstSizes /\ dirsGone = {}
        /\ diskChanges = 0 => (ext.run = "mounted" => ext.mounted) /\ (ext.run = "not mounted" => ~ext.mounted)
AliasSeen ==
    ext.steady => /\ ext.run = "mounted" => ext.mounted
                  /\ ext.run = "not mounted" => ~ext.mounted
CleanupInv == CleanupShape /\ Accepted /\ GoneListed /\ AppliedBehind /\ MadeReady /\ AliasSeen /\ AliasRight

-----------------------------------------------------------------------------
LEMMA CleanupInvProperties == CleanupInv => OnlyListedRemoved /\ ReceiptTrue /\ MadeIsAccepted /\ AliasRight
<1> SUFFICES ASSUME CleanupInv PROVE OnlyListedRemoved /\ ReceiptTrue /\ MadeIsAccepted
    BY DEF CleanupInv
<1>1. DOMAIN listing = Listed
    BY DEF CleanupInv, CleanupShape
<1>2. OnlyListedRemoved
    <2> SUFFICES ASSUME NEW f \in DiskFiles, Untouched(f), disk[f] = Gone
                 PROVE  /\ cleanup.apply /\ cleanup.ready
                        /\ \E i \in Listed : f \in FilesOf(listing[i].path) /\ listing[i].path \notin ProtectedPaths
        BY <1>1 DEF OnlyListedRemoved
    <2>1. cleanup.phase \in {"apply", "done", "raised"} /\ \E i \in Listed : f \in FilesOf(listing[i].path)
        BY DEF CleanupInv, GoneListed
    <2>2. cleanup.apply /\ cleanup.ready /\ \A i \in Listed : listing[i].path \notin ProtectedPaths
        BY <2>1 DEF CleanupInv, Accepted, Unprotected
    <2> QED BY <2>1, <2>2
<1>3. ReceiptTrue
    <2> SUFFICES ASSUME receipt, NEW i \in Listed
                 PROVE  /\ ~Exists(listing[i].path)
                        /\ listing[i].action = "archive" =>
                              \A f \in FilesOf(listing[i].path) : Untouched(f) /\ f \notin ExternalFiles =>
                                  \/ archived[f] = DiskInodes[f]
                                  \/ \E k \in Listed : listing[k].action = "delete" /\ f \in FilesOf(listing[k].path)
        BY <1>1 DEF ReceiptTrue
    <2>1. Applied(i) /\ listing[i].path \in DiskPaths
        BY DEF CleanupInv, CleanupShape, AppliedBehind
    <2>2. ~Exists(listing[i].path)
        BY <2>1 DEF Applied, Exists, FilesAt, FilesOf
    <2>3. ASSUME listing[i].action = "archive", NEW f \in FilesOf(listing[i].path), Untouched(f), f \notin ExternalFiles
          PROVE  archived[f] = DiskInodes[f] \/ Deleted(f)
        <3>1. f \in DiskFiles
            BY <2>1, CleanupAssumption DEF FilesOf, DiskPaths
        <3>2. disk[f] = Gone
            BY <2>1, <2>3 DEF Applied
        <3> QED BY <2>3, <3>1, <3>2 DEF CleanupInv, GoneListed
    <2> QED BY <2>2, <2>3 DEF Deleted
<1>4. MadeIsAccepted
    <2>1. ASSUME cleanup.phase = "refused", cleanup.made, touched = {}, inUse = {}, ~(diskChanges > 0) PROVE FALSE
        <3>1. diskChanges = 0
            <4>1. diskChanges \in Nat
                BY DEF CleanupInv, CleanupShape
            <4> QED BY <2>1, <4>1
        <3>2. cleanup.phase = "check"
            BY <2>1, <3>1 DEF CleanupInv, MadeReady, NothingChanged
        <3> QED BY <2>1, <3>2
    <2> QED BY <2>1 DEF MadeIsAccepted, CleanupPhase
<1> QED BY <1>2, <1>3, <1>4

LEMMA TableLength ==
    ASSUME NEW n \in Nat, NEW s, s = [k \in 1..n |-> s[k]]
    PROVE  Len(s) = n /\ DOMAIN s = 1..n
<1> DEFINE A == {s[k] : k \in 1..n}
<1>1. s \in [1..n -> A]
    OBVIOUS
<1> HIDE DEF A
<1>2. s \in Seq(A) /\ DOMAIN s = 1..n
    BY <1>1
<1>3. Len(s) \in Nat /\ DOMAIN s = 1..Len(s)
    BY <1>2
<1>4. Len(s) = n
    BY <1>2, <1>3
<1> QED BY <1>2, <1>4

LEMMA FilesListed == ASSUME NEW p \in DiskPaths PROVE FilesOf(p) \subseteq DiskFiles
BY CleanupAssumption DEF FilesOf, DiskPaths

LEMMA CleanupInitInv == CleanupInit => CleanupInv
<1> SUFFICES ASSUME NEW m \in Manifests, NEW o \in CleanupOptions, o.made => Makeable(m, o), CleanupStart(m, o)
             PROVE  CleanupInv
    BY DEF CleanupInit
<1>1. /\ disk = DiskInodes /\ sizes = FirstSizes /\ dirsGone = {} /\ archived = [f \in DiskFiles |-> Gone]
      /\ inUse = {} /\ touched = {} /\ listing = ManifestOf(m, o.made)
      /\ cleanup = [phase |-> "check", at |-> 1, ready |-> TRUE, apply |-> o.apply, archive |-> o.archive, made |-> o.made]
      /\ ext = [alias |-> o.alias, mounted |-> o.mounted, run |-> "none", steady |-> FALSE]
      /\ receipt = FALSE /\ diskChanges = 0
    BY DEF CleanupStart
<1>2. /\ o.apply \in BOOLEAN /\ o.archive \in BOOLEAN /\ o.made \in BOOLEAN /\ o.mounted \in BOOLEAN
      /\ o.alias \in {"link", "other link", "empty", "filled", "missing"}
    BY DEF CleanupOptions
<1> DEFINE n == Len(m)
           A == [path : DiskFiles \cup DOMAIN DiskDirs, action : {"delete", "archive", "other"}]
           stats(k) == IF o.made THEN UniqueStats(m[k].path) ELSE VisibleStats(m[k].path)
           row(k) == [path |-> m[k].path, action |-> m[k].action, bytes |-> stats(k).bytes, files |-> stats(k).files]
<1>3. m \in Seq(A)
    BY CleanupAssumption
<1>4. n \in Nat /\ DOMAIN m = 1..n /\ \A k \in 1..n : m[k] \in A
    <2> HIDE DEF A
    <2> QED BY <1>3, SeqFacts
<1>5. listing = [k \in 1..n |-> row(k)]
    BY <1>1, <1>4 DEF ManifestOf
<1>6. \A k \in 1..n : listing[k] = row(k)
    <2> HIDE DEF n, row
    <2> QED BY <1>5
<1>7. Listed = 1..n /\ DOMAIN listing = 1..n /\ Len(listing) = n
    <2>1. listing = [k \in 1..n |-> listing[k]]
        <3> HIDE DEF n, row
        <3> QED BY <1>5
    <2> HIDE DEF n
    <2> QED BY <1>4, <2>1, TableLength DEF Listed
<1>8. ASSUME NEW k \in 1..n
      PROVE  /\ listing[k].path = m[k].path /\ listing[k].action = m[k].action /\ listing[k].bytes = stats(k).bytes
             /\ listing[k].files = stats(k).files /\ listing[k].path \in DiskPaths
             /\ listing[k].action \in {"delete", "archive", "other"}
    <2>1. m[k] \in A
        BY <1>4
    <2>2. m[k].path \in DiskPaths /\ m[k].action \in {"delete", "archive", "other"}
        BY <2>1 DEF DiskPaths
    <2>3. listing[k] = row(k)
        BY <1>6
    <2> DEFINE p == m[k].path
               a == m[k].action
               b == stats(k).bytes
               c == stats(k).files
    <2>4. listing[k] = [path |-> p, action |-> a, bytes |-> b, files |-> c]
        BY <2>3
    <2> HIDE DEF n, A, row, p, a, b, c
    <2>5. listing[k].path = p /\ listing[k].action = a /\ listing[k].bytes = b /\ listing[k].files = c
        BY <2>4
    <2> QED BY <2>2, <2>5 DEF p, a, b, c
<1>9. disk \in [DiskFiles -> Nat] /\ archived \in [DiskFiles -> Nat] /\ \A f \in DiskFiles : disk[f] = DiskInodes[f] /\ disk[f] # Gone
    BY <1>1, CleanupAssumption DEF Gone
<1>10. CleanupShape
    <2>1. Len(listing) \in Nat /\ DOMAIN listing = Listed
        BY <1>4, <1>7
    <2>2. \A i \in Listed : listing[i].path \in DiskPaths /\ listing[i].action \in {"delete", "archive", "other"}
        <3> HIDE DEF n
        <3> QED BY <1>7, <1>8
    <2>3. /\ cleanup \in [phase : {"check", "apply", "done", "planned", "refused", "raised"},
                    at : Nat, ready : BOOLEAN, apply : BOOLEAN, archive : BOOLEAN, made : BOOLEAN]
          /\ ext \in [alias : {"link", "other link", "empty", "filled", "missing"}, mounted : BOOLEAN,
                run : {"none", "mounted", "not mounted", "ready", "refused"}, steady : BOOLEAN]
          /\ diskChanges \in Nat /\ cleanup.at >= 1
        <3> HIDE DEF A, n, stats, row
        <3>1. cleanup \in [phase : {"check", "apply", "done", "planned", "refused", "raised"},
                    at : Nat, ready : BOOLEAN, apply : BOOLEAN, archive : BOOLEAN, made : BOOLEAN]
            BY <1>1, <1>2
        <3>2. ext \in [alias : {"link", "other link", "empty", "filled", "missing"}, mounted : BOOLEAN,
                run : {"none", "mounted", "not mounted", "ready", "refused"}, steady : BOOLEAN]
            BY <1>1, <1>2
        <3>3. diskChanges \in Nat /\ cleanup.at >= 1
            BY <1>1
        <3> QED BY <3>1, <3>2, <3>3
    <2> QED BY <1>1, <1>9, <2>1, <2>2, <2>3 DEF CleanupShape
<1>11. Accepted
    <2>1. \A i \in Listed : ~(i < cleanup.at)
        BY <1>1, <1>4, <1>7
    <2>2. cleanup.phase = "check"
        BY <1>1
    <2> QED BY <2>1, <2>2 DEF Accepted
<1>12. GoneListed
    <2>1. \A f \in DiskFiles : archived[f] = Gone
        BY <1>1
    <2> QED BY <1>9, <2>1 DEF GoneListed
<1>13. AppliedBehind /\ AliasSeen /\ AliasRight
    BY <1>1 DEF AppliedBehind, AliasSeen, AliasRight
<1>14. MadeReady
    <2> SUFFICES ASSUME o.made PROVE MadeReady
        BY <1>1 DEF MadeReady
    <2>1. ASSUME NEW k \in Listed PROVE ListedAsMade(k)
        <3>1. k \in 1..n /\ k \in DOMAIN m
            BY <1>4, <1>7
        <3>2. m[k].path \notin ProtectedPaths /\ (FilesOf(m[k].path) \cap ExternalFiles # {} => o.mounted /\ o.alias = "link")
            BY <3>1 DEF Makeable
        <3>3. listing[k].path = m[k].path /\ listing[k].bytes = UniqueStats(m[k].path).bytes /\ listing[k].files = UniqueStats(m[k].path).files
            BY <1>8, <3>1
        <3>4. UniqueStats(m[k].path) = [bytes |-> UniqueStats(m[k].path).bytes, files |-> UniqueStats(m[k].path).files]
            BY DEF UniqueStats, StatsOf
        <3>5. ext.mounted = o.mounted /\ ext.alias = o.alias
            BY <1>1
        <3> HIDE DEF n, A
        <3>6. Unprotected(k)
            BY <3>2, <3>3 DEF Unprotected
        <3>7. UniqueStats(listing[k].path) = [bytes |-> listing[k].bytes, files |-> listing[k].files]
            BY <3>3, <3>4
        <3>8. \A f \in FilesOf(listing[k].path) : f \in ExternalFiles => ext.mounted /\ ext.alias = "link"
            BY <3>2, <3>3, <3>5
        <3> QED BY <3>6, <3>7, <3>8 DEF ListedAsMade
    <2>2. cleanup.phase = "check" /\ cleanup.ready /\ ext.run = "none"
        BY <1>1
    <2> QED BY <1>1, <2>1, <2>2 DEF MadeReady
<1> QED BY <1>10, <1>11, <1>12, <1>13, <1>14 DEF CleanupInv

(* What holds of the alias, and of the manifest, while neither is touched.  *)
LEMMA AliasStays ==
    ASSUME CleanupInv, UNCHANGED ext
    PROVE  AliasSeen' /\ AliasRight'
BY DEF CleanupInv, AliasSeen, AliasRight

LEMMA MadeStays ==
    ASSUME CleanupInv, UNCHANGED <<listing, ext, diskChanges>>, cleanup'.made = cleanup.made, cleanup.made,
           NothingChanged' /\ cleanup'.phase \in {"check", "refused"} =>
               cleanup'.phase = "check" /\ cleanup'.ready /\ disk' = DiskInodes /\ sizes' = FirstSizes /\ dirsGone' = {}
    PROVE  MadeReady'
<1>1. /\ \A i \in Listed : ListedAsMade(i)
      /\ diskChanges = 0 => (ext.run = "mounted" => ext.mounted) /\ (ext.run = "not mounted" => ~ext.mounted)
    BY DEF CleanupInv, MadeReady
<1>2. Listed' = Listed
    BY DEF Listed
<1>3. \A i \in Listed : ListedAsMade(i)'
    BY <1>1 DEF ListedAsMade, Unprotected
<1> QED BY <1>1, <1>2, <1>3 DEF MadeReady

LEMMA NotMade == ASSUME ~cleanup.made, cleanup'.made = cleanup.made PROVE MadeReady'
BY DEF MadeReady

(* An entry that was applied stays so when files only go.                   *)
LEMMA AppliedStays ==
    ASSUME CleanupInv, NEW i \in Listed, Applied(i), UNCHANGED listing, touched \subseteq touched', dirsGone \subseteq dirsGone',
           \A f \in DiskFiles : disk[f] = Gone => disk'[f] = Gone
    PROVE  Applied(i)'
<1>1. listing[i].path \in DiskPaths
    BY DEF CleanupInv, CleanupShape
<1>2. FilesOf(listing[i].path) \subseteq DiskFiles
    BY <1>1, FilesListed
<1>3. listing'[i] = listing[i]
    OBVIOUS
<1>4. IF listing[i].path \in DiskFiles THEN disk'[listing[i].path] = Gone ELSE listing[i].path \in dirsGone'
    BY DEF Applied
<1>5. listing[i].action = "archive" => \A f \in FilesOf(listing[i].path) : f \notin touched' /\ f \notin ExternalFiles => disk'[f] = Gone
    BY <1>2 DEF Applied, Untouched
<1> QED BY <1>3, <1>4, <1>5 DEF Applied, Untouched

(* The shape after a step of the clean-up.                                  *)
LEMMA CleanupGoesFields ==
    ASSUME CleanupInv, NEW p \in {"check", "apply", "done", "planned", "refused", "raised"}, CleanupGoes(p)
    PROVE  /\ cleanup' \in [phase : {"check", "apply", "done", "planned", "refused", "raised"},
                            at : Nat, ready : BOOLEAN, apply : BOOLEAN, archive : BOOLEAN, made : BOOLEAN]
           /\ cleanup'.phase = p /\ cleanup'.at = 1 /\ cleanup'.at >= 1 /\ cleanup'.ready = cleanup.ready
           /\ cleanup'.apply = cleanup.apply /\ cleanup'.made = cleanup.made
<1>1. cleanup \in [phase : {"check", "apply", "done", "planned", "refused", "raised"},
                   at : Nat, ready : BOOLEAN, apply : BOOLEAN, archive : BOOLEAN, made : BOOLEAN]
    BY DEF CleanupInv, CleanupShape
<1>2. cleanup' = [cleanup EXCEPT !.phase = p, !.at = 1]
    BY DEF CleanupGoes
<1> DEFINE P == {"check", "apply", "done", "planned", "refused", "raised"}
<1>3. p \in P /\ cleanup \in [phase : P, at : Nat, ready : BOOLEAN, apply : BOOLEAN, archive : BOOLEAN, made : BOOLEAN]
    BY <1>1
<1> HIDE DEF P
<1>4. cleanup' \in [phase : P, at : Nat, ready : BOOLEAN, apply : BOOLEAN, archive : BOOLEAN, made : BOOLEAN]
    BY <1>2, <1>3
<1>5. /\ cleanup'.phase = p /\ cleanup'.at = 1 /\ cleanup'.at >= 1 /\ cleanup'.ready = cleanup.ready
      /\ cleanup'.apply = cleanup.apply /\ cleanup'.made = cleanup.made
    BY <1>2, <1>3
<1> QED BY <1>4, <1>5 DEF P

LEMMA EntryFields ==
    ASSUME CleanupInv, NEW ready \in BOOLEAN, cleanup' = [cleanup EXCEPT !.at = cleanup.at + 1, !.ready = ready]
    PROVE  /\ cleanup' \in [phase : {"check", "apply", "done", "planned", "refused", "raised"},
                            at : Nat, ready : BOOLEAN, apply : BOOLEAN, archive : BOOLEAN, made : BOOLEAN]
           /\ cleanup'.phase = cleanup.phase /\ cleanup'.at = cleanup.at + 1 /\ cleanup'.at >= 1 /\ cleanup'.ready = ready
           /\ cleanup'.apply = cleanup.apply /\ cleanup'.made = cleanup.made
           /\ \A i \in Listed : i < cleanup.at + 1 => i < cleanup.at \/ i = cleanup.at
<1>1. cleanup \in [phase : {"check", "apply", "done", "planned", "refused", "raised"},
                   at : Nat, ready : BOOLEAN, apply : BOOLEAN, archive : BOOLEAN, made : BOOLEAN]
    BY DEF CleanupInv, CleanupShape
<1>2. cleanup.at \in Nat
    BY <1>1
<1>3. cleanup.at + 1 \in Nat /\ cleanup.at + 1 >= 1 /\ \A i \in Int : i < cleanup.at + 1 => i < cleanup.at \/ i = cleanup.at
    BY <1>2
<1>4. \A i \in Listed : i \in Int
    BY DEF Listed
<1> QED BY <1>1, <1>3, <1>4

LEMMA AtListed == ASSUME CleanupInv, cleanup.at <= Len(listing) PROVE cleanup.at \in Listed
<1>1. cleanup.at \in Nat /\ cleanup.at >= 1 /\ Len(listing) \in Nat
    BY DEF CleanupInv, CleanupShape
<1> QED BY <1>1 DEF Listed

LEMMA AllBehind == ASSUME CleanupInv, cleanup.at > Len(listing), NEW i \in Listed PROVE i < cleanup.at
<1>1. cleanup.at \in Nat /\ Len(listing) \in Nat
    BY DEF CleanupInv, CleanupShape
<1> QED BY <1>1 DEF Listed

(* Checking.                                                                *)
LEMMA MadeEntryReady ==
    ASSUME CleanupInv, cleanup.made, NothingChanged, cleanup.phase = "check", NEW k \in Listed
    PROVE  EntryReady(listing[k])
<1> DEFINE p == listing[k].path
<1>1. /\ ListedAsMade(k) /\ disk = DiskInodes /\ sizes = FirstSizes /\ dirsGone = {} /\ inUse = {} /\ diskChanges = 0
      /\ p \in DiskPaths
    BY DEF CleanupInv, CleanupShape, MadeReady, NothingChanged
<1>2. FilesOf(p) \subseteq DiskFiles
    BY <1>1, FilesListed
<1>3. \A f \in FilesOf(p) : f \in ExternalFiles => ext.mounted /\ ext.alias = "link"
    BY <1>1 DEF ListedAsMade
<1>4. FilesAt(p) = FilesOf(p)
    BY <1>1, <1>2, <1>3, CleanupAssumption DEF FilesAt, Reached, Gone
<1>5. Exists(p)
    BY <1>1, <1>4 DEF Exists, FilesOf, DiskPaths
<1>6. {disk[f] : f \in FilesAt(p)} = {DiskInodes[f] : f \in FilesOf(p)}
    BY <1>1, <1>4
<1>7. TreeStats(p) = UniqueStats(p)
    BY <1>1, <1>6 DEF TreeStats, UniqueStats
<1>8. p \notin ProtectedPaths /\ UniqueStats(p) = [bytes |-> listing[k].bytes, files |-> listing[k].files]
    BY <1>1 DEF ListedAsMade, Unprotected
<1> QED BY <1>1, <1>5, <1>7, <1>8 DEF EntryReady

LEMMA CheckEntryInv == ASSUME CleanupInv, CheckEntry PROVE CleanupInv'
<1> DEFINE ready == cleanup.ready /\ EntryReady(listing[cleanup.at])
<1>1. /\ cleanup.phase = "check" /\ cleanup.at <= Len(listing)
      /\ cleanup' = [cleanup EXCEPT !.at = cleanup.at + 1, !.ready = ready]
      /\ UNCHANGED <<disk, sizes, dirsGone, archived, inUse, listing, receipt, ext, touched, diskChanges>>
    BY DEF CheckEntry, CleanupPhase
<1>2. cleanup.at \in Listed
    BY <1>1, AtListed
<1>3. ready \in BOOLEAN
    OBVIOUS
<1>4. ready => Unprotected(cleanup.at) /\ cleanup.ready
    BY DEF EntryReady, Unprotected
<1>5. cleanup.made /\ NothingChanged => ready
    <2>1. cleanup.made /\ NothingChanged => cleanup.ready
        BY <1>1 DEF CleanupInv, MadeReady
    <2> QED BY <1>1, <1>2, <2>1, MadeEntryReady
<1> HIDE DEF ready
<1>6. /\ cleanup' \in [phase : {"check", "apply", "done", "planned", "refused", "raised"},
                       at : Nat, ready : BOOLEAN, apply : BOOLEAN, archive : BOOLEAN, made : BOOLEAN]
      /\ cleanup'.phase = cleanup.phase /\ cleanup'.at = cleanup.at + 1 /\ cleanup'.at >= 1 /\ cleanup'.ready = ready
      /\ cleanup'.apply = cleanup.apply /\ cleanup'.made = cleanup.made
      /\ \A i \in Listed : i < cleanup.at + 1 => i < cleanup.at \/ i = cleanup.at
    BY <1>1, <1>3, EntryFields
<1>7. CleanupShape' /\ Listed' = Listed
    BY <1>1, <1>6 DEF CleanupInv, CleanupShape, Listed
<1>8. Accepted'
    <2>1. ASSUME ready, NEW i \in Listed, i < cleanup.at + 1 PROVE Unprotected(i)
        BY <1>1, <1>4, <1>6, <2>1 DEF CleanupInv, Accepted
    <2> QED BY <1>1, <1>6, <1>7, <2>1 DEF Accepted, Unprotected
<1>9. GoneListed'
    BY <1>1, <1>6 DEF CleanupInv, GoneListed, Untouched, Deleted, Listed
<1>10. AppliedBehind'
    BY <1>1, <1>6 DEF AppliedBehind
<1>11. MadeReady'
    <2>1. CASE cleanup.made
        <3>1. NothingChanged' => NothingChanged
            BY <1>1 DEF NothingChanged
        <3>2. NothingChanged' => ready /\ disk' = DiskInodes /\ sizes' = FirstSizes /\ dirsGone' = {}
            BY <1>1, <1>5, <2>1, <3>1 DEF CleanupInv, MadeReady
        <3> QED BY <1>1, <1>6, <2>1, <3>2, MadeStays
    <2>2. CASE ~cleanup.made
        BY <1>6, <2>2, NotMade
    <2> QED BY <2>1, <2>2
<1>12. AliasSeen' /\ AliasRight'
    BY <1>1, AliasStays
<1> QED BY <1>7, <1>8, <1>9, <1>10, <1>11, <1>12 DEF CleanupInv

LEMMA CheckedAllInv == ASSUME CleanupInv, CheckedAll PROVE CleanupInv'
<1> DEFINE p == IF ~cleanup.ready THEN "refused" ELSE IF cleanup.apply THEN "apply" ELSE "planned"
<1>1. /\ cleanup.phase = "check" /\ cleanup.at > Len(listing) /\ CleanupGoes(p)
      /\ UNCHANGED <<disk, sizes, dirsGone, archived, inUse, listing, receipt, ext, touched, diskChanges>>
    BY DEF CheckedAll, CleanupPhase
<1>2. /\ p \in {"check", "apply", "done", "planned", "refused", "raised"} /\ p \in {"refused", "apply", "planned"}
      /\ p = "apply" => cleanup.apply /\ cleanup.ready
      /\ p = "refused" => ~cleanup.ready
    OBVIOUS
<1> HIDE DEF p
<1>3. /\ cleanup' \in [phase : {"check", "apply", "done", "planned", "refused", "raised"},
                       at : Nat, ready : BOOLEAN, apply : BOOLEAN, archive : BOOLEAN, made : BOOLEAN]
      /\ cleanup'.phase = p /\ cleanup'.at = 1 /\ cleanup'.at >= 1 /\ cleanup'.ready = cleanup.ready
      /\ cleanup'.apply = cleanup.apply /\ cleanup'.made = cleanup.made
    BY <1>1, <1>2, CleanupGoesFields
<1>4. CleanupShape' /\ Listed' = Listed
    <2>1. receipt' => cleanup'.phase = "done"
        BY <1>1 DEF CleanupInv, CleanupShape
    <2> QED BY <1>1, <1>3, <2>1 DEF CleanupInv, CleanupShape, Listed
<1>5. Accepted'
    <2>1. cleanup.ready => \A i \in Listed : Unprotected(i)
        BY <1>1, AllBehind DEF CleanupInv, Accepted
    <2> QED BY <1>1, <1>2, <1>3, <1>4, <2>1 DEF Accepted, Unprotected
<1>6. GoneListed'
    <2>1. ASSUME NEW f \in DiskFiles, f \notin touched PROVE disk[f] # Gone
        BY <1>1, <2>1 DEF CleanupInv, GoneListed, Untouched
    <2>2. \A f \in DiskFiles : archived[f] # Gone => disk[f] = Gone
        BY DEF CleanupInv, GoneListed
    <2> QED BY <1>1, <2>1, <2>2 DEF GoneListed, Untouched
<1>7. AppliedBehind'
    <2>1. ASSUME NEW i \in Listed PROVE ~(i < 1)
        BY DEF Listed
    <2> QED BY <1>2, <1>3, <1>4, <2>1 DEF AppliedBehind
<1>8. MadeReady'
    <2>1. CASE cleanup.made
        <3>1. NothingChanged' => NothingChanged
            BY <1>1 DEF NothingChanged
        <3>2. NothingChanged' => cleanup.ready
            BY <1>1, <2>1, <3>1 DEF CleanupInv, MadeReady
        <3>3. ~(NothingChanged' /\ cleanup'.phase \in {"check", "refused"})
            BY <1>2, <1>3, <3>2
        <3> QED BY <1>1, <1>3, <2>1, <3>3, MadeStays
    <2>2. CASE ~cleanup.made
        BY <1>3, <2>2, NotMade
    <2> QED BY <2>1, <2>2
<1>9. AliasSeen' /\ AliasRight'
    BY <1>1, AliasStays
<1> QED BY <1>4, <1>5, <1>6, <1>7, <1>8, <1>9 DEF CleanupInv

(* Removing files that an entry names.                                      *)
NamedGone(gone) ==
    \A f \in gone :
        /\ archived'[f] = DiskInodes[f] \/ Deleted(f)
        /\ \E i \in Listed : f \in FilesOf(listing[i].path)
CleanupRow ==
    [phase : {"check", "apply", "done", "planned", "refused", "raised"}, at : Nat, ready : BOOLEAN, apply : BOOLEAN,
     archive : BOOLEAN, made : BOOLEAN]

LEMMA RemovalMoves ==
    ASSUME CleanupInv, cleanup.phase = "apply", UNCHANGED <<sizes, inUse, listing, receipt, ext, touched, diskChanges>>,
           NEW gone \in SUBSET DiskFiles, disk' = [f \in DiskFiles |-> IF f \in gone THEN Gone ELSE disk[f]],
           dirsGone \subseteq dirsGone', archived' \in [DiskFiles -> Nat], NamedGone(gone),
           \A f \in DiskFiles : f \notin gone => archived'[f] = archived[f],
           cleanup' \in CleanupRow, cleanup'.at >= 1, cleanup'.phase \in {"apply", "raised"},
           cleanup'.apply = cleanup.apply, cleanup'.ready = cleanup.ready, cleanup'.made = cleanup.made,
           cleanup'.phase = "apply" => \A i \in Listed : i < cleanup'.at => i < cleanup.at \/ Applied(i)'
    PROVE  CleanupInv'
<1>1. Listed' = Listed
    BY DEF Listed
<1>2. \A f \in DiskFiles : disk'[f] = (IF f \in gone THEN Gone ELSE disk[f])
    OBVIOUS
<1>3. CleanupShape'
    <2>1. disk \in [DiskFiles -> Nat] /\ \A f \in DiskFiles : disk[f] \in {DiskInodes[f], Gone}
        BY DEF CleanupInv, CleanupShape
    <2>2. disk' \in [DiskFiles -> Nat] /\ \A f \in DiskFiles : disk'[f] \in {DiskInodes[f], Gone}
        BY <2>1 DEF Gone
    <2>3. /\ Len(listing') \in Nat /\ DOMAIN listing' = Listed'
          /\ \A i \in Listed' : listing'[i].path \in DiskPaths /\ listing'[i].action \in {"delete", "archive", "other"}
        BY <1>1 DEF CleanupInv, CleanupShape
    <2>4. receipt' => cleanup'.phase = "done"
        <3>1. receipt => cleanup.phase = "done"
            BY DEF CleanupInv, CleanupShape
        <3> QED BY <3>1
    <2>5. /\ ext' \in [alias : {"link", "other link", "empty", "filled", "missing"}, mounted : BOOLEAN,
                run : {"none", "mounted", "not mounted", "ready", "refused"}, steady : BOOLEAN]
          /\ diskChanges' \in Nat
        BY DEF CleanupInv, CleanupShape
    <2> QED BY <2>2, <2>3, <2>4, <2>5 DEF CleanupShape, CleanupRow
<1>4. Accepted'
    <2>1. cleanup.apply /\ cleanup.ready /\ \A i \in Listed : Unprotected(i)
        BY DEF CleanupInv, Accepted
    <2> QED BY <1>1, <2>1 DEF Accepted, Unprotected
<1>5. GoneListed'
    <2>1. ASSUME NEW f \in DiskFiles, f \notin touched, disk'[f] = Gone
          PROVE  /\ archived'[f] = DiskInodes[f] \/ Deleted(f)
                 /\ \E i \in Listed : f \in FilesOf(listing[i].path)
        <3>1. CASE f \in gone
            BY <3>1 DEF NamedGone
        <3>2. CASE f \notin gone
            <4>1. disk[f] = Gone /\ archived'[f] = archived[f]
                BY <1>2, <2>1, <3>2
            <4> QED BY <2>1, <4>1 DEF CleanupInv, GoneListed, Untouched
        <3> QED BY <3>1, <3>2
    <2>2. ASSUME NEW f \in DiskFiles, archived'[f] # Gone PROVE disk'[f] = Gone
        <3>1. archived[f] # Gone => disk[f] = Gone
            BY DEF CleanupInv, GoneListed
        <3> QED BY <1>2, <2>2, <3>1
    <2>3. \A f : Deleted(f)' <=> Deleted(f)
        BY <1>1 DEF Deleted
    <2> QED BY <1>1, <2>1, <2>2, <2>3 DEF GoneListed, Untouched
<1>6. AppliedBehind'
    <2>1. ASSUME cleanup'.phase = "apply", NEW i \in Listed, i < cleanup'.at PROVE Applied(i)'
        <3>1. CASE i < cleanup.at
            <4>1. Applied(i)
                BY <3>1 DEF CleanupInv, AppliedBehind
            <4> QED BY <1>2, <4>1, AppliedStays
        <3>2. CASE ~(i < cleanup.at)
            BY <2>1, <3>2
        <3> QED BY <3>1, <3>2
    <2>2. cleanup'.phase = "apply" => \A i \in Listed : i < cleanup'.at => Applied(i)'
        BY <2>1
    <2>3. cleanup'.phase # "done"
        OBVIOUS
    <2> QED BY <1>1, <2>2, <2>3 DEF AppliedBehind
<1>7. MadeReady'
    <2>1. ~(cleanup'.phase \in {"check", "refused"})
        OBVIOUS
    <2>2. CASE cleanup.made
        BY <2>1, <2>2, MadeStays
    <2>3. CASE ~cleanup.made
        BY <2>3, NotMade
    <2> QED BY <2>2, <2>3
<1>8. AliasSeen' /\ AliasRight'
    BY AliasStays
<1> QED BY <1>3, <1>4, <1>5, <1>6, <1>7, <1>8 DEF CleanupInv

LEMMA NothingRemoved ==
    ASSUME CleanupInv, cleanup.phase = "apply", CleanupGoes("raised"),
           UNCHANGED <<disk, sizes, dirsGone, archived, inUse, listing, receipt, ext, touched, diskChanges>>
    PROVE  CleanupInv'
<1>1. disk \in [DiskFiles -> Nat] /\ archived' \in [DiskFiles -> Nat]
    BY DEF CleanupInv, CleanupShape
<1>2. disk' = [f \in DiskFiles |-> IF f \in {} THEN Gone ELSE disk[f]]
    BY <1>1
<1>3. /\ cleanup' \in CleanupRow /\ cleanup'.phase = "raised" /\ cleanup'.at >= 1 /\ cleanup'.ready = cleanup.ready
      /\ cleanup'.apply = cleanup.apply /\ cleanup'.made = cleanup.made
    BY CleanupGoesFields DEF CleanupRow
<1> DEFINE gone == {}
<1>4. gone \in SUBSET DiskFiles /\ NamedGone(gone)
    BY DEF NamedGone
<1>5. disk' = [f \in DiskFiles |-> IF f \in gone THEN Gone ELSE disk[f]]
    BY <1>2
<1> HIDE DEF gone
<1> QED BY <1>1, <1>3, <1>4, <1>5, RemovalMoves

(* What ApplyEntry takes away is what its entry names.                      *)
LEMMA TakenFacts ==
    ASSUME CleanupInv, NEW k \in Listed, Exists(listing[k].path),
           disk' = [f \in DiskFiles |-> IF f \in FilesAt(listing[k].path) THEN Gone ELSE disk[f]],
           dirsGone' = dirsGone \cup ({listing[k].path} \ DiskFiles), UNCHANGED <<listing, touched>>
    PROVE  /\ Applied(k)' /\ FilesAt(listing[k].path) \in SUBSET DiskFiles /\ dirsGone \subseteq dirsGone'
           /\ \A f \in FilesAt(listing[k].path) : disk[f] = DiskInodes[f] /\ f \in FilesOf(listing[k].path)
<1> DEFINE p == listing[k].path
<1>1. p \in DiskPaths /\ \A f \in DiskFiles : disk[f] \in {DiskInodes[f], Gone}
    BY DEF CleanupInv, CleanupShape
<1>2. FilesOf(p) \subseteq DiskFiles
    BY <1>1, FilesListed
<1>3. FilesAt(p) \subseteq FilesOf(p) /\ \A f \in FilesAt(p) : disk[f] # Gone
    BY DEF FilesAt
<1>4. \A f \in FilesAt(p) : disk[f] = DiskInodes[f] /\ f \in FilesOf(p)
    BY <1>1, <1>2, <1>3
<1>5. p \in DiskFiles => p \in FilesAt(p)
    BY DEF Exists, FilesAt, FilesOf
<1>6. IF p \in DiskFiles THEN disk'[p] = Gone ELSE p \in dirsGone'
    BY <1>5
<1>7. ASSUME NEW f \in FilesOf(p), f \notin ExternalFiles PROVE disk'[f] = Gone
    <2>1. disk[f] = Gone \/ f \in FilesAt(p)
        BY <1>7 DEF FilesAt, Reached
    <2> QED BY <1>2, <2>1
<1>8. Applied(k)'
    BY <1>6, <1>7 DEF Applied, Untouched
<1> QED BY <1>2, <1>3, <1>4, <1>8

LEMMA NextEntryFields ==
    ASSUME CleanupInv, NextEntry
    PROVE  /\ cleanup' \in CleanupRow /\ cleanup'.phase = cleanup.phase /\ cleanup'.at >= 1
           /\ cleanup'.ready = cleanup.ready /\ cleanup'.apply = cleanup.apply /\ cleanup'.made = cleanup.made
           /\ \A i \in Listed : i < cleanup'.at => i < cleanup.at \/ i = cleanup.at
<1>1. cleanup \in CleanupRow
    BY DEF CleanupInv, CleanupShape, CleanupRow
<1>2. cleanup.ready \in BOOLEAN
    BY <1>1 DEF CleanupRow
<1>3. cleanup' = [cleanup EXCEPT !.at = cleanup.at + 1, !.ready = cleanup.ready]
    <2>1. cleanup' = [cleanup EXCEPT !.at = cleanup.at + 1]
        BY DEF NextEntry
    <2> QED BY <1>1, <2>1 DEF CleanupRow
<1> QED BY <1>2, <1>3, EntryFields DEF CleanupRow

LEMMA ApplyEntryInv == ASSUME CleanupInv, ApplyEntry PROVE CleanupInv'
<1>a. cleanup.at \in Listed
    BY AtListed DEF ApplyEntry
<1>b. PICK k \in Listed : k = cleanup.at
    BY <1>a
<1> DEFINE e == listing[k]
           gone == FilesAt(e.path)
<1>1. /\ cleanup.phase = "apply" /\ cleanup.at <= Len(listing)
      /\ UNCHANGED <<sizes, inUse, listing, receipt, ext, touched, diskChanges>>
      /\ \/ CleanupGoes("raised") /\ UNCHANGED <<disk, dirsGone, archived>>
         \/ /\ Exists(e.path) /\ NextEntry
            /\ disk' = [f \in DiskFiles |-> IF f \in gone THEN Gone ELSE disk[f]]
            /\ dirsGone' = dirsGone \cup ({e.path} \ DiskFiles)
            /\ \/ e.action = "delete" /\ archived' = archived
               \/ archived' = [f \in DiskFiles |-> IF f \in gone THEN disk[f] ELSE archived[f]]
    BY <1>b DEF ApplyEntry, CleanupPhase
<1>2. CASE CleanupGoes("raised") /\ UNCHANGED <<disk, dirsGone, archived>>
    BY <1>1, <1>2, NothingRemoved
<1>3. CASE /\ Exists(e.path) /\ NextEntry
           /\ disk' = [f \in DiskFiles |-> IF f \in gone THEN Gone ELSE disk[f]]
           /\ dirsGone' = dirsGone \cup ({e.path} \ DiskFiles)
           /\ \/ e.action = "delete" /\ archived' = archived
              \/ archived' = [f \in DiskFiles |-> IF f \in gone THEN disk[f] ELSE archived[f]]
    <2>2. /\ Applied(k)' /\ gone \in SUBSET DiskFiles /\ dirsGone \subseteq dirsGone'
          /\ \A f \in gone : disk[f] = DiskInodes[f] /\ f \in FilesOf(e.path)
        BY <1>1, <1>3, TakenFacts
    <2>3. disk \in [DiskFiles -> Nat] /\ archived \in [DiskFiles -> Nat]
        BY DEF CleanupInv, CleanupShape
    <2> HIDE DEF gone
    <2>4. archived' \in [DiskFiles -> Nat] /\ \A f \in DiskFiles : f \notin gone => archived'[f] = archived[f]
        BY <1>3, <2>3
    <2>5. NamedGone(gone)
        <3>1. ASSUME NEW f \in gone PROVE archived'[f] = DiskInodes[f] \/ Deleted(f)
            <4>1. CASE e.action = "delete"
                BY <2>2, <4>1 DEF Deleted
            <4>2. CASE archived' = [j \in DiskFiles |-> IF j \in gone THEN disk[j] ELSE archived[j]]
                BY <2>2, <4>2
            <4> QED BY <1>3, <4>1, <4>2
        <3> QED BY <2>2, <3>1 DEF NamedGone
    <2>6. /\ cleanup' \in CleanupRow /\ cleanup'.phase = "apply" /\ cleanup'.at >= 1
          /\ cleanup'.ready = cleanup.ready /\ cleanup'.apply = cleanup.apply /\ cleanup'.made = cleanup.made
          /\ \A i \in Listed : i < cleanup'.at => i < cleanup.at \/ i = k
        BY <1>1, <1>3, <1>b, NextEntryFields
    <2>7. \A i \in Listed : i < cleanup'.at => i < cleanup.at \/ Applied(i)'
        BY <2>2, <2>6
    <2> QED BY <1>1, <1>3, <2>2, <2>4, <2>5, <2>6, <2>7, RemovalMoves
<1> QED BY <1>1, <1>2, <1>3

LEMMA DeleteBreaksInv == ASSUME CleanupInv, DeleteBreaks PROVE CleanupInv'
<1> DEFINE e == listing[cleanup.at]
<1>1. /\ cleanup.phase = "apply" /\ cleanup.at <= Len(listing) /\ CleanupGoes("raised") /\ e.action = "delete"
      /\ UNCHANGED <<sizes, dirsGone, archived, inUse, listing, receipt, ext, touched, diskChanges>>
      /\ \E some \in SUBSET FilesAt(e.path) : disk' = [f \in DiskFiles |-> IF f \in some THEN Gone ELSE disk[f]]
    BY DEF DeleteBreaks, CleanupPhase
<1>2. PICK some \in SUBSET FilesAt(e.path) : disk' = [f \in DiskFiles |-> IF f \in some THEN Gone ELSE disk[f]]
    BY <1>1
<1>3. cleanup.at \in Listed
    BY <1>1, AtListed
<1>4. e.path \in DiskPaths
    BY <1>3 DEF CleanupInv, CleanupShape
<1>5. some \in SUBSET DiskFiles /\ \A f \in some : f \in FilesOf(e.path)
    BY <1>4, FilesListed DEF FilesAt
<1>6. NamedGone(some)
    BY <1>1, <1>3, <1>5 DEF NamedGone, Deleted
<1>7. /\ cleanup' \in CleanupRow /\ cleanup'.phase = "raised" /\ cleanup'.at >= 1 /\ cleanup'.ready = cleanup.ready
      /\ cleanup'.apply = cleanup.apply /\ cleanup'.made = cleanup.made
    BY <1>1, CleanupGoesFields DEF CleanupRow
<1>8. archived' \in [DiskFiles -> Nat] /\ archived' = archived /\ dirsGone \subseteq dirsGone'
    BY <1>1 DEF CleanupInv, CleanupShape
<1> QED BY <1>1, <1>2, <1>5, <1>6, <1>7, <1>8, RemovalMoves

LEMMA AppliedAllInv == ASSUME CleanupInv, AppliedAll PROVE CleanupInv'
<1>1. /\ cleanup.phase = "apply" /\ cleanup.at > Len(listing) /\ receipt' = TRUE /\ CleanupGoes("done")
      /\ UNCHANGED <<disk, sizes, dirsGone, archived, inUse, listing, ext, touched, diskChanges>>
    BY DEF AppliedAll, CleanupPhase
<1>2. /\ cleanup' \in CleanupRow /\ cleanup'.phase = "done" /\ cleanup'.at >= 1 /\ cleanup'.ready = cleanup.ready
      /\ cleanup'.apply = cleanup.apply /\ cleanup'.made = cleanup.made
    BY <1>1, CleanupGoesFields DEF CleanupRow
<1>3. CleanupShape' /\ Listed' = Listed
    BY <1>1, <1>2 DEF CleanupInv, CleanupShape, Listed, CleanupRow
<1>4. Accepted'
    <2>1. cleanup.apply /\ cleanup.ready /\ \A i \in Listed : Unprotected(i)
        BY <1>1 DEF CleanupInv, Accepted
    <2> QED BY <1>1, <1>2, <1>3, <2>1 DEF Accepted, Unprotected
<1>5. GoneListed'
    BY <1>1, <1>2 DEF CleanupInv, GoneListed, Untouched, Deleted, Listed
<1>6. AppliedBehind'
    <2>1. \A i \in Listed : Applied(i)
        BY <1>1, AllBehind DEF CleanupInv, AppliedBehind
    <2>2. \A i \in Listed : Applied(i)'
        BY <1>1, <2>1, AppliedStays
    <2> QED BY <1>2, <1>3, <2>2 DEF AppliedBehind
<1>7. MadeReady'
    <2>1. ~(cleanup'.phase \in {"check", "refused"})
        BY <1>2
    <2>2. CASE cleanup.made
        BY <1>1, <1>2, <2>1, <2>2, MadeStays
    <2>3. CASE ~cleanup.made
        BY <1>2, <2>3, NotMade
    <2> QED BY <2>2, <2>3
<1>8. AliasSeen' /\ AliasRight'
    BY <1>1, AliasStays
<1> QED BY <1>3, <1>4, <1>5, <1>6, <1>7, <1>8 DEF CleanupInv

(* The layout script, the disk that comes and goes, other programs.         *)
ExtRow ==
    [alias : {"link", "other link", "empty", "filled", "missing"}, mounted : BOOLEAN,
     run : {"none", "mounted", "not mounted", "ready", "refused"}, steady : BOOLEAN]

LEMMA CleanupRests ==
    ASSUME CleanupInv, UNCHANGED <<disk, sizes, dirsGone, archived, listing, cleanup, receipt, touched>>,
           ext' \in ExtRow, diskChanges' \in Nat
    PROVE  CleanupShape' /\ Accepted' /\ GoneListed' /\ AppliedBehind'
<1>1. CleanupShape'
    BY DEF CleanupInv, CleanupShape, ExtRow, Listed
<1>2. Accepted'
    BY DEF CleanupInv, Accepted, Unprotected, Listed
<1>3. GoneListed'
    BY DEF CleanupInv, GoneListed, Untouched, Deleted, Listed
<1>4. AppliedBehind'
    <2>1. \A i \in Listed : Applied(i) => Applied(i)'
        BY AppliedStays
    <2> QED BY <2>1 DEF CleanupInv, AppliedBehind, Listed
<1> QED BY <1>1, <1>2, <1>3, <1>4

LEMMA LookInv == ASSUME CleanupInv, LayoutLook PROVE CleanupInv'
<1> DEFINE seen == IF ext.mounted THEN "mounted" ELSE "not mounted"
<1>1. /\ UNCHANGED <<disk, sizes, dirsGone, archived, inUse, listing, cleanup, receipt, touched, diskChanges>>
      /\ ext' = [ext EXCEPT !.run = seen, !.steady = TRUE]
    BY DEF LayoutLook
<1>2. ext \in ExtRow /\ diskChanges \in Nat
    BY DEF CleanupInv, CleanupShape, ExtRow
<1>3. seen \in {"mounted", "not mounted"} /\ (seen = "mounted" => ext.mounted) /\ (seen = "not mounted" => ~ext.mounted)
    OBVIOUS
<1> HIDE DEF seen
<1>4. ext' \in ExtRow /\ ext'.run = seen /\ ext'.mounted = ext.mounted /\ ext'.alias = ext.alias
    BY <1>1, <1>2, <1>3 DEF ExtRow
<1>5. CleanupShape' /\ Accepted' /\ GoneListed' /\ AppliedBehind'
    BY <1>1, <1>2, <1>4, CleanupRests
<1>6. AliasSeen' /\ AliasRight'
    BY <1>3, <1>4 DEF AliasSeen, AliasRight
<1>7. MadeReady'
    <2> SUFFICES ASSUME cleanup.made PROVE MadeReady'
        BY <1>1 DEF MadeReady
    <2>1. /\ \A i \in Listed : ListedAsMade(i)
          /\ NothingChanged /\ cleanup.phase \in {"check", "refused"} =>
                cleanup.phase = "check" /\ cleanup.ready /\ disk = DiskInodes /\ sizes = FirstSizes /\ dirsGone = {}
        BY DEF CleanupInv, MadeReady
    <2>2. \A i \in Listed : ListedAsMade(i)'
        BY <1>1, <1>4, <2>1 DEF ListedAsMade, Unprotected
    <2>3. (ext'.run = "mounted" => ext'.mounted) /\ (ext'.run = "not mounted" => ~ext'.mounted)
        BY <1>3, <1>4
    <2> QED BY <1>1, <2>1, <2>2, <2>3 DEF MadeReady, NothingChanged, Listed
<1> QED BY <1>5, <1>6, <1>7 DEF CleanupInv

LEMMA ActInv == ASSUME CleanupInv, LayoutAct PROVE CleanupInv'
<1>1. /\ UNCHANGED <<disk, sizes, dirsGone, archived, inUse, listing, cleanup, receipt, touched, diskChanges>>
      /\ ext.run \in {"mounted", "not mounted"}
      /\ \/ ext.alias = "other link" /\ ext' = [ext EXCEPT !.run = "refused"]
         \/ /\ ext.alias \in {"link", "missing"} /\ ext.run = "not mounted"
            /\ ext' = [ext EXCEPT !.run = "ready", !.alias = "empty"]
         \/ /\ ext.alias \in {"empty", "missing"} /\ ext.run = "mounted"
            /\ ext' = [ext EXCEPT !.run = "ready", !.alias = "link"]
         \/ /\ ext.alias # "other link" /\ ~(ext.alias \in {"link", "missing"} /\ ext.run = "not mounted")
            /\ ~(ext.alias \in {"empty", "missing"} /\ ext.run = "mounted")
            /\ ext' = [ext EXCEPT !.run = "ready"]
    BY DEF LayoutAct
<1>2. ext \in ExtRow /\ diskChanges \in Nat
    BY DEF CleanupInv, CleanupShape, ExtRow
<1>3. ext' \in ExtRow /\ ext'.mounted = ext.mounted /\ ext'.run \in {"ready", "refused"} /\ ext'.steady = ext.steady
    BY <1>1, <1>2 DEF ExtRow
<1>4. CleanupShape' /\ Accepted' /\ GoneListed' /\ AppliedBehind'
    BY <1>1, <1>2, <1>3, CleanupRests
<1>5. AliasSeen'
    BY <1>3 DEF AliasSeen
<1>6. AliasRight'
    <2>1. ext.steady => (ext.run = "mounted" => ext.mounted) /\ (ext.run = "not mounted" => ~ext.mounted)
        BY DEF CleanupInv, AliasSeen
    <2>2. ext.mounted \in BOOLEAN /\ ext.alias \in {"link", "other link", "empty", "filled", "missing"}
        BY <1>2 DEF ExtRow
    <2>3. CASE ext' = [ext EXCEPT !.run = "refused"]
        BY <1>2, <2>3 DEF AliasRight, ExtRow
    <2>4. CASE ext.run = "not mounted" /\ ext' = [ext EXCEPT !.run = "ready", !.alias = "empty"]
        <3>1. ext'.alias = "empty" /\ ext'.mounted = ext.mounted /\ ext'.steady = ext.steady
            BY <1>2, <2>4 DEF ExtRow
        <3> QED BY <2>1, <2>2, <2>4, <3>1 DEF AliasRight
    <2>5. CASE ext.run = "mounted" /\ ext' = [ext EXCEPT !.run = "ready", !.alias = "link"]
        <3>1. ext'.alias = "link" /\ ext'.mounted = ext.mounted /\ ext'.steady = ext.steady
            BY <1>2, <2>5 DEF ExtRow
        <3> QED BY <2>1, <2>2, <2>5, <3>1 DEF AliasRight
    <2>6. CASE /\ ext.alias # "other link" /\ ~(ext.alias \in {"link", "missing"} /\ ext.run = "not mounted")
               /\ ~(ext.alias \in {"empty", "missing"} /\ ext.run = "mounted")
               /\ ext' = [ext EXCEPT !.run = "ready"]
        <3>1. ext'.alias = ext.alias /\ ext'.mounted = ext.mounted /\ ext'.steady = ext.steady
            BY <1>2, <2>6 DEF ExtRow
        <3>2. \/ ext.alias = "filled" \/ (ext.alias = "link" /\ ext.run = "mounted")
              \/ (ext.alias = "empty" /\ ext.run = "not mounted")
            BY <1>1, <2>2, <2>6
        <3> QED BY <2>1, <2>2, <3>1, <3>2 DEF AliasRight
    <2> QED BY <1>1, <2>3, <2>4, <2>5, <2>6
<1>7. MadeReady'
    <2> SUFFICES ASSUME cleanup.made PROVE MadeReady'
        BY <1>1 DEF MadeReady
    <2>1. /\ \A i \in Listed : ListedAsMade(i)
          /\ NothingChanged /\ cleanup.phase \in {"check", "refused"} =>
                cleanup.phase = "check" /\ cleanup.ready /\ disk = DiskInodes /\ sizes = FirstSizes /\ dirsGone = {}
          /\ diskChanges = 0 => (ext.run = "mounted" => ext.mounted) /\ (ext.run = "not mounted" => ~ext.mounted)
        BY DEF CleanupInv, MadeReady
    <2>2. ASSUME diskChanges = 0, ext.mounted, ext.alias = "link" PROVE ext'.mounted /\ ext'.alias = "link"
        <3>1. ext.run = "mounted"
            BY <1>1, <2>1, <2>2
        <3>2. ext' = [ext EXCEPT !.run = "ready"]
            BY <1>1, <2>2, <3>1
        <3> QED BY <1>2, <2>2, <3>2 DEF ExtRow
    <2>3. \A i \in Listed : ListedAsMade(i)'
        BY <1>1, <2>1, <2>2 DEF ListedAsMade, Unprotected
    <2>4. ext'.run # "mounted" /\ ext'.run # "not mounted"
        BY <1>3
    <2> QED BY <1>1, <2>1, <2>3, <2>4 DEF MadeReady, NothingChanged, Listed
<1> QED BY <1>4, <1>5, <1>6, <1>7 DEF CleanupInv

(* After a change by others a manifest is no longer promised anything.      *)
LEMMA MadeChanged ==
    ASSUME CleanupInv, UNCHANGED <<listing, cleanup>>, diskChanges' = diskChanges + 1
    PROVE  MadeReady' /\ diskChanges' \in Nat
<1>1. diskChanges' \in Nat /\ diskChanges' # 0
    <2>1. diskChanges \in Nat
        BY DEF CleanupInv, CleanupShape
    <2> QED BY <2>1
<1>2. ASSUME cleanup.made PROVE \A i \in Listed : ListedAsMade(i)'
    <2>1. \A i \in Listed : ListedAsMade(i)
        BY <1>2 DEF CleanupInv, MadeReady
    <2> QED BY <1>1, <2>1 DEF ListedAsMade, Unprotected
<1>3. ~NothingChanged'
    BY <1>1 DEF NothingChanged
<1> QED BY <1>1, <1>2, <1>3 DEF MadeReady, Listed

LEMMA ExternalInv == ASSUME CleanupInv, ExternalChanges PROVE CleanupInv'
<1>1. /\ UNCHANGED <<disk, sizes, dirsGone, archived, inUse, listing, cleanup, receipt, touched>>
      /\ diskChanges' = diskChanges + 1
      /\ \/ ext' = [ext EXCEPT !.mounted = ~@, !.steady = FALSE]
         \/ ext' = [ext EXCEPT !.alias = "filled"]
    BY DEF ExternalChanges
<1>2. ext \in ExtRow
    BY DEF CleanupInv, CleanupShape, ExtRow
<1>3. MadeReady' /\ diskChanges' \in Nat
    BY <1>1, MadeChanged
<1>4. ext' \in ExtRow /\ AliasSeen' /\ AliasRight'
    <2>1. CASE ext' = [ext EXCEPT !.mounted = ~@, !.steady = FALSE]
        <3> DEFINE m == ~ext.mounted
        <3>1. m \in BOOLEAN /\ ext' = [ext EXCEPT !.mounted = m, !.steady = FALSE]
            BY <2>1
        <3> HIDE DEF m
        <3>2. ext' \in ExtRow /\ ext'.steady = FALSE
            BY <1>2, <3>1 DEF ExtRow
        <3> QED BY <3>2 DEF AliasSeen, AliasRight
    <2>2. CASE ext' = [ext EXCEPT !.alias = "filled"]
        <3>1. ext' \in ExtRow /\ ext'.alias = "filled" /\ ext'.mounted = ext.mounted /\ ext'.run = ext.run /\ ext'.steady = ext.steady
            BY <1>2, <2>2 DEF ExtRow
        <3> QED BY <3>1 DEF CleanupInv, AliasSeen, AliasRight
    <2> QED BY <1>1, <2>1, <2>2
<1>5. CleanupShape' /\ Accepted' /\ GoneListed' /\ AppliedBehind'
    BY <1>1, <1>3, <1>4, CleanupRests
<1> QED BY <1>3, <1>4, <1>5 DEF CleanupInv

LEMMA DiskChangesInv == ASSUME CleanupInv, NEW f \in DiskFiles, DiskChanges(f) PROVE CleanupInv'
<1>1. /\ UNCHANGED <<dirsGone, archived, listing, cleanup, receipt, ext>> /\ diskChanges' = diskChanges + 1
      /\ \/ /\ disk' = disk \/ disk' = [disk EXCEPT ![f] = Gone]
            /\ touched' = touched \cup {g \in DiskFiles : disk[g] = disk[f]}
         \/ disk' = disk /\ touched' = touched
    BY DEF DiskChanges
<1>2. disk \in [DiskFiles -> Nat] /\ \A g \in DiskFiles : disk[g] \in {DiskInodes[g], Gone}
    BY DEF CleanupInv, CleanupShape
<1>3. /\ disk' \in [DiskFiles -> Nat] /\ touched \subseteq touched'
      /\ \A g \in DiskFiles : (disk[g] = Gone => disk'[g] = Gone) /\ (disk'[g] = disk[g] \/ (g \in touched' /\ disk'[g] = Gone))
    <2>1. CASE disk' = disk /\ touched \subseteq touched'
        BY <1>2, <2>1
    <2>2. CASE disk' = [disk EXCEPT ![f] = Gone] /\ touched' = touched \cup {g \in DiskFiles : disk[g] = disk[f]}
        <3>1. disk' \in [DiskFiles -> Nat] /\ disk'[f] = Gone /\ \A g \in DiskFiles : g # f => disk'[g] = disk[g]
            BY <1>2, <2>2 DEF Gone
        <3>2. f \in touched' /\ touched \subseteq touched'
            BY <2>2
        <3> QED BY <3>1, <3>2
    <2> QED BY <1>1, <2>1, <2>2
<1>4. MadeReady' /\ diskChanges' \in Nat
    BY <1>1, MadeChanged
<1>5. CleanupShape'
    <2>1. \A g \in DiskFiles : disk'[g] \in {DiskInodes[g], Gone}
        BY <1>2, <1>3
    <2>2. /\ Len(listing') \in Nat /\ DOMAIN listing' = Listed'
          /\ \A i \in Listed' : listing'[i].path \in DiskPaths /\ listing'[i].action \in {"delete", "archive", "other"}
        BY <1>1 DEF CleanupInv, CleanupShape, Listed
    <2>3. archived' \in [DiskFiles -> Nat] /\ cleanup' \in CleanupRow /\ ext' \in ExtRow /\ cleanup'.at >= 1
        <3>1. archived \in [DiskFiles -> Nat] /\ cleanup \in CleanupRow /\ ext \in ExtRow /\ cleanup.at >= 1
            BY DEF CleanupInv, CleanupShape, CleanupRow, ExtRow
        <3>2. archived' = archived /\ cleanup' = cleanup /\ ext' = ext
            BY <1>1
        <3> QED BY <3>1, <3>2
    <2>4. receipt' => cleanup'.phase = "done"
        BY <1>1 DEF CleanupInv, CleanupShape
    <2> QED BY <1>3, <1>4, <2>1, <2>2, <2>3, <2>4 DEF CleanupShape, CleanupRow, ExtRow
<1>6. Accepted'
    BY <1>1 DEF CleanupInv, Accepted, Unprotected, Listed
<1>7. GoneListed'
    <2>1. ASSUME NEW g \in DiskFiles, g \notin touched', disk'[g] = Gone
          PROVE  /\ cleanup.phase \in {"apply", "done", "raised"} /\ (archived[g] = DiskInodes[g] \/ Deleted(g))
                 /\ \E i \in Listed : g \in FilesOf(listing[i].path)
        BY <1>3, <2>1 DEF CleanupInv, GoneListed, Untouched
    <2>2. \A g \in DiskFiles : archived[g] # Gone => disk'[g] = Gone
        BY <1>3 DEF CleanupInv, GoneListed
    <2>3. Listed' = Listed /\ \A g : Deleted(g)' <=> Deleted(g)
        BY <1>1 DEF Deleted, Listed
    <2> QED BY <1>1, <2>1, <2>2, <2>3 DEF GoneListed, Untouched
<1>8. AppliedBehind'
    <2>1. \A i \in Listed : Applied(i) => Applied(i)'
        BY <1>1, <1>3, AppliedStays
    <2> QED BY <1>1, <2>1 DEF CleanupInv, AppliedBehind, Listed
<1>9. AliasSeen' /\ AliasRight'
    BY <1>1, AliasStays
<1> QED BY <1>4, <1>5, <1>6, <1>7, <1>8, <1>9 DEF CleanupInv

LEMMA CleanupInvStep == ASSUME CleanupInv, CleanupNext PROVE CleanupInv'
BY CheckEntryInv, CheckedAllInv, ApplyEntryInv, DeleteBreaksInv, AppliedAllInv, LookInv, ActInv, ExternalInv, DiskChangesInv
   DEF CleanupNext

LEMMA CleanupInvUnchanged == ASSUME CleanupInv, UNCHANGED cleanupVars PROVE CleanupInv'
<1>1. UNCHANGED <<disk, sizes, dirsGone, archived, inUse, listing, cleanup, receipt, ext, touched, diskChanges>>
    BY DEF cleanupVars
<1>2. ext' \in ExtRow /\ diskChanges' \in Nat
    BY <1>1 DEF CleanupInv, CleanupShape, ExtRow
<1>3. CleanupShape' /\ Accepted' /\ GoneListed' /\ AppliedBehind'
    BY <1>1, <1>2, CleanupRests
<1>4. AliasSeen' /\ AliasRight'
    BY <1>1, AliasStays
<1>5. MadeReady'
    <2>1. CASE cleanup.made
        <3>1. NothingChanged' => NothingChanged
            BY <1>1 DEF NothingChanged
        <3> QED BY <1>1, <2>1, <3>1, MadeStays DEF CleanupInv, MadeReady
    <2>2. CASE ~cleanup.made
        BY <1>1, <2>2, NotMade
    <2> QED BY <2>1, <2>2
<1> QED BY <1>3, <1>4, <1>5 DEF CleanupInv

-----------------------------------------------------------------------------
(* The fleet.                                                               *)
FleetOrderInv ==
    /\ FleetInv /\ CoordInv /\ ProxyInv
    /\ focus = "update" => UpdateInv
    /\ focus = "cleanup" => CleanupInv

LEMMA CoordInvStep ==
    ASSUME CoordInv, CoordinatorNext
    PROVE  CoordInv' /\ UNCHANGED <<ranks, forked, cmd>>
BY CoordinatorSteps, CoordinatorStarts DEF CoordinatorNext

LEMMA CoordInvUnchanged == ASSUME CoordInv, UNCHANGED <<coord, envs>> PROVE CoordInv'
BY DEF CoordInv, CoordShape, HealthyIsNew

LEMMA FleetOrderInit == PartsInit => FleetOrderInv
<1> SUFFICES ASSUME PartsInit PROVE FleetOrderInv
    OBVIOUS
<1>1. LifecycleStart /\ UpkeepInit /\ OperatorInit
    BY DEF PartsInit, OperatorInit
<1>2. FleetInv /\ CoordInv
    BY <1>1, FleetInitInv, CoordInitInv
<1>3. ProxyInv
    <2>1. "n1" \in ProxyNodes /\ "n2" \in ProxyNodes
        BY ProxyInstance
    <2>2. CASE focus = "proxy"
        <3>1. PICK route \in {"auto", "200g", "wifi"}, ends \in ProxyEnds : ProxyStart("n1", route, <<"n2">>, <<"n2">>, ends)
            BY <1>1, <2>2 DEF OperatorInit
        <3> QED BY <2>1, <3>1, ProxyInitInv
    <2>3. CASE focus # "proxy"
        <3>1. ProxyStart("n1", "10g", <<"n2">>, <<"n2">>, <<"refuses">>)
            BY <1>1, <2>3 DEF OperatorInit
        <3> QED BY <2>1, <3>1, ProxyInitInv
    <2> QED BY <2>2, <2>3
<1>4. focus = "update" => UpdateInv
    BY <1>1, UpdateInitInv DEF UpkeepInit
<1>5. focus = "cleanup" => CleanupInv
    BY <1>1, CleanupInitInv DEF UpkeepInit
<1> QED BY <1>2, <1>3, <1>4, <1>5 DEF FleetOrderInv

LEMMA FleetOrderStep ==
    FleetOrderInv /\ [PartsNext]_<<focus, kvParts, configParts, servingParts, operatorParts, upkeepParts>> => FleetOrderInv'
<1> SUFFICES ASSUME FleetOrderInv, [PartsNext]_<<focus, kvParts, configParts, servingParts, operatorParts, upkeepParts>>
             PROVE  FleetOrderInv'
    OBVIOUS
<1>1. /\ OperatorNext \/ UNCHANGED operatorParts
      /\ UpkeepNext \/ UNCHANGED upkeepParts
      /\ focus' = focus
    BY DEF PartsNext
<1>2. /\ \/ FleetNext \/ CoordinatorNext \/ UNCHANGED lifecycleVars
      /\ SshProxyNext \/ UNCHANGED proxyVars
    BY <1>1 DEF OperatorNext, operatorParts
<1>3. /\ focus = "update" => UpdateNext \/ UNCHANGED updateVars
      /\ focus = "cleanup" => CleanupNext \/ UNCHANGED cleanupVars
    BY <1>1 DEF UpkeepNext, upkeepParts
<1>4. FleetInv /\ CoordInv /\ ProxyInv
    BY DEF FleetOrderInv
<1>5. FleetInv' /\ CoordInv'
    <2>1. CASE FleetNext
        BY <1>4, <2>1, FleetInvStep, CoordInvUnchanged
    <2>2. CASE CoordinatorNext
        BY <1>4, <2>2, CoordInvStep, FleetInvUnchanged
    <2>3. CASE UNCHANGED lifecycleVars
        BY <1>4, <2>3, CoordInvUnchanged, FleetInvUnchanged DEF lifecycleVars
    <2> QED BY <1>2, <2>1, <2>2, <2>3
<1>6. ProxyInv'
    BY <1>2, <1>4, ProxyInvStep, ProxyInvUnchanged
<1>7. ASSUME focus = "update" PROVE UpdateInv'
    BY <1>3, <1>7, UpdateInvStep, UpdateInvUnchanged DEF FleetOrderInv
<1>8. ASSUME focus = "cleanup" PROVE CleanupInv'
    BY <1>3, <1>8, CleanupInvStep, CleanupInvUnchanged DEF FleetOrderInv
<1> QED BY <1>1, <1>5, <1>6, <1>7, <1>8 DEF FleetOrderInv

(* The fleet is as its commands said they left it, for every fleet, every   *)
(* set of routes, every state the checkouts are found in and every manifest *)
(* that names files and directories of the disk: no rank of an old launch   *)
(* beside new ones, a coordinator called healthy is the new one, routes of  *)
(* the proxy in order, no drift between nodes called updated, and nothing   *)
(* removed but what a manifest that was found ready lists (_run_action,     *)
(* relaunch of the coordinator, the loop over the routes,                   *)
(* ds4_update_spark_nodes.sh, main of ds4_layout_cleanup).                  *)
THEOREM FleetStaysInOrder == PartsSpec => []FleetInOrder
<1>1. PartsInit => FleetOrderInv
    BY FleetOrderInit
<1>2. FleetOrderInv => FleetInOrder
    BY FleetInvProperties, CoordInvProperties, ProxyInvProperties, UpdateInvProperties, CleanupInvProperties
       DEF FleetOrderInv, FleetInOrder
<1> QED BY <1>1, <1>2, FleetOrderStep, PTL DEF PartsSpec
=============================================================================
