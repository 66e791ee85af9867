--------------------------- MODULE AnswersProofs ---------------------------
(***************************************************************************)
(* Who waits for an answer gets one: the invariants of the parts that      *)
(* answer callers (JitKv, Cohort, BatchClients, CpuBatch), proved of the   *)
(* instances of MCProgress.                                                *)
(***************************************************************************)
EXTENDS ProgressProofs

-----------------------------------------------------------------------------
(* Prefetches.  What a thread sends is known when it is sent; a record      *)
(* keeps its fields.                                                        *)
PrestageRecords == [pc : {"idle", "posting", "sent", "raised"}, kind : PrestageKinds, kv : BOOLEAN, fetched : BOOLEAN]
CircuitInv ==
    /\ prestage \in [CohortThreads -> PrestageRecords]
    /\ KvOnlyIfFetched

LEMMA CircuitInitInv == CircuitInit => CircuitInv
<1> SUFFICES ASSUME CircuitInit PROVE CircuitInv
    OBVIOUS
<1>1. Idle \in PrestageRecords /\ Idle.pc = "idle"
    BY DEF Idle, PrestageRecords, PrestageKinds
<1>2. prestage = [t \in CohortThreads |-> Idle]
    BY DEF CircuitInit
<1> QED BY <1>1, <1>2 DEF CircuitInv, KvOnlyIfFetched

(* A thread takes a record that is right when it is sent.                   *)
LEMMA PrestageMoves ==
    ASSUME CircuitInv, NEW t \in CohortThreads, NEW r \in PrestageRecords, r.pc = "sent" => (r.kv <=> r.fetched),
           prestage' = [prestage EXCEPT ![t] = r]
    PROVE  CircuitInv'
<1>1. prestage \in [CohortThreads -> PrestageRecords]
    BY DEF CircuitInv
<1>2. /\ prestage' \in [CohortThreads -> PrestageRecords] /\ prestage'[t] = r
      /\ \A u \in CohortThreads \ {t} : prestage'[u] = prestage[u]
    BY <1>1
<1>3. ASSUME NEW u \in CohortThreads, prestage'[u].pc = "sent" PROVE prestage'[u].kv <=> prestage'[u].fetched
    <2>1. CASE u = t
        BY <1>2, <1>3, <2>1
    <2>2. CASE u # t
        BY <1>2, <1>3, <2>2 DEF CircuitInv, KvOnlyIfFetched
    <2> QED BY <2>1, <2>2
<1> QED BY <1>2, <1>3 DEF CircuitInv, KvOnlyIfFetched

LEMMA SentMoves ==
    ASSUME CircuitInv, NEW t \in CohortThreads, NEW b \in BOOLEAN, Sent(t, b, b)
    PROVE  CircuitInv'
<1>1. prestage[t] \in PrestageRecords
    BY DEF CircuitInv
<1> DEFINE r == [pc |-> "sent", kind |-> prestage[t].kind, kv |-> b, fetched |-> b]
<1>2. r \in PrestageRecords /\ r.pc = "sent" /\ r.kv = b /\ r.fetched = b
    BY <1>1 DEF PrestageRecords
<1>3. prestage' = [prestage EXCEPT ![t] = r]
    BY DEF Sent
<1> HIDE DEF r
<1> QED BY <1>2, <1>3, PrestageMoves

LEMMA RaisedMoves ==
    ASSUME CircuitInv, NEW t \in CohortThreads, Raised(t)
    PROVE  CircuitInv'
<1>1. prestage[t] \in PrestageRecords /\ prestage \in [CohortThreads -> PrestageRecords]
    BY DEF CircuitInv
<1> DEFINE r == [prestage[t] EXCEPT !.pc = "raised"]
<1>2. r \in PrestageRecords /\ r.pc = "raised"
    BY <1>1 DEF PrestageRecords
<1>3. prestage' = [prestage EXCEPT ![t] = r]
    BY <1>1 DEF Raised
<1> HIDE DEF r
<1> QED BY <1>2, <1>3, PrestageMoves

LEMMA PrestageInv ==
    ASSUME CircuitInv, NEW t \in CohortThreads, NEW k \in PrestageKinds, Prestage(t, k)
    PROVE  CircuitInv'
<1> DEFINE R(pc, kv) == [pc |-> pc, kind |-> k, kv |-> kv, fetched |-> FALSE]
<1>1. PICK pc \in {"sent", "raised", "posting"}, kv \in BOOLEAN :
          prestage' = [prestage EXCEPT ![t] = R(pc, kv)] /\ (pc = "sent" => kv = FALSE)
    BY DEF Prestage, PrestageKinds
<1>2. R(pc, kv) \in PrestageRecords /\ (R(pc, kv).pc = "sent" => (R(pc, kv).kv <=> R(pc, kv).fetched))
    BY <1>1 DEF PrestageRecords
<1> DEFINE r == R(pc, kv)
<1>3. r \in PrestageRecords /\ (r.pc = "sent" => (r.kv <=> r.fetched)) /\ prestage' = [prestage EXCEPT ![t] = r]
    BY <1>1, <1>2
<1> HIDE DEF r
<1> QED BY <1>3, PrestageMoves

LEMMA CircuitInvStep ==
    ASSUME CircuitInv, [CircuitNext]_circuitVars
    PROVE  CircuitInv'
<1>1. ASSUME UNCHANGED prestage PROVE CircuitInv'
    BY <1>1 DEF CircuitInv, KvOnlyIfFetched
<1>2. ASSUME NEW t \in CohortThreads, NEW k \in PrestageKinds, Prestage(t, k) PROVE CircuitInv'
    BY <1>2, PrestageInv
<1>3. ASSUME NEW t \in CohortThreads, PrefetchOk(t) PROVE CircuitInv'
    <2>1. Sent(t, TRUE, TRUE)
        BY <1>3 DEF PrefetchOk
    <2> QED BY <2>1, SentMoves
<1>4. ASSUME NEW t \in CohortThreads, ColdDispatch(t) \/ Raised(t) PROVE CircuitInv'
    <2>1. Sent(t, FALSE, FALSE) \/ Raised(t)
        BY <1>4 DEF ColdDispatch
    <2> QED BY <2>1, SentMoves, RaisedMoves
<1>5. ASSUME NEW t \in CohortThreads, PrefetchRefused(t) \/ PrefetchFailed(t) PROVE CircuitInv'
    BY <1>4, <1>5 DEF PrefetchRefused, PrefetchFailed
<1>6. ASSUME NEW t \in CohortThreads, CohortEnds(t) PROVE CircuitInv'
    <2>1. prestage' = [prestage EXCEPT ![t] = Idle]
        BY <1>6 DEF CohortEnds
    <2>2. Idle \in PrestageRecords /\ Idle.pc = "idle"
        BY DEF Idle, PrestageRecords, PrestageKinds
    <2> QED BY <2>1, <2>2, PrestageMoves
<1>7. CircuitTick \/ CircuitPrune \/ UNCHANGED circuitVars => UNCHANGED prestage
    BY DEF CircuitTick, CircuitPrune, circuitVars
<1> QED BY <1>1, <1>2, <1>3, <1>5, <1>6, <1>7 DEF CircuitNext

-----------------------------------------------------------------------------
(* Cohorts.                                                                 *)
Verdicts == {"none", "whole", "short", "cut", "failed"}
Fits(c, chunk) ==
    \/ Len(chunk) = 1
    \/ Len(chunk) \in 2..MaxCohort /\ (TokenBudget > 0 => Tokens(c, chunk) <= TokenBudget)

(* The chunks left to run, of each thread w[i].                             *)
WorkFits(c, w) == w \in Seq(Seq(Seq(DOMAIN c.items))) /\ \A i \in DOMAIN w : \A j \in DOMAIN w[i] : Fits(c, w[i][j])
WorkHolds(w, m) == \E i \in DOMAIN w : \E j \in DOMAIN w[i] : m \in Range(w[i][j])
OneEach(w) == \A i \in DOMAIN w : Len(w[i]) <= 1

(* What is left to run fits and holds whoever has no result, and no member  *)
(* has two.                                                                 *)
CohortShape ==
    /\ cohort \in Cohorts /\ mode \in {"pool", "post", "stream", "single"} /\ WorkFits(cohort, work)
    /\ answer \in [Members -> Verdicts] /\ calls \in [Members -> {0, 1}]
    /\ returned \in BOOLEAN /\ cancelEvent \in BOOLEAN
CohortInv ==
    /\ CohortShape
    /\ ~returned => \A m \in Members : calls[m] = 0 <=> answer[m] = "none"
    /\ ~returned /\ ~cancelEvent => \A m \in Members : answer[m] = "none" => WorkHolds(work, m)
    /\ returned => Unfinished = {} /\ \A m \in Members : answer[m] # "none"
    /\ returned /\ ~cancelEvent => \A m \in Members : calls[m] = 1
    /\ mode = "pool" => OneEach(work)

(* Folds over a sequence.  FoldLeft goes down from the greatest index, so   *)
(* it is a function on sets of indices; F is its operator as a function.    *)
FoldsUp(g, F, b, s, S) ==
    g = [U \in SUBSET S |-> IF U = {} THEN b ELSE F[<<g[U \ {Max(U)}], s[Max(U)]>>]]

LEMMA MaxIn ==
    ASSUME NEW U \in SUBSET Nat, IsFiniteSet(U), U # {}
    PROVE  Max(U) \in U /\ \A k \in U : Max(U) >= k
<1>1. \E m \in U : \A k \in U : m >= k
    BY FiniteMax
<1> QED BY <1>1 DEF Max

LEMMA MaxOfPrefix ==
    ASSUME NEW k \in Nat \ {0}
    PROVE  Max(1..k) = k /\ (1..k) \ {k} = 1..(k - 1) /\ 1..k # {}
<1>1. k \in 1..k /\ \A x \in 1..k : k >= x /\ (x >= k => x = k)
    OBVIOUS
<1> DEFINE U == 1..k
<1>2. k \in U /\ \A x \in U : k >= x /\ (x >= k => x = k)
    BY <1>1
<1> HIDE DEF U
<1>3. Max(U) = k
    BY <1>2 DEF Max
<1>4. (1..k) \ {k} = 1..(k - 1)
    OBVIOUS
<1> QED BY <1>1, <1>3, <1>4 DEF U

FoldBoth(g, h, F, b, s, S, R) ==
    /\ S \in SUBSET Nat /\ IsFiniteSet(S) /\ R \in SUBSET S
    /\ FoldsUp(g, F, b, s, S) /\ FoldsUp(h, F, b, s, R)

LEMMA FoldsUpUnique ==
    ASSUME NEW S, NEW R, NEW F, NEW b, NEW s, NEW g, NEW h, FoldBoth(g, h, F, b, s, S, R)
    PROVE  g[R] = h[R]
<1> USE DEF FoldBoth
<1> DEFINE T == {U \in SUBSET R : g[U] = h[U]}
<1>1. IsFiniteSet(R)
    BY FS_Subset
<1>2. ASSUME NEW U \in SUBSET R, \A V \in SUBSET U : V # U => V \in T
      PROVE  U \in T
    <2>1. CASE U = {}
        BY <2>1 DEF FoldsUp
    <2>2. CASE U # {}
        <3>1. Max(U) \in U
            <4>1. U \in SUBSET Nat /\ IsFiniteSet(U)
                BY <1>1, FS_Subset
            <4> QED BY <2>2, <4>1, MaxIn
        <3>2. g[U \ {Max(U)}] = h[U \ {Max(U)}]
            BY <1>2, <3>1
        <3>3. g[U] = F[<<g[U \ {Max(U)}], s[Max(U)]>>] /\ h[U] = F[<<h[U \ {Max(U)}], s[Max(U)]>>]
            <4>1. U \in SUBSET S
                OBVIOUS
            <4> QED BY <2>2, <4>1 DEF FoldsUp
        <3> QED BY <3>2, <3>3
    <2> QED BY <2>1, <2>2
<1>3. \A U \in SUBSET R : (\A V \in SUBSET U : V # U => V \in T) => U \in T
    BY <1>2
<1>4. SUBSET R \subseteq T
    <2> HIDE DEF T
    <2> QED BY <1>1, <1>3, SubsetInduction
<1> QED BY <1>4

(* Such a function and its base may be folded over the indices S of s.      *)
Foldable(F, b, s, S, A, B) ==
    /\ F \in [B \X A -> B] /\ b \in B
    /\ S \in SUBSET Nat /\ IsFiniteSet(S) /\ \A i \in S : s[i] \in A

LEMMA FoldsUpExists ==
    ASSUME NEW F, NEW b, NEW s, NEW S, NEW A, NEW B, Foldable(F, b, s, S, A, B)
    PROVE  \E g \in [SUBSET S -> B] : FoldsUp(g, F, b, s, S)
<1> DEFINE T == {U \in SUBSET S : \E g \in [SUBSET U -> B] : FoldsUp(g, F, b, s, U)}
<1> USE DEF Foldable
<1>0. \A U \in SUBSET S : U \in SUBSET Nat /\ IsFiniteSet(U)
    BY FS_Subset
<1>1. ASSUME NEW U \in SUBSET S, \A V \in SUBSET U : V # U => V \in T
      PROVE  U \in T
    <2>1. CASE U = {}
        <3> DEFINE g == [V \in SUBSET U |-> b]
        <3>1. g \in [SUBSET U -> B] /\ FoldsUp(g, F, b, s, U)
            BY <2>1 DEF FoldsUp
        <3> HIDE DEF g
        <3> QED BY <3>1
    <2>2. CASE U # {}
        <3> DEFINE h(V) == CHOOSE g \in [SUBSET V -> B] : FoldsUp(g, F, b, s, V)
                   a == Max(U)
        <3>1. a \in U /\ a \in S
            BY <1>0, <2>2, MaxIn
        <3>2. ASSUME NEW V \in SUBSET U, V # U
              PROVE  h(V) \in [SUBSET V -> B] /\ FoldsUp(h(V), F, b, s, V)
            <4>1. \E g \in [SUBSET V -> B] : FoldsUp(g, F, b, s, V)
                BY <1>1, <3>2
            <4> QED BY <4>1
        <3> DEFINE g == [V \in SUBSET U |-> IF V = U THEN F[<<h(U \ {a})[U \ {a}], s[a]>>] ELSE h(V)[V]]
        <3> HIDE DEF h
        <3>3. g \in [SUBSET U -> B]
            <4>1. F[<<h(U \ {a})[U \ {a}], s[a]>>] \in B
                <5>1. U \ {a} \in SUBSET U /\ U \ {a} # U
                    BY <3>1
                <5>2. h(U \ {a}) \in [SUBSET (U \ {a}) -> B]
                    BY <3>2, <5>1
                <5>3. U \ {a} \in SUBSET (U \ {a})
                    OBVIOUS
                <5> HIDE DEF a
                <5>4. h(U \ {a})[U \ {a}] \in B /\ s[a] \in A
                    BY <3>1, <5>2, <5>3
                <5> QED BY <5>4
            <4>2. \A V \in SUBSET U : V # U => h(V)[V] \in B
                BY <3>2
            <4> QED BY <4>1, <4>2
        <3>4. ASSUME NEW V \in SUBSET U
              PROVE  g[V] = IF V = {} THEN b ELSE F[<<g[V \ {Max(V)}], s[Max(V)]>>]
            <4>1. CASE V = U
                BY <2>2, <3>1, <4>1
            <4>2. CASE V # U
                <5>1. g[V] = h(V)[V] /\ FoldsUp(h(V), F, b, s, V)
                    BY <3>2, <4>2
                <5>2. CASE V = {}
                    BY <5>1, <5>2 DEF FoldsUp
                <5>3. CASE V # {}
                    <6> DEFINE p == V \ {Max(V)}
                    <6>1. Max(V) \in V /\ p \in SUBSET U /\ p # U /\ p \in SUBSET V
                        BY <1>0, <5>3, MaxIn
                    <6>2. g[p] = h(p)[p] /\ FoldsUp(h(p), F, b, s, p)
                        BY <3>2, <6>1
                    <6>3. IsFiniteSet(V) /\ V \in SUBSET Nat
                        BY <1>0
                    <6>4. h(V)[p] = h(p)[p]
                        <7> DEFINE hv == h(V)
                                   hp == h(p)
                        <7>1. FoldsUp(hv, F, b, s, V) /\ FoldsUp(hp, F, b, s, p) /\ p \subseteq V /\ V \subseteq Nat
                            BY <5>1, <6>1, <6>2, <6>3
                        <7>2. IsFiniteSet(V)
                            BY <6>3
                        <7> HIDE DEF p, hv, hp
                        <7>3. FoldBoth(hv, hp, F, b, s, V, p)
                            BY <7>1, <7>2 DEF FoldBoth
                        <7>4. hv[p] = hp[p]
                            BY <7>3, FoldsUpUnique
                        <7> QED BY <7>4 DEF hv, hp
                    <6>5. h(V)[V] = F[<<h(V)[p], s[Max(V)]>>]
                        BY <5>1, <5>3 DEF FoldsUp
                    <6> QED BY <5>1, <5>3, <6>2, <6>4, <6>5
                <5> QED BY <5>2, <5>3
            <4> QED BY <4>1, <4>2
        <3>5. FoldsUp(g, F, b, s, U)
            <4> HIDE DEF g
            <4>1. g = [V \in SUBSET U |-> g[V]]
                BY <3>3
            <4> QED BY <3>4, <4>1 DEF FoldsUp
        <3> HIDE DEF g
        <3> QED BY <3>3, <3>5
    <2> QED BY <2>1, <2>2
<1> HIDE DEF T
<1>2. SUBSET S \subseteq T
    <2>1. IsFiniteSet(S) /\ \A U \in SUBSET S : (\A V \in SUBSET U : V # U => V \in T) => U \in T
        BY <1>1
    <2> QED BY <2>1, SubsetInduction
<1> QED BY <1>2 DEF T

FoldLike(g, F, b, s, B, S) ==
    /\ g[{}] = b
    /\ \A U \in SUBSET S : U # {} /\ g[U \ {Max(U)}] \in B => g[U] = F[<<g[U \ {Max(U)}], s[Max(U)]>>]

(* What such a function gives is a run over the sequence.                   *)
LEMMA FoldLikeRun ==
    ASSUME NEW n \in Nat, NEW F, NEW b, NEW s, NEW A, NEW B, Foldable(F, b, s, 1..n, A, B),
           NEW g, FoldLike(g, F, b, s, B, 1..n)
    PROVE  \E r \in [0..n -> B] : /\ r[0] = b
                                  /\ \A k \in 1..n : r[k] = F[<<r[k - 1], s[k]>>]
                                  /\ r[n] = g[1..n]
<1> USE DEF Foldable
<1> DEFINE G(k) == g[1..k]
<1>1. G(0) = b
    <2>1. 1..0 = {}
        OBVIOUS
    <2> QED BY <2>1 DEF FoldLike
<1>2. ASSUME NEW k \in 1..n, G(k - 1) \in B PROVE G(k) = F[<<G(k - 1), s[k]>>]
    <2>1. k \in Nat \ {0} /\ 1..k \in SUBSET (1..n)
        OBVIOUS
    <2>2. Max(1..k) = k /\ (1..k) \ {k} = 1..(k - 1) /\ 1..k # {}
        BY <2>1, MaxOfPrefix
    <2> DEFINE U == 1..k
    <2>3. U \in SUBSET (1..n) /\ U # {} /\ Max(U) = k /\ U \ {Max(U)} = 1..(k - 1)
        BY <2>1, <2>2
    <2> HIDE DEF U
    <2>4. g[U \ {Max(U)}] \in B
        BY <1>2, <2>3
    <2>5. g[U] = F[<<g[U \ {Max(U)}], s[Max(U)]>>]
        BY <2>3, <2>4 DEF FoldLike
    <2>6. g[U] = F[<<g[1..(k - 1)], s[k]>>]
        BY <2>3, <2>5
    <2> QED BY <2>6 DEF U
<1> DEFINE T == {k \in Nat : k <= n => G(k) \in B}
<1>3. 0 \in T
    BY <1>1
<1>4. ASSUME NEW k \in Nat, k \in T PROVE k + 1 \in T
    <2> SUFFICES ASSUME k + 1 <= n PROVE G(k + 1) \in B
        OBVIOUS
    <2>1. k + 1 \in 1..n /\ k <= n /\ (k + 1) - 1 = k
        OBVIOUS
    <2>2. G(k) \in B
        BY <1>4, <2>1
    <2> HIDE DEF G, T
    <2>3. G(k + 1) = F[<<G(k), s[k + 1]>>]
        BY <1>2, <2>1, <2>2
    <2> QED BY <2>1, <2>2, <2>3
<1>5. \A k \in 0..n : G(k) \in B
    <2>1. Nat \subseteq T
        <3> HIDE DEF T
        <3> QED BY <1>3, <1>4, NaturalsReached
    <2> HIDE DEF G
    <2> QED BY <2>1
<1> DEFINE r == [k \in 0..n |-> G(k)]
<1> HIDE DEF G
<1>6. r \in [0..n -> B] /\ r[0] = b /\ r[n] = G(n)
    BY <1>1, <1>5
<1>7. ASSUME NEW k \in 1..n PROVE r[k] = F[<<r[k - 1], s[k]>>]
    <2>1. k \in 0..n /\ k - 1 \in 0..n
        OBVIOUS
    <2> QED BY <1>2, <1>5, <2>1
<1> HIDE DEF r
<1> QED BY <1>6, <1>7 DEF G

(* The cohort's members, and what a chunk of them costs.                    *)
LEMMA CohortItems ==
    ASSUME NEW c \in Cohorts
    PROVE  /\ Len(c.items) \in Nat /\ DOMAIN c.items = 1..Len(c.items)
           /\ \A m \in DOMAIN c.items : c.items[m].tokens \in Nat
           /\ MembersOf(c) \in Seq(DOMAIN c.items) /\ Len(MembersOf(c)) = Len(c.items)
           /\ \A m \in DOMAIN c.items : MembersOf(c)[m] = m
<1>1. c.items \in Seq(Range(c.items)) /\ \A x \in Range(c.items) : x.tokens \in Nat
    BY CohortAssumption
<1> DEFINE q == c.items
           R == Range(q)
<1>2. q \in Seq(R)
    BY <1>1
<1>3. Len(q) \in Nat /\ DOMAIN q = 1..Len(q) /\ \A m \in DOMAIN q : q[m] \in R
    <2> HIDE DEF q, R
    <2> QED BY <1>2
<1>4. \A m \in DOMAIN c.items : c.items[m].tokens \in Nat
    BY <1>1, <1>3
<1>5. /\ MembersOf(c) \in Seq(DOMAIN q) /\ Len(MembersOf(c)) = Len(q) /\ \A m \in DOMAIN q : MembersOf(c)[m] = m
    <2>1. MembersOf(c) = [i \in 1..Len(q) |-> i]
        BY <1>3 DEF MembersOf
    <2> HIDE DEF q
    <2> QED BY <1>3, <2>1
<1> QED BY <1>3, <1>4, <1>5

LEMMA TokensRun ==
    ASSUME NEW c \in Cohorts, NEW chunk \in Seq(DOMAIN c.items)
    PROVE  \E r \in [0..Len(chunk) -> Nat] :
              /\ r[0] = 0 /\ r[Len(chunk)] = Tokens(c, chunk)
              /\ \A k \in 1..Len(chunk) : r[k] = r[k - 1] + c.items[chunk[k]].tokens
<1> DEFINE A == DOMAIN c.items
           n == Len(chunk)
           F == [p \in Nat \X A |-> p[1] + c.items[p[2]].tokens]
           Folds(iter) == iter = [U \in SUBSET (DOMAIN chunk) |->
                                    IF U = {} THEN 0 ELSE iter[U \ {Max(U)}] + c.items[chunk[Max(U)]].tokens]
           g == CHOOSE iter : Folds(iter)
<1>1. Tokens(c, chunk) = g[DOMAIN chunk]
    BY DEF Tokens, FoldLeft, MapThenFoldSet
<1>2. n \in Nat /\ DOMAIN chunk = 1..n /\ \A i \in 1..n : chunk[i] \in A
    OBVIOUS
<1>3. F \in [Nat \X A -> Nat] /\ \A x \in Nat, a \in A : F[<<x, a>>] = x + c.items[a].tokens
    BY CohortItems
<1> DEFINE S == 1..n
<1>4. S \in SUBSET Nat /\ IsFiniteSet(S) /\ \A U \in SUBSET S : U # {} => Max(U) \in U
    <2>1. IsFiniteSet(S)
        <3>1. 1 \in Int /\ n \in Int
            BY <1>2
        <3> HIDE DEF n
        <3> QED BY <3>1, FS_Interval
    <2>2. S \in SUBSET Nat
        OBVIOUS
    <2> HIDE DEF S
    <2> QED BY <2>1, <2>2, FS_Subset, MaxIn
<1> HIDE DEF F
<1>5. PICK h \in [SUBSET S -> Nat] : FoldsUp(h, F, 0, chunk, S)
    <2>1. Foldable(F, 0, chunk, S, A, Nat)
        BY <1>2, <1>3, <1>4 DEF Foldable
    <2> HIDE DEF S, A
    <2> QED BY <2>1, FoldsUpExists
<1>6. Folds(h)
    <2>1. ASSUME NEW U \in SUBSET S, U # {}
          PROVE  F[<<h[U \ {Max(U)}], chunk[Max(U)]>>] = h[U \ {Max(U)}] + c.items[chunk[Max(U)]].tokens
        <3>1. U \ {Max(U)} \in SUBSET S /\ chunk[Max(U)] \in A
            BY <1>2, <1>4, <2>1
        <3>2. h[U \ {Max(U)}] \in Nat
            BY <3>1
        <3> HIDE DEF A
        <3> QED BY <1>3, <3>1, <3>2
    <2> QED BY <1>2, <1>5, <2>1 DEF FoldsUp
<1>7. Folds(g)
    <2> HIDE DEF Folds
    <2> QED BY <1>6
<1>8. FoldLike(g, F, 0, chunk, Nat, S)
    <2> HIDE DEF g
    <2>1. g[{}] = 0
        BY <1>7
    <2>2. ASSUME NEW U \in SUBSET S, U # {}, g[U \ {Max(U)}] \in Nat
          PROVE  g[U] = F[<<g[U \ {Max(U)}], chunk[Max(U)]>>]
        <3>1. chunk[Max(U)] \in A
            BY <1>2, <1>4, <2>2
        <3>2. g[U] = g[U \ {Max(U)}] + c.items[chunk[Max(U)]].tokens
            BY <1>2, <1>7, <2>2
        <3> HIDE DEF A
        <3> QED BY <1>3, <2>2, <3>1, <3>2
    <2> QED BY <2>1, <2>2 DEF FoldLike
<1>9. PICK r \in [0..n -> Nat] : /\ r[0] = 0
                                 /\ \A k \in 1..n : r[k] = F[<<r[k - 1], chunk[k]>>]
                                 /\ r[n] = g[1..n]
    <2>1. n \in Nat /\ Foldable(F, 0, chunk, 1..n, A, Nat)
        BY <1>2, <1>3, <1>4 DEF Foldable
    <2> HIDE DEF g, n, A
    <2> QED BY <1>8, <2>1, FoldLikeRun
<1>10. ASSUME NEW k \in 1..n PROVE r[k] = r[k - 1] + c.items[chunk[k]].tokens
    <2>1. k - 1 \in 0..n
        BY <1>2
    <2>2. r[k - 1] \in Nat /\ chunk[k] \in A
        BY <1>2, <2>1
    <2> HIDE DEF A, n
    <2> QED BY <1>3, <1>9, <2>2
<1> QED BY <1>1, <1>2, <1>9, <1>10

(* A part of a chunk costs the difference of two sums of the chunk's run.   *)
TokenRun(c, s, r) ==
    /\ r \in [0..Len(s) -> Nat] /\ r[0] = 0 /\ r[Len(s)] = Tokens(c, s)
    /\ \A k \in 1..Len(s) : r[k] = r[k - 1] + c.items[s[k]].tokens
PartFrom(q, s, a) == a + Len(q) <= Len(s) /\ \A k \in 1..Len(q) : q[k] = s[a + k]

LEMMA TokensPart ==
    ASSUME NEW c \in Cohorts, NEW s \in Seq(DOMAIN c.items), NEW q \in Seq(DOMAIN c.items), NEW a \in Nat,
           PartFrom(q, s, a), NEW r, TokenRun(c, s, r)
    PROVE  Tokens(c, q) = r[a + Len(q)] - r[a]
<1> DEFINE t(i) == c.items[i].tokens
           L == Len(q)
<1>1. PICK z \in [0..L -> Nat] : z[0] = 0 /\ z[L] = Tokens(c, q) /\ \A k \in 1..L : z[k] = z[k - 1] + t(q[k])
    BY TokensRun
<1>2. L \in Nat /\ Len(s) \in Nat /\ a + L <= Len(s) /\ \A k \in 1..L : q[k] = s[a + k] /\ q[k] \in DOMAIN c.items
    BY DEF PartFrom
<1>3. /\ \A i \in 0..Len(s) : r[i] \in Nat
      /\ \A k \in 1..Len(s) : r[k] = r[k - 1] + t(s[k])
    BY DEF TokenRun
<1>t. \A k \in 1..L : t(q[k]) \in Nat
    BY <1>2, CohortItems
<1> DEFINE T == {k \in Nat : k <= L => z[k] = r[a + k] - r[a]}
<1>4. 0 \in T
    BY <1>1, <1>2, <1>3
<1>5. ASSUME NEW k \in Nat, k \in T PROVE k + 1 \in T
    <2> SUFFICES ASSUME k + 1 <= L PROVE z[k + 1] = r[a + (k + 1)] - r[a]
        OBVIOUS
    <2> HIDE DEF L, t
    <2>1. z[k] = r[a + k] - r[a]
        BY <1>2, <1>5
    <2>2. k + 1 \in 1..L /\ a + (k + 1) \in 1..Len(s) /\ (k + 1) - 1 = k /\ (a + (k + 1)) - 1 = a + k
        BY <1>2
    <2>3. z[k + 1] = z[k] + t(q[k + 1])
        BY <1>1, <2>2
    <2>4. r[a + (k + 1)] = r[a + k] + t(s[a + (k + 1)])
        BY <1>3, <2>2
    <2>5. r[a + k] \in Nat /\ r[a] \in Nat /\ t(q[k + 1]) \in Nat /\ q[k + 1] = s[a + (k + 1)]
        <3>1. a + k \in 0..Len(s) /\ a \in 0..Len(s)
            <4> DEFINE N == Len(s)
            <4>1. N \in Nat /\ a + (k + 1) \in 1..N
                BY <1>2, <2>2
            <4> HIDE DEF N
            <4>2. a + k \in 0..N /\ a \in 0..N
                BY <4>1
            <4> QED BY <4>2 DEF N
        <3> QED BY <1>2, <1>3, <1>t, <2>2, <3>1
    <2> QED BY <2>1, <2>3, <2>4, <2>5
<1>6. Nat \subseteq T
    <2> HIDE DEF T
    <2> QED BY <1>4, <1>5, NaturalsReached
<1> HIDE DEF L
<1>7. z[L] = r[a + L] - r[a]
    BY <1>2, <1>6
<1> QED BY <1>1, <1>7 DEF L

LEMMA TokenRunExists ==
    ASSUME NEW c \in Cohorts, NEW s \in Seq(DOMAIN c.items)
    PROVE  \E r : TokenRun(c, s, r)
BY TokensRun DEF TokenRun

(* Sums of a run grow.                                                      *)
LEMMA TokenRunGrows ==
    ASSUME NEW c \in Cohorts, NEW s \in Seq(DOMAIN c.items), NEW r, TokenRun(c, s, r), NEW a \in 0..Len(s)
    PROVE  r[a] \in Nat /\ r[a] <= Tokens(c, s)
<1> DEFINE n == Len(s)
           t(i) == c.items[i].tokens
<1>1. n \in Nat /\ \A k \in 1..n : s[k] \in DOMAIN c.items
    OBVIOUS
<1>2. /\ \A i \in 0..n : r[i] \in Nat
      /\ \A k \in 1..n : r[k] = r[k - 1] + t(s[k])
      /\ r[n] = Tokens(c, s)
    BY DEF TokenRun
<1>t. \A k \in 1..n : t(s[k]) \in Nat
    BY <1>1, CohortItems
<1> HIDE DEF n, t
<1> DEFINE T == {k \in Nat : a + k <= n => r[a] <= r[a + k]}
<1>a. a \in 0..n
    BY DEF n
<1>3. 0 \in T
    BY <1>1, <1>2, <1>a
<1>4. ASSUME NEW k \in Nat, k \in T PROVE k + 1 \in T
    <2> SUFFICES ASSUME a + (k + 1) <= n PROVE r[a] <= r[a + (k + 1)]
        OBVIOUS
    <2>1. r[a] <= r[a + k]
        BY <1>1, <1>4, <1>a
    <2>2. a + (k + 1) \in 1..n /\ a + k \in 0..n /\ (a + (k + 1)) - 1 = a + k
        BY <1>1, <1>a
    <2>3. r[a + (k + 1)] = r[a + k] + t(s[a + (k + 1)])
        BY <1>2, <2>2
    <2>4. r[a] \in Nat /\ r[a + k] \in Nat /\ t(s[a + (k + 1)]) \in Nat
        BY <1>2, <1>t, <1>a, <2>2
    <2> QED BY <2>1, <2>3, <2>4
<1>5. Nat \subseteq T
    <2> HIDE DEF T
    <2> QED BY <1>3, <1>4, NaturalsReached
<1>6. n - a \in Nat /\ a + (n - a) = n
    BY <1>1, <1>a
<1>7. r[a] <= r[n]
    <2>1. n - a \in T
        BY <1>5, <1>6
    <2> QED BY <1>1, <1>6, <2>1
<1> QED BY <1>2, <1>7, <1>a

LEMMA TokensAppended ==
    ASSUME NEW c \in Cohorts, NEW s \in Seq(DOMAIN c.items), NEW m \in DOMAIN c.items
    PROVE  /\ Append(s, m) \in Seq(DOMAIN c.items)
           /\ Tokens(c, s) \in Nat
           /\ Tokens(c, Append(s, m)) = Tokens(c, s) + c.items[m].tokens
<1> DEFINE A == DOMAIN c.items
           q == Append(s, m)
           n == Len(s)
<1>1. q \in Seq(A) /\ Len(q) = n + 1 /\ n \in Nat /\ q[n + 1] = m /\ \A k \in 1..n : s[k] = q[k]
    <2>1. s \in Seq(A) /\ m \in A
        OBVIOUS
    <2> HIDE DEF A
    <2> QED BY <2>1
<1> HIDE DEF q
<1>2. PICK r : TokenRun(c, q, r)
    BY <1>1, TokenRunExists
<1>3. PartFrom(s, q, 0)
    BY <1>1 DEF PartFrom
<1>4. Tokens(c, s) = r[0 + n] - r[0]
    BY <1>1, <1>2, <1>3, TokensPart
<1>5. r[0] = 0 /\ r[n + 1] = Tokens(c, q) /\ r[n] \in Nat /\ r[n + 1] = r[n] + c.items[m].tokens
    <2>1. n + 1 \in 1..Len(q) /\ n \in 0..Len(q) /\ (n + 1) - 1 = n
        BY <1>1
    <2> QED BY <1>1, <1>2, <2>1 DEF TokenRun
<1>6. Tokens(c, s) = r[n]
    <2>1. 0 + n = n
        BY <1>1
    <2> QED BY <1>4, <1>5, <2>1
<1> QED BY <1>1, <1>5, <1>6 DEF q

LEMMA TokensOfPart ==
    ASSUME NEW c \in Cohorts, NEW s \in Seq(DOMAIN c.items), NEW q \in Seq(DOMAIN c.items), NEW a \in Nat, PartFrom(q, s, a)
    PROVE  Tokens(c, q) <= Tokens(c, s) /\ Tokens(c, q) \in Int /\ Tokens(c, s) \in Nat
<1> DEFINE L == Len(q)
<1>1. PICK r : TokenRun(c, s, r)
    BY TokenRunExists
<1>2. L \in Nat /\ a \in 0..Len(s) /\ a + L \in 0..Len(s) /\ Len(s) \in 0..Len(s)
    BY DEF PartFrom
<1>3. Tokens(c, q) = r[a + L] - r[a]
    BY <1>1, TokensPart
<1> HIDE DEF L
<1>4. r[a] \in Nat /\ r[a + L] \in Nat /\ r[a + L] <= Tokens(c, s)
    BY <1>1, <1>2, TokenRunGrows
<1>5. Tokens(c, s) \in Nat
    BY <1>1, <1>2 DEF TokenRun
<1> QED BY <1>3, <1>4, <1>5

(* CohortChunks, a request after the other.                                 *)
AddTo(c, chunks, m) ==
    IF chunks = <<>> \/ ChunkFull(c, Last(chunks), m)
    THEN Append(chunks, <<m>>)
    ELSE Front(chunks) \o <<Append(Last(chunks), m)>>

LEMMA AddToType ==
    ASSUME NEW c, NEW A, NEW chunks \in Seq(Seq(A)), NEW m \in A
    PROVE  AddTo(c, chunks, m) \in Seq(Seq(A))
<1>1. <<m>> \in Seq(A)
    OBVIOUS
<1>2. CASE chunks = <<>> \/ ChunkFull(c, Last(chunks), m)
    BY <1>1, <1>2 DEF AddTo
<1>3. CASE ~(chunks = <<>> \/ ChunkFull(c, Last(chunks), m))
    <2>1. Last(chunks) \in Seq(A) /\ Front(chunks) \in Seq(Seq(A))
        <3>1. chunks # <<>>
            BY <1>3
        <3> DEFINE B == Seq(A)
        <3>2. chunks \in Seq(B)
            OBVIOUS
        <3> HIDE DEF B
        <3>3. Last(chunks) \in B /\ Front(chunks) \in Seq(B)
            BY <3>1, <3>2 DEF Last, Front
        <3> QED BY <3>3 DEF B
    <2>2. Append(Last(chunks), m) \in Seq(A)
        BY <2>1
    <2> DEFINE x == Append(Last(chunks), m)
               B == Seq(A)
    <2>3. x \in B /\ Front(chunks) \in Seq(B)
        BY <2>1, <2>2
    <2>4. AddTo(c, chunks, m) = Front(chunks) \o <<x>>
        BY <1>3 DEF AddTo
    <2> HIDE DEF x, B
    <2>5. AddTo(c, chunks, m) \in Seq(B)
        BY <2>3, <2>4
    <2> QED BY <2>5 DEF B
<1> QED BY <1>2, <1>3

LEMMA ChunksRun ==
    ASSUME NEW c \in Cohorts, NEW group \in Seq(DOMAIN c.items)
    PROVE  \E r \in [0..Len(group) -> Seq(Seq(DOMAIN c.items))] :
              /\ r[0] = <<>> /\ r[Len(group)] = CohortChunks(c, group)
              /\ \A k \in 1..Len(group) : r[k] = AddTo(c, r[k - 1], group[k])
<1> DEFINE A == DOMAIN c.items
           B == Seq(Seq(A))
           n == Len(group)
           F == [p \in B \X A |-> AddTo(c, p[1], p[2])]
           Folds(iter) == iter = [U \in SUBSET (DOMAIN group) |->
                                    IF U = {} THEN <<>> ELSE AddTo(c, iter[U \ {Max(U)}], group[Max(U)])]
           g == CHOOSE iter : Folds(iter)
<1>1. CohortChunks(c, group) = g[DOMAIN group]
    BY DEF CohortChunks, FoldLeft, MapThenFoldSet, AddTo
<1>2. n \in Nat /\ DOMAIN group = 1..n /\ \A i \in 1..n : group[i] \in A
    OBVIOUS
<1>3. F \in [B \X A -> B] /\ \A x \in B, a \in A : F[<<x, a>>] = AddTo(c, x, a)
    BY AddToType
<1>b. <<>> \in B
    OBVIOUS
<1> HIDE DEF B
<1> DEFINE S == 1..n
<1>4. S \in SUBSET Nat /\ IsFiniteSet(S) /\ \A U \in SUBSET S : U # {} => Max(U) \in U
    <2>1. IsFiniteSet(S)
        <3>1. 1 \in Int /\ n \in Int
            BY <1>2
        <3> HIDE DEF n
        <3> QED BY <3>1, FS_Interval
    <2>2. S \in SUBSET Nat
        OBVIOUS
    <2> HIDE DEF S
    <2> QED BY <2>1, <2>2, FS_Subset, MaxIn
<1> HIDE DEF F
<1>5. PICK h \in [SUBSET S -> B] : FoldsUp(h, F, <<>>, group, S)
    <2>1. Foldable(F, <<>>, group, S, A, B)
        BY <1>2, <1>3, <1>4, <1>b DEF Foldable
    <2> HIDE DEF S, A
    <2> QED BY <2>1, FoldsUpExists
<1>6. Folds(h)
    <2>1. ASSUME NEW U \in SUBSET S, U # {}
          PROVE  F[<<h[U \ {Max(U)}], group[Max(U)]>>] = AddTo(c, h[U \ {Max(U)}], group[Max(U)])
        <3>1. U \ {Max(U)} \in SUBSET S /\ group[Max(U)] \in A
            BY <1>2, <1>4, <2>1
        <3>2. h[U \ {Max(U)}] \in B
            BY <3>1
        <3> HIDE DEF A
        <3> QED BY <1>3, <3>1, <3>2
    <2> QED BY <1>2, <1>5, <2>1 DEF FoldsUp
<1>7. Folds(g)
    <2> HIDE DEF Folds
    <2> QED BY <1>6
<1>8. FoldLike(g, F, <<>>, group, B, S)
    <2> HIDE DEF g
    <2>1. g[{}] = <<>>
        BY <1>7
    <2>2. ASSUME NEW U \in SUBSET S, U # {}, g[U \ {Max(U)}] \in B
          PROVE  g[U] = F[<<g[U \ {Max(U)}], group[Max(U)]>>]
        <3>1. group[Max(U)] \in A
            BY <1>2, <1>4, <2>2
        <3>2. g[U] = AddTo(c, g[U \ {Max(U)}], group[Max(U)])
            BY <1>2, <1>7, <2>2
        <3> HIDE DEF A
        <3> QED BY <1>3, <2>2, <3>1, <3>2
    <2> QED BY <2>1, <2>2 DEF FoldLike
<1>9. PICK r \in [0..n -> B] : /\ r[0] = <<>>
                               /\ \A k \in 1..n : r[k] = F[<<r[k - 1], group[k]>>]
                               /\ r[n] = g[1..n]
    <2>1. n \in Nat /\ Foldable(F, <<>>, group, 1..n, A, B)
        BY <1>2, <1>3, <1>4, <1>b DEF Foldable
    <2> HIDE DEF g, n, A
    <2> QED BY <1>8, <2>1, FoldLikeRun
<1>10. ASSUME NEW k \in 1..n PROVE r[k] = AddTo(c, r[k - 1], group[k])
    <2>1. k - 1 \in 0..n
        BY <1>2
    <2>2. r[k - 1] \in B /\ group[k] \in A
        BY <1>2, <2>1
    <2> HIDE DEF A, n
    <2> QED BY <1>3, <1>9, <2>2
<1> QED BY <1>1, <1>2, <1>9, <1>10 DEF B

(* Every chunk fits, and every request added so far is in one.              *)
ChunkHolds(chunks, m) == \E j \in DOMAIN chunks : m \in Range(chunks[j])
AllFit(c, chunks) == \A j \in DOMAIN chunks : Fits(c, chunks[j])

LEMMA AddToFits ==
    ASSUME NEW c \in Cohorts, NEW chunks \in Seq(Seq(DOMAIN c.items)), NEW m \in DOMAIN c.items, AllFit(c, chunks)
    PROVE  /\ AllFit(c, AddTo(c, chunks, m))
           /\ ChunkHolds(AddTo(c, chunks, m), m)
           /\ \A x : ChunkHolds(chunks, x) => ChunkHolds(AddTo(c, chunks, m), x)
<1> DEFINE A == DOMAIN c.items
           B == Seq(A)
           z == AddTo(c, chunks, m)
           n == Len(chunks)
<1>0. chunks \in Seq(B) /\ n \in Nat /\ DOMAIN chunks = 1..n /\ \A j \in 1..n : chunks[j] \in B
    OBVIOUS
<1>1. CASE chunks = <<>> \/ ChunkFull(c, Last(chunks), m)
    <2>1. z = Append(chunks, <<m>>) /\ <<m>> \in B
        <3>1. <<m>> \in B
            <4>1. m \in A
                OBVIOUS
            <4> HIDE DEF A
            <4> QED BY <4>1
        <3>2. z = Append(chunks, <<m>>)
            BY <1>1 DEF AddTo
        <3> QED BY <3>1, <3>2
    <2> HIDE DEF B, z
    <2>2. DOMAIN z = 1..(n + 1) /\ z[n + 1] = <<m>> /\ \A j \in 1..n : z[j] = chunks[j]
        BY <1>0, <2>1
    <2>3. Fits(c, <<m>>) /\ m \in Range(<<m>>)
        BY DEF Fits, Range
    <2> HIDE DEF n
    <2>4. \A j \in DOMAIN z : j = n + 1 \/ j \in 1..n
        BY <1>0, <2>2
    <2>5. AllFit(c, z)
        BY <1>0, <2>2, <2>3, <2>4 DEF AllFit
    <2>6. n + 1 \in DOMAIN z /\ \A j \in 1..n : j \in DOMAIN z
        BY <1>0, <2>2
    <2>7. ChunkHolds(z, m)
        BY <2>2, <2>3, <2>6 DEF ChunkHolds
    <2>8. \A x : ChunkHolds(chunks, x) => ChunkHolds(z, x)
        BY <1>0, <2>2, <2>6 DEF ChunkHolds
    <2> QED BY <2>5, <2>7, <2>8 DEF z
<1>2. CASE chunks # <<>> /\ ~ChunkFull(c, Last(chunks), m)
    <2> DEFINE s == chunks[n]
               y == Append(s, m)
    <2>1. n \in Nat \ {0} /\ s \in B /\ Last(chunks) = s
        BY <1>0, <1>2 DEF Last
    <2>2. z = Front(chunks) \o <<y>> /\ y \in B /\ Front(chunks) \in Seq(B)
        <3>1. y \in B
            <4>1. s \in Seq(A) /\ m \in A
                BY <2>1
            <4> HIDE DEF A, s
            <4> QED BY <4>1
        <3>2. z = Front(chunks) \o <<y>>
            BY <1>2, <2>1 DEF AddTo
        <3> HIDE DEF B
        <3>3. Front(chunks) \in Seq(B)
            BY <1>0, <2>1 DEF Front
        <3> QED BY <3>1, <3>2, <3>3
    <2> HIDE DEF z, y
    <2>3. DOMAIN z = 1..n /\ z[n] = y /\ \A j \in 1..(n - 1) : z[j] = chunks[j]
        <3> HIDE DEF B
        <3>1. Len(Front(chunks)) = n - 1 /\ \A j \in 1..(n - 1) : Front(chunks)[j] = chunks[j]
            BY <1>0, <2>1 DEF Front
        <3> DEFINE f == Front(chunks)
        <3> HIDE DEF f, n
        <3>2. f \in Seq(B) /\ z = f \o <<y>> /\ Len(f) = n - 1 /\ n \in Nat \ {0} /\ y \in B
            BY <2>1, <2>2, <3>1 DEF f
        <3>3. DOMAIN z = 1..n /\ z[n] = y /\ \A j \in 1..(n - 1) : z[j] = f[j]
            BY <3>2
        <3> QED BY <3>1, <3>3 DEF f
    <2>4. \A x \in Range(s) : x \in Range(y)
        <3>1. \A k \in DOMAIN s : k \in DOMAIN y /\ y[k] = s[k]
            BY <2>1 DEF y
        <3> QED BY <3>1 DEF Range
    <2>5. m \in Range(y)
        <3>1. Len(s) + 1 \in DOMAIN y /\ y[Len(s) + 1] = m
            BY <2>1 DEF y
        <3> QED BY <3>1 DEF Range
    <2>6. Fits(c, y)
        <3>1. Len(s) \in Nat \ {0}
            <4>1. Fits(c, s) /\ s \in Seq(A)
                <5>1. n \in DOMAIN chunks
                    BY <1>0, <2>1
                <5> HIDE DEF n
                <5> QED BY <1>0, <2>1, <5>1 DEF AllFit
            <4>2. Len(s) = 1 \/ Len(s) \in 2..MaxCohort
                BY <4>1 DEF Fits
            <4>3. Len(s) \in Nat
                BY <4>1
            <4> DEFINE l == Len(s)
            <4> HIDE DEF s
            <4>5. (l = 1 \/ l \in 2..MaxCohort) /\ l \in Nat
                BY <4>2, <4>3
            <4> HIDE DEF l
            <4>4. MaxCohort \in Nat
                BY CohortAssumption
            <4>6. l \in Nat \ {0}
                BY <4>4, <4>5
            <4> QED BY <4>6 DEF l
        <3>2. Len(y) = Len(s) + 1 /\ s \in Seq(A)
            BY <2>1 DEF y
        <3>3. ~(Len(s) >= MaxCohort) /\ ~(TokenBudget > 0 /\ s # <<>> /\ Tokens(c, s) + c.items[m].tokens > TokenBudget)
            BY <1>2, <2>1 DEF ChunkFull
        <3>4. MaxCohort \in Nat /\ TokenBudget \in Nat
            BY CohortAssumption
        <3>5. Tokens(c, s) \in Nat /\ Tokens(c, y) = Tokens(c, s) + c.items[m].tokens
            BY <3>2, TokensAppended DEF y
        <3>6. c.items[m].tokens \in Nat
            BY CohortItems
        <3>7. s # <<>>
            BY <3>1
        <3> HIDE DEF s
        <3>8. Len(y) \in 2..MaxCohort
            BY <3>1, <3>2, <3>3, <3>4
        <3>9. TokenBudget > 0 => Tokens(c, y) <= TokenBudget
            BY <3>3, <3>4, <3>5, <3>6, <3>7
        <3> QED BY <3>8, <3>9 DEF Fits
    <2> HIDE DEF n
    <2>7. n \in DOMAIN z /\ \A j \in 1..n : j \in DOMAIN z /\ (j = n \/ j \in 1..(n - 1))
        BY <2>1, <2>3
    <2>8. AllFit(c, z)
        BY <1>0, <2>3, <2>6, <2>7 DEF AllFit
    <2>9. ChunkHolds(z, m)
        BY <2>3, <2>5, <2>7 DEF ChunkHolds
    <2>10. ASSUME NEW x, ChunkHolds(chunks, x) PROVE ChunkHolds(z, x)
        <3>1. PICK j \in 1..n : x \in Range(chunks[j])
            BY <1>0, <2>10 DEF ChunkHolds
        <3>2. CASE j = n
            BY <2>3, <2>4, <2>7, <3>1, <3>2 DEF ChunkHolds
        <3>3. CASE j # n
            BY <2>3, <2>7, <3>1, <3>3 DEF ChunkHolds
        <3> QED BY <3>2, <3>3
    <2> QED BY <2>8, <2>9, <2>10 DEF z
<1> QED BY <1>1, <1>2

LEMMA CohortChunksHold ==
    ASSUME NEW c \in Cohorts, NEW group \in Seq(DOMAIN c.items)
    PROVE  /\ CohortChunks(c, group) \in Seq(Seq(DOMAIN c.items))
           /\ AllFit(c, CohortChunks(c, group))
           /\ \A k \in DOMAIN group : ChunkHolds(CohortChunks(c, group), group[k])
<1> DEFINE A == DOMAIN c.items
           n == Len(group)
<1>1. PICK r \in [0..n -> Seq(Seq(A))] : /\ r[0] = <<>> /\ r[n] = CohortChunks(c, group)
                                         /\ \A k \in 1..n : r[k] = AddTo(c, r[k - 1], group[k])
    BY ChunksRun
<1>2. n \in Nat /\ DOMAIN group = 1..n /\ \A k \in 1..n : group[k] \in A
    OBVIOUS
<1> HIDE DEF n
<1> DEFINE T == {k \in Nat : k <= n => AllFit(c, r[k]) /\ \A i \in 1..k : ChunkHolds(r[k], group[i])}
<1>3. 0 \in T
    BY <1>1 DEF AllFit
<1>4. ASSUME NEW k \in Nat, k \in T PROVE k + 1 \in T
    <2> SUFFICES ASSUME k + 1 <= n PROVE AllFit(c, r[k + 1]) /\ \A i \in 1..(k + 1) : ChunkHolds(r[k + 1], group[i])
        OBVIOUS
    <2>1. k + 1 \in 1..n /\ k \in 0..n /\ (k + 1) - 1 = k /\ k <= n
        BY <1>2
    <2>2. AllFit(c, r[k]) /\ \A i \in 1..k : ChunkHolds(r[k], group[i])
        BY <1>4, <2>1
    <2>3. r[k + 1] = AddTo(c, r[k], group[k + 1]) /\ r[k] \in Seq(Seq(A)) /\ group[k + 1] \in A
        BY <1>1, <1>2, <2>1
    <2>4. /\ AllFit(c, r[k + 1]) /\ ChunkHolds(r[k + 1], group[k + 1])
          /\ \A x : ChunkHolds(r[k], x) => ChunkHolds(r[k + 1], x)
        BY <2>2, <2>3, AddToFits
    <2>5. \A i \in 1..(k + 1) : i \in 1..k \/ i = k + 1
        OBVIOUS
    <2> QED BY <2>2, <2>4, <2>5
<1>5. Nat \subseteq T
    <2> HIDE DEF T
    <2> QED BY <1>3, <1>4, NaturalsReached
<1>6. n \in 0..n /\ n \in T
    BY <1>2, <1>5
<1> QED BY <1>1, <1>2, <1>6

(* Groups: a member joins the group of its key or opens one.                *)
Joins(c, groups, m) ==
    IF GroupOf(c, groups, m) = {}
    THEN Append(groups, <<m>>)
    ELSE [g \in DOMAIN groups |-> IF g \in GroupOf(c, groups, m) THEN Append(groups[g], m) ELSE groups[g]]

LEMMA JoinsHolds ==
    ASSUME NEW c, NEW A, NEW groups \in Seq(Seq(A)), NEW m \in A
    PROVE  /\ Joins(c, groups, m) \in Seq(Seq(A))
           /\ ChunkHolds(Joins(c, groups, m), m)
           /\ \A x : ChunkHolds(groups, x) => ChunkHolds(Joins(c, groups, m), x)
<1> DEFINE B == Seq(A)
           n == Len(groups)
           G == GroupOf(c, groups, m)
           z == Joins(c, groups, m)
<1>0. groups \in Seq(B) /\ n \in Nat /\ DOMAIN groups = 1..n /\ \A g \in 1..n : groups[g] \in B
    OBVIOUS
<1>g. G \subseteq 1..n
    BY <1>0 DEF GroupOf
<1>1. CASE G = {}
    <2>1. <<m>> \in B /\ z = Append(groups, <<m>>) /\ m \in Range(<<m>>)
        BY <1>1 DEF Joins, Range
    <2> HIDE DEF B, z
    <2>2. z \in Seq(B) /\ DOMAIN z = 1..(n + 1) /\ z[n + 1] = <<m>> /\ \A j \in 1..n : z[j] = groups[j]
        BY <1>0, <2>1
    <2> HIDE DEF n
    <2>3. n + 1 \in DOMAIN z /\ \A j \in 1..n : j \in DOMAIN z
        BY <1>0, <2>2
    <2>4. ChunkHolds(z, m)
        BY <2>1, <2>2, <2>3 DEF ChunkHolds
    <2>5. \A x : ChunkHolds(groups, x) => ChunkHolds(z, x)
        BY <1>0, <2>2, <2>3 DEF ChunkHolds
    <2> QED BY <2>2, <2>4, <2>5 DEF B, z
<1>2. CASE G # {}
    <2>1. z = [g \in 1..n |-> IF g \in G THEN Append(groups[g], m) ELSE groups[g]]
        BY <1>0, <1>2 DEF Joins
    <2>2. \A g \in 1..n : /\ Append(groups[g], m) \in B /\ m \in Range(Append(groups[g], m))
                          /\ \A x \in Range(groups[g]) : x \in Range(Append(groups[g], m))
        <3> SUFFICES ASSUME NEW g \in 1..n
                     PROVE  /\ Append(groups[g], m) \in B /\ m \in Range(Append(groups[g], m))
                            /\ \A x \in Range(groups[g]) : x \in Range(Append(groups[g], m))
            OBVIOUS
        <3> DEFINE s == groups[g]
                   y == Append(s, m)
        <3>1. s \in Seq(A)
            BY <1>0
        <3> HIDE DEF s
        <3>2. y \in Seq(A) /\ Len(s) + 1 \in DOMAIN y /\ y[Len(s) + 1] = m /\ \A k \in DOMAIN s : k \in DOMAIN y /\ y[k] = s[k]
            BY <3>1
        <3> HIDE DEF y
        <3>3. m \in Range(y) /\ \A x \in Range(s) : x \in Range(y)
            BY <3>2 DEF Range
        <3> QED BY <3>2, <3>3 DEF y, s
    <2> HIDE DEF B, n, G, z
    <2>3. z \in Seq(B)
        BY <1>0, <2>1, <2>2
    <2>4. DOMAIN z = 1..n /\ \A g \in 1..n : z[g] = IF g \in G THEN Append(groups[g], m) ELSE groups[g]
        BY <2>1
    <2>5. ChunkHolds(z, m)
        BY <1>2, <1>g, <2>2, <2>4 DEF ChunkHolds
    <2>6. \A x : ChunkHolds(groups, x) => ChunkHolds(z, x)
        BY <1>0, <2>2, <2>4 DEF ChunkHolds
    <2> QED BY <2>3, <2>5, <2>6 DEF B, z
<1> QED BY <1>1, <1>2

LEMMA GroupsRun ==
    ASSUME NEW c \in Cohorts
    PROVE  \E r \in [0..Len(MembersOf(c)) -> Seq(Seq(DOMAIN c.items))] :
              /\ r[0] = <<>> /\ r[Len(MembersOf(c))] = Groups(c)
              /\ \A k \in 1..Len(MembersOf(c)) : r[k] = Joins(c, r[k - 1], MembersOf(c)[k])
<1> DEFINE A == DOMAIN c.items
           B == Seq(Seq(DOMAIN c.items))
           q == MembersOf(c)
           n == Len(q)
           F == [p \in B \X A |-> Joins(c, p[1], p[2])]
           Folds(iter) == iter = [U \in SUBSET (DOMAIN q) |->
                                    IF U = {} THEN <<>> ELSE Joins(c, iter[U \ {Max(U)}], q[Max(U)])]
           g == CHOOSE iter : Folds(iter)
<1>1. Groups(c) = g[DOMAIN q]
    BY DEF Groups, Joins, FoldLeft, MapThenFoldSet
<1>2. q \in Seq(A) /\ n \in Nat /\ DOMAIN q = 1..n /\ \A i \in 1..n : q[i] \in A
    BY CohortItems
<1>3. F \in [B \X A -> B] /\ \A x \in B, a \in A : F[<<x, a>>] = Joins(c, x, a)
    <2>1. \A x \in B, a \in A : Joins(c, x, a) \in B
        BY JoinsHolds
    <2> HIDE DEF A, B
    <2> QED BY <2>1
<1>b. <<>> \in B
    OBVIOUS
<1> HIDE DEF B
<1> DEFINE S == 1..n
<1>4. S \in SUBSET Nat /\ IsFiniteSet(S) /\ \A U \in SUBSET S : U # {} => Max(U) \in U
    <2>1. IsFiniteSet(S)
        <3>1. 1 \in Int /\ n \in Int
            BY <1>2
        <3> HIDE DEF n
        <3> QED BY <3>1, FS_Interval
    <2>2. S \in SUBSET Nat
        OBVIOUS
    <2> HIDE DEF S
    <2> QED BY <2>1, <2>2, FS_Subset, MaxIn
<1> HIDE DEF F, q
<1>5. PICK h \in [SUBSET S -> B] : FoldsUp(h, F, <<>>, q, S)
    <2>1. Foldable(F, <<>>, q, S, A, B)
        BY <1>2, <1>3, <1>4, <1>b DEF Foldable
    <2> HIDE DEF S, A
    <2> QED BY <2>1, FoldsUpExists
<1>6. Folds(h)
    <2>1. ASSUME NEW U \in SUBSET S, U # {}
          PROVE  F[<<h[U \ {Max(U)}], q[Max(U)]>>] = Joins(c, h[U \ {Max(U)}], q[Max(U)])
        <3>1. U \ {Max(U)} \in SUBSET S /\ q[Max(U)] \in A
            BY <1>2, <1>4, <2>1
        <3>2. h[U \ {Max(U)}] \in B
            BY <3>1
        <3> HIDE DEF A
        <3> QED BY <1>3, <3>1, <3>2
    <2> QED BY <1>2, <1>5, <2>1 DEF FoldsUp
<1>7. Folds(g)
    <2> HIDE DEF Folds
    <2> QED BY <1>6
<1>8. FoldLike(g, F, <<>>, q, B, S)
    <2> HIDE DEF g
    <2>1. g[{}] = <<>>
        BY <1>7
    <2>2. ASSUME NEW U \in SUBSET S, U # {}, g[U \ {Max(U)}] \in B
          PROVE  g[U] = F[<<g[U \ {Max(U)}], q[Max(U)]>>]
        <3>1. q[Max(U)] \in A
            BY <1>2, <1>4, <2>2
        <3>2. g[U] = Joins(c, g[U \ {Max(U)}], q[Max(U)])
            BY <1>2, <1>7, <2>2
        <3> HIDE DEF A
        <3> QED BY <1>3, <2>2, <3>1, <3>2
    <2> QED BY <2>1, <2>2 DEF FoldLike
<1>9. PICK r \in [0..n -> B] : /\ r[0] = <<>>
                               /\ \A k \in 1..n : r[k] = F[<<r[k - 1], q[k]>>]
                               /\ r[n] = g[1..n]
    <2>1. n \in Nat /\ Foldable(F, <<>>, q, 1..n, A, B)
        BY <1>2, <1>3, <1>4, <1>b DEF Foldable
    <2> HIDE DEF g, n, A
    <2> QED BY <1>8, <2>1, FoldLikeRun
<1>10. ASSUME NEW k \in 1..n PROVE r[k] = Joins(c, r[k - 1], q[k])
    <2>1. k - 1 \in 0..n
        BY <1>2
    <2>2. r[k - 1] \in B /\ q[k] \in A
        BY <1>2, <2>1
    <2> HIDE DEF A, n
    <2> QED BY <1>3, <1>9, <2>2
<1> QED BY <1>1, <1>2, <1>9, <1>10 DEF B, q

LEMMA GroupsHold ==
    ASSUME NEW c \in Cohorts
    PROVE  Groups(c) \in Seq(Seq(DOMAIN c.items)) /\ \A m \in DOMAIN c.items : ChunkHolds(Groups(c), m)
<1> DEFINE A == DOMAIN c.items
           q == MembersOf(c)
           n == Len(q)
<1>1. PICK r \in [0..n -> Seq(Seq(A))] : /\ r[0] = <<>> /\ r[n] = Groups(c)
                                         /\ \A k \in 1..n : r[k] = Joins(c, r[k - 1], q[k])
    BY GroupsRun
<1>2. n \in Nat /\ A = 1..n /\ \A k \in 1..n : q[k] = k
    BY CohortItems
<1> HIDE DEF n, q
<1> DEFINE T == {k \in Nat : k <= n => \A i \in 1..k : ChunkHolds(r[k], i)}
<1>3. 0 \in T
    OBVIOUS
<1>4. ASSUME NEW k \in Nat, k \in T PROVE k + 1 \in T
    <2> SUFFICES ASSUME k + 1 <= n PROVE \A i \in 1..(k + 1) : ChunkHolds(r[k + 1], i)
        OBVIOUS
    <2>1. k + 1 \in 1..n /\ k \in 0..n /\ (k + 1) - 1 = k /\ k <= n
        BY <1>2
    <2>2. \A i \in 1..k : ChunkHolds(r[k], i)
        BY <1>4, <2>1
    <2>3. r[k + 1] = Joins(c, r[k], k + 1) /\ r[k] \in Seq(Seq(A)) /\ k + 1 \in A
        BY <1>1, <1>2, <2>1
    <2>4. ChunkHolds(r[k + 1], k + 1) /\ \A x : ChunkHolds(r[k], x) => ChunkHolds(r[k + 1], x)
        BY <2>3, JoinsHolds
    <2>5. \A i \in 1..(k + 1) : i \in 1..k \/ i = k + 1
        OBVIOUS
    <2> QED BY <2>2, <2>4, <2>5
<1>5. Nat \subseteq T
    <2> HIDE DEF T
    <2> QED BY <1>3, <1>4, NaturalsReached
<1>6. n \in 0..n /\ n \in T
    BY <1>2, <1>5
<1> QED BY <1>1, <1>2, <1>6

(* CompletionPlan puts the chunks of one group after those of the other.    *)
PlanOf(c) == FoldLeft(LAMBDA chunks, group : chunks \o CohortChunks(c, group), <<>>, Groups(c))
AddChunks(c, chunks, group) == chunks \o CohortChunks(c, group)

LEMMA Joined ==
    ASSUME NEW c, NEW a \in Seq(Seq(DOMAIN c.items)), NEW d \in Seq(Seq(DOMAIN c.items))
    PROVE  /\ a \o d \in Seq(Seq(DOMAIN c.items))
           /\ AllFit(c, a) /\ AllFit(c, d) => AllFit(c, a \o d)
           /\ \A x : ChunkHolds(a, x) \/ ChunkHolds(d, x) => ChunkHolds(a \o d, x)
<1> DEFINE B == Seq(DOMAIN c.items)
           z == a \o d
           n == Len(a)
           l == Len(d)
<1>1. a \in Seq(B) /\ d \in Seq(B)
    OBVIOUS
<1> HIDE DEF B
<1>3. /\ z \in Seq(B) /\ n \in Nat /\ l \in Nat /\ DOMAIN a = 1..n /\ DOMAIN d = 1..l
      /\ DOMAIN z = 1..(n + l) /\ \A i \in 1..n : z[i] = a[i]
      /\ \A i \in 1..l : z[n + i] = d[i]
    BY <1>1
<1>4. \A i \in 1..(n + l) : i \in 1..n \/ (i - n \in 1..l /\ n + (i - n) = i)
    <2> HIDE DEF n, l
    <2> QED BY <1>3
<1>5. (\A i \in 1..n : i \in 1..(n + l)) /\ (\A i \in 1..l : n + i \in 1..(n + l))
    <2> HIDE DEF n, l
    <2> QED BY <1>3
<1> HIDE DEF z, n, l
<1>6. ASSUME AllFit(c, a), AllFit(c, d), NEW i \in DOMAIN z PROVE Fits(c, z[i])
    <2>1. CASE i \in 1..n
        BY <1>3, <1>6, <2>1 DEF AllFit
    <2>2. CASE i - n \in 1..l /\ n + (i - n) = i
        <3>1. z[i] = d[i - n] /\ i - n \in DOMAIN d
            BY <1>3, <2>2
        <3> QED BY <1>6, <3>1 DEF AllFit
    <2> QED BY <1>3, <1>4, <1>6, <2>1, <2>2
<1>7. ASSUME NEW x, ChunkHolds(a, x) PROVE ChunkHolds(z, x)
    BY <1>3, <1>5, <1>7 DEF ChunkHolds
<1>8. ASSUME NEW x, ChunkHolds(d, x) PROVE ChunkHolds(z, x)
    <2>1. PICK i \in 1..l : x \in Range(d[i])
        BY <1>3, <1>8 DEF ChunkHolds
    <2>2. n + i \in DOMAIN z /\ z[n + i] = d[i]
        BY <1>3, <1>5
    <2> QED BY <2>1, <2>2 DEF ChunkHolds
<1>9. AllFit(c, a) /\ AllFit(c, d) => AllFit(c, z)
    BY <1>6 DEF AllFit
<1> QED BY <1>3, <1>7, <1>8, <1>9 DEF z, B

LEMMA AddChunksHolds ==
    ASSUME NEW c \in Cohorts, NEW chunks \in Seq(Seq(DOMAIN c.items)), NEW group \in Seq(DOMAIN c.items)
    PROVE  /\ AddChunks(c, chunks, group) \in Seq(Seq(DOMAIN c.items))
           /\ AllFit(c, chunks) => AllFit(c, AddChunks(c, chunks, group))
           /\ \A x : ChunkHolds(chunks, x) \/ x \in Range(group) => ChunkHolds(AddChunks(c, chunks, group), x)
<1> DEFINE d == CohortChunks(c, group)
<1>1. d \in Seq(Seq(DOMAIN c.items)) /\ AllFit(c, d) /\ \A x \in Range(group) : ChunkHolds(d, x)
    <2>1. d \in Seq(Seq(DOMAIN c.items)) /\ AllFit(c, d) /\ \A k \in DOMAIN group : ChunkHolds(d, group[k])
        BY CohortChunksHold
    <2> HIDE DEF d
    <2> QED BY <2>1 DEF Range
<1>2. AddChunks(c, chunks, group) = chunks \o d
    BY DEF AddChunks
<1> HIDE DEF d
<1>3. /\ chunks \o d \in Seq(Seq(DOMAIN c.items))
      /\ AllFit(c, chunks) /\ AllFit(c, d) => AllFit(c, chunks \o d)
      /\ \A x : ChunkHolds(chunks, x) \/ ChunkHolds(d, x) => ChunkHolds(chunks \o d, x)
    BY <1>1, Joined
<1> QED BY <1>1, <1>2, <1>3

LEMMA PlanRun ==
    ASSUME NEW c \in Cohorts
    PROVE  \E r \in [0..Len(Groups(c)) -> Seq(Seq(DOMAIN c.items))] :
              /\ r[0] = <<>> /\ r[Len(Groups(c))] = PlanOf(c)
              /\ \A k \in 1..Len(Groups(c)) : r[k] = AddChunks(c, r[k - 1], Groups(c)[k])
<1> DEFINE A == Seq(DOMAIN c.items)
           B == Seq(Seq(DOMAIN c.items))
           q == Groups(c)
           n == Len(q)
           F == [p \in B \X A |-> AddChunks(c, p[1], p[2])]
           Folds(iter) == iter = [U \in SUBSET (DOMAIN q) |->
                                    IF U = {} THEN <<>> ELSE AddChunks(c, iter[U \ {Max(U)}], q[Max(U)])]
           g == CHOOSE iter : Folds(iter)
<1>1. PlanOf(c) = g[DOMAIN q]
    BY DEF PlanOf, AddChunks, FoldLeft, MapThenFoldSet
<1>2. q \in Seq(A) /\ n \in Nat /\ DOMAIN q = 1..n /\ \A i \in 1..n : q[i] \in A
    BY GroupsHold
<1>3. F \in [B \X A -> B] /\ \A x \in B, a \in A : F[<<x, a>>] = AddChunks(c, x, a)
    <2>1. \A x \in B, a \in A : AddChunks(c, x, a) \in B
        BY AddChunksHolds
    <2> HIDE DEF A, B
    <2> QED BY <2>1
<1>b. <<>> \in B
    OBVIOUS
<1> HIDE DEF B
<1> DEFINE S == 1..n
<1>4. S \in SUBSET Nat /\ IsFiniteSet(S) /\ \A U \in SUBSET S : U # {} => Max(U) \in U
    <2>1. IsFiniteSet(S)
        <3>1. 1 \in Int /\ n \in Int
            BY <1>2
        <3> HIDE DEF n
        <3> QED BY <3>1, FS_Interval
    <2>2. S \in SUBSET Nat
        OBVIOUS
    <2> HIDE DEF S
    <2> QED BY <2>1, <2>2, FS_Subset, MaxIn
<1> HIDE DEF F, q
<1>5. PICK h \in [SUBSET S -> B] : FoldsUp(h, F, <<>>, q, S)
    <2>1. Foldable(F, <<>>, q, S, A, B)
        BY <1>2, <1>3, <1>4, <1>b DEF Foldable
    <2> HIDE DEF S, A
    <2> QED BY <2>1, FoldsUpExists
<1>6. Folds(h)
    <2>1. ASSUME NEW U \in SUBSET S, U # {}
          PROVE  F[<<h[U \ {Max(U)}], q[Max(U)]>>] = AddChunks(c, h[U \ {Max(U)}], q[Max(U)])
        <3>1. U \ {Max(U)} \in SUBSET S /\ q[Max(U)] \in A
            BY <1>2, <1>4, <2>1
        <3>2. h[U \ {Max(U)}] \in B
            BY <3>1
        <3> HIDE DEF A
        <3> QED BY <1>3, <3>1, <3>2
    <2> QED BY <1>2, <1>5, <2>1 DEF FoldsUp
<1>7. Folds(g)
    <2> HIDE DEF Folds
    <2> QED BY <1>6
<1>8. FoldLike(g, F, <<>>, q, B, S)
    <2> HIDE DEF g
    <2>1. g[{}] = <<>>
        BY <1>7
    <2>2. ASSUME NEW U \in SUBSET S, U # {}, g[U \ {Max(U)}] \in B
          PROVE  g[U] = F[<<g[U \ {Max(U)}], q[Max(U)]>>]
        <3>1. q[Max(U)] \in A
            BY <1>2, <1>4, <2>2
        <3>2. g[U] = AddChunks(c, g[U \ {Max(U)}], q[Max(U)])
            BY <1>2, <1>7, <2>2
        <3> HIDE DEF A
        <3> QED BY <1>3, <2>2, <3>1, <3>2
    <2> QED BY <2>1, <2>2 DEF FoldLike
<1>9. PICK r \in [0..n -> B] : /\ r[0] = <<>>
                               /\ \A k \in 1..n : r[k] = F[<<r[k - 1], q[k]>>]
                               /\ r[n] = g[1..n]
    <2>1. n \in Nat /\ Foldable(F, <<>>, q, 1..n, A, B)
        BY <1>2, <1>3, <1>4, <1>b DEF Foldable
    <2> HIDE DEF g, n, A
    <2> QED BY <1>8, <2>1, FoldLikeRun
<1>10. ASSUME NEW k \in 1..n PROVE r[k] = AddChunks(c, r[k - 1], q[k])
    <2>1. k - 1 \in 0..n
        BY <1>2
    <2>2. r[k - 1] \in B /\ q[k] \in A
        BY <1>2, <2>1
    <2> HIDE DEF A, n
    <2> QED BY <1>3, <1>9, <2>2
<1> QED BY <1>1, <1>2, <1>9, <1>10 DEF B, q

LEMMA PlanHolds ==
    ASSUME NEW c \in Cohorts
    PROVE  /\ PlanOf(c) \in Seq(Seq(DOMAIN c.items)) /\ AllFit(c, PlanOf(c))
           /\ \A m \in DOMAIN c.items : ChunkHolds(PlanOf(c), m)
<1> DEFINE A == DOMAIN c.items
           q == Groups(c)
           n == Len(q)
<1>1. PICK r \in [0..n -> Seq(Seq(A))] : /\ r[0] = <<>> /\ r[n] = PlanOf(c)
                                         /\ \A k \in 1..n : r[k] = AddChunks(c, r[k - 1], q[k])
    BY PlanRun
<1>2. n \in Nat /\ DOMAIN q = 1..n /\ \A k \in 1..n : q[k] \in Seq(A)
    BY GroupsHold
<1> HIDE DEF n, q
<1> DEFINE T == {k \in Nat : k <= n => AllFit(c, r[k]) /\ \A i \in 1..k : \A x \in Range(q[i]) : ChunkHolds(r[k], x)}
<1>3. 0 \in T
    BY <1>1 DEF AllFit
<1>4. ASSUME NEW k \in Nat, k \in T PROVE k + 1 \in T
    <2> SUFFICES ASSUME k + 1 <= n
                 PROVE  AllFit(c, r[k + 1]) /\ \A i \in 1..(k + 1) : \A x \in Range(q[i]) : ChunkHolds(r[k + 1], x)
        OBVIOUS
    <2>1. k + 1 \in 1..n /\ k \in 0..n /\ (k + 1) - 1 = k /\ k <= n
        BY <1>2
    <2>2. AllFit(c, r[k]) /\ \A i \in 1..k : \A x \in Range(q[i]) : ChunkHolds(r[k], x)
        BY <1>4, <2>1
    <2>3. r[k + 1] = AddChunks(c, r[k], q[k + 1]) /\ r[k] \in Seq(Seq(A)) /\ q[k + 1] \in Seq(A)
        BY <1>1, <1>2, <2>1
    <2>4. AllFit(c, r[k + 1]) /\ \A x : ChunkHolds(r[k], x) \/ x \in Range(q[k + 1]) => ChunkHolds(r[k + 1], x)
        BY <2>2, <2>3, AddChunksHolds
    <2>5. \A i \in 1..(k + 1) : i \in 1..k \/ i = k + 1
        OBVIOUS
    <2> QED BY <2>2, <2>4, <2>5
<1>5. Nat \subseteq T
    <2> HIDE DEF T
    <2> QED BY <1>3, <1>4, NaturalsReached
<1>6. n \in 0..n /\ n \in T
    <2> HIDE DEF T
    <2> QED BY <1>2, <1>5
<1>7. AllFit(c, PlanOf(c)) /\ \A i \in 1..n : \A x \in Range(q[i]) : ChunkHolds(PlanOf(c), x)
    BY <1>1, <1>6
<1>8. \A m \in A : \E i \in 1..n : m \in Range(q[i])
    BY <1>2, GroupsHold DEF ChunkHolds, q
<1>9. PlanOf(c) \in Seq(Seq(A))
    BY <1>1, <1>6
<1> QED BY <1>7, <1>8, <1>9

(* Whatever transport is chosen, its chunks fit and hold every member.      *)
LEMMA ChunksOfHold ==
    ASSUME NEW c \in Cohorts
    PROVE  /\ ChunksOf(c) \in Seq(Seq(DOMAIN c.items)) /\ AllFit(c, ChunksOf(c))
           /\ \A m \in DOMAIN c.items : ChunkHolds(ChunksOf(c), m)
<1> DEFINE A == DOMAIN c.items
           Held(z) == z \in Seq(Seq(A)) /\ AllFit(c, z) /\ \A m \in A : ChunkHolds(z, m)
<1>1. Held(CohortChunks(c, MembersOf(c)))
    <2> DEFINE q == MembersOf(c)
    <2>1. q \in Seq(A) /\ \A m \in A : m \in DOMAIN q /\ q[m] = m
        BY CohortItems
    <2> HIDE DEF q
    <2>2. /\ CohortChunks(c, q) \in Seq(Seq(A)) /\ AllFit(c, CohortChunks(c, q))
          /\ \A k \in DOMAIN q : ChunkHolds(CohortChunks(c, q), q[k])
        BY <2>1, CohortChunksHold
    <2> QED BY <2>1, <2>2 DEF q
<1>2. Held(PlanOf(c))
    BY PlanHolds
<1>3. Held([m \in A |-> <<m>>])
    <2> DEFINE z == [m \in A |-> <<m>>]
    <2>1. DOMAIN z = A /\ \A m \in A : z[m] = <<m>>
        OBVIOUS
    <2>2. z \in Seq(Seq(A))
        <3>1. Len(c.items) \in Nat /\ A = 1..Len(c.items)
            BY CohortItems
        <3> DEFINE n == Len(c.items)
        <3>2. n \in Nat /\ A = 1..n
            BY <3>1
        <3> HIDE DEF n, A
        <3>3. \A m \in A : <<m>> \in Seq(A)
            OBVIOUS
        <3> DEFINE B == Seq(A)
        <3> HIDE DEF B
        <3>4. z \in [1..n -> B]
            BY <3>2, <3>3 DEF B
        <3> HIDE DEF z
        <3>5. z \in Seq(B)
            BY <3>2, <3>4
        <3> QED BY <3>5 DEF B
    <2> HIDE DEF z, A
    <2>3. AllFit(c, z)
        <3>1. \A m : Len(<<m>>) = 1
            OBVIOUS
        <3> QED BY <2>1, <3>1 DEF AllFit, Fits
    <2>4. \A m \in A : ChunkHolds(z, m)
        <3>1. \A m : m \in Range(<<m>>)
            BY DEF Range
        <3> QED BY <2>1, <3>1 DEF ChunkHolds
    <2> QED BY <2>2, <2>3, <2>4 DEF z
<1> DEFINE min == CancelableMinimum(c)
<1>4. ASSUME NEW k, CompletionPlan(c, k) # None PROVE Held(CompletionPlan(c, k))
    <2>1. CompletionPlan(c, k) = None \/ CompletionPlan(c, k) = PlanOf(c)
        BY DEF CompletionPlan, PlanOf
    <2> HIDE DEF Held
    <2> QED BY <1>2, <1>4, <2>1
<1>5. CASE ~c.client /\ ChatPlan(c) # None
    <2>1. ChatPlan(c) = CohortChunks(c, MembersOf(c))
        BY <1>5 DEF ChatPlan
    <2>2. ChunksOf(c) = CohortChunks(c, MembersOf(c))
        BY <1>5, <2>1 DEF ChunksOf
    <2> QED BY <1>1, <2>2
<1>6. CASE ~(~c.client /\ ChatPlan(c) # None)
    <2>1. CASE Mode(c) = "stream"
        <3>1. CompletionPlan(c, CancelableMinimum(c)) # None
            BY <1>6, <2>1 DEF Mode
        <3>2. ChunksOf(c) = CompletionPlan(c, CancelableMinimum(c))
            BY <1>6, <2>1 DEF ChunksOf
        <3>3. Held(CompletionPlan(c, CancelableMinimum(c)))
            BY <1>4, <3>1
        <3> QED BY <3>2, <3>3
    <2>2. CASE Mode(c) = "post"
        <3>1. CompletionPlan(c, 2) # None
            BY <1>6, <2>2 DEF Mode
        <3>2. ChunksOf(c) = CompletionPlan(c, 2)
            BY <1>6, <2>2 DEF ChunksOf
        <3>3. Held(CompletionPlan(c, 2))
            BY <1>4, <3>1
        <3> QED BY <3>2, <3>3
    <2>3. CASE Mode(c) # "stream" /\ Mode(c) # "post"
        <3>1. ChunksOf(c) = [m \in A |-> <<m>>]
            BY <1>6, <2>3 DEF ChunksOf
        <3> QED BY <1>3, <3>1
    <2> QED BY <2>1, <2>2, <2>3
<1> QED BY <1>5, <1>6

LEMMA CohortStartInv ==
    ASSUME NEW c \in Cohorts, CohortStart(c)
    PROVE  CohortInv
<1> DEFINE A == DOMAIN c.items
           z == ChunksOf(c)
           n == Len(z)
<1>1. cohort = c /\ Members = A
    BY DEF CohortStart, Members
<1>2. z \in Seq(Seq(A)) /\ AllFit(c, z) /\ \A m \in A : ChunkHolds(z, m)
    BY ChunksOfHold
<1>3. work = [i \in DOMAIN z |-> <<z[i]>>]
    BY DEF CohortStart
<1> DEFINE B == Seq(A)
<1>4. n \in Nat /\ DOMAIN z = 1..n /\ \A i \in 1..n : z[i] \in B
    <2>1. z \in Seq(B)
        BY <1>2
    <2> HIDE DEF z, B
    <2> QED BY <2>1
<1> HIDE DEF z, n, B, A
<1>5. DOMAIN work = 1..n /\ \A i \in 1..n : work[i] = <<z[i]>>
    BY <1>3, <1>4
<1>6. work \in Seq(Seq(B))
    <2>1. \A i \in 1..n : work[i] \in Seq(B)
        <3>1. \A x \in B : <<x>> \in Seq(B)
            OBVIOUS
        <3> QED BY <1>4, <1>5, <3>1
    <2> DEFINE C == Seq(B)
    <2> HIDE DEF C
    <2>2. work \in [1..n -> C]
        <3>1. work = [i \in 1..n |-> work[i]]
            BY <1>3, <1>4
        <3> QED BY <2>1, <3>1 DEF C
    <2>3. work \in Seq(C)
        BY <1>4, <2>2
    <2> QED BY <2>3 DEF C
<1>7. \A i \in 1..n : DOMAIN work[i] = {1} /\ work[i][1] = z[i] /\ Len(work[i]) = 1
    <2>1. \A x : DOMAIN <<x>> = {1} /\ <<x>>[1] = x /\ Len(<<x>>) = 1
        OBVIOUS
    <2>2. ASSUME NEW i \in 1..n PROVE DOMAIN work[i] = {1} /\ work[i][1] = z[i] /\ Len(work[i]) = 1
        <3> DEFINE x == z[i]
                   y == <<x>>
        <3>1. work[i] = y
            BY <1>5
        <3>2. DOMAIN y = {1} /\ y[1] = x /\ Len(y) = 1
            BY <2>1
        <3> HIDE DEF y
        <3> QED BY <3>1, <3>2
    <2> QED BY <2>2
<1>8. mode \in {"pool", "post", "stream", "single"}
    BY DEF CohortStart, Mode
<1>9. answer = [m \in A |-> "none"] /\ calls = [m \in A |-> 0] /\ cancelEvent = FALSE /\ returned = FALSE
    BY DEF CohortStart, A
<1>10. CohortShape
    <2>1. "none" \in Verdicts
        BY DEF Verdicts
    <2>2. \A i \in DOMAIN work : \A j \in DOMAIN work[i] : Fits(cohort, work[i][j])
        BY <1>1, <1>2, <1>4, <1>5, <1>7 DEF AllFit
    <2>3. WorkFits(cohort, work)
        BY <1>1, <1>6, <2>2 DEF WorkFits, A, B
    <2> QED BY <1>1, <1>8, <1>9, <2>1, <2>3 DEF CohortShape
<1>11. \A m \in Members : WorkHolds(work, m)
    BY <1>1, <1>2, <1>4, <1>5, <1>7 DEF WorkHolds, ChunkHolds
<1>13. \A m \in Members : calls[m] = 0 /\ answer[m] = "none"
    BY <1>1, <1>9
<1>14. \A i \in DOMAIN work : Len(work[i]) <= 1
    <2>1. DOMAIN work = 1..n
        BY <1>5
    <2>2. ASSUME NEW i \in DOMAIN work PROVE Len(work[i]) <= 1
        <3>1. Len(work[i]) = 1
            BY <1>7, <2>1
        <3> DEFINE l == Len(work[i])
        <3>2. l = 1
            BY <3>1
        <3> HIDE DEF l
        <3>3. l <= 1
            BY <3>2
        <3> QED BY <3>3 DEF l
    <2> QED BY <2>2
<1> QED BY <1>9, <1>10, <1>11, <1>13, <1>14 DEF CohortInv, OneEach

(* How a chunk leaves what is left to run.                                  *)
LEMMA WorkParts ==
    ASSUME NEW c, NEW w, WorkFits(c, w)
    PROVE  /\ Len(w) \in Nat /\ DOMAIN w = 1..Len(w)
           /\ \A i \in DOMAIN w : w[i] \in Seq(Seq(DOMAIN c.items)) /\ AllFit(c, w[i])
<1> DEFINE B == Seq(Seq(DOMAIN c.items))
<1>1. w \in Seq(B)
    BY DEF WorkFits
<1>2. \A i \in DOMAIN w : AllFit(c, w[i])
    BY DEF WorkFits, AllFit
<1> HIDE DEF B
<1>3. Len(w) \in Nat /\ DOMAIN w = 1..Len(w) /\ \A i \in DOMAIN w : w[i] \in B
    BY <1>1
<1> QED BY <1>2, <1>3 DEF B

LEMMA WorkMade ==
    ASSUME NEW c, NEW w, NEW n \in Nat, w = [i \in 1..n |-> w[i]],
           \A i \in 1..n : w[i] \in Seq(Seq(DOMAIN c.items)) /\ AllFit(c, w[i])
    PROVE  WorkFits(c, w)
<1> DEFINE B == Seq(Seq(DOMAIN c.items))
<1>1. \A i \in 1..n : w[i] \in B
    OBVIOUS
<1>2. DOMAIN w = 1..n
    OBVIOUS
<1> HIDE DEF B
<1>3. w \in [1..n -> B]
    BY <1>1
<1>4. w \in Seq(B)
    BY <1>3
<1> QED BY <1>2, <1>4 DEF WorkFits, AllFit, B

LEMMA WorkEmptied ==
    ASSUME NEW c, NEW w, WorkFits(c, w), NEW z, z = [i \in DOMAIN w |-> <<>>]
    PROVE  WorkFits(c, z) /\ OneEach(z) /\ \A i \in DOMAIN z : z[i] = <<>>
<1>1. Len(w) \in Nat /\ DOMAIN w = 1..Len(w)
    BY WorkParts
<1> DEFINE n == Len(w)
<1>2. n \in Nat /\ z = [i \in 1..n |-> <<>>]
    BY <1>1
<1> HIDE DEF n
<1>3. z = [i \in 1..n |-> z[i]] /\ \A i \in 1..n : z[i] = <<>>
    BY <1>2
<1>4. <<>> \in Seq(Seq(DOMAIN c.items)) /\ AllFit(c, <<>>) /\ Len(<<>>) <= 1
    BY DEF AllFit
<1>5. WorkFits(c, z)
    <2>1. \A i \in 1..n : z[i] \in Seq(Seq(DOMAIN c.items)) /\ AllFit(c, z[i])
        BY <1>3, <1>4
    <2> QED BY <1>2, <1>3, <2>1, WorkMade
<1> QED BY <1>2, <1>3, <1>4, <1>5 DEF OneEach

LEMMA WorkReplaced ==
    ASSUME NEW c, NEW w, WorkFits(c, w), NEW i \in DOMAIN w, NEW q \in Seq(Seq(DOMAIN c.items)), AllFit(c, q), NEW left,
           \A m : ChunkHolds(w[i], m) => m \in left \/ ChunkHolds(q, m),
           NEW z, z = [w EXCEPT ![i] = q]
    PROVE  /\ WorkFits(c, z)
           /\ \A m : WorkHolds(w, m) => m \in left \/ WorkHolds(z, m)
           /\ OneEach(w) /\ Len(q) <= 1 => OneEach(z)
<1> DEFINE n == Len(w)
<1>1. n \in Nat /\ DOMAIN w = 1..n /\ \A k \in 1..n : w[k] \in Seq(Seq(DOMAIN c.items)) /\ AllFit(c, w[k])
    BY WorkParts
<1> HIDE DEF n
<1>2. DOMAIN z = 1..n /\ z[i] = q /\ (\A k \in (1..n) \ {i} : z[k] = w[k]) /\ z = [k \in 1..n |-> z[k]] /\ i \in 1..n
    BY <1>1
<1>3. WorkFits(c, z)
    <2>1. \A k \in 1..n : z[k] \in Seq(Seq(DOMAIN c.items)) /\ AllFit(c, z[k])
        BY <1>1, <1>2
    <2>2. n \in Nat /\ z = [k \in 1..n |-> z[k]]
        BY <1>1, <1>2
    <2> QED BY <2>1, <2>2, WorkMade
<1>4. ASSUME NEW m, WorkHolds(w, m), m \notin left PROVE WorkHolds(z, m)
    <2>1. PICK k \in 1..n : ChunkHolds(w[k], m)
        BY <1>1, <1>4 DEF WorkHolds, ChunkHolds
    <2>2. CASE k = i
        <3>1. ChunkHolds(z[i], m)
            BY <1>2, <1>4, <2>1, <2>2
        <3> QED BY <1>2, <3>1 DEF ChunkHolds, WorkHolds
    <2>3. CASE k # i
        BY <1>2, <2>1, <2>3 DEF ChunkHolds, WorkHolds
    <2> QED BY <2>2, <2>3
<1>5. ASSUME OneEach(w), Len(q) <= 1 PROVE OneEach(z)
    <2>1. \A k \in 1..n : Len(w[k]) <= 1
        BY <1>1, <1>5 DEF OneEach
    <2>2. \A k \in 1..n : Len(z[k]) <= 1
        BY <1>2, <1>5, <2>1
    <2> QED BY <1>2, <2>2 DEF OneEach
<1> QED BY <1>3, <1>4, <1>5

LEMMA RestOfChunks ==
    ASSUME NEW c, NEW q \in Seq(Seq(DOMAIN c.items)), AllFit(c, q), q # <<>>
    PROVE  /\ Tail(q) \in Seq(Seq(DOMAIN c.items)) /\ AllFit(c, Tail(q)) /\ (Len(q) <= 1 => Len(Tail(q)) <= 1 /\ Tail(q) = <<>>)
           /\ Head(q) \in Seq(DOMAIN c.items) /\ Fits(c, Head(q))
           /\ \A m : ChunkHolds(q, m) => m \in Range(Head(q)) \/ ChunkHolds(Tail(q), m)
<1> DEFINE B == Seq(DOMAIN c.items)
           n == Len(q)
           t == Tail(q)
<1>1. q \in Seq(B)
    OBVIOUS
<1> HIDE DEF B
<1>2. n \in Nat \ {0} /\ DOMAIN q = 1..n /\ Head(q) = q[1] /\ \A k \in 1..n : q[k] \in B
    BY <1>1
<1>3. t \in Seq(B) /\ DOMAIN t = 1..(n - 1) /\ Len(t) = n - 1 /\ \A k \in 1..(n - 1) : t[k] = q[k + 1]
    BY <1>1, <1>2
<1> HIDE DEF n, t
<1>4. n <= 1 => Len(t) <= 1 /\ t = <<>>
    <2> SUFFICES ASSUME n <= 1 PROVE Len(t) <= 1 /\ t = <<>>
        OBVIOUS
    <2>1. Len(t) = 0
        BY <1>2, <1>3
    <2> QED BY <1>3, <2>1
<1>5. (\A k \in 1..(n - 1) : k + 1 \in 1..n) /\ 1 \in 1..n
    BY <1>2
<1>6. AllFit(c, t) /\ Fits(c, q[1])
    BY <1>2, <1>3, <1>5 DEF AllFit
<1>7. ASSUME NEW m, ChunkHolds(q, m), m \notin Range(q[1]) PROVE ChunkHolds(t, m)
    <2>1. PICK k \in 1..n : m \in Range(q[k])
        BY <1>2, <1>7 DEF ChunkHolds
    <2>2. k # 1
        BY <1>7, <2>1
    <2>3. k - 1 \in 1..(n - 1) /\ (k - 1) + 1 = k
        BY <1>2, <2>2
    <2>4. t[k - 1] = q[k]
        BY <1>3, <2>3
    <2> QED BY <1>3, <2>1, <2>3, <2>4 DEF ChunkHolds
<1> QED BY <1>2, <1>3, <1>4, <1>5, <1>6, <1>7 DEF t, B, n

(* A refused chunk is run again in halves: they fit, and hold its members.  *)
LEMMA HalvesFit ==
    ASSUME NEW c \in Cohorts, NEW s \in Seq(DOMAIN c.items), Len(s) > 1, Fits(c, s)
    PROVE  /\ Halves(s) \in Seq(Seq(DOMAIN c.items)) /\ AllFit(c, Halves(s))
           /\ \A m \in Range(s) : ChunkHolds(Halves(s), m)
<1> DEFINE A == DOMAIN c.items
           n == Len(s)
           d == n \div 2
           x == SubSeq(s, 1, d)
           y == SubSeq(s, d + 1, n)
<1>1. s \in Seq(A) /\ n \in Nat /\ n > 1 /\ DOMAIN s = 1..n /\ \A k \in 1..n : s[k] \in A
    OBVIOUS
<1> HIDE DEF n
<1>2. d \in Nat /\ d >= 1 /\ d < n /\ n - d >= 1 /\ n - d < n
    BY <1>1
<1> HIDE DEF d, A
<1>3. x \in Seq(A) /\ Len(x) = d /\ \A k \in 1..d : x[k] = s[k]
    BY <1>1, <1>2
<1>4. y \in Seq(A) /\ Len(y) = n - d /\ \A k \in 1..(n - d) : y[k] = s[d + k]
    <2>1. y = SubSeq(s, d + 1, n) /\ d + 1 \in 1..(n + 1) /\ n \in 0..Len(s)
        BY <1>1, <1>2 DEF n
    <2> HIDE DEF y
    <2>2. y \in Seq(A)
        BY <1>1, <1>2, <2>1
    <2>3. Len(y) = n - d
        BY <1>1, <1>2, <2>1
    <2>4. ASSUME NEW k \in 1..(n - d) PROVE y[k] = s[d + k]
        <3>1. (d + 1) + k - 1 = d + k
            BY <1>2
        <3> QED BY <1>1, <1>2, <2>1, <3>1
    <2> QED BY <2>2, <2>3, <2>4
<1> HIDE DEF x, y
<1>5. PartFrom(x, s, 0) /\ PartFrom(y, s, d)
    BY <1>1, <1>2, <1>3, <1>4 DEF PartFrom, n
<1>6. Tokens(c, x) <= Tokens(c, s) /\ Tokens(c, y) <= Tokens(c, s) /\ Tokens(c, x) \in Int /\ Tokens(c, y) \in Int /\ Tokens(c, s) \in Nat
    <2>1. x \in Seq(DOMAIN c.items) /\ y \in Seq(DOMAIN c.items) /\ 0 \in Nat /\ d \in Nat
        BY <1>2, <1>3, <1>4 DEF A
    <2> QED BY <1>5, <2>1, TokensOfPart
<1>7. MaxCohort \in Nat /\ TokenBudget \in Nat
    BY CohortAssumption
<1>8. n \in 2..MaxCohort /\ (TokenBudget > 0 => Tokens(c, s) <= TokenBudget)
    BY <1>1 DEF Fits, n
<1>9. Fits(c, x) /\ Fits(c, y)
    <2>1. (d = 1 \/ d \in 2..MaxCohort) /\ (n - d = 1 \/ n - d \in 2..MaxCohort)
        BY <1>1, <1>2, <1>7, <1>8
    <2>2. TokenBudget > 0 => Tokens(c, x) <= TokenBudget /\ Tokens(c, y) <= TokenBudget
        BY <1>6, <1>7, <1>8
    <2> QED BY <1>3, <1>4, <2>1, <2>2 DEF Fits
<1>10. Halves(s) = <<x, y>>
    BY DEF Halves, x, y, d, n
<1>11. <<x, y>> \in Seq(Seq(A)) /\ AllFit(c, <<x, y>>)
    <2> DEFINE B == Seq(A)
    <2>1. x \in B /\ y \in B
        BY <1>3, <1>4
    <2> HIDE DEF B
    <2>2. <<x, y>> \in Seq(B) /\ DOMAIN <<x, y>> = 1..2 /\ <<x, y>>[1] = x /\ <<x, y>>[2] = y
        BY <2>1
    <2>3. AllFit(c, <<x, y>>)
        <3>1. \A k \in 1..2 : k = 1 \/ k = 2
            OBVIOUS
        <3> QED BY <1>9, <2>2, <3>1 DEF AllFit
    <2> QED BY <2>2, <2>3 DEF B
<1>12. ASSUME NEW m \in Range(s) PROVE ChunkHolds(<<x, y>>, m)
    <2>1. PICK k \in 1..n : s[k] = m
        BY <1>1 DEF Range
    <2>2. DOMAIN <<x, y>> = 1..2 /\ <<x, y>>[1] = x /\ <<x, y>>[2] = y /\ 1 \in 1..2 /\ 2 \in 1..2
        OBVIOUS
    <2>3. CASE k <= d
        <3>1. k \in 1..d /\ DOMAIN x = 1..d
            BY <1>2, <1>3, <2>3
        <3>2. m \in Range(x)
            BY <1>3, <2>1, <3>1 DEF Range
        <3> QED BY <2>2, <3>2 DEF ChunkHolds
    <2>4. CASE ~(k <= d)
        <3>1. k - d \in 1..(n - d) /\ d + (k - d) = k
            BY <1>1, <1>2, <2>4
        <3>2. DOMAIN y = 1..(n - d) /\ y[k - d] = m
            BY <1>4, <2>1, <3>1
        <3>3. m \in Range(y)
            BY <3>1, <3>2 DEF Range
        <3> QED BY <2>2, <3>3 DEF ChunkHolds
    <2> QED BY <2>3, <2>4
<1> QED BY <1>10, <1>11, <1>12 DEF A

(* One step of the run: S is given its results, and what is left to run     *)
(* still holds the others.                                                  *)
Given(S) ==
    /\ answer' \in [Members -> Verdicts] /\ calls' \in [Members -> {0, 1}]
    /\ \A m \in S : answer'[m] # "none" /\ calls'[m] = 1
    /\ \A m \in Members \ S : answer'[m] = answer[m] /\ calls'[m] = calls[m]
GoesOn ==
    /\ UNCHANGED <<cohort, mode, returned>> /\ ~returned /\ cancelEvent' \in BOOLEAN /\ (cancelEvent => cancelEvent')
    /\ WorkFits(cohort, work') /\ (mode = "pool" => OneEach(work'))
    /\ ~cancelEvent' => \A m \in Members : WorkHolds(work, m) => answer'[m] # "none" \/ WorkHolds(work', m)
ResultsStay == \A m \in Members : calls[m] = 1 => calls'[m] = 1 /\ answer'[m] = answer[m]

LEMMA GivenGoesOn ==
    ASSUME CohortInv, NEW S \in SUBSET Members, \A m \in S : answer[m] = "none", Given(S), GoesOn
    PROVE  CohortInv' /\ ResultsStay
<1>0. Members' = Members /\ returned' = FALSE /\ returned = FALSE
    <2>1. returned = FALSE
        BY DEF CohortInv, CohortShape, GoesOn
    <2> QED BY <2>1 DEF GoesOn, Members
<1>1. CohortShape'
    <2>1. cohort' \in Cohorts /\ mode' \in {"pool", "post", "stream", "single"} /\ WorkFits(cohort', work')
        BY DEF CohortInv, CohortShape, GoesOn
    <2>2. answer' \in [Members' -> Verdicts] /\ calls' \in [Members' -> {0, 1}]
        BY <1>0 DEF Given
    <2>3. returned' \in BOOLEAN /\ cancelEvent' \in BOOLEAN
        BY <1>0 DEF GoesOn
    <2> QED BY <2>1, <2>2, <2>3 DEF CohortShape
<1>2. ASSUME NEW m \in Members PROVE calls'[m] = 0 <=> answer'[m] = "none"
    <2>1. CASE m \in S
        <3>1. answer'[m] # "none" /\ calls'[m] = 1
            BY <2>1 DEF Given
        <3> QED BY <3>1
    <2>2. CASE m \notin S
        <3>1. answer'[m] = answer[m] /\ calls'[m] = calls[m]
            BY <2>2 DEF Given
        <3>2. calls[m] = 0 <=> answer[m] = "none"
            BY <1>0 DEF CohortInv
        <3> QED BY <3>1, <3>2
    <2> QED BY <2>1, <2>2
<1>3. ASSUME ~cancelEvent', NEW m \in Members, answer'[m] = "none" PROVE WorkHolds(work', m)
    <2>1. m \notin S /\ ~cancelEvent
        BY <1>3 DEF Given, GoesOn
    <2>2. answer[m] = "none"
        BY <1>3, <2>1 DEF Given
    <2>3. WorkHolds(work, m)
        BY <1>0, <2>1, <2>2 DEF CohortInv
    <2> QED BY <1>3, <2>3 DEF GoesOn
<1>4. (mode = "pool" => OneEach(work))'
    BY DEF GoesOn
<1>5. ASSUME NEW m \in Members, calls[m] = 1 PROVE calls'[m] = 1 /\ answer'[m] = answer[m]
    <2>1. ~(calls[m] = 0)
        BY <1>5
    <2>2. answer[m] # "none"
        BY <1>0, <2>1 DEF CohortInv
    <2>3. m \notin S
        BY <2>2
    <2> QED BY <1>5, <2>3 DEF Given
<1>6. CohortInv'
    BY <1>0, <1>1, <1>2, <1>3, <1>4 DEF CohortInv
<1> QED BY <1>5, <1>6 DEF ResultsStay

(* While a thread has something left the run has not returned.              *)
LEMMA AtWork ==
    ASSUME CohortInv, NEW i \in DOMAIN work, Running(i)
    PROVE  /\ ~returned /\ i \in Unfinished /\ work[i] # <<>> /\ WorkFits(cohort, work) /\ cohort \in Cohorts
           /\ work[i] \in Seq(Seq(Members)) /\ AllFit(cohort, work[i])
           /\ Current(i) \in Seq(Members) /\ Fits(cohort, Current(i))
           /\ Waiting(i) \in SUBSET Members /\ \A m \in Waiting(i) : answer[m] = "none"
<1>1. ~returned /\ i \in Unfinished
    BY DEF CohortInv, Running
<1>2. work[i] # <<>> /\ WorkFits(cohort, work) /\ cohort \in Cohorts
    BY <1>1 DEF Unfinished, CohortInv, CohortShape
<1>3. work[i] \in Seq(Seq(Members)) /\ AllFit(cohort, work[i])
    BY <1>2, WorkParts DEF Members
<1>4. Current(i) \in Seq(Members) /\ Fits(cohort, Current(i))
    BY <1>2, <1>3, RestOfChunks DEF Current, Members
<1>5. Range(Current(i)) \subseteq Members
    <2> DEFINE s == Current(i)
               M == Members
    <2>1. s \in Seq(M)
        BY <1>4
    <2> HIDE DEF s, M
    <2>2. Range(s) \subseteq M
        BY <2>1 DEF Range
    <2> QED BY <2>2 DEF s, M
<1>6. Waiting(i) \in SUBSET Members /\ \A m \in Waiting(i) : answer[m] = "none"
    BY <1>5 DEF Waiting
<1> QED BY <1>1, <1>2, <1>3, <1>4, <1>6

(* The chunk of a thread is done: whoever waited for it has a result.       *)
LEMMA ChunkLeaves ==
    ASSUME CohortInv, NEW i \in DOMAIN work, Running(i), NEW z, z = [work EXCEPT ![i] = Tail(@)]
    PROVE  /\ WorkFits(cohort, z) /\ (mode = "pool" => OneEach(z))
           /\ \A m : WorkHolds(work, m) => m \in Range(Current(i)) \/ WorkHolds(z, m)
<1>1. /\ work[i] # <<>> /\ WorkFits(cohort, work) /\ cohort \in Cohorts
      /\ work[i] \in Seq(Seq(Members)) /\ AllFit(cohort, work[i])
    BY AtWork
<1> DEFINE q == Tail(work[i])
           left == Range(Current(i))
<1>2. /\ q \in Seq(Seq(Members)) /\ AllFit(cohort, q) /\ (Len(work[i]) <= 1 => Len(q) <= 1)
      /\ \A m : ChunkHolds(work[i], m) => m \in left \/ ChunkHolds(q, m)
    BY <1>1, RestOfChunks DEF Members, Current
<1>3. z = [work EXCEPT ![i] = q] /\ q \in Seq(Seq(DOMAIN cohort.items))
    BY <1>2 DEF Members
<1> HIDE DEF q, left
<1>4. /\ WorkFits(cohort, z)
      /\ \A m : WorkHolds(work, m) => m \in left \/ WorkHolds(z, m)
      /\ OneEach(work) /\ Len(q) <= 1 => OneEach(z)
    BY <1>1, <1>2, <1>3, WorkReplaced
<1>5. ASSUME mode = "pool" PROVE OneEach(z)
    <2>1. OneEach(work)
        BY <1>5 DEF CohortInv
    <2>2. Len(work[i]) <= 1
        BY <2>1 DEF OneEach
    <2> QED BY <1>2, <1>4, <2>1, <2>2
<1> QED BY <1>4, <1>5 DEF left

LEMMA Emptied ==
    ASSUME CohortInv, NEW z, z = [j \in DOMAIN work |-> <<>>]
    PROVE  WorkFits(cohort, z) /\ OneEach(z)
<1>1. WorkFits(cohort, work)
    BY DEF CohortInv, CohortShape
<1> QED BY <1>1, WorkEmptied

LEMMA GivenBy ==
    ASSUME CohortInv, ~returned, NEW S \in SUBSET Members, \A m \in S : answer[m] = "none",
           NEW v \in [Members -> Verdicts \ {"none"}],
           answer' = [m \in Members |-> IF m \in S THEN v[m] ELSE answer[m]],
           calls' = [m \in Members |-> IF m \in S THEN calls[m] + 1 ELSE calls[m]]
    PROVE  Given(S)
<1>1. answer \in [Members -> Verdicts] /\ calls \in [Members -> {0, 1}]
    BY DEF CohortInv, CohortShape
<1>2. \A m \in S : calls[m] = 0
    BY DEF CohortInv
<1>3. \A m \in Members : v[m] \in Verdicts /\ v[m] # "none"
    OBVIOUS
<1>4. answer' \in [Members -> Verdicts]
    <2>1. \A m \in Members : (IF m \in S THEN v[m] ELSE answer[m]) \in Verdicts
        BY <1>1, <1>3
    <2> QED BY <2>1
<1>5. calls' \in [Members -> {0, 1}]
    <2>1. \A m \in Members : (IF m \in S THEN calls[m] + 1 ELSE calls[m]) \in {0, 1}
        BY <1>1, <1>2
    <2> QED BY <2>1
<1>6. \A m \in S : answer'[m] # "none" /\ calls'[m] = 1
    BY <1>2, <1>3
<1> QED BY <1>4, <1>5, <1>6 DEF Given

LEMMA GivenNobody ==
    ASSUME CohortInv, UNCHANGED <<answer, calls>>
    PROVE  Given({})
BY DEF CohortInv, CohortShape, Given

LEMMA SubchunkDone ==
    ASSUME CohortInv, NEW i \in DOMAIN work, Running(i), NextSubchunk(i),
           NEW S \in SUBSET Members, \A m \in S : answer[m] = "none", Given(S), Waiting(i) \subseteq S,
           UNCHANGED <<cohort, mode, cancelEvent, returned>>
    PROVE  CohortInv' /\ ResultsStay
<1>1. ~returned /\ cancelEvent \in BOOLEAN
    BY AtWork DEF CohortInv, CohortShape
<1>2. CASE ChatBatch /\ cancelEvent
    <2>1. work' = [j \in DOMAIN work |-> <<>>]
        BY <1>2 DEF NextSubchunk
    <2>2. WorkFits(cohort, work') /\ OneEach(work')
        BY <2>1, Emptied
    <2>3. GoesOn
        BY <1>1, <1>2, <2>2 DEF GoesOn
    <2> QED BY <2>3, GivenGoesOn
<1>3. CASE ~(ChatBatch /\ cancelEvent)
    <2>1. work' = [work EXCEPT ![i] = Tail(@)]
        BY <1>3 DEF NextSubchunk
    <2>2. /\ WorkFits(cohort, work') /\ (mode = "pool" => OneEach(work'))
          /\ \A m : WorkHolds(work, m) => m \in Range(Current(i)) \/ WorkHolds(work', m)
        BY <2>1, ChunkLeaves
    <2>3. ASSUME NEW m \in Members, WorkHolds(work, m), answer'[m] = "none" PROVE WorkHolds(work', m)
        <3>1. m \notin S
            BY <2>3 DEF Given
        <3>2. answer[m] = "none"
            BY <2>3, <3>1 DEF Given
        <3>3. m \notin Range(Current(i))
            BY <3>1, <3>2 DEF Waiting
        <3> QED BY <2>2, <2>3, <3>3
    <2>4. GoesOn
        BY <1>1, <2>2, <2>3 DEF GoesOn
    <2> QED BY <2>4, GivenGoesOn
<1> QED BY <1>2, <1>3

LEMMA PostAnswersInv ==
    ASSUME CohortInv, NEW i \in DOMAIN work, NEW present \in SUBSET Members, PostAnswers(i, present)
    PROVE  CohortInv' /\ ResultsStay
<1>1. Running(i) /\ NextSubchunk(i) /\ UNCHANGED <<cohort, mode, cancelEvent, returned>>
    BY DEF PostAnswers
<1>2. ~returned /\ Waiting(i) \in SUBSET Members /\ \A m \in Waiting(i) : answer[m] = "none"
    BY <1>1, AtWork
<1> DEFINE v == [m \in Members |-> IF m \in present THEN "whole" ELSE "failed"]
<1>3. v \in [Members -> Verdicts \ {"none"}]
    BY DEF Verdicts
<1>4. /\ answer' = [m \in Members |-> IF m \in Waiting(i) THEN v[m] ELSE answer[m]]
      /\ calls' = [m \in Members |-> IF m \in Waiting(i) THEN calls[m] + 1 ELSE calls[m]]
    BY DEF PostAnswers, Report
<1> HIDE DEF v
<1>5. Given(Waiting(i))
    BY <1>2, <1>3, <1>4, GivenBy
<1> QED BY <1>1, <1>2, <1>5, SubchunkDone

(* Whoever waits for this chunk fails.                                      *)
LEMMA ChunkFails ==
    ASSUME CohortInv, NEW i \in DOMAIN work, Running(i), Report(Waiting(i), Failure), NextSubchunk(i),
           UNCHANGED <<cohort, mode, cancelEvent, returned>>
    PROVE  CohortInv' /\ ResultsStay
<1>2. ~returned /\ Waiting(i) \in SUBSET Members /\ \A m \in Waiting(i) : answer[m] = "none"
    BY AtWork
<1> DEFINE v == [m \in Members |-> "failed"]
<1>3. v \in [Members -> Verdicts \ {"none"}]
    BY DEF Verdicts
<1>4. /\ answer' = [m \in Members |-> IF m \in Waiting(i) THEN v[m] ELSE answer[m]]
      /\ calls' = [m \in Members |-> IF m \in Waiting(i) THEN calls[m] + 1 ELSE calls[m]]
    BY DEF Report, Failure
<1> HIDE DEF v
<1>5. Given(Waiting(i))
    BY <1>2, <1>3, <1>4, GivenBy
<1> QED BY <1>2, <1>5, SubchunkDone

LEMMA RequestRefusedInv ==
    ASSUME CohortInv, NEW i \in DOMAIN work, NEW large \in BOOLEAN, RequestRefused(i, large)
    PROVE  CohortInv' /\ ResultsStay
<1>1. Running(i) /\ mode # "pool" /\ UNCHANGED <<cohort, mode, cancelEvent, returned>>
    BY DEF RequestRefused
<1>2. CASE Splits(i, large)
    <2> DEFINE s == Current(i)
               t == Tail(work[i])
               q == Halves(s) \o t
    <2>1. work' = [work EXCEPT ![i] = q] /\ UNCHANGED <<answer, calls>> /\ Len(s) > 1
        BY <1>2 DEF RequestRefused, Splits, Current
    <2>2. /\ ~returned /\ work[i] # <<>> /\ WorkFits(cohort, work) /\ cohort \in Cohorts
          /\ work[i] \in Seq(Seq(Members)) /\ AllFit(cohort, work[i])
          /\ s \in Seq(DOMAIN cohort.items) /\ Fits(cohort, s)
        BY <1>1, AtWork DEF Members
    <2>3. /\ Halves(s) \in Seq(Seq(DOMAIN cohort.items)) /\ AllFit(cohort, Halves(s))
          /\ \A m \in Range(s) : ChunkHolds(Halves(s), m)
        BY <2>1, <2>2, HalvesFit
    <2>4. /\ t \in Seq(Seq(DOMAIN cohort.items)) /\ AllFit(cohort, t)
          /\ \A m : ChunkHolds(work[i], m) => m \in Range(s) \/ ChunkHolds(t, m)
        BY <2>2, RestOfChunks DEF Members, Current
    <2> DEFINE h == Halves(s)
    <2> HIDE DEF h, t, s
    <2>5. /\ h \o t \in Seq(Seq(DOMAIN cohort.items)) /\ AllFit(cohort, h \o t)
          /\ \A m : ChunkHolds(h, m) \/ ChunkHolds(t, m) => ChunkHolds(h \o t, m)
        <3>1. h \in Seq(Seq(DOMAIN cohort.items)) /\ AllFit(cohort, h)
            BY <2>3 DEF h
        <3> QED BY <2>2, <2>4, <3>1, Joined
    <2>6. q = h \o t
        BY DEF h
    <2> HIDE DEF q
    <2>7. \A m : ChunkHolds(work[i], m) => m \in {} \/ ChunkHolds(q, m)
        BY <2>3, <2>4, <2>5, <2>6 DEF h
    <2>8. WorkFits(cohort, work') /\ \A m : WorkHolds(work, m) => m \in {} \/ WorkHolds(work', m)
        <3>1. q \in Seq(Seq(DOMAIN cohort.items)) /\ AllFit(cohort, q)
            BY <2>5, <2>6
        <3> DEFINE none == {}
        <3>2. \A m : ChunkHolds(work[i], m) => m \in none \/ ChunkHolds(q, m)
            BY <2>7
        <3> HIDE DEF none
        <3>3. WorkFits(cohort, work') /\ \A m : WorkHolds(work, m) => m \in none \/ WorkHolds(work', m)
            BY <2>1, <2>2, <3>1, <3>2, WorkReplaced
        <3> QED BY <3>3 DEF none
    <2>9. cancelEvent \in BOOLEAN
        BY DEF CohortInv, CohortShape
    <2>10. GoesOn
        BY <1>1, <2>2, <2>8, <2>9 DEF GoesOn
    <2>11. Given({})
        BY <2>1, GivenNobody
    <2> DEFINE S == {}
    <2>12. S \in SUBSET Members /\ (\A m \in S : answer[m] = "none") /\ Given(S)
        BY <2>11
    <2> HIDE DEF S
    <2> QED BY <2>10, <2>12, GivenGoesOn
<1>3. CASE ~Splits(i, large)
    <2>1. Report(Waiting(i), Failure) /\ NextSubchunk(i)
        BY <1>3 DEF RequestRefused
    <2> QED BY <1>1, <2>1, ChunkFails
<1> QED BY <1>2, <1>3

(* Nobody is given a result and nothing is taken from what is left.         *)
LEMMA NothingGiven ==
    ASSUME CohortInv, ~returned, UNCHANGED <<cohort, mode, work, answer, calls, returned>>,
           cancelEvent' \in BOOLEAN, cancelEvent => cancelEvent'
    PROVE  CohortInv' /\ ResultsStay
<1>1. WorkFits(cohort, work) /\ (mode = "pool" => OneEach(work))
    BY DEF CohortInv, CohortShape
<1>2. GoesOn
    BY <1>1 DEF GoesOn
<1>3. Given({})
    BY GivenNobody
<1> DEFINE S == {}
<1>4. S \in SUBSET Members /\ (\A m \in S : answer[m] = "none") /\ Given(S)
    BY <1>3
<1> HIDE DEF S
<1> QED BY <1>2, <1>4, GivenGoesOn

LEMMA StreamOpensInv ==
    ASSUME CohortInv, NEW i \in DOMAIN work, StreamOpens(i)
    PROVE  CohortInv' /\ ResultsStay
<1>1. Running(i) /\ UNCHANGED <<cohort, mode, work, answer, calls, cancelEvent, returned>>
    BY DEF StreamOpens
<1>2. ~returned /\ cancelEvent \in BOOLEAN
    BY <1>1, AtWork DEF CohortInv, CohortShape
<1> QED BY <1>1, <1>2, NothingGiven

LEMMA StreamEventInv ==
    ASSUME CohortInv, NEW i \in DOMAIN work, NEW m \in Members, NEW late \in BOOLEAN, StreamEvent(i, m, late)
    PROVE  CohortInv' /\ ResultsStay
<1> DEFINE done == {m} \cap {n \in Waiting(i) : text'[n] = Whole}
           ends == late \/ cancelEvent
           S == IF ends THEN Waiting(i) ELSE done
           v == [n \in Members |-> IF n \in done THEN "whole" ELSE "failed"]
<1>1. Running(i) /\ mode = "stream" /\ UNCHANGED <<cohort, mode, cancelEvent, returned>>
    BY DEF StreamEvent
<1>2. ~returned /\ Waiting(i) \in SUBSET Members /\ \A n \in Waiting(i) : answer[n] = "none"
    BY <1>1, AtWork
<1>3. v \in [Members -> Verdicts \ {"none"}]
    BY DEF Verdicts
<1>4. S \in SUBSET Members /\ \A n \in S : answer[n] = "none"
    BY <1>2
<1>5. /\ answer' = [n \in Members |-> IF n \in S THEN v[n] ELSE answer[n]]
      /\ calls' = [n \in Members |-> IF n \in S THEN calls[n] + 1 ELSE calls[n]]
    BY DEF StreamEvent, Report
<1>6. IF ends \/ Waiting(i) = done THEN NextSubchunk(i) ELSE UNCHANGED <<work, open>>
    BY DEF StreamEvent
<1>7. Given(S)
    <2> HIDE DEF S, v
    <2> QED BY <1>2, <1>3, <1>4, <1>5, GivenBy
<1>8. CASE ends \/ Waiting(i) = done
    <2>1. NextSubchunk(i) /\ Waiting(i) \subseteq S
        BY <1>6, <1>8
    <2> HIDE DEF S, v, done, ends
    <2> QED BY <1>1, <1>4, <1>7, <2>1, SubchunkDone
<1>9. CASE ~(ends \/ Waiting(i) = done)
    <2>1. work' = work
        BY <1>6, <1>9
    <2>2. WorkFits(cohort, work) /\ (mode = "pool" => OneEach(work)) /\ cancelEvent \in BOOLEAN
        BY DEF CohortInv, CohortShape
    <2>3. GoesOn
        BY <1>1, <1>2, <2>1, <2>2 DEF GoesOn
    <2> HIDE DEF S, v, done, ends
    <2> QED BY <1>4, <1>7, <2>3, GivenGoesOn
<1> QED BY <1>8, <1>9

LEMMA StreamEndsInv ==
    ASSUME CohortInv, NEW i \in DOMAIN work, StreamEnds(i)
    PROVE  CohortInv' /\ ResultsStay
<1>1. Running(i) /\ NextSubchunk(i) /\ UNCHANGED <<cohort, mode, cancelEvent, returned>>
    BY DEF StreamEnds
<1>2. ~returned /\ Waiting(i) \in SUBSET Members /\ \A m \in Waiting(i) : answer[m] = "none"
    BY <1>1, AtWork
<1> DEFINE v == [m \in Members |-> IF text[m] = 0 THEN "failed" ELSE IF cancelEvent THEN "cut" ELSE "short"]
<1>3. v \in [Members -> Verdicts \ {"none"}]
    BY DEF Verdicts
<1>4. /\ answer' = [m \in Members |-> IF m \in Waiting(i) THEN v[m] ELSE answer[m]]
      /\ calls' = [m \in Members |-> IF m \in Waiting(i) THEN calls[m] + 1 ELSE calls[m]]
    BY DEF StreamEnds, Report
<1> HIDE DEF v
<1>5. Given(Waiting(i))
    BY <1>2, <1>3, <1>4, GivenBy
<1> QED BY <1>1, <1>2, <1>5, SubchunkDone

LEMMA StreamBreaksInv ==
    ASSUME CohortInv, NEW i \in DOMAIN work, StreamBreaks(i)
    PROVE  CohortInv' /\ ResultsStay
<1>1. /\ Running(i) /\ Report(Waiting(i), Failure) /\ NextSubchunk(i)
      /\ UNCHANGED <<cohort, mode, cancelEvent, returned>>
    BY DEF StreamBreaks
<1> QED BY <1>1, ChunkFails

(* Nothing more is run once the event is set.                               *)
LEMMA AllLeft ==
    ASSUME CohortInv, ~returned, cancelEvent, NEW S \in SUBSET Members, \A n \in S : answer[n] = "none", Given(S),
           work' = [j \in DOMAIN work |-> <<>>], UNCHANGED <<cohort, mode, cancelEvent, returned>>
    PROVE  CohortInv' /\ ResultsStay
<1>1. WorkFits(cohort, work') /\ OneEach(work')
    BY Emptied
<1>2. GoesOn
    BY <1>1 DEF GoesOn
<1> QED BY <1>2, GivenGoesOn

LEMMA PoolAnswersInv ==
    ASSUME CohortInv, NEW i \in DOMAIN work, NEW m \in Members, NEW result \in {"whole", "short", "cut", "failed"}, PoolAnswers(i, m, result)
    PROVE  CohortInv' /\ ResultsStay
<1> DEFINE rest == cancelEvent /\ cohort.route = "parallel_chat_completions"
           S == IF rest THEN Waiting(i) ELSE {m}
           v == [n \in Members |-> IF n = m THEN result ELSE "failed"]
<1>1. Running(i) /\ mode = "pool" /\ m \in Waiting(i) /\ UNCHANGED <<cohort, mode, cancelEvent, returned>>
    BY DEF PoolAnswers
<1>2. ~returned /\ Waiting(i) \in SUBSET Members /\ \A n \in Waiting(i) : answer[n] = "none"
    BY <1>1, AtWork
<1>3. v \in [Members -> Verdicts \ {"none"}]
    BY DEF Verdicts
<1>4. S \in SUBSET Members /\ \A n \in S : answer[n] = "none"
    BY <1>1, <1>2
<1>5. /\ answer' = [n \in Members |-> IF n \in S THEN v[n] ELSE answer[n]]
      /\ calls' = [n \in Members |-> IF n \in S THEN calls[n] + 1 ELSE calls[n]]
    BY DEF PoolAnswers, Report
<1>6. work' = IF cancelEvent THEN [j \in DOMAIN work |-> <<>>]
              ELSE IF Waiting(i) = {m} THEN [work EXCEPT ![i] = <<>>] ELSE work
    BY DEF PoolAnswers
<1>7. Given(S)
    <2> HIDE DEF S, v
    <2> QED BY <1>2, <1>3, <1>4, <1>5, GivenBy
<1>8. CASE cancelEvent
    <2>1. work' = [j \in DOMAIN work |-> <<>>]
        BY <1>6, <1>8
    <2> HIDE DEF S, v
    <2> QED BY <1>1, <1>2, <1>4, <1>7, <1>8, <2>1, AllLeft
<1>9. CASE ~cancelEvent /\ Waiting(i) = {m}
    <2>1. Waiting(i) \subseteq S
        BY <1>9
    <2>2. Tail(work[i]) = <<>>
        <3>1. OneEach(work)
            BY <1>1 DEF CohortInv
        <3>2. Len(work[i]) <= 1
            BY <3>1 DEF OneEach
        <3>3. work[i] # <<>> /\ work[i] \in Seq(Seq(DOMAIN cohort.items)) /\ AllFit(cohort, work[i])
            BY <1>1, AtWork DEF Members
        <3> QED BY <3>2, <3>3, RestOfChunks
    <2>3. work' = [work EXCEPT ![i] = Tail(@)]
        BY <1>6, <1>9, <2>2
    <2>4. /\ WorkFits(cohort, work') /\ (mode = "pool" => OneEach(work'))
          /\ \A n : WorkHolds(work, n) => n \in Range(Current(i)) \/ WorkHolds(work', n)
        BY <1>1, <2>3, ChunkLeaves
    <2> HIDE DEF S, v
    <2>5. ASSUME NEW n \in Members, WorkHolds(work, n), answer'[n] = "none" PROVE WorkHolds(work', n)
        <3>1. n \notin S
            BY <1>7, <2>5 DEF Given
        <3>2. answer[n] = "none"
            BY <1>7, <2>5, <3>1 DEF Given
        <3>3. n \notin Range(Current(i))
            BY <2>1, <3>1, <3>2 DEF Waiting
        <3> QED BY <2>4, <2>5, <3>3
    <2>6. GoesOn
        <3>1. cancelEvent \in BOOLEAN
            BY DEF CohortInv, CohortShape
        <3> QED BY <1>1, <1>2, <2>4, <2>5, <3>1 DEF GoesOn
    <2> QED BY <1>4, <1>7, <2>6, GivenGoesOn
<1>10. CASE ~cancelEvent /\ Waiting(i) # {m}
    <2>1. work' = work
        BY <1>6, <1>10
    <2>2. WorkFits(cohort, work) /\ (mode = "pool" => OneEach(work)) /\ cancelEvent \in BOOLEAN
        BY DEF CohortInv, CohortShape
    <2>3. GoesOn
        BY <1>1, <1>2, <2>1, <2>2 DEF GoesOn
    <2> HIDE DEF S, v
    <2> QED BY <1>4, <1>7, <2>3, GivenGoesOn
<1> QED BY <1>8, <1>9, <1>10

LEMMA SkipChunksInv ==
    ASSUME CohortInv, SkipChunks
    PROVE  CohortInv' /\ ResultsStay
<1>1. /\ cancelEvent /\ Unfinished # {} /\ work' = [i \in DOMAIN work |-> <<>>]
      /\ UNCHANGED <<cohort, mode, answer, calls, cancelEvent, returned>>
    BY DEF SkipChunks
<1>2. ~returned
    BY <1>1 DEF CohortInv
<1>3. Given({})
    BY <1>1, GivenNobody
<1> DEFINE S == {}
<1>4. S \in SUBSET Members /\ (\A m \in S : answer[m] = "none") /\ Given(S)
    BY <1>3
<1> HIDE DEF S
<1> QED BY <1>1, <1>2, <1>4, AllLeft

LEMMA CancelMemberInv ==
    ASSUME CohortInv, CancelMember
    PROVE  CohortInv' /\ ResultsStay
<1>1. /\ ~returned /\ cancelEvent' = TRUE
      /\ UNCHANGED <<cohort, mode, work, answer, calls, returned>>
    BY DEF CancelMember
<1> QED BY <1>1, NothingGiven

LEMMA CohortReturnsInv ==
    ASSUME CohortInv, CohortReturns
    PROVE  CohortInv' /\ ResultsStay
<1>1. /\ Unfinished = {} /\ ~returned /\ returned' = TRUE
      /\ answer' = [m \in Members |-> IF answer[m] = "none" THEN "failed" ELSE answer[m]]
      /\ UNCHANGED <<cohort, mode, work, calls, cancelEvent>>
    BY DEF CohortReturns
<1>2. /\ CohortShape
      /\ \A m \in Members : calls[m] = 0 <=> answer[m] = "none"
      /\ ~cancelEvent => \A m \in Members : answer[m] = "none" => WorkHolds(work, m)
    BY <1>1 DEF CohortInv
<1>3. Members' = Members /\ Unfinished' = Unfinished
    BY <1>1 DEF Members, Unfinished
<1>4. answer \in [Members -> Verdicts] /\ calls \in [Members -> {0, 1}]
    BY <1>2 DEF CohortShape
<1>5. answer' \in [Members -> Verdicts] /\ \A m \in Members : answer'[m] # "none"
    <2>1. "failed" \in Verdicts /\ "failed" # "none"
        BY DEF Verdicts
    <2> QED BY <1>1, <1>4, <2>1
<1>6. CohortShape'
    <2>1. WorkFits(cohort, work) /\ cohort \in Cohorts /\ mode \in {"pool", "post", "stream", "single"} /\ cancelEvent \in BOOLEAN
        BY <1>2 DEF CohortShape
    <2>2. /\ WorkFits(cohort', work') /\ cohort' \in Cohorts /\ mode' \in {"pool", "post", "stream", "single"}
          /\ cancelEvent' \in BOOLEAN
        BY <1>1, <2>1
    <2>3. answer' \in [Members' -> Verdicts] /\ calls' \in [Members' -> {0, 1}]
        BY <1>1, <1>3, <1>4, <1>5
    <2>4. returned' \in BOOLEAN
        BY <1>1
    <2> QED BY <2>2, <2>3, <2>4 DEF CohortShape
<1>7. ASSUME ~cancelEvent, NEW m \in Members PROVE calls[m] = 1
    <2>1. ~WorkHolds(work, m)
        <3> SUFFICES ASSUME NEW i \in DOMAIN work, NEW j \in DOMAIN work[i] PROVE FALSE
            BY DEF WorkHolds
        <3>1. work[i] = <<>>
            BY <1>1 DEF Unfinished
        <3>2. DOMAIN work[i] = {}
            BY <3>1
        <3> QED BY <3>2
    <2>2. answer[m] # "none"
        BY <1>2, <1>7, <2>1
    <2>3. calls[m] # 0
        BY <1>2, <2>2
    <2> QED BY <1>4, <2>3
<1>8. (returned => Unfinished = {} /\ \A m \in Members : answer[m] # "none")'
    BY <1>1, <1>3, <1>5
<1>9. (returned /\ ~cancelEvent => \A m \in Members : calls[m] = 1)'
    BY <1>1, <1>3, <1>7
<1>10. (mode = "pool" => OneEach(work))'
    BY <1>1 DEF CohortInv
<1>11. CohortInv'
    BY <1>1, <1>6, <1>8, <1>9, <1>10 DEF CohortInv
<1>12. ASSUME NEW m \in Members, calls[m] = 1 PROVE calls'[m] = 1 /\ answer'[m] = answer[m]
    <2>1. ~(calls[m] = 0)
        BY <1>12
    <2>2. answer[m] # "none"
        BY <1>2, <2>1
    <2> QED BY <1>1, <1>12, <2>2
<1> QED BY <1>11, <1>12 DEF ResultsStay

LEMMA CohortInvStep ==
    ASSUME CohortInv, [CohortNext]_cohortVars
    PROVE  CohortInv' /\ ResultsStay
<1>1. CASE UNCHANGED cohortVars
    <2>1. /\ cohort' = cohort /\ mode' = mode /\ work' = work /\ answer' = answer /\ calls' = calls
          /\ cancelEvent' = cancelEvent /\ returned' = returned
        BY <1>1 DEF cohortVars
    <2>2. CohortInv'
        BY <2>1 DEF CohortInv, CohortShape, Members, Unfinished
    <2>3. ResultsStay
        BY <2>1 DEF ResultsStay
    <2> QED BY <2>2, <2>3
<1>2. ASSUME NEW i \in DOMAIN work, NEW present \in SUBSET Members, PostAnswers(i, present) PROVE CohortInv' /\ ResultsStay
    BY <1>2, PostAnswersInv
<1>3. ASSUME NEW i \in DOMAIN work, NEW large \in BOOLEAN, RequestRefused(i, large) PROVE CohortInv' /\ ResultsStay
    BY <1>3, RequestRefusedInv
<1>4. ASSUME NEW i \in DOMAIN work, StreamOpens(i) \/ StreamEnds(i) \/ StreamBreaks(i) PROVE CohortInv' /\ ResultsStay
    BY <1>4, StreamOpensInv, StreamEndsInv, StreamBreaksInv
<1>5. ASSUME NEW i \in DOMAIN work, NEW m \in Members, NEW late \in BOOLEAN, StreamEvent(i, m, late)
      PROVE  CohortInv' /\ ResultsStay
    BY <1>5, StreamEventInv
<1>7. ASSUME NEW i \in DOMAIN work, NEW m \in Members, NEW result \in {"whole", "short", "cut", "failed"},
             PoolAnswers(i, m, result)
      PROVE  CohortInv' /\ ResultsStay
    BY <1>7, PoolAnswersInv
<1>6. CASE SkipChunks \/ CancelMember \/ CohortReturns
    BY <1>6, SkipChunksInv, CancelMemberInv, CohortReturnsInv
<1> QED BY <1>1, <1>2, <1>3, <1>4, <1>5, <1>6, <1>7 DEF CohortNext

LEMMA CohortInvTells ==
    ASSUME CohortInv
    PROVE  WithinBudget /\ NobodyForgotten
<1>1. NobodyForgotten
    BY DEF CohortInv, NobodyForgotten
<1>2. ASSUME NEW i \in Unfinished, NEW j \in DOMAIN work[i] PROVE Fits(cohort, work[i][j])
    BY DEF CohortInv, CohortShape, WorkFits, Unfinished
<1>3. WithinBudget
    BY <1>2 DEF WithinBudget, Fits
<1> QED BY <1>1, <1>3

-----------------------------------------------------------------------------
(* The batch clients.                                                       *)
RowRecords == [state : RowStates, right : BOOLEAN, runs : Nat, streamed : BOOLEAN]
LoggedEvents == [id : BatchIds, delta : BOOLEAN, state : EndStates \cup {"open"}]
AnswerRecords == [id : EvalIds, state : RowStates, passed : BOOLEAN]
EvalSteps == {"start", "submit", "poll", "handle", "collect", "ended", "aborted", "timeout"}
BatchShape ==
    /\ row \in [BatchIds -> RowRecords] /\ backlog \in Seq(LoggedEvents)
    /\ evals \in [pc : EvalSteps, opt : RunOptions, pending : SUBSET EvalIds, answers : Seq(AnswerRecords),
                  page : Seq(LoggedEvents), live : Nat, grade : [total : Nat, passed : Nat]]
    /\ bench \in [pc : {"start", "watch", "collect", "ended", "timeout"}, opt : RunOptions,
                  completed : Nat, failed : Nat, valid : BOOLEAN]

(* An event that says that a row has ended is logged after it ended.        *)
SaysEnded(e) == ~e.delta /\ e.state \in EndStates
EventsTrue(es) == \A k \in DOMAIN es : SaysEnded(es[k]) => row[es[k].id].state \in EndStates
EventsAhead ==
    evals.pc \in {"submit", "poll", "handle"} => EventsTrue(evals.page) /\ EventsTrue(backlog)

(* The end of a row that waits for its answer lies ahead.                   *)
EndOf(r) == QueueEvent(r, FALSE, row[r].state)
EndsAhead ==
    evals.pc \in {"poll", "handle"} =>
    \A r \in evals.pending : row[r].state \in EndStates => InSeq(EndOf(r), evals.page) \/ InSeq(EndOf(r), backlog)

(* Who was answered, and once.                                              *)
TrueAnswers(a) == \A k \in DOMAIN a : a[k] = AnswerRecord(a[k].id) /\ row[a[k].id].state \in EndStates
ApartAnswers(a) == \A j, k \in DOMAIN a : a[j].id = a[k].id => j = k
AnsweredIn(a) == {a[k].id : k \in DOMAIN a}
AnswersFinal == TrueAnswers(evals.answers) /\ ApartAnswers(evals.answers)
Answered == AnsweredIn(evals.answers)
EvalPlace ==
    /\ evals.pc \in {"start", "submit"} => \A r \in EvalIds : row[r].state = "unknown"
    /\ evals.pc \in {"start", "submit", "poll"} => evals.page = <<>>
    /\ evals.pc = "handle" => evals.page # <<>>
    /\ evals.pc \in {"start", "submit", "poll", "handle"} => Answered = EvalIds \ evals.pending
    /\ evals.pc \in {"collect", "ended", "aborted"} => AllEnded(EvalIds)
    /\ evals.pc = "timeout" /\ evals.opt.cancel => AllEnded(EvalIds)
    /\ evals.pc = "ended" => /\ Answered = EvalIds
                             /\ evals.grade = [total |-> Cardinality(EvalIds),
                                               passed |-> Cardinality({r \in EvalIds : row[r].right})]
EvalInv == EventsAhead /\ EndsAhead /\ AnswersFinal /\ EvalPlace
BenchInv ==
    /\ bench.pc = "start" => \A r \in BenchIds : row[r].state = "unknown"
    /\ bench.pc \in {"collect", "ended"} => AllEnded(BenchIds)
    /\ bench.pc = "timeout" /\ bench.opt.cancel => AllEnded(BenchIds)
    /\ bench.pc = "ended" => /\ bench.failed = 0 <=> \A r \in BenchIds : row[r].state = "completed"
                             /\ bench.valid => \A r \in BenchIds : row[r].runs <= 1
BatchInv == BatchShape /\ EvalInv /\ BenchInv

LEMMA BatchStartInv == ASSUME BatchInit PROVE BatchInv
<1>1. PICK o \in RunOptions : BatchStart(o)
    BY DEF BatchInit
<1>2. /\ row = [r \in BatchIds |-> NotYet] /\ backlog = <<>>
      /\ evals = [pc |-> "start", opt |-> o, pending |-> EvalIds, answers |-> <<>>, page |-> <<>>,
                  live |-> 0, grade |-> [total |-> 0, passed |-> 0]]
      /\ bench = [pc |-> "start", opt |-> o, completed |-> 0, failed |-> 0, valid |-> TRUE]
    BY <1>1 DEF BatchStart
<1>3. BatchShape
    <2>1. NotYet \in RowRecords
        BY DEF NotYet, RowRecords, RowStates
    <2> QED BY <1>2, <2>1 DEF BatchShape, EvalSteps
<1>4. \A r \in BatchIds : row[r].state = "unknown"
    BY <1>2 DEF NotYet
<1>5. EvalInv
    BY <1>2, <1>4 DEF EvalInv, EventsAhead, EndsAhead, AnswersFinal, TrueAnswers, ApartAnswers, AnsweredIn,
                         EvalPlace, Answered, BatchIds
<1>6. BenchInv
    BY <1>2, <1>4 DEF BenchInv, BatchIds
<1> QED BY <1>3, <1>5, <1>6 DEF BatchInv

LEMMA ConcatenationHolds ==
    ASSUME NEW S, NEW s \in Seq(S), NEW t \in Seq(S)
    PROVE  /\ s \o t \in Seq(S)
           /\ \A x : InSeq(x, s \o t) <=> InSeq(x, s) \/ InSeq(x, t)
<1>1. /\ Len(s) \in Nat /\ DOMAIN s = 1..Len(s) /\ Len(t) \in Nat /\ DOMAIN t = 1..Len(t)
      /\ s \o t \in Seq(S) /\ Len(s \o t) = Len(s) + Len(t) /\ DOMAIN (s \o t) = 1..Len(s) + Len(t)
      /\ \A i \in 1..Len(s) : (s \o t)[i] = s[i]
      /\ \A i \in 1..Len(t) : (s \o t)[Len(s) + i] = t[i]
    OBVIOUS
<1>2. ASSUME NEW x, InSeq(x, s) PROVE InSeq(x, s \o t)
    BY <1>1, <1>2 DEF InSeq
<1>3. ASSUME NEW x, InSeq(x, t) PROVE InSeq(x, s \o t)
    <2>1. PICK i \in 1..Len(t) : t[i] = x
        BY <1>1, <1>3 DEF InSeq
    <2>2. Len(s) + i \in 1..Len(s) + Len(t)
        BY <1>1
    <2> QED BY <1>1, <2>1, <2>2 DEF InSeq
<1>4. ASSUME NEW x, InSeq(x, s \o t), ~InSeq(x, s) PROVE InSeq(x, t)
    <2>1. PICK i \in 1..Len(s) + Len(t) : (s \o t)[i] = x
        BY <1>1, <1>4 DEF InSeq
    <2>2. i \notin 1..Len(s)
        BY <1>1, <1>4, <2>1 DEF InSeq
    <2> DEFINE n == Len(s)
               m == Len(t)
    <2>3. n \in Nat /\ m \in Nat /\ i \in 1..n + m /\ i \notin 1..n
        BY <1>1, <2>1, <2>2
    <2> HIDE DEF n, m
    <2>4. i - n \in 1..m /\ n + (i - n) = i
        BY <2>3
    <2> USE DEF n, m
    <2>5. (s \o t)[Len(s) + (i - Len(s))] = t[i - Len(s)]
        BY <1>1, <2>4
    <2>6. t[i - Len(s)] = x
        BY <2>1, <2>4, <2>5
    <2> QED BY <1>1, <2>4, <2>6 DEF InSeq
<1> QED BY <1>1, <1>2, <1>3, <1>4

(* A row that ended stays as it is. *)
RowsStand ==
    \A r \in BatchIds : row[r].state \in EndStates =>
        row'[r].state = row[r].state /\ row'[r].right = row[r].right /\ row'[r].runs = row[r].runs

LEMMA AllStayEnded ==
    ASSUME RowsStand, NEW ids \in SUBSET BatchIds, AllEnded(ids)
    PROVE  AllEnded(ids)'
BY DEF AllEnded, RowsStand

LEMMA AnswersStay ==
    ASSUME RowsStand, NEW a \in Seq(AnswerRecords), TrueAnswers(a), ApartAnswers(a), evals'.answers = a
    PROVE  AnswersFinal' /\ Answered' = AnsweredIn(a)
<1>1. ASSUME NEW k \in DOMAIN a
      PROVE  a[k] = AnswerRecord(a[k].id)' /\ row'[a[k].id].state \in EndStates
    <2>1. a[k].id \in BatchIds
        <3>1. a[k] \in AnswerRecords
            OBVIOUS
        <3> QED BY <3>1 DEF AnswerRecords, BatchIds
    <2>2. a[k] = AnswerRecord(a[k].id) /\ row[a[k].id].state \in EndStates
        BY DEF TrueAnswers
    <2> QED BY <2>1, <2>2 DEF RowsStand, AnswerRecord
<1> QED BY <1>1 DEF AnswersFinal, TrueAnswers, ApartAnswers, Answered

LEMMA BenchStays ==
    ASSUME BatchShape, BenchInv, RowsStand, UNCHANGED bench,
           bench.pc = "start" => \A r \in BenchIds : row'[r].state = "unknown"
    PROVE  BenchInv'
<1>1. AllEnded(BenchIds) => AllEnded(BenchIds)' /\ \A r \in BenchIds : row'[r].state = row[r].state /\ row'[r].runs = row[r].runs
    BY DEF AllEnded, RowsStand, BatchIds
<1> QED BY <1>1 DEF BenchInv

LEMMA LoggedHolds ==
    ASSUME BatchShape, NEW es \in Seq(LoggedEvents), Logged(es)
    PROVE  /\ backlog' \in Seq(LoggedEvents)
           /\ evals.pc \in {"submit", "poll", "handle"} => \A x : InSeq(x, backlog') <=> InSeq(x, backlog) \/ InSeq(x, es)
<1>1. backlog \in Seq(LoggedEvents)
    BY DEF BatchShape
<1>2. /\ backlog \o es \in Seq(LoggedEvents)
      /\ \A x : InSeq(x, backlog \o es) <=> InSeq(x, backlog) \/ InSeq(x, es)
    BY <1>1, ConcatenationHolds
<1>3. CASE evals.pc \in {"start", "ended", "aborted", "timeout"}
    <2>1. backlog' = <<>>
        BY <1>3 DEF Logged
    <2> QED BY <1>3, <2>1
<1>4. CASE evals.pc \notin {"start", "ended", "aborted", "timeout"}
    <2>1. backlog' = backlog \o es
        BY <1>4 DEF Logged
    <2> QED BY <1>2, <2>1
<1> QED BY <1>3, <1>4

(* The runner waits while the coordinator or the benchmark moves. *)
LEMMA EvalWaits ==
    ASSUME BatchShape, EvalInv, RowsStand, UNCHANGED evals, NEW es \in Seq(LoggedEvents), Logged(es),
           \A e : InSeq(e, es) /\ SaysEnded(e) => row'[e.id].state \in EndStates,
           \A r \in EvalIds : row[r].state \notin EndStates /\ row'[r].state \in EndStates
                                  => InSeq(QueueEvent(r, FALSE, row'[r].state), es),
           \A r \in EvalIds : row[r].state = "unknown" => row'[r].state = "unknown"
    PROVE  EvalInv'
<1>1. /\ backlog' \in Seq(LoggedEvents)
      /\ evals.pc \in {"submit", "poll", "handle"} => \A x : InSeq(x, backlog') <=> InSeq(x, backlog) \/ InSeq(x, es)
    BY LoggedHolds
<1>2. /\ evals.page \in Seq(LoggedEvents) /\ backlog \in Seq(LoggedEvents)
      /\ evals.pending \subseteq EvalIds /\ EvalIds \subseteq BatchIds
    BY DEF BatchShape, BatchIds
<1>3. EventsAhead'
    <2> SUFFICES ASSUME evals.pc \in {"submit", "poll", "handle"} PROVE EventsTrue(evals.page)' /\ EventsTrue(backlog)'
        BY DEF EventsAhead
    <2>1. EventsTrue(evals.page) /\ EventsTrue(backlog)
        BY DEF EvalInv, EventsAhead
    <2>2. \A s \in Seq(LoggedEvents) : \A k \in DOMAIN s : s[k].id \in BatchIds
        <3>1. \A s \in Seq(LoggedEvents) : \A k \in DOMAIN s : s[k] \in LoggedEvents
            OBVIOUS
        <3> QED BY <3>1 DEF LoggedEvents
    <2>3. EventsTrue(evals.page)'
        BY <1>2, <2>1, <2>2 DEF EventsTrue, RowsStand
    <2>4. ASSUME NEW k \in DOMAIN backlog', SaysEnded(backlog'[k]) PROVE row'[backlog'[k].id].state \in EndStates
        <3>1. InSeq(backlog'[k], backlog')
            BY DEF InSeq
        <3>2. CASE InSeq(backlog'[k], es)
            BY <2>4, <3>2
        <3>3. CASE InSeq(backlog'[k], backlog)
            <4>1. PICK j \in DOMAIN backlog : backlog[j] = backlog'[k]
                BY <3>3 DEF InSeq
            <4>2. row[backlog[j].id].state \in EndStates /\ backlog[j].id \in BatchIds
                BY <1>2, <2>1, <2>2, <2>4, <4>1 DEF EventsTrue
            <4> QED BY <4>1, <4>2 DEF RowsStand
        <3> QED BY <1>1, <3>1, <3>2, <3>3
    <2> QED BY <2>3, <2>4 DEF EventsTrue
<1>4. EndsAhead'
    <2> SUFFICES ASSUME evals.pc \in {"poll", "handle"}, NEW r \in evals.pending, row'[r].state \in EndStates
                 PROVE  InSeq(EndOf(r)', evals.page) \/ InSeq(EndOf(r)', backlog')
        BY DEF EndsAhead
    <2>1. r \in EvalIds /\ r \in BatchIds
        BY <1>2
    <2>2. EndOf(r)' = QueueEvent(r, FALSE, row'[r].state)
        BY DEF EndOf, QueueEvent
    <2>3. CASE row[r].state \in EndStates
        <3>1. row'[r].state = row[r].state
            BY <2>1, <2>3 DEF RowsStand
        <3>2. EndOf(r)' = EndOf(r)
            BY <2>2, <3>1 DEF EndOf
        <3>3. InSeq(EndOf(r), evals.page) \/ InSeq(EndOf(r), backlog)
            BY <2>3 DEF EvalInv, EndsAhead
        <3> QED BY <1>1, <3>2, <3>3
    <2>4. CASE row[r].state \notin EndStates
        <3>1. InSeq(EndOf(r)', es)
            BY <2>1, <2>2, <2>4
        <3> QED BY <1>1, <3>1
    <2> QED BY <2>3, <2>4
<1>5. AnswersFinal' /\ Answered' = Answered
    <2>1. evals.answers \in Seq(AnswerRecords) /\ evals'.answers = evals.answers
        BY DEF BatchShape
    <2> QED BY <2>1, AnswersStay DEF EvalInv, AnswersFinal, Answered
<1>6. EvalPlace'
    <2>1. AllEnded(EvalIds) => AllEnded(EvalIds)' /\ {r \in EvalIds : row'[r].right} = {r \in EvalIds : row[r].right}
        BY <1>2 DEF AllEnded, RowsStand
    <2> QED BY <1>5, <2>1 DEF EvalInv, EvalPlace
<1> QED BY <1>3, <1>4, <1>5, <1>6 DEF EvalInv

(* One event, and the events of a set of requests. *)
LEMMA OneLogged ==
    ASSUME NEW e PROVE \A x : InSeq(x, <<e>>) <=> x = e
BY DEF InSeq

LEMMA EventType ==
    ASSUME NEW r \in BatchIds, NEW b \in BOOLEAN, NEW s
    PROVE  /\ QueueEvent(r, b, s) \in LoggedEvents
           /\ QueueEvent(r, b, s).id = r
           /\ SaysEnded(QueueEvent(r, b, s)) <=> ~b /\ s \in EndStates
BY DEF QueueEvent, LoggedEvents, SaysEnded, EndStates

LEMMA EventsOf ==
    ASSUME NEW ids \in SUBSET BatchIds, IsFiniteSet(ids), NEW s
    PROVE  LET es == SetToSeq({QueueEvent(r, FALSE, s) : r \in ids})
           IN  es \in Seq(LoggedEvents) /\ \A e : InSeq(e, es) <=> \E r \in ids : e = QueueEvent(r, FALSE, s)
<1> DEFINE E == {QueueEvent(r, FALSE, s) : r \in ids}
           f == [r \in ids |-> QueueEvent(r, FALSE, s)]
<1>1. f \in Surjection(ids, E)
    BY DEF Surjection
<1>2. IsFiniteSet(E)
    <2> HIDE DEF E, f
    <2> QED BY <1>1, FS_Surjection
<1>3. E \subseteq LoggedEvents
    BY EventType
<1>4. \A e \in E : \E r \in ids : e = QueueEvent(r, FALSE, s)
    OBVIOUS
<1>5. \A r \in ids : QueueEvent(r, FALSE, s) \in E
    OBVIOUS
<1> DEFINE es == SetToSeq(E)
<1> HIDE DEF E
<1>6. es \in Seq(E) /\ \A x \in E : \E i \in DOMAIN es : es[i] = x
    BY <1>2, SetToSeqHolds
<1> HIDE DEF es
<1>7. es \in Seq(LoggedEvents)
    BY <1>3, <1>6
<1>8. \A e : InSeq(e, es) <=> e \in E
    BY <1>6 DEF InSeq
<1>9. \A e : InSeq(e, es) <=> \E r \in ids : e = QueueEvent(r, FALSE, s)
    BY <1>4, <1>5, <1>8
<1> QED BY <1>7, <1>9 DEF es, E

(* One row moves and says so. *)
LEMMA RowMoves ==
    ASSUME BatchInv, NEW r \in BatchIds, NEW b \in BOOLEAN, NEW s, UNCHANGED <<evals, bench>>,
           row' \in [BatchIds -> RowRecords], \A x \in BatchIds \ {r} : row'[x] = row[x],
           row'[r].state = s, Logged(<<QueueEvent(r, b, s)>>),
           row[r].state \in EndStates => s = row[r].state /\ row'[r].right = row[r].right /\ row'[r].runs = row[r].runs,
           row[r].state = "unknown" \/ b => s = row[r].state
    PROVE  BatchInv'
<1> DEFINE e == QueueEvent(r, b, s)
           es == <<e>>
<1>1. BatchShape /\ EvalInv /\ BenchInv
    BY DEF BatchInv
<1>2. e \in LoggedEvents /\ e.id = r /\ (SaysEnded(e) <=> ~b /\ s \in EndStates)
    BY EventType
<1>3. es \in Seq(LoggedEvents) /\ \A x : InSeq(x, es) <=> x = e
    BY <1>2, OneLogged
<1>4. RowsStand
    BY DEF RowsStand
<1>5. EvalInv'
    <2>1. \A x : InSeq(x, es) /\ SaysEnded(x) => row'[x.id].state \in EndStates
        BY <1>2, <1>3
    <2>2. ASSUME NEW x \in EvalIds, row[x].state \notin EndStates, row'[x].state \in EndStates
          PROVE  InSeq(QueueEvent(x, FALSE, row'[x].state), es)
        <3>1. x = r
            BY <2>2 DEF BatchIds
        <3>2. ~b
            BY <2>2, <3>1
        <3> QED BY <1>3, <3>1, <3>2
    <2>3. \A x \in EvalIds : row[x].state = "unknown" => row'[x].state = "unknown"
        BY DEF BatchIds
    <2>4. Logged(es)
        OBVIOUS
    <2> HIDE DEF es
    <2> QED BY <1>1, <1>3, <1>4, <2>1, <2>2, <2>3, <2>4, EvalWaits
<1>6. BenchInv'
    <2>1. bench.pc = "start" => \A x \in BenchIds : row'[x].state = "unknown"
        BY <1>1 DEF BenchInv, BatchIds
    <2> QED BY <1>1, <1>4, <2>1, BenchStays
<1>7. BatchShape'
    <2>1. backlog' \in Seq(LoggedEvents)
        <3>1. Logged(es)
            OBVIOUS
        <3> HIDE DEF es
        <3> QED BY <1>1, <1>3, <3>1, LoggedHolds
    <2> QED BY <1>1, <2>1 DEF BatchShape
<1> QED BY <1>5, <1>6, <1>7 DEF BatchInv

LEMMA RunRowStep == ASSUME BatchInv, NEW r \in BatchIds, RunRow(r) PROVE BatchInv'
<1>1. /\ row \in [BatchIds -> RowRecords] /\ row[r] \in RowRecords /\ row[r].state = "queued"
      /\ row' = [row EXCEPT ![r].state = "running", ![r].runs = @ + 1]
      /\ Logged(<<QueueEvent(r, FALSE, "running")>>) /\ UNCHANGED <<evals, bench>>
    BY DEF BatchInv, BatchShape, RunRow
<1>2. row'[r] = [state |-> "running", right |-> row[r].right, runs |-> row[r].runs + 1, streamed |-> row[r].streamed]
    BY <1>1 DEF RowRecords
<1>3. row'[r] \in RowRecords
    BY <1>1, <1>2 DEF RowRecords, RowStates
<1>4. row' \in [BatchIds -> RowRecords] /\ \A x \in BatchIds \ {r} : row'[x] = row[x]
    BY <1>1, <1>3
<1>5. row[r].state \notin EndStates /\ row[r].state # "unknown" /\ row'[r].state = "running"
    BY <1>1, <1>2 DEF EndStates
<1> QED BY <1>1, <1>4, <1>5, RowMoves

LEMMA RetryRowStep == ASSUME BatchInv, NEW r \in BatchIds, RetryRow(r) PROVE BatchInv'
<1>1. PICK s \in {"queued", "failed"} :
      /\ row \in [BatchIds -> RowRecords] /\ row[r] \in RowRecords /\ row[r].state = "running"
      /\ row' = [row EXCEPT ![r].state = s]
      /\ Logged(<<QueueEvent(r, FALSE, s)>>) /\ UNCHANGED <<evals, bench>>
    BY DEF BatchInv, BatchShape, RetryRow
<1>2. row'[r] \in RowRecords /\ row'[r].state = s
    BY <1>1 DEF RowRecords, RowStates, EndStates
<1>3. row' \in [BatchIds -> RowRecords] /\ \A x \in BatchIds \ {r} : row'[x] = row[x]
    BY <1>1, <1>2
<1>4. row[r].state \notin EndStates /\ row[r].state # "unknown"
    BY <1>1 DEF EndStates
<1> QED BY <1>1, <1>2, <1>3, <1>4, RowMoves

LEMMA FinishRowStep ==
    ASSUME BatchInv, NEW r \in BatchIds, NEW right \in BOOLEAN, FinishRow(r, right)
    PROVE  BatchInv'
<1>1. /\ row \in [BatchIds -> RowRecords] /\ row[r] \in RowRecords /\ row[r].state = "running"
      /\ row' = [row EXCEPT ![r].state = "completed", ![r].right = right]
      /\ Logged(<<QueueEvent(r, FALSE, "completed")>>) /\ UNCHANGED <<evals, bench>>
    BY DEF BatchInv, BatchShape, FinishRow
<1>2. row'[r] = [state |-> "completed", right |-> right, runs |-> row[r].runs, streamed |-> row[r].streamed]
    BY <1>1 DEF RowRecords
<1>3. row'[r] \in RowRecords
    BY <1>1, <1>2 DEF RowRecords, RowStates, EndStates
<1>4. row' \in [BatchIds -> RowRecords] /\ \A x \in BatchIds \ {r} : row'[x] = row[x]
    BY <1>1, <1>3
<1>5. row[r].state \notin EndStates /\ row[r].state # "unknown" /\ row'[r].state = "completed"
    BY <1>1, <1>2 DEF EndStates
<1> QED BY <1>1, <1>4, <1>5, RowMoves

LEMMA RowDeltaStep == ASSUME BatchInv, NEW r \in BatchIds, RowDelta(r) PROVE BatchInv'
<1>1. /\ row \in [BatchIds -> RowRecords] /\ row[r] \in RowRecords
      /\ row' = [row EXCEPT ![r].streamed = TRUE]
      /\ Logged(<<QueueEvent(r, TRUE, row[r].state)>>) /\ UNCHANGED <<evals, bench>>
    BY DEF BatchInv, BatchShape, RowDelta
<1>2. /\ row'[r] \in RowRecords
      /\ row'[r].state = row[r].state /\ row'[r].right = row[r].right /\ row'[r].runs = row[r].runs
    BY <1>1 DEF RowRecords
<1>3. row' \in [BatchIds -> RowRecords] /\ \A x \in BatchIds \ {r} : row'[x] = row[x]
    BY <1>1, <1>2
<1> QED BY <1>1, <1>2, <1>3, RowMoves

(* A batch is submitted or cancelled. *)
LEMMA SubmittedRows ==
    ASSUME BatchShape, NEW ids \in SUBSET BatchIds, IsFiniteSet(ids), Submitted(ids),
           \A r \in ids : row[r].state = "unknown"
    PROVE  /\ RowsStand /\ row' \in [BatchIds -> RowRecords]
           /\ \A r \in BatchIds \ ids : row'[r] = row[r]
           /\ \A r \in ids : row'[r].state = "queued"
           /\ \E es \in Seq(LoggedEvents) : Logged(es) /\ \A e : InSeq(e, es) => ~SaysEnded(e)
<1> DEFINE es == SetToSeq({QueueEvent(r, FALSE, "queued") : r \in ids})
           fresh == [NotYet EXCEPT !.state = "queued"]
<1>1. /\ row' = [r \in BatchIds |-> IF r \in ids THEN fresh ELSE row[r]]
      /\ Logged(es)
    BY DEF Submitted
<1>2. es \in Seq(LoggedEvents) /\ \A e : InSeq(e, es) => ~SaysEnded(e)
    <2>1. es \in Seq(LoggedEvents) /\ \A e : InSeq(e, es) <=> \E r \in ids : e = QueueEvent(r, FALSE, "queued")
        BY EventsOf
    <2>2. ASSUME NEW r \in ids PROVE ~SaysEnded(QueueEvent(r, FALSE, "queued"))
        BY DEF SaysEnded, QueueEvent, EndStates
    <2> HIDE DEF es
    <2> QED BY <2>1, <2>2
<1>3. fresh \in RowRecords /\ fresh.state = "queued"
    BY DEF NotYet, RowRecords, RowStates
<1> HIDE DEF es, fresh
<1>4. row' \in [BatchIds -> RowRecords]
    BY <1>1, <1>3 DEF BatchShape
<1>5. RowsStand
    BY <1>1 DEF RowsStand, EndStates
<1> QED BY <1>1, <1>2, <1>3, <1>4, <1>5

LEMMA CancelledRows ==
    ASSUME BatchShape, NEW ids \in SUBSET BatchIds, IsFiniteSet(ids), Cancelled(ids)
    PROVE  /\ RowsStand /\ row' \in [BatchIds -> RowRecords]
           /\ \A r \in BatchIds \ ids : row'[r] = row[r]
           /\ AllEnded(ids)'
           /\ \E es \in Seq(LoggedEvents) : Logged(es) /\ \A e : InSeq(e, es) => row'[e.id].state \in EndStates /\ e.id \in ids
<1> DEFINE ending == {r \in ids : row[r].state \notin EndStates}
           es == SetToSeq({QueueEvent(r, FALSE, "cancelled") : r \in ending})
<1>1. /\ row' = [r \in BatchIds |-> IF r \in ending THEN [row[r] EXCEPT !.state = "cancelled"] ELSE row[r]]
      /\ Logged(es)
    BY DEF Cancelled
<1>2. IsFiniteSet(ending) /\ ending \in SUBSET BatchIds
    BY FS_Subset
<1>3. row \in [BatchIds -> RowRecords]
    BY DEF BatchShape
<1>4. ASSUME NEW r \in ending PROVE row'[r] \in RowRecords /\ row'[r].state = "cancelled" /\ r \in ids
    BY <1>1, <1>2, <1>3 DEF RowRecords, RowStates, EndStates
<1>5. \A r \in BatchIds \ ending : row'[r] = row[r]
    BY <1>1
<1>6. row' \in [BatchIds -> RowRecords]
    BY <1>1, <1>3, <1>4, <1>5
<1>7. RowsStand
    BY <1>5 DEF RowsStand
<1>8. AllEnded(ids)'
    BY <1>4, <1>5 DEF AllEnded, EndStates
<1>9. es \in Seq(LoggedEvents) /\ \A e : InSeq(e, es) => row'[e.id].state \in EndStates /\ e.id \in ids
    <2> HIDE DEF ending
    <2>1. es \in Seq(LoggedEvents) /\ \A e : InSeq(e, es) <=> \E r \in ending : e = QueueEvent(r, FALSE, "cancelled")
        BY <1>2, EventsOf
    <2>2. \A r \in ending : QueueEvent(r, FALSE, "cancelled").id = r
        BY DEF QueueEvent
    <2> HIDE DEF es
    <2>3. ASSUME NEW e, InSeq(e, es) PROVE row'[e.id].state \in EndStates /\ e.id \in ids
        <3>1. PICK r \in ending : e = QueueEvent(r, FALSE, "cancelled")
            BY <2>1, <2>3
        <3>2. e.id = r
            BY <2>2, <3>1
        <3> QED BY <1>4, <3>2 DEF EndStates
    <2> QED BY <2>1, <2>3
<1> HIDE DEF ending, es
<1>10. \A r \in BatchIds \ ids : r \in BatchIds \ ending
    BY DEF ending
<1> QED BY <1>1, <1>5, <1>6, <1>7, <1>8, <1>9, <1>10

LEMMA BenchSubmitStep == ASSUME BatchInv, BenchSubmit PROVE BatchInv'
<1>1. /\ BatchShape /\ EvalInv /\ BenchInv
      /\ bench.pc = "start" /\ Submitted(BenchIds) /\ bench' = [bench EXCEPT !.pc = "watch"] /\ UNCHANGED evals
    BY DEF BatchInv, BenchSubmit
<1>2. BenchIds \in SUBSET BatchIds /\ IsFiniteSet(BenchIds) /\ \A r \in EvalIds : r \in BatchIds \ BenchIds
    BY BatchAssumption DEF BatchIds
<1>3. \A r \in BenchIds : row[r].state = "unknown"
    BY <1>1 DEF BenchInv
<1>4. PICK es \in Seq(LoggedEvents) :
        /\ RowsStand /\ row' \in [BatchIds -> RowRecords]
        /\ \A r \in BatchIds \ BenchIds : row'[r] = row[r]
        /\ Logged(es) /\ \A e : InSeq(e, es) => ~SaysEnded(e)
    BY <1>1, <1>2, <1>3, SubmittedRows
<1>5. EvalInv'
    <2>1. \A r \in EvalIds : row'[r] = row[r]
        BY <1>2, <1>4
    <2> QED BY <1>1, <1>4, <2>1, EvalWaits
<1>6. BenchInv'
    BY <1>1 DEF BenchInv, BatchShape
<1>7. BatchShape'
    <2>1. backlog' \in Seq(LoggedEvents)
        BY <1>1, <1>4, LoggedHolds
    <2> QED BY <1>1, <1>4, <2>1 DEF BatchShape
<1> QED BY <1>5, <1>6, <1>7 DEF BatchInv

LEMMA EvalStands ==
    ASSUME EvalInv, UNCHANGED <<row, backlog, evals>>
    PROVE  EvalInv'
BY DEF EvalInv, EventsAhead, EventsTrue, EndsAhead, EndOf, QueueEvent, AnswersFinal, TrueAnswers, AnswerRecord,
       ApartAnswers, EvalPlace, Answered, AllEnded

LEMMA BenchTimeoutStep == ASSUME BatchInv, BenchTimeout PROVE BatchInv'
<1>1. /\ BatchShape /\ EvalInv /\ BenchInv
      /\ bench.pc = "watch" /\ bench' = [bench EXCEPT !.pc = "timeout"] /\ UNCHANGED evals
    BY DEF BatchInv, BenchTimeout
<1>2. bench' \in [pc : {"start", "watch", "collect", "ended", "timeout"}, opt : RunOptions,
                  completed : Nat, failed : Nat, valid : BOOLEAN]
      /\ bench'.pc = "timeout" /\ bench'.opt = bench.opt
    BY <1>1 DEF BatchShape
<1>3. CASE bench.opt.cancel
    <2>1. Cancelled(BenchIds)
        BY <1>3 DEF BenchTimeout
    <2>2. BenchIds \in SUBSET BatchIds /\ IsFiniteSet(BenchIds) /\ \A r \in EvalIds : r \in BatchIds \ BenchIds
        BY BatchAssumption DEF BatchIds
    <2>3. PICK es \in Seq(LoggedEvents) :
            /\ RowsStand /\ row' \in [BatchIds -> RowRecords]
            /\ \A r \in BatchIds \ BenchIds : row'[r] = row[r]
            /\ AllEnded(BenchIds)'
            /\ Logged(es) /\ \A e : InSeq(e, es) => row'[e.id].state \in EndStates /\ e.id \in BenchIds
        BY <1>1, <2>1, <2>2, CancelledRows
    <2>4. EvalInv'
        <3>1. \A r \in EvalIds : row'[r] = row[r]
            BY <2>2, <2>3
        <3> QED BY <1>1, <2>3, <3>1, EvalWaits
    <2>5. BenchInv'
        BY <1>2, <2>3 DEF BenchInv
    <2>6. BatchShape'
        <3>1. backlog' \in Seq(LoggedEvents)
            BY <1>1, <2>3, LoggedHolds
        <3> QED BY <1>1, <1>2, <2>3, <3>1 DEF BatchShape
    <2> QED BY <2>4, <2>5, <2>6 DEF BatchInv
<1>4. CASE ~bench.opt.cancel
    <2>1. UNCHANGED <<row, backlog>>
        BY <1>4 DEF BenchTimeout
    <2>2. EvalInv'
        BY <1>1, <2>1, EvalStands
    <2>3. BenchInv'
        BY <1>2, <1>4 DEF BenchInv
    <2> QED BY <1>1, <1>2, <2>1, <2>2, <2>3 DEF BatchInv, BatchShape
<1> QED BY <1>3, <1>4

LEMMA BenchStatusStep == ASSUME BatchInv, BenchStatus PROVE BatchInv'
<1>1. /\ BatchShape /\ EvalInv /\ BenchInv /\ AllEnded(BenchIds)
      /\ bench' = [bench EXCEPT !.pc = "collect"] /\ UNCHANGED <<row, backlog, evals>>
    BY DEF BatchInv, BenchStatus
<1>2. BenchInv'
    BY <1>1 DEF BenchInv, BatchShape, AllEnded
<1> QED BY <1>1, <1>2, EvalStands DEF BatchInv, BatchShape

LEMMA BenchCollectStep == ASSUME BatchInv, BenchCollect PROVE BatchInv'
<1>1. /\ BatchShape /\ EvalInv /\ BenchInv /\ bench.pc = "collect" /\ UNCHANGED <<row, backlog, evals>>
      /\ bench' = [bench EXCEPT !.pc = "ended", !.completed = Cardinality(CompletedRows),
                                !.failed = Cardinality(FailedRows), !.valid = PerfValid]
    BY DEF BatchInv, BenchCollect
<1>2. IsFiniteSet(CompletedRows) /\ IsFiniteSet(FailedRows)
    BY BatchAssumption, FS_Subset DEF CompletedRows, FailedRows
<1>3. Cardinality(CompletedRows) \in Nat /\ Cardinality(FailedRows) \in Nat
    BY <1>2, FS_CardinalityType
<1>4. Cardinality(FailedRows) = 0 <=> \A r \in BenchIds : row[r].state = "completed"
    <2>1. Cardinality(FailedRows) = 0 <=> FailedRows = {}
        BY <1>2, FS_EmptySet
    <2> QED BY <2>1 DEF FailedRows, CompletedRows
<1>5. bench' = [pc |-> "ended", opt |-> bench.opt, completed |-> Cardinality(CompletedRows),
                failed |-> Cardinality(FailedRows), valid |-> PerfValid]
    BY <1>1 DEF BatchShape
<1>6. PerfValid \in BOOLEAN
    BY DEF PerfValid
<1>7. BatchShape'
    BY <1>1, <1>3, <1>5, <1>6 DEF BatchShape
<1>8. BenchInv'
    <2>1. AllEnded(BenchIds)'
        BY <1>1 DEF BenchInv, AllEnded
    <2>2. bench'.pc = "ended" /\ bench'.failed = Cardinality(FailedRows) /\ bench'.valid = PerfValid
        BY <1>5
    <2>3. bench'.valid => \A r \in BenchIds : row'[r].runs <= 1
        BY <1>1, <2>2, Zenon DEF PerfValid
    <2>4. bench'.failed = 0 <=> \A r \in BenchIds : row'[r].state = "completed"
        BY <1>1, <1>4, <2>2
    <2> QED BY <2>1, <2>2, <2>3, <2>4 DEF BenchInv
<1> QED BY <1>1, <1>7, <1>8, EvalStands DEF BatchInv

(* The runner itself.                                                       *)
EvalRecords ==
    [pc : EvalSteps, opt : RunOptions, pending : SUBSET EvalIds, answers : Seq(AnswerRecords),
     page : Seq(LoggedEvents), live : Nat, grade : [total : Nat, passed : Nat]]

LEMMA EvalNewestStep == ASSUME BatchInv, EvalNewest PROVE BatchInv'
<1>1. /\ BatchShape /\ EvalInv /\ BenchInv /\ evals.pc = "start" /\ evals \in EvalRecords
      /\ evals' = [evals EXCEPT !.pc = "submit"] /\ backlog' = <<>> /\ UNCHANGED <<row, bench>>
    BY DEF BatchInv, EvalNewest, BatchShape, EvalRecords
<1>2. /\ evals' \in EvalRecords /\ evals'.pc = "submit" /\ evals'.page = <<>> /\ evals'.answers = evals.answers
      /\ evals'.pending = evals.pending /\ evals.page = <<>>
    BY <1>1 DEF EvalRecords, EvalSteps, EvalInv, EvalPlace
<1>3. BatchShape'
    BY <1>1, <1>2 DEF BatchShape, EvalRecords
<1>4. AnswersFinal' /\ Answered' = Answered
    BY <1>1, <1>2 DEF EvalInv, AnswersFinal, TrueAnswers, ApartAnswers, AnswerRecord, Answered, AnsweredIn
<1>5. EvalInv'
    BY <1>1, <1>2, <1>4 DEF EvalInv, EventsAhead, EventsTrue, EndsAhead, EvalPlace
<1>6. BenchInv'
    BY <1>1 DEF BenchInv, AllEnded
<1> QED BY <1>3, <1>5, <1>6 DEF BatchInv

LEMMA EvalSubmitStep == ASSUME BatchInv, EvalSubmit PROVE BatchInv'
<1>1. /\ BatchShape /\ EvalInv /\ BenchInv /\ evals.pc = "submit" /\ evals \in EvalRecords
      /\ Submitted(EvalIds) /\ evals' = [evals EXCEPT !.pc = "poll"] /\ UNCHANGED bench
    BY DEF BatchInv, EvalSubmit, BatchShape, EvalRecords
<1>2. /\ evals' \in EvalRecords /\ evals'.pc = "poll" /\ evals'.page = evals.page /\ evals'.answers = evals.answers
      /\ evals'.pending = evals.pending /\ evals.page = <<>>
    BY <1>1 DEF EvalRecords, EvalSteps, EvalInv, EvalPlace
<1>3. EvalIds \in SUBSET BatchIds /\ IsFiniteSet(EvalIds) /\ \A r \in BenchIds : r \in BatchIds \ EvalIds
    BY BatchAssumption DEF BatchIds
<1>4. PICK es \in Seq(LoggedEvents) :
        /\ RowsStand /\ row' \in [BatchIds -> RowRecords]
        /\ \A r \in BatchIds \ EvalIds : row'[r] = row[r]
        /\ \A r \in EvalIds : row'[r].state = "queued"
        /\ Logged(es) /\ \A e : InSeq(e, es) => ~SaysEnded(e)
    BY <1>1, <1>3, SubmittedRows DEF EvalInv, EvalPlace
<1>5. backlog' \in Seq(LoggedEvents) /\ \A x : InSeq(x, backlog') <=> InSeq(x, backlog) \/ InSeq(x, es)
    BY <1>1, <1>4, LoggedHolds
<1>6. BatchShape'
    BY <1>1, <1>2, <1>4, <1>5 DEF BatchShape, EvalRecords
<1>7. EventsTrue(backlog)'
    <2>1. EventsTrue(backlog)
        BY <1>1 DEF EvalInv, EventsAhead
    <2>2. \A k \in DOMAIN backlog : backlog[k].id \in BatchIds
        <3>1. \A k \in DOMAIN backlog : backlog[k] \in LoggedEvents
            BY <1>1 DEF BatchShape
        <3> QED BY <3>1 DEF LoggedEvents
    <2>3. ASSUME NEW k \in DOMAIN backlog', SaysEnded(backlog'[k]) PROVE row'[backlog'[k].id].state \in EndStates
        <3>1. InSeq(backlog'[k], backlog') /\ ~InSeq(backlog'[k], es)
            BY <1>4, <2>3 DEF InSeq
        <3>2. PICK j \in DOMAIN backlog : backlog[j] = backlog'[k]
            BY <1>5, <3>1 DEF InSeq
        <3> QED BY <1>4, <2>1, <2>2, <2>3, <3>2 DEF EventsTrue, RowsStand
    <2> QED BY <2>3 DEF EventsTrue
<1>8. AnswersFinal' /\ Answered' = Answered
    <2>1. evals.answers \in Seq(AnswerRecords)
        BY <1>1 DEF EvalRecords
    <2> QED BY <1>1, <1>2, <1>4, <2>1, AnswersStay DEF EvalInv, AnswersFinal, Answered
<1>9. EvalInv'
    <2>1. EventsTrue(evals.page)'
        BY <1>2 DEF EventsTrue
    <2>2. EndsAhead'
        <3>1. \A r \in EvalIds : row'[r].state \notin EndStates
            BY <1>4 DEF EndStates
        <3>2. evals'.pending \subseteq EvalIds
            BY <1>2 DEF EvalRecords
        <3> QED BY <3>1, <3>2 DEF EndsAhead
    <2>3. EvalPlace'
        BY <1>1, <1>2, <1>8 DEF EvalInv, EvalPlace
    <2> QED BY <1>2, <1>7, <1>8, <2>1, <2>2, <2>3 DEF EvalInv, EventsAhead
<1>10. BenchInv'
    BY <1>1, <1>3, <1>4, BenchStays DEF BenchInv
<1> QED BY <1>6, <1>9, <1>10 DEF BatchInv

(* A page and what is behind it. *)
LEMMA PageHolds ==
    ASSUME NEW S, NEW s \in Seq(S), NEW n \in 0..Len(s)
    PROVE  /\ SubSeq(s, 1, n) \in Seq(S) /\ SubSeq(s, n + 1, Len(s)) \in Seq(S) /\ Len(SubSeq(s, 1, n)) = n
           /\ \A x : InSeq(x, s) <=> InSeq(x, SubSeq(s, 1, n)) \/ InSeq(x, SubSeq(s, n + 1, Len(s)))
<1> DEFINE m == Len(s)
           a == SubSeq(s, 1, n)
           b == SubSeq(s, n + 1, m)
<1>1. /\ m \in Nat /\ n \in 0..m /\ DOMAIN s = 1..m /\ a \in Seq(S) /\ b \in Seq(S)
      /\ Len(a) = n /\ DOMAIN a = 1..n /\ \A i \in 1..n : a[i] = s[i]
    OBVIOUS
<1>2. Len(b) = m - n /\ DOMAIN b = 1..m - n /\ \A i \in 1..m - n : b[i] = s[n + i]
    <2>1. Len(b) = m - n
        <3>1. n + 1 \in 1..m + 1 /\ m \in Nat
            BY <1>1
        <3> QED BY <3>1
    <2>2. DOMAIN b = 1..m - n
        <3> HIDE DEF b, m
        <3>1. DOMAIN b = 1..Len(b)
            BY <1>1
        <3> QED BY <2>1, <3>1
    <2>3. ASSUME NEW i \in 1..m - n PROVE b[i] = s[n + i]
        <3>1. b[i] = s[(n + 1) + i - 1]
            BY <1>1, <2>3
        <3>2. n \in Int /\ i \in Int
            BY <1>1
        <3>3. (n + 1) + i - 1 = n + i
            BY <3>2
        <3> QED BY <3>1, <3>3
    <2> QED BY <2>1, <2>2, <2>3
<1> HIDE DEF m, a, b
<1>3. ASSUME NEW x, InSeq(x, a) PROVE InSeq(x, s)
    BY <1>1, <1>3 DEF InSeq
<1>4. ASSUME NEW x, InSeq(x, b) PROVE InSeq(x, s)
    <2>1. PICK i \in 1..m - n : b[i] = x
        BY <1>2, <1>4 DEF InSeq
    <2>2. n + i \in 1..m
        BY <1>1
    <2> QED BY <1>1, <1>2, <2>1, <2>2 DEF InSeq
<1>5. ASSUME NEW x, InSeq(x, s), ~InSeq(x, a) PROVE InSeq(x, b)
    <2>1. PICK i \in 1..m : s[i] = x
        BY <1>1, <1>5 DEF InSeq
    <2>2. i \notin 1..n
        BY <1>1, <1>5, <2>1 DEF InSeq
    <2>3. i - n \in 1..m - n /\ n + (i - n) = i
        BY <1>1, <2>2
    <2>4. b[i - n] = s[n + (i - n)]
        BY <1>2, <2>3
    <2> QED BY <1>2, <2>1, <2>3, <2>4 DEF InSeq
<1>6. \A x : InSeq(x, s) <=> InSeq(x, a) \/ InSeq(x, b)
    BY <1>3, <1>4, <1>5
<1> QED BY <1>1, <1>6 DEF m, a, b

LEMMA EvalPollStep == ASSUME BatchInv, EvalPoll PROVE BatchInv'
<1> DEFINE page == SubSeq(backlog, 1, PageSize)
           behind == SubSeq(backlog, PageSize + 1, Len(backlog))
<1>1. /\ BatchShape /\ EvalInv /\ BenchInv /\ evals.pc = "poll" /\ evals \in EvalRecords
      /\ page # <<>> /\ evals' = [evals EXCEPT !.pc = "handle", !.page = page] /\ UNCHANGED <<row, bench>>
      /\ backlog' = SubSeq(backlog, NewestOf(page) + 1, Len(backlog)) /\ backlog \in Seq(LoggedEvents)
    BY DEF BatchInv, EvalPoll, BatchShape, EvalRecords
<1>2. PageSize \in 0..Len(backlog)
    BY <1>1, BatchAssumption DEF PageSize
<1>3. /\ page \in Seq(LoggedEvents) /\ behind \in Seq(LoggedEvents) /\ Len(page) = PageSize
      /\ \A x : InSeq(x, backlog) <=> InSeq(x, page) \/ InSeq(x, behind)
    BY <1>1, <1>2, PageHolds
<1>4. backlog' = behind
    BY <1>1, <1>3 DEF NewestOf
<1> HIDE DEF page, behind
<1>5. /\ evals' \in EvalRecords /\ evals'.pc = "handle" /\ evals'.page = page /\ evals'.answers = evals.answers
      /\ evals'.pending = evals.pending /\ evals.page = <<>>
    BY <1>1, <1>3 DEF EvalRecords, EvalSteps, EvalInv, EvalPlace
<1>6. BatchShape'
    BY <1>1, <1>3, <1>4, <1>5 DEF BatchShape, EvalRecords
<1>7. EventsTrue(evals.page)' /\ EventsTrue(backlog)'
    <2>1. \A x : InSeq(x, backlog) /\ SaysEnded(x) => row[x.id].state \in EndStates
        BY <1>1 DEF EvalInv, EventsAhead, EventsTrue, InSeq
    <2>2. \A k \in DOMAIN page : InSeq(page[k], backlog)
        BY <1>3 DEF InSeq
    <2>3. \A k \in DOMAIN behind : InSeq(behind[k], backlog)
        BY <1>3 DEF InSeq
    <2> QED BY <1>1, <1>4, <1>5, <2>1, <2>2, <2>3 DEF EventsTrue
<1>8. EndsAhead'
    <2>1. \A r : EndOf(r)' = EndOf(r)
        BY <1>1 DEF EndOf, QueueEvent
    <2>2. \A x : ~InSeq(x, evals.page)
        BY <1>5 DEF InSeq
    <2> QED BY <1>1, <1>3, <1>4, <1>5, <2>1, <2>2 DEF EvalInv, EndsAhead
<1>9. AnswersFinal' /\ Answered' = Answered
    BY <1>1, <1>5 DEF EvalInv, AnswersFinal, TrueAnswers, ApartAnswers, AnswerRecord, Answered, AnsweredIn
<1>10. EvalInv'
    BY <1>1, <1>5, <1>7, <1>8, <1>9 DEF EvalInv, EventsAhead, EvalPlace
<1>11. BenchInv'
    BY <1>1 DEF BenchInv, AllEnded
<1> QED BY <1>6, <1>10, <1>11 DEF BatchInv

LEMMA AnswersGrow ==
    ASSUME BatchShape, NEW a \in Seq(AnswerRecords), TrueAnswers(a), ApartAnswers(a),
           NEW r \in EvalIds, r \notin AnsweredIn(a), row[r].state \in EndStates
    PROVE  LET b == Append(a, AnswerRecord(r))
           IN  b \in Seq(AnswerRecords) /\ TrueAnswers(b) /\ ApartAnswers(b) /\ AnsweredIn(b) = AnsweredIn(a) \cup {r}
<1> DEFINE x == AnswerRecord(r)
           b == Append(a, x)
           n == Len(a)
<1>1. x \in AnswerRecords /\ x.id = r
    BY DEF AnswerRecord, AnswerRecords, BatchShape, BatchIds, RowRecords
<1>2. x = AnswerRecord(x.id) /\ row[x.id].state \in EndStates
    BY <1>1
<1> HIDE DEF x
<1>3. /\ n \in Nat /\ DOMAIN a = 1..n /\ b \in Seq(AnswerRecords) /\ DOMAIN b = 1..n + 1
      /\ \A k \in 1..n : b[k] = a[k]
      /\ b[n + 1] = x
    BY <1>1
<1> HIDE DEF b, n
<1>4. \A k \in 1..n + 1 : k \in 1..n \/ k = n + 1
    BY <1>3
<1>5. TrueAnswers(b)
    BY <1>2, <1>3, <1>4 DEF TrueAnswers
<1>6. ApartAnswers(b)
    <2>1. \A k \in 1..n : a[k].id # r
        BY <1>3 DEF AnsweredIn
    <2> QED BY <1>1, <1>3, <1>4, <2>1 DEF ApartAnswers
<1>7. AnsweredIn(b) = AnsweredIn(a) \cup {r}
    <2>1. 1..n \subseteq 1..n + 1 /\ n + 1 \in 1..n + 1
        BY <1>3
    <2> QED BY <1>1, <1>3, <1>4, <2>1 DEF AnsweredIn
<1> QED BY <1>3, <1>5, <1>6, <1>7 DEF b, x

LEMMA EvalHandleStep == ASSUME BatchInv, EvalHandle PROVE BatchInv'
<1> DEFINE e == Head(evals.page)
           answers == IF Answers(e) THEN Append(evals.answers, AnswerRecord(e.id)) ELSE evals.answers
           pending == IF Answers(e) THEN evals.pending \ {e.id} ELSE evals.pending
           following == IF Tail(evals.page) # <<>> THEN "handle" ELSE IF pending = {} THEN "collect" ELSE "poll"
<1>1. /\ BatchShape /\ EvalInv /\ BenchInv /\ evals.pc = "handle" /\ evals \in EvalRecords /\ UNCHANGED bench
      /\ evals.page # <<>>
    BY DEF BatchInv, EvalHandle, BatchShape, EvalRecords, EvalInv, EvalPlace
<1>2. /\ Tail(evals.page) \in Seq(LoggedEvents) /\ e \in LoggedEvents
      /\ \A x : InSeq(x, evals.page) <=> x = e \/ InSeq(x, Tail(evals.page))
    <2>1. evals.page \in Seq(LoggedEvents)
        BY <1>1 DEF EvalRecords
    <2> QED BY <1>1, <2>1, TailHolds
<1>3. \A x : InSeq(x, evals.page) /\ SaysEnded(x) => row[x.id].state \in EndStates
    BY <1>1 DEF EvalInv, EventsAhead, EventsTrue, InSeq
<1>4. /\ answers \in Seq(AnswerRecords) /\ TrueAnswers(answers) /\ ApartAnswers(answers)
      /\ pending \in SUBSET EvalIds /\ AnsweredIn(answers) = EvalIds \ pending
      /\ pending \subseteq evals.pending
    <2>1. /\ evals.answers \in Seq(AnswerRecords) /\ TrueAnswers(evals.answers) /\ ApartAnswers(evals.answers)
          /\ evals.pending \in SUBSET EvalIds /\ AnsweredIn(evals.answers) = EvalIds \ evals.pending
        BY <1>1 DEF EvalRecords, EvalInv, AnswersFinal, EvalPlace, Answered
    <2>2. CASE ~Answers(e)
        BY <2>1, <2>2
    <2>3. CASE Answers(e)
        <3>1. e.id \in evals.pending /\ SaysEnded(e)
            BY <2>3 DEF Answers, SaysEnded
        <3>2. row[e.id].state \in EndStates /\ e.id \in EvalIds /\ e.id \notin AnsweredIn(evals.answers)
            BY <1>2, <1>3, <2>1, <3>1
        <3> DEFINE r == e.id
                   a == evals.answers
        <3>3. /\ a \in Seq(AnswerRecords) /\ TrueAnswers(a) /\ ApartAnswers(a)
              /\ row[r].state \in EndStates /\ r \in EvalIds /\ r \notin AnsweredIn(a)
            BY <2>1, <3>2
        <3> HIDE DEF r, a, e
        <3>4. /\ Append(a, AnswerRecord(r)) \in Seq(AnswerRecords)
              /\ TrueAnswers(Append(a, AnswerRecord(r))) /\ ApartAnswers(Append(a, AnswerRecord(r)))
              /\ AnsweredIn(Append(a, AnswerRecord(r))) = AnsweredIn(a) \cup {r}
            BY <1>1, <3>3, AnswersGrow
        <3>5. answers = Append(a, AnswerRecord(r)) /\ pending = evals.pending \ {r}
            BY <2>3 DEF a, r
        <3> HIDE DEF answers, pending
        <3>6. AnsweredIn(a) = EvalIds \ evals.pending /\ r \in evals.pending
            BY <2>1, <3>1 DEF a, r
        <3> QED BY <2>1, <3>3, <3>4, <3>5, <3>6
    <2> QED BY <2>2, <2>3
<1>5. \A r \in pending : e # EndOf(r) \/ row[r].state \notin EndStates
    <2> SUFFICES ASSUME NEW r \in pending, e = EndOf(r), row[r].state \in EndStates PROVE FALSE
        OBVIOUS
    <2>1. e.id = r /\ ~e.delta /\ e.state \in EndStates
        BY DEF EndOf, QueueEvent
    <2>2. Answers(e)
        BY <1>4, <2>1 DEF Answers
    <2> QED BY <2>1, <2>2
<1>6. CASE Answers(e) /\ BelowAccuracy(answers)
    <2>1. /\ evals' = [evals EXCEPT !.page = Tail(@), !.answers = answers, !.pending = pending, !.pc = "aborted"]
          /\ Cancelled(EvalIds)
        BY <1>6 DEF EvalHandle
    <2> HIDE DEF answers, pending
    <2>2. /\ evals' \in EvalRecords /\ evals'.pc = "aborted" /\ evals'.answers = answers
        BY <1>1, <1>2, <1>4, <2>1 DEF EvalRecords, EvalSteps
    <2>3. EvalIds \in SUBSET BatchIds /\ IsFiniteSet(EvalIds) /\ \A r \in BenchIds : r \in BatchIds \ EvalIds
        BY BatchAssumption DEF BatchIds
    <2>4. PICK es \in Seq(LoggedEvents) :
            /\ RowsStand /\ row' \in [BatchIds -> RowRecords]
            /\ \A r \in BatchIds \ EvalIds : row'[r] = row[r]
            /\ AllEnded(EvalIds)' /\ Logged(es)
        BY <1>1, <2>1, <2>3, CancelledRows
    <2>5. backlog' \in Seq(LoggedEvents)
        BY <1>1, <2>4, LoggedHolds
    <2>6. BatchShape'
        BY <1>1, <2>2, <2>4, <2>5 DEF BatchShape, EvalRecords
    <2>7. AnswersFinal'
        <3>1. PICK a : a = answers
            OBVIOUS
        <3> QED BY <1>4, <2>2, <2>4, <3>1, AnswersStay
    <2>8. EvalInv'
        BY <2>2, <2>4, <2>7 DEF EvalInv, EventsAhead, EndsAhead, EvalPlace
    <2>9. BenchInv'
        <3>1. bench.pc = "start" => \A r \in BenchIds : row'[r].state = "unknown"
            BY <1>1, <2>3, <2>4 DEF BenchInv
        <3> QED BY <1>1, <2>4, <3>1, BenchStays
    <2> QED BY <2>6, <2>8, <2>9 DEF BatchInv
<1>7. CASE ~(Answers(e) /\ BelowAccuracy(answers))
    <2>1. /\ evals' = [evals EXCEPT !.page = Tail(@), !.answers = answers, !.pending = pending, !.pc = following]
          /\ UNCHANGED <<row, backlog>>
        BY <1>7 DEF EvalHandle
    <2> HIDE DEF answers, pending
    <2>2. /\ evals' \in EvalRecords /\ evals'.pc = following /\ evals'.answers = answers
          /\ evals'.pending = pending /\ evals'.page = Tail(evals.page)
        BY <1>1, <1>2, <1>4, <2>1 DEF EvalRecords, EvalSteps
    <2>3. BatchShape'
        BY <1>1, <2>1, <2>2 DEF BatchShape, EvalRecords
    <2>4. EventsAhead'
        <3>1. \A k \in DOMAIN Tail(evals.page) : InSeq(Tail(evals.page)[k], evals.page)
            BY <1>2 DEF InSeq
        <3>2. EventsTrue(evals.page)'
            BY <1>3, <2>1, <2>2, <3>1 DEF EventsTrue
        <3>3. EventsTrue(backlog)'
            BY <1>1, <2>1 DEF EvalInv, EventsAhead, EventsTrue
        <3> QED BY <3>2, <3>3 DEF EventsAhead
    <2>5. EndsAhead'
        <3>1. \A r : EndOf(r)' = EndOf(r)
            BY <2>1 DEF EndOf, QueueEvent
        <3>2. \A r \in pending : row[r].state \in EndStates => InSeq(EndOf(r), evals.page) \/ InSeq(EndOf(r), backlog)
            BY <1>1, <1>4 DEF EvalInv, EndsAhead
        <3> HIDE DEF e
        <3>3. \A r \in pending : row[r].state \in EndStates => InSeq(EndOf(r), Tail(evals.page)) \/ InSeq(EndOf(r), backlog)
            BY <1>2, <1>5, <3>2
        <3> QED BY <2>1, <2>2, <3>1, <3>3 DEF EndsAhead
    <2>6. AnswersFinal' /\ Answered' = EvalIds \ pending
        <3>1. PICK a : a = answers
            OBVIOUS
        <3>2. RowsStand
            BY <2>1 DEF RowsStand
        <3>3. AnswersFinal' /\ Answered' = AnsweredIn(a)
            BY <1>4, <2>2, <3>1, <3>2, AnswersStay
        <3> QED BY <1>4, <3>1, <3>3
    <2>7. pending = {} => AllEnded(EvalIds)'
        <3>1. \A r \in AnsweredIn(answers) : row[r].state \in EndStates
            BY <1>4 DEF TrueAnswers, AnsweredIn
        <3> QED BY <1>4, <2>1, <3>1 DEF AllEnded
    <2>8. EvalPlace'
        BY <2>2, <2>6, <2>7 DEF EvalPlace
    <2>9. BenchInv'
        BY <1>1, <2>1 DEF BenchInv, AllEnded
    <2> QED BY <2>3, <2>4, <2>5, <2>6, <2>8, <2>9 DEF BatchInv, EvalInv
<1> QED BY <1>6, <1>7

LEMMA EvalProgressStep == ASSUME BatchInv, EvalProgress PROVE BatchInv'
<1>1. /\ BatchShape /\ EvalInv /\ BenchInv /\ evals \in EvalRecords /\ AllEnded(EvalIds)
      /\ evals' = [evals EXCEPT !.pc = "collect", !.pending = {}] /\ UNCHANGED <<row, backlog, bench>>
    BY DEF BatchInv, EvalProgress, BatchShape, EvalRecords
<1>2. evals' \in EvalRecords /\ evals'.pc = "collect" /\ evals'.answers = evals.answers
    BY <1>1 DEF EvalRecords, EvalSteps
<1>3. BatchShape'
    BY <1>1, <1>2 DEF BatchShape, EvalRecords
<1>4. AnswersFinal'
    BY <1>1, <1>2 DEF EvalInv, AnswersFinal, TrueAnswers, ApartAnswers, AnswerRecord
<1>5. EvalInv'
    BY <1>1, <1>2, <1>4 DEF EvalInv, EventsAhead, EndsAhead, EvalPlace, AllEnded
<1>6. BenchInv'
    BY <1>1 DEF BenchInv, AllEnded
<1> QED BY <1>3, <1>5, <1>6 DEF BatchInv

LEMMA EvalTimeoutStep == ASSUME BatchInv, EvalTimeout PROVE BatchInv'
<1>1. /\ BatchShape /\ EvalInv /\ BenchInv /\ evals \in EvalRecords /\ UNCHANGED bench
      /\ evals' = [evals EXCEPT !.pc = "timeout"]
    BY DEF BatchInv, EvalTimeout, BatchShape, EvalRecords
<1>2. evals' \in EvalRecords /\ evals'.pc = "timeout" /\ evals'.answers = evals.answers /\ evals'.opt = evals.opt
    BY <1>1 DEF EvalRecords, EvalSteps
<1>3. evals.answers \in Seq(AnswerRecords)
    BY <1>1 DEF EvalRecords
<1>4. CASE evals.opt.cancel
    <2>1. Cancelled(EvalIds)
        BY <1>4 DEF EvalTimeout
    <2>2. EvalIds \in SUBSET BatchIds /\ IsFiniteSet(EvalIds) /\ \A r \in BenchIds : r \in BatchIds \ EvalIds
        BY BatchAssumption DEF BatchIds
    <2>3. PICK es \in Seq(LoggedEvents) :
            /\ RowsStand /\ row' \in [BatchIds -> RowRecords]
            /\ \A r \in BatchIds \ EvalIds : row'[r] = row[r]
            /\ AllEnded(EvalIds)' /\ Logged(es)
        BY <1>1, <2>1, <2>2, CancelledRows
    <2>4. backlog' \in Seq(LoggedEvents)
        BY <1>1, <2>3, LoggedHolds
    <2>5. BatchShape'
        BY <1>1, <1>2, <2>3, <2>4 DEF BatchShape, EvalRecords
    <2>6. AnswersFinal'
        BY <1>1, <1>2, <1>3, <2>3, AnswersStay DEF EvalInv, AnswersFinal
    <2>7. EvalInv'
        BY <1>2, <2>3, <2>6 DEF EvalInv, EventsAhead, EndsAhead, EvalPlace
    <2>8. BenchInv'
        <3>1. bench.pc = "start" => \A r \in BenchIds : row'[r].state = "unknown"
            BY <1>1, <2>2, <2>3 DEF BenchInv
        <3> QED BY <1>1, <2>3, <3>1, BenchStays
    <2> QED BY <2>5, <2>7, <2>8 DEF BatchInv
<1>5. CASE ~evals.opt.cancel
    <2>1. UNCHANGED <<row, backlog>>
        BY <1>5 DEF EvalTimeout
    <2>2. BatchShape'
        BY <1>1, <1>2, <2>1 DEF BatchShape, EvalRecords
    <2>3. AnswersFinal'
        BY <1>1, <1>2, <2>1 DEF EvalInv, AnswersFinal, TrueAnswers, ApartAnswers, AnswerRecord
    <2>4. EvalInv'
        BY <1>2, <1>5, <2>3 DEF EvalInv, EventsAhead, EndsAhead, EvalPlace
    <2>5. BenchInv'
        BY <1>1, <2>1 DEF BenchInv, AllEnded
    <2> QED BY <2>2, <2>4, <2>5 DEF BatchInv
<1> QED BY <1>4, <1>5

(* The answers that were not given live. *)
LEMMA BackfilledAnswers ==
    ASSUME BatchShape, NEW a \in Seq(AnswerRecords), TrueAnswers(a), ApartAnswers(a), AllEnded(EvalIds)
    PROVE  LET b == Backfilled(a)
           IN  b \in Seq(AnswerRecords) /\ TrueAnswers(b) /\ ApartAnswers(b) /\ AnsweredIn(b) = EvalIds
<1> DEFINE ids == EvalIds \ AnsweredIn(a)
           E == {AnswerRecord(r) : r \in ids}
           f == [r \in ids |-> AnswerRecord(r)]
           t == SetToSeq(E)
           b == a \o t
<1>1. Backfilled(a) = b
    BY DEF Backfilled, AnsweredIn
<1>2. IsFiniteSet(E)
    <2>1. IsFiniteSet(ids)
        BY BatchAssumption, FS_Subset
    <2>2. f \in Surjection(ids, E)
        BY DEF Surjection
    <2> HIDE DEF ids, E, f
    <2> QED BY <2>1, <2>2, FS_Surjection
<1>3. \A r \in EvalIds : AnswerRecord(r) \in AnswerRecords /\ AnswerRecord(r).id = r
    BY DEF AnswerRecord, AnswerRecords, BatchShape, BatchIds, RowRecords
<1>4. /\ E \subseteq AnswerRecords
      /\ \A x \in E : x.id \in ids /\ x = AnswerRecord(x.id)
      /\ \A r \in ids : AnswerRecord(r) \in E
    BY <1>3
<1> HIDE DEF E
<1>5. t \in Seq(E) /\ (\A x \in E : \E i \in DOMAIN t : t[i] = x) /\ IsInjective(t)
    BY <1>2, SetToSeqHolds
<1> HIDE DEF t
<1>6. t \in Seq(AnswerRecords) /\ \A k \in DOMAIN t : t[k] \in E
    BY <1>4, <1>5
<1>7. b \in Seq(AnswerRecords) /\ \A x : InSeq(x, b) <=> InSeq(x, a) \/ InSeq(x, t)
    BY <1>6, ConcatenationHolds
<1>8. /\ Len(a) \in Nat /\ DOMAIN a = 1..Len(a) /\ DOMAIN t = 1..Len(t) /\ Len(t) \in Nat /\ DOMAIN b = 1..Len(a) + Len(t)
      /\ \A i \in 1..Len(a) : b[i] = a[i]
      /\ \A i \in 1..Len(a) + Len(t) : i \in 1..Len(a) \/ (i - Len(a) \in 1..Len(t) /\ b[i] = t[i - Len(a)])
    <2>1. /\ Len(a) \in Nat /\ DOMAIN a = 1..Len(a) /\ DOMAIN t = 1..Len(t) /\ Len(t) \in Nat /\ DOMAIN b = 1..Len(a) + Len(t)
          /\ \A i \in 1..Len(a) : b[i] = a[i]
          /\ \A i \in 1..Len(t) : b[Len(a) + i] = t[i]
        BY <1>6
    <2> DEFINE n == Len(a)
               m == Len(t)
    <2> HIDE DEF b, n, m
    <2>2. ASSUME NEW i \in 1..n + m, i \notin 1..n PROVE i - n \in 1..m /\ b[i] = t[i - n]
        <3>1. n \in Nat /\ m \in Nat
            BY <2>1 DEF n, m
        <3>2. i - n \in 1..m /\ n + (i - n) = i
            BY <2>2, <3>1
        <3>3. b[n + (i - n)] = t[i - n]
            BY <2>1, <3>2 DEF n, m
        <3> QED BY <3>2, <3>3
    <2> QED BY <2>1, <2>2 DEF n, m
<1> DEFINE n == Len(a)
           m == Len(t)
<1> HIDE DEF b, n, m
<1>9. /\ n \in Nat /\ DOMAIN a = 1..n /\ DOMAIN t = 1..m /\ m \in Nat /\ DOMAIN b = 1..n + m
      /\ \A i \in 1..n : b[i] = a[i]
      /\ \A i \in 1..n + m : i \in 1..n \/ (i - n \in 1..m /\ b[i] = t[i - n])
    BY <1>8 DEF n, m
<1>10. \A r \in ids : r \in EvalIds /\ row[r].state \in EndStates /\ r \notin AnsweredIn(a)
    BY DEF AllEnded
<1> HIDE DEF ids
<1>11. \A k \in DOMAIN t : t[k].id \in ids /\ t[k] = AnswerRecord(t[k].id)
    BY <1>4, <1>6
<1>12. \A k \in DOMAIN a : a[k].id \in AnsweredIn(a) /\ a[k].id \in EvalIds
    <2>1. \A k \in DOMAIN a : a[k] \in AnswerRecords
        OBVIOUS
    <2> QED BY <2>1 DEF AnsweredIn, AnswerRecords
<1>13. TrueAnswers(b)
    <2> SUFFICES ASSUME NEW k \in 1..n + m PROVE b[k] = AnswerRecord(b[k].id) /\ row[b[k].id].state \in EndStates
        BY <1>9 DEF TrueAnswers
    <2>1. CASE k \in 1..n
        BY <1>9, <2>1 DEF TrueAnswers
    <2>2. CASE k \notin 1..n
        <3>1. k - n \in DOMAIN t /\ b[k] = t[k - n]
            BY <1>9, <2>2
        <3> QED BY <1>10, <1>11, <3>1
    <2> QED BY <2>1, <2>2
<1>14. ApartAnswers(b)
    <2> SUFFICES ASSUME NEW j \in 1..n + m, NEW k \in 1..n + m, b[j].id = b[k].id PROVE j = k
        BY <1>9 DEF ApartAnswers
    <2>1. CASE j \in 1..n /\ k \in 1..n
        BY <1>9, <2>1 DEF ApartAnswers
    <2>2. CASE j \in 1..n /\ k \notin 1..n
        BY <1>9, <1>10, <1>11, <1>12, <2>2
    <2>3. CASE j \notin 1..n /\ k \in 1..n
        BY <1>9, <1>10, <1>11, <1>12, <2>3
    <2>4. CASE j \notin 1..n /\ k \notin 1..n
        <3>1. j - n \in DOMAIN t /\ b[j] = t[j - n] /\ k - n \in DOMAIN t /\ b[k] = t[k - n]
            BY <1>9, <2>4
        <3>2. t[j - n] = t[k - n]
            BY <1>11, <3>1
        <3>3. j - n = k - n
            BY <1>5, <3>1, <3>2 DEF IsInjective
        <3>4. n \in Int /\ j \in Int /\ k \in Int
            BY <1>9
        <3> QED BY <3>3, <3>4
    <2> QED BY <2>1, <2>2, <2>3, <2>4
<1>15. AnsweredIn(b) = EvalIds
    <2>1. ASSUME NEW k \in DOMAIN b PROVE b[k].id \in EvalIds
        BY <1>9, <1>10, <1>11, <1>12
    <2>2. ASSUME NEW r \in EvalIds PROVE \E k \in DOMAIN b : b[k].id = r
        <3>1. CASE r \in AnsweredIn(a)
            <4>1. PICK k \in 1..n : a[k].id = r
                BY <1>9, <3>1 DEF AnsweredIn
            <4>2. k \in 1..n + m
                BY <1>9
            <4> QED BY <1>9, <4>1, <4>2
        <3>2. CASE r \notin AnsweredIn(a)
            <4>1. AnswerRecord(r) \in E
                BY <1>4, <3>2 DEF ids
            <4>2. InSeq(AnswerRecord(r), b)
                BY <1>5, <1>7, <4>1 DEF InSeq
            <4> QED BY <1>3, <4>2 DEF InSeq
        <3> QED BY <3>1, <3>2
    <2> QED BY <2>1, <2>2 DEF AnsweredIn
<1> QED BY <1>1, <1>7, <1>13, <1>14, <1>15

LEMMA EvalCollectStep == ASSUME BatchInv, EvalCollect PROVE BatchInv'
<1> DEFINE a == Backfilled(evals.answers)
<1>1. /\ BatchShape /\ EvalInv /\ BenchInv /\ evals \in EvalRecords /\ AllEnded(EvalIds)
      /\ evals' = [evals EXCEPT !.pc = "ended", !.answers = a, !.live = Len(evals.answers), !.grade = GradeCollect]
      /\ UNCHANGED <<row, backlog, bench>>
    BY DEF BatchInv, EvalCollect, BatchShape, EvalRecords, EvalInv, EvalPlace
<1>2. /\ evals.answers \in Seq(AnswerRecords) /\ Len(evals.answers) \in Nat
      /\ TrueAnswers(evals.answers) /\ ApartAnswers(evals.answers)
    BY <1>1 DEF EvalRecords, EvalInv, AnswersFinal
<1>3. a \in Seq(AnswerRecords) /\ TrueAnswers(a) /\ ApartAnswers(a) /\ AnsweredIn(a) = EvalIds
    BY <1>1, <1>2, BackfilledAnswers
<1>4. GradeCollect \in [total : Nat, passed : Nat]
    <2>1. IsFiniteSet(EvalIds) /\ IsFiniteSet({r \in EvalIds : row[r].right})
        BY BatchAssumption, FS_Subset
    <2>2. Cardinality(EvalIds) \in Nat /\ Cardinality({r \in EvalIds : row[r].right}) \in Nat
        BY <2>1, FS_CardinalityType
    <2> QED BY <2>2 DEF GradeCollect
<1> HIDE DEF a
<1>5. evals' \in EvalRecords /\ evals'.pc = "ended" /\ evals'.answers = a /\ evals'.grade = GradeCollect
    BY <1>1, <1>2, <1>3, <1>4 DEF EvalRecords, EvalSteps
<1>6. BatchShape'
    BY <1>1, <1>5 DEF BatchShape, EvalRecords
<1>7. AnswersFinal' /\ Answered' = EvalIds
    <2>1. PICK s : s = a
        OBVIOUS
    <2>2. RowsStand
        BY <1>1 DEF RowsStand
    <2>3. AnswersFinal' /\ Answered' = AnsweredIn(s)
        BY <1>3, <1>5, <2>1, <2>2, AnswersStay
    <2> QED BY <1>3, <2>1, <2>3
<1>8. EvalInv'
    BY <1>1, <1>5, <1>7 DEF EvalInv, EventsAhead, EndsAhead, EvalPlace, GradeCollect, AllEnded
<1>9. BenchInv'
    BY <1>1 DEF BenchInv, AllEnded
<1> QED BY <1>6, <1>8, <1>9 DEF BatchInv

LEMMA BatchInvStep == BatchInv /\ [BatchNext]_batchVars => BatchInv'
<1> SUFFICES ASSUME BatchInv, [BatchNext]_batchVars PROVE BatchInv'
    OBVIOUS
<1>1. ASSUME NEW r \in BatchIds, RunRow(r) \/ RetryRow(r) \/ RowDelta(r) \/ \E right \in Outcomes(r) : FinishRow(r, right)
      PROVE  BatchInv'
    <2>1. Outcomes(r) \subseteq BOOLEAN
        BY DEF Outcomes
    <2> QED BY <1>1, <2>1, RunRowStep, RetryRowStep, RowDeltaStep, FinishRowStep
<1>2. CASE UNCHANGED batchVars
    <2>1. UNCHANGED <<row, backlog, evals, bench>>
        BY <1>2 DEF batchVars
    <2>2. BatchShape' /\ BenchInv'
        BY <2>1 DEF BatchInv, BatchShape, BenchInv, AllEnded
    <2> QED BY <2>1, <2>2, EvalStands DEF BatchInv
<1> QED BY <1>1, <1>2, EvalNewestStep, EvalSubmitStep, EvalPollStep, EvalHandleStep, EvalProgressStep, EvalTimeoutStep,
           EvalCollectStep, BenchSubmitStep, BenchStatusStep, BenchTimeoutStep, BenchCollectStep DEF BatchNext

LEMMA BatchInvTells ==
    ASSUME BatchInv
    PROVE  EndStillAhead /\ AnsweredOnce /\ NothingLeftRunning /\ BenchTruthful
<1>1. EndStillAhead
    BY DEF BatchInv, EvalInv, EndsAhead, EndOf, InSeq, EndStillAhead
<1>2. NothingLeftRunning /\ BenchTruthful
    BY DEF BatchInv, EvalInv, EvalPlace, BenchInv, NothingLeftRunning, BenchTruthful
<1>3. ASSUME evals.pc = "ended" PROVE AnsweredOnce
    <2> DEFINE a == evals.answers
               f == [k \in 1..Len(a) |-> a[k].id]
               P == {k \in 1..Len(a) : a[k].passed}
               R == {r \in EvalIds : row[r].right}
               g == [k \in P |-> a[k].id]
    <2>1. /\ a \in Seq(AnswerRecords) /\ TrueAnswers(a) /\ ApartAnswers(a) /\ AnsweredIn(a) = EvalIds
          /\ evals.grade = [total |-> Cardinality(EvalIds), passed |-> Cardinality(R)]
        BY <1>3 DEF BatchInv, BatchShape, EvalInv, AnswersFinal, EvalPlace, Answered
    <2> HIDE DEF a
    <2>2. /\ Len(a) \in Nat /\ DOMAIN a = 1..Len(a)
          /\ \A k \in 1..Len(a) : a[k].id \in EvalIds /\ a[k].passed = row[a[k].id].right /\ a[k].state = row[a[k].id].state
        <3>1. \A k \in 1..Len(a) : a[k] \in AnswerRecords
            BY <2>1
        <3> QED BY <2>1, <3>1 DEF TrueAnswers, AnswerRecord, AnswerRecords
    <2>3. f \in Bijection(1..Len(a), EvalIds)
        BY <2>1, <2>2 DEF Bijection, Injection, Surjection, ApartAnswers, AnsweredIn, IsInjective
    <2>4. IsFiniteSet(1..Len(a)) /\ Cardinality(1..Len(a)) = Len(a)
        <3> DEFINE n == Len(a)
        <3>1. 1 \in Int /\ n \in Int /\ n \in Nat
            BY <2>2
        <3> HIDE DEF n
        <3>2. IsFiniteSet(1..n) /\ Cardinality(1..n) = IF 1 > n THEN 0 ELSE n - 1 + 1
            BY <3>1, FS_Interval
        <3>3. IsFiniteSet(1..n) /\ Cardinality(1..n) = n
            BY <3>1, <3>2
        <3> QED BY <3>3 DEF n
    <2>5. Len(a) = Cardinality(EvalIds)
        <3>1. ExistsBijection(1..Len(a), EvalIds)
            BY <2>3 DEF ExistsBijection
        <3>2. Cardinality(EvalIds) = Cardinality(1..Len(a))
            BY <2>4, <3>1, FS_Bijection
        <3> QED BY <2>4, <3>2
    <2>6. g \in Bijection(P, R)
        <3>1. g \in [P -> R]
            BY <2>2
        <3>2. \A r \in R : \E k \in P : a[k].id = r
            BY <2>1, <2>2 DEF AnsweredIn
        <3> QED BY <2>1, <2>2, <3>1, <3>2 DEF Bijection, Injection, Surjection, ApartAnswers, IsInjective
    <2>7. Passed(a) = Cardinality(R)
        <3>1. Passed(a) = Cardinality(P)
            BY <2>2 DEF Passed
        <3>2. IsFiniteSet(P)
            BY <2>4, FS_Subset
        <3> HIDE DEF P, R, g
        <3>3. ExistsBijection(P, R)
            BY <2>6 DEF ExistsBijection
        <3> QED BY <3>1, <3>2, <3>3, FS_Bijection
    <2>8. evals.grade = [total |-> Len(a), passed |-> Passed(a)]
        BY <2>1, <2>5, <2>7
    <2>9. \A k \in DOMAIN a : a[k] = AnswerRecord(a[k].id) /\ a[k].state \in EndStates
        BY <2>1, <2>2 DEF TrueAnswers
    <2> HIDE DEF f, P, R, g
    <2> QED BY <2>1, <2>5, <2>8, <2>9 DEF AnsweredOnce, AnsweredIn, a
<1> QED BY <1>1, <1>2, <1>3 DEF AnsweredOnce

-----------------------------------------------------------------------------
(* The CPU service.                                                         *)
CallSteps == {"new", "submit", "wait", "sweep", "uncount", "returned", "settled"}
CallRecords == [step : CallSteps, at : Nat, late : BOOLEAN]
ItemPlaces == {"none", "queued", "cancelled", "waiting", "acquired", "running", "released", "done"}
CountRecords == [pending : Nat, active : Nat, completed : Nat, failed : Nat]
CpuShape ==
    /\ asked \in CpuMixes
    /\ call \in [CpuCallers -> CallRecords]
    /\ item \in [Slots -> ItemPlaces]
    /\ told \in [Slots -> {"none", "ok", "failed"}]
    /\ cpuRow \in [Slots -> {"none", "ok", "failed", "timeout", "refused"}]
    /\ claim \in [Slots -> {"claimed", "completed", "failed"}]
    /\ poolQueue \in Seq(Slots)
    /\ counted \in CountRecords

(* How far a call has come with its items. *)
CallPlace(c) ==
    /\ call[c].step = "new" => \A i \in 1..asked[c].items : item[<<c, i>>] = "none"
    /\ call[c].step = "submit" => /\ call[c].at \in 1..asked[c].items
                                  /\ \A i \in call[c].at..asked[c].items : item[<<c, i>>] = "none"
    /\ call[c].step \in {"sweep", "uncount"} => \A i \in 1..asked[c].items : i < call[c].at => cpuRow[<<c, i>>] # "none"
    /\ call[c].step = "uncount" => call[c].at \in 1..asked[c].items /\ cpuRow[<<c, call[c].at>>] # "none"
    /\ call[c].step = "sweep" => call[c].at >= 1
    /\ call[c].step \in {"sweep", "uncount"} => call[c].late
    /\ call[c].step \in {"returned", "settled"} => \A i \in 1..asked[c].items : cpuRow[<<c, i>>] # "none"
    /\ call[c].step = "settled" => \A i \in 1..asked[c].items : claim[<<c, i>>] # "claimed"

(* What is told of an item is what became of it. *)
ItemTrue(s) ==
    /\ told[s] # "none" <=> item[s] \in {"released", "done"}
    /\ cpuRow[s] \in {"ok", "failed"} => item[s] = "done" /\ cpuRow[s] = told[s]
    /\ cpuRow[s] = "timeout" => call[s[1]].late
    /\ item[s] = "cancelled" => cpuRow[s] = "timeout"
    /\ claim[s] = "completed" => item[s] = "done" /\ told[s] = "ok"

(* The counters, of the tables they count.                                  *)
ItemsAt(it, places) == {s \in Slots : it[s] \in places}
PendingAt(it) == Cardinality(ItemsAt(it, {"queued", "waiting", "acquired"}))
ActiveAt(it) == Cardinality(ItemsAt(it, {"running", "released"}))
DoneAt(it) == Cardinality(ItemsAt(it, {"done"}))
FailedAt(it, tl) == Cardinality({s \in ItemsAt(it, {"done"}) : tl[s] = "failed"})
CalledOff(cl) == Cardinality({c \in CpuCallers : cl[c].step = "uncount"})
LeftOf(of, cl, c) == IF cl[c].step = "submit" THEN of[c].items - cl[c].at + 1 ELSE 0
LeftToSubmit(of, cl) == SumOver([c \in CpuCallers |-> LeftOf(of, cl, c)], CpuCallers)
CountsOf(of, cl, it, tl) ==
    [pending |-> PendingAt(it) + CalledOff(cl) + LeftToSubmit(of, cl), active |-> ActiveAt(it),
     completed |-> DoneAt(it), failed |-> FailedAt(it, tl)]
CpuInv ==
    /\ CpuShape
    /\ \A c \in CpuCallers : CallPlace(c)
    /\ \A s \in Slots : ItemTrue(s)
    /\ counted = CountsOf(asked, call, item, told)

LEMMA SlotsOfCall ==
    ASSUME NEW of \in CpuMixes, NEW c \in CpuCallers
    PROVE  /\ of[c].items \in Nat \ {0} /\ of[c].items <= MaxItems /\ MaxItems \in Nat
           /\ \A i \in 1..of[c].items : <<c, i>> \in Slots
<1> DEFINE S == {mix[x].items : mix \in CpuMixes, x \in CpuCallers}
<1>1. \A mix \in CpuMixes, x \in CpuCallers : mix[x].items \in Nat \ {0}
    BY CpuAssumption
<1>2. S \in SUBSET Nat /\ IsFiniteSet(S) /\ of[c].items \in S
    BY <1>1, CpuAssumption
<1>3. MaxItems = Max(S)
    BY DEF MaxItems
<1> HIDE DEF S
<1>4. \E m \in S : \A k \in S : m >= k
    BY <1>2, FiniteMax
<1>5. Max(S) \in S /\ \A k \in S : Max(S) >= k
    BY <1>4 DEF Max
<1>6. of[c].items \in Nat \ {0} /\ of[c].items <= MaxItems /\ MaxItems \in Nat
    <2> DEFINE n == of[c].items
               m == MaxItems
    <2>1. m >= n /\ m \in Nat /\ n \in Nat \ {0}
        BY <1>1, <1>2, <1>3, <1>5
    <2> HIDE DEF n, m
    <2>2. n <= m
        BY <2>1
    <2> QED BY <2>1, <2>2 DEF n, m
<1>7. \A i \in 1..of[c].items : i \in 1..MaxItems
    <2> DEFINE n == of[c].items
               m == MaxItems
    <2> HIDE DEF n, m
    <2>1. \A i \in 1..n : i \in 1..m
        BY <1>6 DEF n, m
    <2> QED BY <2>1 DEF n, m
<1> QED BY <1>6, <1>7 DEF Slots

LEMMA SlotsFinite == ASSUME NEW of \in CpuMixes PROVE IsFiniteSet(Slots)
<1>1. CASE CpuCallers = {}
    <2>1. Slots = {}
        BY <1>1 DEF Slots
    <2> QED BY <2>1, FS_EmptySet
<1>2. CASE CpuCallers # {}
    <2>1. MaxItems \in Nat
        BY <1>2, SlotsOfCall
    <2>2. IsFiniteSet(1..MaxItems)
        <3> DEFINE m == MaxItems
        <3>1. 1 \in Int /\ m \in Int
            BY <2>1
        <3> HIDE DEF m
        <3> QED BY <3>1, FS_Interval DEF m
    <2> DEFINE T == 1..MaxItems
    <2>3. IsFiniteSet(CpuCallers) /\ IsFiniteSet(T) /\ Slots = CpuCallers \X T
        BY <2>2, CpuAssumption DEF Slots
    <2> HIDE DEF T
    <2>4. IsFiniteSet(CpuCallers \X T)
        BY <2>3, FS_Product
    <2> QED BY <2>3, <2>4
<1> QED BY <1>1, <1>2

Unit(x, places) == IF x \in places THEN 1 ELSE 0
FailedUnit(place, reply) == IF place = "done" /\ reply = "failed" THEN 1 ELSE 0

(* One member more or less. *)
LEMMA OneMoved ==
    ASSUME NEW S, IsFiniteSet(S), NEW s, NEW A \in SUBSET S, NEW B \in SUBSET S, A \ {s} = B \ {s}
    PROVE  /\ Cardinality(A) \in Nat /\ Cardinality(B) \in Nat
           /\ Cardinality(B) = Cardinality(A) + Unit(s, B) - Unit(s, A)
<1>1. IsFiniteSet(A) /\ IsFiniteSet(B)
    BY FS_Subset
<1>2. Cardinality(A) \in Nat /\ Cardinality(B) \in Nat
    BY <1>1, FS_CardinalityType
<1>3. Cardinality(A \ {s}) = Cardinality(A) - Unit(s, A)
    <2>1. Cardinality(A \ {s}) = IF s \in A THEN Cardinality(A) - 1 ELSE Cardinality(A)
        BY <1>1, FS_RemoveElement
    <2> QED BY <1>2, <2>1 DEF Unit
<1>4. Cardinality(B \ {s}) = Cardinality(B) - Unit(s, B)
    <2>1. Cardinality(B \ {s}) = IF s \in B THEN Cardinality(B) - 1 ELSE Cardinality(B)
        BY <1>1, FS_RemoveElement
    <2> QED BY <1>2, <2>1 DEF Unit
<1> DEFINE a == Cardinality(A)
           b == Cardinality(B)
           ua == Unit(s, A)
           ub == Unit(s, B)
<1>5. a - ua = b - ub
    BY <1>3, <1>4
<1>6. a \in Nat /\ b \in Nat /\ ua \in Int /\ ub \in Int
    BY <1>2 DEF Unit
<1>7. b = a + ub - ua
    <2> HIDE DEF a, b, ua, ub
    <2> QED BY <1>5, <1>6
<1> QED BY <1>2, <1>7

LEMMA ItemMoved ==
    ASSUME NEW of \in CpuMixes, NEW it \in [Slots -> ItemPlaces], NEW jt \in [Slots -> ItemPlaces], NEW s \in Slots,
           \A x \in Slots \ {s} : jt[x] = it[x]
    PROVE  /\ PendingAt(it) \in Nat /\ ActiveAt(it) \in Nat /\ DoneAt(it) \in Nat
           /\ PendingAt(jt) = PendingAt(it) + Unit(jt[s], {"queued", "waiting", "acquired"})
                                            - Unit(it[s], {"queued", "waiting", "acquired"})
           /\ ActiveAt(jt) = ActiveAt(it) + Unit(jt[s], {"running", "released"}) - Unit(it[s], {"running", "released"})
           /\ DoneAt(jt) = DoneAt(it) + Unit(jt[s], {"done"}) - Unit(it[s], {"done"})
<1>1. ASSUME NEW P
      PROVE  /\ Cardinality(ItemsAt(it, P)) \in Nat
             /\ Cardinality(ItemsAt(jt, P)) = Cardinality(ItemsAt(it, P)) + Unit(jt[s], P) - Unit(it[s], P)
    <2> DEFINE A == ItemsAt(it, P)
               B == ItemsAt(jt, P)
    <2>1. A \in SUBSET Slots /\ B \in SUBSET Slots /\ A \ {s} = B \ {s} /\ (s \in A <=> it[s] \in P) /\ (s \in B <=> jt[s] \in P)
        BY DEF ItemsAt
    <2>2. Unit(s, A) = Unit(it[s], P) /\ Unit(s, B) = Unit(jt[s], P)
        BY <2>1 DEF Unit
    <2>3. IsFiniteSet(Slots)
        BY SlotsFinite
    <2> HIDE DEF A, B
    <2>4. Cardinality(A) \in Nat /\ Cardinality(B) = Cardinality(A) + Unit(s, B) - Unit(s, A)
        BY <2>1, <2>3, OneMoved
    <2> QED BY <2>2, <2>4 DEF A, B
<1> QED BY <1>1 DEF PendingAt, ActiveAt, DoneAt

LEMMA FailedMoved ==
    ASSUME NEW of \in CpuMixes, NEW it \in [Slots -> ItemPlaces], NEW jt \in [Slots -> ItemPlaces], NEW s \in Slots,
           NEW tl, NEW ul, \A x \in Slots \ {s} : jt[x] = it[x] /\ ul[x] = tl[x]
    PROVE  /\ FailedAt(it, tl) \in Nat
           /\ FailedAt(jt, ul) = FailedAt(it, tl) + FailedUnit(jt[s], ul[s]) - FailedUnit(it[s], tl[s])
<1> DEFINE A == {x \in ItemsAt(it, {"done"}) : tl[x] = "failed"}
           B == {x \in ItemsAt(jt, {"done"}) : ul[x] = "failed"}
<1>1. /\ A \in SUBSET Slots /\ B \in SUBSET Slots /\ A \ {s} = B \ {s}
      /\ s \in A <=> it[s] = "done" /\ tl[s] = "failed"
      /\ s \in B <=> jt[s] = "done" /\ ul[s] = "failed"
    BY DEF ItemsAt
<1>2. Unit(s, A) = FailedUnit(it[s], tl[s]) /\ Unit(s, B) = FailedUnit(jt[s], ul[s])
    BY <1>1 DEF Unit, FailedUnit
<1>3. IsFiniteSet(Slots)
    BY SlotsFinite
<1>4. FailedAt(it, tl) = Cardinality(A) /\ FailedAt(jt, ul) = Cardinality(B)
    BY DEF FailedAt
<1>5. A \in SUBSET Slots /\ B \in SUBSET Slots /\ A \ {s} = B \ {s}
    BY <1>1
<1> HIDE DEF A, B
<1>6. Cardinality(A) \in Nat /\ Cardinality(B) = Cardinality(A) + Unit(s, B) - Unit(s, A)
    BY <1>3, <1>5, OneMoved
<1> QED BY <1>2, <1>4, <1>6

(* A call goes on: what is left to submit, and what is called off.          *)
LeftKnown(of, cl) == \A c \in CpuCallers : cl[c].step = "submit" => cl[c].at \in 1..of[c].items

LEMMA LeftType ==
    ASSUME NEW of \in CpuMixes, NEW cl, LeftKnown(of, cl)
    PROVE  /\ LeftToSubmit(of, cl) \in Nat
           /\ \A c \in CpuCallers : LeftOf(of, cl, c) \in Nat
<1>1. ASSUME NEW c \in CpuCallers PROVE LeftOf(of, cl, c) \in Nat
    <2>1. of[c].items \in Nat
        BY SlotsOfCall
    <2>2. CASE cl[c].step = "submit"
        <3>1. cl[c].at \in 1..of[c].items
            BY <2>2 DEF LeftKnown
        <3> DEFINE n == of[c].items
                   k == cl[c].at
        <3> HIDE DEF n, k
        <3>2. n - k + 1 \in Nat
            BY <2>1, <3>1 DEF n, k
        <3> QED BY <2>2, <3>2 DEF LeftOf, n, k
    <2>3. CASE cl[c].step # "submit"
        BY <2>3 DEF LeftOf
    <2> QED BY <2>2, <2>3
<1>2. LeftToSubmit(of, cl) \in Nat
    <2> DEFINE f == [c \in CpuCallers |-> LeftOf(of, cl, c)]
    <2>1. IsFiniteSet(CpuCallers) /\ \A c \in CpuCallers : f[c] \in Nat
        BY <1>1, CpuAssumption
    <2> HIDE DEF f
    <2>2. SumOver(f, CpuCallers) \in Nat
        BY <2>1, SumOverType
    <2> QED BY <2>2 DEF LeftToSubmit, f
<1> QED BY <1>1, <1>2

LEMMA CallMoved ==
    ASSUME NEW of \in CpuMixes, NEW cl, NEW dl, NEW c \in CpuCallers,
           LeftKnown(of, cl), LeftKnown(of, dl), \A x \in CpuCallers \ {c} : dl[x] = cl[x]
    PROVE  /\ CalledOff(cl) \in Nat /\ LeftToSubmit(of, cl) \in Nat /\ LeftOf(of, cl, c) \in Nat /\ LeftOf(of, dl, c) \in Nat
           /\ CalledOff(dl) = CalledOff(cl) + Unit(dl[c].step, {"uncount"}) - Unit(cl[c].step, {"uncount"})
           /\ LeftToSubmit(of, dl) = LeftToSubmit(of, cl) + LeftOf(of, dl, c) - LeftOf(of, cl, c)
<1>1. /\ CalledOff(cl) \in Nat
      /\ CalledOff(dl) = CalledOff(cl) + Unit(dl[c].step, {"uncount"}) - Unit(cl[c].step, {"uncount"})
    <2> DEFINE A == {x \in CpuCallers : cl[x].step = "uncount"}
               B == {x \in CpuCallers : dl[x].step = "uncount"}
    <2>1. /\ A \in SUBSET CpuCallers /\ B \in SUBSET CpuCallers /\ A \ {c} = B \ {c}
          /\ (c \in A <=> cl[c].step = "uncount") /\ (c \in B <=> dl[c].step = "uncount")
        OBVIOUS
    <2>2. Unit(c, A) = Unit(cl[c].step, {"uncount"}) /\ Unit(c, B) = Unit(dl[c].step, {"uncount"})
        BY <2>1 DEF Unit
    <2>3. CalledOff(cl) = Cardinality(A) /\ CalledOff(dl) = Cardinality(B)
        BY DEF CalledOff
    <2>4. A \in SUBSET CpuCallers /\ B \in SUBSET CpuCallers /\ A \ {c} = B \ {c} /\ IsFiniteSet(CpuCallers)
        BY <2>1, CpuAssumption
    <2> HIDE DEF A, B
    <2>5. Cardinality(A) \in Nat /\ Cardinality(B) = Cardinality(A) + Unit(c, B) - Unit(c, A)
        BY <2>4, OneMoved
    <2> QED BY <2>2, <2>3, <2>5
<1>2. LeftToSubmit(of, dl) = LeftToSubmit(of, cl) + LeftOf(of, dl, c) - LeftOf(of, cl, c)
    <2> DEFINE f == [x \in CpuCallers |-> LeftOf(of, cl, x)]
               g == [x \in CpuCallers |-> LeftOf(of, dl, x)]
               R == CpuCallers \ {c}
    <2>1. /\ IsFiniteSet(CpuCallers) /\ \A x \in CpuCallers : f[x] \in Nat /\ g[x] \in Nat
          /\ \A x \in R : f[x] = g[x]
          /\ f[c] = LeftOf(of, cl, c) /\ g[c] = LeftOf(of, dl, c)
        BY CpuAssumption, LeftType DEF LeftOf
    <2>2. LeftToSubmit(of, cl) = SumOver(f, CpuCallers) /\ LeftToSubmit(of, dl) = SumOver(g, CpuCallers)
        BY DEF LeftToSubmit
    <2> HIDE DEF f, g
    <2>3. SumOver(f, CpuCallers) = f[c] + SumOver(f, R) /\ SumOver(g, CpuCallers) = g[c] + SumOver(g, R)
        BY <2>1, SumOverAdd
    <2>4. SumOver(f, R) = SumOver(g, R) /\ SumOver(f, R) \in Nat
        <3>1. IsFiniteSet(R) /\ \A x \in R : f[x] \in Nat /\ g[x] \in Nat
            BY <2>1, FS_Subset
        <3> HIDE DEF R
        <3>2. SumOver(f, R) \in Nat /\ SumOver(g, R) \in Nat
            BY <3>1, SumOverType
        <3>3. R \in SUBSET R /\ \A x \in R : f[x] <= g[x] /\ g[x] <= f[x]
            BY <2>1, <3>1
        <3>4. SumOver(f, R) <= SumOver(g, R)
            BY <3>1, <3>3, SumOverMonotone
        <3>5. SumOver(g, R) <= SumOver(f, R)
            BY <3>1, <3>3, SumOverMonotone
        <3> QED BY <3>2, <3>4, <3>5
    <2> DEFINE r == SumOver(f, R)
               fc == f[c]
               gc == g[c]
    <2>5. r \in Nat /\ fc \in Nat /\ gc \in Nat
        BY <2>1, <2>4
    <2>6. LeftToSubmit(of, cl) = fc + r /\ LeftToSubmit(of, dl) = gc + r
        BY <2>2, <2>3, <2>4
    <2>7. fc = LeftOf(of, cl, c) /\ gc = LeftOf(of, dl, c)
        BY <2>1
    <2> HIDE DEF r, fc, gc
    <2>8. gc + r = (fc + r) + gc - fc
        BY <2>5
    <2> QED BY <2>6, <2>7, <2>8
<1> QED BY <1>1, <1>2, LeftType

LEMMA NothingToSum ==
    ASSUME NEW S, IsFiniteSet(S), NEW f, \A x \in S : f[x] = 0
    PROVE  SumOver(f, S) = 0
<1> DEFINE T == {U \in SUBSET S : SumOver(f, U) = 0}
<1>1. ASSUME NEW U \in SUBSET S, \A V \in SUBSET U : V # U => V \in T
      PROVE  U \in T
    <2>1. CASE U = {}
        BY <2>1, SumOverEmpty
    <2>2. CASE U # {}
        <3>1. PICK x \in U : x \in S
            BY <2>2
        <3>2. IsFiniteSet(U) /\ \A y \in U : f[y] \in Nat
            BY FS_Subset
        <3>3. SumOver(f, U) = f[x] + SumOver(f, U \ {x})
            BY <3>2, SumOverAdd
        <3>4. SumOver(f, U \ {x}) = 0 /\ f[x] = 0
            BY <1>1, <3>1
        <3> QED BY <3>3, <3>4
    <2> QED BY <2>1, <2>2
<1>2. SUBSET S \subseteq T
    <2>1. \A U \in SUBSET S : (\A V \in SUBSET U : V # U => V \in T) => U \in T
        BY <1>1
    <2> HIDE DEF T
    <2> QED BY <2>1, SubsetInduction
<1> QED BY <1>2

LEMMA CpuStartInv == ASSUME CpuInit PROVE CpuInv
<1>1. PICK mix \in CpuMixes : CpuStart(mix)
    BY DEF CpuInit
<1>2. /\ asked \in CpuMixes
      /\ call = [c \in CpuCallers |-> [step |-> "new", at |-> 0, late |-> FALSE]]
      /\ item = [s \in Slots |-> "none"] /\ told = [s \in Slots |-> "none"]
      /\ cpuRow = [s \in Slots |-> "none"] /\ claim = [s \in Slots |-> "claimed"]
      /\ poolQueue = <<>>
      /\ counted = [pending |-> 0, active |-> 0, completed |-> 0, failed |-> 0]
    BY <1>1 DEF CpuStart
<1>3. CpuShape
    BY <1>2 DEF CpuShape, CallRecords, CallSteps, ItemPlaces, CountRecords
<1>4. ASSUME NEW c \in CpuCallers PROVE CallPlace(c)
    BY <1>2, SlotsOfCall DEF CallPlace
<1>5. \A s \in Slots : ItemTrue(s)
    BY <1>2 DEF ItemTrue
<1>6. counted = CountsOf(asked, call, item, told)
    <2>1. Cardinality({}) = 0
        BY FS_EmptySet
    <2>2. PendingAt(item) = 0 /\ ActiveAt(item) = 0 /\ DoneAt(item) = 0 /\ FailedAt(item, told) = 0
        <3>1. \A P : "none" \notin P => ItemsAt(item, P) = {}
            BY <1>2 DEF ItemsAt
        <3>2. /\ ItemsAt(item, {"queued", "waiting", "acquired"}) = {} /\ ItemsAt(item, {"running", "released"}) = {}
              /\ ItemsAt(item, {"done"}) = {}
            BY <3>1
        <3>3. {s \in ItemsAt(item, {"done"}) : told[s] = "failed"} = {}
            BY <3>2
        <3> QED BY <2>1, <3>2, <3>3 DEF PendingAt, ActiveAt, DoneAt, FailedAt
    <2>3. CalledOff(call) = 0
        <3>1. {c \in CpuCallers : call[c].step = "uncount"} = {}
            BY <1>2
        <3> QED BY <2>1, <3>1 DEF CalledOff
    <2>4. LeftToSubmit(asked, call) = 0
        <3> DEFINE f == [c \in CpuCallers |-> LeftOf(asked, call, c)]
        <3>1. IsFiniteSet(CpuCallers) /\ \A c \in CpuCallers : f[c] = 0
            BY <1>2, CpuAssumption DEF LeftOf
        <3> HIDE DEF f
        <3>2. SumOver(f, CpuCallers) = 0
            BY <3>1, NothingToSum
        <3> QED BY <3>2 DEF LeftToSubmit, f
    <2> QED BY <1>2, <2>2, <2>3, <2>4 DEF CountsOf
<1> QED BY <1>3, <1>4, <1>5, <1>6 DEF CpuInv

LEMMA CallGoesTo ==
    ASSUME CpuShape, NEW c \in CpuCallers, NEW step \in CallSteps, NEW at \in Nat, CallGoes(c, step, at)
    PROVE  /\ call' \in [CpuCallers -> CallRecords]
           /\ call'[c] = [step |-> step, at |-> at, late |-> call[c].late]
           /\ \A x \in CpuCallers \ {c} : call'[x] = call[x]
           /\ \A x \in CpuCallers : call[x].late => call'[x].late
<1>1. call \in [CpuCallers -> CallRecords] /\ call[c] \in CallRecords
    BY DEF CpuShape
<1>2. call' = [call EXCEPT ![c].step = step, ![c].at = at]
    BY DEF CallGoes
<1>3. call'[c] = [step |-> step, at |-> at, late |-> call[c].late]
    BY <1>1, <1>2 DEF CallRecords
<1>4. call'[c] \in CallRecords
    BY <1>1, <1>3 DEF CallRecords
<1> QED BY <1>1, <1>2, <1>3, <1>4

LEMMA PlaceStays ==
    ASSUME NEW x \in CpuCallers, CallPlace(x), call'[x] = call[x], asked' = asked,
           \A i \in 1..asked[x].items :
              /\ item[<<x, i>>] = "none" => item'[<<x, i>>] = "none"
              /\ cpuRow[<<x, i>>] # "none" => cpuRow'[<<x, i>>] # "none"
              /\ claim[<<x, i>>] # "claimed" => claim'[<<x, i>>] # "claimed"
    PROVE  CallPlace(x)'
<1>1. asked[x].items \in Nat \/ asked[x].items \notin Nat
    OBVIOUS
<1>2. /\ call[x].step = "new" => \A i \in 1..asked[x].items : item'[<<x, i>>] = "none"
      /\ call[x].step \in {"sweep", "uncount"} => \A i \in 1..asked[x].items : i < call[x].at => cpuRow'[<<x, i>>] # "none"
      /\ call[x].step \in {"returned", "settled"} => \A i \in 1..asked[x].items : cpuRow'[<<x, i>>] # "none"
      /\ call[x].step = "settled" => \A i \in 1..asked[x].items : claim'[<<x, i>>] # "claimed"
    BY DEF CallPlace
<1>3. call[x].step = "submit" => call[x].at \in 1..asked[x].items
    BY DEF CallPlace
<1>4. call[x].step = "submit" => \A i \in call[x].at..asked[x].items : i \in 1..asked[x].items /\ item[<<x, i>>] = "none"
    BY DEF CallPlace
<1>5. call[x].step = "submit" => \A i \in call[x].at..asked[x].items : item'[<<x, i>>] = "none"
    BY <1>4
<1>6. call[x].step = "uncount" => call[x].at \in 1..asked[x].items /\ cpuRow'[<<x, call[x].at>>] # "none"
    BY DEF CallPlace
<1>7. /\ call[x].step = "sweep" => call[x].at >= 1
      /\ call[x].step \in {"sweep", "uncount"} => call[x].late
    BY DEF CallPlace
<1> QED BY <1>2, <1>3, <1>5, <1>6, <1>7 DEF CallPlace

LEMMA ItemStays ==
    ASSUME NEW s \in Slots, ItemTrue(s), item'[s] = item[s], told'[s] = told[s], cpuRow'[s] = cpuRow[s], claim'[s] = claim[s],
           \A x \in CpuCallers : call[x].late => call'[x].late
    PROVE  ItemTrue(s)'
<1>1. s[1] \in CpuCallers
    BY DEF Slots
<1> QED BY <1>1 DEF ItemTrue

LEMMA CpuKnown ==
    ASSUME CpuInv
    PROVE  /\ CpuShape /\ LeftKnown(asked, call) /\ counted \in CountRecords
           /\ counted.pending = PendingAt(item) + CalledOff(call) + LeftToSubmit(asked, call)
           /\ counted.active = ActiveAt(item) /\ counted.completed = DoneAt(item) /\ counted.failed = FailedAt(item, told)
<1>1. CpuShape /\ counted \in CountRecords /\ LeftKnown(asked, call)
    BY DEF CpuInv, CpuShape, CallPlace, LeftKnown
<1>2. counted = CountsOf(asked, call, item, told)
    BY DEF CpuInv
<1> QED BY <1>1, <1>2 DEF CountsOf

(* A call that neither submits nor calls off leaves the counts. *)
LEMMA CountsStay ==
    ASSUME CpuInv, NEW c \in CpuCallers, \A x \in CpuCallers \ {c} : call'[x] = call[x],
           call[c].step \notin {"submit", "uncount"}, call'[c].step \notin {"submit", "uncount"},
           UNCHANGED <<asked, item, told, counted>>
    PROVE  (counted = CountsOf(asked, call, item, told))'
<1>1. /\ asked \in CpuMixes /\ LeftKnown(asked, call) /\ LeftKnown(asked, call')
    BY CpuKnown DEF CpuShape, LeftKnown
<1>2. /\ CalledOff(call) \in Nat /\ LeftToSubmit(asked, call) \in Nat
      /\ CalledOff(call') = CalledOff(call) + Unit(call'[c].step, {"uncount"}) - Unit(call[c].step, {"uncount"})
      /\ LeftToSubmit(asked, call') = LeftToSubmit(asked, call) + LeftOf(asked, call', c) - LeftOf(asked, call, c)
    BY <1>1, CallMoved
<1>3. /\ Unit(call'[c].step, {"uncount"}) = 0 /\ Unit(call[c].step, {"uncount"}) = 0
      /\ LeftOf(asked, call', c) = 0 /\ LeftOf(asked, call, c) = 0
    BY DEF Unit, LeftOf
<1>4. CalledOff(call') = CalledOff(call) /\ LeftToSubmit(asked, call') = LeftToSubmit(asked, call)
    BY <1>2, <1>3
<1>5. counted = CountsOf(asked, call', item, told)
    BY <1>4 DEF CpuInv, CountsOf
<1> QED BY <1>5

LEMMA CpuRefuseStep == ASSUME CpuInv, NEW c \in CpuCallers, CpuRefuse(c) PROVE CpuInv'
<1>1. /\ CpuShape /\ call[c].step = "new" /\ CallGoes(c, "returned", 0)
      /\ cpuRow' = [s \in Slots |-> IF s \in ItemsOf(c) THEN "refused" ELSE cpuRow[s]]
      /\ UNCHANGED <<asked, item, told, claim, poolQueue, counted>>
    BY DEF CpuInv, CpuRefuse, CallAt
<1>2. /\ call' \in [CpuCallers -> CallRecords] /\ call'[c].step = "returned"
      /\ \A x \in CpuCallers \ {c} : call'[x] = call[x]
      /\ \A x \in CpuCallers : call[x].late => call'[x].late
    <2>1. "returned" \in CallSteps /\ 0 \in Nat
        BY DEF CallSteps
    <2>2. call'[c] = [step |-> "returned", at |-> 0, late |-> call[c].late]
        BY <1>1, <2>1, CallGoesTo
    <2>3. /\ call' \in [CpuCallers -> CallRecords]
          /\ \A x \in CpuCallers \ {c} : call'[x] = call[x]
          /\ \A x \in CpuCallers : call[x].late => call'[x].late
        BY <1>1, <2>1, CallGoesTo
    <2> QED BY <2>2, <2>3
<1>3. \A i \in 1..asked[c].items : <<c, i>> \in Slots
    BY <1>1, SlotsOfCall DEF CpuShape
<1>4. \A x \in CpuCallers \ {c} : \A i \in 1..asked[x].items : <<x, i>> \in Slots
    BY <1>1, SlotsOfCall DEF CpuShape
<1>5. CpuShape'
    BY <1>1, <1>2 DEF CpuShape
<1>6. ASSUME NEW x \in CpuCallers PROVE CallPlace(x)'
    <2>1. CASE x = c
        BY <1>1, <1>2, <1>3, <2>1 DEF CallPlace, ItemsOf
    <2>2. CASE x # c
        BY <1>1, <1>2, <1>4, <2>2, PlaceStays DEF CpuInv
    <2> QED BY <2>1, <2>2
<1>7. ASSUME NEW s \in Slots PROVE ItemTrue(s)'
    <2>1. CASE s \in ItemsOf(c)
        <3>1. item[s] = "none"
            <4>1. PICK i \in 1..asked[c].items : s = <<c, i>>
                BY <2>1 DEF ItemsOf
            <4>2. \A j \in 1..asked[c].items : item[<<c, j>>] = "none"
                BY <1>1 DEF CpuInv, CallPlace
            <4> QED BY <4>1, <4>2
        <3>2. cpuRow'[s] = "refused"
            BY <1>1, <2>1
        <3> QED BY <1>1, <3>1, <3>2 DEF CpuInv, ItemTrue
    <2>2. CASE s \notin ItemsOf(c)
        BY <1>1, <1>2, <2>2, ItemStays DEF CpuInv
    <2> QED BY <2>1, <2>2
<1>8. (counted = CountsOf(asked, call, item, told))'
    BY <1>1, <1>2, CountsStay
<1> QED BY <1>5, <1>6, <1>7, <1>8 DEF CpuInv

(* A call goes on, and nothing else. *)
LEMMA CallOnly ==
    ASSUME CpuInv, NEW c \in CpuCallers, call' \in [CpuCallers -> CallRecords],
           \A x \in CpuCallers \ {c} : call'[x] = call[x], call[c].late => call'[c].late,
           call[c].step \notin {"submit", "uncount"}, call'[c].step \in {"sweep", "returned"},
           UNCHANGED <<asked, item, told, cpuRow, claim, poolQueue, counted>>, CallPlace(c)'
    PROVE  CpuInv'
<1>1. CpuShape'
    BY DEF CpuInv, CpuShape
<1>2. ASSUME NEW x \in CpuCallers, x # c PROVE CallPlace(x)'
    BY <1>2, PlaceStays DEF CpuInv
<1>3. \A x \in CpuCallers : call[x].late => call'[x].late
    OBVIOUS
<1>4. \A s \in Slots : ItemTrue(s)'
    BY <1>3, ItemStays DEF CpuInv
<1>5. (counted = CountsOf(asked, call, item, told))'
    BY CountsStay
<1> QED BY <1>1, <1>2, <1>4, <1>5 DEF CpuInv

LEMMA CpuCollectedStep == ASSUME CpuInv, NEW c \in CpuCallers, CpuCollected(c) PROVE CpuInv'
<1>1. /\ CpuShape /\ call[c].step = "wait" /\ CallGoes(c, "returned", 0) /\ \A s \in ItemsOf(c) : cpuRow[s] # "none"
      /\ UNCHANGED <<asked, item, told, cpuRow, claim, poolQueue, counted>>
    BY DEF CpuInv, CpuCollected, CallAt
<1>2. /\ call' \in [CpuCallers -> CallRecords] /\ call'[c].step = "returned"
      /\ \A x \in CpuCallers \ {c} : call'[x] = call[x]
      /\ call[c].late => call'[c].late
    <2>1. "returned" \in CallSteps /\ 0 \in Nat
        BY DEF CallSteps
    <2>2. call'[c] = [step |-> "returned", at |-> 0, late |-> call[c].late]
        BY <1>1, <2>1, CallGoesTo
    <2>3. /\ call' \in [CpuCallers -> CallRecords]
          /\ \A x \in CpuCallers \ {c} : call'[x] = call[x]
          /\ \A x \in CpuCallers : call[x].late => call'[x].late
        BY <1>1, <2>1, CallGoesTo
    <2> QED BY <2>2, <2>3
<1>3. CallPlace(c)'
    BY <1>1, <1>2 DEF CallPlace, ItemsOf
<1> QED BY <1>1, <1>2, <1>3, CallOnly

LEMMA CpuSweptStep == ASSUME CpuInv, NEW c \in CpuCallers, CpuSwept(c) PROVE CpuInv'
<1>1. /\ CpuShape /\ call[c].step = "sweep" /\ CallGoes(c, "returned", 0) /\ call[c].at > asked[c].items
      /\ UNCHANGED <<asked, item, told, cpuRow, claim, poolQueue, counted>>
    BY DEF CpuInv, CpuSwept, CallAt
<1>2. /\ call' \in [CpuCallers -> CallRecords] /\ call'[c].step = "returned"
      /\ \A x \in CpuCallers \ {c} : call'[x] = call[x]
      /\ call[c].late => call'[c].late
    <2>1. "returned" \in CallSteps /\ 0 \in Nat
        BY DEF CallSteps
    <2>2. call'[c] = [step |-> "returned", at |-> 0, late |-> call[c].late]
        BY <1>1, <2>1, CallGoesTo
    <2>3. /\ call' \in [CpuCallers -> CallRecords]
          /\ \A x \in CpuCallers \ {c} : call'[x] = call[x]
          /\ \A x \in CpuCallers : call[x].late => call'[x].late
        BY <1>1, <2>1, CallGoesTo
    <2> QED BY <2>2, <2>3
<1>3. CallPlace(c)'
    <2>1. asked[c].items \in Nat /\ call[c].at \in Nat
        BY <1>1, SlotsOfCall DEF CpuShape, CallRecords
    <2>2. \A i \in 1..asked[c].items : i < call[c].at => cpuRow[<<c, i>>] # "none"
        BY <1>1 DEF CpuInv, CallPlace
    <2>3. \A i \in 1..asked[c].items : i < call[c].at
        BY <1>1, <2>1
    <2> QED BY <1>1, <1>2, <2>2, <2>3 DEF CallPlace
<1> QED BY <1>1, <1>2, <1>3, CallOnly

LEMMA CpuTimeoutStep == ASSUME CpuInv, NEW c \in CpuCallers, CpuTimeout(c) PROVE CpuInv'
<1>1. /\ CpuShape /\ call[c].step = "wait"
      /\ call' = [call EXCEPT ![c] = [step |-> "sweep", at |-> 1, late |-> TRUE]]
      /\ UNCHANGED <<asked, item, told, cpuRow, claim, poolQueue, counted>>
    BY DEF CpuInv, CpuTimeout, CallAt
<1>2. call' \in [CpuCallers -> CallRecords] /\ call'[c] = [step |-> "sweep", at |-> 1, late |-> TRUE]
    BY <1>1 DEF CpuShape, CallRecords, CallSteps
<1>3. CallPlace(c)'
    BY <1>1, <1>2 DEF CallPlace
<1> QED BY <1>1, <1>2, <1>3, CallOnly

LEMMA ThreeMoves ==
    ASSUME NEW a \in Int, NEW b \in Int, NEW c \in Int, NEW u \in Int, NEW v \in Int, NEW w \in Int,
           NEW x \in Int, NEW y \in Int, NEW z \in Int
    PROVE  a + b + c + (u - v + w - x + y - z) = (a + u - v) + (b + w - x) + (c + y - z)
OBVIOUS

(* The counts, when one call and one of its items move.                     *)
LEMMA CountsMove ==
    ASSUME CpuInv, NEW c \in CpuCallers, NEW s \in Slots, item' \in [Slots -> ItemPlaces], asked' = asked, LeftKnown(asked, call'),
           \A x \in CpuCallers \ {c} : call'[x] = call[x],
           \A x \in Slots \ {s} : item'[x] = item[x] /\ told'[x] = told[x]
    PROVE  CountsOf(asked, call', item', told') =
              [pending |-> counted.pending + (Unit(item'[s], {"queued", "waiting", "acquired"})
                             - Unit(item[s], {"queued", "waiting", "acquired"})
                             + Unit(call'[c].step, {"uncount"}) - Unit(call[c].step, {"uncount"})
                             + LeftOf(asked, call', c) - LeftOf(asked, call, c)),
               active |-> counted.active + (Unit(item'[s], {"running", "released"}) - Unit(item[s], {"running", "released"})),
               completed |-> counted.completed + (Unit(item'[s], {"done"}) - Unit(item[s], {"done"})),
               failed |-> counted.failed + (FailedUnit(item'[s], told'[s]) - FailedUnit(item[s], told[s]))]
<1>1. /\ asked \in CpuMixes /\ LeftKnown(asked, call) /\ item \in [Slots -> ItemPlaces] /\ item' \in [Slots -> ItemPlaces]
      /\ counted.pending = PendingAt(item) + CalledOff(call) + LeftToSubmit(asked, call)
      /\ counted.active = ActiveAt(item) /\ counted.completed = DoneAt(item) /\ counted.failed = FailedAt(item, told)
    BY CpuKnown DEF CpuShape
<1>2. /\ CalledOff(call) \in Nat /\ LeftToSubmit(asked, call) \in Nat
      /\ LeftOf(asked, call, c) \in Nat /\ LeftOf(asked, call', c) \in Nat
      /\ CalledOff(call') = CalledOff(call) + Unit(call'[c].step, {"uncount"}) - Unit(call[c].step, {"uncount"})
      /\ LeftToSubmit(asked, call') = LeftToSubmit(asked, call) + LeftOf(asked, call', c) - LeftOf(asked, call, c)
    BY <1>1, CallMoved
<1>3. /\ PendingAt(item) \in Nat /\ ActiveAt(item) \in Nat /\ DoneAt(item) \in Nat
      /\ PendingAt(item') = PendingAt(item) + Unit(item'[s], {"queued", "waiting", "acquired"})
                                            - Unit(item[s], {"queued", "waiting", "acquired"})
      /\ ActiveAt(item') = ActiveAt(item) + Unit(item'[s], {"running", "released"}) - Unit(item[s], {"running", "released"})
      /\ DoneAt(item') = DoneAt(item) + Unit(item'[s], {"done"}) - Unit(item[s], {"done"})
    BY <1>1, ItemMoved
<1>4. /\ FailedAt(item, told) \in Nat
      /\ FailedAt(item', told') = FailedAt(item, told) + FailedUnit(item'[s], told'[s])
                                                  - FailedUnit(item[s], told[s])
    <2>1. asked \in CpuMixes /\ item \in [Slots -> ItemPlaces] /\ item' \in [Slots -> ItemPlaces]
        BY <1>1
    <2>2. \A x \in Slots \ {s} : item'[x] = item[x] /\ told'[x] = told[x]
        OBVIOUS
    <2> QED BY <2>1, <2>2, FailedMoved
<1>5. counted.pending + (Unit(item'[s], {"queued", "waiting", "acquired"})
                             - Unit(item[s], {"queued", "waiting", "acquired"})
                             + Unit(call'[c].step, {"uncount"}) - Unit(call[c].step, {"uncount"})
                             + LeftOf(asked, call', c) - LeftOf(asked, call, c))
        = PendingAt(item') + CalledOff(call') + LeftToSubmit(asked, call')
    <2> DEFINE u1 == Unit(item'[s], {"queued", "waiting", "acquired"})
               u2 == Unit(item[s], {"queued", "waiting", "acquired"})
               v1 == Unit(call'[c].step, {"uncount"})
               v2 == Unit(call[c].step, {"uncount"})
               l1 == LeftOf(asked, call', c)
               l2 == LeftOf(asked, call, c)
               pa == PendingAt(item)
               co == CalledOff(call)
               ls == LeftToSubmit(asked, call)
               pb == PendingAt(item')
               cb == CalledOff(call')
               lb == LeftToSubmit(asked, call')
    <2>1. u1 \in Int /\ u2 \in Int /\ v1 \in Int /\ v2 \in Int
        BY DEF Unit
    <2>2. l1 \in Int /\ l2 \in Int /\ pa \in Int /\ co \in Int /\ ls \in Int
        BY <1>2, <1>3
    <2>4. pb = pa + u1 - u2 /\ cb = co + v1 - v2 /\ lb = ls + l1 - l2
        BY <1>2, <1>3
    <2>5. counted.pending = pa + co + ls
        BY <1>1
    <2> HIDE DEF u1, u2, v1, v2, l1, l2, pa, co, ls, pb, cb, lb
    <2>6. pa + co + ls + (u1 - u2 + v1 - v2 + l1 - l2) = (pa + u1 - u2) + (co + v1 - v2) + (ls + l1 - l2)
        BY <2>1, <2>2, ThreeMoves
    <2>7. counted.pending + (u1 - u2 + v1 - v2 + l1 - l2) = pb + cb + lb
        BY <2>4, <2>5, <2>6
    <2> QED BY <2>7 DEF u1, u2, v1, v2, l1, l2, pb, cb, lb
<1>6. counted.active + (Unit(item'[s], {"running", "released"}) - Unit(item[s], {"running", "released"})) = ActiveAt(item')
    <2> DEFINE u1 == Unit(item'[s], {"running", "released"})
               u2 == Unit(item[s], {"running", "released"})
               pa == ActiveAt(item)
               pb == ActiveAt(item')
    <2>1. u1 \in Int /\ u2 \in Int /\ pa \in Int /\ pb = pa + u1 - u2 /\ counted.active = pa
        BY <1>1, <1>3 DEF Unit
    <2> HIDE DEF u1, u2, pa, pb
    <2>2. counted.active + (u1 - u2) = pb
        BY <2>1
    <2> QED BY <2>2 DEF u1, u2, pb
<1>7. counted.completed + (Unit(item'[s], {"done"}) - Unit(item[s], {"done"})) = DoneAt(item')
    <2> DEFINE u1 == Unit(item'[s], {"done"})
               u2 == Unit(item[s], {"done"})
               pa == DoneAt(item)
               pb == DoneAt(item')
    <2>1. u1 \in Int /\ u2 \in Int /\ pa \in Int /\ pb = pa + u1 - u2 /\ counted.completed = pa
        BY <1>1, <1>3 DEF Unit
    <2> HIDE DEF u1, u2, pa, pb
    <2>2. counted.completed + (u1 - u2) = pb
        BY <2>1
    <2> QED BY <2>2 DEF u1, u2, pb
<1>8. counted.failed + (FailedUnit(item'[s], told'[s]) - FailedUnit(item[s], told[s])) = FailedAt(item', told')
    <2> DEFINE u1 == FailedUnit(item'[s], told'[s])
               u2 == FailedUnit(item[s], told[s])
               pa == FailedAt(item, told)
               pb == FailedAt(item', told')
    <2>1. u1 \in Int /\ u2 \in Int /\ pa \in Int /\ pb = pa + u1 - u2 /\ counted.failed = pa
        BY <1>1, <1>4 DEF FailedUnit
    <2> HIDE DEF u1, u2, pa, pb
    <2>2. counted.failed + (u1 - u2) = pb
        BY <2>1
    <2> QED BY <2>2 DEF u1, u2, pb
<1> QED BY <1>5, <1>6, <1>7, <1>8 DEF CountsOf

LEMMA CountsTyped ==
    ASSUME NEW of \in CpuMixes, NEW cl, LeftKnown(of, cl), NEW it \in [Slots -> ItemPlaces], NEW tl
    PROVE  CountsOf(of, cl, it, tl) \in CountRecords
<1>1. IsFiniteSet(Slots) /\ IsFiniteSet(CpuCallers)
    BY SlotsFinite, CpuAssumption
<1>2. \A A \in SUBSET Slots : Cardinality(A) \in Nat
    BY <1>1, FS_Subset, FS_CardinalityType
<1>3. \A A \in SUBSET CpuCallers : Cardinality(A) \in Nat
    BY <1>1, FS_Subset, FS_CardinalityType
<1>4. PendingAt(it) \in Nat /\ ActiveAt(it) \in Nat /\ DoneAt(it) \in Nat /\ FailedAt(it, tl) \in Nat
    BY <1>2 DEF PendingAt, ActiveAt, DoneAt, FailedAt, ItemsAt
<1>5. CalledOff(cl) \in Nat
    BY <1>3 DEF CalledOff
<1>6. LeftToSubmit(of, cl) \in Nat
    BY LeftType
<1>7. PendingAt(it) + CalledOff(cl) + LeftToSubmit(of, cl) \in Nat
    BY <1>4, <1>5, <1>6
<1> QED BY <1>4, <1>7 DEF CountsOf, CountRecords

(* An item moves, and its call does not.                                    *)
LEMMA ItemOnly ==
    ASSUME CpuInv, NEW s \in Slots, NEW p \in ItemPlaces, item' = [item EXCEPT ![s] = p], item[s] = "none" => p = "none",
           told' \in [Slots -> {"none", "ok", "failed"}], \A x \in Slots \ {s} : told'[x] = told[x],
           poolQueue' \in Seq(Slots), UNCHANGED <<asked, call, cpuRow, claim>>,
           ItemTrue(s)', (counted = CountsOf(asked, call, item, told))'
    PROVE  CpuInv'
<1>1. CpuShape'
    <2>1. asked \in CpuMixes /\ item' \in [Slots -> ItemPlaces] /\ LeftKnown(asked, call)
        BY CpuKnown DEF CpuShape
    <2>2. counted' = CountsOf(asked, call, item', told')
        OBVIOUS
    <2>3. CountsOf(asked, call, item', told') \in CountRecords
        BY <2>1, CountsTyped
    <2> QED BY <2>2, <2>3 DEF CpuInv, CpuShape
<1>2. ASSUME NEW x \in CpuCallers PROVE CallPlace(x)'
    <2>1. \A i \in 1..asked[x].items : <<x, i>> \in Slots
        BY SlotsOfCall DEF CpuInv, CpuShape
    <2>2. \A i \in 1..asked[x].items : item[<<x, i>>] = "none" => item'[<<x, i>>] = "none"
        BY <2>1 DEF CpuInv, CpuShape
    <2> QED BY <2>2, PlaceStays DEF CpuInv
<1>3. ASSUME NEW x \in Slots PROVE ItemTrue(x)'
    <2>1. CASE x = s
        BY <2>1
    <2>2. CASE x # s
        <3>1. item'[x] = item[x] /\ told'[x] = told[x]
            BY <2>2 DEF CpuInv, CpuShape
        <3> QED BY <3>1, ItemStays DEF CpuInv
    <2> QED BY <2>1, <2>2
<1> QED BY <1>1, <1>2, <1>3 DEF CpuInv

(* The counts, when an item moves and no call does.                         *)
LEMMA ItemCounts ==
    ASSUME CpuInv, NEW s \in Slots, NEW p \in ItemPlaces, item' = [item EXCEPT ![s] = p],
           \A x \in Slots \ {s} : told'[x] = told[x], UNCHANGED <<asked, call>>
    PROVE  (CountsOf(asked, call, item, told))' =
              [pending |-> counted.pending + (Unit(p, {"queued", "waiting", "acquired"})
                                              - Unit(item[s], {"queued", "waiting", "acquired"})),
               active |-> counted.active + (Unit(p, {"running", "released"}) - Unit(item[s], {"running", "released"})),
               completed |-> counted.completed + (Unit(p, {"done"}) - Unit(item[s], {"done"})),
               failed |-> counted.failed + (FailedUnit(p, told'[s]) - FailedUnit(item[s], told[s]))]
<1> DEFINE c == s[1]
<1>1. /\ c \in CpuCallers /\ item' \in [Slots -> ItemPlaces] /\ LeftKnown(asked, call')
      /\ item'[s] = p /\ \A x \in Slots \ {s} : item'[x] = item[x]
    BY CpuKnown DEF CpuInv, CpuShape, Slots, LeftKnown
<1>2. LeftOf(asked, call', c) \in Nat /\ LeftOf(asked, call, c) = LeftOf(asked, call', c) /\ asked \in CpuMixes
    BY <1>1, LeftType DEF CpuInv, CpuShape, LeftKnown
<1> HIDE DEF c
<1>3. Unit(item'[s], {"queued", "waiting", "acquired"}) - Unit(item[s], {"queued", "waiting", "acquired"})
               + Unit(call'[c].step, {"uncount"}) - Unit(call[c].step, {"uncount"})
               + LeftOf(asked, call', c) - LeftOf(asked, call, c)
         = Unit(p, {"queued", "waiting", "acquired"}) - Unit(item[s], {"queued", "waiting", "acquired"})
    <2> DEFINE u1 == Unit(item'[s], {"queued", "waiting", "acquired"})
               u2 == Unit(item[s], {"queued", "waiting", "acquired"})
               v1 == Unit(call'[c].step, {"uncount"})
               v2 == Unit(call[c].step, {"uncount"})
               l1 == LeftOf(asked, call', c)
               l2 == LeftOf(asked, call, c)
               up == Unit(p, {"queued", "waiting", "acquired"})
    <2>1. u1 \in Int /\ u2 \in Int /\ v1 \in Int /\ v2 = v1 /\ up = u1
        BY <1>1 DEF Unit
    <2>2. l1 \in Int /\ l2 = l1
        BY <1>2
    <2> HIDE DEF u1, u2, v1, v2, l1, l2, up
    <2>3. u1 - u2 + v1 - v2 + l1 - l2 = up - u2
        BY <2>1, <2>2
    <2> QED BY <2>3 DEF u1, u2, v1, v2, l1, l2, up
<1>4. \A x \in Slots \ {s} : item'[x] = item[x] /\ told'[x] = told[x]
    BY <1>1
<1>5. \A x \in CpuCallers \ {c} : call'[x] = call[x]
    OBVIOUS
<1>6. CountsOf(asked, call', item', told') =
              [pending |-> counted.pending + (Unit(item'[s], {"queued", "waiting", "acquired"})
                             - Unit(item[s], {"queued", "waiting", "acquired"})
                             + Unit(call'[c].step, {"uncount"}) - Unit(call[c].step, {"uncount"})
                             + LeftOf(asked, call', c) - LeftOf(asked, call, c)),
               active |-> counted.active + (Unit(item'[s], {"running", "released"}) - Unit(item[s], {"running", "released"})),
               completed |-> counted.completed + (Unit(item'[s], {"done"}) - Unit(item[s], {"done"})),
               failed |-> counted.failed + (FailedUnit(item'[s], told'[s]) - FailedUnit(item[s], told[s]))]
    BY <1>1, <1>4, <1>5, CountsMove
<1> QED BY <1>1, <1>3, <1>6

LEMMA CpuTakeStep == ASSUME CpuInv, CpuTake PROVE CpuInv'
<1>0. PICK s : s = Head(poolQueue)
    OBVIOUS
<1>p. PICK p : p = IF item[s] = "queued" THEN "waiting" ELSE item[s]
    OBVIOUS
<1>1. /\ poolQueue \in Seq(Slots) /\ poolQueue # <<>> /\ poolQueue' = Tail(poolQueue)
      /\ UNCHANGED <<asked, call, told, cpuRow, claim, counted>>
      /\ item' = [item EXCEPT ![s] = p] /\ item \in [Slots -> ItemPlaces] /\ told \in [Slots -> {"none", "ok", "failed"}]
    BY <1>0, <1>p DEF CpuInv, CpuShape, CpuTake
<1>2. s \in Slots /\ poolQueue' \in Seq(Slots)
    BY <1>0, <1>1
<1>3. p \in ItemPlaces /\ (item[s] = "none" => p = "none")
    BY <1>1, <1>2, <1>p DEF ItemPlaces
<1>4. ItemTrue(s)'
    BY <1>1, <1>2, <1>p DEF CpuInv, ItemTrue
<1>5. /\ Unit(p, {"queued", "waiting", "acquired"}) - Unit(item[s], {"queued", "waiting", "acquired"}) = 0
      /\ Unit(p, {"running", "released"}) - Unit(item[s], {"running", "released"}) = 0
      /\ Unit(p, {"done"}) - Unit(item[s], {"done"}) = 0
      /\ FailedUnit(p, told'[s]) - FailedUnit(item[s], told[s]) = 0
    BY <1>1, <1>p DEF Unit, FailedUnit
<1>6. counted' = [pending |-> counted.pending + 0, active |-> counted.active + 0,
                  completed |-> counted.completed + 0, failed |-> counted.failed + 0]
    BY <1>1 DEF CpuInv, CpuShape, CountRecords
<1>7. (counted = CountsOf(asked, call, item, told))'
    BY <1>1, <1>2, <1>3, <1>5, <1>6, ItemCounts
<1> QED BY <1>1, <1>2, <1>3, <1>4, <1>7, ItemOnly

LEMMA CpuAcquireStep == ASSUME CpuInv, NEW s \in Slots, CpuAcquire(s) PROVE CpuInv'
<1> DEFINE p == "acquired"
<1>1. /\ item[s] = "waiting" /\ item' = [item EXCEPT ![s] = p]
      /\ UNCHANGED <<asked, call, told, cpuRow, claim, poolQueue, counted>>
      /\ item \in [Slots -> ItemPlaces] /\ told \in [Slots -> {"none", "ok", "failed"}] /\ poolQueue \in Seq(Slots)
    BY DEF CpuInv, CpuShape, CpuAcquire, ItemGoes
<1>2. p \in ItemPlaces
    BY DEF ItemPlaces
<1>3. ItemTrue(s)'
    BY <1>1 DEF CpuInv, ItemTrue
<1>4. /\ Unit(p, {"queued", "waiting", "acquired"}) - Unit(item[s], {"queued", "waiting", "acquired"}) = 0
      /\ Unit(p, {"running", "released"}) - Unit(item[s], {"running", "released"}) = 0
      /\ Unit(p, {"done"}) - Unit(item[s], {"done"}) = 0
      /\ FailedUnit(p, told'[s]) - FailedUnit(item[s], told[s]) = 0
    BY <1>1 DEF Unit, FailedUnit
<1>5. counted' = [pending |-> counted.pending + 0, active |-> counted.active + 0,
                  completed |-> counted.completed + 0, failed |-> counted.failed + 0]
    BY <1>1 DEF CpuInv, CpuShape, CountRecords
<1> HIDE DEF p
<1>6. (counted = CountsOf(asked, call, item, told))'
    BY <1>1, <1>2, <1>4, <1>5, ItemCounts
<1> QED BY <1>1, <1>2, <1>3, <1>6, ItemOnly

LEMMA CpuBeginStep == ASSUME CpuInv, NEW s \in Slots, CpuBegin(s) PROVE CpuInv'
<1> DEFINE p == "running"
           q == -1
<1>1. /\ item[s] = "acquired" /\ item' = [item EXCEPT ![s] = p]
      /\ counted' = [counted EXCEPT !.pending = @ - 1, !.active = @ + 1]
      /\ UNCHANGED <<asked, call, told, cpuRow, claim, poolQueue>>
      /\ item \in [Slots -> ItemPlaces] /\ told \in [Slots -> {"none", "ok", "failed"}] /\ poolQueue \in Seq(Slots)
      /\ counted \in CountRecords
    BY DEF CpuInv, CpuShape, CpuBegin, ItemGoes
<1>2. p \in ItemPlaces /\ q \in Int
    BY DEF ItemPlaces
<1>3. ItemTrue(s)'
    BY <1>1 DEF CpuInv, ItemTrue
<1>4. /\ Unit(p, {"queued", "waiting", "acquired"}) - Unit(item[s], {"queued", "waiting", "acquired"}) = q
      /\ Unit(p, {"running", "released"}) - Unit(item[s], {"running", "released"}) = 1
      /\ Unit(p, {"done"}) - Unit(item[s], {"done"}) = 0
      /\ FailedUnit(p, told'[s]) - FailedUnit(item[s], told[s]) = 0
    BY <1>1 DEF Unit, FailedUnit
<1>5. counted' = [pending |-> counted.pending + q, active |-> counted.active + 1,
                  completed |-> counted.completed + 0, failed |-> counted.failed + 0]
    <2>1. counted.pending \in Int /\ counted.active \in Int /\ counted.completed \in Int /\ counted.failed \in Int
        BY <1>1 DEF CountRecords
    <2>2. counted' = [pending |-> counted.pending - 1, active |-> counted.active + 1,
                      completed |-> counted.completed, failed |-> counted.failed]
        BY <1>1 DEF CountRecords
    <2>3. counted.pending - 1 = counted.pending + q
        BY <2>1
    <2>4. counted.completed + 0 = counted.completed /\ counted.failed + 0 = counted.failed
        BY <2>1
    <2> QED BY <2>2, <2>3, <2>4
<1> HIDE DEF p, q
<1>6. (CountsOf(asked, call, item, told))' =
              [pending |-> counted.pending + (Unit(p, {"queued", "waiting", "acquired"})
                                              - Unit(item[s], {"queued", "waiting", "acquired"})),
               active |-> counted.active + (Unit(p, {"running", "released"}) - Unit(item[s], {"running", "released"})),
               completed |-> counted.completed + (Unit(p, {"done"}) - Unit(item[s], {"done"})),
               failed |-> counted.failed + (FailedUnit(p, told'[s]) - FailedUnit(item[s], told[s]))]
    BY <1>1, <1>2, ItemCounts
<1>7. (counted = CountsOf(asked, call, item, told))'
    BY <1>4, <1>5, <1>6
<1> QED BY <1>1, <1>2, <1>3, <1>7, ItemOnly

LEMMA CpuServeStep == ASSUME CpuInv, NEW s \in Slots, NEW reply \in {"ok", "failed"}, CpuServe(s, reply) PROVE CpuInv'
<1> DEFINE p == "released"
<1>1. /\ item[s] = "running" /\ item' = [item EXCEPT ![s] = p] /\ told' = [told EXCEPT ![s] = reply]
      /\ UNCHANGED <<asked, call, cpuRow, claim, poolQueue, counted>>
      /\ item \in [Slots -> ItemPlaces] /\ told \in [Slots -> {"none", "ok", "failed"}] /\ poolQueue \in Seq(Slots)
    BY DEF CpuInv, CpuShape, CpuServe, ItemGoes
<1>2. /\ p \in ItemPlaces /\ told' \in [Slots -> {"none", "ok", "failed"}] /\ told'[s] = reply
      /\ \A x \in Slots \ {s} : told'[x] = told[x]
    BY <1>1 DEF ItemPlaces
<1>3. ItemTrue(s)'
    BY <1>1, <1>2 DEF CpuInv, ItemTrue
<1>4. /\ Unit(p, {"queued", "waiting", "acquired"}) - Unit(item[s], {"queued", "waiting", "acquired"}) = 0
      /\ Unit(p, {"running", "released"}) - Unit(item[s], {"running", "released"}) = 0
      /\ Unit(p, {"done"}) - Unit(item[s], {"done"}) = 0
      /\ FailedUnit(p, told'[s]) - FailedUnit(item[s], told[s]) = 0
    BY <1>1 DEF Unit, FailedUnit
<1>5. counted' = [pending |-> counted.pending + 0, active |-> counted.active + 0,
                  completed |-> counted.completed + 0, failed |-> counted.failed + 0]
    BY <1>1 DEF CpuInv, CpuShape, CountRecords
<1> HIDE DEF p
<1>6. (counted = CountsOf(asked, call, item, told))'
    BY <1>1, <1>2, <1>4, <1>5, ItemCounts
<1> QED BY <1>1, <1>2, <1>3, <1>6, ItemOnly

LEMMA CpuFinishStep == ASSUME CpuInv, NEW s \in Slots, CpuFinish(s) PROVE CpuInv'
<1> DEFINE p == "done"
           a == -1
           f == IF told[s] = "failed" THEN 1 ELSE 0
<1>1. /\ item[s] = "released" /\ item' = [item EXCEPT ![s] = p]
      /\ counted' = [counted EXCEPT !.active = @ - 1, !.completed = @ + 1, !.failed = @ + f]
      /\ UNCHANGED <<asked, call, told, cpuRow, claim, poolQueue>>
      /\ item \in [Slots -> ItemPlaces] /\ told \in [Slots -> {"none", "ok", "failed"}] /\ poolQueue \in Seq(Slots)
      /\ counted \in CountRecords
    BY DEF CpuInv, CpuShape, CpuFinish, ItemGoes
<1>2. p \in ItemPlaces /\ a \in Int /\ f \in Int
    BY DEF ItemPlaces
<1>3. ItemTrue(s)'
    BY <1>1 DEF CpuInv, ItemTrue
<1>4. /\ Unit(p, {"queued", "waiting", "acquired"}) - Unit(item[s], {"queued", "waiting", "acquired"}) = 0
      /\ Unit(p, {"running", "released"}) - Unit(item[s], {"running", "released"}) = a
      /\ Unit(p, {"done"}) - Unit(item[s], {"done"}) = 1
      /\ FailedUnit(p, told'[s]) - FailedUnit(item[s], told[s]) = f
    BY <1>1 DEF Unit, FailedUnit
<1>5. counted' = [pending |-> counted.pending + 0, active |-> counted.active + a,
                  completed |-> counted.completed + 1, failed |-> counted.failed + f]
    <2> HIDE DEF f
    <2>1. counted.pending \in Int /\ counted.active \in Int /\ counted.completed \in Int /\ counted.failed \in Int
        BY <1>1 DEF CountRecords
    <2>2. counted' = [pending |-> counted.pending, active |-> counted.active - 1,
                      completed |-> counted.completed + 1, failed |-> counted.failed + f]
        BY <1>1 DEF CountRecords
    <2>3. counted.active - 1 = counted.active + a
        BY <2>1
    <2>4. counted.pending + 0 = counted.pending
        BY <2>1
    <2> QED BY <2>2, <2>3, <2>4
<1> HIDE DEF p, a, f
<1>6. (CountsOf(asked, call, item, told))' =
              [pending |-> counted.pending + (Unit(p, {"queued", "waiting", "acquired"})
                                              - Unit(item[s], {"queued", "waiting", "acquired"})),
               active |-> counted.active + (Unit(p, {"running", "released"}) - Unit(item[s], {"running", "released"})),
               completed |-> counted.completed + (Unit(p, {"done"}) - Unit(item[s], {"done"})),
               failed |-> counted.failed + (FailedUnit(p, told'[s]) - FailedUnit(item[s], told[s]))]
    BY <1>1, <1>2, ItemCounts
<1>7. (counted = CountsOf(asked, call, item, told))'
    BY <1>4, <1>5, <1>6
<1> QED BY <1>1, <1>2, <1>3, <1>7, ItemOnly

LEMMA MaxZero == ASSUME NEW n \in Nat PROVE Max({0, n}) = n
<1>1. n \in {0, n} /\ \A y \in {0, n} : n >= y
    OBVIOUS
<1>2. \A x \in {0, n} : (\A y \in {0, n} : x >= y) => x = n
    OBVIOUS
<1> DEFINE S == {0, n}
<1>3. n \in S /\ \A y \in S : n >= y
    BY <1>1
<1>4. \A x \in S : (\A y \in S : x >= y) => x = n
    BY <1>2
<1> HIDE DEF S
<1>5. Max(S) = n
    BY <1>3, <1>4 DEF Max
<1> QED BY <1>5 DEF S

(* A call collects or settles: rows and claims change, and no item does.    *)
LEMMA CpuCollectStep == ASSUME CpuInv, NEW c \in CpuCallers, NEW s \in Slots, CpuCollect(c, s) PROVE CpuInv'
<1>1. /\ item[s] = "done" /\ cpuRow[s] = "none" /\ cpuRow' = [cpuRow EXCEPT ![s] = told[s]]
      /\ UNCHANGED <<asked, call, item, told, claim, poolQueue, counted>>
      /\ cpuRow \in [Slots -> {"none", "ok", "failed", "timeout", "refused"}] /\ told \in [Slots -> {"none", "ok", "failed"}]
    BY DEF CpuInv, CpuShape, CpuCollect
<1>2. told[s] # "none"
    BY <1>1 DEF CpuInv, ItemTrue
<1>3. /\ cpuRow' \in [Slots -> {"none", "ok", "failed", "timeout", "refused"}] /\ cpuRow'[s] = told[s]
      /\ \A x \in Slots \ {s} : cpuRow'[x] = cpuRow[x]
    BY <1>1
<1>4. CpuShape'
    BY <1>1, <1>3 DEF CpuInv, CpuShape
<1>5. ASSUME NEW x \in CpuCallers PROVE CallPlace(x)'
    <2>1. \A i \in 1..asked[x].items : <<x, i>> \in Slots
        BY SlotsOfCall DEF CpuInv, CpuShape
    <2>2. \A i \in 1..asked[x].items : cpuRow[<<x, i>>] # "none" => cpuRow'[<<x, i>>] # "none"
        BY <1>1, <1>3, <2>1
    <2> QED BY <1>1, <2>2, PlaceStays DEF CpuInv
<1>6. ASSUME NEW x \in Slots PROVE ItemTrue(x)'
    <2>1. CASE x = s
        BY <1>1, <1>2, <1>3, <2>1 DEF CpuInv, ItemTrue
    <2>2. CASE x # s
        BY <1>1, <1>3, <2>2, ItemStays DEF CpuInv
    <2> QED BY <2>1, <2>2
<1>7. (counted = CountsOf(asked, call, item, told))'
    BY <1>1 DEF CpuInv
<1> QED BY <1>4, <1>5, <1>6, <1>7 DEF CpuInv

LEMMA CpuSettleStep == ASSUME CpuInv, NEW c \in CpuCallers, CpuSettle(c) PROVE CpuInv'
<1>1. /\ CpuShape /\ call[c].step = "returned" /\ CallGoes(c, "settled", 0)
      /\ claim' = [s \in Slots |-> IF s \in ItemsOf(c) THEN IF cpuRow[s] = "ok" THEN "completed" ELSE "failed" ELSE claim[s]]
      /\ UNCHANGED <<asked, item, told, cpuRow, poolQueue, counted>>
    BY DEF CpuInv, CpuSettle, CallAt
<1>2. /\ call' \in [CpuCallers -> CallRecords] /\ call'[c].step = "settled"
      /\ \A x \in CpuCallers \ {c} : call'[x] = call[x]
      /\ \A x \in CpuCallers : call[x].late => call'[x].late
    <2>1. "settled" \in CallSteps /\ 0 \in Nat
        BY DEF CallSteps
    <2>2. call'[c] = [step |-> "settled", at |-> 0, late |-> call[c].late]
        BY <1>1, <2>1, CallGoesTo
    <2>3. /\ call' \in [CpuCallers -> CallRecords]
          /\ \A x \in CpuCallers \ {c} : call'[x] = call[x]
          /\ \A x \in CpuCallers : call[x].late => call'[x].late
        BY <1>1, <2>1, CallGoesTo
    <2> QED BY <2>2, <2>3
<1>3. \A x \in CpuCallers : \A i \in 1..asked[x].items : <<x, i>> \in Slots
    BY <1>1, SlotsOfCall DEF CpuShape
<1>4. CpuShape'
    BY <1>1, <1>2 DEF CpuShape
<1>5. ASSUME NEW x \in CpuCallers PROVE CallPlace(x)'
    <2>1. CASE x = c
        <3>1. \A i \in 1..asked[c].items : cpuRow[<<c, i>>] # "none"
            BY <1>1 DEF CpuInv, CallPlace
        <3>2. \A i \in 1..asked[c].items : claim'[<<c, i>>] # "claimed"
            BY <1>1, <1>3 DEF ItemsOf
        <3> QED BY <1>1, <1>2, <2>1, <3>1, <3>2 DEF CallPlace
    <2>2. CASE x # c
        <3>1. \A i \in 1..asked[x].items : claim[<<x, i>>] # "claimed" => claim'[<<x, i>>] # "claimed"
            BY <1>1, <1>3
        <3> QED BY <1>1, <1>2, <2>2, <3>1, PlaceStays DEF CpuInv
    <2> QED BY <2>1, <2>2
<1>6. ASSUME NEW x \in Slots PROVE ItemTrue(x)'
    <2>0. ItemTrue(x) /\ x[1] \in CpuCallers
        BY DEF CpuInv, Slots
    <2>1. CASE x \in ItemsOf(c)
        <3>1. claim'[x] = "completed" => item[x] = "done" /\ told[x] = "ok"
            BY <1>1, <2>0, <2>1 DEF ItemTrue
        <3> QED BY <1>1, <1>2, <2>0, <3>1 DEF ItemTrue
    <2>2. CASE x \notin ItemsOf(c)
        BY <1>1, <1>2, <2>0, <2>2, ItemStays
    <2> QED BY <2>1, <2>2
<1>7. (counted = CountsOf(asked, call, item, told))'
    BY <1>1, <1>2, CountsStay
<1> QED BY <1>4, <1>5, <1>6, <1>7 DEF CpuInv

LEMMA CpuAdmitStep == ASSUME CpuInv, NEW c \in CpuCallers, CpuAdmit(c) PROVE CpuInv'
<1>1. /\ CpuShape /\ call[c].step = "new" /\ CallGoes(c, "submit", 1)
      /\ counted' = [counted EXCEPT !.pending = @ + asked[c].items]
      /\ UNCHANGED <<asked, item, told, cpuRow, claim, poolQueue>>
    BY DEF CpuInv, CpuAdmit, CallAt
<1>2. /\ call' \in [CpuCallers -> CallRecords] /\ call'[c].step = "submit" /\ call'[c].at = 1
      /\ \A x \in CpuCallers \ {c} : call'[x] = call[x]
      /\ \A x \in CpuCallers : call[x].late => call'[x].late
    <2>1. "submit" \in CallSteps /\ 1 \in Nat
        BY DEF CallSteps
    <2>2. call'[c] = [step |-> "submit", at |-> 1, late |-> call[c].late]
        BY <1>1, <2>1, CallGoesTo
    <2>3. /\ call' \in [CpuCallers -> CallRecords]
          /\ \A x \in CpuCallers \ {c} : call'[x] = call[x]
          /\ \A x \in CpuCallers : call[x].late => call'[x].late
        BY <1>1, <2>1, CallGoesTo
    <2> QED BY <2>2, <2>3
<1>3. asked[c].items \in Nat \ {0} /\ asked \in CpuMixes /\ counted \in CountRecords
    BY <1>1, SlotsOfCall DEF CpuShape
<1>4. 1 \in 1..asked[c].items
    BY <1>3
<1>5. PICK s \in Slots : TRUE
    BY <1>3, <1>4, SlotsOfCall
<1>6. LeftKnown(asked, call) /\ LeftKnown(asked, call')
    BY <1>2, <1>4, CpuKnown DEF LeftKnown
<1>7. CountsOf(asked, call', item', told') =
              [pending |-> counted.pending + (Unit(item'[s], {"queued", "waiting", "acquired"})
                             - Unit(item[s], {"queued", "waiting", "acquired"})
                             + Unit(call'[c].step, {"uncount"}) - Unit(call[c].step, {"uncount"})
                             + LeftOf(asked, call', c) - LeftOf(asked, call, c)),
               active |-> counted.active + (Unit(item'[s], {"running", "released"}) - Unit(item[s], {"running", "released"})),
               completed |-> counted.completed + (Unit(item'[s], {"done"}) - Unit(item[s], {"done"})),
               failed |-> counted.failed + (FailedUnit(item'[s], told'[s]) - FailedUnit(item[s], told[s]))]
    <2>1. item' \in [Slots -> ItemPlaces] /\ asked' = asked /\ \A x \in Slots \ {s} : item'[x] = item[x] /\ told'[x] = told[x]
        BY <1>1 DEF CpuShape
    <2> QED BY <1>2, <1>6, <2>1, CountsMove
<1>8. (counted = CountsOf(asked, call, item, told))'
    <2> DEFINE n == asked[c].items
               u == Unit(item[s], {"queued", "waiting", "acquired"})
               v == Unit(item[s], {"running", "released"})
               w == Unit(item[s], {"done"})
               f == FailedUnit(item[s], told[s])
    <2>1. LeftOf(asked, call', c) = n - 1 + 1 /\ LeftOf(asked, call, c) = 0
        BY <1>1, <1>2 DEF LeftOf
    <2>2. Unit(call'[c].step, {"uncount"}) = 0 /\ Unit(call[c].step, {"uncount"}) = 0
        BY <1>1, <1>2 DEF Unit
    <2>3. u \in Int /\ v \in Int /\ w \in Int /\ f \in Int /\ n \in Int
        BY <1>3 DEF Unit, FailedUnit
    <2>4. CountsOf(asked, call', item', told') =
              [pending |-> counted.pending + (u - u + 0 - 0 + (n - 1 + 1) - 0), active |-> counted.active + (v - v),
               completed |-> counted.completed + (w - w), failed |-> counted.failed + (f - f)]
        BY <1>1, <1>7, <2>1, <2>2
    <2>5. counted.pending \in Int /\ counted.active \in Int /\ counted.completed \in Int /\ counted.failed \in Int
        BY <1>3 DEF CountRecords
    <2>6. counted' = [pending |-> counted.pending + n, active |-> counted.active,
                      completed |-> counted.completed, failed |-> counted.failed]
        BY <1>1, <1>3 DEF CountRecords
    <2> HIDE DEF n, u, v, w, f
    <2>7. u - u + 0 - 0 + (n - 1 + 1) - 0 = n /\ v - v = 0 /\ w - w = 0 /\ f - f = 0
        BY <2>3
    <2>8. /\ counted.active + 0 = counted.active /\ counted.completed + 0 = counted.completed
          /\ counted.failed + 0 = counted.failed
        BY <2>5
    <2>9. counted' = CountsOf(asked, call', item', told')
        BY <2>4, <2>6, <2>7, <2>8
    <2> QED BY <1>1, <2>9
<1>9. CpuShape'
    <2>1. CountsOf(asked, call', item, told) \in CountRecords /\ counted' = CountsOf(asked, call', item, told)
        BY <1>1, <1>3, <1>6, <1>8, CountsTyped DEF CpuShape
    <2> QED BY <1>1, <1>2, <2>1 DEF CpuShape
<1>10. ASSUME NEW x \in CpuCallers PROVE CallPlace(x)'
    <2>1. CASE x = c
        BY <1>1, <1>2, <1>4, <2>1 DEF CpuInv, CallPlace
    <2>2. CASE x # c
        BY <1>1, <1>2, <2>2, PlaceStays DEF CpuInv
    <2> QED BY <2>1, <2>2
<1>11. \A x \in Slots : ItemTrue(x)'
    BY <1>1, <1>2, ItemStays DEF CpuInv
<1> QED BY <1>8, <1>9, <1>10, <1>11 DEF CpuInv

LEMMA CpuSubmitStep == ASSUME CpuInv, NEW c \in CpuCallers, CpuSubmit(c) PROVE CpuInv'
<1> DEFINE k == call[c].at
           n == asked[c].items
<1>1. /\ CpuShape /\ call[c].step = "submit"
      /\ item' = [item EXCEPT ![<<c, k>>] = "queued"] /\ poolQueue' = Append(poolQueue, <<c, k>>)
      /\ IF k = n THEN CallGoes(c, "wait", 0) ELSE CallGoes(c, "submit", k + 1)
      /\ UNCHANGED <<asked, told, cpuRow, claim, counted>>
    BY DEF CpuInv, CpuSubmit, CallAt
<1>2. n \in Nat \ {0} /\ k \in 1..n /\ \A i \in 1..n : <<c, i>> \in Slots
    BY <1>1, SlotsOfCall DEF CpuInv, CpuShape, CallPlace
<1>3. k \in Nat /\ k + 1 \in Nat /\ k <= n /\ (k # n => k + 1 \in 1..n)
    <2> HIDE DEF k, n
    <2> QED BY <1>2
<1>4. /\ call' \in [CpuCallers -> CallRecords]
      /\ \A x \in CpuCallers \ {c} : call'[x] = call[x]
      /\ \A x \in CpuCallers : call[x].late => call'[x].late
      /\ k = n => call'[c].step = "wait"
      /\ k # n => call'[c].step = "submit" /\ call'[c].at = k + 1
    <2>0. "wait" \in CallSteps /\ "submit" \in CallSteps /\ 0 \in Nat
        BY DEF CallSteps
    <2>1. CASE k = n
        <3>1. CallGoes(c, "wait", 0)
            BY <1>1, <2>1
        <3>2. call'[c] = [step |-> "wait", at |-> 0, late |-> call[c].late]
            BY <1>1, <2>0, <3>1, CallGoesTo
        <3>3. /\ call' \in [CpuCallers -> CallRecords] /\ \A x \in CpuCallers \ {c} : call'[x] = call[x]
              /\ \A x \in CpuCallers : call[x].late => call'[x].late
            BY <1>1, <2>0, <3>1, CallGoesTo
        <3> QED BY <2>1, <3>2, <3>3
    <2>2. CASE k # n
        <3> DEFINE m == k + 1
        <3>1. CallGoes(c, "submit", m) /\ m \in Nat
            BY <1>1, <1>3, <2>2
        <3> HIDE DEF m
        <3>2. call'[c] = [step |-> "submit", at |-> m, late |-> call[c].late]
            BY <1>1, <2>0, <3>1, CallGoesTo
        <3>3. /\ call' \in [CpuCallers -> CallRecords] /\ \A x \in CpuCallers \ {c} : call'[x] = call[x]
              /\ \A x \in CpuCallers : call[x].late => call'[x].late
            BY <1>1, <2>0, <3>1, CallGoesTo
        <3> QED BY <2>2, <3>2, <3>3 DEF m
    <2> QED BY <2>1, <2>2
<1>5. PICK s : s = <<c, k>>
    OBVIOUS
<1>6. /\ s \in Slots /\ item[s] = "none" /\ item' \in [Slots -> ItemPlaces] /\ item'[s] = "queued"
      /\ \A x \in Slots \ {s} : item'[x] = item[x]
    <2>1. s \in Slots
        BY <1>2, <1>5
    <2>2. item[s] = "none"
        <3>1. \A i \in k..n : item[<<c, i>>] = "none"
            BY <1>1 DEF CpuInv, CallPlace
        <3>2. k \in k..n
            <4> HIDE DEF k, n
            <4> QED BY <1>2, <1>3
        <3> QED BY <1>5, <3>1, <3>2
    <2>3. item' = [item EXCEPT ![s] = "queued"]
        BY <1>1, <1>5
    <2>4. item \in [Slots -> ItemPlaces] /\ "queued" \in ItemPlaces
        BY <1>1 DEF CpuShape, ItemPlaces
    <2> QED BY <2>1, <2>2, <2>3, <2>4
<1>7. LeftKnown(asked, call) /\ LeftKnown(asked, call')
    BY <1>1, <1>3, <1>4, CpuKnown DEF LeftKnown
<1>8. CountsOf(asked, call', item', told') =
              [pending |-> counted.pending + (Unit(item'[s], {"queued", "waiting", "acquired"})
                             - Unit(item[s], {"queued", "waiting", "acquired"})
                             + Unit(call'[c].step, {"uncount"}) - Unit(call[c].step, {"uncount"})
                             + LeftOf(asked, call', c) - LeftOf(asked, call, c)),
               active |-> counted.active + (Unit(item'[s], {"running", "released"}) - Unit(item[s], {"running", "released"})),
               completed |-> counted.completed + (Unit(item'[s], {"done"}) - Unit(item[s], {"done"})),
               failed |-> counted.failed + (FailedUnit(item'[s], told'[s]) - FailedUnit(item[s], told[s]))]
    <2>1. asked' = asked /\ \A x \in Slots \ {s} : item'[x] = item[x] /\ told'[x] = told[x]
        BY <1>1, <1>6
    <2> QED BY <1>4, <1>6, <1>7, <2>1, CountsMove
<1>9. (counted = CountsOf(asked, call, item, told))'
    <2> DEFINE l == LeftOf(asked, call', c)
               h == LeftOf(asked, call, c)
    <2>1. h = n - k + 1 /\ l = IF k = n THEN 0 ELSE n - (k + 1) + 1
        BY <1>1, <1>4 DEF LeftOf
    <2>2. 1 - 0 + 0 - 0 + l - h = 0
        <3> HIDE DEF k, n, l, h
        <3> QED BY <1>2, <1>3, <2>1
    <2>3. /\ Unit(item'[s], {"queued", "waiting", "acquired"}) = 1 /\ Unit(item[s], {"queued", "waiting", "acquired"}) = 0
          /\ Unit(call'[c].step, {"uncount"}) = 0 /\ Unit(call[c].step, {"uncount"}) = 0
          /\ Unit(item'[s], {"running", "released"}) = 0 /\ Unit(item[s], {"running", "released"}) = 0
          /\ Unit(item'[s], {"done"}) = 0 /\ Unit(item[s], {"done"}) = 0
          /\ FailedUnit(item'[s], told'[s]) = 0 /\ FailedUnit(item[s], told[s]) = 0
        BY <1>1, <1>4, <1>6 DEF Unit, FailedUnit
    <2>4. CountsOf(asked, call', item', told') =
              [pending |-> counted.pending + 0, active |-> counted.active + (0 - 0),
               completed |-> counted.completed + (0 - 0), failed |-> counted.failed + (0 - 0)]
        BY <1>8, <2>2, <2>3
    <2>5. counted \in CountRecords
        BY <1>1 DEF CpuShape
    <2>6. counted.pending \in Int /\ counted.active \in Int /\ counted.completed \in Int /\ counted.failed \in Int
        BY <2>5 DEF CountRecords
    <2>7. counted = [pending |-> counted.pending, active |-> counted.active,
                     completed |-> counted.completed, failed |-> counted.failed]
        BY <2>5 DEF CountRecords
    <2>8. 0 - 0 = 0
        OBVIOUS
    <2>9. /\ counted.pending + 0 = counted.pending /\ counted.active + 0 = counted.active
          /\ counted.completed + 0 = counted.completed /\ counted.failed + 0 = counted.failed
        BY <2>6
    <2>10. counted = CountsOf(asked, call', item', told')
        BY <2>4, <2>7, <2>8, <2>9
    <2> QED BY <1>1, <2>10
<1>10. CpuShape'
    <2>1. poolQueue' \in Seq(Slots)
        BY <1>1, <1>5, <1>6 DEF CpuShape
    <2> QED BY <1>1, <1>4, <1>6, <2>1 DEF CpuShape
<1>11. ASSUME NEW x \in CpuCallers PROVE CallPlace(x)'
    <2>1. CASE x = c
        <3>1. CASE k = n
            BY <1>4, <2>1, <3>1 DEF CallPlace
        <3>2. CASE k # n
            <4>1. \A i \in (k + 1)..n : i \in k..n /\ i \in 1..n /\ i # k
                <5> HIDE DEF k, n
                <5> QED BY <1>2, <1>3
            <4>2. \A i \in k..n : item[<<c, i>>] = "none"
                BY <1>1 DEF CpuInv, CallPlace
            <4>3. \A i \in (k + 1)..n : item'[<<c, i>>] = "none"
                BY <1>2, <1>5, <1>6, <4>1, <4>2
            <4> QED BY <1>1, <1>3, <1>4, <2>1, <3>2, <4>3 DEF CallPlace
        <3> QED BY <3>1, <3>2
    <2>2. CASE x # c
        <3>1. \A i \in 1..asked[x].items : <<x, i>> \in Slots \ {s}
            BY <1>1, <1>5, <2>2, SlotsOfCall DEF CpuShape
        <3>2. \A i \in 1..asked[x].items : item[<<x, i>>] = "none" => item'[<<x, i>>] = "none"
            BY <1>6, <3>1
        <3> QED BY <1>1, <1>4, <2>2, <3>2, PlaceStays DEF CpuInv
    <2> QED BY <2>1, <2>2
<1>12. ASSUME NEW x \in Slots PROVE ItemTrue(x)'
    <2>1. CASE x = s
        <3>1. ItemTrue(s) /\ s[1] \in CpuCallers
            BY <1>6 DEF CpuInv, Slots
        <3> QED BY <1>1, <1>4, <1>6, <2>1, <3>1 DEF ItemTrue
    <2>2. CASE x # s
        BY <1>1, <1>4, <1>6, <2>2, ItemStays DEF CpuInv
    <2> QED BY <2>1, <2>2
<1> QED BY <1>9, <1>10, <1>11, <1>12 DEF CpuInv

LEMMA CpuUncountStep == ASSUME CpuInv, NEW c \in CpuCallers, CpuUncount(c) PROVE CpuInv'
<1> DEFINE k == call[c].at
           n == asked[c].items
           p == counted.pending
<1>1. /\ CpuShape /\ call[c].step = "uncount" /\ CallGoes(c, "sweep", k + 1)
      /\ counted' = [counted EXCEPT !.pending = Max({0, p - 1})]
      /\ UNCHANGED <<asked, item, told, cpuRow, claim, poolQueue>>
    BY DEF CpuInv, CpuUncount, CallAt
<1>2. n \in Nat \ {0} /\ k \in 1..n /\ cpuRow[<<c, k>>] # "none" /\ \A i \in 1..n : i < k => cpuRow[<<c, i>>] # "none"
    BY <1>1, SlotsOfCall DEF CpuInv, CpuShape, CallPlace
<1>3. k + 1 \in Nat /\ k + 1 >= 1 /\ \A i \in 1..n : i < k + 1 => i < k \/ i = k
    <2> HIDE DEF k, n
    <2> QED BY <1>2
<1>l. call[c].late
    BY <1>1 DEF CpuInv, CallPlace
<1>4. /\ call' \in [CpuCallers -> CallRecords] /\ call'[c].step = "sweep" /\ call'[c].at = k + 1
      /\ \A x \in CpuCallers \ {c} : call'[x] = call[x]
      /\ \A x \in CpuCallers : call[x].late => call'[x].late
    <2> DEFINE m == k + 1
    <2>1. "sweep" \in CallSteps /\ m \in Nat /\ CallGoes(c, "sweep", m)
        BY <1>1, <1>3 DEF CallSteps
    <2> HIDE DEF m
    <2>2. call'[c] = [step |-> "sweep", at |-> m, late |-> call[c].late]
        BY <1>1, <2>1, CallGoesTo
    <2>3. /\ call' \in [CpuCallers -> CallRecords]
          /\ \A x \in CpuCallers \ {c} : call'[x] = call[x]
          /\ \A x \in CpuCallers : call[x].late => call'[x].late
        BY <1>1, <2>1, CallGoesTo
    <2> QED BY <2>2, <2>3 DEF m
<1>5. LeftKnown(asked, call) /\ LeftKnown(asked, call') /\ asked \in CpuMixes /\ counted \in CountRecords
    BY <1>1, <1>4, CpuKnown DEF LeftKnown, CpuShape
<1>6. /\ CalledOff(call) \in Nat /\ LeftToSubmit(asked, call) \in Nat
      /\ CalledOff(call') = CalledOff(call) + Unit(call'[c].step, {"uncount"}) - Unit(call[c].step, {"uncount"})
      /\ LeftToSubmit(asked, call') = LeftToSubmit(asked, call) + LeftOf(asked, call', c) - LeftOf(asked, call, c)
    <2>1. \A x \in CpuCallers \ {c} : call'[x] = call[x]
        BY <1>4
    <2> QED BY <1>5, <2>1, CallMoved
<1>7. CalledOff(call') \in Nat
    <2>1. \A x \in CpuCallers \ {c} : call[x] = call'[x]
        BY <1>4
    <2> QED BY <1>5, <2>1, CallMoved
<1>8. /\ Unit(call'[c].step, {"uncount"}) = 0 /\ Unit(call[c].step, {"uncount"}) = 1
      /\ LeftOf(asked, call', c) = 0 /\ LeftOf(asked, call, c) = 0
    BY <1>1, <1>4 DEF Unit, LeftOf
<1>9. /\ p = PendingAt(item) + CalledOff(call) + LeftToSubmit(asked, call) /\ PendingAt(item) \in Nat
      /\ counted.active = ActiveAt(item) /\ counted.completed = DoneAt(item) /\ counted.failed = FailedAt(item, told)
    <2>1. CountsOf(asked, call, item, told) \in CountRecords
        BY <1>1, <1>5, CountsTyped DEF CpuShape
    <2>2. IsFiniteSet(Slots) /\ ItemsAt(item, {"queued", "waiting", "acquired"}) \in SUBSET Slots
        BY <1>5, SlotsFinite DEF ItemsAt
    <2>3. PendingAt(item) \in Nat
        BY <2>2, FS_Subset, FS_CardinalityType DEF PendingAt
    <2> QED BY <2>3, CpuKnown
<1>10. /\ p - 1 \in Nat
       /\ p - 1 = PendingAt(item) + CalledOff(call') + LeftToSubmit(asked, call')
    <2> DEFINE a == PendingAt(item)
               b == CalledOff(call)
               d == CalledOff(call')
               l == LeftToSubmit(asked, call)
               m == LeftToSubmit(asked, call')
    <2>1. a \in Nat /\ b \in Nat /\ d \in Nat /\ l \in Nat /\ d = b + 0 - 1 /\ m = l + 0 - 0 /\ p = a + b + l
        BY <1>6, <1>7, <1>8, <1>9
    <2> HIDE DEF a, b, d, l, m, p
    <2>2. p - 1 \in Nat /\ p - 1 = a + d + m
        BY <2>1
    <2> QED BY <2>2 DEF a, d, m
<1>11. counted' = [pending |-> p - 1, active |-> counted.active, completed |-> counted.completed, failed |-> counted.failed]
    <2> DEFINE q == p - 1
    <2>1. q \in Nat
        BY <1>10
    <2> HIDE DEF q
    <2>2. Max({0, q}) = q
        BY <2>1, MaxZero
    <2>3. counted' = [counted EXCEPT !.pending = q]
        BY <1>1, <2>2 DEF q
    <2>4. counted' = [pending |-> q, active |-> counted.active, completed |-> counted.completed, failed |-> counted.failed]
        BY <1>5, <2>3 DEF CountRecords
    <2> QED BY <2>4 DEF q
<1>12. (counted = CountsOf(asked, call, item, told))'
    <2>1. counted' = CountsOf(asked, call', item, told)
        BY <1>9, <1>10, <1>11 DEF CountsOf
    <2> QED BY <1>1, <2>1
<1>13. CpuShape'
    <2>1. counted' \in CountRecords
        BY <1>5, <1>10, <1>11 DEF CountRecords
    <2> QED BY <1>1, <1>4, <2>1 DEF CpuShape
<1>14. ASSUME NEW x \in CpuCallers PROVE CallPlace(x)'
    <2>1. CASE x = c
        <3>1. \A i \in 1..n : i < k + 1 => cpuRow[<<c, i>>] # "none"
            BY <1>2, <1>3
        <3> QED BY <1>1, <1>3, <1>l, <1>4, <2>1, <3>1 DEF CallPlace
    <2>2. CASE x # c
        BY <1>1, <1>4, <2>2, PlaceStays DEF CpuInv
    <2> QED BY <2>1, <2>2
<1>15. \A x \in Slots : ItemTrue(x)'
    BY <1>1, <1>4, ItemStays DEF CpuInv
<1> QED BY <1>12, <1>13, <1>14, <1>15 DEF CpuInv

LEMMA CpuSweepStep == ASSUME CpuInv, NEW c \in CpuCallers, CpuSweep(c) PROVE CpuInv'
<1> DEFINE k == call[c].at
           n == asked[c].items
<1>1. /\ CpuShape /\ call[c].step = "sweep" /\ k <= n
      /\ cpuRow' = [cpuRow EXCEPT ![<<c, k>>] = IF @ = "none" THEN "timeout" ELSE @]
      /\ IF cpuRow[<<c, k>>] = "none" /\ item[<<c, k>>] = "queued"
         THEN item' = [item EXCEPT ![<<c, k>>] = "cancelled"] /\ CallGoes(c, "uncount", k)
         ELSE UNCHANGED item /\ CallGoes(c, "sweep", k + 1)
      /\ UNCHANGED <<asked, told, claim, poolQueue, counted>>
    BY DEF CpuInv, CpuSweep, CallAt
<1>2. /\ n \in Nat \ {0} /\ k \in Nat /\ k >= 1 /\ \A i \in 1..n : <<c, i>> \in Slots /\ (i < k => cpuRow[<<c, i>>] # "none")
      /\ asked \in CpuMixes /\ counted \in CountRecords
    BY <1>1, SlotsOfCall DEF CpuInv, CpuShape, CallPlace, CallRecords
<1>3. k \in 1..n /\ k + 1 \in Nat /\ k + 1 >= 1 /\ \A i \in 1..n : i < k + 1 => i < k \/ i = k
    <2> HIDE DEF k, n
    <2> QED BY <1>1, <1>2
<1>4. PICK s \in Slots : s = <<c, k>>
    BY <1>2, <1>3
<1>5. ItemTrue(s) /\ s[1] = c
    BY <1>4 DEF CpuInv
<1>6. call[c].late
    BY <1>1 DEF CpuInv, CallPlace
<1>7. /\ cpuRow' \in [Slots -> {"none", "ok", "failed", "timeout", "refused"}]
      /\ cpuRow'[s] = IF cpuRow[s] = "none" THEN "timeout" ELSE cpuRow[s]
      /\ \A x \in Slots \ {s} : cpuRow'[x] = cpuRow[x]
    BY <1>1, <1>4 DEF CpuShape
<1>8. \A x \in CpuCallers : \A i \in 1..asked[x].items : cpuRow[<<x, i>>] # "none" => cpuRow'[<<x, i>>] # "none"
    BY <1>2, <1>7, SlotsOfCall
<1>9. \A i \in 1..n : i <= k => cpuRow'[<<c, i>>] # "none"
    <2>1. \A i \in 1..n : i <= k => i < k \/ i = k
        <3> HIDE DEF k, n
        <3> QED BY <1>2
    <2>2. cpuRow'[<<c, k>>] # "none"
        BY <1>4, <1>7
    <2>3. \A i \in 1..n : i < k => cpuRow'[<<c, i>>] # "none"
        BY <1>2, <1>8
    <2> QED BY <2>1, <2>2, <2>3
<1>10. \A i \in 1..n : (i < k => i <= k) /\ (i < k + 1 => i <= k)
    <2> HIDE DEF k, n
    <2> QED BY <1>2
<1>11. CASE cpuRow[s] = "none" /\ item[s] = "queued"
    <2>1. item' = [item EXCEPT ![s] = "cancelled"] /\ CallGoes(c, "uncount", k)
        BY <1>1, <1>4, <1>11
    <2>2. /\ call' \in [CpuCallers -> CallRecords] /\ call'[c].step = "uncount" /\ call'[c].at = k /\ call'[c].late
          /\ \A x \in CpuCallers \ {c} : call'[x] = call[x]
          /\ \A x \in CpuCallers : call[x].late => call'[x].late
        <3>1. "uncount" \in CallSteps /\ k \in Nat
            BY <1>2 DEF CallSteps
        <3> HIDE DEF k
        <3>2. call'[c] = [step |-> "uncount", at |-> k, late |-> call[c].late]
            BY <1>1, <2>1, <3>1, CallGoesTo
        <3>3. /\ call' \in [CpuCallers -> CallRecords]
              /\ \A x \in CpuCallers \ {c} : call'[x] = call[x]
              /\ \A x \in CpuCallers : call[x].late => call'[x].late
            BY <1>1, <2>1, <3>1, CallGoesTo
        <3> QED BY <1>6, <3>2, <3>3
    <2>3. /\ item \in [Slots -> ItemPlaces] /\ item' \in [Slots -> ItemPlaces] /\ item'[s] = "cancelled"
          /\ \A x \in Slots \ {s} : item'[x] = item[x]
        <3>1. item \in [Slots -> ItemPlaces] /\ "cancelled" \in ItemPlaces
            BY <1>1 DEF CpuShape, ItemPlaces
        <3> QED BY <2>1, <3>1
    <2>4. LeftKnown(asked, call')
        BY <2>2, CpuKnown DEF LeftKnown
    <2>5. CountsOf(asked, call', item', told') =
              [pending |-> counted.pending + (Unit(item'[s], {"queued", "waiting", "acquired"})
                             - Unit(item[s], {"queued", "waiting", "acquired"})
                             + Unit(call'[c].step, {"uncount"}) - Unit(call[c].step, {"uncount"})
                             + LeftOf(asked, call', c) - LeftOf(asked, call, c)),
               active |-> counted.active + (Unit(item'[s], {"running", "released"}) - Unit(item[s], {"running", "released"})),
               completed |-> counted.completed + (Unit(item'[s], {"done"}) - Unit(item[s], {"done"})),
               failed |-> counted.failed + (FailedUnit(item'[s], told'[s]) - FailedUnit(item[s], told[s]))]
        <3>1. asked' = asked /\ \A x \in Slots \ {s} : item'[x] = item[x] /\ told'[x] = told[x]
            BY <1>1, <2>3
        <3> QED BY <2>2, <2>3, <2>4, <3>1, CountsMove
    <2>6. (counted = CountsOf(asked, call, item, told))'
        <3>1. /\ Unit(item'[s], {"queued", "waiting", "acquired"}) = 0 /\ Unit(item[s], {"queued", "waiting", "acquired"}) = 1
              /\ Unit(call'[c].step, {"uncount"}) = 1 /\ Unit(call[c].step, {"uncount"}) = 0
              /\ LeftOf(asked, call', c) = 0 /\ LeftOf(asked, call, c) = 0
              /\ Unit(item'[s], {"running", "released"}) = 0 /\ Unit(item[s], {"running", "released"}) = 0
              /\ Unit(item'[s], {"done"}) = 0 /\ Unit(item[s], {"done"}) = 0
              /\ FailedUnit(item'[s], told'[s]) = 0 /\ FailedUnit(item[s], told[s]) = 0
            BY <1>1, <1>11, <2>2, <2>3 DEF Unit, FailedUnit, LeftOf
        <3>2. CountsOf(asked, call', item', told') =
              [pending |-> counted.pending + (0 - 1 + 1 - 0 + 0 - 0), active |-> counted.active + (0 - 0),
               completed |-> counted.completed + (0 - 0), failed |-> counted.failed + (0 - 0)]
            BY <2>5, <3>1
        <3>3. counted.pending \in Int /\ counted.active \in Int /\ counted.completed \in Int /\ counted.failed \in Int
            BY <1>2 DEF CountRecords
        <3>4. counted = [pending |-> counted.pending, active |-> counted.active,
                         completed |-> counted.completed, failed |-> counted.failed]
            BY <1>2 DEF CountRecords
        <3>5. 0 - 1 + 1 - 0 + 0 - 0 = 0 /\ 0 - 0 = 0
            OBVIOUS
        <3>6. /\ counted.pending + 0 = counted.pending /\ counted.active + 0 = counted.active
              /\ counted.completed + 0 = counted.completed /\ counted.failed + 0 = counted.failed
            BY <3>3
        <3>7. counted = CountsOf(asked, call', item', told')
            BY <3>2, <3>4, <3>5, <3>6
        <3> QED BY <1>1, <3>7
    <2>7. CpuShape'
        BY <1>1, <1>7, <2>2, <2>3 DEF CpuShape
    <2>8. ASSUME NEW x \in CpuCallers PROVE CallPlace(x)'
        <3>1. CASE x = c
            BY <1>1, <1>3, <1>9, <1>10, <2>2, <3>1 DEF CallPlace
        <3>2. CASE x # c
            <4>1. \A i \in 1..asked[x].items : item[<<x, i>>] = "none" => item'[<<x, i>>] = "none"
                BY <1>2, <1>4, <2>3, <3>2, SlotsOfCall
            <4> QED BY <1>1, <1>8, <2>2, <3>2, <4>1, PlaceStays DEF CpuInv
        <3> QED BY <3>1, <3>2
    <2>9. ASSUME NEW x \in Slots PROVE ItemTrue(x)'
        <3>1. CASE x = s
            <4>1. cpuRow'[s] = "timeout"
                BY <1>7, <1>11
            <4> QED BY <1>1, <1>5, <1>11, <2>2, <2>3, <3>1, <4>1 DEF ItemTrue
        <3>2. CASE x # s
            BY <1>1, <1>7, <2>2, <2>3, <3>2, ItemStays DEF CpuInv
        <3> QED BY <3>1, <3>2
    <2> QED BY <2>6, <2>7, <2>8, <2>9 DEF CpuInv
<1>12. CASE ~(cpuRow[s] = "none" /\ item[s] = "queued")
    <2>1. item' = item /\ CallGoes(c, "sweep", k + 1)
        BY <1>1, <1>4, <1>12
    <2>2. /\ call' \in [CpuCallers -> CallRecords] /\ call'[c].step = "sweep" /\ call'[c].at = k + 1 /\ call'[c].late
          /\ \A x \in CpuCallers \ {c} : call'[x] = call[x]
          /\ \A x \in CpuCallers : call[x].late => call'[x].late
        <3> DEFINE m == k + 1
        <3>1. "sweep" \in CallSteps /\ m \in Nat /\ CallGoes(c, "sweep", m)
            BY <1>3, <2>1 DEF CallSteps
        <3> HIDE DEF m
        <3>2. call'[c] = [step |-> "sweep", at |-> m, late |-> call[c].late]
            BY <1>1, <3>1, CallGoesTo
        <3>3. /\ call' \in [CpuCallers -> CallRecords]
              /\ \A x \in CpuCallers \ {c} : call'[x] = call[x]
              /\ \A x \in CpuCallers : call[x].late => call'[x].late
            BY <1>1, <3>1, CallGoesTo
        <3> QED BY <1>6, <3>2, <3>3 DEF m
    <2>3. (counted = CountsOf(asked, call, item, told))'
        BY <1>1, <2>1, <2>2, CountsStay
    <2>4. CpuShape'
        BY <1>1, <1>7, <2>1, <2>2 DEF CpuShape
    <2>5. ASSUME NEW x \in CpuCallers PROVE CallPlace(x)'
        <3>1. CASE x = c
            BY <1>1, <1>3, <1>9, <1>10, <2>2, <3>1 DEF CallPlace
        <3>2. CASE x # c
            BY <1>1, <1>8, <2>1, <2>2, <3>2, PlaceStays DEF CpuInv
        <3> QED BY <3>1, <3>2
    <2>6. ASSUME NEW x \in Slots PROVE ItemTrue(x)'
        <3>1. CASE x = s
            BY <1>1, <1>5, <1>6, <1>7, <2>1, <2>2, <3>1 DEF ItemTrue
        <3>2. CASE x # s
            BY <1>1, <1>7, <2>1, <2>2, <3>2, ItemStays DEF CpuInv
        <3> QED BY <3>1, <3>2
    <2> QED BY <2>3, <2>4, <2>5, <2>6 DEF CpuInv
<1> QED BY <1>11, <1>12

LEMMA CpuInvStep == CpuInv /\ [CpuNext]_cpuVars => CpuInv'
<1> SUFFICES ASSUME CpuInv, [CpuNext]_cpuVars PROVE CpuInv'
    OBVIOUS
<1>1. CASE CpuTake
    BY <1>1, CpuTakeStep
<1>2. ASSUME NEW s \in Slots, ThreadStep(s) PROVE CpuInv'
    BY <1>2, CpuAcquireStep, CpuBeginStep, CpuServeStep, CpuFinishStep DEF ThreadStep
<1>3. ASSUME NEW c \in CpuCallers, CallStep(c) PROVE CpuInv'
    BY <1>3, CpuRefuseStep, CpuAdmitStep, CpuSubmitStep, CpuCollectedStep, CpuCollectStep, CpuSweepStep,
       CpuUncountStep, CpuSweptStep, CpuSettleStep DEF CallStep
<1>4. ASSUME NEW c \in CpuCallers, CpuTimeout(c) PROVE CpuInv'
    BY <1>4, CpuTimeoutStep
<1>5. CASE UNCHANGED cpuVars
    BY <1>5 DEF cpuVars, CpuInv, CpuShape, CallPlace, ItemTrue, CountsOf
<1> QED BY <1>1, <1>2, <1>3, <1>4, <1>5 DEF CpuNext

Unsubmitted ==
    LET unsubmitted(c) == IF CallAt(c, "submit") THEN asked[c].items - call[c].at + 1 ELSE 0
    IN  MapThenSumSet(unsubmitted, CpuCallers)

LEMMA UnsubmittedIsLeft ==
    ASSUME asked \in CpuMixes, LeftKnown(asked, call)
    PROVE  Unsubmitted = LeftToSubmit(asked, call)
<1> DEFINE f == [c \in CpuCallers |-> LeftOf(asked, call, c)]
           Sums(iter) == iter = [s \in SUBSET CpuCallers |->
                                   IF s = {} THEN 0
                                   ELSE (IF CallAt(CHOOSE x \in s : TRUE, "submit")
                                         THEN asked[CHOOSE x \in s : TRUE].items - call[CHOOSE x \in s : TRUE].at + 1
                                         ELSE 0) + iter[s \ {CHOOSE x \in s : TRUE}]]
           g == CHOOSE iter : Sums(iter)
<1>1. Unsubmitted = g[CpuCallers]
    BY DEF Unsubmitted, MapThenSumSet, MapThenFoldSet
<1>2. \A h : SumsUp(h, f, CpuCallers) <=> Sums(h)
    <2>1. \A s \in SUBSET CpuCallers : s # {} => (CHOOSE x \in s : TRUE) \in CpuCallers
        OBVIOUS
    <2>2. \A x \in CpuCallers : f[x] = IF CallAt(x, "submit") THEN asked[x].items - call[x].at + 1 ELSE 0
        BY DEF LeftOf, CallAt
    <2> HIDE DEF f
    <2>3. ASSUME NEW h
          PROVE [s \in SUBSET CpuCallers |-> IF s = {} THEN 0 ELSE f[CHOOSE x \in s : TRUE] + h[s \ {CHOOSE x \in s : TRUE}]]
                = [s \in SUBSET CpuCallers |->
                                   IF s = {} THEN 0
                                   ELSE (IF CallAt(CHOOSE x \in s : TRUE, "submit")
                                         THEN asked[CHOOSE x \in s : TRUE].items - call[CHOOSE x \in s : TRUE].at + 1
                                         ELSE 0) + h[s \ {CHOOSE x \in s : TRUE}]]
        <3>1. ASSUME NEW s \in SUBSET CpuCallers, s # {}
              PROVE  f[CHOOSE x \in s : TRUE] = IF CallAt(CHOOSE x \in s : TRUE, "submit")
                                         THEN asked[CHOOSE x \in s : TRUE].items - call[CHOOSE x \in s : TRUE].at + 1
                                         ELSE 0
            <4> DEFINE y == CHOOSE x \in s : TRUE
            <4>1. y \in CpuCallers
                BY <2>1, <3>1
            <4> HIDE DEF y
            <4>2. f[y] = IF CallAt(y, "submit") THEN asked[y].items - call[y].at + 1 ELSE 0
                BY <2>2, <4>1
            <4> QED BY <4>2 DEF y
        <3> QED BY <3>1
    <2> QED BY <2>3 DEF SumsUp, Pick
<1>3. IsFiniteSet(CpuCallers) /\ \A c \in CpuCallers : f[c] \in Nat
    BY CpuAssumption, LeftType
<1>4. LeftToSubmit(asked, call) = SumOver(f, CpuCallers)
    BY DEF LeftToSubmit
<1> HIDE DEF Sums, f
<1>5. PICK h : SumsUp(h, f, CpuCallers)
    BY <1>3, SumsUpExists
<1>6. SumsUp(g, f, CpuCallers)
    BY <1>2, <1>5
<1> HIDE DEF g
<1> QED BY <1>1, <1>3, <1>4, <1>6, SumOverType

LEMMA CpuInvTells == ASSUME CpuInv PROVE CpuCountsExact /\ CpuClaimsTrue
<1>1. CpuShape /\ asked \in CpuMixes
    BY DEF CpuInv, CpuShape
<1>2. ASSUME NEW c \in CpuCallers, NEW s \in ItemsOf(c)
      PROVE  /\ claim[s] = "completed" => item[s] = "done" /\ told[s] = "ok"
             /\ item[s] = "cancelled" => told[s] = "none" /\ cpuRow[s] = "timeout"
             /\ CallAt(c, "settled") => /\ claim[s] # "claimed" /\ cpuRow[s] # "none"
                                        /\ ~call[c].late => cpuRow[s] \in {told[s], "refused"}
    <2>1. PICK i \in 1..asked[c].items : s = <<c, i>>
        BY DEF ItemsOf
    <2>2. s \in Slots /\ s[1] = c
        BY <1>1, <2>1, SlotsOfCall
    <2>3. ItemTrue(s) /\ CallPlace(c) /\ cpuRow[s] \in {"none", "ok", "failed", "timeout", "refused"}
        BY <1>1, <2>2 DEF CpuInv, CpuShape
    <2>4. /\ claim[s] = "completed" => item[s] = "done" /\ told[s] = "ok"
          /\ item[s] = "cancelled" => cpuRow[s] = "timeout"
          /\ cpuRow[s] \in {"ok", "failed"} => cpuRow[s] = told[s]
          /\ cpuRow[s] = "timeout" => call[c].late
        BY <2>2, <2>3 DEF ItemTrue
    <2>5. item[s] = "cancelled" => told[s] = "none"
        BY <2>3 DEF ItemTrue
    <2>6. CallAt(c, "settled") => claim[s] # "claimed" /\ cpuRow[s] # "none"
        BY <2>1, <2>3 DEF CallPlace, CallAt
    <2> QED BY <2>3, <2>4, <2>5, <2>6
<1>3. CpuClaimsTrue
    BY <1>2 DEF CpuClaimsTrue
<1>4. /\ counted.pending = PendingAt(item) + CalledOff(call) + LeftToSubmit(asked, call)
      /\ counted.active = ActiveAt(item) /\ counted.completed = DoneAt(item) /\ counted.failed = FailedAt(item, told)
    BY CpuKnown
<1>5. \A P : ItemsIn(P) = ItemsAt(item, P)
    BY DEF ItemsIn, ItemsAt
<1>6. Unsubmitted = LeftToSubmit(asked, call)
    BY <1>1, UnsubmittedIsLeft, CpuKnown
<1>7. CpuCountsExact
    <2>1. counted.pending = Cardinality(ItemsIn({"queued", "waiting", "acquired"}))
                              + Cardinality({c \in CpuCallers : CallAt(c, "uncount")}) + Unsubmitted
        BY <1>4, <1>5, <1>6 DEF PendingAt, CalledOff, CallAt
    <2>2. /\ counted.active = Cardinality(ItemsIn({"running", "released"})) /\ counted.completed = Cardinality(ItemsIn({"done"}))
          /\ counted.failed = Cardinality({s \in ItemsIn({"done"}) : told[s] = "failed"})
        BY <1>4, <1>5 DEF ActiveAt, DoneAt, FailedAt
    <2> QED BY <2>1, <2>2 DEF CpuCountsExact, Unsubmitted
<1> QED BY <1>3, <1>7

-----------------------------------------------------------------------------
(* The callers together: only the part in focus moves.                      *)
AnswerInv ==
    /\ focus = "circuit" => CircuitInv
    /\ focus = "cohort" => CohortInv
    /\ focus = "batch" => BatchInv
    /\ focus = "cpu" => CpuInv

LEMMA AnswerInvInit == ProgressInit => AnswerInv
<1> SUFFICES ASSUME ProgressInit PROVE AnswerInv
    OBVIOUS
<1>1. CASE focus = "circuit"
    BY <1>1, CircuitInitInv DEF ProgressInit, AnswerInv
<1>2. CASE focus = "cohort"
    <2>1. PICK c \in Cohorts : CohortStart(c)
        BY <1>2 DEF ProgressInit, CohortInit
    <2> QED BY <1>2, <2>1, CohortStartInv DEF AnswerInv
<1>3. CASE focus = "batch"
    BY <1>3, BatchStartInv DEF ProgressInit, AnswerInv
<1>4. CASE focus = "cpu"
    BY <1>4, CpuStartInv DEF ProgressInit, AnswerInv
<1> QED BY <1>1, <1>2, <1>3, <1>4 DEF AnswerInv

LEMMA AnswerInvStep ==
    ASSUME AnswerInv, [ProgressNext]_<<focus, pressureParts, copyParts, outerParts>>
    PROVE  AnswerInv'
<1>1. UNCHANGED focus
    BY DEF ProgressNext
<1>2. focus = "circuit" => [CircuitNext]_circuitVars
    BY DEF ProgressNext, PressureNext, CopyNext, OuterNext, pressureParts
<1>3. focus = "cohort" => [CohortNext]_cohortVars
    BY DEF ProgressNext, PressureNext, CopyNext, OuterNext, outerParts
<1>4. focus = "batch" => [BatchNext]_batchVars
    BY DEF ProgressNext, PressureNext, CopyNext, OuterNext, outerParts
<1>5. focus = "cpu" => [CpuNext]_cpuVars
    BY DEF ProgressNext, PressureNext, CopyNext, OuterNext, outerParts
<1>6. focus = "circuit" => CircuitInv'
    BY <1>2, CircuitInvStep DEF AnswerInv
<1>7. focus = "cohort" => CohortInv'
    BY <1>3, CohortInvStep DEF AnswerInv
<1>8. focus = "batch" => BatchInv'
    BY <1>4, BatchInvStep DEF AnswerInv
<1>9. focus = "cpu" => CpuInv'
    BY <1>5, CpuInvStep DEF AnswerInv
<1> QED BY <1>1, <1>6, <1>7, <1>8, <1>9 DEF AnswerInv

(* Every member of a cohort has one result when the run returns and no      *)
(* chunk passes the limits of its profile, every row of a batch client is   *)
(* answered once with its own end, a KV load goes out only when its data    *)
(* was staged, and the CPU service counts and tells its items as they ran   *)
(* (runners.py, ds4_eval_api_runner.py, ds4_api_queue_benchmark.py,         *)
(* jit_kv.py, cpu_batch.py).                                                *)
THEOREM ProgressEveryoneAnswered == ProgressSpec => []EveryoneAnswered
<1>1. ProgressInit => AnswerInv
    BY AnswerInvInit
<1>2. AnswerInv /\ [ProgressNext]_<<focus, pressureParts, copyParts, outerParts>> => AnswerInv'
    BY AnswerInvStep
<1>3. AnswerInv => EveryoneAnswered
    BY CohortInvTells, BatchInvTells, CpuInvTells DEF AnswerInv, EveryoneAnswered, CircuitInv
<1> QED BY <1>1, <1>2, <1>3, PTL DEF ProgressSpec

(* A result given to a member of a cohort is final: no later chunk, half or *)
(* cancellation gives it another (on_result, runners.py).                   *)
THEOREM ProgressResultFinal == ProgressSpec => ResultFinal
<1> DEFINE Stays == [\A m \in Members : calls[m] = 1 => calls'[m] = 1 /\ answer'[m] = answer[m]]_cohortVars
<1>1. ProgressInit => AnswerInv
    BY AnswerInvInit
<1>2. AnswerInv /\ [ProgressNext]_<<focus, pressureParts, copyParts, outerParts>> => AnswerInv'
    BY AnswerInvStep
<1>3. ASSUME AnswerInv, [ProgressNext]_<<focus, pressureParts, copyParts, outerParts>> PROVE Stays
    <2>1. CASE focus = "cohort"
        <3>1. [CohortNext]_cohortVars /\ CohortInv
            BY <1>3, <2>1 DEF ProgressNext, PressureNext, CopyNext, OuterNext, outerParts, AnswerInv
        <3>2. ResultsStay
            BY <3>1, CohortInvStep
        <3> QED BY <3>2 DEF ResultsStay
    <2>2. CASE focus # "cohort"
        <3>1. UNCHANGED cohortVars
            BY <1>3, <2>2 DEF ProgressNext, PressureNext, CopyNext, OuterNext, outerParts
        <3> QED BY <3>1
    <2> QED BY <2>1, <2>2
<1> QED BY <1>1, <1>2, <1>3, PTL DEF ProgressSpec, ResultFinal
=============================================================================
