----------------------------- MODULE SumLemmas -----------------------------
(***************************************************************************)
(* Sums over finite sets, as MapThenSumSet computes them: in the order in  *)
(* which CHOOSE takes elements.  The lemmas say that the order does not    *)
(* matter.  Induction is over the subsets of a finite set, by a smallest   *)
(* one for which the statement fails.                                      *)
(***************************************************************************)
EXTENDS Integers, FiniteSetTheorems, WellFoundedInduction, TLAPS

Pick(s) == CHOOSE x \in s : TRUE

(* g gives the sum of f over each subset of S. *)
SumsUp(g, f, S) == g = [s \in SUBSET S |-> IF s = {} THEN 0 ELSE f[Pick(s)] + g[s \ {Pick(s)}]]

SumOver(f, S) == (CHOOSE g : SumsUp(g, f, S))[S]

LEMMA PickIn == ASSUME NEW s, s # {} PROVE Pick(s) \in s
BY DEF Pick

(* A set T of subsets of a finite S that contains each subset whose proper  *)
(* subsets it contains is the set of all of them.                           *)
LEMMA SubsetInduction ==
    ASSUME NEW S, IsFiniteSet(S), NEW T,
           \A U \in SUBSET S : (\A V \in SUBSET U : V # U => V \in T) => U \in T
    PROVE  SUBSET S \subseteq T
<1> DEFINE Bad == (SUBSET S) \ T
<1> SUFFICES ASSUME Bad # {} PROVE FALSE
    OBVIOUS
<1>1. IsWellFoundedOn(StrictSubsetOrdering(S), SUBSET S)
    <2>1. FiniteSubsetsOf(S) = SUBSET S
        BY FS_FiniteSubsetsOfFinite
    <2>2. IsWellFoundedOn(StrictSubsetOrdering(S), FiniteSubsetsOf(S))
        BY FS_StrictSubsetOrderingWellFounded
    <2> QED BY <2>1, <2>2
<1>2. PICK U \in Bad : \A V \in Bad : <<V, U>> \notin StrictSubsetOrdering(S)
    <2>1. Bad \subseteq SUBSET S
        OBVIOUS
    <2> HIDE DEF Bad
    <2> QED BY <1>1, <2>1, WFMin
<1>3. \A V \in SUBSET U : V # U => V \in T
    BY <1>2 DEF StrictSubsetOrdering
<1> QED BY <1>2, <1>3

LEMMA SumsUpAt ==
    ASSUME NEW S, NEW f, NEW g, SumsUp(g, f, S), NEW s \in SUBSET S
    PROVE  g[s] = IF s = {} THEN 0 ELSE f[Pick(s)] + g[s \ {Pick(s)}]
BY DEF SumsUp

(* Two such functions agree where both are defined. *)
LEMMA SumsUpUnique ==
    ASSUME NEW S, IsFiniteSet(S), NEW R, NEW f, NEW e, NEW g, NEW h, SumsUp(g, f, S), SumsUp(h, e, R),
           \A x \in S \cap R : f[x] = e[x]
    PROVE  \A U \in SUBSET (S \cap R) : g[U] = h[U]
<1> DEFINE T == {U \in SUBSET (S \cap R) : g[U] = h[U]}
<1>1. IsFiniteSet(S \cap R)
    BY FS_Subset
<1>2. ASSUME NEW U \in SUBSET (S \cap R), \A V \in SUBSET U : V # U => V \in T
      PROVE  U \in T
    <2>1. CASE U = {}
        BY <2>1, SumsUpAt
    <2>2. CASE U # {}
        <3>1. Pick(U) \in U
            BY <2>2, PickIn
        <3>2. g[U \ {Pick(U)}] = h[U \ {Pick(U)}]
            BY <1>2, <3>1
        <3>3. g[U] = f[Pick(U)] + g[U \ {Pick(U)}]
            <4>1. U \in SUBSET S
                OBVIOUS
            <4> QED BY <2>2, <4>1 DEF SumsUp
        <3>4. h[U] = e[Pick(U)] + h[U \ {Pick(U)}]
            <4>1. U \in SUBSET R
                OBVIOUS
            <4> QED BY <2>2, <4>1 DEF SumsUp
        <3> QED BY <3>1, <3>2, <3>3, <3>4
    <2> QED BY <2>1, <2>2
<1>3. \A U \in SUBSET (S \cap R) : (\A V \in SUBSET U : V # U => V \in T) => U \in T
    BY <1>2
<1>4. SUBSET (S \cap R) \subseteq T
    <2> DEFINE Common == S \cap R
    <2> HIDE DEF T, Common
    <2>1. SUBSET Common \subseteq T
        <3> USE DEF Common
        <3>1. IsFiniteSet(Common) /\ \A U \in SUBSET Common : (\A V \in SUBSET U : V # U => V \in T) => U \in T
            BY <1>1, <1>3
        <3> HIDE DEF Common
        <3> QED BY <3>1, SubsetInduction
    <2> QED BY <2>1 DEF Common
<1> QED BY <1>4

(* There is one. *)
LEMMA SumsUpExists ==
    ASSUME NEW S, IsFiniteSet(S), NEW f, \A x \in S : f[x] \in Nat
    PROVE  \E g \in [SUBSET S -> Nat] : SumsUp(g, f, S)
<1> DEFINE T == {U \in SUBSET S : \E g \in [SUBSET U -> Nat] : SumsUp(g, f, U)}
<1>1. ASSUME NEW U \in SUBSET S, \A V \in SUBSET U : V # U => V \in T
      PROVE  U \in T
    <2>1. CASE U = {}
        <3> DEFINE g == [s \in SUBSET U |-> 0]
        <3>1. g \in [SUBSET U -> Nat] /\ SumsUp(g, f, U)
            BY <2>1 DEF SumsUp
        <3> HIDE DEF g
        <3> QED BY <3>1
    <2>2. CASE U # {}
        <3> DEFINE h(V) == CHOOSE g \in [SUBSET V -> Nat] : SumsUp(g, f, V)
                   a == Pick(U)
        <3>1. a \in U /\ a \in S
            BY <2>2, PickIn
        <3>2. ASSUME NEW V \in SUBSET U, V # U
              PROVE  h(V) \in [SUBSET V -> Nat] /\ SumsUp(h(V), f, V)
            <4>1. \E g \in [SUBSET V -> Nat] : SumsUp(g, f, V)
                BY <1>1, <3>2
            <4> QED BY <4>1
        <3> DEFINE g == [s \in SUBSET U |-> IF s = U THEN f[a] + h(U \ {a})[U \ {a}] ELSE h(s)[s]]
        <3> HIDE DEF h
        <3>3. g \in [SUBSET U -> Nat]
            <4>1. f[a] \in Nat /\ h(U \ {a})[U \ {a}] \in Nat
                <5>1. U \ {a} \in SUBSET U /\ U \ {a} # U
                    BY <3>1
                <5>2. h(U \ {a}) \in [SUBSET (U \ {a}) -> Nat]
                    BY <3>2, <5>1
                <5>3. U \ {a} \in SUBSET (U \ {a})
                    OBVIOUS
                <5> HIDE DEF a
                <5> QED BY <3>1, <5>2, <5>3
            <4>2. \A s \in SUBSET U : s # U => h(s)[s] \in Nat
                BY <3>2
            <4> QED BY <4>1, <4>2
        <3>4. ASSUME NEW s \in SUBSET U
              PROVE  g[s] = IF s = {} THEN 0 ELSE f[Pick(s)] + g[s \ {Pick(s)}]
            <4>1. CASE s = U
                BY <2>2, <3>1, <4>1
            <4>2. CASE s # U
                <5>1. g[s] = h(s)[s] /\ SumsUp(h(s), f, s)
                    BY <3>2, <4>2
                <5>2. CASE s = {}
                    BY <5>1, <5>2, SumsUpAt
                <5>3. CASE s # {}
                    <6> DEFINE p == s \ {Pick(s)}
                    <6>1. Pick(s) \in s /\ p \in SUBSET U /\ p # U /\ p \in SUBSET s
                        BY <5>3, PickIn
                    <6>2. g[p] = h(p)[p] /\ SumsUp(h(p), f, p)
                        BY <3>2, <6>1
                    <6>3. IsFiniteSet(s)
                        BY FS_Subset
                    <6>4. h(s)[p] = h(p)[p]
                        <7> HIDE DEF p
                        <7>1. p \in SUBSET (s \cap p)
                            BY <6>1
                        <7> QED BY <5>1, <6>2, <6>3, <7>1, SumsUpUnique
                    <6>5. h(s)[s] = f[Pick(s)] + h(s)[p]
                        BY <5>1, <5>3, SumsUpAt
                    <6> QED BY <5>1, <5>3, <6>2, <6>4, <6>5
                <5> QED BY <5>2, <5>3
            <4> QED BY <4>1, <4>2
        <3>5. SumsUp(g, f, U)
            <4> HIDE DEF g
            <4>1. g = [s \in SUBSET U |-> g[s]]
                BY <3>3
            <4> QED BY <3>4, <4>1 DEF SumsUp
        <3> HIDE DEF g
        <3> QED BY <3>3, <3>5
    <2> QED BY <2>1, <2>2
<1> HIDE DEF T
<1>2. SUBSET S \subseteq T
    BY <1>1, SubsetInduction
<1> QED BY <1>2 DEF T

(* So a sum is that of any of them, and a number. *)
LEMMA SumOverType ==
    ASSUME NEW S, IsFiniteSet(S), NEW f, \A x \in S : f[x] \in Nat
    PROVE  /\ SumOver(f, S) \in Nat
           /\ \A g, R : SumsUp(g, f, R) /\ S \subseteq R => g[S] = SumOver(f, S)
<1> DEFINE k == CHOOSE g : SumsUp(g, f, S)
<1>1. PICK g \in [SUBSET S -> Nat] : SumsUp(g, f, S)
    BY SumsUpExists
<1>2. SumsUp(k, f, S)
    BY <1>1
<1>3. SumOver(f, S) = k[S]
    BY DEF SumOver
<1> HIDE DEF k
<1>4. ASSUME NEW h, NEW R, SumsUp(h, f, R), S \subseteq R PROVE h[S] = k[S]
    <2>1. S \in SUBSET (S \cap R)
        BY <1>4
    <2> QED BY <1>2, <1>4, <2>1, SumsUpUnique
<1>5. g[S] = k[S]
    BY <1>1, <1>4
<1> QED BY <1>1, <1>3, <1>4, <1>5

LEMMA SumOverEmpty == ASSUME NEW f PROVE SumOver(f, {}) = 0
<1>1. IsFiniteSet({})
    BY FS_EmptySet
<1>2. PICK g : SumsUp(g, f, {})
    BY <1>1, SumsUpExists
<1>3. g[{}] = 0
    BY <1>2 DEF SumsUp
<1>4. g[{}] = SumOver(f, {})
    BY <1>1, <1>2, SumOverType
<1> QED BY <1>3, <1>4

(* Any element may be added last. *)
LEMMA SumOverAdd ==
    ASSUME NEW S, IsFiniteSet(S), NEW f, \A x \in S : f[x] \in Nat, NEW x \in S
    PROVE  SumOver(f, S) = f[x] + SumOver(f, S \ {x})
<1>1. PICK g \in [SUBSET S -> Nat] : SumsUp(g, f, S)
    BY SumsUpExists
<1> DEFINE T == {U \in SUBSET S : \A y \in U : g[U] = f[y] + g[U \ {y}]}
<1>2. ASSUME NEW U \in SUBSET S, \A V \in SUBSET U : V # U => V \in T
      PROVE  U \in T
    <2> SUFFICES ASSUME NEW y \in U PROVE g[U] = f[y] + g[U \ {y}]
        OBVIOUS
    <2> DEFINE a == Pick(U)
    <2>1. a \in U /\ g[U] = f[a] + g[U \ {a}]
        BY <1>1, PickIn DEF SumsUp
    <2>2. CASE y = a
        BY <2>1, <2>2
    <2>3. CASE y # a
        <3> HIDE DEF a
        <3>1. g[U \ {a}] = f[y] + g[(U \ {a}) \ {y}]
            BY <1>2, <2>1, <2>3
        <3>2. g[U \ {y}] = f[a] + g[(U \ {y}) \ {a}]
            BY <1>2, <2>1, <2>3
        <3>3. (U \ {a}) \ {y} = (U \ {y}) \ {a}
            OBVIOUS
        <3>4. f[a] \in Nat /\ f[y] \in Nat /\ g[(U \ {y}) \ {a}] \in Nat
            BY <2>1
        <3> DEFINE rest == g[(U \ {y}) \ {a}]
        <3>5. g[U \ {a}] = f[y] + rest /\ g[U \ {y}] = f[a] + rest
            BY <3>1, <3>2, <3>3
        <3> HIDE DEF rest
        <3>6. g[U] = f[a] + (f[y] + rest) /\ f[y] + g[U \ {y}] = f[y] + (f[a] + rest)
            BY <2>1, <3>5
        <3>7. rest \in Nat
            BY <3>4 DEF rest
        <3> QED BY <3>4, <3>6, <3>7
    <2> QED BY <2>2, <2>3
<1>3. \A U \in SUBSET S : (\A V \in SUBSET U : V # U => V \in T) => U \in T
    BY <1>2
<1>4. SUBSET S \subseteq T
    <2> HIDE DEF T
    <2> QED BY <1>3, SubsetInduction
<1>5. g[S] = f[x] + g[S \ {x}]
    BY <1>4
<1>6. g[S] = SumOver(f, S)
    BY <1>1, SumOverType
<1>7. g[S \ {x}] = SumOver(f, S \ {x})
    <2>1. IsFiniteSet(S \ {x}) /\ S \ {x} \subseteq S /\ \A y \in S \ {x} : f[y] \in Nat
        BY FS_Subset
    <2> QED BY <1>1, <2>1, SumOverType
<1> QED BY <1>5, <1>6, <1>7

(* A part of a set, with no larger values, has no larger sum. *)
LEMMA SumOverMonotone ==
    ASSUME NEW R, IsFiniteSet(R), NEW S \in SUBSET R, NEW f, NEW e,
           \A x \in R : e[x] \in Nat, \A x \in S : f[x] \in Nat /\ f[x] <= e[x]
    PROVE  SumOver(f, S) <= SumOver(e, R)
<1> DEFINE T == {U \in SUBSET R : SumOver(f, U \cap S) <= SumOver(e, U)}
<1>1. ASSUME NEW U \in SUBSET R, \A V \in SUBSET U : V # U => V \in T
      PROVE  U \in T
    <2>1. CASE U = {}
        <3>1. U \cap S = {}
            BY <2>1
        <3> QED BY <2>1, <3>1, SumOverEmpty
    <2>2. CASE U # {}
        <3>1. PICK a : a \in U
            BY <2>2
        <3> DEFINE V == U \ {a}
        <3>2. SumOver(f, V \cap S) <= SumOver(e, V)
            BY <1>1, <3>1
        <3>3. IsFiniteSet(U) /\ IsFiniteSet(V) /\ IsFiniteSet(U \cap S) /\ IsFiniteSet(V \cap S)
            BY FS_Subset
        <3>4. SumOver(e, U) = e[a] + SumOver(e, V) /\ e[a] \in Nat
            BY <3>1, <3>3, SumOverAdd
        <3>5. SumOver(e, V) \in Nat /\ SumOver(f, V \cap S) \in Nat
            BY <3>3, SumOverType
        <3> HIDE DEF V
        <3>6. CASE a \in S
            <4>1. (U \cap S) \ {a} = V \cap S
                BY DEF V
            <4>2. SumOver(f, U \cap S) = f[a] + SumOver(f, (U \cap S) \ {a})
                BY <3>1, <3>3, <3>6, SumOverAdd
            <4>3. f[a] \in Nat /\ f[a] <= e[a]
                BY <3>6
            <4>4. \A i, j, k, l \in Nat : i <= j /\ k <= l => i + k <= j + l
                OBVIOUS
            <4>5. f[a] + SumOver(f, V \cap S) <= e[a] + SumOver(e, V)
                BY <3>2, <3>4, <3>5, <4>3, <4>4
            <4> QED BY <3>4, <4>1, <4>2, <4>5, Zenon
        <3>7. CASE a \notin S
            <4>1. U \cap S = V \cap S
                BY <3>7 DEF V
            <4>2. SumOver(f, U \cap S) = SumOver(f, V \cap S)
                BY <4>1, Zenon
            <4>3. SumOver(f, U \cap S) <= SumOver(e, U)
                <5>1. \A m, n \in Nat, k \in Nat : m <= n => m <= k + n
                    OBVIOUS
                <5>2. SumOver(f, V \cap S) <= e[a] + SumOver(e, V)
                    BY <3>2, <3>4, <3>5, <5>1
                <5> QED BY <3>4, <4>2, <5>2, Zenon
            <4> QED BY <4>3
        <3> QED BY <3>6, <3>7
    <2> QED BY <2>1, <2>2
<1>2. \A U \in SUBSET R : (\A V \in SUBSET U : V # U => V \in T) => U \in T
    BY <1>1
<1>3. SUBSET R \subseteq T
    <2> HIDE DEF T
    <2> QED BY <1>2, SubsetInduction
<1>4. R \cap S = S
    OBVIOUS
<1> QED BY <1>3, <1>4

(* A set that holds 0 and with a number its successor holds them all.       *)
LEMMA NaturalsReached ==
    ASSUME NEW T, 0 \in T, \A n \in Nat : n \in T => n + 1 \in T
    PROVE  Nat \subseteq T
<1> SUFFICES ASSUME NEW n \in Nat PROVE n \in T
    OBVIOUS
<1> DEFINE S == 0..n
           Bad == {0..k : k \in S \ T}
           Good == (SUBSET S) \ Bad
<1>1. ASSUME NEW U \in SUBSET S, \A V \in SUBSET U : V # U => V \in Good
      PROVE  U \in Good
    <2> SUFFICES ASSUME U \in Bad PROVE FALSE
        OBVIOUS
    <2>1. PICK k \in S : k \notin T /\ U = 0..k
        OBVIOUS
    <2>2. k # 0
        BY <2>1
    <2>3. k - 1 \in S /\ k - 1 \in Nat /\ k - 1 + 1 = k
        BY <2>1, <2>2
    <2>4. k - 1 \notin T
        BY <2>1, <2>3
    <2>5. 0..k - 1 \in Bad
        BY <2>3, <2>4
    <2>6. 0..k - 1 \in SUBSET U /\ 0..k - 1 # U
        <3>1. k \in U /\ k \notin 0..k - 1
            BY <2>1
        <3>2. \A j \in 0..k - 1 : j \in 0..k
            BY <2>1
        <3> QED BY <2>1, <3>1, <3>2
    <2>7. 0..k - 1 \in Good
        BY <1>1, <2>6
    <2> QED BY <2>5, <2>7
<1>2. \A U \in SUBSET S : (\A V \in SUBSET U : V # U => V \in Good) => U \in Good
    BY <1>1
<1>3. SUBSET S \subseteq Good
    <2>1. IsFiniteSet(S)
        BY FS_Interval
    <2> HIDE DEF Good, S
    <2> QED BY <1>2, <2>1, SubsetInduction
<1>4. 0..n \notin Bad
    <2>1. 0..n \in SUBSET S
        OBVIOUS
    <2>2. 0..n \in Good
        BY <1>3, <2>1
    <2> QED BY <2>2
<1> QED BY <1>4

(* A set of naturals that is not empty has a least member. *)
LEMMA LeastMember ==
    ASSUME NEW S \in SUBSET Nat, S # {}
    PROVE  \E m \in S : \A k \in S : m <= k
<1> SUFFICES ASSUME \A m \in S : \E k \in S : k < m PROVE FALSE
    OBVIOUS
<1> DEFINE T == {n \in Nat : \A k \in S : n < k}
<1>1. 0 \in T
    <2> SUFFICES ASSUME NEW k \in S PROVE 0 < k
        OBVIOUS
    <2>1. PICK j \in S : j < k
        OBVIOUS
    <2> QED BY <2>1
<1>2. ASSUME NEW n \in Nat, n \in T PROVE n + 1 \in T
    <2> SUFFICES ASSUME NEW k \in S PROVE n + 1 < k
        OBVIOUS
    <2>1. PICK j \in S : j < k
        OBVIOUS
    <2>2. n < j /\ j \in Nat /\ k \in Nat
        BY <1>2
    <2> QED BY <2>1, <2>2
<1>3. Nat \subseteq T
    <2> HIDE DEF T
    <2> QED BY <1>1, <1>2, NaturalsReached
<1>4. PICK k \in S : TRUE
    OBVIOUS
<1>5. k \in T
    BY <1>3
<1> QED BY <1>5

(* A finite set of numbers that is not empty has a greatest member.         *)
LEMMA FiniteMax ==
    ASSUME NEW S \in SUBSET Nat, IsFiniteSet(S), S # {}
    PROVE  \E m \in S : \A k \in S : m >= k
<1> DEFINE T == {U \in SUBSET S : U = {} \/ \E m \in U : \A k \in U : m >= k}
<1>1. ASSUME NEW U \in SUBSET S, \A V \in SUBSET U : V # U => V \in T
      PROVE  U \in T
    <2> SUFFICES ASSUME NEW x \in U PROVE \E m \in U : \A k \in U : m >= k
        OBVIOUS
    <2>1. CASE U = {x}
        BY <2>1
    <2>2. CASE U # {x}
        <3>1. U \ {x} \in SUBSET U /\ U \ {x} # U /\ U \ {x} # {}
            BY <2>2
        <3>2. PICK m \in U \ {x} : \A k \in U \ {x} : m >= k
            BY <1>1, <3>1
        <3>3. m \in Nat /\ x \in Nat
            OBVIOUS
        <3>4. CASE m >= x
            BY <3>2, <3>4
        <3>5. CASE ~(m >= x)
            <4>1. \A k \in U : k \in Nat
                OBVIOUS
            <4> QED BY <3>2, <3>3, <3>5, <4>1
        <3> QED BY <3>4, <3>5
    <2> QED BY <2>1, <2>2
<1>2. SUBSET S \subseteq T
    <2>1. \A U \in SUBSET S : (\A V \in SUBSET U : V # U => V \in T) => U \in T
        BY <1>1
    <2> HIDE DEF T
    <2> QED BY <2>1, SubsetInduction
<1> QED BY <1>2
=============================================================================
