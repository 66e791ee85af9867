--------------------------- MODULE ProgressProofs ---------------------------
(***************************************************************************)
(* Proofs about the parts of the system of which liveness is asked too,    *)
(* each by itself: what it does does not depend on the others.             *)
(***************************************************************************)
EXTENDS MCProgress, SumLemmas, TLAPS

-----------------------------------------------------------------------------
(* A file in stripes.                                                       *)

LEMMA LesserOf ==
    ASSUME NEW a \in Int, NEW b \in Int
    PROVE  /\ Lesser(a, b) \in {a, b} /\ Lesser(a, b) \in Int
           /\ Lesser(a, b) <= a /\ Lesser(a, b) <= b
BY DEF Lesser

LEMMA StripeCountType ==
    ASSUME NEW sz \in Nat, NEW n \in Nat \ {0}
    PROVE  StripeCount(sz, n) \in Nat \ {0} /\ StripeCount(sz, n) <= n
BY DEF StripeCount, Lesser, Greater

(* The remainder of a division. *)
LEMMA Division ==
    ASSUME NEW a \in Nat, NEW m \in Nat \ {0}
    PROVE  /\ a \div m \in Nat /\ a % m \in Nat
           /\ a % m < m /\ a = m * (a \div m) + (a % m)
BY Z3

(* The stripes are cut one after the other, from the first byte to the      *)
(* last.                                                                    *)
LEMMA StripesInOrder ==
    ASSUME NEW sz \in Nat, NEW n \in Nat \ {0}
    PROVE  /\ StripeBegin(sz, n, 0) = 0
           /\ StripeBegin(sz, n, StripeCount(sz, n)) = sz
           /\ \A i \in Nat : StripeBegin(sz, n, i) \in Nat
           /\ \A i \in Nat : StripeBegin(sz, n, i) <= StripeEnd(sz, n, i)
<1> DEFINE m == StripeCount(sz, n)
           q == sz \div m
           r == sz % m
<1>1. m \in Nat \ {0}
    BY StripeCountType
<1>2. q \in Nat /\ r \in Nat /\ r < m /\ sz = m * q + r
    <2> HIDE DEF m
    <2> QED BY <1>1, Division
<1>3. \A i : StripeBegin(sz, n, i) = i * q + Lesser(i, r)
    BY DEF StripeBegin
<1>4. \A i \in Nat : i * q \in Nat /\ (i + 1) * q = i * q + q
    <2> HIDE DEF q
    <2> QED BY <1>2
<1> HIDE DEF m, q, r
<1>5. StripeBegin(sz, n, 0) = 0
    BY <1>2, <1>3 DEF Lesser
<1>6. StripeBegin(sz, n, m) = sz
    BY <1>1, <1>2, <1>3 DEF Lesser
<1>7. ASSUME NEW i \in Nat
      PROVE  StripeBegin(sz, n, i) \in Nat /\ StripeBegin(sz, n, i) <= StripeEnd(sz, n, i)
    <2>1. StripeBegin(sz, n, i) = i * q + Lesser(i, r) /\ StripeEnd(sz, n, i) = i * q + q + Lesser(i + 1, r)
        BY <1>3, <1>4 DEF StripeEnd
    <2>2. Lesser(i, r) \in Nat /\ Lesser(i + 1, r) \in Nat /\ Lesser(i, r) <= Lesser(i + 1, r)
        BY <1>2 DEF Lesser
    <2> DEFINE w == i * q
    <2>3. w \in Nat
        BY <1>4
    <2> HIDE DEF w
    <2>4. StripeBegin(sz, n, i) = w + Lesser(i, r) /\ StripeEnd(sz, n, i) = w + q + Lesser(i + 1, r)
        BY <2>1 DEF w
    <2> QED BY <1>2, <2>2, <2>3, <2>4
<1> QED BY <1>5, <1>6, <1>7 DEF m

(* So no stripe begins after one that follows it, and every byte is in one. *)
LEMMA StripesAscend ==
    ASSUME NEW sz \in Nat, NEW n \in Nat \ {0}, NEW i \in Nat, NEW j \in Nat, i <= j
    PROVE  StripeBegin(sz, n, i) <= StripeBegin(sz, n, j)
<1> DEFINE T == {k \in Nat : StripeBegin(sz, n, i) <= StripeBegin(sz, n, i + k)}
<1>1. 0 \in T
    BY StripesInOrder
<1>2. ASSUME NEW k \in Nat, k \in T PROVE k + 1 \in T
    <2>1. i + k \in Nat /\ i + k + 1 \in Nat /\ i + (k + 1) = i + k + 1
        OBVIOUS
    <2>2. StripeBegin(sz, n, i + k) <= StripeBegin(sz, n, i + k + 1)
        BY <2>1, StripesInOrder DEF StripeEnd
    <2>3. StripeBegin(sz, n, i) \in Nat /\ StripeBegin(sz, n, i + k) \in Nat /\ StripeBegin(sz, n, i + k + 1) \in Nat
        BY <2>1, StripesInOrder
    <2>4. StripeBegin(sz, n, i) <= StripeBegin(sz, n, i + k + 1)
        BY <1>2, <2>2, <2>3
    <2>5. StripeBegin(sz, n, i) <= StripeBegin(sz, n, i + (k + 1))
        BY <2>1, <2>4, Zenon
    <2>6. k + 1 \in Nat
        OBVIOUS
    <2> QED BY <2>5, <2>6, Zenon
<1>3. Nat \subseteq T
    <2> HIDE DEF T
    <2> QED BY <1>1, <1>2, NaturalsReached
<1>4. j - i \in Nat /\ i + (j - i) = j
    OBVIOUS
<1>5. j - i \in T
    BY <1>3, <1>4
<1> QED BY <1>4, <1>5

LEMMA StripesCover ==
    ASSUME NEW sz \in Nat, NEW n \in Nat \ {0}, NEW b \in Nat, b < sz
    PROVE  \E i \in 0..StripeCount(sz, n) - 1 : StripeBegin(sz, n, i) <= b /\ b < StripeEnd(sz, n, i)
<1> DEFINE m == StripeCount(sz, n)
           S == {i \in Nat : b < StripeBegin(sz, n, i)}
<1>1. m \in Nat /\ m \in S
    BY StripeCountType, StripesInOrder
<1>2. PICK k \in S : \A i \in S : k <= i
    <2>1. S \in SUBSET Nat /\ S # {}
        BY <1>1
    <2> HIDE DEF S
    <2> QED BY <2>1, LeastMember
<1>3. k # 0
    BY StripesInOrder
<1>4. k \in Nat /\ k <= m /\ k - 1 \in Nat /\ k - 1 \in 0..m - 1
    BY <1>1, <1>2, <1>3
<1>5. k - 1 \notin S
    BY <1>2, <1>4
<1>6. StripeBegin(sz, n, k - 1) \in Nat
    BY <1>4, StripesInOrder
<1>7. StripeBegin(sz, n, k - 1) <= b
    BY <1>4, <1>5, <1>6
<1>8. b < StripeEnd(sz, n, k - 1)
    <2>1. k - 1 + 1 = k
        BY <1>4
    <2> QED BY <1>2, <2>1 DEF StripeEnd
<1> QED BY <1>4, <1>7, <1>8

(* What is before the offset of a stripe has landed, and the stripe is      *)
(* complete at its end only.                                                *)
StripesHeld ==
    \A i \in Stripes :
        /\ receiver[i].at \in Nat
        /\ StripeBegin(size, stripes, i) <= receiver[i].at /\ receiver[i].at <= StripeEnd(size, stripes, i)
        /\ \A b \in Nat : StripeBegin(size, stripes, i) <= b /\ b < receiver[i].at => landed[b] = b
        /\ receiver[i].pc = "complete" => receiver[i].at = StripeEnd(size, stripes, i)
StripedInv == StripedTypeOK /\ StripesHeld /\ StripedWhole

LEMMA StripesInFile ==
    ASSUME StripedTypeOK, NEW i \in Stripes
    PROVE  /\ i \in Nat /\ i \in AllStripes /\ size \in Nat /\ stripes \in Nat \ {0}
           /\ StripeBegin(size, stripes, i) \in Nat /\ StripeEnd(size, stripes, i) \in Nat
           /\ StripeBegin(size, stripes, i) <= StripeEnd(size, stripes, i)
           /\ StripeEnd(size, stripes, i) <= size /\ size <= MaxSize /\ MaxSize \in Nat
           /\ receiver[i] \in [pc : {"listening", "receiving", "complete", "failed"}, at : 0..MaxSize]
<1>1. size \in Nat /\ stripes \in Nat \ {0} /\ size <= MaxSize /\ stripes <= MaxStripes
      /\ MaxSize \in Nat /\ MaxStripes \in Nat
    BY StripedAssumption DEF StripedTypeOK
<1>2. StripeCount(size, stripes) \in Nat /\ StripeCount(size, stripes) <= stripes
    BY <1>1, StripeCountType
<1>3. i \in Nat /\ i + 1 <= StripeCount(size, stripes) /\ i + 1 \in Nat /\ i \in AllStripes
    BY <1>1, <1>2 DEF Stripes, AllStripes
<1>4. StripeEnd(size, stripes, i) <= size
    <2>1. StripeBegin(size, stripes, i + 1) <= StripeBegin(size, stripes, StripeCount(size, stripes))
        BY <1>1, <1>2, <1>3, StripesAscend
    <2> QED BY <1>1, <2>1, StripesInOrder DEF StripeEnd
<1>5. StripeBegin(size, stripes, i) \in Nat /\ StripeEnd(size, stripes, i) \in Nat
      /\ StripeBegin(size, stripes, i) <= StripeEnd(size, stripes, i)
    BY <1>1, <1>3, StripesInOrder DEF StripeEnd
<1>6. receiver[i] \in [pc : {"listening", "receiving", "complete", "failed"}, at : 0..MaxSize]
    BY <1>3 DEF StripedTypeOK
<1> QED BY <1>1, <1>3, <1>4, <1>5, <1>6

LEMMA StripedInitInv == StripedInit => StripedInv
<1> SUFFICES ASSUME NEW sz \in 0..MaxSize, NEW n \in 1..MaxStripes, NEW d \in BOOLEAN, StripedStart(sz, n, d)
             PROVE  StripedInv
    BY DEF StripedInit
<1>1. MaxSize \in Nat /\ MaxStripes \in Nat \ {0} /\ sz \in Nat /\ n \in Nat \ {0} /\ sz <= MaxSize
    BY StripedAssumption
<1>2. ASSUME NEW i \in AllStripes
      PROVE  /\ StripeBegin(sz, n, i) \in Nat
             /\ Lesser(StripeBegin(sz, n, i), sz) \in 0..MaxSize
    <2>1. i \in Nat
        BY <1>1 DEF AllStripes
    <2>2. StripeBegin(sz, n, i) \in Nat
        BY <1>1, <2>1, StripesInOrder
    <2> QED BY <1>1, <2>2 DEF Lesser
<1>3. StripedTypeOK
    <2>1. \A i \in AllStripes :
              [pc |-> "listening", at |-> Lesser(StripeBegin(sz, n, i), sz)]
                  \in [pc : {"listening", "receiving", "complete", "failed"}, at : 0..MaxSize]
        BY <1>2
    <2>2. receiver \in [AllStripes -> [pc : {"listening", "receiving", "complete", "failed"}, at : 0..MaxSize]]
        BY <2>1 DEF StripedStart
    <2>3. landed \in [0..MaxSize - 1 -> Hole..MaxSize - 1]
        BY <1>1 DEF StripedStart, Hole
    <2>4. sender \in [AllStripes -> {"connecting", "sending", "sent", "failed"}]
        BY DEF StripedStart
    <2> QED BY <2>2, <2>3, <2>4 DEF StripedTypeOK, StripedStart
<1>4. StripesHeld
    <2> SUFFICES ASSUME NEW i \in Stripes
                 PROVE  /\ receiver[i].at = StripeBegin(size, stripes, i)
                        /\ StripeBegin(size, stripes, i) \in Nat /\ StripeEnd(size, stripes, i) \in Nat
                        /\ StripeBegin(size, stripes, i) <= StripeEnd(size, stripes, i)
                        /\ receiver[i].pc = "listening"
        BY DEF StripesHeld
    <2>1. size = sz /\ stripes = n /\ i \in AllStripes
        BY <1>3, StripesInFile DEF StripedStart
    <2>2. /\ StripeBegin(size, stripes, i) \in Nat /\ StripeEnd(size, stripes, i) \in Nat
          /\ StripeBegin(size, stripes, i) <= StripeEnd(size, stripes, i) /\ StripeEnd(size, stripes, i) <= size
        BY <1>3, StripesInFile
    <2>3. receiver[i].pc = "listening" /\ receiver[i].at = Lesser(StripeBegin(size, stripes, i), size)
        BY <2>1 DEF StripedStart
    <2>4. Lesser(StripeBegin(size, stripes, i), size) = StripeBegin(size, stripes, i)
        BY <1>1, <2>1, <2>2 DEF Lesser
    <2> QED BY <2>2, <2>3, <2>4
<1>5. StripedWhole
    BY DEF StripedWhole, StripedStart
<1> QED BY <1>3, <1>4, <1>5 DEF StripedInv

(* A step that writes nothing and moves no offset. *)
LEMMA StripesKept ==
    ASSUME StripedInv, UNCHANGED <<size, stripes, digest, landed>>,
           \A i \in Stripes : receiver'[i].at = receiver[i].at,
           \A i \in Stripes : receiver'[i].pc = "complete" /\ receiver[i].pc # "complete"
                                  => receiver[i].at = StripeEnd(size, stripes, i)
    PROVE  StripesHeld'
<1>1. Stripes' = Stripes
    BY DEF Stripes
<1> SUFFICES ASSUME NEW i \in Stripes
             PROVE  /\ receiver'[i].at \in Nat
                    /\ StripeBegin(size, stripes, i) <= receiver'[i].at
                    /\ receiver'[i].at <= StripeEnd(size, stripes, i)
                    /\ \A b \in Nat : StripeBegin(size, stripes, i) <= b /\ b < receiver'[i].at => landed[b] = b
                    /\ receiver'[i].pc = "complete" => receiver'[i].at = StripeEnd(size, stripes, i)
    BY <1>1 DEF StripesHeld
<1> QED BY DEF StripedInv, StripesHeld

(* A byte is in one stripe only. *)
LEMMA StripesApart ==
    ASSUME StripedTypeOK, NEW i \in Stripes, NEW j \in Stripes, i # j
    PROVE  \/ StripeEnd(size, stripes, i) <= StripeBegin(size, stripes, j)
           \/ StripeEnd(size, stripes, j) <= StripeBegin(size, stripes, i)
<1>1. i \in Nat /\ j \in Nat /\ size \in Nat /\ stripes \in Nat \ {0}
    BY StripesInFile
<1>2. CASE i < j
    <2>1. i + 1 \in Nat /\ i + 1 <= j
        BY <1>1, <1>2
    <2>2. StripeBegin(size, stripes, i + 1) <= StripeBegin(size, stripes, j)
        BY <1>1, <2>1, StripesAscend
    <2> QED BY <2>2 DEF StripeEnd
<1>3. CASE j < i
    <2>1. j + 1 \in Nat /\ j + 1 <= i
        BY <1>1, <1>3
    <2>2. StripeBegin(size, stripes, j + 1) <= StripeBegin(size, stripes, i)
        BY <1>1, <2>1, StripesAscend
    <2> QED BY <2>2 DEF StripeEnd
<1> QED BY <1>1, <1>2, <1>3

LEMMA StripedTypeStep ==
    ASSUME StripedInv, NEW i \in Stripes,
           \/ StripeConnect(i) \/ StripeChunk(i) \/ StripeComplete(i) \/ StripeSent(i)
           \/ StripeBreak(i) \/ SenderDeadline(i) \/ ReceiverTimeout(i)
    PROVE  StripedTypeOK'
<1> DEFINE Senders == {"connecting", "sending", "sent", "failed"}
           Rows == [pc : {"listening", "receiving", "complete", "failed"}, at : 0..MaxSize]
<1>1. /\ StripedTypeOK /\ i \in AllStripes /\ receiver[i] \in Rows
      /\ sender \in [AllStripes -> Senders] /\ receiver \in [AllStripes -> Rows]
    BY StripesInFile DEF StripedInv, StripedTypeOK
<1>2. \A p \in {"listening", "receiving", "complete", "failed"} : [receiver[i] EXCEPT !.pc = p] \in Rows
    BY <1>1
<1>3. sender' \in [AllStripes -> Senders]
    <2>1. sender' = sender \/ \E s \in Senders : sender' = [sender EXCEPT ![i] = s]
        BY <1>1 DEF StripeConnect, StripeChunk, StripeComplete, StripeSent, StripeBreak, SenderDeadline, ReceiverTimeout
    <2> QED BY <1>1, <2>1
<1>4. receiver' \in [AllStripes -> Rows] /\ landed' \in [0..MaxSize - 1 -> Hole..MaxSize - 1]
    <2>1. CASE StripeChunk(i)
        <3>1. receiver[i].at \in Nat /\ receiver[i].at < StripeEnd(size, stripes, i)
              /\ StripeEnd(size, stripes, i) <= MaxSize /\ StripeEnd(size, stripes, i) \in Nat /\ MaxSize \in Nat
            BY <1>1, <2>1, StripesInFile DEF StripeChunk
        <3>2. receiver[i].at + 1 \in 0..MaxSize /\ receiver[i].at \in Hole..MaxSize - 1
            BY <3>1 DEF Hole
        <3>3. [receiver[i] EXCEPT !.at = receiver[i].at + 1] \in Rows
            BY <1>1, <3>2
        <3>4. receiver' = [receiver EXCEPT ![i] = [receiver[i] EXCEPT !.at = receiver[i].at + 1]]
            BY <1>1, <2>1 DEF StripeChunk
        <3>5. landed \in [0..MaxSize - 1 -> Hole..MaxSize - 1]
            BY <1>1 DEF StripedTypeOK
        <3>6. landed' = [landed EXCEPT ![receiver[i].at] = receiver[i].at]
            BY <2>1 DEF StripeChunk
        <3> HIDE DEF Rows
        <3>7. receiver' \in [AllStripes -> Rows]
            BY <1>1, <3>3, <3>4
        <3>8. landed' \in [0..MaxSize - 1 -> Hole..MaxSize - 1]
            BY <3>2, <3>5, <3>6
        <3> QED BY <3>7, <3>8
    <2>2. CASE ~StripeChunk(i)
        <3>1. \/ receiver' = receiver
              \/ \E p \in {"listening", "receiving", "complete", "failed"} :
                     receiver' = [receiver EXCEPT ![i] = [receiver[i] EXCEPT !.pc = p]]
            BY <1>1, <2>2 DEF StripeConnect, StripeComplete, StripeSent, StripeBreak, SenderDeadline, ReceiverTimeout
        <3>2. landed' = landed
            BY <2>2 DEF StripeConnect, StripeComplete, StripeSent, StripeBreak, SenderDeadline, ReceiverTimeout
        <3> HIDE DEF Rows
        <3>3. receiver' \in [AllStripes -> Rows]
            BY <1>1, <1>2, <3>1
        <3> QED BY <1>1, <3>2, <3>3 DEF StripedTypeOK
    <2> QED BY <2>1, <2>2
<1>5. UNCHANGED <<size, stripes, digest, dest, copy>>
    BY DEF StripeConnect, StripeChunk, StripeComplete, StripeSent, StripeBreak, SenderDeadline, ReceiverTimeout
<1> QED BY <1>1, <1>3, <1>4, <1>5 DEF StripedTypeOK

LEMMA StripedHeldStep ==
    ASSUME StripedInv, NEW i \in Stripes,
           \/ StripeConnect(i) \/ StripeChunk(i) \/ StripeComplete(i) \/ StripeSent(i)
           \/ StripeBreak(i) \/ SenderDeadline(i) \/ ReceiverTimeout(i)
    PROVE  StripesHeld' /\ StripedWhole'
<1>1. /\ StripedTypeOK /\ StripesHeld /\ StripedWhole /\ i \in AllStripes
      /\ receiver \in [AllStripes -> [pc : {"listening", "receiving", "complete", "failed"}, at : 0..MaxSize]]
      /\ \A j \in Stripes : j \in AllStripes
    BY StripesInFile DEF StripedInv, StripedTypeOK
<1>2. CASE StripeChunk(i)
    <2> DEFINE at == receiver[i].at
    <2>1. /\ UNCHANGED <<size, stripes, digest, dest>> /\ Stripes' = Stripes
          /\ landed' = [landed EXCEPT ![at] = at] /\ at < StripeEnd(size, stripes, i)
          /\ \A j \in Stripes : receiver'[j] = IF j = i THEN [receiver[i] EXCEPT !.at = at + 1] ELSE receiver[j]
        BY <1>1, <1>2 DEF StripeChunk, Stripes
    <2>2. /\ at \in Nat /\ at \in 0..MaxSize - 1 /\ StripeBegin(size, stripes, i) <= at
          /\ StripeBegin(size, stripes, i) \in Nat /\ StripeEnd(size, stripes, i) \in Nat
        BY <1>1, <2>1, StripesInFile DEF StripesHeld
    <2>3. \A b \in Nat : landed'[b] = b \/ landed'[b] = landed[b]
        BY <1>1, <2>1, <2>2 DEF StripedTypeOK
    <2>4. landed'[at] = at
        BY <1>1, <2>1, <2>2 DEF StripedTypeOK
    <2>5. StripesHeld'
        <3> SUFFICES ASSUME NEW j \in Stripes
                     PROVE  /\ receiver'[j].at \in Nat
                            /\ StripeBegin(size, stripes, j) <= receiver'[j].at
                            /\ receiver'[j].at <= StripeEnd(size, stripes, j)
                            /\ \A b \in Nat : StripeBegin(size, stripes, j) <= b /\ b < receiver'[j].at => landed'[b] = b
                            /\ receiver'[j].pc = "complete" => receiver'[j].at = StripeEnd(size, stripes, j)
            BY <2>1 DEF StripesHeld
        <3>1. CASE j # i
            BY <1>1, <2>1, <2>3, <3>1 DEF StripesHeld
        <3>2. CASE j = i
            <4>1. receiver'[j].at = at + 1 /\ receiver'[j].pc = "receiving"
                BY <1>1, <1>2, <2>1, <3>2 DEF StripeChunk
            <4>2. ASSUME NEW b \in Nat, StripeBegin(size, stripes, j) <= b, b < at + 1
                  PROVE  landed'[b] = b
                <5>1. CASE b = at
                    BY <2>4, <5>1
                <5>2. CASE b < at
                    <6>1. landed[b] = b
                        BY <1>1, <3>2, <4>2, <5>2 DEF StripesHeld
                    <6> QED BY <2>3, <6>1
                <5> QED BY <2>2, <4>2, <5>1, <5>2
            <4>3. at + 1 \in Nat /\ StripeBegin(size, stripes, i) <= at + 1 /\ at + 1 <= StripeEnd(size, stripes, i)
                BY <2>1, <2>2
            <4> QED BY <3>2, <4>1, <4>2, <4>3
        <3> QED BY <3>1, <3>2
    <2>6. StripedWhole'
        <3> SUFFICES ASSUME dest = "renamed", NEW b \in 0..size - 1 PROVE landed'[b] = b
            BY <2>1 DEF StripedWhole, Wanted
        <3>1. b \in Nat /\ landed[b] = b
            BY <1>1, StripesInFile DEF StripedWhole, Wanted
        <3> QED BY <2>3, <3>1
    <2> QED BY <2>5, <2>6
<1>3. CASE ~StripeChunk(i)
    <2>1. UNCHANGED <<size, stripes, digest, landed, dest>>
        BY <1>3 DEF StripeConnect, StripeComplete, StripeSent, StripeBreak, SenderDeadline, ReceiverTimeout
    <2>2. \A j \in Stripes : receiver'[j].at = receiver[j].at
        BY <1>1, <1>3 DEF StripeConnect, StripeComplete, StripeSent, StripeBreak, SenderDeadline, ReceiverTimeout
    <2>3. \A j \in Stripes : receiver'[j].pc = "complete" /\ receiver[j].pc # "complete"
                                  => receiver[j].at = StripeEnd(size, stripes, j)
        BY <1>1, <1>3 DEF StripeConnect, StripeComplete, StripeSent, StripeBreak, SenderDeadline, ReceiverTimeout
    <2>4. StripesHeld'
        BY <2>1, <2>2, <2>3, StripesKept
    <2>5. StripedWhole'
        BY <1>1, <2>1 DEF StripedWhole, Wanted
    <2> QED BY <2>4, <2>5
<1> QED BY <1>2, <1>3

(* The receiver renames the file when all stripes are complete: all bytes   *)
(* have landed then.                                                        *)
LEMMA StripedEndStep ==
    ASSUME StripedInv, ReceiveEnds \/ CopyEnds
    PROVE  StripedInv'
<1>1. StripedTypeOK /\ StripesHeld /\ StripedWhole
    BY DEF StripedInv
<1>2. UNCHANGED <<size, stripes, digest, sender, receiver, landed>>
    BY DEF ReceiveEnds, CopyEnds
<1>3. StripedTypeOK'
    <2>1. dest' \in {"absent", "renamed"} /\ copy' \in {"running", "ok", "raised"}
        BY <1>1 DEF StripedTypeOK, ReceiveEnds, CopyEnds
    <2> QED BY <1>1, <1>2, <2>1 DEF StripedTypeOK
<1>4. StripesHeld'
    BY <1>2, StripesKept
<1>5. StripedWhole'
    <2>1. CASE ReceiveEnds
        <3> SUFFICES ASSUME NEW b \in 0..size - 1 PROVE landed[b] = b
            BY <1>2 DEF StripedWhole, Wanted
        <3>1. size \in Nat /\ stripes \in Nat \ {0} /\ b \in Nat /\ b < size
            BY <1>1, StripedAssumption DEF StripedTypeOK
        <3>2. PICK i \in Stripes : StripeBegin(size, stripes, i) <= b /\ b < StripeEnd(size, stripes, i)
            BY <3>1, StripesCover DEF Stripes
        <3>3. receiver[i].pc = "complete"
            BY <2>1 DEF ReceiveEnds
        <3> QED BY <1>1, <3>1, <3>2, <3>3 DEF StripesHeld
    <2>2. CASE CopyEnds
        BY <1>1, <1>2, <2>2 DEF CopyEnds, StripedWhole, Wanted
    <2> QED BY <2>1, <2>2
<1> QED BY <1>3, <1>4, <1>5 DEF StripedInv

LEMMA StripedInvStep == StripedInv /\ [StripedNext]_stripedVars => StripedInv'
<1> SUFFICES ASSUME StripedInv, [StripedNext]_stripedVars PROVE StripedInv'
    OBVIOUS
<1>1. ASSUME NEW i \in Stripes,
             \/ StripeConnect(i) \/ StripeChunk(i) \/ StripeComplete(i) \/ StripeSent(i)
             \/ StripeBreak(i) \/ SenderDeadline(i) \/ ReceiverTimeout(i)
      PROVE  StripedInv'
    <2>1. StripedTypeOK'
        BY <1>1, StripedTypeStep
    <2>2. StripesHeld' /\ StripedWhole'
        BY <1>1, StripedHeldStep
    <2> QED BY <2>1, <2>2 DEF StripedInv
<1>2. CASE ReceiveEnds \/ CopyEnds
    BY <1>2, StripedEndStep
<1>3. CASE UNCHANGED stripedVars
    <2>1. StripedTypeOK' /\ StripedWhole'
        BY <1>3 DEF StripedInv, StripedTypeOK, StripedWhole, Wanted, stripedVars
    <2>2. StripesHeld'
        BY <1>3 DEF StripedInv, StripesHeld, Stripes, stripedVars
    <2> QED BY <2>1, <2>2 DEF StripedInv
<1> QED BY <1>1, <1>2, <1>3 DEF StripedNext

-----------------------------------------------------------------------------
(* Files along the chain.                                                   *)

LEMMA GreatestMember ==
    ASSUME NEW n \in Nat, NEW S \in SUBSET (0..n), S # {}
    PROVE  \E m \in S : \A k \in S : k <= m
<1> DEFINE R == {n - k : k \in S}
<1>1. R \in SUBSET Nat /\ R # {}
    <2>1. \A k \in S : n - k \in Nat
        OBVIOUS
    <2> QED BY <2>1
<1>2. PICK r \in R : \A k \in R : r <= k
    <2> HIDE DEF R
    <2> QED BY <1>1, LeastMember
<1>3. PICK m \in S : r = n - m
    BY <1>2
<1>4. ASSUME NEW k \in S PROVE k <= m
    <2>1. n - k \in R
        OBVIOUS
    <2>2. n - m <= n - k
        BY <1>2, <1>3, <2>1
    <2>3. k \in Nat /\ m \in Nat
        OBVIOUS
    <2> QED BY <2>2, <2>3
<1> QED BY <1>4

(* The sequence of a finite set holds its members, each once. *)
LEMMA SetToSeqHolds ==
    ASSUME NEW S, IsFiniteSet(S)
    PROVE  /\ SetToSeq(S) \in Seq(S)
           /\ \A x \in S : \E i \in DOMAIN SetToSeq(S) : SetToSeq(S)[i] = x
           /\ IsInjective(SetToSeq(S))
<1> DEFINE n == Cardinality(S)
           f == SetToSeq(S)
<1>1. n \in Nat /\ ExistsBijection(1..n, S)
    BY FS_CardinalityType, Zenon
<1>2. \E g \in [1..n -> S] : IsInjective(g)
    BY <1>1 DEF ExistsBijection, Bijection, Injection
<1>3. f \in [1..n -> S] /\ IsInjective(f)
    BY <1>2 DEF SetToSeq
<1>4. f \in Injection(1..n, S)
    BY <1>3 DEF Injection
<1>5. IsFiniteSet(1..n) /\ Cardinality(1..n) = n
    <2>1. 1 \in Int /\ n \in Int
        BY <1>1
    <2> HIDE DEF n
    <2>2. IsFiniteSet(1..n) /\ Cardinality(1..n) = IF 1 > n THEN 0 ELSE n - 1 + 1
        BY <2>1, FS_Interval
    <2> QED BY <1>1, <2>2
<1>6. f \in Surjection(1..n, S)
    <2>1. Cardinality(1..n) = Cardinality(S)
        BY <1>5
    <2> HIDE DEF f, n
    <2> QED BY <1>4, <2>1, FS_Injection
<1> HIDE DEF f
<1>7. f \in Seq(S)
    BY <1>1, <1>3
<1>8. \A x \in S : \E i \in DOMAIN f : f[i] = x
    BY <1>3, <1>6 DEF Surjection
<1> QED BY <1>3, <1>7, <1>8 DEF f

LEMMA LastNeeded ==
    ASSUME keep \in [Nodes -> SUBSET Files], NEW f
    PROVE  /\ LastNeededIndex(f) \in Nodes
           /\ \A n \in Nodes : f \in keep[n] => n <= LastNeededIndex(f)
           /\ LastNeededIndex(f) # 0 => f \in keep[LastNeededIndex(f)]
<1> DEFINE S == {n \in Nodes : f \in keep[n]} \cup {0}
<1>1. LastNode \in Nat \ {0} /\ S \in SUBSET (0..LastNode) /\ S # {}
    BY WaterfallAssumption DEF Nodes
<1>2. \E m \in S : \A k \in S : m >= k
    <2> HIDE DEF S
    <2>1. PICK m \in S : \A k \in S : k <= m
        BY <1>1, GreatestMember
    <2>2. \A k \in S : k \in Nat
        BY <1>1
    <2> QED BY <2>1, <2>2
<1>3. Max(S) \in S /\ \A k \in S : Max(S) >= k
    <2> HIDE DEF S
    <2> QED BY <1>2 DEF Max
<1>4. LastNeededIndex(f) = Max(S)
    BY DEF LastNeededIndex
<1> DEFINE m == LastNeededIndex(f)
<1>5. m \in S /\ \A k \in S : m >= k
    BY <1>3, <1>4, Zenon
<1> HIDE DEF m
<1>6. m \in Nodes /\ (m # 0 => f \in keep[m])
    BY <1>1, <1>5 DEF Nodes
<1>7. ASSUME NEW k \in Nodes, f \in keep[k] PROVE k <= m
    <2>1. k \in S
        BY <1>7
    <2>2. m \in Nat /\ k \in Nat
        BY <1>1, <1>6 DEF Nodes
    <2> QED BY <1>5, <2>1, <2>2
<1> QED BY <1>6, <1>7 DEF m

(* What a sequence holds, and what a queue does to it. *)
InSeq(x, s) == \E i \in DOMAIN s : s[i] = x
LastOnly(x, s) == \A i \in DOMAIN s : s[i] = x => i = Len(s)

LEMMA AppendedHolds ==
    ASSUME NEW S, NEW s \in Seq(S), NEW y \in S
    PROVE  /\ Append(s, y) \in Seq(S) /\ Append(s, y) # <<>>
           /\ \A x : InSeq(x, Append(s, y)) <=> InSeq(x, s) \/ x = y
           /\ \A x : ~InSeq(x, s) => LastOnly(x, Append(s, y))
<1>1. /\ Len(s) \in Nat /\ DOMAIN s = 1..Len(s) /\ Append(s, y) \in Seq(S)
      /\ Len(Append(s, y)) = Len(s) + 1 /\ DOMAIN Append(s, y) = 1..Len(s) + 1
      /\ \A i \in 1..Len(s) : Append(s, y)[i] = s[i]
      /\ Append(s, y)[Len(s) + 1] = y
    OBVIOUS
<1>2. \A x : InSeq(x, Append(s, y)) <=> InSeq(x, s) \/ x = y
    <2> TAKE x
    <2>1. InSeq(x, s) => InSeq(x, Append(s, y))
        BY <1>1 DEF InSeq
    <2>2. x = y => InSeq(x, Append(s, y))
        BY <1>1 DEF InSeq
    <2>3. ASSUME InSeq(x, Append(s, y)), x # y PROVE InSeq(x, s)
        <3>1. PICK i \in 1..Len(s) + 1 : Append(s, y)[i] = x
            BY <1>1, <2>3 DEF InSeq
        <3>2. i \in 1..Len(s)
            BY <1>1, <2>3, <3>1
        <3> QED BY <1>1, <3>1, <3>2 DEF InSeq
    <2> QED BY <2>1, <2>2, <2>3
<1>3. ASSUME NEW x, ~InSeq(x, s) PROVE LastOnly(x, Append(s, y))
    <2> SUFFICES ASSUME NEW i \in 1..Len(s) + 1, Append(s, y)[i] = x PROVE i = Len(s) + 1
        BY <1>1 DEF LastOnly
    <2>1. i \notin 1..Len(s)
        BY <1>1, <1>3 DEF InSeq
    <2> QED BY <1>1, <2>1
<1>4. Append(s, y) # <<>>
    BY <1>1
<1> QED BY <1>1, <1>2, <1>3, <1>4

LEMMA TailHolds ==
    ASSUME NEW S, NEW s \in Seq(S), s # <<>>
    PROVE  /\ Tail(s) \in Seq(S) /\ Head(s) \in S
           /\ \A x : InSeq(x, s) <=> x = Head(s) \/ InSeq(x, Tail(s))
           /\ \A x : LastOnly(x, s) => LastOnly(x, Tail(s))
           /\ LastOnly(Head(s), s) => Tail(s) = <<>>
<1>1. /\ Len(s) \in Nat \ {0} /\ DOMAIN s = 1..Len(s) /\ Tail(s) \in Seq(S) /\ Head(s) = s[1] /\ Head(s) \in S
      /\ Len(Tail(s)) = Len(s) - 1 /\ DOMAIN Tail(s) = 1..Len(s) - 1
      /\ \A i \in 1..Len(s) - 1 : Tail(s)[i] = s[i + 1]
    OBVIOUS
<1>2. \A x : InSeq(x, s) <=> x = Head(s) \/ InSeq(x, Tail(s))
    <2> TAKE x
    <2>1. x = Head(s) => InSeq(x, s)
        BY <1>1 DEF InSeq
    <2>2. ASSUME InSeq(x, Tail(s)) PROVE InSeq(x, s)
        <3>1. PICK i \in 1..Len(s) - 1 : Tail(s)[i] = x
            BY <1>1, <2>2 DEF InSeq
        <3>2. i + 1 \in 1..Len(s) /\ s[i + 1] = x
            BY <1>1, <3>1
        <3> QED BY <1>1, <3>2 DEF InSeq
    <2>3. ASSUME InSeq(x, s), x # Head(s) PROVE InSeq(x, Tail(s))
        <3>1. PICK i \in 1..Len(s) : s[i] = x
            BY <1>1, <2>3 DEF InSeq
        <3>2. i # 1
            BY <1>1, <2>3, <3>1
        <3>3. i - 1 \in 1..Len(s) - 1 /\ i - 1 + 1 = i
            BY <1>1, <3>1, <3>2
        <3>4. Tail(s)[i - 1] = s[i - 1 + 1]
            BY <1>1, <3>3
        <3>5. Tail(s)[i - 1] = x
            BY <3>1, <3>3, <3>4
        <3> QED BY <1>1, <3>3, <3>5 DEF InSeq
    <2> QED BY <2>1, <2>2, <2>3
<1>3. ASSUME NEW x, LastOnly(x, s) PROVE LastOnly(x, Tail(s))
    <2> SUFFICES ASSUME NEW i \in 1..Len(s) - 1, Tail(s)[i] = x PROVE i = Len(s) - 1
        BY <1>1 DEF LastOnly
    <2>1. i + 1 \in 1..Len(s) /\ s[i + 1] = x
        BY <1>1
    <2>2. i + 1 = Len(s)
        BY <1>1, <1>3, <2>1 DEF LastOnly
    <2> DEFINE n == Len(s)
    <2> HIDE DEF n
    <2>3. n \in Nat /\ i \in 1..n - 1 /\ i + 1 = n
        BY <1>1, <2>2 DEF n
    <2>4. i = n - 1
        BY <2>3
    <2> QED BY <2>4 DEF n
<1>4. ASSUME LastOnly(Head(s), s) PROVE Tail(s) = <<>>
    <2>1. 1 = Len(s)
        BY <1>1, <1>4 DEF LastOnly
    <2>2. Len(Tail(s)) = Len(s) - 1 /\ Tail(s) \in Seq(S)
        BY <1>1
    <2> DEFINE t == Tail(s)
               n == Len(s)
    <2>3. Len(t) = n - 1 /\ t \in Seq(S) /\ n = 1
        BY <2>1, <2>2
    <2> HIDE DEF t, n
    <2>4. t = <<>>
        BY <2>3
    <2> QED BY <2>4 DEF t
<1> QED BY <1>1, <1>2, <1>3, <1>4

(* Where a file is on its way: what the main thread still has, in a queue,  *)
(* held by a thread before or after the copy.                               *)
Holds(e, pc, f) == worker[e].pc = pc /\ worker[e].file = f
Before(f, n) ==
    \/ InSeq(f, toFeed)
    \/ \E e \in Edges : e < n /\ (InSeq(f, queue[e]) \/ Holds(e, "copying", f))
    \/ \E e \in Edges : e + 1 < n /\ Holds(e, "copied", f)
Upto(f, n) ==
    \/ InSeq(f, toFeed)
    \/ \E e \in Edges : e <= n /\ (InSeq(f, queue[e]) \/ Holds(e, "copying", f) \/ Holds(e, "copied", f))

WorkerRows == [pc : {"starting", "getting", "copying", "copied", "ended"}, file : Files \cup {Sentinel}]
WaterfallShape ==
    /\ keep \in [Nodes -> SUBSET Files] /\ cleanup \in BOOLEAN
    /\ disk \in [Nodes -> [Files -> {"none", "ok", "wrong"}]]
    /\ toFeed \in Seq(Files \cup {Sentinel})
    /\ queue \in [Edges -> Seq(Files \cup {Sentinel})]
    /\ worker \in [Edges -> WorkerRows]

(* A file is sent no further than it is needed, so nodes behind the last    *)
(* that keeps it never have it.                                             *)
NoFurther ==
    /\ \A f \in Files : InSeq(f, toFeed) => LastNeededIndex(f) > 0
    /\ \A e \in Edges, f \in Files : InSeq(f, queue[e]) => LastNeededIndex(f) > e
    /\ \A e \in Edges : worker[e].pc \in {"copying", "copied"} =>
            worker[e].file \in Files /\ LastNeededIndex(worker[e].file) > e
    /\ \A n \in Nodes \ {0}, f \in Files : n > LastNeededIndex(f) => disk[n][f] = "none"

(* The sentinel is behind all files, and a thread that took it has none     *)
(* before it.                                                               *)
FedUpto(e) == IF e = 0 THEN toFeed = <<>> ELSE worker[e - 1].pc = "ended"
SentinelsLast ==
    /\ LastOnly(Sentinel, toFeed)
    /\ \A e \in Edges :
          /\ LastOnly(Sentinel, queue[e])
          /\ InSeq(Sentinel, queue[e]) => FedUpto(e)
          /\ worker[e].pc = "ended" => queue[e] = <<>> /\ FedUpto(e)

(* While no thread has failed, every copy that is to be made is made or     *)
(* ahead, and so is every removal.                                          *)
FilesAhead ==
    /\ \A n \in Nodes \ {0}, f \in Files : f \in keep[n] => disk[n][f] = "ok" \/ Before(f, n)
    /\ cleanup => \A n \in Nodes \ {0}, f \in Files :
                      f \in Weights /\ f \notin keep[n] => disk[n][f] = "none" \/ Upto(f, n)
Unfailed == outcome # "raised" /\ errors = {}
WaterfallInv ==
    /\ WaterfallShape /\ NoFurther
    /\ Unfailed => ~stop /\ SentinelsLast /\ FilesAhead
    /\ outcome = "ok" =>
          errors = {} /\ toFeed = <<>> /\ \A e \in Edges : worker[e].pc = "ended"

-----------------------------------------------------------------------------
LEMMA EdgesType ==
    /\ LastNode \in Nat \ {0} /\ 0 \in Edges /\ Sentinel \notin Files /\ Weights \subseteq Files /\ IsFiniteSet(Files)
    /\ \A e \in Edges : e \in Nat /\ e \in Nodes /\ e + 1 \in Nodes \ {0} /\ e + 1 \in Nat
    /\ \A e \in Edges : e # 0 => e - 1 \in Edges
    /\ \A n \in Nodes : n \in Nat /\ n <= LastNode /\ (n < LastNode => n \in Edges)
BY WaterfallAssumption DEF Edges, Nodes

LEMMA NeededAsBefore == ASSUME keep' = keep PROVE \A f : LastNeededIndex(f)' = LastNeededIndex(f)
BY DEF LastNeededIndex

LEMMA WaterfallStartInv ==
    ASSUME NEW k \in [Nodes -> SUBSET Files], NEW c \in BOOLEAN, WaterfallStart(k, c)
    PROVE  WaterfallInv
<1>1. WaterfallShape
    <2>1. toFeed \in Seq(Files \cup {Sentinel}) /\ queue \in [Edges -> Seq(Files \cup {Sentinel})]
        BY DEF WaterfallStart
    <2>2. worker \in [Edges -> WorkerRows]
        BY DEF WaterfallStart, WorkerRows
    <2>3. disk \in [Nodes -> [Files -> {"none", "ok", "wrong"}]]
        BY DEF WaterfallStart
    <2> QED BY <2>1, <2>2, <2>3 DEF WaterfallShape, WaterfallStart
<1>2. NoFurther
    <2>1. \A f : ~InSeq(f, toFeed) /\ \A e \in Edges : ~InSeq(f, queue[e])
        BY DEF WaterfallStart, InSeq
    <2>2. \A e \in Edges : worker[e].pc = "ended"
        BY DEF WaterfallStart
    <2>3. \A n \in Nodes \ {0}, f \in Files : disk[n][f] = "none"
        BY DEF WaterfallStart
    <2> QED BY <2>1, <2>2, <2>3 DEF NoFurther
<1> QED BY <1>1, <1>2 DEF WaterfallInv, WaterfallStart, Unfailed

LEMMA WfRunStep == ASSUME WaterfallInv, WfRun PROVE WaterfallInv'
<1> DEFINE S == {f \in Files : \E n \in Nodes \ {0} : f \in keep[n]}
           s == SetToSeq(S)
<1>1. /\ WaterfallShape /\ UNCHANGED <<keep, cleanup, disk>>
      /\ toFeed' = s \o <<Sentinel>> /\ queue' = [e \in Edges |-> <<>>]
      /\ worker' = [e \in Edges |-> [pc |-> "starting", file |-> Sentinel]]
      /\ ~stop' /\ errors' = {} /\ outcome' = "running"
    BY DEF WaterfallInv, WfRun, RunStart
<1>2. s \in Seq(S) /\ \A f \in S : InSeq(f, s)
    <2>1. IsFiniteSet(S)
        BY EdgesType, FS_Subset
    <2> HIDE DEF S
    <2> QED BY <2>1, SetToSeqHolds DEF InSeq
<1>3. S \subseteq Files
    OBVIOUS
<1> HIDE DEF s, S
<1>4. s \o <<Sentinel>> = Append(s, Sentinel) /\ s \in Seq(Files \cup {Sentinel}) /\ \A f : InSeq(f, s) => f \in S
    BY <1>2, <1>3 DEF InSeq
<1>5. /\ toFeed' \in Seq(Files \cup {Sentinel})
      /\ \A f : InSeq(f, toFeed') <=> f \in S \/ f = Sentinel
      /\ LastOnly(Sentinel, toFeed')
    <2>1. toFeed' = Append(s, Sentinel)
        BY <1>1, <1>4
    <2>2. ~InSeq(Sentinel, s)
        BY <1>3, <1>4, EdgesType
    <2> QED BY <1>2, <1>4, <2>1, <2>2, AppendedHolds
<1>6. \A f \in S : f \in Files /\ LastNeededIndex(f) > 0
    <2> SUFFICES ASSUME NEW f \in S PROVE f \in Files /\ LastNeededIndex(f) > 0
        OBVIOUS
    <2>1. PICK n \in Nodes \ {0} : f \in keep[n]
        BY DEF S
    <2>2. n <= LastNeededIndex(f) /\ n \in Nat /\ LastNeededIndex(f) \in Nat
        BY <1>1, <2>1, LastNeeded, EdgesType DEF WaterfallShape
    <2> QED BY <1>3, <2>1, <2>2
<1>7. \A f : LastNeededIndex(f)' = LastNeededIndex(f)
    BY <1>1, NeededAsBefore
<1>8. WaterfallShape'
    <2>1. queue' \in [Edges -> Seq(Files \cup {Sentinel})]
        BY <1>1
    <2>2. worker' \in [Edges -> WorkerRows]
        BY <1>1 DEF WorkerRows
    <2> QED BY <1>1, <1>5, <2>1, <2>2 DEF WaterfallShape
<1>9. NoFurther'
    <2>1. \A e \in Edges : \A f : ~InSeq(f, queue'[e])
        BY <1>1 DEF InSeq
    <2>2. \A e \in Edges : worker'[e].pc = "starting"
        BY <1>1
    <2>3. \A n \in Nodes \ {0}, f \in Files : n > LastNeededIndex(f) => disk'[n][f] = "none"
        BY <1>1 DEF WaterfallInv, NoFurther
    <2>4. \A f \in Files : InSeq(f, toFeed') => LastNeededIndex(f) > 0
        BY <1>5, <1>6, EdgesType
    <2> QED BY <1>7, <2>1, <2>2, <2>3, <2>4 DEF NoFurther
<1>10. SentinelsLast'
    <2>1. \A e \in Edges : LastOnly(Sentinel, queue'[e]) /\ ~InSeq(Sentinel, queue'[e])
        BY <1>1 DEF InSeq, LastOnly
    <2>2. \A e \in Edges : worker'[e].pc = "starting"
        BY <1>1
    <2> QED BY <1>5, <2>1, <2>2 DEF SentinelsLast
<1>11. FilesAhead'
    <2>1. ASSUME NEW n \in Nodes \ {0}, NEW f \in Files, f \in keep[n]
          PROVE  InSeq(f, toFeed')
        BY <1>5, <2>1 DEF S
    <2>2. ASSUME NEW n \in Nodes \ {0}, NEW f \in Files, f \notin keep[n]
          PROVE  disk[n][f] = "none" \/ InSeq(f, toFeed')
        <3>1. /\ n \in Nat /\ n # 0 /\ LastNeededIndex(f) \in Nodes /\ LastNeededIndex(f) \in Nat
              /\ (LastNeededIndex(f) # 0 => f \in keep[LastNeededIndex(f)])
            BY <1>1, LastNeeded, EdgesType DEF WaterfallShape
        <3>2. CASE LastNeededIndex(f) = 0
            BY <3>1, <3>2 DEF WaterfallInv, NoFurther
        <3>3. CASE LastNeededIndex(f) # 0
            BY <1>5, <3>1, <3>3 DEF S
        <3> QED BY <3>2, <3>3
    <2> QED BY <1>1, <2>1, <2>2 DEF FilesAhead, Before, Upto
<1> QED BY <1>1, <1>8, <1>9, <1>10, <1>11 DEF WaterfallInv, Unfailed

LEMMA WfFeedStep == ASSUME WaterfallInv, WfFeed PROVE WaterfallInv'
<1> DEFINE x == Head(toFeed)
<1>1. /\ WaterfallShape /\ toFeed # <<>> /\ 0 \in Edges
      /\ UNCHANGED <<keep, cleanup, disk, worker, stop, errors, outcome>> /\ outcome = "running"
      /\ toFeed' = Tail(toFeed) /\ queue' = [queue EXCEPT ![0] = Append(queue[0], x)]
    BY EdgesType DEF WaterfallInv, WfFeed
<1>2. /\ toFeed' \in Seq(Files \cup {Sentinel}) /\ x \in Files \cup {Sentinel}
      /\ \A f : InSeq(f, toFeed) <=> f = x \/ InSeq(f, toFeed')
      /\ LastOnly(Sentinel, toFeed) => LastOnly(Sentinel, toFeed')
      /\ LastOnly(Sentinel, toFeed) /\ x = Sentinel => toFeed' = <<>>
    BY <1>1, TailHolds DEF WaterfallShape
<1> HIDE DEF x
<1>3. /\ Append(queue[0], x) \in Seq(Files \cup {Sentinel})
      /\ \A f : InSeq(f, Append(queue[0], x)) <=> InSeq(f, queue[0]) \/ f = x
      /\ ~InSeq(Sentinel, queue[0]) => LastOnly(Sentinel, Append(queue[0], x))
    <2>1. queue[0] \in Seq(Files \cup {Sentinel})
        BY <1>1 DEF WaterfallShape
    <2> QED BY <1>2, <2>1, AppendedHolds
<1>4. \A e \in Edges : queue'[e] = IF e = 0 THEN Append(queue[0], x) ELSE queue[e]
    BY <1>1 DEF WaterfallShape
<1>5. \A e \in Edges : \A f : InSeq(f, queue'[e]) <=> InSeq(f, queue[e]) \/ (e = 0 /\ f = x)
    BY <1>3, <1>4
<1>6. WaterfallShape'
    <2>1. queue' \in [Edges -> Seq(Files \cup {Sentinel})]
        BY <1>1, <1>3 DEF WaterfallShape
    <2> QED BY <1>1, <1>2, <2>1 DEF WaterfallShape
<1>7. NoFurther'
    <2>1. \A f : LastNeededIndex(f)' = LastNeededIndex(f)
        BY <1>1, NeededAsBefore
    <2> QED BY <1>1, <1>2, <1>5, <2>1 DEF WaterfallInv, NoFurther
<1>8. ASSUME Unfailed PROVE SentinelsLast' /\ FilesAhead'
    <2>1. SentinelsLast /\ FilesAhead
        BY <1>8 DEF WaterfallInv
    <2>2. ~InSeq(Sentinel, queue[0]) /\ worker[0].pc # "ended"
        BY <1>1, <2>1 DEF SentinelsLast, FedUpto
    <2>3. \A e \in Edges : LastOnly(Sentinel, queue'[e])
        BY <1>3, <1>4, <2>1, <2>2 DEF SentinelsLast
    <2>4. \A e \in Edges : e # 0 => (FedUpto(e)' <=> FedUpto(e))
        BY <1>1 DEF FedUpto
    <2>5. ASSUME NEW e \in Edges, InSeq(Sentinel, queue'[e]) PROVE FedUpto(e)'
        <3>1. CASE e = 0
            <4>1. x = Sentinel
                BY <1>5, <2>2, <2>5, <3>1
            <4> QED BY <1>2, <2>1, <3>1, <4>1 DEF SentinelsLast, FedUpto
        <3>2. CASE e # 0
            BY <1>5, <2>1, <2>4, <2>5, <3>2 DEF SentinelsLast
        <3> QED BY <3>1, <3>2
    <2>6. ASSUME NEW e \in Edges, worker'[e].pc = "ended" PROVE queue'[e] = <<>> /\ FedUpto(e)'
        BY <1>1, <1>4, <2>1, <2>2, <2>4, <2>6 DEF SentinelsLast
    <2>7. SentinelsLast'
        BY <1>2, <2>1, <2>3, <2>5, <2>6 DEF SentinelsLast
    <2>8. \A f, n : Before(f, n) => n \notin Nat \ {0} \/ Before(f, n)'
        <3> SUFFICES ASSUME NEW f, NEW n, Before(f, n), n \in Nat \ {0} PROVE Before(f, n)'
            OBVIOUS
        <3>1. CASE InSeq(f, toFeed)
            <4>1. 0 \in Edges /\ 0 < n
                BY <1>1
            <4>2. InSeq(f, toFeed') \/ InSeq(f, queue'[0])
                BY <1>2, <1>5, <3>1, <4>1
            <4> QED BY <4>1, <4>2 DEF Before
        <3>2. ASSUME NEW e \in Edges, e < n, InSeq(f, queue[e]) \/ Holds(e, "copying", f)
              PROVE  Before(f, n)'
            <4>1. InSeq(f, queue[e]) => InSeq(f, queue'[e])
                BY <1>5
            <4> QED BY <1>1, <3>2, <4>1 DEF Before, Holds
        <3>3. ASSUME NEW e \in Edges, e + 1 < n, Holds(e, "copied", f) PROVE Before(f, n)'
            BY <1>1, <3>3 DEF Before, Holds
        <3> QED BY <3>1, <3>2, <3>3 DEF Before
    <2>9. \A f, n : Upto(f, n) => n \notin Nat \/ Upto(f, n)'
        BY <1>1, <1>2, <1>5 DEF Upto, Holds
    <2>10. FilesAhead'
        <3>1. \A n \in Nodes \ {0} : n \in Nat \ {0} /\ n \in Nat
            BY EdgesType
        <3> QED BY <1>1, <2>1, <2>8, <2>9, <3>1 DEF FilesAhead
    <2> QED BY <2>7, <2>10
<1> QED BY <1>1, <1>6, <1>7, <1>8 DEF WaterfallInv, Unfailed

LEMMA GotoRows ==
    ASSUME WaterfallShape, NEW e \in Edges, NEW pc \in {"starting", "getting", "copying", "copied", "ended"},
           NEW f \in Files \cup {Sentinel}, Goto(e, pc, f)
    PROVE  /\ worker' \in [Edges -> WorkerRows]
           /\ \A d \in Edges : worker'[d] = IF d = e THEN [pc |-> pc, file |-> f] ELSE worker[d]
<1>1. worker \in [Edges -> WorkerRows] /\ [pc |-> pc, file |-> f] \in WorkerRows
    BY DEF WaterfallShape, WorkerRows
<1>2. worker' = [worker EXCEPT ![e] = [pc |-> pc, file |-> f]]
    BY DEF Goto
<1> QED BY <1>1, <1>2

(* A thread that fails: nothing is promised from here on. *)
LEMMA EdgeRaisesStep ==
    ASSUME WaterfallInv, NEW e \in Edges, worker[e].pc # "ended", EdgeRaises(e),
           UNCHANGED <<keep, cleanup, toFeed, outcome>>,
           disk' \in [Nodes -> [Files -> {"none", "ok", "wrong"}]],
           \A n \in Nodes \ {0}, f \in Files : n > LastNeededIndex(f) => disk'[n][f] = "none"
    PROVE  WaterfallInv'
<1>1. WaterfallShape /\ outcome # "ok" /\ errors' # {}
    BY DEF WaterfallInv, EdgeRaises
<1>2. /\ worker' \in [Edges -> WorkerRows]
      /\ \A d \in Edges : worker'[d] = IF d = e THEN [pc |-> "ended", file |-> Sentinel] ELSE worker[d]
    BY <1>1, GotoRows DEF EdgeRaises
<1>3. ASSUME NEW d \in Edges
      PROVE  /\ queue'[d] = Append(queue[d], Sentinel) /\ queue'[d] \in Seq(Files \cup {Sentinel})
             /\ \A f : InSeq(f, queue'[d]) <=> InSeq(f, queue[d]) \/ f = Sentinel
    <2>1. queue[d] \in Seq(Files \cup {Sentinel}) /\ queue'[d] = Append(queue[d], Sentinel)
        BY <1>1 DEF WaterfallShape, EdgeRaises
    <2> QED BY <2>1, AppendedHolds
<1>4. WaterfallShape'
    <2>1. queue' = [d \in Edges |-> Append(queue[d], Sentinel)]
        BY DEF EdgeRaises
    <2>2. queue' \in [Edges -> Seq(Files \cup {Sentinel})]
        BY <1>3, <2>1
    <2> QED BY <1>1, <1>2, <2>2 DEF WaterfallShape
<1>5. NoFurther'
    <2>1. \A f : LastNeededIndex(f)' = LastNeededIndex(f)
        BY NeededAsBefore
    <2>2. \A f \in Files : InSeq(f, toFeed') => LastNeededIndex(f) > 0
        BY DEF WaterfallInv, NoFurther
    <2>3. \A d \in Edges, f \in Files : InSeq(f, queue'[d]) => LastNeededIndex(f) > d
        BY <1>3, EdgesType DEF WaterfallInv, NoFurther
    <2>4. \A d \in Edges : worker'[d].pc \in {"copying", "copied"} =>
              worker'[d].file \in Files /\ LastNeededIndex(worker'[d].file) > d
        BY <1>2 DEF WaterfallInv, NoFurther
    <2> QED BY <2>1, <2>2, <2>3, <2>4 DEF NoFurther
<1> QED BY <1>1, <1>4, <1>5 DEF WaterfallInv, Unfailed

LEMMA EdgeStartStep == ASSUME WaterfallInv, NEW e \in Edges, EdgeStart(e) PROVE WaterfallInv'
<1>1. WaterfallShape /\ NoFurther /\ worker[e].pc = "starting" /\ outcome # "ok"
      /\ UNCHANGED <<keep, cleanup, disk, toFeed, outcome>>
    BY DEF WaterfallInv, EdgeStart
<1>2. CASE EdgeRaises(e)
    BY <1>1, <1>2, EdgeRaisesStep DEF WaterfallShape, NoFurther
<1>3. CASE Goto(e, "getting", Sentinel) /\ UNCHANGED <<queue, stop, errors>>
    <2>1. /\ worker' \in [Edges -> WorkerRows]
          /\ \A d \in Edges : worker'[d] = IF d = e THEN [pc |-> "getting", file |-> Sentinel] ELSE worker[d]
        BY <1>1, <1>3, GotoRows
    <2>2. WaterfallShape'
        BY <1>1, <1>3, <2>1 DEF WaterfallShape
    <2>3. NoFurther'
        <3>1. \A f : LastNeededIndex(f)' = LastNeededIndex(f)
            BY <1>1, NeededAsBefore
        <3> QED BY <1>1, <1>3, <2>1, <3>1 DEF NoFurther
    <2>4. ASSUME Unfailed PROVE SentinelsLast' /\ FilesAhead'
        <3>1. SentinelsLast /\ FilesAhead
            BY <2>4 DEF WaterfallInv
        <3>2. \A d \in Edges : worker'[d].pc = "ended" <=> worker[d].pc = "ended"
            BY <1>1, <2>1
        <3>3. \A d \in Edges : FedUpto(d)' <=> FedUpto(d)
            BY <1>1, <3>2, EdgesType DEF FedUpto
        <3>4. SentinelsLast'
            BY <1>1, <1>3, <3>1, <3>2, <3>3 DEF SentinelsLast
        <3>5. \A d \in Edges : \A f : /\ Holds(d, "copying", f)' <=> Holds(d, "copying", f)
                                      /\ Holds(d, "copied", f)' <=> Holds(d, "copied", f)
            BY <1>1, <2>1 DEF Holds
        <3>6. FilesAhead'
            BY <1>1, <1>3, <3>1, <3>5 DEF FilesAhead, Before, Upto
        <3> QED BY <3>4, <3>6
    <2> QED BY <1>1, <1>3, <2>2, <2>3, <2>4 DEF WaterfallInv, Unfailed
<1> QED BY <1>2, <1>3 DEF EdgeStart

LEMMA EdgeTakes ==
    ASSUME WaterfallShape, NEW e \in Edges, queue[e] # <<>>
    PROVE  /\ Head(queue[e]) \in Files \cup {Sentinel} /\ Tail(queue[e]) \in Seq(Files \cup {Sentinel})
           /\ \A f : InSeq(f, queue[e]) <=> f = Head(queue[e]) \/ InSeq(f, Tail(queue[e]))
           /\ LastOnly(Sentinel, queue[e]) => LastOnly(Sentinel, Tail(queue[e]))
           /\ LastOnly(Sentinel, queue[e]) /\ Head(queue[e]) = Sentinel => Tail(queue[e]) = <<>>
<1>1. queue[e] \in Seq(Files \cup {Sentinel})
    BY DEF WaterfallShape
<1> QED BY <1>1, TailHolds

LEMMA EdgeGetSentinel ==
    ASSUME WaterfallInv, NEW e \in Edges, EdgeGet(e), Head(queue[e]) = Sentinel
    PROVE  WaterfallInv'
<1>1. /\ WaterfallShape /\ NoFurther /\ worker[e].pc = "getting" /\ queue[e] # <<>> /\ outcome # "ok"
      /\ UNCHANGED <<keep, cleanup, disk, toFeed, stop, errors, outcome>>
      /\ queue' = Forwarded(e, Sentinel) /\ Goto(e, "ended", Sentinel)
    BY DEF WaterfallInv, EdgeGet
<1>2. /\ worker' \in [Edges -> WorkerRows]
      /\ \A d \in Edges : worker'[d] = IF d = e THEN [pc |-> "ended", file |-> Sentinel] ELSE worker[d]
    BY <1>1, GotoRows
<1>3. \A d \in Edges : queue'[d] = IF d = e THEN Tail(queue[e])
                                   ELSE IF d = e + 1 THEN Append(queue[d], Sentinel) ELSE queue[d]
    <2>1. e # e + 1
        BY EdgesType
    <2>2. queue \in [Edges -> Seq(Files \cup {Sentinel})]
        BY <1>1 DEF WaterfallShape
    <2> QED BY <1>1, <2>1, <2>2 DEF Forwarded
<1>4. \A d \in Edges : /\ Append(queue[d], Sentinel) \in Seq(Files \cup {Sentinel})
                       /\ \A f : InSeq(f, Append(queue[d], Sentinel)) <=> InSeq(f, queue[d]) \/ f = Sentinel
                       /\ ~InSeq(Sentinel, queue[d]) => LastOnly(Sentinel, Append(queue[d], Sentinel))
    <2> SUFFICES ASSUME NEW d \in Edges
                 PROVE  /\ Append(queue[d], Sentinel) \in Seq(Files \cup {Sentinel})
                        /\ \A f : InSeq(f, Append(queue[d], Sentinel)) <=> InSeq(f, queue[d]) \/ f = Sentinel
                        /\ ~InSeq(Sentinel, queue[d]) => LastOnly(Sentinel, Append(queue[d], Sentinel))
        OBVIOUS
    <2>1. queue[d] \in Seq(Files \cup {Sentinel})
        BY <1>1 DEF WaterfallShape
    <2> QED BY <2>1, AppendedHolds
<1>5. /\ Tail(queue[e]) \in Seq(Files \cup {Sentinel})
      /\ \A f : InSeq(f, queue[e]) <=> f = Sentinel \/ InSeq(f, Tail(queue[e]))
      /\ LastOnly(Sentinel, queue[e]) => Tail(queue[e]) = <<>>
    BY <1>1, EdgeTakes
<1>6. \A d \in Edges, f \in Files : InSeq(f, queue'[d]) <=> InSeq(f, queue[d])
    <2>1. \A f \in Files : f # Sentinel
        BY EdgesType
    <2> QED BY <1>3, <1>4, <1>5, <2>1
<1>7. WaterfallShape'
    <2>1. \A d \in Edges : queue'[d] \in Seq(Files \cup {Sentinel})
        BY <1>1, <1>3, <1>4, <1>5 DEF WaterfallShape
    <2>2. queue \in [Edges -> Seq(Files \cup {Sentinel})]
        BY <1>1 DEF WaterfallShape
    <2>3. queue' = [d \in Edges |-> queue'[d]]
        BY <1>1, <2>2 DEF Forwarded
    <2>4. queue' \in [Edges -> Seq(Files \cup {Sentinel})]
        BY <2>1, <2>3
    <2> QED BY <1>1, <1>2, <2>4 DEF WaterfallShape
<1>8. NoFurther'
    <2>1. \A f : LastNeededIndex(f)' = LastNeededIndex(f)
        BY <1>1, NeededAsBefore
    <2> QED BY <1>1, <1>2, <1>6, <2>1 DEF NoFurther
<1>9. ASSUME Unfailed PROVE SentinelsLast' /\ FilesAhead'
    <2>1. SentinelsLast /\ FilesAhead
        BY <1>9 DEF WaterfallInv
    <2>2. InSeq(Sentinel, queue[e]) /\ FedUpto(e) /\ LastOnly(Sentinel, queue[e])
        BY <1>5, <2>1 DEF SentinelsLast
    <2>3. \A d \in Edges : d = e + 1 => ~InSeq(Sentinel, queue[d]) /\ worker[d].pc # "ended"
        <3> SUFFICES ASSUME NEW d \in Edges, d = e + 1 PROVE ~FedUpto(d)
            BY <2>1 DEF SentinelsLast
        <3>1. d # 0 /\ d - 1 = e
            BY EdgesType
        <3> QED BY <1>1, <3>1 DEF FedUpto
    <2>4. \A d \in Edges : FedUpto(d) => FedUpto(d)'
        <3> SUFFICES ASSUME NEW d \in Edges, FedUpto(d) PROVE FedUpto(d)'
            OBVIOUS
        <3>1. CASE d = 0
            BY <1>1, <3>1 DEF FedUpto
        <3>2. CASE d # 0
            <4>1. d - 1 \in Edges /\ worker[d - 1].pc = "ended"
                BY <3>2, EdgesType DEF FedUpto
            <4>2. worker'[d - 1].pc = "ended"
                BY <1>2, <4>1
            <4> QED BY <3>2, <4>2 DEF FedUpto
        <3> QED BY <3>1, <3>2
    <2>5. \A d \in Edges : d = e + 1 => FedUpto(d)'
        <3> SUFFICES ASSUME NEW d \in Edges, d = e + 1 PROVE FedUpto(d)'
            OBVIOUS
        <3>1. d # 0 /\ d - 1 = e
            BY EdgesType
        <3> QED BY <1>2, <3>1 DEF FedUpto
    <2>6. ASSUME NEW d \in Edges
          PROVE  /\ LastOnly(Sentinel, queue'[d])
                 /\ InSeq(Sentinel, queue'[d]) => FedUpto(d)'
                 /\ worker'[d].pc = "ended" => queue'[d] = <<>> /\ FedUpto(d)'
        <3>1. CASE d = e
            <4>1. queue'[d] = <<>>
                BY <1>3, <1>5, <2>2, <3>1
            <4> QED BY <2>2, <2>4, <3>1, <4>1 DEF LastOnly, InSeq
        <3>2. CASE d = e + 1
            <4>1. d # e
                BY <3>2, EdgesType
            <4> QED BY <1>2, <1>3, <1>4, <2>3, <2>5, <3>2, <4>1
        <3>3. CASE d # e /\ d # e + 1
            BY <1>2, <1>3, <2>1, <2>4, <3>3 DEF SentinelsLast
        <3> QED BY <3>1, <3>2, <3>3
    <2>7. SentinelsLast'
        BY <1>1, <2>1, <2>6 DEF SentinelsLast
    <2>8. \A d \in Edges : \A f : /\ Holds(d, "copying", f)' <=> Holds(d, "copying", f)
                                  /\ Holds(d, "copied", f)' <=> Holds(d, "copied", f)
        BY <1>1, <1>2 DEF Holds
    <2>9. FilesAhead'
        BY <1>1, <1>6, <2>1, <2>8 DEF FilesAhead, Before, Upto
    <2> QED BY <2>7, <2>9
<1> QED BY <1>1, <1>7, <1>8, <1>9 DEF WaterfallInv, Unfailed

LEMMA EdgeGetFile ==
    ASSUME WaterfallInv, NEW e \in Edges, EdgeGet(e), Head(queue[e]) # Sentinel
    PROVE  WaterfallInv'
<1> DEFINE x == Head(queue[e])
<1>1. /\ WaterfallShape /\ NoFurther /\ worker[e].pc = "getting" /\ queue[e] # <<>> /\ outcome # "ok"
      /\ UNCHANGED <<keep, cleanup, disk, toFeed, stop, errors, outcome>>
      /\ queue' = [queue EXCEPT ![e] = Tail(queue[e])]
      /\ IF stop THEN UNCHANGED worker ELSE Goto(e, "copying", x)
    BY DEF WaterfallInv, EdgeGet
<1>2. /\ x \in Files /\ Tail(queue[e]) \in Seq(Files \cup {Sentinel})
      /\ \A f : InSeq(f, queue[e]) <=> f = x \/ InSeq(f, Tail(queue[e]))
      /\ LastOnly(Sentinel, queue[e]) => LastOnly(Sentinel, Tail(queue[e]))
    BY <1>1, EdgeTakes
<1> HIDE DEF x
<1>3. /\ worker' \in [Edges -> WorkerRows]
      /\ \A d \in Edges : worker'[d] = IF d = e /\ ~stop THEN [pc |-> "copying", file |-> x] ELSE worker[d]
    <2>1. CASE stop
        BY <1>1, <2>1 DEF WaterfallShape
    <2>2. CASE ~stop
        BY <1>1, <1>2, <2>2, GotoRows
    <2> QED BY <2>1, <2>2
<1>4. queue \in [Edges -> Seq(Files \cup {Sentinel})]
    BY <1>1 DEF WaterfallShape
<1>5. \A d \in Edges : queue'[d] = IF d = e THEN Tail(queue[e]) ELSE queue[d]
    BY <1>1, <1>4
<1>6. WaterfallShape'
    <2>1. queue' \in [Edges -> Seq(Files \cup {Sentinel})]
        BY <1>1, <1>2, <1>4
    <2> QED BY <1>1, <1>3, <2>1 DEF WaterfallShape
<1>7. NoFurther'
    <2>1. \A f : LastNeededIndex(f)' = LastNeededIndex(f)
        BY <1>1, NeededAsBefore
    <2>2. LastNeededIndex(x) > e
        BY <1>1, <1>2 DEF NoFurther
    <2>3. \A d \in Edges, f \in Files : InSeq(f, queue'[d]) => LastNeededIndex(f) > d
        BY <1>1, <1>2, <1>5 DEF NoFurther
    <2>4. \A d \in Edges : worker'[d].pc \in {"copying", "copied"} =>
              worker'[d].file \in Files /\ LastNeededIndex(worker'[d].file) > d
        BY <1>1, <1>2, <1>3, <2>2 DEF NoFurther
    <2> QED BY <1>1, <2>1, <2>3, <2>4 DEF NoFurther
<1>8. ASSUME Unfailed PROVE SentinelsLast' /\ FilesAhead'
    <2>1. ~stop /\ SentinelsLast /\ FilesAhead
        BY <1>8 DEF WaterfallInv
    <2>2. \A d \in Edges : worker'[d].pc = "ended" <=> worker[d].pc = "ended"
        BY <1>1, <1>3
    <2>3. \A d \in Edges : FedUpto(d)' <=> FedUpto(d)
        BY <1>1, <2>2, EdgesType DEF FedUpto
    <2>4. SentinelsLast'
        <3>1. ASSUME NEW d \in Edges
              PROVE  /\ LastOnly(Sentinel, queue'[d])
                     /\ InSeq(Sentinel, queue'[d]) => FedUpto(d)'
                     /\ worker'[d].pc = "ended" => queue'[d] = <<>> /\ FedUpto(d)'
            BY <1>1, <1>2, <1>5, <2>1, <2>2, <2>3 DEF SentinelsLast
        <3> QED BY <1>1, <2>1, <3>1 DEF SentinelsLast
    <2>5. \A d \in Edges : \A f : InSeq(f, queue[d]) => InSeq(f, queue'[d]) \/ Holds(d, "copying", f)'
        BY <1>2, <1>3, <1>5, <2>1 DEF Holds
    <2>6. \A d \in Edges : \A f : /\ Holds(d, "copying", f) => Holds(d, "copying", f)'
                                  /\ Holds(d, "copied", f) => Holds(d, "copied", f)'
        BY <1>1, <1>3 DEF Holds
    <2>7. \A f, n : (Before(f, n) => Before(f, n)') /\ (Upto(f, n) => Upto(f, n)')
        BY <1>1, <2>5, <2>6 DEF Before, Upto
    <2>8. FilesAhead'
        BY <1>1, <2>1, <2>7 DEF FilesAhead
    <2> QED BY <2>4, <2>8
<1> QED BY <1>1, <1>6, <1>7, <1>8 DEF WaterfallInv, Unfailed

(* A file that is put on one node in place of what is there. *)
DiskPut(n, f, v) == disk' = [disk EXCEPT ![n] = [disk[n] EXCEPT ![f] = v]]
LEMMA DiskSet ==
    ASSUME WaterfallShape, NEW n \in Nodes, NEW f \in Files, NEW v \in {"none", "ok", "wrong"}, DiskPut(n, f, v)
    PROVE  /\ disk' \in [Nodes -> [Files -> {"none", "ok", "wrong"}]]
           /\ \A m \in Nodes, g \in Files : disk'[m][g] = IF m = n /\ g = f THEN v ELSE disk[m][g]
<1>1. disk \in [Nodes -> [Files -> {"none", "ok", "wrong"}]] /\ disk[n] \in [Files -> {"none", "ok", "wrong"}]
    BY DEF WaterfallShape
<1>2. [disk[n] EXCEPT ![f] = v] \in [Files -> {"none", "ok", "wrong"}]
    BY <1>1
<1>3. \A g \in Files : [disk[n] EXCEPT ![f] = v][g] = IF g = f THEN v ELSE disk[n][g]
    BY <1>1
<1> QED BY <1>1, <1>2, <1>3 DEF DiskPut

LEMMA EdgeCopyStep == ASSUME WaterfallInv, NEW e \in Edges, EdgeCopy(e) PROVE WaterfallInv'
<1> DEFINE f == worker[e].file
<1>1. /\ WaterfallShape /\ NoFurther /\ worker[e].pc = "copying" /\ outcome # "ok"
      /\ UNCHANGED <<keep, cleanup, toFeed, outcome>> /\ e + 1 \in Nodes \ {0} /\ e + 1 \in Nat
      /\ f \in Files /\ LastNeededIndex(f) > e
    BY EdgesType DEF WaterfallInv, EdgeCopy, NoFurther
<1>2. LastNeededIndex(f) \in Nat /\ ~(e + 1 > LastNeededIndex(f)) /\ \A g : LastNeededIndex(g)' = LastNeededIndex(g)
    <2>1. LastNeededIndex(f) \in Nat /\ e \in Nat
        BY <1>1, LastNeeded, EdgesType DEF WaterfallShape
    <2>2. \A g : LastNeededIndex(g)' = LastNeededIndex(g)
        BY <1>1, NeededAsBefore
    <2> HIDE DEF f
    <2> QED BY <1>1, <2>1, <2>2
<1>3. ASSUME NEW v \in {"none", "ok", "wrong"}, disk' = [disk EXCEPT ![e + 1][f] = v]
      PROVE  /\ disk' \in [Nodes -> [Files -> {"none", "ok", "wrong"}]]
             /\ \A m \in Nodes, g \in Files : disk'[m][g] = IF m = e + 1 /\ g = f THEN v ELSE disk[m][g]
             /\ \A n \in Nodes \ {0}, g \in Files : n > LastNeededIndex(g) => disk'[n][g] = "none"
    <2> DEFINE n1 == e + 1
    <2>0. WaterfallShape /\ n1 \in Nodes /\ f \in Files /\ DiskPut(n1, f, v)
        BY <1>1, <1>3 DEF WaterfallShape, DiskPut
    <2> HIDE DEF f, n1
    <2>1. /\ disk' \in [Nodes -> [Files -> {"none", "ok", "wrong"}]]
          /\ \A m \in Nodes, g \in Files : disk'[m][g] = IF m = n1 /\ g = f THEN v ELSE disk[m][g]
        BY <2>0, DiskSet
    <2> USE DEF n1
    <2> QED BY <1>1, <1>2, <2>1 DEF NoFurther
<1>4. CASE EdgeRaises(e) /\ disk' = [disk EXCEPT ![e + 1][f] = "wrong"]
    BY <1>1, <1>3, <1>4, EdgeRaisesStep
<1>5. CASE EdgeRaises(e) /\ UNCHANGED disk
    BY <1>1, <1>5, EdgeRaisesStep DEF WaterfallShape, NoFurther
<1>6. CASE /\ disk' = [disk EXCEPT ![e + 1][f] = "ok"]
           /\ Goto(e, "copied", f) /\ UNCHANGED <<queue, stop, errors>>
    <2>1. /\ worker' \in [Edges -> WorkerRows]
          /\ \A d \in Edges : worker'[d] = IF d = e THEN [pc |-> "copied", file |-> f] ELSE worker[d]
        BY <1>1, <1>6, GotoRows
    <2>2. /\ disk' \in [Nodes -> [Files -> {"none", "ok", "wrong"}]]
          /\ \A m \in Nodes, g \in Files : disk'[m][g] = IF m = e + 1 /\ g = f THEN "ok" ELSE disk[m][g]
          /\ \A n \in Nodes \ {0}, g \in Files : n > LastNeededIndex(g) => disk'[n][g] = "none"
        BY <1>3, <1>6
    <2> HIDE DEF f
    <2>3. WaterfallShape'
        BY <1>1, <1>6, <2>1, <2>2 DEF WaterfallShape
    <2>4. NoFurther'
        BY <1>1, <1>2, <1>6, <2>1, <2>2 DEF NoFurther
    <2>5. ASSUME Unfailed PROVE SentinelsLast' /\ FilesAhead'
        <3>1. SentinelsLast /\ FilesAhead
            BY <2>5 DEF WaterfallInv
        <3>2. \A d \in Edges : worker'[d].pc = "ended" <=> worker[d].pc = "ended"
            BY <1>1, <2>1
        <3>3. \A d \in Edges : FedUpto(d)' <=> FedUpto(d)
            BY <1>1, <3>2, EdgesType DEF FedUpto
        <3>4. SentinelsLast'
            BY <1>1, <1>6, <3>1, <3>2, <3>3 DEF SentinelsLast
        <3>5. \A d \in Edges : \A g : /\ Holds(d, "copied", g) => Holds(d, "copied", g)'
                                      /\ Holds(d, "copying", g) /\ (d # e \/ g # f) => Holds(d, "copying", g)'
            BY <1>1, <2>1 DEF Holds, f
        <3>6. \A g : g = f => Holds(e, "copied", g)'
            BY <2>1 DEF Holds
        <3>7. ASSUME NEW n \in Nodes \ {0}, NEW g \in Files, g \in keep[n]
              PROVE  disk'[n][g] = "ok" \/ Before(g, n)'
            <4>1. CASE disk[n][g] = "ok"
                BY <2>2, <4>1
            <4>2. CASE Before(g, n)
                <5>1. CASE \E d \in Edges : d < n /\ Holds(d, "copying", g) /\ ~(d # e \/ g # f)
                    <6>1. g = f /\ e < n /\ n \in Nat /\ e \in Nat
                        BY <5>1, EdgesType
                    <6>2. CASE n = e + 1
                        BY <2>2, <6>1, <6>2
                    <6>3. CASE n # e + 1
                        <7>1. e + 1 < n
                            BY <6>1, <6>3
                        <7> QED BY <3>6, <6>1, <7>1 DEF Before
                    <6> QED BY <6>2, <6>3
                <5>2. CASE ~\E d \in Edges : d < n /\ Holds(d, "copying", g) /\ ~(d # e \/ g # f)
                    <6>1. \/ InSeq(g, toFeed)
                          \/ \E d \in Edges : d < n /\ (InSeq(g, queue[d]) \/ (Holds(d, "copying", g) /\ (d # e \/ g # f)))
                          \/ \E d \in Edges : d + 1 < n /\ Holds(d, "copied", g)
                        BY <4>2, <5>2 DEF Before
                    <6>2. Before(g, n)'
                        BY <1>1, <1>6, <3>5, <6>1 DEF Before
                    <6> QED BY <6>2
                <5> QED BY <5>1, <5>2
            <4> QED BY <3>1, <3>7, <4>1, <4>2 DEF FilesAhead
        <3>8. \A n \in Nodes : \A g : Upto(g, n) => Upto(g, n)'
            <4>1. \A d \in Edges : \A g : Holds(d, "copying", g) => Holds(d, "copying", g)' \/ Holds(d, "copied", g)'
                <5> SUFFICES ASSUME NEW d \in Edges, NEW g, Holds(d, "copying", g), d = e, g = f
                             PROVE  Holds(d, "copied", g)'
                    BY <3>5
                <5> QED BY <3>6
            <4> QED BY <1>1, <1>6, <3>5, <4>1 DEF Upto
        <3>9. ASSUME cleanup, NEW n \in Nodes \ {0}, NEW g \in Files, g \in Weights, g \notin keep[n]
              PROVE  disk'[n][g] = "none" \/ Upto(g, n)'
            <4>1. CASE n = e + 1 /\ g = f
                <5>1. e <= n
                    BY <4>1, EdgesType
                <5> QED BY <3>6, <4>1, <5>1 DEF Upto
            <4>2. CASE ~(n = e + 1 /\ g = f)
                <5>1. disk[n][g] = "none" \/ Upto(g, n)
                    BY <3>1, <3>9 DEF FilesAhead
                <5>2. disk'[n][g] = disk[n][g]
                    BY <2>2, <4>2
                <5> QED BY <3>8, <5>1, <5>2
            <4> QED BY <4>1, <4>2
        <3>10. FilesAhead'
            <4>1. UNCHANGED <<keep, cleanup>>
                BY <1>1
            <4> QED BY <3>7, <3>9, <4>1 DEF FilesAhead
        <3> QED BY <3>4, <3>10
    <2> QED BY <1>1, <1>6, <2>3, <2>4, <2>5 DEF WaterfallInv, Unfailed
<1> QED BY <1>4, <1>5, <1>6 DEF EdgeCopy

LEMMA EdgeForwardStep == ASSUME WaterfallInv, NEW e \in Edges, EdgeForward(e) PROVE WaterfallInv'
<1> DEFINE f == worker[e].file
           On == LastNeededIndex(f) > e + 1 /\ e + 1 \in Edges
<1>1. /\ WaterfallShape /\ NoFurther /\ worker[e].pc = "copied" /\ outcome # "ok"
      /\ UNCHANGED <<keep, cleanup, toFeed, outcome>> /\ e \in Nodes /\ e \in Nat
      /\ f \in Files /\ LastNeededIndex(f) > e
    BY EdgesType DEF WaterfallInv, EdgeForward, NoFurther
<1>2. \A g : LastNeededIndex(g)' = LastNeededIndex(g)
    BY <1>1, NeededAsBefore
<1>3. CASE EdgeRaises(e) /\ UNCHANGED disk
    BY <1>1, <1>3, EdgeRaisesStep DEF WaterfallShape, NoFurther
<1>4. CASE /\ disk' = IF MayRemove(e, f) THEN [disk EXCEPT ![e][f] = "none"] ELSE disk
           /\ queue' = IF On THEN [queue EXCEPT ![e + 1] = Append(queue[e + 1], f)] ELSE queue
           /\ Goto(e, "getting", Sentinel)
           /\ UNCHANGED <<stop, errors>>
    <2>1. /\ worker' \in [Edges -> WorkerRows]
          /\ \A d \in Edges : worker'[d] = IF d = e THEN [pc |-> "getting", file |-> Sentinel] ELSE worker[d]
        BY <1>1, <1>4, GotoRows
    <2> HIDE DEF f
    <2>2. /\ disk' \in [Nodes -> [Files -> {"none", "ok", "wrong"}]]
          /\ \A m \in Nodes, g \in Files :
                disk'[m][g] = IF MayRemove(e, f) /\ m = e /\ g = f THEN "none" ELSE disk[m][g]
        <3>1. CASE MayRemove(e, f)
            <4>1. f \in Files /\ e \in Nodes /\ DiskPut(e, f, "none")
                BY <1>1, <1>4, <3>1 DEF WaterfallShape, DiskPut
            <4>2. /\ disk' \in [Nodes -> [Files -> {"none", "ok", "wrong"}]]
                  /\ \A m \in Nodes, g \in Files : disk'[m][g] = IF m = e /\ g = f THEN "none" ELSE disk[m][g]
                BY <1>1, <4>1, DiskSet
            <4> QED BY <3>1, <4>2
        <3>2. CASE ~MayRemove(e, f)
            BY <1>1, <1>4, <3>2 DEF WaterfallShape
        <3> QED BY <3>1, <3>2
    <2> HIDE DEF On
    <2>3. /\ queue' \in [Edges -> Seq(Files \cup {Sentinel})]
          /\ \A d \in Edges : queue'[d] = IF On /\ d = e + 1 THEN Append(queue[d], f) ELSE queue[d]
          /\ \A d \in Edges : \A g : InSeq(g, queue'[d]) <=> InSeq(g, queue[d]) \/ (On /\ d = e + 1 /\ g = f)
        <3>1. queue \in [Edges -> Seq(Files \cup {Sentinel})]
            BY <1>1 DEF WaterfallShape
        <3>2. CASE On
            <4>1. e + 1 \in Edges /\ queue[e + 1] \in Seq(Files \cup {Sentinel}) /\ f \in Files \cup {Sentinel}
                BY <1>1, <3>1, <3>2 DEF On
            <4>2. /\ Append(queue[e + 1], f) \in Seq(Files \cup {Sentinel})
                  /\ \A g : InSeq(g, Append(queue[e + 1], f)) <=> InSeq(g, queue[e + 1]) \/ g = f
                BY <4>1, AppendedHolds
            <4>3. queue' = [queue EXCEPT ![e + 1] = Append(queue[e + 1], f)]
                BY <1>4, <3>2
            <4>4. \A d \in Edges : queue'[d] = IF d = e + 1 THEN Append(queue[d], f) ELSE queue[d]
                BY <3>1, <4>3
            <4>5. queue' \in [Edges -> Seq(Files \cup {Sentinel})]
                BY <3>1, <4>1, <4>2, <4>3
            <4> QED BY <3>2, <4>2, <4>4, <4>5
        <3>3. CASE ~On
            BY <1>4, <3>1, <3>3
        <3> QED BY <3>2, <3>3
    <2>4. WaterfallShape'
        BY <1>1, <2>1, <2>2, <2>3 DEF WaterfallShape
    <2>5. NoFurther'
        <3>1. \A d \in Edges, g \in Files : InSeq(g, queue'[d]) => LastNeededIndex(g) > d
            BY <1>1, <2>3 DEF NoFurther, On
        <3>2. \A d \in Edges : worker'[d].pc \in {"copying", "copied"} =>
                  worker'[d].file \in Files /\ LastNeededIndex(worker'[d].file) > d
            BY <1>1, <2>1 DEF NoFurther
        <3>3. \A n \in Nodes \ {0}, g \in Files : n > LastNeededIndex(g) => disk'[n][g] = "none"
            BY <1>1, <2>2 DEF NoFurther
        <3> QED BY <1>1, <1>2, <3>1, <3>2, <3>3 DEF NoFurther
    <2>6. ASSUME Unfailed PROVE SentinelsLast' /\ FilesAhead'
        <3>1. SentinelsLast /\ FilesAhead
            BY <2>6 DEF WaterfallInv
        <3>2. \A d \in Edges : worker'[d].pc = "ended" <=> worker[d].pc = "ended"
            BY <1>1, <2>1
        <3>3. \A d \in Edges : FedUpto(d)' <=> FedUpto(d)
            BY <1>1, <3>2, EdgesType DEF FedUpto
        <3>4. \A d \in Edges : On /\ d = e + 1 => ~InSeq(Sentinel, queue[d]) /\ worker[d].pc # "ended"
            <4> SUFFICES ASSUME NEW d \in Edges, d = e + 1 PROVE ~FedUpto(d)
                BY <3>1 DEF SentinelsLast
            <4>1. d # 0 /\ d - 1 = e
                BY EdgesType
            <4> QED BY <1>1, <4>1 DEF FedUpto
        <3>5. ASSUME NEW d \in Edges
              PROVE  /\ LastOnly(Sentinel, queue'[d])
                     /\ InSeq(Sentinel, queue'[d]) => FedUpto(d)'
                     /\ worker'[d].pc = "ended" => queue'[d] = <<>> /\ FedUpto(d)'
            <4>1. CASE On /\ d = e + 1
                <5>1. queue[d] \in Seq(Files \cup {Sentinel}) /\ f \in Files \cup {Sentinel} /\ f # Sentinel
                    BY <1>1, EdgesType DEF WaterfallShape
                <5>2. LastOnly(Sentinel, queue'[d])
                    <6>1. queue'[d] = Append(queue[d], f) /\ ~InSeq(Sentinel, queue[d])
                        BY <2>3, <3>4, <4>1
                    <6>2. \A x : ~InSeq(x, queue[d]) => LastOnly(x, Append(queue[d], f))
                        BY <5>1, AppendedHolds
                    <6> QED BY <6>1, <6>2
                <5>3. ~InSeq(Sentinel, queue'[d])
                    BY <2>3, <3>4, <4>1, <5>1
                <5> QED BY <3>2, <3>4, <4>1, <5>2, <5>3
            <4>2. CASE ~(On /\ d = e + 1)
                BY <2>3, <3>1, <3>2, <3>3, <4>2 DEF SentinelsLast
            <4> QED BY <4>1, <4>2
        <3>6. SentinelsLast'
            BY <1>1, <3>1, <3>5 DEF SentinelsLast
        <3>7. \A d \in Edges : \A g : /\ Holds(d, "copying", g) => Holds(d, "copying", g)'
                                      /\ Holds(d, "copied", g) /\ (d # e \/ g # f) => Holds(d, "copied", g)'
            BY <1>1, <2>1 DEF Holds, f
        <3>8. ASSUME NEW n \in Nodes, e + 1 < n, n <= LastNeededIndex(f) PROVE On
            <4>1. n \in Nat /\ LastNeededIndex(f) \in Nodes
                BY <1>1, LastNeeded, EdgesType DEF WaterfallShape
            <4>2. n <= LastNode /\ LastNeededIndex(f) \in Nat /\ LastNode \in Nat
                BY <4>1, EdgesType
            <4>3. e + 1 \in Edges
                BY <1>1, <3>8, <4>1, <4>2 DEF Edges
            <4> QED BY <1>1, <3>8, <4>1, <4>2, <4>3 DEF On
        <3>9. ASSUME NEW n \in Nodes \ {0}, NEW g \in Files, g \in keep[n]
              PROVE  disk'[n][g] = "ok" \/ Before(g, n)'
            <4>1. CASE disk[n][g] = "ok"
                <5>1. ~(MayRemove(e, f) /\ n = e /\ g = f)
                    BY <3>9 DEF MayRemove
                <5> QED BY <2>2, <4>1, <5>1
            <4>2. CASE Before(g, n)
                <5>1. CASE \E d \in Edges : d + 1 < n /\ Holds(d, "copied", g) /\ ~(d # e \/ g # f)
                    <6>1. g = f /\ e + 1 < n
                        BY <5>1
                    <6>2. n <= LastNeededIndex(f)
                        BY <1>1, <3>9, <6>1, LastNeeded DEF WaterfallShape
                    <6>3. On /\ e + 1 \in Edges
                        BY <3>8, <6>1, <6>2 DEF On
                    <6>4. InSeq(g, queue'[e + 1])
                        BY <2>3, <6>1, <6>3
                    <6> QED BY <6>1, <6>3, <6>4 DEF Before
                <5>2. CASE ~\E d \in Edges : d + 1 < n /\ Holds(d, "copied", g) /\ ~(d # e \/ g # f)
                    <6>1. \/ InSeq(g, toFeed)
                          \/ \E d \in Edges : d < n /\ (InSeq(g, queue[d]) \/ Holds(d, "copying", g))
                          \/ \E d \in Edges : d + 1 < n /\ Holds(d, "copied", g) /\ (d # e \/ g # f)
                        BY <4>2, <5>2 DEF Before
                    <6>2. Before(g, n)'
                        BY <1>1, <2>3, <3>7, <6>1 DEF Before
                    <6> QED BY <6>2
                <5> QED BY <5>1, <5>2
            <4> QED BY <3>1, <3>9, <4>1, <4>2 DEF FilesAhead
        <3>10. ASSUME cleanup, NEW n \in Nodes \ {0}, NEW g \in Files, g \in Weights, g \notin keep[n]
               PROVE  disk'[n][g] = "none" \/ Upto(g, n)'
            <4>1. CASE disk[n][g] = "none"
                BY <2>2, <4>1
            <4>2. CASE Upto(g, n)
                <5>1. CASE \E d \in Edges : d <= n /\ Holds(d, "copied", g) /\ ~(d # e \/ g # f)
                    <6>1. g = f /\ e <= n /\ n \in Nat /\ n # 0
                        BY <5>1, EdgesType
                    <6>2. CASE n = e
                        <7>1. MayRemove(e, f)
                            BY <3>10, <6>1, <6>2 DEF MayRemove
                        <7> QED BY <2>2, <6>1, <6>2, <7>1
                    <6>3. CASE n # e
                        <7>0. /\ LastNeededIndex(f) \in Nodes
                              /\ LastNeededIndex(f) # 0 => f \in keep[LastNeededIndex(f)]
                            BY <1>1, LastNeeded DEF WaterfallShape
                        <7>1. /\ e + 1 <= n /\ LastNeededIndex(f) \in Nodes /\ LastNeededIndex(f) \in Nat
                              /\ n # LastNeededIndex(f)
                            <8>1. n # LastNeededIndex(f)
                                BY <3>10, <6>1, <7>0
                            <8>2. e + 1 <= n
                                BY <1>1, <6>1, <6>3
                            <8> QED BY <7>0, <8>1, <8>2, EdgesType
                        <7>2. CASE n > LastNeededIndex(f)
                            BY <2>5, <1>2, <6>1, <7>2 DEF NoFurther
                        <7>3. CASE n < LastNeededIndex(f)
                            <8>1. e + 1 < LastNeededIndex(f) /\ e + 1 \in Edges
                                <9>1. LastNeededIndex(f) <= LastNode /\ LastNode \in Nat
                                    BY <7>1, EdgesType
                                <9> QED BY <1>1, <6>1, <7>1, <7>3, <9>1 DEF Edges
                            <8>2. On
                                BY <1>1, <7>1, <8>1 DEF On
                            <8>3. InSeq(g, queue'[e + 1])
                                BY <2>3, <6>1, <8>1, <8>2
                            <8> QED BY <7>1, <8>1, <8>3 DEF Upto
                        <7> QED BY <6>1, <7>1, <7>2, <7>3
                    <6> QED BY <6>2, <6>3
                <5>2. CASE ~\E d \in Edges : d <= n /\ Holds(d, "copied", g) /\ ~(d # e \/ g # f)
                    <6>1. \/ InSeq(g, toFeed)
                          \/ \E d \in Edges : d <= n /\ (\/ InSeq(g, queue[d]) \/ Holds(d, "copying", g)
                                                         \/ Holds(d, "copied", g) /\ (d # e \/ g # f))
                        BY <4>2, <5>2 DEF Upto
                    <6>2. Upto(g, n)'
                        BY <1>1, <2>3, <3>7, <6>1 DEF Upto
                    <6> QED BY <6>2
                <5> QED BY <5>1, <5>2
            <4> QED BY <3>1, <3>10, <4>1, <4>2 DEF FilesAhead
        <3>11. FilesAhead'
            <4>1. UNCHANGED <<keep, cleanup>>
                BY <1>1
            <4> QED BY <3>9, <3>10, <4>1 DEF FilesAhead
        <3> QED BY <3>6, <3>11
    <2> QED BY <1>1, <1>4, <2>4, <2>5, <2>6 DEF WaterfallInv, Unfailed
<1> QED BY <1>3, <1>4 DEF EdgeForward

LEMMA WfJoinStep == ASSUME WaterfallInv, WfJoin PROVE WaterfallInv'
<1>1. /\ UNCHANGED <<keep, cleanup, disk, toFeed, queue, worker, stop, errors>>
      /\ outcome = "running" /\ toFeed = <<>> /\ (\A e \in Edges : worker[e].pc = "ended")
      /\ outcome' = IF errors = {} THEN "ok" ELSE "raised"
    BY DEF WfJoin
<1>2. WaterfallShape' /\ NoFurther'
    <2>1. \A f : LastNeededIndex(f)' = LastNeededIndex(f)
        BY <1>1, NeededAsBefore
    <2> QED BY <1>1, <2>1 DEF WaterfallInv, WaterfallShape, NoFurther
<1>3. ASSUME Unfailed' PROVE ~stop' /\ SentinelsLast' /\ FilesAhead'
    <2>1. ~stop /\ SentinelsLast /\ FilesAhead
        BY <1>1, <1>3 DEF WaterfallInv, Unfailed
    <2> QED BY <1>1, <2>1 DEF SentinelsLast, FedUpto, FilesAhead, Before, Upto, Holds
<1> QED BY <1>1, <1>2, <1>3 DEF WaterfallInv

(* What a killed tool was copying is on its way to a node that needs it. *)
LEMMA WfKillStep == ASSUME WaterfallInv, WfKill PROVE WaterfallInv'
<1>1. /\ WaterfallShape /\ NoFurther /\ UNCHANGED <<keep, cleanup>> /\ outcome' = "raised"
      /\ toFeed' = <<>> /\ queue' = [e \in Edges |-> <<>>]
      /\ worker' = [e \in Edges |-> [pc |-> "ended", file |-> Sentinel]]
    BY DEF WaterfallInv, WfKill
<1>2. PICK now \in [Edges -> {"same", "ok", "wrong"}] :
          disk' = [n \in Nodes |-> [f \in Files |->
                      IF /\ n > 0 /\ worker[n - 1] = [pc |-> "copying", file |-> f]
                         /\ disk[n - 1][f] = "ok" /\ now[n - 1] # "same"
                      THEN now[n - 1] ELSE disk[n][f]]]
    BY DEF WfKill
<1>3. ASSUME NEW n \in Nodes, NEW f \in Files
      PROVE  /\ disk'[n][f] \in {"none", "ok", "wrong"}
             /\ disk'[n][f] = disk[n][f] \/ (n > 0 /\ worker[n - 1] = [pc |-> "copying", file |-> f])
    <2>1. disk[n][f] \in {"none", "ok", "wrong"}
        BY <1>1 DEF WaterfallShape
    <2>2. n > 0 => n - 1 \in Edges
        BY EdgesType DEF Nodes, Edges
    <2>3. n > 0 /\ now[n - 1] # "same" => now[n - 1] \in {"none", "ok", "wrong"}
        BY <2>2
    <2> QED BY <1>2, <2>1, <2>3
<1>4. disk' \in [Nodes -> [Files -> {"none", "ok", "wrong"}]]
    BY <1>2, <1>3
<1>5. WaterfallShape'
    <2>1. worker' \in [Edges -> WorkerRows]
        BY <1>1 DEF WorkerRows
    <2> QED BY <1>1, <1>4, <2>1 DEF WaterfallShape
<1>6. ASSUME NEW n \in Nodes \ {0}, NEW f \in Files, n > LastNeededIndex(f) PROVE disk'[n][f] = "none"
    <2>1. n \in Nat /\ n - 1 \in Edges /\ n - 1 + 1 = n
        BY EdgesType DEF Nodes, Edges
    <2>2. worker[n - 1] # [pc |-> "copying", file |-> f]
        <3> SUFFICES ASSUME worker[n - 1] = [pc |-> "copying", file |-> f] PROVE FALSE
            OBVIOUS
        <3>1. worker[n - 1].pc = "copying" /\ worker[n - 1].file = f
            OBVIOUS
        <3>2. LastNeededIndex(f) > n - 1 /\ LastNeededIndex(f) \in Nat
            <4>1. LastNeededIndex(f) \in Nodes
                BY <1>1, LastNeeded DEF WaterfallShape
            <4> QED BY <1>1, <2>1, <3>1, <4>1, EdgesType DEF NoFurther
        <3> QED BY <1>6, <2>1, <3>2
    <2> QED BY <1>1, <1>3, <1>6, <2>2 DEF NoFurther
<1>7. NoFurther'
    <2>1. \A f : LastNeededIndex(f)' = LastNeededIndex(f)
        BY <1>1, NeededAsBefore
    <2>2. \A e \in Edges : worker'[e].pc = "ended" /\ queue'[e] = <<>>
        BY <1>1
    <2>3. \A f : ~InSeq(f, <<>>)
        BY DEF InSeq
    <2>4. /\ \A f \in Files : ~InSeq(f, toFeed')
          /\ \A e \in Edges, f \in Files : ~InSeq(f, queue'[e])
        BY <1>1, <2>2, <2>3
    <2>5. \A n \in Nodes \ {0}, f \in Files : n > LastNeededIndex(f)' => disk'[n][f] = "none"
        BY <1>6, <2>1
    <2> QED BY <2>2, <2>4, <2>5 DEF NoFurther
<1> QED BY <1>1, <1>5, <1>7 DEF WaterfallInv, Unfailed

LEMMA WaterfallInvStep == WaterfallInv /\ [WaterfallNext]_waterfallVars => WaterfallInv'
<1> SUFFICES ASSUME WaterfallInv, [WaterfallNext]_waterfallVars PROVE WaterfallInv'
    OBVIOUS
<1>1. ASSUME NEW e \in Edges, EdgeGet(e) PROVE WaterfallInv'
    BY <1>1, EdgeGetSentinel, EdgeGetFile
<1>2. ASSUME NEW e \in Edges, EdgeStart(e) \/ EdgeCopy(e) \/ EdgeForward(e) PROVE WaterfallInv'
    BY <1>2, EdgeStartStep, EdgeCopyStep, EdgeForwardStep
<1>3. CASE WfRun \/ WfFeed \/ WfJoin \/ WfKill
    BY <1>3, WfRunStep, WfFeedStep, WfJoinStep, WfKillStep
<1>4. CASE UNCHANGED waterfallVars
    <2>1. \A f : LastNeededIndex(f)' = LastNeededIndex(f)
        BY <1>4, NeededAsBefore DEF waterfallVars
    <2>2. WaterfallShape' /\ NoFurther'
        BY <1>4, <2>1 DEF WaterfallInv, WaterfallShape, NoFurther, waterfallVars
    <2>3. Unfailed' => ~stop' /\ SentinelsLast' /\ FilesAhead'
        BY <1>4 DEF WaterfallInv, Unfailed, SentinelsLast, FedUpto, FilesAhead, Before, Upto, Holds, waterfallVars
    <2> QED BY <1>4, <2>2, <2>3 DEF WaterfallInv, waterfallVars
<1> QED BY <1>1, <1>2, <1>3, <1>4 DEF WaterfallNext

(* When all threads have ended nothing is ahead any more. *)
LEMMA WaterfallInvDelivers == WaterfallInv => WaterfallDelivers
<1> SUFFICES ASSUME WaterfallInv, outcome = "ok", NEW n \in Nodes \ {0}, NEW f \in Files
             PROVE  /\ f \in keep[n] => disk[n][f] = "ok"
                    /\ cleanup /\ f \in Weights \ keep[n] => disk[n][f] = "none"
    BY DEF WaterfallDelivers
<1>1. /\ toFeed = <<>> /\ SentinelsLast /\ FilesAhead
      /\ \A e \in Edges : worker[e].pc = "ended" /\ queue[e] = <<>>
    BY DEF WaterfallInv, Unfailed, SentinelsLast
<1>2. ~Before(f, n) /\ ~Upto(f, n)
    BY <1>1 DEF Before, Upto, Holds, InSeq
<1> QED BY <1>1, <1>2 DEF FilesAhead

-----------------------------------------------------------------------------
(* Tensors of a channel.                                                    *)

(* The way the receiver awaits a tensor, and how many go the same way       *)
(* before a place.                                                          *)
Lane(t) == IF t.bytes = 0 THEN "none" ELSE IF ReceiverUsesTcp(t) THEN "tcp" ELSE SentOn(t)
Earlier(lane, p) == {id \in TensorIds : Lane(Tensor(id)) = lane /\ Ahead(id, p)}
Rank(lane, p) == Cardinality(Earlier(lane, p))
Following(p) == IF p[2] < Len(script[p[1]]) THEN <<p[1], p[2] + 1>> ELSE <<p[1] + 1, 1>>

SndAt == <<snd.d, snd.i>>
RcvAt == IF rcv.pc = "wait" THEN <<rcv.d + 1, 1>> ELSE <<rcv.d, rcv.i>>
SendsDone == IF snd.pc = "ready" THEN sendSeq - 1 ELSE sendSeq
NextIn == IF rcv.pc = "dict" THEN rcv.d ELSE rcv.d + 1
LastOut == IF snd.pc = "dict" THEN snd.d - 1 ELSE snd.d

(* A side is at a tensor of the script. *)
Sides(pcs) == [pc : pcs, d : Nat, i : Nat]
At(side) == side.d \in DOMAIN script /\ side.i \in DOMAIN script[side.d]
Messages == [seq : Nat, bytes : Nat, ports : Nat, id : TensorIds]
ChannelShape ==
    /\ script \in Scripts /\ transport \in Transports /\ broken \in BOOLEAN
    /\ snd \in Sides({"dict", "tensor", "ready", "done", "raised"}) /\ At(snd)
    /\ rcv \in Sides({"dict", "tensor", "wait", "done", "raised"}) /\ At(rcv)
    /\ metadata \in Seq(Nat) /\ sendSeq \in Nat /\ recvSeq \in Nat
    /\ plain \in [Devices -> [sent : Seq(TensorIds), posted : Seq(TensorIds)]]
    /\ ready \in Seq(Messages)
    /\ stripesOf \in [TensorIds -> [0..MaxTcpStripes - 1 -> {"none", "listening", "sending", "arrived", "failed"}]]

(* The groups of which both sides think alike. *)
Agreed(dev) == dev = "cpu" \/ ~transport.tcp

(* The tensors over TCP are counted to a place p of the sender or, once it  *)
(* went past a divided tensor, to that one: there its count stays.          *)
WentBy(id, p) == id \in TensorIds /\ Divided(id) /\ Ahead(id, p)
CountedTo(n, p) == \E x \in Nat \X Nat : n = Rank("tcp", x) /\ (x = p \/ WentBy(x, p))
PassedAny(p) == \E id \in TensorIds : Divided(id) /\ Ahead(id, p)

(* The tensors of a lane in the order of the script. *)
InOrder(dev, s) == \A k \in DOMAIN s : \A id \in TensorIds :
                       id = s[k] => Lane(Tensor(id)) = dev /\ Rank(dev, id) = k - 1
SenderAt(p) ==
    /\ snd.pc \in {"dict", "tensor", "ready"} =>
          /\ \A dev \in Devices : Agreed(dev) => Len(plain[dev].sent) = Rank(dev, p)
          /\ \A n \in Int : n = SendsDone => CountedTo(n, p)
    /\ snd.pc = "ready" => Tensor(p).bytes > 0 /\ SenderUsesTcp(Tensor(p))
    /\ snd.pc \in {"tensor", "ready"} => ~Conflict
    /\ snd.pc = "raised" => Conflict \/ PassedAny(p)
SenderCounts ==
    /\ \A dev \in Devices : Agreed(dev) => InOrder(dev, plain[dev].sent)
    /\ \A p \in Nat \X Nat : p = SndAt => SenderAt(p)
ReceiverAt(p) ==
    rcv.pc \in {"dict", "tensor", "wait"} =>
        recvSeq = Rank("tcp", p) /\ \A dev \in Devices : Len(plain[dev].posted) = Rank(dev, p)
ReceiverCounts ==
    /\ rcv.pc = "dict" => rcv.i = 1
    /\ \A dev \in Devices : InOrder(dev, plain[dev].posted)
    /\ \A p \in Nat \X Nat : p = RcvAt => ReceiverAt(p)

(* A ready message is for the tensor over TCP that its number counts to. *)
Announces(r, n) ==
    /\ r.seq = n /\ Rank("tcp", r.id) = n /\ Lane(Tensor(r.id)) = "tcp"
    /\ r.bytes = WireBytes(Tensor(r.id)) /\ r.ports = TcpStripeCount(r.bytes)
ReadyInTurn ==
    /\ recvSeq = SendsDone + Len(ready)
    /\ \A j \in DOMAIN ready : \A r \in Messages : r = ready[j] => \A n \in Nat : n = SendsDone + j - 1 => Announces(r, n)
MetadataInTurn ==
    rcv.pc # "raised" =>
        /\ snd.pc # "raised" => Len(metadata) = LastOut - NextIn + 1
        /\ \A j \in DOMAIN metadata : metadata[j] = NextIn + j - 1
OnlyBreaks ==
    /\ rcv.pc = "raised" => Conflict \/ broken
    /\ \A id \in TensorIds, k \in 0..MaxTcpStripes - 1 : stripesOf[id][k] = "failed" => broken
ChannelInv ==
    /\ ChannelShape /\ SenderCounts /\ ReceiverCounts
    /\ ReadyInTurn /\ MetadataInTurn /\ OnlyBreaks

(* The tensors of a script are finitely many, each at a place of its own. *)
LEMMA ScriptPlaces ==
    ASSUME script \in Scripts
    PROVE  /\ Len(script) \in Nat \ {0} /\ DOMAIN script = 1..Len(script)
           /\ \A d \in DOMAIN script : Len(script[d]) \in Nat \ {0} /\ DOMAIN script[d] = 1..Len(script[d])
           /\ \A d \in DOMAIN script : \A i \in DOMAIN script[d] : <<d, i>> \in TensorIds
           /\ \A id \in TensorIds :
                 /\ id = <<id[1], id[2]>> /\ id[1] \in DOMAIN script /\ id[2] \in DOMAIN script[id[1]]
                 /\ id[1] \in Nat \ {0} /\ id[2] \in Nat \ {0} /\ id[2] <= Len(script[id[1]])
                 /\ Tensor(id) \in [device : Devices, bytes : Nat, gather : BOOLEAN]
           /\ IsFiniteSet(TensorIds)
<1> DEFINE Rows == [device : Devices, bytes : Nat, gather : BOOLEAN]
<1>1. script \in Seq(Seq(Rows) \ {<<>>}) /\ script # <<>>
    BY ChannelAssumption
<1> HIDE DEF Rows
<1>2. Len(script) \in Nat \ {0} /\ DOMAIN script = 1..Len(script)
    BY <1>1
<1>3. \A d \in DOMAIN script : script[d] \in Seq(Rows) /\ script[d] # <<>>
    BY <1>1
<1>4. \A d \in DOMAIN script : Len(script[d]) \in Nat \ {0} /\ DOMAIN script[d] = 1..Len(script[d])
    BY <1>3
<1>5. \A d \in DOMAIN script : \A i \in DOMAIN script[d] : <<d, i>> \in TensorIds
    BY DEF TensorIds, IdsOf
<1>6. ASSUME NEW id \in TensorIds
      PROVE  /\ id = <<id[1], id[2]>> /\ id[1] \in DOMAIN script /\ id[2] \in DOMAIN script[id[1]]
             /\ id[1] \in Nat \ {0} /\ id[2] \in Nat \ {0} /\ id[2] <= Len(script[id[1]])
             /\ Tensor(id) \in Rows
    <2>1. PICK d \in DOMAIN script : id \in {d} \X DOMAIN script[d]
        BY DEF TensorIds, IdsOf
    <2>2. id = <<id[1], id[2]>> /\ id[1] = d /\ id[2] \in DOMAIN script[d]
        BY <2>1
    <2>3. d \in Nat \ {0} /\ id[2] \in Nat \ {0} /\ id[2] <= Len(script[d])
        BY <1>2, <1>4, <2>2
    <2>4. script[d][id[2]] \in Rows
        BY <1>3, <2>2
    <2> QED BY <2>2, <2>3, <2>4 DEF Tensor
<1>7. IsFiniteSet(TensorIds)
    <2> DEFINE f == [d \in DOMAIN script |-> {d} \X DOMAIN script[d]]
               T == {{d} \X DOMAIN script[d] : d \in DOMAIN script}
    <2>1. IsFiniteSet(DOMAIN script)
        BY <1>2, FS_Interval
    <2>2. \A d \in DOMAIN script : IsFiniteSet({d} \X DOMAIN script[d])
        <3> SUFFICES ASSUME NEW d \in DOMAIN script PROVE IsFiniteSet({d} \X DOMAIN script[d])
            OBVIOUS
        <3>1. IsFiniteSet(DOMAIN script[d]) /\ IsFiniteSet({d})
            <4> DEFINE n == Len(script[d])
            <4>1. n \in Int /\ 1 \in Int /\ DOMAIN script[d] = 1..n
                BY <1>4
            <4> HIDE DEF n
            <4>2. IsFiniteSet(1..n)
                BY <4>1, FS_Interval
            <4>3. IsFiniteSet({d})
                BY FS_Singleton
            <4> QED BY <4>1, <4>2, <4>3
        <3> QED BY <3>1, FS_Product
    <2>3. f \in Surjection(DOMAIN script, T)
        BY DEF Surjection
    <2>4. IsFiniteSet(T) /\ \A t \in T : IsFiniteSet(t)
        <3>1. \A t \in T : IsFiniteSet(t)
            BY <2>2
        <3> HIDE DEF f, T
        <3> QED BY <2>1, <2>3, <3>1, FS_Surjection
    <2>5. TensorIds = UNION T
        BY DEF TensorIds, IdsOf
    <2> HIDE DEF T
    <2> QED BY <2>4, <2>5, FS_UNION
<1> QED BY <1>2, <1>4, <1>5, <1>6, <1>7 DEF Rows

LEMMA RankType ==
    ASSUME script \in Scripts
    PROVE  \A lane, p : IsFiniteSet(Earlier(lane, p)) /\ Rank(lane, p) \in Nat
<1> TAKE lane, p
<1>1. Earlier(lane, p) \in SUBSET TensorIds
    BY DEF Earlier
<1>2. IsFiniteSet(Earlier(lane, p))
    BY <1>1, ScriptPlaces, FS_Subset
<1> QED BY <1>2, FS_CardinalityType DEF Rank

LEMMA RankAtStart ==
    ASSUME script \in Scripts
    PROVE  \A lane : Rank(lane, <<1, 1>>) = 0
<1> TAKE lane
<1>1. ASSUME NEW id \in TensorIds PROVE ~Ahead(id, <<1, 1>>)
    BY ScriptPlaces DEF Ahead
<1>2. Earlier(lane, <<1, 1>>) = {}
    BY <1>1 DEF Earlier
<1> QED BY <1>2, FS_EmptySet DEF Rank

(* One tensor further. *)
LEMMA AheadFollowing ==
    ASSUME script \in Scripts, NEW p \in TensorIds, NEW id \in TensorIds
    PROVE  Ahead(id, Following(p)) <=> Ahead(id, p) \/ id = p
<1>0. /\ p[1] \in DOMAIN script /\ p[1] \in Nat \ {0} /\ p[2] \in Nat \ {0} /\ p = <<p[1], p[2]>>
      /\ Len(script[p[1]]) \in Nat /\ p[2] <= Len(script[p[1]])
    BY ScriptPlaces
<1>1. /\ id[1] \in Nat \ {0} /\ id[2] \in Nat \ {0} /\ id[2] <= Len(script[id[1]])
      /\ id = <<id[1], id[2]>> /\ Len(script[id[1]]) \in Nat
    BY ScriptPlaces
<1>2. id = p <=> id[1] = p[1] /\ id[2] = p[2]
    BY <1>0, <1>1
<1>3. CASE p[2] < Len(script[p[1]])
    <2>1. Following(p)[1] = p[1] /\ Following(p)[2] = p[2] + 1
        BY <1>3 DEF Following
    <2>2. id[2] < p[2] + 1 <=> id[2] < p[2] \/ id[2] = p[2]
        BY <1>0, <1>1
    <2>3. ~(id[1] < p[1] /\ id[1] = p[1])
        BY <1>0, <1>1
    <2> QED BY <1>2, <2>1, <2>2, <2>3 DEF Ahead
<1>4. CASE ~(p[2] < Len(script[p[1]]))
    <2>1. Following(p)[1] = p[1] + 1 /\ Following(p)[2] = 1
        BY <1>4 DEF Following
    <2>2. p[2] = Len(script[p[1]])
        BY <1>0, <1>4
    <2>3. id[1] < p[1] + 1 <=> id[1] < p[1] \/ id[1] = p[1]
        BY <1>0, <1>1
    <2>4. id[1] = p[1] => id[2] < p[2] \/ id[2] = p[2]
        <3> SUFFICES ASSUME id[1] = p[1] PROVE id[2] < p[2] \/ id[2] = p[2]
            OBVIOUS
        <3>1. id[2] <= p[2]
            BY <1>1, <2>2
        <3> QED BY <1>0, <1>1, <3>1
    <2>5. ~(id[2] < 1)
        BY <1>1
    <2> QED BY <1>2, <2>1, <2>3, <2>4, <2>5 DEF Ahead
<1> QED BY <1>3, <1>4

LEMMA RankFollowing ==
    ASSUME script \in Scripts, NEW p \in TensorIds
    PROVE  \A lane : Rank(lane, Following(p)) = IF Lane(Tensor(p)) = lane THEN Rank(lane, p) + 1 ELSE Rank(lane, p)
<1> TAKE lane
<1>1. p[1] \in Nat /\ p[2] \in Nat
    BY ScriptPlaces
<1>2. \A id \in TensorIds : Ahead(id, Following(p)) <=> Ahead(id, p) \/ id = p
    BY AheadFollowing
<1>3. p \notin Earlier(lane, p)
    BY <1>1 DEF Earlier, Ahead
<1>4. CASE Lane(Tensor(p)) = lane
    <2>1. Earlier(lane, Following(p)) = Earlier(lane, p) \cup {p}
        BY <1>2, <1>4 DEF Earlier
    <2>2. Cardinality(Earlier(lane, p) \cup {p}) = Cardinality(Earlier(lane, p)) + 1
        BY <1>3, RankType, FS_AddElement
    <2> QED BY <1>4, <2>1, <2>2 DEF Rank
<1>5. CASE Lane(Tensor(p)) # lane
    <2>1. Earlier(lane, Following(p)) = Earlier(lane, p)
        BY <1>2, <1>5 DEF Earlier
    <2> QED BY <1>5, <2>1 DEF Rank
<1> QED BY <1>4, <1>5

(* No two tensors of a lane have the same number. *)
LEMMA RankOnce ==
    ASSUME script \in Scripts, NEW lane, NEW a \in TensorIds, NEW b \in TensorIds,
           Lane(Tensor(a)) = lane, Lane(Tensor(b)) = lane, Rank(lane, a) = Rank(lane, b)
    PROVE  a = b
<1>1. ASSUME NEW x \in TensorIds, NEW y \in TensorIds, Lane(Tensor(x)) = lane, Ahead(x, y)
      PROVE  Rank(lane, x) # Rank(lane, y)
    <2>0. /\ x[1] \in Nat /\ x[2] \in Nat /\ y[1] \in Nat /\ y[2] \in Nat
          /\ \A z \in TensorIds : z[1] \in Nat /\ z[2] \in Nat
        BY ScriptPlaces
    <2>1. \A z \in TensorIds : Ahead(z, x) => Ahead(z, y)
        BY <1>1, <2>0 DEF Ahead
    <2>2. x \in Earlier(lane, y) /\ x \notin Earlier(lane, x)
        BY <1>1, <2>0 DEF Earlier, Ahead
    <2>3. Earlier(lane, x) \in SUBSET Earlier(lane, y) /\ Earlier(lane, x) # Earlier(lane, y)
        BY <2>1, <2>2 DEF Earlier
    <2> QED BY <2>3, RankType, FS_Subset DEF Rank
<1>2. Ahead(a, b) \/ Ahead(b, a) \/ a = b
    <2>1. /\ a[1] \in Nat /\ a[2] \in Nat /\ b[1] \in Nat /\ b[2] \in Nat
          /\ a = <<a[1], a[2]>> /\ b = <<b[1], b[2]>>
        BY ScriptPlaces
    <2>2. a[1] = b[1] /\ a[2] = b[2] => a = b
        BY <2>1
    <2> QED BY <2>1, <2>2 DEF Ahead
<1> QED BY <1>1, <1>2

(* What only depends on the script and the transport. *)
LEMMA LanesKept ==
    ASSUME UNCHANGED <<script, transport>>
    PROVE  /\ TensorIds' = TensorIds /\ Messages' = Messages /\ (Conflict' <=> Conflict)
           /\ \A id : Tensor(id)' = Tensor(id)
           /\ \A t : Lane(t)' = Lane(t)
           /\ \A lane, p : Rank(lane, p)' = Rank(lane, p)
           /\ \A dev, s : InOrder(dev, s)' <=> InOrder(dev, s)
           /\ \A r, n : Announces(r, n)' <=> Announces(r, n)
           /\ \A t : SenderUsesTcp(t)' <=> SenderUsesTcp(t)
           /\ \A dev : Agreed(dev)' <=> Agreed(dev)
           /\ \A n, p : CountedTo(n, p)' <=> CountedTo(n, p)
           /\ \A p : PassedAny(p)' <=> PassedAny(p)
<1>1. TensorIds' = TensorIds /\ (Conflict' <=> Conflict)
    BY DEF TensorIds, Conflict
<1>2. (\A id : Tensor(id)' = Tensor(id)) /\ (\A t : Lane(t)' = Lane(t))
    BY DEF Tensor, Lane, ReceiverUsesTcp, SentOn
<1>3. \A lane, p : Earlier(lane, p)' = Earlier(lane, p)
    BY <1>1, <1>2 DEF Earlier
<1>4. \A lane, p : Rank(lane, p)' = Rank(lane, p)
    BY <1>3 DEF Rank
<1>5. \A dev, s : InOrder(dev, s)' <=> InOrder(dev, s)
    BY <1>1, <1>2, <1>4 DEF InOrder
<1>6. \A r, n : Announces(r, n)' <=> Announces(r, n)
    BY <1>2, <1>4 DEF Announces
<1>7. Messages' = Messages
    BY <1>1 DEF Messages
<1>8. (\A t : SenderUsesTcp(t)' <=> SenderUsesTcp(t)) /\ (\A dev : Agreed(dev)' <=> Agreed(dev))
    BY DEF SenderUsesTcp, WireBytes, Agreed
<1>9. \A id : Divided(id)' <=> Divided(id)
    BY <1>2 DEF Divided, WireBytes
<1>10. \A id, p : WentBy(id, p)' <=> WentBy(id, p)
    BY <1>1, <1>9 DEF WentBy, Ahead
<1>11. \A n, p : CountedTo(n, p)' <=> CountedTo(n, p)
    BY <1>4, <1>10 DEF CountedTo
<1>12. \A p : PassedAny(p)' <=> PassedAny(p)
    BY <1>1, <1>9 DEF PassedAny, Ahead
<1> QED BY <1>1, <1>2, <1>4, <1>5, <1>6, <1>7, <1>8, <1>11, <1>12

LEMMA InOrderAppended ==
    ASSUME script \in Scripts, NEW dev, NEW s \in Seq(TensorIds), InOrder(dev, s),
           NEW id \in TensorIds, Lane(Tensor(id)) = dev, Len(s) = Rank(dev, id)
    PROVE  InOrder(dev, Append(s, id))
<1>1. /\ Len(s) \in Nat /\ DOMAIN s = 1..Len(s) /\ DOMAIN Append(s, id) = 1..Len(s) + 1
      /\ \A k \in 1..Len(s) : Append(s, id)[k] = s[k]
      /\ Append(s, id)[Len(s) + 1] = id
    OBVIOUS
<1> SUFFICES ASSUME NEW k \in 1..Len(s) + 1
             PROVE  /\ Append(s, id)[k] \in TensorIds
                    /\ Lane(Tensor(Append(s, id)[k])) = dev /\ Rank(dev, Append(s, id)[k]) = k - 1
    BY <1>1 DEF InOrder
<1>2. CASE k \in 1..Len(s)
    BY <1>1, <1>2 DEF InOrder
<1>3. CASE k = Len(s) + 1
    <2>1. k - 1 = Len(s)
        BY <1>1, <1>3
    <2> QED BY <1>1, <1>3, <2>1
<1> QED BY <1>1, <1>2, <1>3

LEMMA StripeCountOfTcp ==
    ASSUME NEW b \in Nat PROVE TcpStripeCount(b) \in Nat /\ (b > 0 => TcpStripeCount(b) > 0)
<1> DEFINE q == (b + StripeMinBytes - 1) \div StripeMinBytes
<1>1. StripeMinBytes \in Nat \ {0} /\ MaxTcpStripes \in Nat \ {0}
    BY ChannelAssumption
<1>2. q \in Nat /\ (b > 0 => q > 0)
    <2>1. b + StripeMinBytes - 1 \in Nat
        BY <1>1
    <2> DEFINE a == b + StripeMinBytes - 1
    <2>2. a \in Nat /\ (b > 0 => a >= StripeMinBytes)
        BY <1>1
    <2> HIDE DEF a
    <2>3. /\ a \div StripeMinBytes \in Nat /\ a % StripeMinBytes \in Nat /\ a % StripeMinBytes < StripeMinBytes
          /\ a = StripeMinBytes * (a \div StripeMinBytes) + (a % StripeMinBytes)
        BY <1>1, <2>2, Division
    <2> DEFINE w == a \div StripeMinBytes
    <2>4. w = 0 => StripeMinBytes * w = 0
        BY <1>1
    <2>5. b > 0 => w # 0
        <3> HIDE DEF w
        <3> QED BY <1>1, <2>2, <2>3, <2>4 DEF w
    <2> QED BY <2>3, <2>5 DEF a
<1> HIDE DEF q
<1>3. TcpStripeCount(b) = Smaller(MaxTcpStripes, Smaller(q, b))
    BY DEF TcpStripeCount, q
<1> QED BY <1>1, <1>2, <1>3 DEF Smaller

-----------------------------------------------------------------------------
(* Both sides choose the same way, divided tensors excepted.                *)
LEMMA LanesAgree ==
    ASSUME script \in Scripts, transport \in Transports, NEW id \in TensorIds
    PROVE  /\ Lane(Tensor(id)) = "none" <=> Tensor(id).bytes = 0
           /\ Tensor(id).bytes > 0 /\ ReceiverUsesTcp(Tensor(id)) <=> Lane(Tensor(id)) = "tcp"
           /\ Tensor(id).bytes > 0 /\ SenderUsesTcp(Tensor(id)) =>
                 /\ Lane(Tensor(id)) = "tcp" /\ WireBytes(Tensor(id)) > 0
                 /\ \A x \in TensorIds : Divided(x) => WireBytes(Tensor(x)) < WireBytes(Tensor(id))
           /\ Divided(id) <=> Lane(Tensor(id)) = "tcp" /\ ~SenderUsesTcp(Tensor(id))
           /\ ~Conflict /\ Divided(id) => ~Agreed(SentOn(Tensor(id)))
           /\ Lane(Tensor(id)) \notin {"none", "tcp"} => Lane(Tensor(id)) = SentOn(Tensor(id))
           /\ SentOn(Tensor(id)) \in Devices /\ WireBytes(Tensor(id)) \in Nat
           /\ Lane(Tensor(id)) \in Devices \cup {"none", "tcp"} /\ Tensor(id).bytes \in Nat
<1> DEFINE t == Tensor(id)
<1>1. ASSUME NEW x \in TensorIds
      PROVE  /\ Tensor(x).device \in {"cpu", "cuda"} /\ Tensor(x).bytes \in Nat
             /\ SentOn(Tensor(x)) \in Devices /\ WireBytes(Tensor(x)) \in Nat
    <2>1. Tensor(x) \in [device : Devices, bytes : Nat, gather : BOOLEAN]
        BY ScriptPlaces
    <2>2. Tensor(x).device \in {"cpu", "cuda"} /\ Tensor(x).bytes \in Nat /\ SentOn(Tensor(x)) \in Devices
        BY <2>1 DEF Devices, SentOn
    <2>3. GatherSize \in Nat \ {0}
        BY ChannelAssumption
    <2>4. Tensor(x).bytes \div GatherSize \in Nat
        BY <2>2, <2>3, Division
    <2> QED BY <2>2, <2>4 DEF WireBytes
<1>2. transport.min \in Nat \ {0} /\ transport.tcp \in BOOLEAN /\ transport.staged \in BOOLEAN
    BY ChannelAssumption
<1>3. t.device \in {"cpu", "cuda"} /\ t.bytes \in Nat /\ SentOn(t) \in Devices /\ WireBytes(t) \in Nat
    BY <1>1
<1>4. Divided(id) <=> t.bytes > 0 /\ t.device = "cuda" /\ transport.tcp /\ WireBytes(t) < transport.min
    BY DEF Divided
<1> HIDE DEF t
<1>5. Lane(t) = "tcp" <=> t.bytes > 0 /\ ReceiverUsesTcp(t)
    <2>1. t.bytes # 0 <=> t.bytes > 0
        BY <1>3
    <2> QED BY <1>3, <2>1 DEF Lane, Devices
<1>6. Lane(t) = "none" <=> t.bytes = 0
    BY <1>3 DEF Lane, Devices
<1>7. ASSUME t.bytes > 0, SenderUsesTcp(t)
      PROVE  /\ Lane(t) = "tcp" /\ WireBytes(t) > 0
             /\ \A x \in TensorIds : Divided(x) => WireBytes(Tensor(x)) < WireBytes(t)
    <2>1. WireBytes(t) >= transport.min /\ ReceiverUsesTcp(t)
        BY <1>7 DEF SenderUsesTcp, ReceiverUsesTcp
    <2>2. \A x \in TensorIds : Divided(x) => WireBytes(Tensor(x)) < transport.min
        BY DEF Divided
    <2> QED BY <1>1, <1>2, <1>3, <1>5, <1>7, <2>1, <2>2
<1>8. Divided(id) <=> Lane(t) = "tcp" /\ ~SenderUsesTcp(t)
    <2>1. WireBytes(t) < transport.min <=> ~(WireBytes(t) >= transport.min)
        BY <1>2, <1>3
    <2> QED BY <1>4, <1>5, <2>1 DEF SenderUsesTcp, ReceiverUsesTcp
<1>9. ~Conflict /\ Divided(id) => ~Agreed(SentOn(t))
    BY <1>2, <1>4 DEF Conflict, SentOn, Agreed
<1>10. Lane(t) \notin {"none", "tcp"} => Lane(t) = SentOn(t)
    BY DEF Lane
<1> QED BY <1>3, <1>5, <1>6, <1>7, <1>8, <1>9, <1>10 DEF t

(* A place further, the count goes on as long as the tensor is not sent     *)
(* over TCP.                                                                *)
LEMMA CountGoesOn ==
    ASSUME script \in Scripts, NEW p \in TensorIds, NEW n \in Int, CountedTo(n, p),
           Lane(Tensor(p)) # "tcp" \/ Divided(p)
    PROVE  CountedTo(n, Following(p))
<1>1. /\ p \in Nat \X Nat /\ Following(p) \in Nat \X Nat
      /\ \A x \in TensorIds : Ahead(x, Following(p)) <=> Ahead(x, p) \/ x = p
    <2>1. p = <<p[1], p[2]>> /\ p[1] \in Nat /\ p[2] \in Nat
        BY ScriptPlaces
    <2>2. p[1] + 1 \in Nat /\ p[2] + 1 \in Nat /\ 1 \in Nat
        BY <2>1
    <2> QED BY <2>1, <2>2, AheadFollowing DEF Following
<1>2. PICK x \in Nat \X Nat : n = Rank("tcp", x) /\ (x = p \/ WentBy(x, p))
    BY DEF CountedTo
<1>3. CASE WentBy(x, p)
    BY <1>1, <1>2, <1>3 DEF CountedTo, WentBy
<1>4. CASE x = p /\ Divided(p)
    BY <1>1, <1>2, <1>4 DEF CountedTo, WentBy
<1>5. CASE x = p /\ Lane(Tensor(p)) # "tcp"
    <2>1. Rank("tcp", Following(p)) = Rank("tcp", p)
        BY <1>5, RankFollowing
    <2> QED BY <1>1, <1>2, <1>5, <2>1 DEF CountedTo
<1> QED BY <1>2, <1>3, <1>4, <1>5

LEMMA ChannelStartInv ==
    ASSUME NEW s \in Scripts, NEW t \in Transports, ChannelStart(s, t)
    PROVE  ChannelInv
<1>1. script = s /\ transport = t /\ script \in Scripts
    BY DEF ChannelStart
<1>2. ChannelShape
    <2>1. At(snd) /\ At(rcv)
        <3>1. 1 \in DOMAIN script /\ 1 \in DOMAIN script[1]
            BY <1>1, ScriptPlaces
        <3> QED BY <3>1 DEF At, ChannelStart
    <2>2. plain \in [Devices -> [sent : Seq(TensorIds), posted : Seq(TensorIds)]]
        BY DEF ChannelStart
    <2>3. stripesOf \in [TensorIds -> [0..MaxTcpStripes - 1 -> {"none", "listening", "sending", "arrived", "failed"}]]
        BY <1>1 DEF ChannelStart, TensorIds
    <2>4. metadata \in Seq(Nat) /\ ready \in Seq(Messages)
        BY DEF ChannelStart
    <2> QED BY <1>1, <2>1, <2>2, <2>3, <2>4 DEF ChannelShape, ChannelStart, Sides
<1>3. \A dev \in Devices : plain[dev].sent = <<>> /\ plain[dev].posted = <<>>
    BY DEF ChannelStart
<1>4. \A dev : InOrder(dev, <<>>)
    BY DEF InOrder
<1>5. SndAt = <<1, 1>> /\ RcvAt = <<1, 1>>
    BY DEF SndAt, RcvAt, ChannelStart
<1>6. SenderCounts
    <2>1. SendsDone = 0 /\ snd.pc = "dict" /\ <<1, 1>> \in Nat \X Nat
        BY DEF SendsDone, ChannelStart
    <2>3. CountedTo(0, <<1, 1>>)
        BY <1>1, <2>1, RankAtStart DEF CountedTo
    <2>4. SenderAt(<<1, 1>>)
        BY <1>1, <1>3, <2>1, <2>3, RankAtStart DEF SenderAt
    <2> QED BY <1>3, <1>4, <1>5, <2>4 DEF SenderCounts
<1>7. ReceiverCounts
    <2>1. ReceiverAt(<<1, 1>>)
        BY <1>1, <1>3, RankAtStart DEF ReceiverAt, ChannelStart
    <2>2. rcv.i = 1
        BY DEF ChannelStart
    <2> QED BY <1>3, <1>4, <1>5, <2>1, <2>2 DEF ReceiverCounts
<1>8. ReadyInTurn /\ MetadataInTurn
    BY DEF ReadyInTurn, MetadataInTurn, SendsDone, LastOut, NextIn, ChannelStart
<1>9. OnlyBreaks
    <2>1. \A id \in TensorIds, k \in 0..MaxTcpStripes - 1 : stripesOf[id][k] = "none"
        BY <1>1 DEF ChannelStart, TensorIds
    <2> QED BY <2>1 DEF OnlyBreaks, ChannelStart
<1> QED BY <1>2, <1>6, <1>7, <1>8, <1>9 DEF ChannelInv

(* What a step of one side leaves alone. *)
LEMMA SenderStays ==
    ASSUME SenderCounts, UNCHANGED <<script, transport, snd, sendSeq>>,
           \A dev \in Devices : plain'[dev].sent = plain[dev].sent
    PROVE  SenderCounts'
<1>1. SndAt' = SndAt
    BY DEF SndAt
<1>2. \A p : SenderAt(p) => SenderAt(p)'
    <2>1. SendsDone' = SendsDone
        BY DEF SendsDone
    <2> QED BY <2>1, LanesKept DEF SenderAt
<1>3. \A dev \in Devices : Agreed(dev)' => InOrder(dev, plain[dev].sent)'
    BY LanesKept DEF SenderCounts, InOrder
<1> QED BY <1>1, <1>2, <1>3 DEF SenderCounts

LEMMA ReceiverStays ==
    ASSUME ReceiverCounts, UNCHANGED <<script, transport, rcv, recvSeq>>,
           \A dev \in Devices : plain'[dev].posted = plain[dev].posted
    PROVE  ReceiverCounts'
<1>1. RcvAt' = RcvAt
    BY DEF RcvAt
<1>2. \A p : ReceiverAt(p) => ReceiverAt(p)'
    BY LanesKept DEF ReceiverAt
<1>3. \A dev \in Devices : InOrder(dev, plain[dev].posted)'
    BY LanesKept DEF ReceiverCounts, InOrder
<1> QED BY <1>1, <1>2, <1>3 DEF ReceiverCounts

LEMMA ReadyStays ==
    ASSUME ReadyInTurn, UNCHANGED <<script, transport, ready, recvSeq>>, SendsDone' = SendsDone
    PROVE  ReadyInTurn'
BY LanesKept DEF ReadyInTurn

LEMMA MetadataStays ==
    ASSUME MetadataInTurn, UNCHANGED metadata, LastOut' = LastOut, NextIn' = NextIn,
           snd'.pc # "raised" => snd.pc # "raised", rcv'.pc # "raised" => rcv.pc # "raised"
    PROVE  MetadataInTurn'
BY DEF MetadataInTurn

(* Where the sides stand. *)
LEMMA SidesPlaced ==
    ASSUME ChannelShape
    PROVE  /\ SndAt \in TensorIds /\ SndAt \in Nat \X Nat /\ RcvAt \in Nat \X Nat
           /\ rcv.pc # "wait" => RcvAt = <<rcv.d, rcv.i>> /\ RcvAt \in TensorIds
           /\ snd.d \in Nat \ {0} /\ rcv.d \in Nat \ {0} /\ snd.d <= Len(script) /\ rcv.d <= Len(script)
           /\ snd.i \in Nat \ {0} /\ rcv.i \in Nat \ {0}
           /\ SendsDone \in Int /\ NextIn \in Nat /\ LastOut \in Int
           /\ \A p : p \in TensorIds => p \in Nat \X Nat
<1>1. script \in Scripts /\ At(snd) /\ At(rcv)
    BY DEF ChannelShape
<1>2. SndAt \in TensorIds /\ <<rcv.d, rcv.i>> \in TensorIds
    BY <1>1, ScriptPlaces DEF At, SndAt
<1>3. /\ snd.d \in Nat \ {0} /\ rcv.d \in Nat \ {0} /\ snd.d <= Len(script) /\ rcv.d <= Len(script)
      /\ snd.i \in Nat \ {0} /\ rcv.i \in Nat \ {0}
    BY <1>1, ScriptPlaces DEF At
<1>4. \A p : p \in TensorIds => p \in Nat \X Nat
    <2> SUFFICES ASSUME NEW p \in TensorIds PROVE p \in Nat \X Nat
        OBVIOUS
    <2>1. p = <<p[1], p[2]>> /\ p[1] \in Nat /\ p[2] \in Nat
        BY <1>1, ScriptPlaces
    <2> QED BY <2>1
<1>5. RcvAt \in Nat \X Nat /\ (rcv.pc # "wait" => RcvAt = <<rcv.d, rcv.i>>)
    <2>1. rcv.d + 1 \in Nat /\ 1 \in Nat /\ rcv.d \in Nat /\ rcv.i \in Nat
        BY <1>3
    <2> QED BY <2>1 DEF RcvAt
<1>6. SendsDone \in Int /\ NextIn \in Nat /\ LastOut \in Int
    BY <1>3 DEF SendsDone, NextIn, LastOut, ChannelShape
<1> QED BY <1>2, <1>3, <1>4, <1>5, <1>6

(* The sender goes on to its next tensor or dict. *)
LEMMA SenderMoves ==
    ASSUME ChannelShape, snd.pc \in {"tensor", "ready"}, snd' = After(snd, NextDict(snd)), UNCHANGED script
    PROVE  /\ snd' \in Sides({"dict", "tensor", "ready", "done", "raised"}) /\ At(snd)'
           /\ snd'.pc \in {"dict", "tensor", "done"}
           /\ snd'.pc # "done" => SndAt' = Following(SndAt)
           /\ LastOut' = LastOut /\ SndAt \in TensorIds
<1>1. /\ script \in Scripts /\ At(snd) /\ snd \in Sides({"dict", "tensor", "ready", "done", "raised"})
      /\ SndAt \in TensorIds
    BY SidesPlaced DEF ChannelShape
<1>2. /\ snd.d \in DOMAIN script /\ snd.i \in DOMAIN script[snd.d]
      /\ snd.d \in Nat \ {0} /\ snd.d <= Len(script) /\ snd.i \in Nat \ {0} /\ snd.i <= Len(script[snd.d])
      /\ Len(script) \in Nat \ {0} /\ Len(script[snd.d]) \in Nat \ {0}
      /\ DOMAIN script = 1..Len(script) /\ DOMAIN script[snd.d] = 1..Len(script[snd.d])
    BY <1>1, ScriptPlaces DEF At
<1>3. SndAt[1] = snd.d /\ SndAt[2] = snd.i /\ LastOut = snd.d
    BY DEF SndAt, LastOut
<1>4. CASE snd.i < Len(script[snd.d])
    <2>1. snd' = [snd EXCEPT !.i = snd.i + 1, !.pc = "tensor"]
        BY <1>4 DEF After
    <2>2. /\ snd'.pc = "tensor" /\ snd'.d = snd.d /\ snd'.i = snd.i + 1
          /\ snd' \in Sides({"dict", "tensor", "ready", "done", "raised"})
        <3>1. snd = [pc |-> snd.pc, d |-> snd.d, i |-> snd.i]
            BY <1>1 DEF Sides
        <3>2. snd' = [pc |-> "tensor", d |-> snd.d, i |-> snd.i + 1]
            BY <2>1, <3>1
        <3> QED BY <1>2, <3>2 DEF Sides
    <2>3. At(snd)'
        BY <1>2, <1>4, <2>2 DEF At
    <2>4. SndAt' = Following(SndAt)
        BY <1>3, <1>4, <2>2 DEF SndAt, Following
    <2>5. LastOut' = LastOut
        BY <1>3, <2>2 DEF LastOut
    <2> QED BY <1>1, <2>2, <2>3, <2>4, <2>5
<1>5. CASE ~(snd.i < Len(script[snd.d]))
    <2>1. snd' = NextDict(snd)
        BY <1>5 DEF After
    <2>2. CASE snd.d < Len(script)
        <3>1. snd.d + 1 \in 1..Len(script) /\ Smaller(snd.d + 1, Len(script)) = snd.d + 1
            BY <1>2, <2>2 DEF Smaller
        <3>2. snd' = [pc |-> "dict", d |-> snd.d + 1, i |-> 1]
            BY <2>1, <2>2, <3>1 DEF NextDict
        <3>3. At(snd)'
            <4>1. snd'.d \in DOMAIN script /\ snd'.i = 1
                BY <1>2, <3>1, <3>2
            <4> QED BY <1>1, <4>1, ScriptPlaces DEF At
        <3>4. SndAt' = Following(SndAt)
            BY <1>3, <1>5, <3>2 DEF SndAt, Following
        <3>5. LastOut' = LastOut
            BY <1>2, <1>3, <3>2 DEF LastOut
        <3>6. snd' \in Sides({"dict", "tensor", "ready", "done", "raised"})
            BY <1>2, <3>2 DEF Sides
        <3> QED BY <1>1, <3>2, <3>3, <3>4, <3>5, <3>6
    <2>3. CASE ~(snd.d < Len(script))
        <3>1. Smaller(snd.d + 1, Len(script)) = snd.d
            BY <1>2, <2>3 DEF Smaller
        <3>2. snd' = [pc |-> "done", d |-> snd.d, i |-> 1]
            BY <2>1, <2>3, <3>1 DEF NextDict
        <3>3. At(snd)'
            <4>1. snd'.d \in DOMAIN script /\ snd'.i = 1
                BY <1>2, <3>2
            <4> QED BY <1>1, <4>1, ScriptPlaces DEF At
        <3>4. LastOut' = LastOut
            BY <1>3, <3>2 DEF LastOut
        <3>5. snd' \in Sides({"dict", "tensor", "ready", "done", "raised"})
            BY <1>2, <3>2 DEF Sides
        <3> QED BY <1>1, <3>2, <3>3, <3>4, <3>5
    <2> QED BY <2>2, <2>3
<1> QED BY <1>4, <1>5

(* And the receiver. *)
LEMMA ReceiverMoves ==
    ASSUME ChannelShape, rcv.pc = "tensor", rcv' = After(rcv, [rcv EXCEPT !.pc = "wait"]), UNCHANGED script
    PROVE  /\ rcv' \in Sides({"dict", "tensor", "wait", "done", "raised"}) /\ At(rcv)'
           /\ rcv'.pc \in {"tensor", "wait"}
           /\ RcvAt' = Following(RcvAt) /\ NextIn' = NextIn /\ RcvAt \in TensorIds
<1>1. /\ script \in Scripts /\ At(rcv) /\ rcv \in Sides({"dict", "tensor", "wait", "done", "raised"})
      /\ RcvAt \in TensorIds
    BY SidesPlaced DEF ChannelShape
<1>2. /\ rcv.d \in DOMAIN script /\ rcv.i \in DOMAIN script[rcv.d]
      /\ rcv.d \in Nat \ {0} /\ rcv.i \in Nat \ {0} /\ rcv.i <= Len(script[rcv.d])
      /\ Len(script[rcv.d]) \in Nat \ {0} /\ DOMAIN script[rcv.d] = 1..Len(script[rcv.d])
    BY <1>1, ScriptPlaces DEF At
<1>3. RcvAt = <<rcv.d, rcv.i>> /\ RcvAt[1] = rcv.d /\ RcvAt[2] = rcv.i /\ NextIn = rcv.d + 1
    BY DEF RcvAt, NextIn
<1>4. CASE rcv.i < Len(script[rcv.d])
    <2>1. rcv' = [rcv EXCEPT !.i = rcv.i + 1, !.pc = "tensor"]
        BY <1>4 DEF After
    <2>2. /\ rcv'.pc = "tensor" /\ rcv'.d = rcv.d /\ rcv'.i = rcv.i + 1
          /\ rcv' \in Sides({"dict", "tensor", "wait", "done", "raised"})
        <3>1. rcv = [pc |-> rcv.pc, d |-> rcv.d, i |-> rcv.i]
            BY <1>1 DEF Sides
        <3>2. rcv' = [pc |-> "tensor", d |-> rcv.d, i |-> rcv.i + 1]
            BY <2>1, <3>1
        <3> QED BY <1>2, <3>2 DEF Sides
    <2>3. At(rcv)'
        BY <1>2, <1>4, <2>2 DEF At
    <2>4. RcvAt' = Following(RcvAt)
        BY <1>3, <1>4, <2>2 DEF RcvAt, Following
    <2>5. NextIn' = NextIn
        BY <1>3, <2>2 DEF NextIn
    <2> QED BY <1>1, <2>2, <2>3, <2>4, <2>5
<1>5. CASE ~(rcv.i < Len(script[rcv.d]))
    <2>1. rcv' = [rcv EXCEPT !.pc = "wait"]
        BY <1>5 DEF After
    <2>2. rcv'.pc = "wait" /\ rcv'.d = rcv.d /\ rcv'.i = rcv.i /\ rcv' \in Sides({"dict", "tensor", "wait", "done", "raised"})
        BY <1>1, <2>1 DEF Sides
    <2>3. At(rcv)'
        BY <1>2, <2>2 DEF At
    <2>4. RcvAt' = Following(RcvAt)
        BY <1>3, <1>5, <2>2 DEF RcvAt, Following
    <2>5. NextIn' = NextIn
        BY <1>3, <2>2 DEF NextIn
    <2> QED BY <1>1, <2>2, <2>3, <2>4, <2>5
<1> QED BY <1>4, <1>5

LEMMA SendMetadataStep == ASSUME ChannelInv, SendMetadata PROVE ChannelInv'
<1>1. /\ ChannelShape /\ SenderCounts /\ ReceiverCounts /\ ReadyInTurn /\ MetadataInTurn /\ OnlyBreaks
      /\ snd.pc = "dict" /\ UNCHANGED <<script, transport, rcv, ready, sendSeq, recvSeq, plain, stripesOf, broken>>
      /\ snd \in Sides({"dict", "tensor", "ready", "done", "raised"})
    BY DEF ChannelInv, SendMetadata, ChannelShape
<1>2. CASE Conflict /\ snd' = [snd EXCEPT !.pc = "raised"] /\ UNCHANGED metadata
    <2>1. snd'.pc = "raised" /\ snd'.d = snd.d /\ snd'.i = snd.i /\ snd' \in Sides({"dict", "tensor", "ready", "done", "raised"})
        BY <1>1, <1>2 DEF Sides
    <2>2. ChannelShape'
        BY <1>1, <1>2, <2>1, LanesKept DEF ChannelShape, At
    <2>3. SenderCounts'
        <3>1. \A p : SenderAt(p)'
            BY <1>1, <1>2, <2>1, LanesKept DEF SenderAt
        <3>2. \A dev \in Devices : Agreed(dev)' => InOrder(dev, plain[dev].sent)'
            BY <1>1, LanesKept DEF SenderCounts, InOrder
        <3> QED BY <3>1, <3>2 DEF SenderCounts
    <2>4. ReadyInTurn'
        <3>1. SendsDone' = SendsDone
            BY <1>1, <2>1 DEF SendsDone
        <3> QED BY <1>1, <3>1, ReadyStays
    <2>5. MetadataInTurn'
        BY <1>1, <1>2, <2>1 DEF MetadataInTurn, NextIn
    <2>6. OnlyBreaks'
        BY <1>1, <1>2, <2>1, LanesKept DEF OnlyBreaks
    <2> QED BY <1>1, <2>2, <2>3, <2>4, <2>5, <2>6, ReceiverStays DEF ChannelInv
<1>3. CASE ~Conflict /\ snd' = [snd EXCEPT !.pc = "tensor"] /\ metadata' = Append(metadata, snd.d)
    <2>1. snd'.pc = "tensor" /\ snd'.d = snd.d /\ snd'.i = snd.i /\ snd' \in Sides({"dict", "tensor", "ready", "done", "raised"})
        BY <1>1, <1>3 DEF Sides
    <2>2. metadata \in Seq(Nat) /\ snd.d \in Nat
        BY <1>1, SidesPlaced DEF ChannelShape
    <2>3. /\ metadata' \in Seq(Nat) /\ Len(metadata') = Len(metadata) + 1 /\ Len(metadata) \in Nat
          /\ DOMAIN metadata' = 1..Len(metadata) + 1 /\ DOMAIN metadata = 1..Len(metadata)
          /\ \A j \in 1..Len(metadata) : metadata'[j] = metadata[j]
          /\ metadata'[Len(metadata) + 1] = snd.d
        BY <1>3, <2>2
    <2>4. ChannelShape'
        BY <1>1, <2>1, <2>3, LanesKept DEF ChannelShape, At
    <2>5. SenderCounts'
        <3>1. SndAt' = SndAt
            BY <2>1 DEF SndAt
        <3>2. \A p : SenderAt(p) => SenderAt(p)'
            <4>1. SendsDone' = SendsDone
                BY <1>1, <2>1 DEF SendsDone
            <4> QED BY <1>1, <1>3, <2>1, <4>1, LanesKept DEF SenderAt
        <3>3. \A dev \in Devices : Agreed(dev)' => InOrder(dev, plain[dev].sent)'
            BY <1>1, LanesKept DEF SenderCounts, InOrder
        <3> QED BY <1>1, <3>1, <3>2, <3>3 DEF SenderCounts
    <2>6. ReadyInTurn'
        <3>1. SendsDone' = SendsDone
            BY <1>1, <2>1 DEF SendsDone
        <3> QED BY <1>1, <3>1, ReadyStays
    <2>7. MetadataInTurn'
        <3> SUFFICES ASSUME rcv.pc # "raised"
                     PROVE  /\ Len(metadata') = LastOut' - NextIn' + 1
                            /\ \A j \in DOMAIN metadata' : metadata'[j] = NextIn' + j - 1
            BY <1>1 DEF MetadataInTurn
        <3>1. NextIn' = NextIn /\ LastOut' = snd.d /\ LastOut = snd.d - 1 /\ NextIn \in Nat /\ snd.d \in Nat
            BY <1>1, <2>1, <2>2, SidesPlaced DEF NextIn, LastOut
        <3>2. Len(metadata) = LastOut - NextIn + 1 /\ \A j \in DOMAIN metadata : metadata[j] = NextIn + j - 1
            BY <1>1 DEF MetadataInTurn
        <3>3. Len(metadata') = LastOut' - NextIn' + 1
            BY <2>3, <3>1, <3>2
        <3>4. ASSUME NEW j \in 1..Len(metadata) + 1 PROVE metadata'[j] = NextIn' + j - 1
            <4>1. CASE j \in 1..Len(metadata)
                BY <2>3, <3>1, <3>2, <4>1
            <4>2. CASE j = Len(metadata) + 1
                <5>1. NextIn + j - 1 = snd.d
                    <6> DEFINE m == Len(metadata)
                    <6>1. m \in Nat /\ m = LastOut - NextIn + 1 /\ j = m + 1
                        BY <2>3, <3>2, <4>2
                    <6> DEFINE n == NextIn
                               o == LastOut
                               d == snd.d
                    <6>2. n \in Nat /\ d \in Nat /\ o = d - 1 /\ m = o - n + 1
                        BY <3>1, <6>1
                    <6> HIDE DEF m, n, o, d
                    <6>3. n + j - 1 = d
                        BY <6>1, <6>2
                    <6> QED BY <6>3 DEF n, d
                <5> QED BY <2>3, <3>1, <4>2, <5>1
            <4> QED BY <2>3, <4>1, <4>2
        <3> QED BY <2>3, <3>3, <3>4
    <2>8. OnlyBreaks'
        BY <1>1, <2>1, LanesKept DEF OnlyBreaks
    <2> QED BY <1>1, <2>4, <2>5, <2>6, <2>7, <2>8, ReceiverStays DEF ChannelInv
<1> QED BY <1>2, <1>3 DEF SendMetadata

(* A tensor is given to the lane of its device. *)
LEMMA SentAppended ==
    ASSUME ChannelShape, NEW dev \in Devices, NEW id \in TensorIds,
           plain' = [plain EXCEPT ![dev].sent = Append(@, id)]
    PROVE  /\ plain' \in [Devices -> [sent : Seq(TensorIds), posted : Seq(TensorIds)]]
           /\ \A e \in Devices : plain'[e].posted = plain[e].posted
           /\ \A e \in Devices : plain'[e].sent = IF e = dev THEN Append(plain[e].sent, id) ELSE plain[e].sent
<1> DEFINE Rows == [sent : Seq(TensorIds), posted : Seq(TensorIds)]
<1>1. plain \in [Devices -> Rows]
    BY DEF ChannelShape
<1> HIDE DEF Rows
<1>2. \A e \in Devices : plain'[e] = IF e = dev THEN [plain[e] EXCEPT !.sent = Append(plain[e].sent, id)] ELSE plain[e]
    BY <1>1
<1>3. plain' = [e \in Devices |-> plain'[e]]
    BY <1>1
<1>4. ASSUME NEW e \in Devices
      PROVE  /\ plain'[e] \in Rows /\ plain'[e].posted = plain[e].posted
             /\ plain'[e].sent = IF e = dev THEN Append(plain[e].sent, id) ELSE plain[e].sent
    <2>1. plain[e] \in Rows
        BY <1>1
    <2>2. CASE e = dev
        <3>1. plain'[e] = [plain[e] EXCEPT !.sent = Append(plain[e].sent, id)]
            BY <1>2, <2>2
        <3>2. plain[e].sent \in Seq(TensorIds)
            BY <2>1 DEF Rows
        <3>3. Append(plain[e].sent, id) \in Seq(TensorIds)
            BY <3>2
        <3> QED BY <2>1, <2>2, <3>1, <3>3 DEF Rows
    <2>3. CASE e # dev
        BY <1>2, <2>1, <2>3
    <2> QED BY <2>2, <2>3
<1>5. plain' \in [Devices -> Rows]
    BY <1>3, <1>4
<1> QED BY <1>4, <1>5 DEF Rows

LEMMA PostedAppended ==
    ASSUME ChannelShape, NEW dev \in Devices, NEW id \in TensorIds,
           plain' = [plain EXCEPT ![dev].posted = Append(@, id)]
    PROVE  /\ plain' \in [Devices -> [sent : Seq(TensorIds), posted : Seq(TensorIds)]]
           /\ \A e \in Devices : plain'[e].sent = plain[e].sent
           /\ \A e \in Devices : plain'[e].posted = IF e = dev THEN Append(plain[e].posted, id) ELSE plain[e].posted
<1> DEFINE Rows == [sent : Seq(TensorIds), posted : Seq(TensorIds)]
<1>1. plain \in [Devices -> Rows]
    BY DEF ChannelShape
<1> HIDE DEF Rows
<1>2. \A e \in Devices : plain'[e] = IF e = dev THEN [plain[e] EXCEPT !.posted = Append(plain[e].posted, id)] ELSE plain[e]
    BY <1>1
<1>3. plain' = [e \in Devices |-> plain'[e]]
    BY <1>1
<1>4. ASSUME NEW e \in Devices
      PROVE  /\ plain'[e] \in Rows /\ plain'[e].sent = plain[e].sent
             /\ plain'[e].posted = IF e = dev THEN Append(plain[e].posted, id) ELSE plain[e].posted
    <2>1. plain[e] \in Rows
        BY <1>1
    <2>2. CASE e = dev
        <3>1. plain'[e] = [plain[e] EXCEPT !.posted = Append(plain[e].posted, id)]
            BY <1>2, <2>2
        <3>2. plain[e].posted \in Seq(TensorIds)
            BY <2>1 DEF Rows
        <3>3. Append(plain[e].posted, id) \in Seq(TensorIds)
            BY <3>2
        <3> QED BY <2>1, <2>2, <3>1, <3>3 DEF Rows
    <2>3. CASE e # dev
        BY <1>2, <2>1, <2>3
    <2> QED BY <2>2, <2>3
<1>5. plain' \in [Devices -> Rows]
    BY <1>3, <1>4
<1> QED BY <1>4, <1>5 DEF Rows

(* The counts of the sender after a tensor that needs no ready message. *)
LEMMA SenderCounted ==
    ASSUME ChannelShape, SenderCounts, snd.pc = "tensor", snd' = After(snd, NextDict(snd)),
           UNCHANGED <<script, transport, sendSeq>>, Lane(Tensor(SndAt)) # "tcp" \/ Divided(SndAt),
           \A e \in Devices : Agreed(e) =>
               plain'[e].sent = IF e = Lane(Tensor(SndAt)) THEN Append(plain[e].sent, SndAt) ELSE plain[e].sent
    PROVE  SenderCounts'
<1>1. /\ SndAt \in TensorIds /\ SndAt \in Nat \X Nat /\ snd'.pc \in {"dict", "tensor", "done"}
      /\ snd'.pc # "done" => SndAt' = Following(SndAt)
      /\ SendsDone \in Int /\ SendsDone' = SendsDone
    BY SenderMoves, SidesPlaced DEF SendsDone
<1>2. script \in Scripts /\ plain \in [Devices -> [sent : Seq(TensorIds), posted : Seq(TensorIds)]]
    BY DEF ChannelShape
<1>3. \A lane : Rank(lane, Following(SndAt)) = IF Lane(Tensor(SndAt)) = lane THEN Rank(lane, SndAt) + 1 ELSE Rank(lane, SndAt)
    BY <1>1, <1>2, RankFollowing
<1>4. /\ CountedTo(SendsDone, SndAt) /\ ~Conflict
      /\ \A dev \in Devices : Agreed(dev) => Len(plain[dev].sent) = Rank(dev, SndAt)
    BY <1>1 DEF SenderCounts, SenderAt
<1>5. ASSUME NEW dev \in Devices, Agreed(dev)
      PROVE  InOrder(dev, plain'[dev].sent) /\ Len(plain'[dev].sent) = Rank(dev, Following(SndAt))
    <2>1. plain[dev].sent \in Seq(TensorIds) /\ InOrder(dev, plain[dev].sent)
        BY <1>2, <1>5 DEF SenderCounts
    <2>2. CASE dev = Lane(Tensor(SndAt))
        <3>1. plain'[dev].sent = Append(plain[dev].sent, SndAt) /\ Lane(Tensor(SndAt)) = dev
            BY <1>5, <2>2
        <3>2. Len(Append(plain[dev].sent, SndAt)) = Len(plain[dev].sent) + 1
            BY <1>1, <2>1
        <3>3. InOrder(dev, Append(plain[dev].sent, SndAt))
            BY <1>1, <1>2, <1>4, <1>5, <2>1, <3>1, InOrderAppended
        <3> QED BY <1>3, <1>4, <1>5, <3>1, <3>2, <3>3
    <2>3. CASE dev # Lane(Tensor(SndAt))
        BY <1>3, <1>4, <1>5, <2>1, <2>3
    <2> QED BY <2>2, <2>3
<1>6. \A dev \in Devices : Agreed(dev)' => InOrder(dev, plain[dev].sent)'
    BY <1>5, LanesKept DEF InOrder
<1>7. CountedTo(SendsDone, Following(SndAt))
    BY <1>1, <1>2, <1>4, CountGoesOn
<1>8. ASSUME NEW p \in Nat \X Nat, p = SndAt' PROVE SenderAt(p)'
    <2>1. CASE snd'.pc = "done"
        BY <2>1 DEF SenderAt
    <2>2. CASE snd'.pc # "done"
        <3>1. p = Following(SndAt)
            BY <1>1, <1>8, <2>2
        <3>2. \A dev \in Devices : Agreed(dev) => Len(plain'[dev].sent) = Rank(dev, p)
            BY <1>5, <3>1
        <3>3. CountedTo(SendsDone, p)
            BY <1>7, <3>1
        <3>4. (\A n \in Int : n = SendsDone' => CountedTo(n, p)') /\ ~Conflict'
            BY <1>1, <1>4, <3>3, LanesKept
        <3> QED BY <1>1, <2>2, <3>2, <3>4, LanesKept DEF SenderAt
    <2> QED BY <2>1, <2>2
<1> QED BY <1>6, <1>8 DEF SenderCounts

LEMMA SendTensorStep == ASSUME ChannelInv, SendTensor PROVE ChannelInv'
<1> DEFINE t == Tensor(SndAt)
<1>1. /\ ChannelShape /\ SenderCounts /\ ReceiverCounts /\ ReadyInTurn /\ MetadataInTurn /\ OnlyBreaks
      /\ snd.pc = "tensor" /\ UNCHANGED <<script, transport, rcv, metadata, ready, recvSeq, stripesOf, broken>>
      /\ script \in Scripts /\ transport \in Transports /\ SndAt \in TensorIds
      /\ snd \in Sides({"dict", "tensor", "ready", "done", "raised"})
    BY SidesPlaced DEF ChannelInv, SendTensor, ChannelShape
<1>2. /\ Lane(t) = "none" <=> t.bytes = 0
      /\ t.bytes > 0 /\ SenderUsesTcp(t) => Lane(t) = "tcp"
      /\ Divided(SndAt) <=> Lane(t) = "tcp" /\ ~SenderUsesTcp(t)
      /\ ~Conflict /\ Divided(SndAt) => ~Agreed(SentOn(t))
      /\ Lane(t) \notin {"none", "tcp"} => Lane(t) = SentOn(t)
      /\ SentOn(t) \in Devices /\ t.bytes \in Nat
    BY <1>1, LanesAgree
<1>0. SndAt \in Nat \X Nat /\ SenderAt(SndAt) /\ ~Conflict
    BY <1>1, SidesPlaced DEF SenderCounts, SenderAt
<1>3. /\ plain \in [Devices -> [sent : Seq(TensorIds), posted : Seq(TensorIds)]]
      /\ "none" \notin Devices /\ "tcp" \notin Devices
    BY <1>1 DEF ChannelShape, Devices
<1>4. \/ t.bytes = 0 /\ snd' = After(snd, NextDict(snd)) /\ UNCHANGED <<plain, sendSeq>>
      \/ /\ t.bytes > 0 /\ ~SenderUsesTcp(t) /\ UNCHANGED sendSeq
         /\ plain' = [plain EXCEPT ![SentOn(t)].sent = Append(@, SndAt)]
         /\ snd' = After(snd, NextDict(snd))
      \/ /\ t.bytes > 0 /\ SenderUsesTcp(t) /\ UNCHANGED plain
         /\ sendSeq' = sendSeq + 1 /\ snd' = [snd EXCEPT !.pc = "ready"]
    BY DEF SendTensor, SndAt
<1> HIDE DEF t
<1>5. ASSUME snd' = After(snd, NextDict(snd)), UNCHANGED sendSeq, SenderCounts',
             plain' \in [Devices -> [sent : Seq(TensorIds), posted : Seq(TensorIds)]],
             \A e \in Devices : plain'[e].posted = plain[e].posted
      PROVE  ChannelInv'
    <2>1. /\ snd' \in Sides({"dict", "tensor", "ready", "done", "raised"}) /\ At(snd)'
          /\ snd'.pc \in {"dict", "tensor", "done"} /\ LastOut' = LastOut
        BY <1>1, <1>5, SenderMoves
    <2>2. ChannelShape'
        BY <1>1, <1>5, <2>1, LanesKept DEF ChannelShape, At
    <2>3. ReadyInTurn'
        <3>1. SendsDone' = SendsDone
            BY <1>1, <1>5, <2>1 DEF SendsDone
        <3> QED BY <1>1, <3>1, ReadyStays
    <2>4. MetadataInTurn'
        <3>1. NextIn' = NextIn
            BY <1>1 DEF NextIn
        <3> QED BY <1>1, <2>1, <3>1, MetadataStays
    <2>5. OnlyBreaks'
        BY <1>1, <2>1, LanesKept DEF OnlyBreaks
    <2> QED BY <1>1, <1>5, <2>2, <2>3, <2>4, <2>5, ReceiverStays DEF ChannelInv
<1>6. CASE t.bytes = 0 /\ snd' = After(snd, NextDict(snd)) /\ UNCHANGED <<plain, sendSeq>>
    <2>1. Lane(t) = "none"
        BY <1>2, <1>6
    <2>2. SenderCounts'
        BY <1>1, <1>3, <1>6, <2>1, SenderCounted DEF t
    <2> QED BY <1>3, <1>5, <1>6, <2>2
<1>7. CASE /\ t.bytes > 0 /\ ~SenderUsesTcp(t) /\ UNCHANGED sendSeq
           /\ plain' = [plain EXCEPT ![SentOn(t)].sent = Append(@, SndAt)]
           /\ snd' = After(snd, NextDict(snd))
    <2>1. SentOn(t) \in Devices /\ t.bytes # 0
        BY <1>2, <1>7
    <2>2. /\ plain' \in [Devices -> [sent : Seq(TensorIds), posted : Seq(TensorIds)]]
          /\ \A e \in Devices : plain'[e].posted = plain[e].posted
          /\ \A e \in Devices : plain'[e].sent = IF e = SentOn(t) THEN Append(plain[e].sent, SndAt) ELSE plain[e].sent
        BY <1>1, <1>7, <2>1, SentAppended
    <2>3. CASE Lane(t) # "tcp"
        <3>1. Lane(t) = SentOn(t)
            BY <1>2, <2>1, <2>3
        <3>2. SenderCounts'
            BY <1>1, <1>7, <2>2, <2>3, <3>1, SenderCounted DEF t
        <3> QED BY <1>5, <1>7, <2>2, <3>2
    <2>4. CASE Lane(t) = "tcp"
        <3>1. Divided(SndAt) /\ ~Agreed(SentOn(t))
            BY <1>0, <1>2, <1>7, <2>4
        <3>2. \A e \in Devices : e # Lane(t) /\ (Agreed(e) => e # SentOn(t))
            BY <1>3, <2>4, <3>1
        <3>3. \A e \in Devices : Agreed(e) =>
                  plain'[e].sent = IF e = Lane(t) THEN Append(plain[e].sent, SndAt) ELSE plain[e].sent
            BY <2>2, <3>2
        <3>4. SenderCounts'
            BY <1>1, <1>7, <3>1, <3>3, SenderCounted DEF t
        <3> QED BY <1>5, <1>7, <2>2, <3>4
    <2> QED BY <2>3, <2>4
<1>8. CASE /\ t.bytes > 0 /\ SenderUsesTcp(t) /\ UNCHANGED plain
           /\ sendSeq' = sendSeq + 1 /\ snd' = [snd EXCEPT !.pc = "ready"]
    <2>1. Lane(t) = "tcp" /\ sendSeq \in Nat
        BY <1>1, <1>2, <1>8 DEF ChannelShape
    <2>2. snd'.pc = "ready" /\ snd'.d = snd.d /\ snd'.i = snd.i /\ snd' \in Sides({"dict", "tensor", "ready", "done", "raised"})
        BY <1>1, <1>8 DEF Sides
    <2>3. ChannelShape'
        BY <1>1, <1>8, <2>1, <2>2, LanesKept DEF ChannelShape, At
    <2>4. SenderCounts'
        <3>1. SndAt' = SndAt
            BY <2>2 DEF SndAt
        <3>2. ASSUME NEW p \in Nat \X Nat, p = SndAt PROVE SenderAt(p)'
            <4>1. Tensor(p).bytes > 0 /\ SenderUsesTcp(Tensor(p)) /\ SenderAt(p) /\ ~Conflict
                BY <1>0, <1>8, <3>2 DEF t
            <4>2. SendsDone' = SendsDone
                BY <1>1, <1>8, <2>1, <2>2 DEF SendsDone
            <4>3. /\ \A dev \in Devices : Agreed(dev) => Len(plain[dev].sent) = Rank(dev, p)
                  /\ \A n \in Int : n = SendsDone => CountedTo(n, p)
                BY <1>1, <4>1 DEF SenderAt
            <4>4. /\ (\A dev \in Devices : Agreed(dev) => Len(plain[dev].sent) = Rank(dev, p))'
                  /\ (\A n \in Int : n = SendsDone => CountedTo(n, p))'
                BY <1>1, <1>8, <4>2, <4>3, LanesKept
            <4>5. (Tensor(p).bytes > 0 /\ SenderUsesTcp(Tensor(p)))' /\ ~Conflict'
                BY <1>1, <4>1, LanesKept
            <4> QED BY <2>2, <4>4, <4>5 DEF SenderAt
        <3>3. \A dev \in Devices : Agreed(dev)' => InOrder(dev, plain[dev].sent)'
            BY <1>1, <1>8, LanesKept DEF SenderCounts, InOrder
        <3> QED BY <3>1, <3>2, <3>3 DEF SenderCounts
    <2>5. ReadyInTurn'
        <3>1. SendsDone' = SendsDone
            BY <1>1, <1>8, <2>1, <2>2 DEF SendsDone
        <3> QED BY <1>1, <3>1, ReadyStays
    <2>6. MetadataInTurn'
        <3>1. NextIn' = NextIn /\ LastOut' = LastOut
            BY <1>1, <2>2 DEF NextIn, LastOut
        <3> QED BY <1>1, <2>2, <3>1, MetadataStays
    <2>7. OnlyBreaks'
        BY <1>1, <2>2, LanesKept DEF OnlyBreaks
    <2> QED BY <1>1, <1>8, <2>3, <2>4, <2>5, <2>6, <2>7, ReceiverStays DEF ChannelInv
<1> QED BY <1>4, <1>6, <1>7, <1>8

(* The ready message that waits is for the tensor the sender is at, or for  *)
(* a divided one, whose size tells.                                         *)
LEMMA ReadyMatches ==
    ASSUME ChannelInv, snd.pc = "ready", ready # <<>>
    PROVE  /\ Head(ready) \in Messages
           /\ \/ /\ Head(ready).id = SndAt /\ CheckReady(Head(ready), SndAt)
                 /\ Head(ready).ports = TcpStripeCount(Head(ready).bytes)
                 /\ Rank("tcp", SndAt) = SendsDone /\ Lane(Tensor(SndAt)) = "tcp"
              \/ ~CheckReady(Head(ready), SndAt) /\ PassedAny(SndAt)
<1> DEFINE r == Head(ready)
<1>1. /\ ready \in Seq(Messages) /\ sendSeq \in Nat /\ script \in Scripts /\ transport \in Transports
      /\ SndAt \in TensorIds /\ SndAt \in Nat \X Nat /\ SendsDone \in Int
    BY SidesPlaced DEF ChannelInv, ChannelShape
<1>2. r \in Messages /\ 1 \in DOMAIN ready /\ r = ready[1]
    BY <1>1
<1> HIDE DEF r
<1>3. CountedTo(SendsDone, SndAt) /\ Tensor(SndAt).bytes > 0 /\ SenderUsesTcp(Tensor(SndAt))
    BY <1>1 DEF ChannelInv, SenderCounts, SenderAt
<1>4. PICK x \in Nat \X Nat : SendsDone = Rank("tcp", x) /\ (x = SndAt \/ WentBy(x, SndAt))
    BY <1>3 DEF CountedTo
<1>5. SendsDone = sendSeq - 1 /\ SendsDone + 1 - 1 = SendsDone /\ SendsDone \in Nat
    BY <1>1, <1>4, RankType DEF SendsDone
<1>6. Announces(r, SendsDone)
    BY <1>2, <1>5 DEF ChannelInv, ReadyInTurn
<1>7. r.id \in TensorIds /\ r.bytes \in Nat
    BY <1>2 DEF Messages
<1>8. /\ Lane(Tensor(SndAt)) = "tcp" /\ WireBytes(Tensor(SndAt)) > 0 /\ WireBytes(Tensor(SndAt)) \in Nat
      /\ \A y \in TensorIds : Divided(y) => WireBytes(Tensor(y)) < WireBytes(Tensor(SndAt))
    BY <1>1, <1>3, LanesAgree
<1>9. CASE x = SndAt
    <2>1. r.id = SndAt
        BY <1>1, <1>4, <1>6, <1>7, <1>8, <1>9, RankOnce DEF Announces
    <2>2. r.seq = sendSeq - 1 /\ r.bytes = WireBytes(Tensor(SndAt)) /\ r.ports = TcpStripeCount(r.bytes)
        BY <1>5, <1>6, <2>1 DEF Announces
    <2>3. r.ports > 0
        BY <1>7, <1>8, <2>2, StripeCountOfTcp
    <2> QED BY <1>2, <1>4, <1>8, <1>9, <2>1, <2>2, <2>3 DEF CheckReady, r
<1>10. CASE WentBy(x, SndAt)
    <2>1. x \in TensorIds /\ Divided(x) /\ Ahead(x, SndAt)
        BY <1>10 DEF WentBy
    <2>2. Lane(Tensor(x)) = "tcp" /\ WireBytes(Tensor(x)) \in Nat
        BY <1>1, <2>1, LanesAgree
    <2>3. r.id = x
        BY <1>1, <1>4, <1>6, <1>7, <2>1, <2>2, RankOnce DEF Announces
    <2>4. r.bytes = WireBytes(Tensor(x)) /\ WireBytes(Tensor(x)) < WireBytes(Tensor(SndAt))
        BY <1>6, <1>8, <2>1, <2>3 DEF Announces
    <2>5. r.bytes # WireBytes(Tensor(SndAt))
        BY <1>8, <2>2, <2>4
    <2> QED BY <1>2, <2>1, <2>5 DEF CheckReady, PassedAny, r
<1> QED BY <1>4, <1>9, <1>10

LEMMA SendStripesStep == ASSUME ChannelInv, SendStripes PROVE ChannelInv'
<1> DEFINE r == Head(ready)
           Next1 == [k \in DOMAIN stripesOf[r.id] |->
                      IF k < r.ports /\ stripesOf[r.id][k] = "listening"
                      THEN IF TcpRange(r.bytes, r.ports, k) = TcpRange(r.bytes, TcpStripeCount(r.bytes), k)
                           THEN "sending" ELSE "failed"
                      ELSE stripesOf[r.id][k]]
           States == {"none", "listening", "sending", "arrived", "failed"}
<1>1. /\ ChannelShape /\ SenderCounts /\ ReceiverCounts /\ ReadyInTurn /\ MetadataInTurn /\ OnlyBreaks
      /\ snd.pc = "ready" /\ ready # <<>> /\ ready' = Tail(ready)
      /\ UNCHANGED <<script, transport, rcv, metadata, sendSeq, recvSeq, plain, broken>>
      /\ script \in Scripts /\ transport \in Transports /\ SndAt \in TensorIds /\ SndAt \in Nat \X Nat
      /\ ready \in Seq(Messages) /\ sendSeq \in Nat /\ recvSeq \in Nat
      /\ snd \in Sides({"dict", "tensor", "ready", "done", "raised"}) /\ NextIn' = NextIn
    BY SidesPlaced DEF ChannelInv, SendStripes, ChannelShape, NextIn
<1>2. /\ r \in Messages
      /\ \/ /\ r.id = SndAt /\ CheckReady(r, SndAt) /\ r.ports = TcpStripeCount(r.bytes)
            /\ Rank("tcp", SndAt) = SendsDone /\ Lane(Tensor(SndAt)) = "tcp"
         \/ ~CheckReady(r, SndAt) /\ PassedAny(SndAt)
    BY <1>1, ReadyMatches
<1>3. /\ CheckReady(r, SndAt) => stripesOf' = [stripesOf EXCEPT ![r.id] = Next1] /\ snd' = After(snd, NextDict(snd))
      /\ ~CheckReady(r, SndAt) => snd' = [snd EXCEPT !.pc = "raised"] /\ UNCHANGED stripesOf
    BY DEF SendStripes, SndAt
<1>4. /\ ready' \in Seq(Messages) /\ Len(ready') = Len(ready) - 1 /\ Len(ready) \in Nat \ {0}
      /\ DOMAIN ready' = 1..Len(ready) - 1 /\ DOMAIN ready = 1..Len(ready)
      /\ \A j \in 1..Len(ready) - 1 : ready'[j] = ready[j + 1]
    BY <1>1
<1>5. \A dev \in Devices : Agreed(dev)' => InOrder(dev, plain[dev].sent)'
    BY <1>1, LanesKept DEF SenderCounts, InOrder
<1>6. ASSUME snd' \in Sides({"dict", "tensor", "ready", "done", "raised"}), At(snd)',
             snd'.pc \in {"dict", "tensor", "done", "raised"}, LastOut' = LastOut,
             \A p \in Nat \X Nat : p = SndAt' => SenderAt(p)',
             stripesOf' \in [TensorIds -> [0..MaxTcpStripes - 1 -> States]],
             \A id \in TensorIds, k \in 0..MaxTcpStripes - 1 : stripesOf'[id][k] = "failed" => stripesOf[id][k] = "failed"
      PROVE  ChannelInv'
    <2> HIDE DEF r, Next1
    <2>1. ChannelShape'
        BY <1>1, <1>4, <1>6, LanesKept DEF ChannelShape, At
    <2>2. SendsDone' = SendsDone + 1 /\ SendsDone \in Int
        BY <1>1, <1>6 DEF SendsDone
    <2>3. recvSeq' = SendsDone' + Len(ready')
        <3>1. recvSeq = SendsDone + Len(ready)
            BY <1>1 DEF ReadyInTurn
        <3> QED BY <1>1, <1>4, <2>2, <3>1
    <2>4. ASSUME NEW j \in DOMAIN ready', NEW m \in Messages, m = ready'[j], NEW n \in Nat, n = SendsDone' + j - 1
          PROVE  Announces(m, n)
        <3>1. j + 1 \in DOMAIN ready /\ m = ready[j + 1]
            BY <1>4, <2>4
        <3>2. n = SendsDone + (j + 1) - 1
            BY <1>4, <2>2, <2>4
        <3> QED BY <1>1, <3>1, <3>2 DEF ReadyInTurn
    <2>5. ReadyInTurn'
        BY <1>1, <2>3, <2>4, LanesKept DEF ReadyInTurn
    <2>6. SenderCounts'
        BY <1>5, <1>6 DEF SenderCounts
    <2>7. MetadataInTurn'
        BY <1>1, <1>6, MetadataStays
    <2>8. OnlyBreaks'
        BY <1>1, <1>6, LanesKept DEF OnlyBreaks
    <2> QED BY <1>1, <2>1, <2>5, <2>6, <2>7, <2>8, ReceiverStays DEF ChannelInv
<1>7. CASE ~CheckReady(r, SndAt)
    <2>1. /\ snd'.pc = "raised" /\ snd'.d = snd.d /\ snd'.i = snd.i
          /\ snd' \in Sides({"dict", "tensor", "ready", "done", "raised"})
        BY <1>1, <1>3, <1>7 DEF Sides
    <2>2. At(snd)' /\ SndAt' = SndAt /\ LastOut' = LastOut
        BY <1>1, <2>1 DEF At, SndAt, LastOut, ChannelShape
    <2>3. PassedAny(SndAt)
        BY <1>2, <1>7
    <2>4. \A p \in Nat \X Nat : p = SndAt' => SenderAt(p)'
        BY <1>1, <2>1, <2>2, <2>3, LanesKept DEF SenderAt
    <2>5. stripesOf' = stripesOf /\ stripesOf \in [TensorIds -> [0..MaxTcpStripes - 1 -> States]]
        BY <1>1, <1>3, <1>7 DEF ChannelShape
    <2> QED BY <1>6, <2>1, <2>2, <2>4, <2>5
<1>8. CASE CheckReady(r, SndAt)
    <2>1. /\ r.id = SndAt /\ r.ports = TcpStripeCount(r.bytes)
          /\ Rank("tcp", SndAt) = SendsDone /\ Lane(Tensor(SndAt)) = "tcp"
          /\ stripesOf' = [stripesOf EXCEPT ![r.id] = Next1] /\ snd' = After(snd, NextDict(snd))
        BY <1>2, <1>3, <1>8
    <2>2. /\ snd' \in Sides({"dict", "tensor", "ready", "done", "raised"}) /\ At(snd)'
          /\ snd'.pc \in {"dict", "tensor", "done"} /\ LastOut' = LastOut
          /\ snd'.pc # "done" => SndAt' = Following(SndAt)
        BY <1>1, <2>1, SenderMoves
    <2>3. /\ stripesOf' \in [TensorIds -> [0..MaxTcpStripes - 1 -> States]]
          /\ \A id \in TensorIds, k \in 0..MaxTcpStripes - 1 :
                stripesOf'[id][k] = "failed" => stripesOf[id][k] = "failed"
        <3>1. stripesOf \in [TensorIds -> [0..MaxTcpStripes - 1 -> States]]
            BY <1>1 DEF ChannelShape
        <3> HIDE DEF r
        <3>2. r.id \in TensorIds /\ DOMAIN stripesOf[r.id] = 0..MaxTcpStripes - 1
            BY <1>1, <2>1, <3>1
        <3>3. Next1 \in [0..MaxTcpStripes - 1 -> States]
            BY <3>1, <3>2
        <3>4. \A k \in 0..MaxTcpStripes - 1 : Next1[k] = "failed" => stripesOf[r.id][k] = "failed"
            BY <2>1, <3>2
        <3> HIDE DEF Next1, States
        <3>5. \A id \in TensorIds : stripesOf'[id] = IF id = r.id THEN Next1 ELSE stripesOf[id]
            BY <2>1, <3>1
        <3>6. stripesOf' \in [TensorIds -> [0..MaxTcpStripes - 1 -> States]]
            BY <2>1, <3>1, <3>2, <3>3
        <3> QED BY <3>4, <3>5, <3>6
    <2>4. ASSUME NEW p \in Nat \X Nat, p = SndAt' PROVE SenderAt(p)'
        <3>1. CASE snd'.pc = "done"
            BY <3>1 DEF SenderAt
        <3>2. CASE snd'.pc # "done"
            <4>1. p = Following(SndAt) /\ SendsDone \in Int /\ SendsDone' = SendsDone + 1
                BY <1>1, <2>2, <2>4, <3>2 DEF SendsDone
            <4>2. \A lane : Rank(lane, p) = IF Lane(Tensor(SndAt)) = lane THEN Rank(lane, SndAt) + 1 ELSE Rank(lane, SndAt)
                BY <1>1, <4>1, RankFollowing
            <4>3. Rank("tcp", p) = SendsDone + 1 /\ CountedTo(SendsDone + 1, p)
                BY <2>1, <2>4, <4>2 DEF CountedTo
            <4>4. /\ \A dev \in Devices : Agreed(dev) => Len(plain[dev].sent) = Rank(dev, SndAt)
                  /\ ~Conflict
                BY <1>1 DEF SenderCounts, SenderAt
            <4>5. \A dev \in Devices : Agreed(dev) => Len(plain[dev].sent) = Rank(dev, p)
                BY <2>1, <4>2, <4>4 DEF Devices
            <4>6. (\A n \in Int : n = SendsDone' => CountedTo(n, p)') /\ ~Conflict'
                BY <1>1, <4>1, <4>3, <4>4, LanesKept
            <4> QED BY <1>1, <2>2, <3>2, <4>5, <4>6, LanesKept DEF SenderAt
        <3> QED BY <3>1, <3>2
    <2> QED BY <1>6, <2>2, <2>3, <2>4
<1> QED BY <1>7, <1>8

LEMMA RecvMetadataStep == ASSUME ChannelInv, RecvMetadata PROVE ChannelInv'
<1>1. /\ ChannelShape /\ SenderCounts /\ ReceiverCounts /\ ReadyInTurn /\ MetadataInTurn /\ OnlyBreaks
      /\ rcv.pc = "dict" /\ UNCHANGED <<script, transport, snd, ready, sendSeq, recvSeq, plain, stripesOf, broken>>
      /\ rcv \in Sides({"dict", "tensor", "wait", "done", "raised"}) /\ metadata \in Seq(Nat)
    BY DEF ChannelInv, RecvMetadata, ChannelShape
<1>2. SendsDone' = SendsDone /\ LastOut' = LastOut
    BY <1>1 DEF SendsDone, LastOut
<1>3. SenderCounts' /\ ReadyInTurn'
    BY <1>1, <1>2, SenderStays, ReadyStays
<1>4. CASE Conflict /\ rcv' = [rcv EXCEPT !.pc = "raised"] /\ UNCHANGED metadata
    <2>1. rcv'.pc = "raised" /\ rcv'.d = rcv.d /\ rcv'.i = rcv.i /\ rcv' \in Sides({"dict", "tensor", "wait", "done", "raised"})
        BY <1>1, <1>4 DEF Sides
    <2>2. ChannelShape'
        BY <1>1, <1>4, <2>1, LanesKept DEF ChannelShape, At
    <2>3. ReceiverCounts'
        <3>1. \A p : ReceiverAt(p)'
            BY <2>1 DEF ReceiverAt
        <3>2. \A dev \in Devices : InOrder(dev, plain[dev].posted)'
            BY <1>1, LanesKept DEF ReceiverCounts, InOrder
        <3> QED BY <2>1, <3>1, <3>2 DEF ReceiverCounts
    <2>4. MetadataInTurn'
        BY <2>1 DEF MetadataInTurn
    <2>5. OnlyBreaks'
        BY <1>1, <1>4, <2>1, LanesKept DEF OnlyBreaks
    <2> QED BY <1>3, <2>2, <2>3, <2>4, <2>5 DEF ChannelInv
<1>5. CASE /\ ~Conflict /\ metadata # <<>>
           /\ rcv' = [pc |-> "tensor", d |-> Head(metadata), i |-> 1] /\ metadata' = Tail(metadata)
    <2>1. /\ Len(metadata) \in Nat \ {0} /\ Head(metadata) = metadata[1] /\ metadata' \in Seq(Nat)
          /\ Len(metadata') = Len(metadata) - 1 /\ DOMAIN metadata = 1..Len(metadata)
          /\ DOMAIN metadata' = 1..Len(metadata) - 1
          /\ \A j \in 1..Len(metadata) - 1 : metadata'[j] = metadata[j + 1]
        BY <1>1, <1>5
    <2>2. /\ snd.pc # "raised" => Len(metadata) = LastOut - NextIn + 1
          /\ \A j \in DOMAIN metadata : metadata[j] = NextIn + j - 1
        BY <1>1 DEF MetadataInTurn
    <2>3. NextIn = rcv.d /\ rcv.d \in Nat /\ LastOut \in Int
        BY <1>1, SidesPlaced DEF NextIn
    <2>4. Head(metadata) = rcv.d
        BY <2>1, <2>2, <2>3
    <2>5. rcv'.pc = "tensor" /\ rcv'.d = rcv.d /\ rcv'.i = rcv.i /\ rcv.i = 1
        BY <1>1, <1>5, <2>4 DEF ReceiverCounts
    <2>6. rcv' \in Sides({"dict", "tensor", "wait", "done", "raised"})
        BY <1>5, <2>3, <2>4 DEF Sides
    <2>7. ChannelShape'
        BY <1>1, <2>1, <2>5, <2>6, LanesKept DEF ChannelShape, At
    <2>8. ReceiverCounts'
        <3>1. RcvAt' = RcvAt
            BY <1>1, <2>5 DEF RcvAt
        <3>2. \A p : ReceiverAt(p) => ReceiverAt(p)'
            BY <1>1, <2>5, LanesKept DEF ReceiverAt
        <3>3. \A dev \in Devices : InOrder(dev, plain[dev].posted)'
            BY <1>1, LanesKept DEF ReceiverCounts, InOrder
        <3> QED BY <1>1, <2>5, <3>1, <3>2, <3>3 DEF ReceiverCounts
    <2>9. MetadataInTurn'
        <3>1. NextIn' = NextIn + 1 /\ NextIn \in Nat
            BY <1>1, <2>3, <2>5 DEF NextIn
        <3>2. ASSUME NEW j \in DOMAIN metadata' PROVE metadata'[j] = NextIn' + j - 1
            <4>1. j + 1 \in DOMAIN metadata /\ j \in Nat /\ metadata'[j] = metadata[j + 1]
                BY <2>1
            <4>2. metadata[j + 1] = NextIn + (j + 1) - 1
                BY <2>2, <4>1
            <4> QED BY <3>1, <4>1, <4>2
        <3>3. snd'.pc # "raised" => Len(metadata') = LastOut' - NextIn' + 1
            <4> SUFFICES ASSUME snd'.pc # "raised" PROVE Len(metadata') = LastOut' - NextIn' + 1
                OBVIOUS
            <4>1. Len(metadata) = LastOut - NextIn + 1
                BY <1>1, <2>2
            <4> QED BY <1>2, <2>1, <2>3, <3>1, <4>1
        <3> QED BY <3>2, <3>3 DEF MetadataInTurn
    <2>10. OnlyBreaks'
        BY <1>1, <2>5, LanesKept DEF OnlyBreaks
    <2> QED BY <1>3, <2>7, <2>8, <2>9, <2>10 DEF ChannelInv
<1> QED BY <1>4, <1>5 DEF RecvMetadata

(* The counts of the receiver after a tensor; n tensors came over TCP. *)
LEMMA ReceiverCounted ==
    ASSUME ChannelShape, ReceiverCounts, rcv.pc = "tensor", rcv' = After(rcv, [rcv EXCEPT !.pc = "wait"]),
           UNCHANGED <<script, transport>>,
           recvSeq' = IF Lane(Tensor(RcvAt)) = "tcp" THEN recvSeq + 1 ELSE recvSeq,
           \A e \in Devices : plain'[e].posted =
               IF e = Lane(Tensor(RcvAt)) THEN Append(plain[e].posted, RcvAt) ELSE plain[e].posted
    PROVE  ReceiverCounts'
<1>1. /\ RcvAt \in TensorIds /\ RcvAt \in Nat \X Nat /\ rcv'.pc \in {"tensor", "wait"}
      /\ RcvAt' = Following(RcvAt)
    BY ReceiverMoves, SidesPlaced
<1>2. script \in Scripts /\ plain \in [Devices -> [sent : Seq(TensorIds), posted : Seq(TensorIds)]]
    BY DEF ChannelShape
<1>3. \A lane : Rank(lane, Following(RcvAt)) = IF Lane(Tensor(RcvAt)) = lane THEN Rank(lane, RcvAt) + 1 ELSE Rank(lane, RcvAt)
    BY <1>1, <1>2, RankFollowing
<1>4. recvSeq = Rank("tcp", RcvAt) /\ \A dev \in Devices : Len(plain[dev].posted) = Rank(dev, RcvAt)
    BY <1>1 DEF ReceiverCounts, ReceiverAt
<1>5. ASSUME NEW dev \in Devices
      PROVE  InOrder(dev, plain'[dev].posted) /\ Len(plain'[dev].posted) = Rank(dev, Following(RcvAt))
    <2>1. plain[dev].posted \in Seq(TensorIds) /\ InOrder(dev, plain[dev].posted)
        BY <1>2 DEF ReceiverCounts
    <2>2. CASE dev = Lane(Tensor(RcvAt))
        <3>1. plain'[dev].posted = Append(plain[dev].posted, RcvAt) /\ Lane(Tensor(RcvAt)) = dev
            BY <2>2
        <3>2. Len(Append(plain[dev].posted, RcvAt)) = Len(plain[dev].posted) + 1
            BY <1>1, <2>1
        <3>3. InOrder(dev, Append(plain[dev].posted, RcvAt))
            BY <1>1, <1>2, <1>4, <2>1, <3>1, InOrderAppended
        <3> QED BY <1>3, <1>4, <3>1, <3>2, <3>3
    <2>3. CASE dev # Lane(Tensor(RcvAt))
        BY <1>3, <1>4, <2>1, <2>3
    <2> QED BY <2>2, <2>3
<1>6. \A dev \in Devices : InOrder(dev, plain[dev].posted)'
    BY <1>5, LanesKept DEF InOrder
<1>7. ASSUME NEW p \in Nat \X Nat, p = RcvAt' PROVE ReceiverAt(p)'
    <2>1. p = Following(RcvAt)
        BY <1>1, <1>7
    <2>2. \A dev \in Devices : Len(plain'[dev].posted) = Rank(dev, p)
        BY <1>5, <2>1
    <2>3. recvSeq' = Rank("tcp", p)
        BY <1>3, <1>4, <2>1
    <2> QED BY <2>2, <2>3, LanesKept DEF ReceiverAt
<1> QED BY <1>1, <1>6, <1>7 DEF ReceiverCounts

LEMMA RecvTensorStep == ASSUME ChannelInv, RecvTensor PROVE ChannelInv'
<1> DEFINE t == Tensor(RcvAt)
           bytes == WireBytes(t)
           States == {"none", "listening", "sending", "arrived", "failed"}
           Opened == [k \in DOMAIN stripesOf[RcvAt] |-> IF k < TcpStripeCount(bytes) THEN "listening" ELSE "none"]
           m == [seq |-> recvSeq, bytes |-> bytes, ports |-> TcpStripeCount(bytes), id |-> RcvAt]
<1>1. /\ ChannelShape /\ SenderCounts /\ ReceiverCounts /\ ReadyInTurn /\ MetadataInTurn /\ OnlyBreaks
      /\ rcv.pc = "tensor" /\ UNCHANGED <<script, transport, snd, metadata, sendSeq, broken>>
      /\ script \in Scripts /\ transport \in Transports /\ RcvAt \in TensorIds /\ RcvAt = <<rcv.d, rcv.i>>
      /\ rcv \in Sides({"dict", "tensor", "wait", "done", "raised"}) /\ recvSeq \in Nat
      /\ ready \in Seq(Messages) /\ RcvAt \in Nat \X Nat
    BY SidesPlaced DEF ChannelInv, RecvTensor, ChannelShape
<1>2. /\ Lane(t) = "none" <=> t.bytes = 0
      /\ t.bytes > 0 /\ ReceiverUsesTcp(t) <=> Lane(t) = "tcp"
      /\ Lane(t) \notin {"none", "tcp"} => Lane(t) = SentOn(t)
      /\ SentOn(t) \in Devices /\ t.bytes \in Nat /\ bytes \in Nat
    BY <1>1, LanesAgree
<1>3. /\ plain \in [Devices -> [sent : Seq(TensorIds), posted : Seq(TensorIds)]]
      /\ stripesOf \in [TensorIds -> [0..MaxTcpStripes - 1 -> States]]
      /\ "none" \notin Devices /\ "tcp" \notin Devices
    BY <1>1 DEF ChannelShape, Devices
<1>4. /\ rcv' = After(rcv, [rcv EXCEPT !.pc = "wait"])
      /\ \/ t.bytes = 0 /\ UNCHANGED <<plain, recvSeq, ready, stripesOf>>
         \/ /\ t.bytes > 0 /\ ~ReceiverUsesTcp(t) /\ UNCHANGED <<recvSeq, ready, stripesOf>>
            /\ plain' = [plain EXCEPT ![SentOn(t)].posted = Append(@, RcvAt)]
         \/ /\ t.bytes > 0 /\ ReceiverUsesTcp(t) /\ UNCHANGED plain
            /\ recvSeq' = recvSeq + 1 /\ stripesOf' = [stripesOf EXCEPT ![RcvAt] = Opened]
            /\ ready' = Append(ready, m)
    BY <1>1 DEF RecvTensor
<1>5. /\ rcv' \in Sides({"dict", "tensor", "wait", "done", "raised"}) /\ At(rcv)'
      /\ rcv'.pc \in {"tensor", "wait"} /\ NextIn' = NextIn /\ LastOut' = LastOut /\ SendsDone' = SendsDone
    BY <1>1, <1>4, ReceiverMoves DEF LastOut, SendsDone
<1> HIDE DEF t, bytes, Opened, m
<1>6. MetadataInTurn'
    BY <1>1, <1>5, MetadataStays
<1>7. ASSUME recvSeq' \in Nat, ready' \in Seq(Messages), ReceiverCounts', ReadyInTurn',
             plain' \in [Devices -> [sent : Seq(TensorIds), posted : Seq(TensorIds)]],
             \A e \in Devices : plain'[e].sent = plain[e].sent,
             stripesOf' \in [TensorIds -> [0..MaxTcpStripes - 1 -> States]],
             \A id \in TensorIds, k \in 0..MaxTcpStripes - 1 : stripesOf'[id][k] = "failed" => stripesOf[id][k] = "failed"
      PROVE  ChannelInv'
    <2>1. ChannelShape'
        BY <1>1, <1>5, <1>7, LanesKept DEF ChannelShape, At
    <2>2. OnlyBreaks'
        BY <1>1, <1>5, <1>7, LanesKept DEF OnlyBreaks
    <2> QED BY <1>1, <1>6, <1>7, <2>1, <2>2, SenderStays DEF ChannelInv
<1>8. CASE t.bytes = 0 /\ UNCHANGED <<plain, recvSeq, ready, stripesOf>>
    <2>1. Lane(t) = "none"
        BY <1>2, <1>8
    <2>2. ReceiverCounts'
        BY <1>1, <1>3, <1>4, <1>8, <2>1, ReceiverCounted DEF t
    <2>3. ReadyInTurn'
        BY <1>1, <1>5, <1>8, ReadyStays
    <2> QED BY <1>1, <1>3, <1>7, <1>8, <2>2, <2>3
<1>9. CASE /\ t.bytes > 0 /\ ~ReceiverUsesTcp(t) /\ UNCHANGED <<recvSeq, ready, stripesOf>>
           /\ plain' = [plain EXCEPT ![SentOn(t)].posted = Append(@, RcvAt)]
    <2>1. Lane(t) = SentOn(t) /\ SentOn(t) \in Devices /\ Lane(t) # "tcp"
        BY <1>2, <1>9
    <2>2. /\ plain' \in [Devices -> [sent : Seq(TensorIds), posted : Seq(TensorIds)]]
          /\ \A e \in Devices : plain'[e].sent = plain[e].sent
          /\ \A e \in Devices : plain'[e].posted = IF e = SentOn(t) THEN Append(plain[e].posted, RcvAt) ELSE plain[e].posted
        BY <1>1, <1>9, <2>1, PostedAppended
    <2>3. ReceiverCounts'
        BY <1>1, <1>4, <1>9, <2>1, <2>2, ReceiverCounted DEF t
    <2>4. ReadyInTurn'
        BY <1>1, <1>5, <1>9, ReadyStays
    <2> QED BY <1>1, <1>3, <1>7, <1>9, <2>2, <2>3, <2>4
<1>10. CASE /\ t.bytes > 0 /\ ReceiverUsesTcp(t) /\ UNCHANGED plain
            /\ recvSeq' = recvSeq + 1 /\ stripesOf' = [stripesOf EXCEPT ![RcvAt] = Opened]
            /\ ready' = Append(ready, m)
    <2>1. Lane(t) = "tcp" /\ bytes \in Nat /\ TcpStripeCount(bytes) \in Nat
        BY <1>2, <1>10, StripeCountOfTcp
    <2>2. m \in Messages /\ m.seq = recvSeq /\ m.id = RcvAt /\ m.bytes = bytes /\ m.ports = TcpStripeCount(bytes)
        BY <1>1, <2>1 DEF m, Messages
    <2>3. /\ ready' \in Seq(Messages) /\ Len(ready) \in Nat /\ Len(ready') = Len(ready) + 1
          /\ DOMAIN ready = 1..Len(ready) /\ DOMAIN ready' = 1..Len(ready) + 1
          /\ (\A j \in 1..Len(ready) : ready'[j] = ready[j]) /\ ready'[Len(ready) + 1] = m
        BY <1>1, <1>10, <2>2
    <2>4. ReceiverCounts'
        BY <1>1, <1>3, <1>4, <1>10, <2>1, ReceiverCounted DEF t
    <2>5. recvSeq = Rank("tcp", RcvAt) /\ recvSeq = SendsDone + Len(ready) /\ SendsDone \in Int
        BY <1>1, SidesPlaced DEF ReceiverCounts, ReceiverAt, ReadyInTurn
    <2>6. Announces(m, recvSeq)
        BY <2>1, <2>2, <2>5 DEF Announces, t, bytes
    <2>7. ReadyInTurn'
        <3>1. recvSeq' = SendsDone' + Len(ready')
            BY <1>1, <1>5, <1>10, <2>3, <2>5
        <3>2. ASSUME NEW j \in DOMAIN ready', NEW r \in Messages, r = ready'[j], NEW n \in Nat, n = SendsDone' + j - 1
              PROVE  Announces(r, n)
            <4>1. CASE j \in 1..Len(ready)
                BY <1>1, <1>5, <2>3, <3>2, <4>1 DEF ReadyInTurn
            <4>2. CASE j = Len(ready) + 1
                <5>1. r = m
                    BY <2>3, <3>2, <4>2
                <5>2. n = recvSeq
                    BY <1>5, <2>3, <2>5, <3>2, <4>2
                <5> QED BY <2>6, <5>1, <5>2
            <4> QED BY <2>3, <4>1, <4>2
        <3> QED BY <1>1, <3>1, <3>2, LanesKept DEF ReadyInTurn
    <2>8. /\ stripesOf' \in [TensorIds -> [0..MaxTcpStripes - 1 -> States]]
          /\ \A id \in TensorIds, k \in 0..MaxTcpStripes - 1 : stripesOf'[id][k] = "failed" => stripesOf[id][k] = "failed"
        <3>1. DOMAIN stripesOf[RcvAt] = 0..MaxTcpStripes - 1
            BY <1>1, <1>3
        <3>2. Opened \in [0..MaxTcpStripes - 1 -> States] /\ \A k \in 0..MaxTcpStripes - 1 : Opened[k] # "failed"
            BY <3>1 DEF Opened
        <3> HIDE DEF States
        <3>3. \A id \in TensorIds : stripesOf'[id] = IF id = RcvAt THEN Opened ELSE stripesOf[id]
            BY <1>3, <1>10
        <3>4. stripesOf' \in [TensorIds -> [0..MaxTcpStripes - 1 -> States]]
            BY <1>3, <1>10, <3>2
        <3> QED BY <3>2, <3>3, <3>4
    <2> QED BY <1>1, <1>3, <1>7, <1>10, <2>3, <2>4, <2>7, <2>8
<1> QED BY <1>4, <1>8, <1>9, <1>10

LEMMA WaitHandlesStep == ASSUME ChannelInv, WaitHandles PROVE ChannelInv'
<1> DEFINE ids == {<<rcv.d, i>> : i \in DOMAIN script[rcv.d]}
           Failed == \E id \in ids, k \in 0..MaxTcpStripes - 1 : stripesOf[id][k] = "failed"
<1>1. /\ ChannelShape /\ SenderCounts /\ ReceiverCounts /\ ReadyInTurn /\ MetadataInTurn /\ OnlyBreaks
      /\ rcv.pc = "wait" /\ UNCHANGED <<script, transport, snd, metadata, ready, sendSeq, recvSeq, plain, stripesOf, broken>>
      /\ rcv \in Sides({"dict", "tensor", "wait", "done", "raised"}) /\ script \in Scripts /\ At(rcv)
      /\ rcv' = IF Failed THEN [rcv EXCEPT !.pc = "raised"] ELSE NextDict(rcv)
    BY DEF ChannelInv, WaitHandles, ChannelShape
<1>2. SendsDone' = SendsDone /\ LastOut' = LastOut
    BY <1>1 DEF SendsDone, LastOut
<1>3. SenderCounts' /\ ReadyInTurn'
    BY <1>1, <1>2, SenderStays, ReadyStays
<1>4. Failed => broken
    <2>1. ids \subseteq TensorIds
        BY <1>1, ScriptPlaces DEF At
    <2> QED BY <1>1, <2>1 DEF OnlyBreaks
<1> HIDE DEF Failed
<1>5. \A dev \in Devices : InOrder(dev, plain[dev].posted)'
    BY <1>1, LanesKept DEF ReceiverCounts, InOrder
<1>6. CASE Failed
    <2>1. rcv'.pc = "raised" /\ rcv'.d = rcv.d /\ rcv'.i = rcv.i /\ rcv' \in Sides({"dict", "tensor", "wait", "done", "raised"})
        BY <1>1, <1>6 DEF Sides
    <2>2. ChannelShape'
        BY <1>1, <2>1, LanesKept DEF ChannelShape, At
    <2>3. ReceiverCounts'
        BY <1>5, <2>1 DEF ReceiverCounts, ReceiverAt
    <2>4. MetadataInTurn'
        BY <2>1 DEF MetadataInTurn
    <2>5. OnlyBreaks'
        BY <1>1, <1>4, <1>6, LanesKept DEF OnlyBreaks
    <2> QED BY <1>3, <2>2, <2>3, <2>4, <2>5 DEF ChannelInv
<1>7. CASE ~Failed
    <2>0. /\ rcv.d \in Nat \ {0} /\ Len(script) \in Nat \ {0} /\ DOMAIN script = 1..Len(script) /\ rcv.d <= Len(script)
          /\ NextIn = rcv.d + 1 /\ RcvAt = <<rcv.d + 1, 1>>
        BY <1>1, ScriptPlaces, SidesPlaced DEF NextIn, RcvAt
    <2>1. CASE rcv.d < Len(script)
        <3>1. rcv.d + 1 \in DOMAIN script /\ Smaller(rcv.d + 1, Len(script)) = rcv.d + 1
            BY <2>0, <2>1 DEF Smaller
        <3>2. rcv' = [pc |-> "dict", d |-> rcv.d + 1, i |-> 1]
            BY <1>1, <1>7, <2>1, <3>1 DEF NextDict
        <3>3. At(rcv)'
            <4>1. rcv'.d \in DOMAIN script /\ rcv'.i = 1
                BY <3>1, <3>2
            <4> QED BY <1>1, <4>1, ScriptPlaces DEF At
        <3>4. rcv' \in Sides({"dict", "tensor", "wait", "done", "raised"})
            BY <2>0, <3>2 DEF Sides
        <3>5. ChannelShape'
            BY <1>1, <3>3, <3>4, LanesKept DEF ChannelShape, At
        <3>6. RcvAt' = RcvAt /\ NextIn' = NextIn
            BY <2>0, <3>2 DEF RcvAt, NextIn
        <3>7. ReceiverCounts'
            <4>1. \A p : ReceiverAt(p) => ReceiverAt(p)'
                BY <1>1, LanesKept DEF ReceiverAt
            <4>2. rcv'.i = 1
                BY <3>2
            <4> QED BY <1>1, <1>5, <3>6, <4>1, <4>2 DEF ReceiverCounts
        <3>8. MetadataInTurn'
            BY <1>1, <1>2, <3>2, <3>6, MetadataStays
        <3>9. OnlyBreaks'
            BY <1>1, <3>2, LanesKept DEF OnlyBreaks
        <3> QED BY <1>3, <3>5, <3>7, <3>8, <3>9 DEF ChannelInv
    <2>2. CASE ~(rcv.d < Len(script))
        <3>1. Smaller(rcv.d + 1, Len(script)) = rcv.d
            BY <2>0, <2>2 DEF Smaller
        <3>2. rcv' = [pc |-> "done", d |-> rcv.d, i |-> 1]
            BY <1>1, <1>7, <2>2, <3>1 DEF NextDict
        <3>3. At(rcv)'
            <4>1. rcv'.d \in DOMAIN script /\ rcv'.i = 1
                BY <1>1, <3>2 DEF At
            <4> QED BY <1>1, <4>1, ScriptPlaces DEF At
        <3>4. rcv' \in Sides({"dict", "tensor", "wait", "done", "raised"})
            BY <2>0, <3>2 DEF Sides
        <3>5. ChannelShape'
            BY <1>1, <3>3, <3>4, LanesKept DEF ChannelShape, At
        <3>6. NextIn' = NextIn
            BY <2>0, <3>2 DEF NextIn
        <3>7. ReceiverCounts'
            BY <1>5, <3>2 DEF ReceiverCounts, ReceiverAt
        <3>8. MetadataInTurn'
            BY <1>1, <1>2, <3>2, <3>6, MetadataStays
        <3>9. OnlyBreaks'
            BY <1>1, <3>2, LanesKept DEF OnlyBreaks
        <3> QED BY <1>3, <3>5, <3>7, <3>8, <3>9 DEF ChannelInv
    <2> QED BY <2>1, <2>2
<1> QED BY <1>6, <1>7

LEMMA StripeStep ==
    ASSUME ChannelInv, NEW id \in TensorIds, NEW k \in 0..MaxTcpStripes - 1,
           StripeArrives(id, k) \/ StripeFails(id, k)
    PROVE  ChannelInv'
<1> DEFINE States == {"none", "listening", "sending", "arrived", "failed"}
<1>1. /\ ChannelShape /\ SenderCounts /\ ReceiverCounts /\ ReadyInTurn /\ MetadataInTurn /\ OnlyBreaks
      /\ UNCHANGED <<script, transport, snd, rcv, metadata, ready, sendSeq, recvSeq, plain>>
      /\ stripesOf \in [TensorIds -> [0..MaxTcpStripes - 1 -> States]]
    BY DEF ChannelInv, StripeArrives, StripeFails, ChannelShape
<1>2. PICK v \in {"arrived", "failed"} :
          /\ stripesOf' = [stripesOf EXCEPT ![id] = [stripesOf[id] EXCEPT ![k] = v]]
          /\ v = "failed" => broken'
          /\ broken => broken'
          /\ broken' \in BOOLEAN
    <2>1. CASE StripeArrives(id, k)
        BY <1>1, <2>1 DEF StripeArrives, ChannelShape
    <2>2. CASE StripeFails(id, k)
        BY <1>1, <2>2 DEF StripeFails
    <2> QED BY <2>1, <2>2
<1>3. /\ stripesOf' \in [TensorIds -> [0..MaxTcpStripes - 1 -> States]]
      /\ \A j \in TensorIds, l \in 0..MaxTcpStripes - 1 :
            stripesOf'[j][l] = "failed" => stripesOf[j][l] = "failed" \/ v = "failed"
    <2> DEFINE f == [stripesOf[id] EXCEPT ![k] = v]
    <2>1. f \in [0..MaxTcpStripes - 1 -> States] /\ \A l \in 0..MaxTcpStripes - 1 : f[l] = IF l = k THEN v ELSE stripesOf[id][l]
        BY <1>1
    <2> HIDE DEF States
    <2>2. stripesOf' = [stripesOf EXCEPT ![id] = f]
        BY <1>2
    <2> HIDE DEF f
    <2>3. \A j \in TensorIds : stripesOf'[j] = IF j = id THEN f ELSE stripesOf[j]
        BY <1>1, <2>2
    <2> QED BY <1>1, <2>1, <2>2, <2>3
<1>4. ChannelShape'
    BY <1>1, <1>2, <1>3, LanesKept DEF ChannelShape, At
<1>5. OnlyBreaks'
    BY <1>1, <1>2, <1>3, LanesKept DEF OnlyBreaks
<1>6. SendsDone' = SendsDone /\ LastOut' = LastOut /\ NextIn' = NextIn
    BY <1>1 DEF SendsDone, LastOut, NextIn
<1> QED BY <1>1, <1>4, <1>5, <1>6, SenderStays, ReceiverStays, ReadyStays, MetadataStays DEF ChannelInv

LEMMA ChannelInvStep == ChannelInv /\ [ChannelNext]_channelVars => ChannelInv'
<1> SUFFICES ASSUME ChannelInv, [ChannelNext]_channelVars PROVE ChannelInv'
    OBVIOUS
<1>1. CASE SendMetadata \/ SendTensor \/ SendStripes
    BY <1>1, SendMetadataStep, SendTensorStep, SendStripesStep
<1>2. CASE RecvMetadata \/ RecvTensor \/ WaitHandles
    BY <1>2, RecvMetadataStep, RecvTensorStep, WaitHandlesStep
<1>3. ASSUME NEW id \in TensorIds, NEW k \in 0..MaxTcpStripes - 1, StripeArrives(id, k) \/ StripeFails(id, k)
      PROVE  ChannelInv'
    BY <1>3, StripeStep
<1>4. CASE UNCHANGED channelVars
    <2>1. UNCHANGED <<script, transport, snd, rcv, metadata, ready, sendSeq, recvSeq, plain, stripesOf, broken>>
        BY <1>4 DEF channelVars
    <2>2. ChannelShape' /\ OnlyBreaks'
        BY <2>1, LanesKept DEF ChannelInv, ChannelShape, OnlyBreaks, At
    <2>3. SendsDone' = SendsDone /\ LastOut' = LastOut /\ NextIn' = NextIn
        BY <2>1 DEF SendsDone, LastOut, NextIn
    <2> QED BY <2>1, <2>2, <2>3, SenderStays, ReceiverStays, ReadyStays, MetadataStays DEF ChannelInv
<1> QED BY <1>1, <1>2, <1>3, <1>4 DEF ChannelNext

(* Two tensors with the same number in the same lane are one. *)
LEMMA ChannelInvMatches == ChannelInv => TensorsMatch /\ NoFalseAlarm
<1> SUFFICES ASSUME ChannelInv PROVE TensorsMatch /\ NoFalseAlarm
    OBVIOUS
<1>1. script \in Scripts /\ plain \in [Devices -> [sent : Seq(TensorIds), posted : Seq(TensorIds)]]
    BY DEF ChannelInv, ChannelShape
<1>2. ASSUME NEW dev \in Devices, Agreed(dev), NEW k \in Delivered(dev) PROVE plain[dev].sent[k] = plain[dev].posted[k]
    <2>1. /\ plain[dev].sent \in Seq(TensorIds) /\ plain[dev].posted \in Seq(TensorIds)
          /\ k \in DOMAIN plain[dev].posted /\ k <= Len(plain[dev].sent)
        BY <1>1 DEF Delivered
    <2>2. k \in DOMAIN plain[dev].sent
        BY <2>1
    <2>3. plain[dev].sent[k] \in TensorIds /\ plain[dev].posted[k] \in TensorIds
        BY <2>1, <2>2
    <2>4. /\ Lane(Tensor(plain[dev].sent[k])) = dev /\ Rank(dev, plain[dev].sent[k]) = k - 1
          /\ Lane(Tensor(plain[dev].posted[k])) = dev /\ Rank(dev, plain[dev].posted[k]) = k - 1
        BY <1>2, <2>1, <2>2, <2>3 DEF ChannelInv, SenderCounts, ReceiverCounts, InOrder
    <2> QED BY <1>1, <2>3, <2>4, RankOnce
<1>3. ASSUME NEW dev \in Devices, ~Agreed(dev), NEW k \in Delivered(dev) PROVE FALSE
    <2>1. dev = "cuda" /\ transport.tcp /\ k \in DOMAIN plain[dev].posted
        BY <1>3 DEF Agreed, Devices, Delivered
    <2>2. plain[dev].posted[k] \in TensorIds
        BY <1>1, <2>1
    <2>3. Lane(Tensor(plain[dev].posted[k])) = "cuda"
        BY <2>1, <2>2 DEF ChannelInv, ReceiverCounts, InOrder
    <2>4. \A t : Lane(t) # "cuda"
        BY <2>1 DEF Lane, ReceiverUsesTcp, SentOn
    <2> QED BY <2>3, <2>4
<1>4. snd.pc = "ready" /\ ready # <<>> /\ CheckReady(Head(ready), <<snd.d, snd.i>>) => Head(ready).id = <<snd.d, snd.i>>
    BY ReadyMatches DEF SndAt
<1>5. SndAt \in Nat \X Nat
    BY SidesPlaced DEF ChannelInv
<1>6. snd.pc = "raised" => Conflict \/ PassedAny(SndAt)
    BY <1>5 DEF ChannelInv, SenderCounts, SenderAt
<1>7. NoFalseAlarm
    BY <1>6 DEF ChannelInv, OnlyBreaks, NoFalseAlarm, PassedAny, SndAt
<1>8. TensorsMatch
    BY <1>2, <1>3, <1>4 DEF TensorsMatch
<1> QED BY <1>7, <1>8

-----------------------------------------------------------------------------
(* The copies together: only the part in focus moves.                       *)
CopyInv ==
    /\ focus = "striped" => StripedInv
    /\ focus = "waterfall" => WaterfallInv
    /\ focus = "channel" => ChannelInv

LEMMA CopyInvInit == ProgressInit => CopyInv
<1> SUFFICES ASSUME ProgressInit PROVE CopyInv
    OBVIOUS
<1>1. CASE focus = "striped"
    BY <1>1, StripedInitInv DEF ProgressInit, CopyInv
<1>2. CASE focus = "waterfall"
    <2>1. PICK k \in Manifests, c \in BOOLEAN : WaterfallStart(k, c)
        BY <1>2 DEF ProgressInit, WaterfallInit
    <2>2. k \in [Nodes -> SUBSET Files]
        BY WaterfallAssumption DEF Nodes
    <2> QED BY <1>2, <2>1, <2>2, WaterfallStartInv DEF CopyInv
<1>3. CASE focus = "channel"
    <2>1. PICK s \in Scripts, t \in Transports : ChannelStart(s, t)
        BY <1>3 DEF ProgressInit, ChannelInit
    <2> QED BY <1>3, <2>1, ChannelStartInv DEF CopyInv
<1> QED BY <1>1, <1>2, <1>3 DEF CopyInv

LEMMA CopyInvStep ==
    ASSUME CopyInv, [ProgressNext]_<<focus, pressureParts, copyParts, outerParts>>
    PROVE  CopyInv'
<1>1. UNCHANGED focus
    BY DEF ProgressNext
<1>2. focus = "striped" => [StripedNext]_stripedVars
    BY DEF ProgressNext, PressureNext, CopyNext, OuterNext, copyParts
<1>3. focus = "waterfall" => [WaterfallNext]_waterfallVars
    BY DEF ProgressNext, PressureNext, CopyNext, OuterNext, copyParts
<1>4. focus = "channel" => [ChannelNext]_channelVars
    BY DEF ProgressNext, PressureNext, CopyNext, OuterNext, copyParts
<1>5. focus = "striped" => StripedInv'
    BY <1>2, StripedInvStep DEF CopyInv
<1>6. focus = "waterfall" => WaterfallInv'
    BY <1>3, WaterfallInvStep DEF CopyInv
<1>7. focus = "channel" => ChannelInv'
    BY <1>4, ChannelInvStep DEF CopyInv
<1> QED BY <1>1, <1>5, <1>6, <1>7 DEF CopyInv

(* A copy in stripes that is renamed is the file, a relay that reports ok   *)
(* has put every file where it is kept and cleaned up behind it, and a      *)
(* tensor that arrives is the one it was received for, with no false alarm  *)
(* of the channel (striped_channel.py, waterfall_copy.py,                   *)
(* pp_tcp_tensor_channel.py).                                               *)
THEOREM ProgressCopiesWhole == ProgressSpec => []CopiesWhole
<1>1. ProgressInit => CopyInv
    BY CopyInvInit
<1>2. CopyInv /\ [ProgressNext]_<<focus, pressureParts, copyParts, outerParts>> => CopyInv'
    BY CopyInvStep
<1>3. CopyInv => CopiesWhole
    BY WaterfallInvDelivers, ChannelInvMatches DEF CopyInv, CopiesWhole, StripedInv
<1> QED BY <1>1, <1>2, <1>3, PTL DEF ProgressSpec
=============================================================================
