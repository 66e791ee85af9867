--------------------------- MODULE StripedChannel ---------------------------
(***************************************************************************)
(* One file sent over several TCP connections (striped_channel.py) and the *)
(* copy step of ds4-fast-copy around it (fast_copy.py): a receiver started *)
(* on the destination, a sender on the source, a rename when the receiver  *)
(* has everything and a look at the size at the end.  A byte of the file   *)
(* stands for a chunk.                                                     *)
(***************************************************************************)
EXTENDS Integers, FiniteSets

CONSTANTS MaxSize,     \* bound: chunks in a file
          MaxStripes   \* bound: stripes asked for

ASSUME StripedAssumption == MaxSize \in Nat /\ MaxStripes \in Nat \ {0}

VARIABLES size,      \* size of the file
          stripes,   \* --stripes, the same number on both sides
          digest,    \* the receiver was given the expected sha256
          sender,    \* per stripe: state of the sending thread
          receiver,  \* per stripe: state of the receiving thread and its next offset
          landed,    \* the temporary file: which byte of the source is at an offset, or Hole
          dest,      \* the file under its final name
          copy       \* what _copy_file makes of it

stripedVars == <<size, stripes, digest, sender, receiver, landed, dest, copy>>

Hole == -1
AllStripes == 0..MaxStripes - 1
Lesser(a, b) == IF a < b THEN a ELSE b
Greater(a, b) == IF a > b THEN a ELSE b

(* stripe_ranges: as many stripes as bytes at most, the first size % n one  *)
(* byte longer.  The loop's running begin, in closed form.                  *)
StripeCount(sz, n) == Lesser(n, Greater(sz, 1))
StripeBegin(sz, n, i) ==
    LET m == StripeCount(sz, n) IN i * (sz \div m) + Lesser(i, sz % m)
StripeEnd(sz, n, i) == StripeBegin(sz, n, i + 1)
Stripes == 0..StripeCount(size, stripes) - 1

StripedTypeOK ==
    /\ size \in 0..MaxSize /\ stripes \in 1..MaxStripes /\ digest \in BOOLEAN
    /\ sender \in [AllStripes -> {"connecting", "sending", "sent", "failed"}]
    /\ receiver \in [AllStripes -> [pc : {"listening", "receiving", "complete", "failed"}, at : 0..MaxSize]]
    /\ landed \in [0..MaxSize - 1 -> Hole..MaxSize - 1]
    /\ dest \in {"absent", "renamed"}
    /\ copy \in {"running", "ok", "raised"}

(* _prepare_receive_file: the temporary file is truncated to its size, so   *)
(* it has that size before a byte has come.                                 *)
StripedStart(sz, n, d) ==
    /\ size = sz /\ stripes = n /\ digest = d
    /\ sender = [i \in AllStripes |-> "connecting"]
    /\ receiver = [i \in AllStripes |->
                      [pc |-> "listening", at |-> Lesser(StripeBegin(sz, n, i), sz)]]
    /\ landed = [b \in 0..MaxSize - 1 |-> Hole]
    /\ dest = "absent" /\ copy = "running"

StripedInit == \E sz \in 0..MaxSize, n \in 1..MaxStripes, d \in BOOLEAN : StripedStart(sz, n, d)

(* The receiver accepts one connection per stripe and then closes its       *)
(* listener; a stripe of no bytes is complete at once.                      *)
StripeConnect(i) ==
    /\ sender[i] = "connecting" /\ receiver[i].pc = "listening"
    /\ sender' = [sender EXCEPT ![i] = "sending"]
    /\ receiver' = [receiver EXCEPT ![i].pc = "receiving"]
    /\ UNCHANGED <<size, stripes, digest, landed, dest, copy>>

(* One chunk read from the connection and written at the offset. The sender *)
(* reads on from its own begin, so byte k of the connection is byte         *)
(* begin + k of the source.                                                 *)
StripeChunk(i) ==
    /\ receiver[i].pc = "receiving" /\ sender[i] \in {"sending", "sent"}
    /\ receiver[i].at < StripeEnd(size, stripes, i)
    /\ landed' = [landed EXCEPT ![receiver[i].at] = receiver[i].at]
    /\ receiver' = [receiver EXCEPT ![i].at = @ + 1]
    /\ UNCHANGED <<size, stripes, digest, sender, dest, copy>>

StripeComplete(i) ==
    /\ receiver[i].pc = "receiving"
    /\ receiver[i].at = StripeEnd(size, stripes, i)
    /\ receiver' = [receiver EXCEPT ![i].pc = "complete"]
    /\ UNCHANGED <<size, stripes, digest, sender, landed, dest, copy>>

(* sendall, shutdown and return: the data may still be on its way, or in    *)
(* the backlog of a listener whose thread is done with the stripe.          *)
StripeSent(i) ==
    /\ \/ sender[i] = "sending"
       \/ sender[i] = "connecting" /\ receiver[i].pc \in {"complete", "failed"}
    /\ sender' = [sender EXCEPT ![i] = "sent"]
    /\ UNCHANGED <<size, stripes, digest, receiver, landed, dest, copy>>

(* A broken connection: the sender starts over from the begin of its        *)
(* stripe; the receiver sees the end of the stream and raises when bytes    *)
(* are missing.                                                             *)
StripeBreak(i) ==
    /\ sender[i] = "sending" \/ (sender[i] = "sent" /\ receiver[i].pc = "receiving")
    /\ sender' = [sender EXCEPT ![i] = IF @ = "sent" THEN @ ELSE "connecting"]
    /\ receiver' = [receiver EXCEPT ![i].pc =
                       IF @ = "receiving" /\ receiver[i].at < StripeEnd(size, stripes, i) THEN "failed" ELSE @]
    /\ UNCHANGED <<size, stripes, digest, landed, dest, copy>>

(* Nobody listens any more until the sender's deadline, or no sender comes  *)
(* until the receiver's timeout.                                            *)
SenderDeadline(i) ==
    /\ sender[i] = "connecting"
    /\ sender' = [sender EXCEPT ![i] = "failed"]
    /\ UNCHANGED <<size, stripes, digest, receiver, landed, dest, copy>>

ReceiverTimeout(i) ==
    /\ receiver[i].pc = "listening"
    /\ receiver' = [receiver EXCEPT ![i].pc = "failed"]
    /\ UNCHANGED <<size, stripes, digest, sender, landed, dest, copy>>

(* receive_file_striped, once all its threads are done: the digest if there *)
(* is one to compare with, then os.replace and the mv of the server script. *)
Wanted == \A b \in 0..size - 1 : landed[b] = b
ReceiveEnds ==
    /\ dest = "absent"
    /\ \A i \in Stripes : receiver[i].pc = "complete"
    /\ digest => Wanted
    /\ dest' = "renamed"
    /\ UNCHANGED <<size, stripes, digest, sender, receiver, landed, copy>>

(* _run_striped_copy: the client's result first, then the server's, then    *)
(* the size of the destination.                                             *)
CopyEnds ==
    /\ copy = "running"
    /\ \A i \in Stripes : sender[i] \in {"sent", "failed"}
    /\ \/ /\ \E i \in Stripes : sender[i] = "failed"
          /\ copy' = "raised"
       \/ /\ \A i \in Stripes : sender[i] = "sent"
          /\ dest = "renamed" \/ \E i \in Stripes : receiver[i].pc = "failed"
          /\ copy' = IF dest = "renamed" THEN "ok" ELSE "raised"
    /\ UNCHANGED <<size, stripes, digest, sender, receiver, landed, dest>>

StripedNext ==
    \/ \E i \in Stripes : StripeConnect(i) \/ StripeChunk(i) \/ StripeComplete(i) \/ StripeSent(i)
                          \/ StripeBreak(i) \/ SenderDeadline(i) \/ ReceiverTimeout(i)
    \/ ReceiveEnds \/ CopyEnds

-----------------------------------------------------------------------------
(* A file that got its final name has every byte of the source at its       *)
(* place, whatever connections broke and were made again, also when no      *)
(* digest was given (stripe_ranges, _receive_stripe, receive_file_striped). *)
StripedWhole == dest = "renamed" => Wanted

(* The copy comes to an end although a sender that lost its receiver knows  *)
(* nothing of it (_send_stripe, _receive_stripe, _run_striped_copy).        *)
StripedEnds == (copy = "running") ~> (copy # "running")
=============================================================================
