--------------------------- MODULE TensorChannel ---------------------------
(***************************************************************************)
(* Tensor dicts between two stages of a vLLM pipeline                      *)
(* (pp_tcp_transport_patch.py, pp_tcp_tensor_channel.py).  The sender      *)
(* sends the metadata of a dict and then each tensor, over striped TCP,    *)
(* staged on the CPU or as torch would.  Each side decides by itself which *)
(* way a tensor goes; over TCP the receiver listens, tells the sender its  *)
(* ports in a ready message, and stripes are moved by threads while both   *)
(* sides go on.  The number of a tensor in the dicts is its content.       *)
(* vLLM's object channel and torch.distributed are external: FIFO.         *)
(***************************************************************************)
EXTENDS Integers, Sequences, FiniteSets

CONSTANTS Scripts,        \* sequences of dicts; a dict is a sequence of [device, bytes, gather]
          Transports,     \* [tcp, staged, min]: the environment, the same on both ranks
          MaxTcpStripes, StripeMinBytes, GatherSize

Devices == {"cpu", "cuda"}

(* A stage hands on some dicts, with some tensors in each.                  *)
ASSUME ChannelAssumption ==
    /\ MaxTcpStripes \in Nat \ {0} /\ StripeMinBytes \in Nat \ {0}
    /\ GatherSize \in Nat \ {0}
    /\ Transports \subseteq [tcp : BOOLEAN, staged : BOOLEAN, min : Nat \ {0}]
    /\ Scripts \subseteq Seq(Seq([device : Devices, bytes : Nat, gather : BOOLEAN]) \ {<<>>}) \ {<<>>}

VARIABLES script, transport,
          snd, rcv,         \* where each side is: dict, tensor
          metadata,         \* objects on their way to the receiver: numbers of dicts
          ready,            \* objects on their way to the sender
          sendSeq, recvSeq,
          plain,            \* per device group: tensors given to isend and to irecv
          stripesOf,        \* per tensor over TCP: what each stripe's threads do
          broken            \* a connection failed or was late

channelVars == <<script, transport, snd, rcv, metadata, ready, sendSeq, recvSeq, plain, stripesOf, broken>>

IdsOf(s) == UNION {{d} \X DOMAIN s[d] : d \in DOMAIN s}
Tensor(id) == script[id[1]][id[2]]
TensorIds == IdsOf(script)
Smaller(a, b) == IF a < b THEN a ELSE b

(* _can_use_tcp, _should_cpu_stage: two transports at once are refused.     *)
Conflict == transport.tcp /\ transport.staged

(* What goes over the wire: a slice when an all-gather puts it together     *)
(* again.                                                                   *)
WireBytes(t) == IF t.gather THEN t.bytes \div GatherSize ELSE t.bytes

(* can_handle and _send_one_tensor, with the CPU copy of                    *)
(* _split_tensor_dict; and what _recv_metadata_entry makes of the metadata: *)
(* the smallest size, VLLM_DS4_PP_TCP_MIN_BYTES, is looked at only by       *)
(* the sender.                                                              *)
SentOn(t) == IF transport.staged THEN "cpu" ELSE t.device
(* Mutation: a tensor of exactly the smallest size goes another way. *)
SenderUsesTcpAbove(t) == transport.tcp /\ t.device = "cuda" /\ WireBytes(t) > transport.min

SenderUsesTcp(t) == transport.tcp /\ t.device = "cuda" /\ WireBytes(t) >= transport.min
ReceiverUsesTcp(t) == transport.tcp /\ t.device = "cuda"

(* _stripe_count by the receiver; the sender cuts by the number of ports.   *)
TcpStripeCount(bytes) ==
    Smaller(MaxTcpStripes, Smaller((bytes + StripeMinBytes - 1) \div StripeMinBytes, bytes))
TcpRange(bytes, n, k) ==
    LET at(j) == j * (bytes \div n) + Smaller(j, bytes % n) IN <<at(k), at(k + 1)>>

ChannelTypeOK ==
    /\ script \in Scripts /\ transport \in Transports /\ broken \in BOOLEAN
    /\ snd.pc \in {"dict", "tensor", "ready", "done", "raised"}
    /\ rcv.pc \in {"dict", "tensor", "wait", "done", "raised"}
    /\ metadata \in Seq(DOMAIN script) /\ sendSeq \in Nat /\ recvSeq \in Nat
    /\ stripesOf \in [TensorIds -> [0..MaxTcpStripes - 1 -> {"none", "listening", "sending", "arrived", "failed"}]]

ChannelStart(s, t) ==
    /\ script = s /\ transport = t
    /\ snd = [pc |-> "dict", d |-> 1, i |-> 1] /\ rcv = [pc |-> "dict", d |-> 1, i |-> 1]
    /\ metadata = <<>> /\ ready = <<>> /\ sendSeq = 0 /\ recvSeq = 0
    /\ plain = [dev \in Devices |-> [sent |-> <<>>, posted |-> <<>>]]
    /\ stripesOf = [id \in IdsOf(s) |-> [k \in 0..MaxTcpStripes - 1 |-> "none"]]
    /\ broken = FALSE
ChannelInit == \E s \in Scripts, t \in Transports : ChannelStart(s, t)

(* The next tensor of a dict, or what follows its last.                     *)
After(side, end) ==
    IF side.i < Len(script[side.d]) THEN [side EXCEPT !.i = @ + 1, !.pc = "tensor"] ELSE end
NextDict(side) ==
    [pc |-> IF side.d < Len(script) THEN "dict" ELSE "done", d |-> Smaller(side.d + 1, Len(script)), i |-> 1]

(* _isend_tensor_dict up to the metadata.                                   *)
SendMetadata ==
    /\ snd.pc = "dict"
    /\ IF Conflict THEN snd' = [snd EXCEPT !.pc = "raised"] /\ UNCHANGED metadata
       ELSE snd' = [snd EXCEPT !.pc = "tensor"] /\ metadata' = Append(metadata, snd.d)
    /\ UNCHANGED <<script, transport, rcv, ready, sendSeq, recvSeq, plain, stripesOf, broken>>

(* _send_one_tensor.  Over TCP the number is taken before the wait.         *)
SendTensor ==
    LET id == <<snd.d, snd.i>> t == Tensor(id) IN
    /\ snd.pc = "tensor"
    /\ \/ /\ t.bytes = 0
          /\ snd' = After(snd, NextDict(snd)) /\ UNCHANGED <<plain, sendSeq>>
       \/ /\ t.bytes > 0 /\ ~SenderUsesTcp(t)
          /\ plain' = [plain EXCEPT ![SentOn(t)].sent = Append(@, id)]
          /\ snd' = After(snd, NextDict(snd)) /\ UNCHANGED sendSeq
       \/ /\ t.bytes > 0 /\ SenderUsesTcp(t)
          /\ sendSeq' = sendSeq + 1
          /\ snd' = [snd EXCEPT !.pc = "ready"] /\ UNCHANGED plain
    /\ UNCHANGED <<script, transport, rcv, metadata, ready, recvSeq, stripesOf, broken>>

(* Ds4TcpTensorChannel.send from the ready message on.  A stripe whose      *)
(* range is not the receiver's goes wrong at its end.                       *)
CheckReady(r, id) == r.seq = sendSeq - 1 /\ r.bytes = WireBytes(Tensor(id)) /\ r.ports > 0
SendStripes ==
    LET id == <<snd.d, snd.i>> r == Head(ready) IN
    /\ snd.pc = "ready" /\ ready # <<>>
    /\ ready' = Tail(ready)
    /\ IF ~CheckReady(r, id) THEN snd' = [snd EXCEPT !.pc = "raised"] /\ UNCHANGED stripesOf
       ELSE /\ stripesOf' = [stripesOf EXCEPT ![r.id] = [k \in DOMAIN @ |->
                  IF k < r.ports /\ @[k] = "listening"
                  THEN IF TcpRange(r.bytes, r.ports, k) = TcpRange(r.bytes, TcpStripeCount(r.bytes), k)
                       THEN "sending" ELSE "failed"
                  ELSE @[k]]]
            /\ snd' = After(snd, NextDict(snd))
    /\ UNCHANGED <<script, transport, rcv, metadata, sendSeq, recvSeq, plain, broken>>

(* _irecv_tensor_dict *)
RecvMetadata ==
    /\ rcv.pc = "dict"
    /\ \/ Conflict /\ rcv' = [rcv EXCEPT !.pc = "raised"] /\ UNCHANGED metadata
       \/ /\ ~Conflict /\ metadata # <<>>
          /\ rcv' = [pc |-> "tensor", d |-> Head(metadata), i |-> 1] /\ metadata' = Tail(metadata)
    /\ UNCHANGED <<script, transport, snd, ready, sendSeq, recvSeq, plain, stripesOf, broken>>

(* _recv_metadata_entry; the caller waits for the handles of a dict.        *)
RecvTensor ==
    LET id == <<rcv.d, rcv.i>> t == Tensor(id) bytes == WireBytes(t) IN
    /\ rcv.pc = "tensor"
    /\ rcv' = After(rcv, [rcv EXCEPT !.pc = "wait"])
    /\ \/ t.bytes = 0 /\ UNCHANGED <<plain, recvSeq, ready, stripesOf>>
       \/ /\ t.bytes > 0 /\ ~ReceiverUsesTcp(t)
          /\ plain' = [plain EXCEPT ![SentOn(t)].posted = Append(@, id)]
          /\ UNCHANGED <<recvSeq, ready, stripesOf>>
       \/ /\ t.bytes > 0 /\ ReceiverUsesTcp(t)
          /\ recvSeq' = recvSeq + 1
          /\ stripesOf' = [stripesOf EXCEPT ![id] = [k \in DOMAIN @ |-> IF k < TcpStripeCount(bytes) THEN "listening" ELSE "none"]]
          /\ ready' = Append(ready, [seq |-> recvSeq, bytes |-> bytes, ports |-> TcpStripeCount(bytes), id |-> id])
          /\ UNCHANGED plain
    /\ UNCHANGED <<script, transport, snd, metadata, sendSeq, broken>>

(* The threads of a stripe: it arrives, or the connection breaks or is not  *)
(* made before the timeout.                                                 *)
StripeArrives(id, k) ==
    /\ stripesOf[id][k] = "sending"
    /\ stripesOf' = [stripesOf EXCEPT ![id][k] = "arrived"]
    /\ UNCHANGED <<script, transport, snd, rcv, metadata, ready, sendSeq, recvSeq, plain, broken>>
StripeFails(id, k) ==
    /\ stripesOf[id][k] \in {"listening", "sending"}
    /\ stripesOf' = [stripesOf EXCEPT ![id][k] = "failed"] /\ broken' = TRUE
    /\ UNCHANGED <<script, transport, snd, rcv, metadata, ready, sendSeq, recvSeq, plain>>

(* wait() of all handles: the k-th irecv of a group gets the k-th isend.    *)
Delivered(dev) == {k \in DOMAIN plain[dev].posted : k <= Len(plain[dev].sent)}
Settled(id) ==
    /\ \A k \in DOMAIN stripesOf[id] : stripesOf[id][k] \in {"none", "arrived", "failed"}
    /\ \A dev \in Devices : \A k \in DOMAIN plain[dev].posted : plain[dev].posted[k] = id => k \in Delivered(dev)
WaitHandles ==
    LET ids == {<<rcv.d, i>> : i \in DOMAIN script[rcv.d]} IN
    /\ rcv.pc = "wait" /\ \A id \in ids : Settled(id)
    /\ rcv' = IF \E id \in ids, k \in 0..MaxTcpStripes - 1 : stripesOf[id][k] = "failed"
              THEN [rcv EXCEPT !.pc = "raised"] ELSE NextDict(rcv)
    /\ UNCHANGED <<script, transport, snd, metadata, ready, sendSeq, recvSeq, plain, stripesOf, broken>>

ChannelNext ==
    \/ SendMetadata \/ SendTensor \/ SendStripes \/ RecvMetadata \/ RecvTensor \/ WaitHandles
    \/ \E id \in TensorIds, k \in 0..MaxTcpStripes - 1 : StripeArrives(id, k) \/ StripeFails(id, k)

-----------------------------------------------------------------------------
(* Tensors do not get mixed up, at any smallest size: what an irecv is      *)
(* given is the tensor it was posted for, and a ready message the sender    *)
(* accepts is for the tensor it is at.  Both sides choose the way of a      *)
(* tensor by themselves, and a ready message carries no name, only a number *)
(* and a size (_send_one_tensor, _recv_metadata_entry, _check_ready).       *)
TensorsMatch ==
    /\ \A dev \in Devices : \A k \in Delivered(dev) : plain[dev].sent[k] = plain[dev].posted[k]
    /\ snd.pc = "ready" /\ ready # <<>> /\ CheckReady(Head(ready), <<snd.d, snd.i>>)
       => Head(ready).id = <<snd.d, snd.i>>

(* A tensor on the GPU below the smallest size: it is given to isend and    *)
(* awaited over TCP.  The profiles in the repository set the size to 1, for *)
(* which there is none.                                                     *)
Divided(id) ==
    LET t == Tensor(id)
    IN  t.bytes > 0 /\ t.device = "cuda" /\ transport.tcp /\ WireBytes(t) < transport.min
Ahead(a, b) == a[1] < b[1] \/ (a[1] = b[1] /\ a[2] < b[2])

(* Two transports at once excepted, the sender raises only behind a divided *)
(* tensor, whose ready message it takes for that of a later one, and the    *)
(* receiver only for a broken connection: otherwise sequence numbers and    *)
(* sizes agree at every ready message and both sides cut a tensor alike     *)
(* (_check_ready, _stripe_ranges).                                          *)
NoFalseAlarm ==
    /\ snd.pc = "raised" => Conflict \/ \E id \in TensorIds : Divided(id) /\ Ahead(id, <<snd.d, snd.i>>)
    /\ rcv.pc = "raised" => Conflict \/ broken

(* And every dict gets across until the receiver is at one with a divided   *)
(* tensor: no side waits for a ready message or a tensor that the other one *)
(* sends another way.  In a dict with a divided tensor the receiver waits   *)
(* for a connection nobody makes, until its timeout (_recv_stripe).         *)
DictsArrive ==
    <>(\/ broken \/ Conflict
       \/ snd.pc = "done" /\ rcv.pc = "done"
       \/ rcv.pc = "wait" /\ \E id \in TensorIds : Divided(id) /\ id[1] = rcv.d)
=============================================================================
