-------------------------- MODULE SerialLinkProofs --------------------------
(***************************************************************************)
(* Proofs about SerialLink for every pool, queue length, sequence of       *)
(* transfers and noise: the receiver neither loses nor doubles a packet,   *)
(* and csp_sfp_recv holds a block of memory exactly while a transfer is    *)
(* under way.                                                              *)
(***************************************************************************)
EXTENDS SerialLink, DataLemmas

\* The fields of the receiver.
IsReceiver(t) ==
    /\ t \in [mode : {"not_started", "started", "escaped", "skip_frame"}, frame : {t.frame},
              first : BOOLEAN, packet : BOOLEAN, free : Nat, q : {t.q}]
    /\ IsSeq(t.frame) /\ IsSeq(t.q)

\* What is read from a queue has data of a length.
Carries(x) == \A i \in 1 .. Len(x) : IsSeq(x[i].data)

\* Bytes of a frame are only collected into a packet.
HoldsPacket(t) == t.mode \in {"started", "escaped"} => t.packet

ReceiverOK(t) == IsReceiver(t) /\ Carries(t.q) /\ HoldsPacket(t)

\* The packets that a receiver has, in whatever place.
Held(t) == t.free + (IF t.packet THEN 1 ELSE 0) + Len(t.q)

TransferOK ==
    /\ rcv = [data |-> rcv.data, size |-> rcv.size]
    /\ IsSeq(rcv.data)

IInv == ReceiverOK(s) /\ IsSeq(rx) /\ Carries(rx) /\ TransferOK /\ PacketsAccounted

-----------------------------------------------------------------------------
(* csp_kiss_rx, mode by mode: the packets are the same number afterwards.  *)

Keeps(t, u) == ReceiverOK(u) /\ Held(u) = Held(t)

Receiver(mode, frame, first, packet, free, q) ==
    [mode |-> mode, frame |-> frame, first |-> first, packet |-> packet, free |-> free, q |-> q]

\* What has to be seen of a new state of the receiver.
LEMMA ReceiverKeeps ==
    ASSUME NEW t, ReceiverOK(t),
           NEW mode \in {"not_started", "started", "escaped", "skip_frame"}, NEW frame,
           NEW first \in BOOLEAN, NEW packet \in BOOLEAN, NEW free \in Nat, NEW q,
           IsSeq(frame), IsSeq(q), Carries(q), mode \in {"started", "escaped"} => packet,
           free + (IF packet THEN 1 ELSE 0) + Len(q) = Held(t)
    PROVE  Keeps(t, Receiver(mode, frame, first, packet, free, q))
BY DEF Receiver, Keeps, ReceiverOK, IsReceiver, HoldsPacket, Held

\* A receiver is made of its fields.
Fields(t) ==
    /\ t \in [mode : {"not_started", "started", "escaped", "skip_frame"}, frame : {t.frame},
              first : BOOLEAN, packet : BOOLEAN, free : Nat, q : {t.q}]
    /\ t.mode \in {"not_started", "started", "escaped", "skip_frame"}
    /\ t.first \in BOOLEAN /\ t.packet \in BOOLEAN /\ t.free \in Nat
    /\ IsSeq(t.frame) /\ IsSeq(t.q) /\ Len(t.q) \in Nat /\ Carries(t.q)
    /\ Held(t) = t.free + (IF t.packet THEN 1 ELSE 0) + Len(t.q) /\ Held(t) \in Nat
    /\ t.mode \in {"started", "escaped"} => t.packet

\* The fields of a receiver.
LEMMA ReceiverFields ==
    ASSUME NEW t, ReceiverOK(t)
    PROVE  Fields(t)
BY DEF Fields, ReceiverOK, IsReceiver, HoldsPacket, Held, IsSeq

\* A frame that is too long is given up; its packet is kept for the next one.
LEMMA TooLongKeeps ==
    ASSUME NEW t, ReceiverOK(t)
    PROVE  Keeps(t, TooLong(t))
<1>0. Fields(t)
  BY ReceiverFields
<1>1. CASE Len(t.frame) >= MaxRx
  <2>1. TooLong(t) = Receiver("not_started", <<>>, t.first, t.packet, t.free, t.q)
    BY <1>1, <1>0 DEF TooLong, Receiver, Fields
  <2> QED BY <2>1, <1>0, ReceiverKeeps, EmptyIsSeq DEF Fields
<1>2. CASE ~(Len(t.frame) >= MaxRx)
  BY <1>2 DEF TooLong, Keeps
<1> QED BY <1>1, <1>2

\* A packet is taken from the pool only if none is held.
LEMMA NotStartedKeeps ==
    ASSUME NEW t, NEW byte, ReceiverOK(t), t.mode = "not_started"
    PROVE  Keeps(t, NotStarted(t, byte))
<1>0. Fields(t)
  BY ReceiverFields
<1>1. CASE byte # FEND
  BY <1>1 DEF NotStarted, Keeps
<1>2. CASE byte = FEND /\ ~t.packet /\ t.free = 0
  <2>1. NotStarted(t, byte) = Receiver("skip_frame", t.frame, t.first, t.packet, t.free, t.q)
    BY <1>2, <1>0 DEF NotStarted, Receiver, Fields
  <2> QED BY <2>1, <1>0, ReceiverKeeps DEF Fields
<1>3. CASE byte = FEND /\ ~(~t.packet /\ t.free = 0)
  <2> DEFINE free == IF t.packet THEN t.free ELSE t.free - 1
  <2>1. NotStarted(t, byte) = Receiver("started", <<>>, TRUE, TRUE, free, t.q)
    BY <1>3, <1>0 DEF NotStarted, Receiver, Fields
  <2>2. free \in Nat /\ free + 1 + Len(t.q) = Held(t)
    BY <1>3, <1>0 DEF Fields
  <2> HIDE DEF free
  <2> QED BY <2>1, <2>2, <1>0, EmptyIsSeq DEF Fields, Receiver, Keeps, ReceiverOK, IsReceiver, HoldsPacket, Held
<1> QED BY <1>1, <1>2, <1>3

\* The packet of a frame goes to the queue or back to the pool.
LEMMA AcceptedKeeps ==
    ASSUME NEW t, ReceiverOK(t), t.packet, Valid(t.frame)
    PROVE  Keeps(t, Accepted(t))
<1>0. Fields(t)
  BY ReceiverFields
<1> DEFINE p == [hdr |-> t.frame[1], data |-> SubSeq(t.frame, 2, Len(t.frame) - 1)]
<1>1. IsSeq(p.data)
  BY <1>0, SubSeqIsSeq DEF Valid, IsSeq, Fields
<1>2. CASE Len(t.q) < QfifoLen
  <2>1. Accepted(t) = Receiver("not_started", t.frame, t.first, FALSE, t.free, Append(t.q, p))
    BY <1>2, <1>0 DEF Accepted, Receiver, Fields
  <2> HIDE DEF p
  <2> DEFINE q == Append(t.q, p)
  <2>2. /\ IsSeq(q) /\ Len(q) = Len(t.q) + 1 /\ q[Len(t.q) + 1] = p
        /\ \A i \in 1 .. Len(t.q) : q[i] = t.q[i]
    BY <1>0, AppendIsSeq DEF Fields
  <2> HIDE DEF q
  <2>3. Carries(q)
    BY <1>1, <2>2, <1>0 DEF Carries, Fields
  <2>4. t.free + 0 + Len(q) = Held(t)
    BY <2>2, <1>0 DEF Fields
  <2> QED BY <2>1, <2>2, <2>3, <2>4, <1>0 DEF Fields, Receiver, Keeps, ReceiverOK, IsReceiver, HoldsPacket, Held, q
<1>3. CASE ~(Len(t.q) < QfifoLen)
  <2>1. Accepted(t) = Receiver("not_started", t.frame, t.first, FALSE, t.free + 1, t.q)
    BY <1>3, <1>0 DEF Accepted, Receiver, Fields
  <2>2. t.free + 1 \in Nat /\ t.free + 1 + 0 + Len(t.q) = Held(t)
    BY <1>0 DEF Fields
  <2> QED BY <2>1, <2>2, <1>0 DEF Fields, Receiver, Keeps, ReceiverOK, IsReceiver, HoldsPacket, Held
<1> QED BY <1>2, <1>3

\* A byte of a frame, its end or an escape.
LEMMA StartedKeeps ==
    ASSUME NEW t, NEW byte, ReceiverOK(t), t.mode = "started"
    PROVE  Keeps(t, Started(t, byte))
<1>0. Fields(t)
  BY ReceiverFields
<1>1. CASE byte = FESC
  <2>1. Started(t, byte) = Receiver("escaped", t.frame, t.first, t.packet, t.free, t.q)
    BY <1>1, <1>0 DEF Started, Receiver, FESC, FEND, Fields
  <2> QED BY <2>1, <1>0, ReceiverKeeps DEF Fields
<1>2. CASE byte = FEND
  <2>1. Started(t, byte) = EndChar(t)
    BY <1>2 DEF Started, FESC, FEND
  <2>2. CASE t.frame = <<>>
    BY <2>1, <2>2 DEF EndChar, Keeps
  <2>3. CASE t.frame # <<>> /\ ~Valid(t.frame)
    <3>1. Started(t, byte) = Receiver("not_started", t.frame, t.first, t.packet, t.free, t.q)
      BY <2>1, <2>3, <1>0 DEF EndChar, Receiver, Fields
    <3> QED BY <3>1, <1>0, ReceiverKeeps DEF Fields
  <2>4. CASE t.frame # <<>> /\ Valid(t.frame)
    BY <2>1, <2>4, <1>0, AcceptedKeeps DEF EndChar, Fields
  <2> QED BY <2>2, <2>3, <2>4
<1>3. CASE byte \notin {FESC, FEND} /\ t.first
  <2>1. Started(t, byte) = Receiver("started", t.frame, FALSE, t.packet, t.free, t.q)
    BY <1>3, <1>0 DEF Started, Receiver, Fields
  <2> QED BY <2>1, <1>0 DEF Fields, Receiver, Keeps, ReceiverOK, IsReceiver, HoldsPacket, Held
<1>4. CASE byte \notin {FESC, FEND} /\ ~t.first
  <2>1. Started(t, byte) = Receiver("started", Append(t.frame, byte), t.first, t.packet, t.free, t.q)
    BY <1>4, <1>0 DEF Started, Receiver, Fields
  <2>2. IsSeq(Append(t.frame, byte))
    BY <1>0, AppendIsSeq DEF Fields
  <2> QED BY <2>1, <2>2, <1>0, ReceiverKeeps DEF Fields
<1> QED BY <1>1, <1>2, <1>3, <1>4

\* The byte behind an escape.
LEMMA EscapedKeeps ==
    ASSUME NEW t, NEW byte, ReceiverOK(t), t.mode = "escaped"
    PROVE  Keeps(t, Escaped(t, byte))
<1>0. Fields(t)
  BY ReceiverFields
<1> DEFINE F == CASE byte = TFESC -> Append(t.frame, FESC)
                  [] byte = TFEND -> Append(t.frame, FEND)
                  [] OTHER -> t.frame
<1>1. IsSeq(F)
  BY <1>0, AppendIsSeq DEF TFESC, TFEND, Fields
<1>2. Escaped(t, byte) = [t EXCEPT !.mode = "started", !.frame = F]
  BY <1>0 DEF Escaped, Fields
<1> HIDE DEF F
<1>3. Escaped(t, byte) = Receiver("started", F, t.first, t.packet, t.free, t.q)
  BY <1>0, <1>2 DEF Receiver, Fields
<1> QED BY <1>1, <1>3, <1>0, ReceiverKeeps DEF Fields

\* A byte of a frame that is skipped.
LEMMA SkipFrameKeeps ==
    ASSUME NEW t, NEW byte, ReceiverOK(t)
    PROVE  Keeps(t, SkipFrame(t, byte))
<1>0. Fields(t)
  BY ReceiverFields
<1>1. CASE byte = FEND
  <2>1. SkipFrame(t, byte) = Receiver("not_started", t.frame, t.first, t.packet, t.free, t.q)
    BY <1>1, <1>0 DEF SkipFrame, Receiver, Fields
  <2> QED BY <2>1, <1>0, ReceiverKeeps DEF Fields
<1>2. CASE byte # FEND
  BY <1>2 DEF SkipFrame, Keeps
<1> QED BY <1>1, <1>2

\* csp_kiss_rx in every mode.
LEMMA KissRxKeeps ==
    ASSUME NEW t, NEW byte, ReceiverOK(t)
    PROVE  Keeps(t, csp_kiss_rx(t, byte))
<1> DEFINE u == TooLong(t)
<1>1. Keeps(t, u)
  BY TooLongKeeps
<1> HIDE DEF u
<1>2. ReceiverOK(u)
  BY <1>1 DEF Keeps
<1>3. u.mode \in {"not_started", "started", "escaped", "skip_frame"}
  BY <1>2 DEF ReceiverOK, IsReceiver
<1>4. Keeps(u, InMode(u, byte))
  BY <1>2, <1>3, NotStartedKeeps, StartedKeeps, EscapedKeeps, SkipFrameKeeps DEF InMode
<1>5. csp_kiss_rx(t, byte) = InMode(u, byte)
  BY DEF csp_kiss_rx, u
<1> QED BY <1>1, <1>4, <1>5 DEF Keeps
-----------------------------------------------------------------------------
(* The steps.                                                              *)

\* The invariant in terms of what the receiver holds.
LEMMA Accounts ==
    ASSUME ReceiverOK(s), IsSeq(rx)
    PROVE  PacketsAccounted <=> /\ Held(s) + Len(rx) = Pool
                                /\ heap = (IF rcv.size = NULL THEN 0 ELSE 1)
BY DEF PacketsAccounted, Held

\* At the start all packets are free.
LEMMA InitOK ==
    ASSUME Init
    PROVE  IInv
<1>0. Carries(<<>>) /\ Pool \in Nat
  BY EmptyIsSeq, LinkAssumption DEF Carries
<1>1. s = Receiver("not_started", <<>>, FALSE, FALSE, Pool, <<>>)
  BY DEF Init, csp_kiss_add_interface, Receiver
<1>2. ReceiverOK(s) /\ Held(s) = Pool
  BY <1>0, <1>1, EmptyIsSeq DEF Receiver, ReceiverOK, IsReceiver, HoldsPacket, Held
<1>3. IsSeq(rx) /\ Carries(rx)
  BY EmptyIsSeq DEF Init, Carries
<1>4. TransferOK
  BY EmptyIsSeq DEF Init, NoData, TransferOK
<1>5. PacketsAccounted
  <2>1. Len(rx) = 0 /\ heap = (IF rcv.size = NULL THEN 0 ELSE 1)
    BY EmptyIsSeq DEF Init, NoData, NULL
  <2> QED BY <1>0, <1>2, <1>3, <2>1, Accounts
<1> QED BY <1>2, <1>3, <1>4, <1>5 DEF IInv

\* A byte from the line, whatever it has become.
LEMMA DeliversOK ==
    ASSUME IInv, NEW byte, NEW f, Delivers(byte, f), UNCHANGED <<rx, rcv, heap>>
    PROVE  IInv'
<1>1. s' = csp_kiss_rx(s, byte)
  BY DEF Delivers
<1>2. ReceiverOK(s') /\ Held(s') = Held(s)
  BY <1>1, KissRxKeeps DEF IInv, Keeps
<1>3. PacketsAccounted'
  BY <1>2 DEF IInv, PacketsAccounted, Held
<1> QED BY <1>2, <1>3 DEF IInv, TransferOK

\* The router moves a packet to the connection's queue or frees it.
LEMMA RouteOK ==
    ASSUME IInv, Route
    PROVE  IInv'
<1> DEFINE p == Head(s.q)
<1>0. Fields(s) /\ Held(s) + Len(rx) = Pool /\ IsSeq(rx) /\ Carries(rx) /\ Len(rx) \in Nat
  BY ReceiverFields DEF IInv, IsSeq, PacketsAccounted, Held
<1>1. /\ IsSeq(Tail(s.q)) /\ Len(Tail(s.q)) = Len(s.q) - 1 /\ Len(s.q) > 0
      /\ p = s.q[1] /\ \A i \in 1 .. Len(s.q) - 1 : Tail(s.q)[i] = s.q[i + 1]
  BY <1>0, TailIsSeq DEF Fields, Route
<1>a. Held(s) \in Nat /\ Carries(s.q) /\ Len(s.q) \in Nat
  BY <1>0 DEF Fields
<1>2. Carries(Tail(s.q)) /\ IsSeq(p.data)
  BY <1>1, <1>a DEF Carries
<1>b. ReceiverOK(s)
  BY DEF IInv
<1> HIDE DEF p
<1>3. CASE p.hdr \in {Hdr, NoFrag} /\ Len(rx) < RxqueueLen
  <2>1. rx' = Append(rx, p) /\ s' = [s EXCEPT !.q = Tail(@)]
    BY <1>3 DEF Route, p
  <2>2. s' = Receiver(s.mode, s.frame, s.first, s.packet, s.free, Tail(s.q))
    BY <1>0, <2>1 DEF Fields, Receiver
  <2>3. ReceiverOK(s') /\ Held(s') = Held(s) - 1
    BY <1>0, <1>1, <1>2, <2>2 DEF Fields, Receiver, ReceiverOK, IsReceiver, HoldsPacket, Held
  <2>4. /\ IsSeq(rx') /\ Len(rx') = Len(rx) + 1 /\ rx'[Len(rx) + 1] = p
        /\ \A i \in 1 .. Len(rx) : rx'[i] = rx[i]
    BY <1>0, <2>1, AppendIsSeq
  <2>5. Carries(rx')
    BY <1>0, <1>2, <2>4 DEF Carries
  <2>6. Held(s') + Len(rx') = Pool
    BY <1>0, <1>a, <2>3, <2>4
  <2> QED BY <2>3, <2>4, <2>5, <2>6 DEF IInv, TransferOK, PacketsAccounted, Held, Route
<1>4. CASE ~(p.hdr \in {Hdr, NoFrag} /\ Len(rx) < RxqueueLen)
  <2>1. rx' = rx /\ s' = [s EXCEPT !.q = Tail(@), !.free = @ + 1]
    BY <1>4 DEF Route, p
  <2>2. s' = Receiver(s.mode, s.frame, s.first, s.packet, s.free + 1, Tail(s.q))
    BY <1>0, <2>1 DEF Fields, Receiver
  <2> DEFINE q == Tail(s.q)
             free == s.free + 1
  <2>a. free \in Nat /\ free + (IF s.packet THEN 1 ELSE 0) + Len(q) = Held(s)
    <3>1. s.free \in Nat /\ Held(s) = s.free + (IF s.packet THEN 1 ELSE 0) + Len(s.q)
      BY <1>0 DEF Fields
    <3>2. Len(q) = Len(s.q) - 1
      BY <1>1
    <3> HIDE DEF q
    <3> QED BY <1>a, <3>1, <3>2
  <2>b. s' = Receiver(s.mode, s.frame, s.first, s.packet, free, q) /\ IsSeq(q) /\ Carries(q)
    BY <1>1, <1>2, <2>2
  <2> HIDE DEF q, free
  <2>c. Keeps(s, Receiver(s.mode, s.frame, s.first, s.packet, free, q))
    BY <1>0, <1>b, <2>a, <2>b, ReceiverKeeps DEF Fields
  <2>3. ReceiverOK(s') /\ Held(s') = Held(s)
    BY <2>b, <2>c DEF Keeps
  <2>4. Held(s') + Len(rx') = Pool
    BY <1>0, <2>1, <2>3
  <2> QED BY <2>1, <2>3, <2>4 DEF IInv, TransferOK, PacketsAccounted, Held, Route
<1> QED BY <1>3, <1>4

\* What is left of a transfer that is given up.
LEMMA AbandonOK ==
    ASSUME TransferOK, heap = (IF rcv.size = NULL THEN 0 ELSE 1), Abandon
    PROVE  TransferOK' /\ heap' = (IF rcv'.size = NULL THEN 0 ELSE 1)
BY EmptyIsSeq DEF TransferOK, Abandon, NoData, NULL

\* A fragment: the block is allocated with the first one, and given to the
\* caller with the last one.
LEMMA RecvOK ==
    ASSUME TransferOK, heap = (IF rcv.size = NULL THEN 0 ELSE 1),
           NEW f, IsSeq(f.data), NEW memory, Recv(f, memory)
    PROVE  TransferOK' /\ heap' = (IF rcv'.size = NULL THEN 0 ELSE 1)
<1> DEFINE data == rcv.data \o f.data
           used == heap + (IF rcv.size = NULL THEN 1 ELSE 0)
<1>1. IsSeq(data) /\ Len(data) \in Nat
  BY ConcatIsSeq DEF TransferOK, IsSeq
<1>2. used = 1
  OBVIOUS
<1>3. CASE ~Consistent(f, rcv) \/ (rcv.size = NULL /\ ~memory)
  BY <1>3, AbandonOK DEF Recv
<1>4. CASE /\ ~(~Consistent(f, rcv) \/ (rcv.size = NULL /\ ~memory)) /\ Len(data) >= f.total
  <2>1. rcv' = NoData /\ heap' = used - 1
    BY <1>4 DEF Recv
  <2> QED BY <1>2, <2>1, EmptyIsSeq DEF TransferOK, NoData, NULL
<1>5. CASE /\ ~(~Consistent(f, rcv) \/ (rcv.size = NULL /\ ~memory)) /\ ~(Len(data) >= f.total)
  <2>1. rcv' = [data |-> data, size |-> f.total] /\ heap' = used
    BY <1>5 DEF Recv
  <2> HIDE DEF data, used
  <2>2. f.total # NULL
    BY <1>1, <1>5 DEF NULL
  <2> QED BY <1>1, <1>2, <2>1, <2>2 DEF TransferOK
<1> QED BY <1>3, <1>4, <1>5

\* csp_sfp_recv: a fragment is copied and freed, or the transfer is given up.
LEMMA SfpRecvOK ==
    ASSUME IInv, csp_sfp_recv
    PROVE  IInv'
<1> DEFINE f == csp_sfp_header_remove(Head(rx))
<1>0. Fields(s) /\ Held(s) + Len(rx) = Pool /\ IsSeq(rx) /\ Carries(rx) /\ Len(rx) \in Nat
  BY ReceiverFields DEF IInv, IsSeq, PacketsAccounted, Held
<1>1. /\ IsSeq(rx') /\ Len(rx') = Len(rx) - 1 /\ Len(rx) > 0
      /\ Head(rx) = rx[1] /\ \A i \in 1 .. Len(rx) - 1 : rx'[i] = rx[i + 1]
  BY <1>0, TailIsSeq DEF csp_sfp_recv
<1>2. Carries(rx') /\ IsSeq(Head(rx).data)
  BY <1>0, <1>1 DEF Carries
<1>3. IsSeq(f.data)
  <2>1. f.data = SubSeq(Head(rx).data, 1, Len(Head(rx).data) - 1)
    BY DEF csp_sfp_header_remove, Front
  <2>2. Len(Head(rx).data) \in Nat
    BY <1>2 DEF IsSeq
  <2> DEFINE d == Head(rx).data
             n == Len(d) - 1
  <2>3. IsSeq(d) /\ n \in Int /\ n <= Len(d)
    BY <1>2, <2>2
  <2> HIDE DEF d, n
  <2>4. IsSeq(SubSeq(d, 1, n))
    BY <2>3, SubSeqIsSeq
  <2> QED BY <2>1, <2>4 DEF d, n
<1> HIDE DEF f
<1>4. PICK memory \in BOOLEAN : Recv(f, memory)
  BY DEF csp_sfp_recv, f
<1>5. TransferOK' /\ heap' = (IF rcv'.size = NULL THEN 0 ELSE 1)
  BY <1>3, <1>4, RecvOK DEF IInv, PacketsAccounted
<1>6. s' = Receiver(s.mode, s.frame, s.first, s.packet, s.free + 1, s.q)
  BY <1>0 DEF csp_sfp_recv, Fields, Receiver
<1>7. ReceiverOK(s') /\ Held(s') = Held(s) + 1
  BY <1>0, <1>6 DEF Fields, Receiver, ReceiverOK, IsReceiver, HoldsPacket, Held
<1>8. Held(s') + Len(rx') = Pool
  BY <1>0, <1>1, <1>7 DEF Fields
<1> QED BY <1>1, <1>2, <1>5, <1>7, <1>8 DEF IInv, PacketsAccounted, Held

\* Every step accounts for packets and memory.
LEMMA NextOK ==
    ASSUME IInv, [Next]_vars
    PROVE  IInv'
<1>1. CASE SendFragment \/ SendFails \/ Lose \/ UNCHANGED vars
  BY <1>1 DEF SendFragment, SendFails, Lose, Disturb, vars, IInv, TransferOK, PacketsAccounted
<1>2. CASE RxByte
  BY <1>2, DeliversOK DEF RxByte
<1>3. CASE Garble \/ Add
  <2>1. PICK b \in Noise : Delivers(b, Head(line).f)
    BY <1>3 DEF Garble, Add
  <2>2. UNCHANGED <<rx, rcv, heap>>
    BY <1>3 DEF Garble, Add, Disturb
  <2> QED BY <2>1, <2>2, DeliversOK
<1>4. CASE Route
  BY <1>4, RouteOK
<1>5. CASE csp_sfp_recv
  BY <1>5, SfpRecvOK
<1>6. CASE RecvTimeout
  <2>1. TransferOK' /\ heap' = (IF rcv'.size = NULL THEN 0 ELSE 1)
    BY <1>6, AbandonOK DEF RecvTimeout, IInv, PacketsAccounted
  <2> QED BY <1>6, <2>1 DEF RecvTimeout, IInv, PacketsAccounted
<1> QED BY <1>1, <1>2, <1>3, <1>4, <1>5, <1>6 DEF Next

\* However frames are lost, garbled, too long, refused for want of a buffer or
\* of room in a queue, and however transfers break off, csp_kiss_rx, the router
\* and csp_sfp_recv account for every packet of the pool, and no block of memory
\* outlives its transfer.
THEOREM PacketsAreAccounted == Spec => []PacketsAccounted
<1>1. Init => IInv
  BY InitOK
<1>2. IInv /\ [Next]_vars => IInv'
  BY NextOK
<1>3. IInv => PacketsAccounted
  BY DEF IInv
<1> QED BY <1>1, <1>2, <1>3, PTL DEF Spec
=============================================================================
