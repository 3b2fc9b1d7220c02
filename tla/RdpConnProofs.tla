--------------------------- MODULE RdpConnProofs ----------------------------
(***************************************************************************)
(* What the functions of RdpConn return, for every window, queue length,   *)
(* sequence space and slot: lemmas for the theorems of RdpProofs.          *)
(***************************************************************************)
EXTENDS RdpConn, FiniteSetTheorems, SequenceTheorems, TLAPS

\* A well-formed slot
Slot(c) == c \in Conn /\ IsFiniteSet(c.tx)

\* The fields that say who owns the slot are equal.
SameOwner(c, d) ==
    /\ d.open = c.open /\ d.state = c.state /\ d.closed_by = c.closed_by
    /\ d.dest_socket = c.dest_socket /\ d.backlog = c.backlog

\* d is what a call leaves of slot c that does not touch its ownership.
Quiet(c, d) == Slot(d) /\ SameOwner(c, d)

\* The sum of sequence numbers wraps into the sequence space.
LEMMA PlusType ==
    ASSUME NEW a \in Int, NEW k \in Int PROVE Plus(a, k) \in Seqnr
BY ModAssumption DEF Plus, Seqnr

\* A sequence number is an integer.
LEMMA SeqnrInt == Seqnr \subseteq Int
BY ModAssumption DEF Seqnr

\* Zero is a sequence number.
LEMMA ZeroSeqnr == 0 \in Seqnr
BY ModAssumption DEF Seqnr

\* Two quiet calls in a row are a quiet call.
LEMMA QuietTrans ==
    ASSUME NEW c, NEW d, NEW e, Quiet(c, d), Quiet(d, e) PROVE Quiet(c, e)
BY DEF Quiet, SameOwner

\* A freshly initialised slot is well formed.
LEMMA InitSlot == ASSUME NEW nr \in Seqnr PROVE Slot(csp_conn_init(nr))
<1>1. IsFiniteSet({}) BY FS_EmptySet
<1>2. csp_conn_init(nr) \in Conn
  BY DEF csp_conn_init, Conn, State, ClosedByAll, Data
<1> QED BY <1>1, <1>2 DEF Slot, csp_conn_init

\* csp_rdp_queue_tx_add keeps the slot well formed and its owner.
LEMMA TxAddQuiet ==
    ASSUME NEW c, Slot(c), NEW flags \in SUBSET Flag, NEW nr \in Seqnr, NEW d \in Data
    PROVE  Quiet(c, csp_rdp_queue_tx_add(c, flags, nr, d))
<1> DEFINE same == {e \in c.tx : e.seq_nr = nr}
           new == [flags |-> flags, seq_nr |-> nr, data |-> d, copy |-> Cardinality(same)]
<1>1. IsFiniteSet(same) BY FS_Subset DEF Slot
<1>2. Cardinality(same) \in Nat BY <1>1, FS_CardinalityType
<1>3. new \in TxElement BY <1>2 DEF TxElement
<1>4. IsFiniteSet(c.tx \cup {new}) BY FS_AddElement DEF Slot
<1>5. [c EXCEPT !.tx = @ \cup {new}] \in Conn BY <1>3 DEF Slot, Conn
<1>6. Quiet(c, [c EXCEPT !.tx = @ \cup {new}])
  BY <1>4, <1>5 DEF Quiet, SameOwner, Slot, Conn
<1>7. Quiet(c, c) BY DEF Quiet, SameOwner
<1> QED BY <1>6, <1>7 DEF csp_rdp_queue_tx_add

\* csp_rdp_queue_rx_add keeps the slot well formed and its owner.
LEMMA RxAddQuiet ==
    ASSUME NEW c, Slot(c), NEW e \in RxElement
    PROVE  Quiet(c, csp_rdp_queue_rx_add(c, e))
BY DEF Quiet, SameOwner, Slot, Conn, csp_rdp_queue_rx_add

\* csp_rdp_send_cmp keeps the slot well formed and its owner.
LEMMA SendCmpQuiet ==
    ASSUME NEW c, Slot(c), NEW flags \in SUBSET Flag, NEW nr \in Seqnr, NEW ack \in Seqnr,
           NEW eak \in SUBSET Seqnr, NEW mem
    PROVE  Quiet(c, csp_rdp_send_cmp(c, flags, nr, ack, eak, mem))
<1> DEFINE queued == IF "SYN" \in flags THEN csp_rdp_queue_tx_add(c, flags, nr, NoData) ELSE c
           p == [flags |-> flags, seq_nr |-> nr, ack_nr |-> ack, data |-> NoData, eak |-> eak]
           r == [queued EXCEPT !.out = @ \cup {p},
                               !.rcv_lsa = IF "ACK" \in flags THEN ack ELSE @]
<1>1. Quiet(c, c) BY DEF Quiet, SameOwner
<1>2. Quiet(c, queued) BY <1>1, TxAddQuiet DEF NoData, Data
<1>3. p \in Packet BY DEF Packet, NoData, Data
<1> HIDE DEF queued, p
<1>4. Quiet(queued, r) BY <1>2, <1>3 DEF Quiet, SameOwner, Slot, Conn
<1>5. Quiet(c, r) BY <1>2, <1>4, QuietTrans
<1> QED BY <1>1, <1>5 DEF csp_rdp_send_cmp, queued, p

\* csp_rdp_send_eack keeps the slot well formed and its owner.
LEMMA SendEackQuiet ==
    ASSUME NEW c, Slot(c), NEW mem PROVE Quiet(c, csp_rdp_send_eack(c, mem))
<1>1. c.snd_nxt \in Seqnr /\ c.rcv_cur \in Seqnr BY DEF Slot, Conn
<1>2. {e.seq_nr : e \in c.rx} \in SUBSET Seqnr BY DEF Slot, Conn, RxElement
<1>3. {"ACK", "EAK"} \in SUBSET Flag BY DEF Flag
<1> QED BY <1>1, <1>2, <1>3, SendCmpQuiet DEF csp_rdp_send_eack

\* csp_rdp_send_syn keeps the slot well formed and its owner.
LEMMA SendSynQuiet ==
    ASSUME NEW c, Slot(c), NEW mem PROVE Quiet(c, csp_rdp_send_syn(c, mem))
<1>1. c.snd_iss \in Seqnr BY DEF Slot, Conn
<1>2. {"SYN"} \in SUBSET Flag BY DEF Flag
<1> QED BY <1>1, <1>2, ZeroSeqnr, SendCmpQuiet DEF csp_rdp_send_syn

\* csp_conn_enqueue_packet keeps the slot well formed and its owner.
LEMMA EnqueueQuiet ==
    ASSUME NEW c, Slot(c), NEW d \in Data PROVE Quiet(c, csp_conn_enqueue_packet(c, d))
<1>1. c.rx_queue \in Seq(Data) BY DEF Slot, Conn
<1>2. Append(c.rx_queue, d) \in Seq(Data) BY <1>1
<1> QED BY <1>1, <1>2 DEF Quiet, SameOwner, Slot, Conn, csp_conn_enqueue_packet

\* csp_rdp_receive_data keeps the slot well formed and its owner.
LEMMA ReceiveDataQuiet ==
    ASSUME NEW c, Slot(c), NEW d \in Data PROVE Quiet(c, csp_rdp_receive_data(c, d))
<1> DEFINE q == csp_conn_enqueue_packet(c, d)
<1>1. Quiet(c, q) BY EnqueueQuiet
<1> HIDE DEF q
<1>2. q.delivered \in Seq(Data) BY <1>1 DEF Quiet, Slot, Conn
<1>3. Append(q.delivered, d) \in Seq(Data) BY <1>2
<1>4. Quiet(q, [q EXCEPT !.delivered = Append(@, d)])
  BY <1>1, <1>3 DEF Quiet, SameOwner, Slot, Conn
<1> QED BY <1>1, <1>4, QuietTrans DEF csp_rdp_receive_data, q

\* The elements that csp_rdp_rx_queue_flush takes are in the reordering queue: the
\* cardinality of InSequence(c) is its greatest element.
LEMMA FlushTakesWaiting ==
    ASSUME NEW c, Slot(c)
    PROVE  /\ Cardinality(InSequence(c)) \in Nat
           /\ \A i \in 1 .. Cardinality(InSequence(c)) : Following(c, i) \in c.rx
<1> DEFINE N == InSequence(c)
<1>1. IsFiniteSet(1 .. QueueCap) BY QueueAssumption, FS_Interval
<1>2. IsFiniteSet(N)
  <2>1. N \subseteq 1 .. QueueCap BY DEF InSequence
  <2> QED BY <1>1, <2>1, FS_Subset
<1>3. Cardinality(N) \in Nat BY <1>2, FS_CardinalityType
<1>4. ASSUME NEW i \in 1 .. Cardinality(N), i \notin N PROVE FALSE
  <2>1. ASSUME NEW k \in N, k >= i PROVE FALSE
    <3>1. i \in 1 .. QueueCap /\ i + 2 <= RxLen - Len(c.rx_queue)
      <4>1. Len(c.rx_queue) \in Nat BY DEF Slot, Conn
      <4>2. k \in 1 .. QueueCap /\ k + 2 <= RxLen - Len(c.rx_queue)
        BY <2>1 DEF InSequence
      <4>3. i \in Nat /\ 1 <= i BY <1>3, <1>4
      <4>4. RxLen - Len(c.rx_queue) \in Int BY <4>1, RxLenAssumption
      <4> QED BY <4>2, <4>3, <4>4, <2>1, QueueAssumption
    <3>2. \A j \in 1 .. i : \E e \in c.rx : e.seq_nr = Plus(c.rcv_cur, j)
      <4>1. 1 .. i \subseteq 1 .. k BY <2>1, <1>3, QueueAssumption DEF InSequence
      <4> QED BY <4>1, <2>1 DEF InSequence
    <3> QED BY <3>1, <3>2, <1>4 DEF InSequence
  <2>2. N \subseteq 1 .. i - 1 BY <2>1, <1>3, QueueAssumption DEF InSequence
  <2>3. /\ IsFiniteSet(1 .. i - 1)
        /\ Cardinality(1 .. i - 1) = i - 1
    <3>1. 1 \in Int /\ i \in Int /\ i - 1 \in Int /\ i >= 1 BY <1>3
    <3>2. /\ IsFiniteSet(1 .. i - 1)
          /\ Cardinality(1 .. i - 1) = IF 1 > i - 1 THEN 0 ELSE i - 1 - 1 + 1
      BY <3>1, FS_Interval
    <3> QED BY <3>1, <3>2
  <2>4. Cardinality(N) <= i - 1 BY <2>2, <2>3, FS_Subset
  <2> QED BY <2>4, <1>3
<1>5. \A i \in N : \E e \in c.rx : e.seq_nr = Plus(c.rcv_cur, i)
  BY QueueAssumption DEF InSequence
<1>6. \A i \in 1 .. Cardinality(N) : Following(c, i) \in c.rx BY <1>4, <1>5 DEF Following
<1> QED BY <1>3, <1>6

\* csp_rdp_rx_queue_flush keeps the slot well formed and its owner.
LEMMA FlushQuiet ==
    ASSUME NEW c, Slot(c) PROVE Quiet(c, csp_rdp_rx_queue_flush(c))
<1> DEFINE n == Cardinality(InSequence(c))
           taken == [i \in 1 .. n |-> Following(c, i).data]
<1>1. n \in Nat /\ \A i \in 1 .. n : Following(c, i).data \in Data
  BY FlushTakesWaiting DEF Slot, Conn, RxElement
<1>2. taken \in Seq(Data) BY <1>1
<1>3. c.rx_queue \in Seq(Data) /\ c.delivered \in Seq(Data) BY DEF Slot, Conn
<1>4. c.rx_queue \o taken \in Seq(Data) /\ c.delivered \o taken \in Seq(Data)
  BY <1>2, <1>3
<1>5. Plus(c.rcv_cur, n) \in Seqnr
  <2>1. n \in Int BY <1>1
  <2>2. c.rcv_cur \in Int BY SeqnrInt DEF Slot, Conn
  <2> QED BY <2>1, <2>2, PlusType
<1> HIDE DEF n, taken
<1> QED BY <1>4, <1>5 DEF Quiet, SameOwner, Slot, Conn, csp_rdp_rx_queue_flush, n, taken

\* csp_rdp_flush_eack keeps the slot well formed and its owner.
LEMMA FlushEackQuiet ==
    ASSUME NEW c, Slot(c), NEW eak PROVE Quiet(c, csp_rdp_flush_eack(c, eak))
<1>1. {e \in c.tx : e.seq_nr \notin eak} \subseteq c.tx OBVIOUS
<1>2. IsFiniteSet({e \in c.tx : e.seq_nr \notin eak}) BY <1>1, FS_Subset DEF Slot
<1>3. [c EXCEPT !.tx = {e \in c.tx : e.seq_nr \notin eak}] \in Conn BY DEF Slot, Conn
<1> QED BY <1>2, <1>3 DEF Quiet, SameOwner, Slot, Conn, csp_rdp_flush_eack

\* An acknowledgement keeps the slot well formed and its owner.
LEMMA SendAckQuiet ==
    ASSUME NEW c, Slot(c), NEW mem
    PROVE  /\ Quiet(c, csp_rdp_send_cmp(c, {"ACK"}, c.snd_nxt, c.rcv_cur, {}, mem))
           /\ Quiet(c, csp_rdp_send_cmp(c, {"RST"}, c.snd_nxt, c.rcv_cur, {}, mem))
           /\ Quiet(c, csp_rdp_send_cmp(c, {"ACK", "RST"}, c.snd_nxt, c.rcv_cur, {}, mem))
           /\ Quiet(c, csp_rdp_send_cmp(c, {"ACK", "SYN"}, c.snd_iss, c.rcv_irs, {}, mem))
<1>1. {c.snd_nxt, c.rcv_cur, c.snd_iss, c.rcv_irs} \subseteq Seqnr BY DEF Slot, Conn
<1>2. {{"ACK"}, {"RST"}, {"ACK", "RST"}, {"ACK", "SYN"}} \subseteq SUBSET Flag BY DEF Flag
<1> QED BY <1>1, <1>2, SendCmpQuiet

\* csp_rdp_check_ack keeps the slot well formed and its owner.
LEMMA CheckAckQuiet ==
    ASSUME NEW c, Slot(c), NEW due, NEW mem PROVE Quiet(c, csp_rdp_check_ack(c, due, mem))
<1>1. Quiet(c, c) BY DEF Quiet, SameOwner
<1> QED BY <1>1, SendAckQuiet DEF csp_rdp_check_ack

\* Storing an acknowledgement keeps the slot well formed and its owner.
LEMMA StoreAckQuiet ==
    ASSUME NEW c, Slot(c), NEW p \in Packet PROVE Quiet(c, StoreAck(c, p))
<1>1. p.ack_nr \in Int BY SeqnrInt DEF Packet
<1>2. Plus(p.ack_nr, 1) \in Seqnr BY <1>1, PlusType
<1> QED BY <1>2 DEF Quiet, SameOwner, Slot, Conn, StoreAck

\* Freeing and retransmitting keeps the slot well formed and its owner.
LEMMA MessageTimeoutQuiet ==
    ASSUME NEW c, Slot(c), NEW expired PROVE Quiet(c, MessageTimeout(c, expired))
<1> DEFINE kept == {e \in c.tx : ~csp_rdp_seq_before(e.seq_nr, c.snd_una)}
           again == {Retransmit(c, e) : e \in {k \in kept : k.seq_nr \in expired}}
<1>1. kept \subseteq c.tx OBVIOUS
<1> HIDE DEF kept
<1>2. IsFiniteSet(kept) BY <1>1, FS_Subset DEF Slot
<1>3. again \subseteq Packet
  BY <1>1 DEF Retransmit, Packet, Slot, Conn, TxElement
<1> HIDE DEF again
<1>4. Quiet(c, [c EXCEPT !.tx = kept, !.out = @ \cup again])
  BY <1>1, <1>2, <1>3 DEF Quiet, SameOwner, Slot, Conn
<1> QED BY <1>4 DEF MessageTimeout, kept, again

\* csp_read keeps the slot well formed and its owner.
LEMMA ReadQuiet ==
    ASSUME NEW c, Slot(c), c.rx_queue # <<>>, NEW due, NEW mem
    PROVE  Quiet(c, csp_read(c, due, mem))
<1> DEFINE d == [c EXCEPT !.rx_queue = Tail(@)]
<1>1. Tail(c.rx_queue) \in Seq(Data) BY DEF Slot, Conn
<1>2. Quiet(c, d) BY <1>1 DEF Quiet, SameOwner, Slot, Conn
<1> HIDE DEF d
<1>3. Quiet(d, csp_rdp_check_ack(d, due, mem)) BY <1>2, CheckAckQuiet DEF Quiet
<1> QED BY <1>2, <1>3, QuietTrans DEF csp_read, d

\* A transmission keeps the slot well formed and its owner.
LEMMA TransmitQuiet ==
    ASSUME NEW c, Slot(c), NEW d \in Data PROVE Quiet(c, Transmit(c, d))
<1> DEFINE q == csp_rdp_queue_tx_add(c, {"ACK"}, c.snd_nxt, d)
           p == [flags |-> {"ACK"}, seq_nr |-> c.snd_nxt, ack_nr |-> c.rcv_cur,
                 data |-> d, eak |-> {}]
<1>1. c.snd_nxt \in Seqnr /\ c.rcv_cur \in Seqnr /\ {"ACK"} \in SUBSET Flag
  BY DEF Slot, Conn, Flag
<1>2. p \in Packet BY <1>1 DEF Packet
<1>3. Quiet(c, q) BY <1>1, TxAddQuiet
<1> HIDE DEF q, p
<1>4. q.snd_nxt \in Int BY <1>3, SeqnrInt DEF Quiet, Slot, Conn
<1>5. Plus(q.snd_nxt, 1) \in Seqnr BY <1>4, PlusType
<1>6. Quiet(q, [q EXCEPT !.snd_nxt = Plus(@, 1), !.out = @ \cup {p}])
  BY <1>2, <1>3, <1>5 DEF Quiet, SameOwner, Slot, Conn
<1> QED BY <1>3, <1>6, QuietTrans DEF Transmit, q, p

\* Delivering or keeping data keeps the slot well formed and its owner.
LEMMA DataQuiet ==
    ASSUME NEW c, Slot(c), NEW p \in Packet, NEW due, NEW mem
    PROVE  Quiet(c, ReceiveData(c, p, due, mem))
<1>1. Quiet(c, c) BY DEF Quiet, SameOwner
<1>2. Quiet(c, csp_rdp_check_ack(c, due, mem)) BY CheckAckQuiet
<1>3. p.seq_nr \in Seqnr /\ p.data \in Data BY DEF Packet
<1> DEFINE k == csp_rdp_queue_rx_add(c, [seq_nr |-> p.seq_nr, data |-> p.data])
<1>4. Quiet(c, k) BY <1>3, RxAddQuiet DEF RxElement
<1>5. Quiet(c, csp_rdp_send_eack(k, mem))
  <2> HIDE DEF k
  <2> QED BY <1>4, SendEackQuiet, QuietTrans DEF Quiet
<1> DEFINE r == csp_rdp_receive_data(c, p.data)
           s == [r EXCEPT !.rcv_cur = p.seq_nr]
           a == csp_rdp_check_ack(s, due, mem)
<1>6. Quiet(c, r) BY <1>3, ReceiveDataQuiet
<1>7. Quiet(r, s)
  <2> HIDE DEF r
  <2> QED BY <1>3, <1>6 DEF Quiet, SameOwner, Slot, Conn
<1>8. Quiet(c, s) BY <1>6, <1>7, QuietTrans
<1>9. Quiet(c, csp_rdp_rx_queue_flush(a))
  <2> HIDE DEF s
  <2>1. Quiet(s, a) BY <1>8, CheckAckQuiet DEF Quiet
  <2> HIDE DEF a
  <2>2. Quiet(a, csp_rdp_rx_queue_flush(a)) BY <2>1, FlushQuiet DEF Quiet
  <2> QED BY <1>8, <2>1, <2>2, QuietTrans
<1> QED BY <1>1, <1>2, <1>5, <1>9 DEF ReceiveData

-----------------------------------------------------------------------------
(* Ownership *)

\* A slot csp_conn_new has just given to the router
Fresh(c) ==
    /\ c.open /\ c.dest_socket /\ ~c.backlog
    /\ c.state = "CLOSED" /\ c.closed_by = {} /\ c.tx = {} /\ c.rx = {}

\* d is what csp_rdp_close_internal may leave of slot c when it closes for by.
RdpClosedAs(c, by, d) ==
    /\ Slot(d) /\ d.open = c.open
    /\ d.backlog = c.backlog /\ d.dest_socket = c.dest_socket
    /\ c.state = "CLOSED" => d = c
    /\ c.state # "CLOSED" =>
         /\ d.state = IF c.closed_by \cup by = ClosedByAll THEN "CLOSED" ELSE "CLOSE_WAIT"
         /\ d.closed_by = IF c.closed_by \cup by = ClosedByAll THEN {}
                          ELSE c.closed_by \cup by

\* r is what closing slot c for by may leave.
ClosedAs(c, by, r) ==
    /\ Slot(r) /\ r.backlog = c.backlog /\ r.dest_socket = c.dest_socket
    /\ \/ /\ c.state = "CLOSED" \/ c.closed_by \cup by = ClosedByAll
          /\ ~r.open /\ r.state = "CLOSED" /\ r.tx = {} /\ r.rx = {}
          /\ r.closed_by = IF c.state = "CLOSED" THEN c.closed_by ELSE {}
       \/ /\ c.state # "CLOSED" /\ c.closed_by \cup by # ClosedByAll
          /\ r.open /\ r.state = "CLOSE_WAIT" /\ r.closed_by = c.closed_by \cup by

\* r is what the router may leave of slot c: a handle stays with userspace, and a
\* slot without one is handed to the socket, stays where it is or becomes free.
Stays(c, r) ==
    /\ Slot(r)
    /\ SlotHeld(c) => SlotHeld(r) /\ r.backlog = c.backlog
    /\ SlotPending(c) => SlotPending(r) \/ SlotFree(r) \/ (SlotHeld(r) /\ r.backlog)
    /\ SlotClosing(c) => SlotClosing(r) \/ SlotFree(r)
    /\ Fresh(c) => SlotPending(r) \/ SlotFree(r)

\* A quiet call leaves a slot that is in use in its situation.
LEMMA QuietStays ==
    ASSUME NEW c, NEW d, Quiet(c, d), ~Fresh(c) PROVE Stays(c, d)
BY DEF Quiet, SameOwner, Stays, SlotHeld, SlotPending, SlotClosing

\* A quiet call before another one does not matter.
LEMMA QuietThenStays ==
    ASSUME NEW c, NEW d, NEW r, Quiet(c, d), Stays(d, r), ~Fresh(c) PROVE Stays(c, r)
BY DEF Quiet, SameOwner, Stays, SlotHeld, SlotPending, SlotClosing

\* What csp_rdp_close_internal does to the owner of a slot
LEMMA CloseInternalOwner ==
    ASSUME NEW c, Slot(c), NEW by \in SUBSET ClosedByAll, NEW rst, NEW mem
    PROVE  RdpClosedAs(c, by, csp_rdp_close_internal(c, by, rst, mem))
<1> DEFINE all   == c.closed_by \cup by
           first == c.state # "CLOSE_WAIT"
           s == IF first /\ rst
                THEN csp_rdp_send_cmp(c, {"ACK", "RST"}, c.snd_nxt, c.rcv_cur, {}, mem) ELSE c
           d == [s EXCEPT !.state     = IF all = ClosedByAll THEN "CLOSED" ELSE "CLOSE_WAIT",
                          !.closed_by = IF all = ClosedByAll THEN {} ELSE all,
                          !.tx_wait   = @ \/ first]
<1>1. Quiet(c, s)
  <2>1. Quiet(c, c) BY DEF Quiet, SameOwner
  <2> QED BY <2>1, SendAckQuiet
<1>2. all \subseteq ClosedByAll BY DEF Slot, Conn
<1> HIDE DEF s, all
<1>3. s \in Conn /\ s.tx_wait \in BOOLEAN BY <1>1 DEF Quiet, Slot, Conn
<1>4. (s.tx_wait \/ first) \in BOOLEAN BY <1>3
<1> HIDE DEF first
<1>5. d \in Conn BY <1>2, <1>3, <1>4 DEF Conn, State
<1>6. /\ d.open = c.open /\ d.backlog = c.backlog /\ d.dest_socket = c.dest_socket
      /\ d.tx = s.tx
  BY <1>1, <1>3 DEF Conn, Quiet, SameOwner
<1>7. /\ d.state = IF all = ClosedByAll THEN "CLOSED" ELSE "CLOSE_WAIT"
      /\ d.closed_by = IF all = ClosedByAll THEN {} ELSE all
  BY <1>3 DEF Conn
<1>8. Slot(d) BY <1>1, <1>5, <1>6 DEF Slot, Quiet
<1>9. csp_rdp_close_internal(c, by, rst, mem) = IF c.state = "CLOSED" THEN c ELSE d
  BY DEF csp_rdp_close_internal, s, all, first
<1> HIDE DEF d
<1>10. Slot(c) /\ c.state = "CLOSED" => RdpClosedAs(c, by, c) BY DEF RdpClosedAs
<1>11. c.state # "CLOSED" => RdpClosedAs(c, by, d) BY <1>6, <1>7, <1>8 DEF all, RdpClosedAs
<1> QED BY <1>9, <1>10, <1>11

\* csp_rdp_queue_flush empties the queues and keeps the rest.
LEMMA QueueFlushOwner ==
    ASSUME NEW c, Slot(c)
    PROVE  Quiet(c, csp_rdp_queue_flush(c))
BY FS_EmptySet DEF Quiet, SameOwner, Slot, Conn, csp_rdp_queue_flush

\* What csp_conn_close does to the owner of a slot
LEMMA ConnCloseOwner ==
    ASSUME NEW c, Slot(c), c.open, NEW by \in SUBSET ClosedByAll, NEW mem
    PROVE  ClosedAs(c, by, csp_conn_close(c, by, mem))
<1> DEFINE d == csp_rdp_close_internal(c, by, TRUE, mem)
           f == [d EXCEPT !.tx = {}, !.rx = {}, !.rx_queue = <<>>, !.open = FALSE]
<1>1. RdpClosedAs(c, by, d) BY CloseInternalOwner
<1>2. csp_conn_close(c, by, mem) = IF d.state # "CLOSED" THEN d ELSE f
  BY DEF csp_conn_close, csp_rdp_queue_flush
<1> HIDE DEF d
<1>3. d \in Conn /\ f \in Conn
  <2>1. d \in Conn BY <1>1 DEF RdpClosedAs, Slot
  <2>2. <<>> \in Seq(Data) BY EmptySeq
  <2> QED BY <2>1, <2>2 DEF Conn
<1>4. /\ ~f.open /\ f.tx = {} /\ f.rx = {} /\ f.state = d.state /\ f.closed_by = d.closed_by
      /\ f.backlog = d.backlog /\ f.dest_socket = d.dest_socket
  BY <1>3 DEF Conn
<1>5. Slot(f) BY <1>3, <1>4, FS_EmptySet DEF Slot
<1> HIDE DEF f
<1>6. CASE d.state # "CLOSED"
  <2>1. c.state # "CLOSED" /\ c.closed_by \cup by # ClosedByAll BY <1>6, <1>1 DEF RdpClosedAs
  <2>2. d.open BY <1>1, Zenon DEF RdpClosedAs
  <2> QED BY <1>6, <2>1, <2>2, <1>1, <1>2 DEF ClosedAs, RdpClosedAs
<1>7. CASE d.state = "CLOSED" BY <1>7, <1>1, <1>2, <1>4, <1>5 DEF ClosedAs, RdpClosedAs
<1> QED BY <1>6, <1>7

\* Only whether a slot is CLOSED matters to its closing, not which state it is in.
SameClose(c, d) ==
    /\ d.open = c.open /\ d.closed_by = c.closed_by
    /\ d.dest_socket = c.dest_socket /\ d.backlog = c.backlog
    /\ c.state = "CLOSED" <=> d.state = "CLOSED"

\* What label discard_close does to the owner of a slot: it closes for userspace
\* too if and only if userspace has never seen the connection.
LEMMA DiscardOwner ==
    ASSUME NEW c, Slot(c), c.open, NEW by \in SUBSET ClosedByAll, NEW mem
    PROVE  ClosedAs(c, IF c.dest_socket THEN by \cup {"USERSPACE"} ELSE by,
                    DiscardClose(c, by, mem))
<1>1. CASE c.dest_socket
  <2>1. by \cup {"USERSPACE"} \in SUBSET ClosedByAll BY DEF ClosedByAll
  <2>2. ClosedAs(c, by \cup {"USERSPACE"}, csp_conn_close(c, by \cup {"USERSPACE"}, mem))
    BY <2>1, ConnCloseOwner
  <2> QED BY <1>1, <2>2 DEF DiscardClose
<1>2. CASE ~c.dest_socket
  <2> DEFINE d == csp_conn_close(c, by, mem)
             e == csp_conn_enqueue_packet(d, NoData)
  <2>1. ClosedAs(c, by, d) BY ConnCloseOwner
  <2> HIDE DEF d
  <2>2. d \in Conn BY <2>1 DEF ClosedAs, Slot
  <2>3. Quiet(d, e) BY <2>1, EnqueueQuiet DEF ClosedAs, NoData, Data
  <2>4. e.tx = d.tx /\ e.rx = d.rx BY <2>2 DEF csp_conn_enqueue_packet, Conn
  <2> HIDE DEF e
  <2>5. ClosedAs(c, by, e)
    BY <2>1, <2>3, <2>4 DEF ClosedAs, Quiet, SameOwner
  <2> QED BY <1>2, <2>5 DEF DiscardClose, d, e
<1> QED BY <1>1, <1>2

\* The router's discard_close keeps to the ownership rules.
LEMMA DiscardStays ==
    ASSUME NEW c, Slot(c), c.open, NEW d, Slot(d), SameClose(c, d),
           NEW by \in SUBSET {"PROTOCOL", "TIMEOUT"}, NEW mem
    PROVE  Stays(c, DiscardClose(d, by, mem))
<1> DEFINE r == DiscardClose(d, by, mem)
           B == IF c.dest_socket THEN by \cup {"USERSPACE"} ELSE by
<1>1. d.open /\ d.dest_socket = c.dest_socket BY Zenon DEF SameClose
<1>2. by \in SUBSET ClosedByAll BY DEF ClosedByAll
<1>3. ClosedAs(d, B, r) BY <1>1, <1>2, DiscardOwner
<1> HIDE DEF r
<1>4. ClosedAs(c, B, r) BY <1>3 DEF ClosedAs, SameClose
<1>5. CASE c.dest_socket
  <2>1. ClosedAs(c, by \cup {"USERSPACE"}, r) BY <1>4, <1>5
  <2>2. ~SlotHeld(c) /\ ~SlotClosing(c) BY <1>5 DEF SlotHeld, SlotClosing
  <2>3. SlotPending(c) => SlotPending(r) \/ SlotFree(r)
    BY <2>1 DEF ClosedAs, SlotPending, SlotFree
  <2>4. Fresh(c) => SlotFree(r)
    BY <2>1 DEF ClosedAs, Fresh, SlotFree
  <2> QED BY <2>1, <2>2, <2>3, <2>4 DEF Stays, ClosedAs, r
<1>6. CASE ~c.dest_socket
  <2>1. ClosedAs(c, by, r) BY <1>4, <1>6
  <2>2. ~SlotPending(c) /\ ~Fresh(c) BY <1>6 DEF SlotPending, Fresh
  <2>3. SlotHeld(c) => SlotHeld(r) /\ r.backlog = c.backlog
    BY <2>1 DEF ClosedAs, SlotHeld, ClosedByAll
  <2>4. SlotClosing(c) => SlotClosing(r) \/ SlotFree(r)
    BY <2>1 DEF ClosedAs, SlotClosing, SlotFree
  <2> QED BY <2>1, <2>2, <2>3, <2>4 DEF Stays, ClosedAs, r
<1> QED BY <1>5, <1>6

\* A quiet call that leaves ~CLOSED as it was
LEMMA QuietSameClose ==
    ASSUME NEW c, NEW d, Quiet(c, d) PROVE SameClose(c, d)
BY DEF Quiet, SameOwner, SameClose

\* SameClose is an equivalence, as far as it is needed.
LEMMA SameCloseTrans ==
    ASSUME NEW c, NEW d, NEW e, SameClose(c, d), SameClose(d, e) PROVE SameClose(c, e)
BY DEF SameClose

\* A reset keeps to the ownership rules.
LEMMA RstStays ==
    ASSUME NEW c0, Slot(c0), c0.open, NEW p \in Packet, NEW mem
    PROVE  Stays(c0, ReceiveRst(c0, p, mem))
<1> DEFINE c == IF "ACK" \in p.flags THEN StoreAck(c0, p) ELSE c0
           b == [c EXCEPT !.state = "CLOSE_WAIT"]
           wait == csp_rdp_send_cmp(b, {"ACK", "RST"}, b.snd_nxt, b.rcv_cur, {}, mem)
           by == IF "ACK" \in p.flags THEN {"PROTOCOL", "TIMEOUT"} ELSE {"PROTOCOL"}
<1>1. Quiet(c0, c)
  <2>1. Quiet(c0, c0) BY DEF Quiet, SameOwner
  <2> QED BY <2>1, StoreAckQuiet
<1>2. ReceiveRst(c0, p, mem) =
        IF c.state = "CLOSED"
        THEN IF c.dest_socket THEN csp_conn_close(c, {"USERSPACE"}, mem) ELSE c
        ELSE IF c.state = "CLOSE_WAIT" THEN DiscardClose(c, by, mem)
        ELSE IF RstInSequence(c, p) THEN DiscardClose(wait, {"PROTOCOL", "TIMEOUT"}, mem)
        ELSE c
  <2>1. Slot(c) BY <1>1 DEF Quiet
  <2> HIDE DEF c
  <2>2. b.snd_nxt = c.snd_nxt /\ b.rcv_cur = c.rcv_cur BY <2>1 DEF Slot, Conn
  <2> HIDE DEF b
  <2> QED BY <2>2 DEF ReceiveRst, c, b
<1> HIDE DEF c
<1>3. Slot(c) /\ SameClose(c0, c) BY <1>1, QuietSameClose DEF Quiet
<1>4. c.open BY <1>3, Zenon DEF SameClose
<1>5. CASE c.state = "CLOSED" /\ c.dest_socket
  <2> DEFINE r == csp_conn_close(c, {"USERSPACE"}, mem)
  <2>1. ClosedAs(c, {"USERSPACE"}, r) BY <1>3, <1>4, ConnCloseOwner DEF ClosedByAll
  <2> HIDE DEF r
  <2>2. ClosedAs(c0, {"USERSPACE"}, r) BY <2>1, <1>3 DEF ClosedAs, SameClose
  <2>3. c0.state = "CLOSED" /\ c0.dest_socket BY <1>5, <1>3, Zenon DEF SameClose
  <2>4. ~SlotHeld(c0) /\ ~SlotClosing(c0) /\ ~SlotPending(c0)
    BY <2>3 DEF SlotHeld, SlotClosing, SlotPending
  <2>5. Fresh(c0) => SlotFree(r) BY <2>2 DEF ClosedAs, Fresh, SlotFree
  <2>6. Stays(c0, r) BY <2>2, <2>4, <2>5 DEF Stays, ClosedAs
  <2> QED BY <1>2, <1>5, <2>6 DEF r
<1>6. CASE c.state = "CLOSED" /\ ~c.dest_socket
  <2>1. ~Fresh(c0) BY <1>6, <1>3 DEF Fresh, SameClose
  <2>2. Stays(c0, c) BY <1>1, <2>1, QuietStays
  <2> QED BY <1>2, <1>6, <2>2
<1>7. CASE c.state = "CLOSE_WAIT"
  <2>1. by \in SUBSET {"PROTOCOL", "TIMEOUT"} OBVIOUS
  <2>2. Stays(c0, DiscardClose(c, by, mem)) BY <1>3, <2>1, DiscardStays
  <2> QED BY <1>2, <1>7, <2>2
<1>8. CASE c.state \notin {"CLOSED", "CLOSE_WAIT"} /\ RstInSequence(c, p)
  <2>1. Slot(b) /\ SameClose(c, b) BY <1>3, <1>8 DEF Slot, Conn, State, SameClose
  <2> HIDE DEF b
  <2>2. Quiet(b, wait) BY <2>1, SendAckQuiet
  <2> HIDE DEF wait
  <2>3. Slot(wait) /\ SameClose(c0, wait)
    BY <1>3, <2>1, <2>2, QuietSameClose, SameCloseTrans DEF Quiet
  <2>4. {"PROTOCOL", "TIMEOUT"} \in SUBSET {"PROTOCOL", "TIMEOUT"} OBVIOUS
  <2>5. Stays(c0, DiscardClose(wait, {"PROTOCOL", "TIMEOUT"}, mem))
    BY <2>3, <2>4, DiscardStays
  <2> QED BY <1>2, <1>8, <2>5
<1>9. CASE c.state \notin {"CLOSED", "CLOSE_WAIT"} /\ ~RstInSequence(c, p)
  <2>1. ~Fresh(c0) BY <1>9, <1>3 DEF Fresh, SameClose
  <2>2. Stays(c0, c) BY <1>1, <2>1, QuietStays
  <2> QED BY <1>2, <1>9, <2>2
<1> QED BY <1>5, <1>6, <1>7, <1>8, <1>9

\* A packet in state CLOSED keeps to the ownership rules.
LEMMA ClosedStays ==
    ASSUME NEW c, Slot(c), c.open, c.state = "CLOSED",
           NEW p \in Packet, NEW iss \in Seqnr, NEW mem
    PROVE  Stays(c, ReceiveClosed(c, p, iss, mem))
<1>1. CASE "SYN" \notin p.flags
  <2> DEFINE d == csp_rdp_send_cmp(c, {"RST"}, c.snd_nxt, c.rcv_cur, {}, mem)
  <2>1. Quiet(c, d) BY SendAckQuiet
  <2> HIDE DEF d
  <2>2. Slot(d) /\ SameClose(c, d) BY <2>1, QuietSameClose DEF Quiet
  <2>3. {"PROTOCOL"} \in SUBSET {"PROTOCOL", "TIMEOUT"} OBVIOUS
  <2>4. Stays(c, DiscardClose(d, {"PROTOCOL"}, mem)) BY <2>2, <2>3, DiscardStays
  <2> QED BY <1>1, <2>4 DEF ReceiveClosed, d
<1>2. CASE "SYN" \in p.flags
  <2> DEFINE d == [c EXCEPT !.snd_iss = iss, !.snd_nxt = Plus(iss, 1), !.snd_una = iss,
                            !.rcv_cur = p.seq_nr, !.rcv_irs = p.seq_nr,
                            !.rcv_lsa = p.seq_nr, !.state = "SYN_RCVD"]
             r == csp_rdp_send_cmp(d, {"ACK", "SYN"}, iss, p.seq_nr, {}, mem)
  <2>1. p.seq_nr \in Seqnr BY DEF Packet
  <2>2. Plus(iss, 1) \in Seqnr
    <3>1. iss \in Int BY SeqnrInt
    <3> QED BY <3>1, PlusType
  <2>3. d \in Conn BY <2>1, <2>2 DEF Slot, Conn, State
  <2>4. /\ d.state = "SYN_RCVD" /\ d.tx = c.tx /\ d.open = c.open /\ d.backlog = c.backlog
        /\ d.dest_socket = c.dest_socket /\ d.closed_by = c.closed_by
    BY DEF Slot, Conn
  <2>5. Slot(d) BY <2>3, <2>4 DEF Slot
  <2> HIDE DEF d
  <2>6. {"ACK", "SYN"} \in SUBSET Flag BY DEF Flag
  <2>7. Quiet(d, r) BY <2>1, <2>5, <2>6, SendCmpQuiet
  <2> HIDE DEF r
  <2>8. ~SlotHeld(c) /\ ~SlotPending(c) /\ ~SlotClosing(c)
    BY DEF SlotHeld, SlotPending, SlotClosing
  <2>9. Fresh(c) => SlotPending(r)
    BY <2>4, <2>7 DEF Fresh, SlotPending, Quiet, SameOwner
  <2>10. Stays(c, r) BY <2>7, <2>8, <2>9 DEF Stays, Quiet
  <2> QED BY <1>2, <2>10 DEF ReceiveClosed, d, r
<1> QED BY <1>1, <1>2

\* A packet in state SYN_SENT keeps to the ownership rules.
LEMMA SynSentStays ==
    ASSUME NEW c, Slot(c), c.open, c.state = "SYN_SENT", NEW p \in Packet, NEW mem
    PROVE  Stays(c, ReceiveSynSent(c, p, mem))
<1>1. CASE {"SYN", "ACK"} \subseteq p.flags
  <2> DEFINE a == StoreAck(c, p)
             d == [a EXCEPT !.rcv_cur = p.seq_nr, !.rcv_irs = p.seq_nr,
                            !.rcv_lsa = Plus(p.seq_nr, -1), !.state = "OPEN", !.tx_wait = TRUE]
             r == csp_rdp_send_cmp(d, {"ACK"}, c.snd_nxt, p.seq_nr, {}, mem)
  <2>1. p.seq_nr \in Seqnr BY DEF Packet
  <2>2. Plus(p.seq_nr, -1) \in Seqnr
    <3>1. p.seq_nr \in Int BY <2>1, SeqnrInt
    <3> QED BY <3>1, PlusType
  <2>3. Quiet(c, a) BY StoreAckQuiet
  <2> HIDE DEF a
  <2>4. a \in Conn BY <2>3 DEF Quiet, Slot
  <2>5. d \in Conn BY <2>1, <2>2, <2>4 DEF Conn, State
  <2>6. /\ d.state = "OPEN" /\ d.tx = a.tx /\ d.open = c.open /\ d.backlog = c.backlog
        /\ d.dest_socket = c.dest_socket /\ d.closed_by = c.closed_by
    BY <2>3, <2>4 DEF Conn, Quiet, SameOwner
  <2>7. Slot(d) BY <2>3, <2>5, <2>6 DEF Slot, Quiet
  <2> HIDE DEF d
  <2>8. {"ACK"} \in SUBSET Flag /\ c.snd_nxt \in Seqnr BY DEF Flag, Slot, Conn
  <2>9. Quiet(d, r) BY <2>1, <2>7, <2>8, SendCmpQuiet
  <2> HIDE DEF r
  <2>10. ~Fresh(c) /\ ~SlotPending(c) /\ ~SlotClosing(c)
    BY DEF Fresh, SlotPending, SlotClosing
  <2>11. SlotHeld(c) => SlotHeld(r) /\ r.backlog = c.backlog
    BY <2>6, <2>9 DEF SlotHeld, Quiet, SameOwner
  <2>12. Stays(c, r) BY <2>9, <2>10, <2>11 DEF Stays, Quiet
  <2> QED BY <1>1, <2>12 DEF ReceiveSynSent, a, d, r
<1>2. CASE ~({"SYN", "ACK"} \subseteq p.flags) /\ "ACK" \in p.flags
  <2> DEFINE d == [c EXCEPT !.tx_wait = TRUE]
             r == csp_rdp_send_cmp(d, {"RST"}, d.snd_nxt, d.rcv_cur, {}, mem)
  <2>1. Quiet(c, d) /\ d.snd_nxt = c.snd_nxt /\ d.rcv_cur = c.rcv_cur
    BY DEF Quiet, SameOwner, Slot, Conn
  <2> HIDE DEF d
  <2>2. Quiet(c, r) BY <2>1, SendAckQuiet, QuietTrans DEF Quiet
  <2>3. ~Fresh(c) BY DEF Fresh
  <2>4. Stays(c, r) BY <2>2, <2>3, QuietStays
  <2> QED BY <1>2, <2>1, <2>4 DEF ReceiveSynSent, d
<1>3. CASE "ACK" \notin p.flags
  <2>1. SameClose(c, c) BY DEF SameClose
  <2>2. {"PROTOCOL"} \in SUBSET {"PROTOCOL", "TIMEOUT"} OBVIOUS
  <2>3. Stays(c, DiscardClose(c, {"PROTOCOL"}, mem)) BY <2>1, <2>2, DiscardStays
  <2>4. ~({"SYN", "ACK"} \subseteq p.flags) BY <1>3
  <2> QED BY <1>3, <2>3, <2>4 DEF ReceiveSynSent
<1> QED BY <1>1, <1>2, <1>3

\* A packet in state CLOSE_WAIT keeps to the ownership rules.
LEMMA CloseWaitStays ==
    ASSUME NEW c, Slot(c), c.state = "CLOSE_WAIT", NEW p \in Packet, NEW mem
    PROVE  Stays(c, ReceiveCloseWait(c, p, mem))
<1> DEFINE a == StoreAck(c, p)
           r == csp_rdp_send_cmp(a, {"ACK", "RST"}, a.snd_nxt, a.rcv_cur, {}, mem)
<1>1. ~Fresh(c) BY DEF Fresh
<1>2. Quiet(c, c) BY DEF Quiet, SameOwner
<1>3. Quiet(c, a) BY StoreAckQuiet
<1>4. a.snd_nxt = c.snd_nxt /\ a.rcv_cur = c.rcv_cur BY DEF StoreAck, Slot, Conn
<1> HIDE DEF a
<1>5. Quiet(c, r) BY <1>3, SendAckQuiet, QuietTrans DEF Quiet
<1>6. Stays(c, c) /\ Stays(c, r) BY <1>1, <1>2, <1>5, QuietStays
<1> QED BY <1>4, <1>6 DEF ReceiveCloseWait, a

\* A packet in states SYN_RCVD and OPEN keeps to the ownership rules: in SYN_RCVD
\* the router hands the connection to the socket, never a closed one.
LEMMA OpenStays ==
    ASSUME NEW c, Slot(c), c.open, c.state \in {"SYN_RCVD", "OPEN"},
           NEW p \in Packet, NEW due, NEW room, NEW mem
    PROVE  Stays(c, ReceiveOpen(c, p, due, room, mem))
<1> DEFINE rcvd == c.state = "SYN_RCVD"
           o == [c EXCEPT !.state = "OPEN",
                          !.backlog = @ \/ (rcvd /\ c.dest_socket),
                          !.dest_socket = @ /\ ~rcvd]
           a == StoreAck(o, p)
           full == [c EXCEPT !.state = "OPEN"]
<1>1. ~Fresh(c) /\ Quiet(c, c) BY DEF Fresh, Quiet, SameOwner
<1>2. Stays(c, c) BY <1>1, QuietStays
<1>3. Stays(c, csp_rdp_send_cmp(c, {"ACK", "SYN"}, c.snd_iss, c.rcv_irs, {}, mem))
  BY <1>1, SendAckQuiet, QuietStays
<1>4. Stays(c, csp_rdp_send_eack(c, mem)) BY <1>1, SendEackQuiet, QuietStays
<1>5. {"PROTOCOL"} \in SUBSET {"PROTOCOL", "TIMEOUT"} OBVIOUS
<1>6. Stays(c, DiscardClose(c, {"PROTOCOL"}, mem))
  <2>1. SameClose(c, c) BY DEF SameClose
  <2> QED BY <1>5, <2>1, DiscardStays
<1>7. Stays(c, DiscardClose(full, {"PROTOCOL"}, mem))
  <2>1. Slot(full) /\ SameClose(c, full) BY DEF Slot, Conn, State, SameClose
  <2> HIDE DEF full
  <2> QED BY <1>5, <2>1, DiscardStays
<1>8. Slot(o) /\ o.open = c.open /\ o.state = "OPEN" /\ o.closed_by = c.closed_by
  <2>1. c.backlog \in BOOLEAN /\ c.dest_socket \in BOOLEAN BY DEF Slot, Conn
  <2>2. (c.backlog \/ (rcvd /\ c.dest_socket)) \in BOOLEAN BY <2>1
  <2>3. (c.dest_socket /\ ~rcvd) \in BOOLEAN BY <2>1
  <2> QED BY <2>2, <2>3 DEF Slot, Conn, State
<1>9. (o.backlog <=> (c.backlog \/ (rcvd /\ c.dest_socket)))
      /\ (o.dest_socket <=> (c.dest_socket /\ ~rcvd))
  BY DEF Slot, Conn
<1>10. Quiet(o, a)
  <2> HIDE DEF o
  <2> QED BY <1>8, StoreAckQuiet
<1>11. ASSUME NEW r, Quiet(a, r) PROVE Stays(c, r)
  <2> HIDE DEF a
  <2>1. Quiet(o, r) BY <1>10, <1>11, QuietTrans
  <2> HIDE DEF o
  <2>2. SlotHeld(c) => SlotHeld(o)
    BY <1>8, <1>9 DEF SlotHeld
  <2>3. SlotHeld(c) => o.backlog = c.backlog
    <3>1. o.backlog \in BOOLEAN /\ c.backlog \in BOOLEAN BY <1>8 DEF Slot, Conn
    <3>2. SlotHeld(c) => (o.backlog <=> c.backlog) BY <1>9 DEF SlotHeld
    <3> QED BY <3>1, <3>2
  <2>4. SlotPending(c) => SlotHeld(o) /\ o.backlog
    BY <1>8, <1>9 DEF SlotHeld, SlotPending
  <2>5. ~SlotClosing(c) BY DEF SlotClosing
  <2>6. SlotHeld(o) => SlotHeld(r) BY <2>1 DEF SlotHeld, Quiet, SameOwner
  <2>7. r.backlog = o.backlog /\ Slot(r) BY <2>1 DEF Quiet, SameOwner
  <2> QED BY <1>1, <2>2, <2>3, <2>4, <2>5, <2>6, <2>7 DEF Stays
<1>12. Stays(c, csp_rdp_flush_eack(a, p.eak))
  <2>1. Slot(a) BY <1>10 DEF Quiet
  <2> HIDE DEF a
  <2> QED BY <2>1, <1>11, FlushEackQuiet
<1>13. Stays(c, a)
  <2>1. Quiet(a, a) BY <1>10 DEF Quiet, SameOwner
  <2> HIDE DEF a
  <2> QED BY <2>1, <1>11
<1>14. Stays(c, ReceiveData(a, p, due, mem))
  <2>1. Slot(a) BY <1>10 DEF Quiet
  <2> HIDE DEF a
  <2> QED BY <2>1, <1>11, DataQuiet
<1> HIDE DEF full, o, a, rcvd
<1> QED BY <1>2, <1>3, <1>4, <1>6, <1>7, <1>12, <1>13, <1>14
        DEF ReceiveOpen, full, o, a, rcvd

\* csp_rdp_new_packet keeps to the ownership rules.
LEMMA NewPacketStays ==
    ASSUME NEW c, Slot(c), c.open, NEW p \in Packet, NEW iss \in Seqnr,
           NEW due, NEW room, NEW mem
    PROVE  Stays(c, csp_rdp_new_packet(c, p, iss, due, room, mem))
<1>1. c.state \in {"CLOSED", "SYN_SENT", "SYN_RCVD", "OPEN", "CLOSE_WAIT"}
  BY DEF Slot, Conn, State
<1>2. CASE "RST" \in p.flags BY <1>2, RstStays DEF csp_rdp_new_packet
<1>3. CASE "RST" \notin p.flags /\ c.state = "CLOSED"
  BY <1>3, ClosedStays DEF csp_rdp_new_packet
<1>4. CASE "RST" \notin p.flags /\ c.state = "SYN_SENT"
  BY <1>4, SynSentStays DEF csp_rdp_new_packet
<1>5. CASE "RST" \notin p.flags /\ c.state = "CLOSE_WAIT"
  BY <1>5, CloseWaitStays DEF csp_rdp_new_packet
<1>6. CASE "RST" \notin p.flags /\ c.state \in {"SYN_RCVD", "OPEN"}
  BY <1>6, OpenStays DEF csp_rdp_new_packet
<1> QED BY <1>1, <1>2, <1>3, <1>4, <1>5, <1>6

\* csp_rdp_check_timeouts keeps to the ownership rules: only a connection that
\* userspace has never seen or has closed is ended by a timeout.
LEMMA TimeoutsStay ==
    ASSUME NEW c, Slot(c), c.open, ~Fresh(c), NEW late, NEW expired, NEW due, NEW mem
    PROVE  Stays(c, csp_rdp_check_timeouts(c, late, expired, due, mem))
<1> DEFINE pruned == MessageTimeout(c, expired)
           acked == IF DelayedAcks THEN csp_rdp_check_ack(pruned, due, mem) ELSE pruned
           woken == [acked EXCEPT !.tx_wait = @ \/ csp_rdp_is_conn_ready_for_tx(c)]
           last == IF c.state = "OPEN" THEN woken ELSE pruned
<1>1. CASE c.dest_socket /\ late
  <2> DEFINE r == csp_conn_close(c, ClosedByAll, mem)
  <2>1. ClosedAs(c, ClosedByAll, r) BY ConnCloseOwner
  <2> HIDE DEF r
  <2>2. ~SlotHeld(c) /\ ~SlotClosing(c) BY <1>1 DEF SlotHeld, SlotClosing
  <2>3. c.closed_by \cup ClosedByAll = ClosedByAll BY DEF Slot, Conn
  <2>4. SlotPending(c) => SlotFree(r) BY <2>1, <2>3 DEF ClosedAs, SlotPending, SlotFree
  <2>5. Stays(c, r) BY <2>1, <2>2, <2>4 DEF Stays, ClosedAs
  <2> QED BY <1>1, <2>5 DEF csp_rdp_check_timeouts, r
<1>2. CASE ~(c.dest_socket /\ late) /\ c.state = "CLOSE_WAIT" /\ late
  <2> DEFINE by == {"PROTOCOL", "TIMEOUT"}
             r == csp_conn_close(c, by, mem)
  <2>1. ClosedAs(c, by, r) BY ConnCloseOwner DEF ClosedByAll
  <2> HIDE DEF r
  <2>2. ~SlotPending(c) BY <1>2 DEF SlotPending
  <2>3. SlotHeld(c) => SlotHeld(r) /\ r.backlog = c.backlog
    BY <2>1 DEF ClosedAs, SlotHeld, ClosedByAll
  <2>4. SlotClosing(c) => SlotClosing(r) \/ SlotFree(r)
    BY <2>1 DEF ClosedAs, SlotClosing, SlotFree
  <2>5. Stays(c, r) BY <2>1, <2>2, <2>3, <2>4 DEF Stays, ClosedAs
  <2> QED BY <1>2, <2>5 DEF csp_rdp_check_timeouts, r
<1>3. CASE ~(c.dest_socket /\ late) /\ c.state = "CLOSE_WAIT" /\ ~late
  <2>1. Quiet(c, c) BY DEF Quiet, SameOwner
  <2>2. Stays(c, c) BY <2>1, QuietStays
  <2> QED BY <1>3, <2>2 DEF csp_rdp_check_timeouts
<1>4. CASE ~(c.dest_socket /\ late) /\ c.state # "CLOSE_WAIT"
  <2>1. Quiet(c, pruned) BY MessageTimeoutQuiet
  <2> HIDE DEF pruned
  <2>2. Quiet(pruned, csp_rdp_check_ack(pruned, due, mem)) BY <2>1, CheckAckQuiet DEF Quiet
  <2>3. Quiet(c, acked) BY <2>1, <2>2, QuietTrans
  <2> HIDE DEF acked
  <2>4. acked \in Conn /\ acked.tx_wait \in BOOLEAN BY <2>3 DEF Quiet, Slot, Conn
  <2>5. (acked.tx_wait \/ csp_rdp_is_conn_ready_for_tx(c)) \in BOOLEAN BY <2>4
  <2>6. Quiet(acked, woken) BY <2>3, <2>4, <2>5 DEF Quiet, SameOwner, Slot, Conn
  <2> HIDE DEF woken
  <2>7. Quiet(c, last) BY <2>1, <2>3, <2>6, QuietTrans
  <2> HIDE DEF last
  <2>8. Quiet(c, csp_rdp_rx_queue_flush(last)) BY <2>7, FlushQuiet, QuietTrans DEF Quiet
  <2>9. Stays(c, csp_rdp_rx_queue_flush(last)) BY <2>8, QuietStays
  <2> QED BY <1>4, <2>9 DEF csp_rdp_check_timeouts, last, woken, acked, pruned
<1> QED BY <1>1, <1>2, <1>3, <1>4

\* csp_conn_new makes a free slot a fresh one of the router.
LEMMA ConnNewFresh ==
    ASSUME NEW c, Slot(c), SlotFree(c)
    PROVE  Slot(csp_conn_new(c, TRUE)) /\ Fresh(csp_conn_new(c, TRUE))
<1>1. <<>> \in Seq(Data) BY EmptySeq
<1> QED BY <1>1 DEF Slot, Conn, csp_conn_new, SlotFree, Fresh

\* csp_rdp_connect holds the slot while it waits for the SYN/ACK.
LEMMA StartSynHeld ==
    ASSUME NEW c, Slot(c), c.open, ~c.dest_socket, "USERSPACE" \notin c.closed_by,
           NEW iss \in Seqnr, NEW mem
    PROVE  LET r == StartSyn(c, iss, mem)
           IN  Slot(r) /\ SlotHeld(r) /\ r.backlog = c.backlog
<1> DEFINE d == [c EXCEPT !.snd_iss = iss, !.snd_nxt = Plus(iss, 1), !.snd_una = iss,
                          !.tx_wait = FALSE, !.state = "SYN_SENT"]
           r == csp_rdp_send_syn(d, mem)
<1>1. Plus(iss, 1) \in Seqnr
  <2>1. iss \in Int BY SeqnrInt
  <2> QED BY <2>1, PlusType
<1>2. Slot(d) /\ SlotHeld(d) /\ d.backlog = c.backlog
  BY <1>1 DEF Slot, Conn, State, SlotHeld
<1> HIDE DEF d
<1>3. Quiet(d, r) BY <1>2, SendSynQuiet
<1> HIDE DEF r
<1>4. Slot(r) /\ SlotHeld(r) /\ r.backlog = c.backlog
  BY <1>2, <1>3 DEF Quiet, SameOwner, SlotHeld
<1> QED BY <1>4 DEF StartSyn, d, r

\* csp_close gives the handle back: the protocol is done or still has to close.
LEMMA UserClose ==
    ASSUME NEW c, Slot(c), SlotHeld(c), ~c.backlog, NEW mem
    PROVE  LET r == csp_conn_close(c, {"USERSPACE"}, mem)
           IN  Slot(r) /\ (SlotFree(r) \/ SlotClosing(r))
<1> DEFINE r == csp_conn_close(c, {"USERSPACE"}, mem)
<1>1. c.open BY DEF SlotHeld
<1>2. {"USERSPACE"} \in SUBSET ClosedByAll BY DEF ClosedByAll
<1>3. ClosedAs(c, {"USERSPACE"}, r) BY <1>1, <1>2, ConnCloseOwner
<1> HIDE DEF r
<1>4. SlotFree(r) \/ SlotClosing(r)
  BY <1>3 DEF ClosedAs, SlotHeld, SlotFree, SlotClosing
<1>5. Slot(r) BY <1>3 DEF ClosedAs
<1> QED BY <1>4, <1>5 DEF r

\* A connect that fails gives the handle back.
LEMMA ErrorClose ==
    ASSUME NEW c, Slot(c), SlotHeld(c), ~c.backlog, NEW mem
    PROVE  LET r == ConnectError(c, mem)
           IN  Slot(r) /\ (SlotFree(r) \/ SlotClosing(r))
<1> DEFINE d == csp_rdp_close_internal(c, {"PROTOCOL"}, FALSE, mem)
<1>1. {"PROTOCOL"} \in SUBSET ClosedByAll BY DEF ClosedByAll
<1>2. RdpClosedAs(c, {"PROTOCOL"}, d) BY <1>1, CloseInternalOwner
<1> HIDE DEF d
<1>3. Slot(d) BY <1>2 DEF RdpClosedAs
<1>4. SlotHeld(d) /\ ~d.backlog
  <2>1. d.open /\ ~d.dest_socket /\ ~d.backlog
    BY <1>2, Zenon DEF RdpClosedAs, SlotHeld
  <2>2. "USERSPACE" \notin c.closed_by \cup {"PROTOCOL"} BY DEF SlotHeld
  <2>3. c.closed_by \cup {"PROTOCOL"} # ClosedByAll BY <2>2 DEF ClosedByAll
  <2> QED BY <1>2, <2>1, <2>2, <2>3 DEF RdpClosedAs, SlotHeld
<1> QED BY <1>3, <1>4, UserClose DEF ConnectError, d
=============================================================================
