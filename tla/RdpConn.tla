------------------------------ MODULE RdpConn -------------------------------
(***************************************************************************)
(* One endpoint of an RDP connection: the slot of the connection pool      *)
(* (csp_conn_t with its csp_rdp_t), its entries of the retransmission and  *)
(* reordering queues, and the functions of csp_rdp.c and csp_conn.c that   *)
(* change them.  Each function is an operator from the slot before the     *)
(* call to the slot after it; the packets the call hands to                *)
(* csp_send_direct are collected in field out.                             *)
(*                                                                         *)
(* Time and memory are nondeterministic arguments of the operators:        *)
(*   late    csp_rdp_conn_timeout has passed since conn->timestamp         *)
(*   expired the sequence numbers whose packet_timeout has passed          *)
(*   due     ack_timeout has passed since the last acknowledgement         *)
(*   mem     csp_buffer_get and csp_buffer_clone succeed                   *)
(*   room    the listening socket's queue has a free place                 *)
(* Every function below sends at most one control message, so one mem per  *)
(* call loses no behaviour.                                                *)
(***************************************************************************)
EXTENDS RdpSeq, Sequences, FiniteSets

CONSTANTS
    Window,       \* rdp.window_size, the same at both ends (sent in the SYN)
    RxLen,        \* CSP_CONN_RXQUEUE_LEN
    QueueCap,     \* CSP_RDP_MAX_WINDOW * 2, length of the tx and rx queues
    AckDelay,     \* rdp.ack_delay_count
    DelayedAcks   \* rdp.delayed_acks

ASSUME WindowAssumption  == Window \in Nat \ {0}
ASSUME RxLenAssumption   == RxLen \in Nat \ {0}
ASSUME QueueAssumption   == QueueCap \in Nat \ {0}
ASSUME AckAssumption     == AckDelay \in Nat /\ DelayedAcks \in BOOLEAN

State == {"CLOSED", "SYN_SENT", "SYN_RCVD", "OPEN", "CLOSE_WAIT"}

\* Who has closed the connection (CSP_RDP_CLOSED_BY_...)
ClosedByAll == {"USERSPACE", "PROTOCOL", "TIMEOUT"}

Flag == {"SYN", "ACK", "EAK", "RST"}

\* A payload is a positive number; a packet without data carries NoData, and
\* NoData in a connection's rx_queue is the NULL pointer.
NoData == 0
Data == Nat

\* An RDP packet: header, payload and the sequence numbers of an EACK
Packet == [flags : SUBSET Flag, seq_nr : Seqnr, ack_nr : Seqnr,
           data : Data, eak : SUBSET Seqnr]

\* An element of the retransmission queue.  Its ack_nr is rewritten before
\* every retransmission, so it is not kept.  The queue is a set: the order of the
\* elements is of no consequence, but a SYN may be in it several times, so its
\* copies are numbered.
TxElement == [flags : SUBSET Flag, seq_nr : Seqnr, data : Data, copy : Nat]

RxElement == [seq_nr : Seqnr, data : Data]

\* The slot.  delivered is a history: the payloads this
\* connection has put on rx_queue.
Conn == [open        : BOOLEAN,           \* state = CONN_OPEN
         state       : State,             \* rdp.state
         closed_by   : SUBSET ClosedByAll,
         snd_nxt     : Seqnr,
         snd_una     : Seqnr,
         snd_iss     : Seqnr,
         rcv_cur     : Seqnr,
         rcv_irs     : Seqnr,
         rcv_lsa     : Seqnr,
         tx_wait     : BOOLEAN,           \* binary semaphore
         dest_socket : BOOLEAN,           \* dest_socket # NULL
         backlog     : BOOLEAN,           \* queued on the socket's rx_queue
         tx          : SUBSET TxElement,
         rx          : SUBSET RxElement,
         rx_queue    : Seq(Data),
         delivered   : Seq(Data),
         out         : SUBSET Packet]

\* A slot after csp_init: csp_conn_init and csp_rdp_init.  The array is in
\* .noinit memory: the sequence numbers are whatever was there.
csp_conn_init(nr) ==
    [open |-> FALSE, state |-> "CLOSED", closed_by |-> {},
     snd_nxt |-> nr, snd_una |-> nr, snd_iss |-> nr,
     rcv_cur |-> nr, rcv_irs |-> nr, rcv_lsa |-> nr,
     tx_wait |-> TRUE, dest_socket |-> FALSE, backlog |-> FALSE,
     tx |-> {}, rx |-> {}, rx_queue |-> <<>>, delivered |-> <<>>,
     out |-> {}]

-----------------------------------------------------------------------------
(* Queues and control messages *)

\* A full queue silently frees the packet.
csp_rdp_queue_tx_add(c, flags, seq_nr, d) ==
    LET copy == Cardinality({e \in c.tx : e.seq_nr = seq_nr})
    IN  IF Cardinality(c.tx) < QueueCap
        THEN [c EXCEPT !.tx = @ \cup {[flags |-> flags, seq_nr |-> seq_nr,
                                       data |-> d, copy |-> copy]}]
        ELSE c

csp_rdp_queue_rx_add(c, e) ==
    [c EXCEPT !.rx = IF Cardinality(@) < QueueCap THEN @ \cup {e} ELSE @]

\* Sends a packet without data.  A SYN is copied to the retransmission queue;
\* an ACK is remembered as the last one sent.
csp_rdp_send_cmp(c, flags, seq_nr, ack_nr, eak, mem) ==
    LET queued == IF "SYN" \in flags
                  THEN csp_rdp_queue_tx_add(c, flags, seq_nr, NoData)
                  ELSE c
    IN  IF mem
        THEN [queued EXCEPT
                !.out = @ \cup {[flags |-> flags, seq_nr |-> seq_nr, ack_nr |-> ack_nr,
                                 data |-> NoData, eak |-> eak]},
                !.rcv_lsa = IF "ACK" \in flags THEN ack_nr ELSE @]
        ELSE c

\* Acknowledges rcv_cur and lists what waits in the reordering queue.
csp_rdp_send_eack(c, mem) ==
    csp_rdp_send_cmp(c, {"ACK", "EAK"}, c.snd_nxt, c.rcv_cur,
                     {e.seq_nr : e \in c.rx}, mem)

csp_rdp_send_syn(c, mem) ==
    csp_rdp_send_cmp(c, {"SYN"}, c.snd_iss, 0, {}, mem)

csp_conn_enqueue_packet(c, d) ==
    [c EXCEPT !.rx_queue = IF Len(@) < RxLen THEN Append(@, d) ELSE @]

\* Hands a payload to userspace; possible only when rx_queue has room.
csp_rdp_receive_data(c, d) ==
    [csp_conn_enqueue_packet(c, d) EXCEPT !.delivered = Append(@, d)]

\* The i-th element of the reordering queue after rcv_cur
Following(c, i) == CHOOSE e \in c.rx : e.seq_nr = Plus(c.rcv_cur, i)

\* The k for which the k elements after rcv_cur are there without a gap and more
\* than two places of rx_queue stay free when the last one is taken
InSequence(c) ==
    {k \in 1 .. QueueCap :
        /\ k + 2 <= RxLen - Len(c.rx_queue)
        /\ \A i \in 1 .. k : \E e \in c.rx : e.seq_nr = Plus(c.rcv_cur, i)}

\* Delivers these elements.
csp_rdp_rx_queue_flush(c) ==
    LET n     == Cardinality(InSequence(c))
        taken == [i \in 1 .. n |-> Following(c, i).data]
    IN  [c EXCEPT !.rx = @ \ {Following(c, i) : i \in 1 .. n},
                  !.rcv_cur = Plus(@, n),
                  !.rx_queue = @ \o taken,
                  !.delivered = @ \o taken]

\* Frees the elements of the retransmission queue that an EACK lists.  (That it
\* also makes older ones expire is covered by the choice of expired.)
csp_rdp_flush_eack(c, eak) ==
    [c EXCEPT !.tx = {e \in @ : e.seq_nr \notin eak}]

csp_rdp_should_ack(c, due) ==
    \/ ~DelayedAcks
    \/ due
    \/ csp_rdp_seq_after(c.rcv_cur, c.rcv_lsa + AckDelay)

\* Sends an ACK unless rx_queue lacks room for two windows.
csp_rdp_check_ack(c, due, mem) ==
    IF RxLen - Len(c.rx_queue) > 2 * Window /\ csp_rdp_should_ack(c, due)
    THEN csp_rdp_send_cmp(c, {"ACK"}, c.snd_nxt, c.rcv_cur, {}, mem)
    ELSE c

\* Mutant: one segment more than the window may be outstanding.
ReadyOffByOne(c) == ~csp_rdp_seq_after(c.snd_nxt, c.snd_una + Window)

csp_rdp_is_conn_ready_for_tx(c) ==
    ~csp_rdp_seq_after(c.snd_nxt, c.snd_una + Window - 1)

-----------------------------------------------------------------------------
(* Closing *)

\* Mutant: does not wait for userspace to close.
CloseWithoutUser(c, closed_by, send_rst, mem) ==
    LET by == c.closed_by \cup closed_by \cup {"USERSPACE"}
    IN  IF c.state = "CLOSED" THEN c
        ELSE [c EXCEPT !.state     = IF by = ClosedByAll THEN "CLOSED" ELSE "CLOSE_WAIT",
                       !.closed_by = IF by = ClosedByAll THEN {} ELSE by]

\* Records who closes.  The first close moves to CLOSE_WAIT, sends a reset and
\* wakes a blocked sender; the connection is CLOSED once all three have closed.
csp_rdp_close_internal(c, closed_by, send_rst, mem) ==
    LET by    == c.closed_by \cup closed_by
        first == c.state # "CLOSE_WAIT"
        sent  == IF first /\ send_rst
                 THEN csp_rdp_send_cmp(c, {"ACK", "RST"}, c.snd_nxt, c.rcv_cur, {}, mem)
                 ELSE c
    IN  IF c.state = "CLOSED"
        THEN c
        ELSE [sent EXCEPT
                !.state     = IF by = ClosedByAll THEN "CLOSED" ELSE "CLOSE_WAIT",
                !.closed_by = IF by = ClosedByAll THEN {} ELSE by,
                !.tx_wait   = @ \/ first]

csp_rdp_queue_flush(c) == [c EXCEPT !.tx = {}, !.rx = {}]

\* Mutant: the packets of the connection stay in the queues.
CloseWithoutFlush(c, closed_by, mem) ==
    LET d == csp_rdp_close_internal(c, closed_by, TRUE, mem)
    IN  IF ~c.open THEN c
        ELSE IF d.state # "CLOSED" THEN d
        ELSE [d EXCEPT !.rx_queue = <<>>, !.open = FALSE]

\* Closes the connection for closed_by; the slot is given back when RDP is done
\* with it (csp_rdp_close does not answer CSP_ERR_AGAIN).
csp_conn_close(c, closed_by, mem) ==
    LET d == csp_rdp_close_internal(c, closed_by, TRUE, mem)
    IN  IF ~c.open THEN c
        ELSE IF d.state # "CLOSED" THEN d
        ELSE [csp_rdp_queue_flush(d) EXCEPT !.rx_queue = <<>>, !.open = FALSE]

\* Mutant: treats a connection that no user task has seen like any other.
DiscardForProtocol(c, closed_by, mem) ==
    csp_conn_enqueue_packet(csp_conn_close(c, closed_by, mem), NoData)

\* Label discard_close of csp_rdp_new_packet
DiscardClose(c, closed_by, mem) ==
    IF c.dest_socket
    THEN csp_conn_close(c, closed_by \cup {"USERSPACE"}, mem)
    ELSE csp_conn_enqueue_packet(csp_conn_close(c, closed_by, mem), NoData)

-----------------------------------------------------------------------------
(* csp_rdp_check_timeouts: called by the router before every packet *)

\* Retransmission of a queued element, with the latest acknowledgement
Retransmit(c, e) ==
    [flags |-> e.flags, seq_nr |-> e.seq_nr, ack_nr |-> c.rcv_cur,
     data |-> e.data, eak |-> {}]

\* Mutant: the oldest unacknowledged segment is freed too.
FreeOneMore(c, expired) ==
    [c EXCEPT !.tx = {e \in @ : csp_rdp_seq_after(e.seq_nr, c.snd_una)}]

\* Mutant: nothing is retransmitted.
NoRetransmission(c, expired) ==
    [c EXCEPT !.tx = {e \in @ : ~csp_rdp_seq_before(e.seq_nr, c.snd_una)}]

\* Frees what is acknowledged and retransmits what has expired.
MessageTimeout(c, expired) ==
    LET kept == {e \in c.tx : ~csp_rdp_seq_before(e.seq_nr, c.snd_una)}
    IN  [c EXCEPT !.tx = kept,
                  !.out = @ \cup {Retransmit(c, e) : e \in {k \in kept : k.seq_nr \in expired}}]

\* Mutant: the semaphore of a blocked sender is not posted.
TimeoutsWithoutPost(c, late, expired, due, mem) ==
    csp_rdp_rx_queue_flush(csp_rdp_check_ack(MessageTimeout(c, expired), due, mem))

\* Mutant: nothing ends CLOSE_WAIT.
CloseWaitForEver(c, late, expired, due, mem) ==
    IF c.dest_socket /\ late
    THEN csp_conn_close(c, ClosedByAll, mem)
    ELSE csp_rdp_rx_queue_flush(MessageTimeout(c, expired))

csp_rdp_check_timeouts(c, late, expired, due, mem) ==
    LET pruned == MessageTimeout(c, expired)
        acked  == IF DelayedAcks THEN csp_rdp_check_ack(pruned, due, mem) ELSE pruned
        woken  == [acked EXCEPT !.tx_wait = @ \/ csp_rdp_is_conn_ready_for_tx(c)]
    IN  IF c.dest_socket /\ late
        THEN csp_conn_close(c, ClosedByAll, mem)
        ELSE IF c.state = "CLOSE_WAIT"
        THEN IF late THEN csp_conn_close(c, {"PROTOCOL", "TIMEOUT"}, mem) ELSE c
        ELSE csp_rdp_rx_queue_flush(IF c.state = "OPEN" THEN woken ELSE pruned)

-----------------------------------------------------------------------------
(* csp_rdp_new_packet: one operator for a reset and one per state *)

\* The sequence numbers and the acknowledgement an endpoint accepts
SeqValid(c, p) ==
    csp_rdp_seq_between(p.seq_nr, c.rcv_cur + 1, c.rcv_cur + 2 * Window)

AckValid(c, p) ==
    csp_rdp_seq_between(p.ack_nr, c.snd_una - 1 - 2 * Window, c.snd_nxt - 1)

StoreAck(c, p) == [c EXCEPT !.snd_una = Plus(p.ack_nr, 1)]

\* The test of line 553.  rcv_cur + 1 is an int there, it does not wrap.
RstInSequence(c, p) == p.seq_nr = c.rcv_cur + 1

ReceiveRst(c0, p, mem) ==
    LET c == IF "ACK" \in p.flags THEN StoreAck(c0, p) ELSE c0
        wait == csp_rdp_send_cmp([c EXCEPT !.state = "CLOSE_WAIT"], {"ACK", "RST"},
                                 c.snd_nxt, c.rcv_cur, {}, mem)
    IN  IF c.state = "CLOSED" THEN
            \* close_connection makes csp_route_work call csp_close
            IF c.dest_socket THEN csp_conn_close(c, {"USERSPACE"}, mem) ELSE c
        ELSE IF c.state = "CLOSE_WAIT" THEN
            DiscardClose(c, IF "ACK" \in p.flags THEN {"PROTOCOL", "TIMEOUT"}
                            ELSE {"PROTOCOL"}, mem)
        ELSE IF RstInSequence(c, p) THEN
            DiscardClose(wait, {"PROTOCOL", "TIMEOUT"}, mem)
        ELSE c

ReceiveClosed(c, p, iss, mem) ==
    IF "SYN" \notin p.flags
    THEN DiscardClose(csp_rdp_send_cmp(c, {"RST"}, c.snd_nxt, c.rcv_cur, {}, mem),
                      {"PROTOCOL"}, mem)
    ELSE csp_rdp_send_cmp(
            [c EXCEPT !.snd_iss = iss, !.snd_nxt = Plus(iss, 1), !.snd_una = iss,
                      !.rcv_cur = p.seq_nr, !.rcv_irs = p.seq_nr, !.rcv_lsa = p.seq_nr,
                      !.state = "SYN_RCVD"],
            {"ACK", "SYN"}, iss, p.seq_nr, {}, mem)

ReceiveSynSent(c, p, mem) ==
    IF {"SYN", "ACK"} \subseteq p.flags THEN
        csp_rdp_send_cmp(
            [StoreAck(c, p) EXCEPT
               !.rcv_cur = p.seq_nr, !.rcv_irs = p.seq_nr, !.rcv_lsa = Plus(p.seq_nr, -1),
               !.state = "OPEN", !.tx_wait = TRUE],
            {"ACK"}, c.snd_nxt, p.seq_nr, {}, mem)
    ELSE IF "ACK" \in p.flags THEN
        \* half-open connection: reset it and wake the connecting task
        csp_rdp_send_cmp([c EXCEPT !.tx_wait = TRUE], {"RST"},
                         c.snd_nxt, c.rcv_cur, {}, mem)
    ELSE DiscardClose(c, {"PROTOCOL"}, mem)

\* Mutant: data is delivered as it comes.
DeliverUnordered(c, p, due, mem) ==
    IF Len(c.rx_queue) < RxLen
    THEN csp_rdp_check_ack([csp_rdp_receive_data(c, p.data) EXCEPT !.rcv_cur = p.seq_nr],
                           due, mem)
    ELSE c

\* Data that passed all checks: deliver it, or keep it for reordering
ReceiveData(c, p, due, mem) ==
    IF p.seq_nr # Plus(c.rcv_cur, 1) THEN
        IF \E e \in c.rx : e.seq_nr = p.seq_nr
        THEN csp_rdp_check_ack(c, due, mem)
        ELSE csp_rdp_send_eack(
               csp_rdp_queue_rx_add(c, [seq_nr |-> p.seq_nr, data |-> p.data]), mem)
    ELSE IF Len(c.rx_queue) < RxLen THEN
        csp_rdp_rx_queue_flush(
          csp_rdp_check_ack([csp_rdp_receive_data(c, p.data) EXCEPT !.rcv_cur = p.seq_nr],
                            due, mem))
    ELSE c

\* States SYN_RCVD and OPEN
ReceiveOpen(c, p, due, room, mem) ==
    LET rcvd == c.state = "SYN_RCVD"
        \* the connection is handed to the socket when it opens
        open == [c EXCEPT !.state = "OPEN",
                          !.backlog = @ \/ (rcvd /\ c.dest_socket),
                          !.dest_socket = @ /\ ~rcvd]
        acked == StoreAck(open, p)
    IN  IF "SYN" \in p.flags \/ "ACK" \notin p.flags THEN
            IF p.seq_nr # c.rcv_irs THEN DiscardClose(c, {"PROTOCOL"}, mem) ELSE c
        ELSE IF ~SeqValid(c, p) THEN
            IF rcvd
            THEN csp_rdp_send_cmp(c, {"ACK", "SYN"}, c.snd_iss, c.rcv_irs, {}, mem)
            ELSE csp_rdp_send_eack(c, mem)
        ELSE IF ~AckValid(c, p) THEN c
        ELSE IF rcvd /\ p.ack_nr # c.snd_iss THEN DiscardClose(c, {"PROTOCOL"}, mem)
        ELSE IF rcvd /\ c.dest_socket /\ ~room THEN
            DiscardClose([c EXCEPT !.state = "OPEN"], {"PROTOCOL"}, mem)
        ELSE IF "EAK" \in p.flags THEN csp_rdp_flush_eack(acked, p.eak)
        ELSE IF p.data = NoData THEN acked
        ELSE ReceiveData(acked, p, due, mem)

ReceiveCloseWait(c, p, mem) ==
    IF "SYN" \in p.flags \/ "ACK" \notin p.flags \/ ~AckValid(c, p)
    THEN c
    ELSE csp_rdp_send_cmp(StoreAck(c, p), {"ACK", "RST"}, c.snd_nxt, c.rcv_cur, {}, mem)

csp_rdp_new_packet(c, p, iss, due, room, mem) ==
    IF "RST" \in p.flags THEN ReceiveRst(c, p, mem)
    ELSE CASE c.state = "CLOSED"     -> ReceiveClosed(c, p, iss, mem)
           [] c.state = "SYN_SENT"   -> ReceiveSynSent(c, p, mem)
           [] c.state = "CLOSE_WAIT" -> ReceiveCloseWait(c, p, mem)
           [] OTHER                  -> ReceiveOpen(c, p, due, room, mem)

-----------------------------------------------------------------------------
(* Userspace calls *)

\* csp_conn_new, as far as a pool slot that is free is concerned
csp_conn_new(c, dest_socket) ==
    [c EXCEPT !.open = TRUE, !.rx_queue = <<>>, !.dest_socket = dest_socket,
              !.delivered = <<>>]

\* csp_rdp_connect from label retry to the wait for the SYN/ACK
StartSyn(c, iss, mem) ==
    csp_rdp_send_syn([c EXCEPT !.snd_iss = iss, !.snd_nxt = Plus(iss, 1), !.snd_una = iss,
                               !.tx_wait = FALSE, !.state = "SYN_SENT"], mem)

\* Mutant: csp_connect forgets to close after csp_rdp_connect has failed.
ErrorWithoutClose(c, mem) == csp_rdp_close_internal(c, {"PROTOCOL"}, FALSE, mem)

\* Label error of csp_rdp_connect, and csp_close by csp_connect
ConnectError(c, mem) ==
    csp_conn_close(csp_rdp_close_internal(c, {"PROTOCOL"}, FALSE, mem), {"USERSPACE"}, mem)

\* The part of csp_rdp_send after the wait, and the transmission by csp_send
Transmit(c, d) ==
    [csp_rdp_queue_tx_add(c, {"ACK"}, c.snd_nxt, d)
       EXCEPT !.snd_nxt = Plus(@, 1),
              !.out = @ \cup {[flags |-> {"ACK"}, seq_nr |-> c.snd_nxt, ack_nr |-> c.rcv_cur,
                               data |-> d, eak |-> {}]}]

\* csp_read takes the first packet; that may trigger an acknowledgement.
csp_read(c, due, mem) ==
    LET d == [c EXCEPT !.rx_queue = Tail(@)]
    IN  IF DelayedAcks THEN csp_rdp_check_ack(d, due, mem) ELSE d

-----------------------------------------------------------------------------
\* The four situations of a slot between two calls
SlotFree(c) ==
    /\ ~c.open /\ ~c.backlog
    /\ c.state = "CLOSED" /\ c.closed_by = {} /\ c.tx = {} /\ c.rx = {}

\* still the router's: userspace has not seen the connection
SlotPending(c) ==
    /\ c.open /\ ~c.backlog /\ c.dest_socket
    /\ \/ c.state = "SYN_RCVD" /\ c.closed_by = {}
       \/ c.state = "CLOSE_WAIT" /\ "USERSPACE" \in c.closed_by /\ c.closed_by # ClosedByAll

\* userspace has the handle, or finds it on the socket
SlotHeld(c) ==
    c.open /\ ~c.dest_socket /\ c.state # "CLOSED" /\ "USERSPACE" \notin c.closed_by

\* userspace has closed, the protocol has not
SlotClosing(c) ==
    /\ c.open /\ ~c.backlog /\ ~c.dest_socket /\ c.state = "CLOSE_WAIT"
    /\ "USERSPACE" \in c.closed_by /\ c.closed_by # ClosedByAll
=============================================================================
