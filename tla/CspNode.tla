------------------------------ MODULE CspNode -------------------------------
(* The state of a CSP node and the functions that its tasks call on it: the   *)
(* packet pool (csp_buffer.c), the router's input queue (csp_qfifo.c), ports  *)
(* (csp_port.c), the connection table (csp_conn.c), interfaces and subnets    *)
(* (csp_iflist.c), promiscuous mode, duplicates, and the way out of the node  *)
(* (csp_io.c).  A node is a record n; a function of the code is an operator   *)
(* on it.  RDP is not here but in Rdp: no identifier carries CSP_FRDP.        *)
EXTENDS CspRtable, SequencesExt

CONSTANTS BufferCount, BufferSize, ConnMax, QfifoLen, RxqueueLen, PortMaxBind,
          DedupCount, DedupWindow, ClockMod,
          Sockets,      \* the options of the sockets the application declares
          IfList,       \* the interfaces, in the order csp_iflist_add saw them
          Iface,        \* [interface -> [addr, netmask, mtu]]
          DedupMode     \* csp_conf.dedup

ASSUME NodeAssumption ==
    /\ {BufferCount, BufferSize, ConnMax, QfifoLen, RxqueueLen, DedupCount, DedupWindow, ClockMod}
         \subseteq Nat \ {0}
    /\ DedupMode \in {"off", "fwd", "incoming", "all"}
    /\ Iface["lo"].netmask = HostBits /\ Iface["lo"].addr = 0
    /\ IfList \in Seq(STRING)

Buffers  == 1 .. BufferCount
ConnSlots == 0 .. ConnMax - 1
CSP_ANY  == PortMaxBind + 1        \* the place of CSP_ANY in the port table
PORT_CLOSED  == 0
PORT_OPEN_CB == -2
NULL     == -1
NoIface  == "none"
NoId     == [pri |-> 0, src |-> 0, dst |-> 0, dport |-> 0, sport |-> 0, flags |-> {}]

\* No DAMAt mutant is active.
NoMutant == [id |-> NULL, probe |-> "none", field |-> "pri", op |-> "set", v |-> 0]

\* A packet: identifier, what it says, the trailers behind its data, its length.
Packet(id, data, len) == [id |-> id, data |-> data, trl |-> <<>>, len |-> len]

\* A packet in a buffer of the pool: with its reference count.
Buffer(p, ref) == [ref |-> ref, id |-> p.id, data |-> p.data, trl |-> p.trl, len |-> p.len]
Blank == Buffer(Packet(NoId, "", 0), 0)

csp_buffer_init == [b \in Buffers |-> Blank]

\* csp_conn_init; the pool is not initialised data, zero on a hosted system.
csp_conn_init ==
    [c \in ConnSlots |->
        [state |-> "closed", type |-> "client", idin |-> NoId, idout |-> NoId,
         rx |-> <<>>, dest |-> NULL, opts |-> {}]]

\* csp_init: pool, connections, input queue; ports and the rest are cleared data.
csp_init ==
    [buf |-> csp_buffer_init, free |-> Buffers, recent |-> NULL, errno |-> "none", crash |-> FALSE,
     last |-> 0, conn |-> csp_conn_init,
     qfifo |-> <<>>, port |-> [p \in 0 .. CSP_ANY |-> PORT_CLOSED],
     sock |-> [s \in DOMAIN Sockets |-> [opts |-> Sockets[s], listening |-> FALSE, q |-> <<>>]],
     promisc |-> [on |-> FALSE, q |-> <<>>],
     ring |-> [k \in 0 .. DedupCount - 1 |-> [crc |-> <<>>, at |-> 0]], ringin |-> 0,
     now |-> 0, rtable |-> rtable, wire |-> <<>>, mut |-> NoMutant]

-----------------------------------------------------------------------------
(* Packet pool.  csp_buffers is a FIFO of free buffers; which of them comes   *)
(* next does not matter, except that the one freed last comes last.           *)

NextFree(n) == IF n.free = {n.recent} THEN n.recent ELSE Min(n.free \ {n.recent})

\* csp_buffer_get: the pointer, or NULL when the pool is empty or size too big.
csp_buffer_get(n, size) ==
    IF n.free = {} \/ size > BufferSize THEN [n |-> n, b |-> NULL]
    ELSE LET b == NextFree(n)
         IN  [n |-> [n EXCEPT !.free = @ \ {b}, !.buf[b].ref = 1], b |-> b]

csp_buffer_get_isr(n, size) == csp_buffer_get(n, size)

csp_buffer_free(n, b) ==
    CASE b = NULL -> n
      [] b # NULL /\ n.buf[b].ref = 0 -> [n EXCEPT !.errno = "ALREADY_FREE"]
      [] OTHER -> [n EXCEPT !.buf[b].ref = 0, !.free = @ \cup {b}, !.recent = b]

csp_buffer_free_isr(n, b) ==
    IF b # NULL /\ n.buf[b].ref = 0 THEN [n EXCEPT !.errno = "CORRUPT_BUFFER"]
    ELSE csp_buffer_free(n, b)

FilledWith(got, p) == IF got.b = NULL THEN got ELSE [got EXCEPT !.n.buf[got.b] = [p EXCEPT !.ref = 1]]

csp_buffer_clone(n, b) == FilledWith(csp_buffer_get(n, n.buf[b].len), n.buf[b])

csp_buffer_remaining(n) == Cardinality(n.free)

\* Between two steps of a task the content of a free buffer is forgotten.
Settled(n) == [n EXCEPT !.buf = [b \in Buffers |-> IF b \in n.free THEN Blank ELSE n.buf[b]]]

-----------------------------------------------------------------------------
(* Input queue.                                                               *)

csp_qfifo_write(n, b, i) ==
    CASE b = NULL -> n
      [] b # NULL /\ i = NoIface -> csp_buffer_free(n, b)
      [] b # NULL /\ i # NoIface /\ Len(n.qfifo) < QfifoLen ->
            [n EXCEPT !.qfifo = Append(@, [b |-> b, i |-> i])]
      [] OTHER -> csp_buffer_free(n, b)

csp_qfifo_write_isr(n, b, i) ==
    IF b # NULL /\ (i = NoIface \/ Len(n.qfifo) = QfifoLen) THEN csp_buffer_free_isr(n, b)
    ELSE csp_qfifo_write(n, b, i)

csp_qfifo_wake_up(n) ==
    IF Len(n.qfifo) = QfifoLen THEN n
    ELSE [n EXCEPT !.qfifo = Append(@, [b |-> NULL, i |-> NoIface])]

csp_qfifo_read(n) == [n EXCEPT !.qfifo = Tail(@)]

-----------------------------------------------------------------------------
(* Ports: an entry is closed, a callback, or the number of a socket.          *)

BoundTo(n, port) == IF n.port[port] # PORT_CLOSED THEN n.port[port] ELSE n.port[CSP_ANY]

csp_port_get_callback(n, port) == port <= PortMaxBind /\ BoundTo(n, port) = PORT_OPEN_CB

\* csp_port_get_socket: the socket, or NULL.
csp_port_get_socket(n, port) ==
    IF port > PortMaxBind \/ BoundTo(n, port) \in {PORT_CLOSED, PORT_OPEN_CB} THEN NULL
    ELSE BoundTo(n, port)

csp_bind(n, s, port) ==
    IF n.port[port] # PORT_CLOSED THEN n ELSE [n EXCEPT !.port[port] = s]

csp_bind_callback(n, port) ==
    IF n.port[port] # PORT_CLOSED THEN n ELSE [n EXCEPT !.port[port] = PORT_OPEN_CB]

\* csp_listen: the queue is created empty.
csp_listen(n, s) == [n EXCEPT !.sock[s] = [@ EXCEPT !.listening = TRUE, !.q = <<>>]]

-----------------------------------------------------------------------------
(* Connection table.                                                          *)

\* Mutant: an outgoing connection is found by the node it talks to.
find_by_source(n, id) == {c \in ConnSlots : n.conn[c].state = "open" /\ n.conn[c].idin.src = id.src}

\* Mutant: closed connections are matched as well.
find_any_state(n, id) == {c \in ConnSlots : n.conn[c].idin.dport = id.dport}

csp_conn_find_existing(n, id) ==
    {c \in ConnSlots :
        LET conn == n.conn[c]
        IN  /\ conn.state = "open"
            /\ conn.idin.dport = id.dport
            /\ conn.type = "server" =>
                 conn.idin.sport = id.sport /\ conn.idin.src = id.src}

\* One buffer after the other is freed: the node after each of them.
Freeing(n, bs) ==
    LET after[k \in 0 .. Len(bs)] == IF k = 0 THEN n ELSE csp_buffer_free(after[k - 1], bs[k])
    IN  after

csp_conn_flush_rx_queue(n, c) ==
    LET rx == n.conn[c].rx
    IN  [Freeing(n, rx)[Len(rx)] EXCEPT !.conn[c].rx = <<>>]

\* The search of csp_conn_allocate starts behind the slot given last.
NextClosed(n) ==
    LET Slot(j) == (n.last + j) % ConnMax
        closed  == {j \in 1 .. ConnMax : n.conn[Slot(j)].state = "closed"}
    IN  IF closed = {} THEN NULL ELSE Slot(Min(closed))

\* csp_conn_allocate, the atomic exchange that takes the slot ...
csp_conn_allocate(n, c) == [n EXCEPT !.last = c, !.conn[c].state = "open"]

\* ... and the rest of csp_conn_new, which any task may see half done.
csp_conn_new(n, c, idin, idout, type) ==
    csp_conn_flush_rx_queue([n EXCEPT !.conn[c] =
        [@ EXCEPT !.type = type, !.idin = idin, !.idout = idout]], c)

\* Mutant: the packets of the closed connection are not freed.
close_without_flush(n, c) == [n EXCEPT !.conn[c].state = "closed", !.conn[c].rx = <<>>]

csp_close(n, c) ==
    IF c = NULL \/ n.conn[c].state = "closed" THEN n
    ELSE [csp_conn_flush_rx_queue(n, c) EXCEPT !.conn[c].state = "closed"]

\* csp_connect before and after csp_conn_new.  incoming_id.dport is not set: it
\* has whatever value the stack held.
ConnectIdin(prio, dest, dport, flags, garbage) ==
    [pri |-> prio, src |-> dest, dst |-> 0, dport |-> garbage, sport |-> dport, flags |-> flags]

ConnectIdout(prio, dest, dport, flags, garbage) ==
    [pri |-> prio, src |-> 0, dst |-> dest, dport |-> dport, sport |-> garbage, flags |-> flags]

sport_outgoing(c) == PortMaxBind + 1 + c

csp_connect(n, c, opts) ==
    [n EXCEPT !.conn[c] = [@ EXCEPT !.idout.sport = sport_outgoing(c),
                                    !.idin.dport = sport_outgoing(c),
                                    !.dest = NULL, !.opts = opts]]

\* csp_conn_enqueue_packet is only called with room: see Delivered in CspTasks.
csp_conn_enqueue_packet(n, c, b) == [n EXCEPT !.conn[c].rx = Append(@, b)]

-----------------------------------------------------------------------------
(* Duplicates and promiscuous mode.  The CRC of a packet with its header is   *)
(* the identifier and the data it is computed from.                           *)

Crc(p) == <<p.id, p.data>>

\* Mutant: the place of an entry in the ring is not looked at.
dedup_any_time(n, p) == \E k \in 0 .. DedupCount - 1 : n.ring[k].crc = Crc(p)

\* csp_dedup_is_duplicate: now < timestamp + window, both 32 bits wide.
csp_dedup_is_duplicate(n, p) ==
    \E k \in 0 .. DedupCount - 1 :
        n.ring[k].crc = Crc(p) /\ n.now < (n.ring[k].at + DedupWindow) % ClockMod

Remember(n, p) ==
    [n EXCEPT !.ring[n.ringin] = [crc |-> Crc(p), at |-> n.now],
              !.ringin = (@ + 1) % DedupCount]

csp_promisc_enable(n) == [n EXCEPT !.promisc.on = TRUE]

csp_promisc_disable(n) == [n EXCEPT !.promisc.on = FALSE]

\* Mutant: the length of the queue is not looked at.
promisc_unbounded(n, copy) ==
    IF copy.b = NULL THEN n ELSE [copy.n EXCEPT !.promisc.q = Append(@, copy.b)]

\* The copy to the promiscuous queue, or back to the pool.
PromiscQueued(n, copy) ==
    CASE copy.b = NULL -> n
      [] copy.b # NULL /\ Len(n.promisc.q) < RxqueueLen ->
            [copy.n EXCEPT !.promisc.q = Append(@, copy.b)]
      [] OTHER -> csp_buffer_free(copy.n, copy.b)

csp_promisc_add(n, b) ==
    IF n.promisc.on THEN PromiscQueued(n, csp_buffer_clone(n, b)) ELSE n

-----------------------------------------------------------------------------
(* The way out.                                                               *)

csp_iflist_is_within_subnet(addr, i) ==
    i # NoIface /\ SameNetwork(Iface[i].addr, addr, Iface[i].netmask)

TrailerFits(p) == p.len + 4 <= BufferSize

csp_hmac_append(p) == [p EXCEPT !.trl = Append(@, "hmac"), !.len = @ + 4]

csp_crc32_append(p) == [p EXCEPT !.trl = Append(@, "crc"), !.len = @ + 4]

\* Authentication first, then the checksum; unless it fits, the packet is lost.
Sealed(p) ==
    LET flags == p.id.flags
        Hmac(q) == IF "HMAC" \in flags THEN csp_hmac_append(q) ELSE q
        Crc32(q) == IF "CRC32" \in flags THEN csp_crc32_append(q) ELSE q
    IN  Crc32(Hmac(p))

SealFits(p) ==
    /\ "HMAC" \in p.id.flags => TrailerFits(p)
    /\ "CRC32" \in p.id.flags =>
         TrailerFits(IF "HMAC" \in p.id.flags THEN csp_hmac_append(p) ELSE p)

\* nexthop: the loopback writes to the input queue and reports success in any
\* case; the driver of another interface takes the packet, or reports an error.
csp_lo_tx(n, b) == csp_qfifo_write(n, b, "lo")

Nexthop(n, b, i, via) ==
    IF i = "lo" THEN csp_lo_tx(n, b)
    ELSE csp_buffer_free([n EXCEPT !.wire = Append(@, [i |-> i, via |-> via, p |-> n.buf[b]])], b)

\* Trailers, the check against the MTU, and the driver; on any error the packet
\* goes back to the pool.
Transmit(n, b, i, via, from_me, txok) ==
    LET p == IF from_me THEN Sealed(n.buf[b]) ELSE n.buf[b]
        ok == /\ from_me => SealFits(n.buf[b])
              /\ Iface[i].mtu = 0 \/ p.len <= Iface[i].mtu
              /\ i = "lo" \/ txok
    IN  IF ok THEN Nexthop([n EXCEPT !.buf[b] = p], b, i, via) ELSE csp_buffer_free(n, b)

csp_send_direct_iface(n, idout, b, i, via, from_me, txok) ==
    LET n1 == [n EXCEPT !.buf[b].id = idout]
    IN  Transmit(IF from_me /\ i # "lo" THEN csp_promisc_add(n1, b) ELSE n1,
                 b, i, via, from_me, txok)

\* Mutant: no split horizon.
any_subnet(dst, from, i) == Iface[i].netmask # 0 /\ csp_iflist_is_within_subnet(dst, i)

\* An interface of csp_iflist_get_by_subnet that csp_send_direct does not skip.
LocalTarget(dst, from, i) ==
    /\ Iface[i].netmask # 0 /\ csp_iflist_is_within_subnet(dst, i)
    /\ i # from
    /\ ~csp_iflist_is_within_subnet(Iface[i].addr, from)

\* A copy of the packet to an interface.  The copy is not checked: without a free
\* buffer the node stops here.
SendCopy(n, idout, b, from, i, txok) ==
    LET copy == csp_buffer_clone(n, b)
    IN  IF copy.b = NULL THEN [n EXCEPT !.crash = TRUE]
        ELSE csp_send_direct_iface(copy.n, [idout EXCEPT !.src = Iface[i].addr], copy.b, i, NoVia,
                                   from = NoIface, txok)

\* A copy to every local subnet: the node after each interface of the list.
SendCopies(n, idout, b, from, txok) ==
    LET after[k \in 0 .. Len(IfList)] ==
            IF k = 0 THEN n
            ELSE IF after[k - 1].crash \/ ~LocalTarget(idout.dst, from, IfList[k]) THEN after[k - 1]
            ELSE SendCopy(after[k - 1], idout, b, from, IfList[k], txok)
    IN  after

\* csp_send_direct: copies to the local subnets, or the packet along its route.
csp_send_direct(n, idout, b, from, txok) ==
    LET local  == \E k \in 1 .. Len(IfList) : LocalTarget(idout.dst, from, IfList[k])
        routes == csp_rtable_find_route(n.rtable, idout.dst)
    IN  CASE local -> csp_buffer_free(SendCopies(n, idout, b, from, txok)[Len(IfList)], b)
          [] ~local /\ routes # {} ->
                LET r == CHOOSE r \in routes : TRUE
                IN  csp_send_direct_iface(n, idout, b, r.i, r.via, from = NoIface, txok)
          [] OTHER -> csp_buffer_free(n, b)

\* csp_sendto: CSP_O_SAME keeps the flags the packet has.
csp_sendto(n, prio, dest, dport, sport, flags, b, txok) ==
    LET id == [pri |-> prio, src |-> 0, dst |-> dest, dport |-> dport, sport |-> sport,
               flags |-> flags]
    IN  csp_send_direct([n EXCEPT !.buf[b].id = id], id, b, NoIface, txok)

csp_sendto_reply(n, req, b, txok) ==
    csp_sendto(n, req.id.pri, req.id.src, req.id.sport, req.id.dport, req.id.flags, b, txok)
=============================================================================
