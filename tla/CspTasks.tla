------------------------------ MODULE CspTasks ------------------------------
(* The tasks of a node: the router (src/csp_route.c), a server that accepts   *)
(* connections and reads them, and clients that call services or send data    *)
(* (src/csp_io.c, src/csp_conn.c).  A step of a task ends where another task  *)
(* can see the node half changed: where csp_conn_new has opened the slot and  *)
(* not yet set the identifiers, where the router has found a connection and   *)
(* not yet queued the packet, where csp_read waits.                           *)
EXTENDS CspServices

CONSTANTS Clients,       \* tasks that open connections
          ServerPort,    \* MY_SERVER_PORT
          Garbage        \* what uninitialised stack memory may hold as a port

VARIABLES node,
          rt,     \* the router: the packet it routes and the connection found
          srv,    \* the server: its connection and packet
          cli     \* each client: the call it makes, its connection and packet

taskvars == <<node, rt, srv, cli>>

Idle == [pc |-> "idle", c |-> NULL, b |-> NULL]

\* wire keeps what the step has sent.
Becomes(n) ==
    node' = Settled([n EXCEPT !.wire = SubSeq(@, Len(node.wire) + 1, Len(@))])

\* The DAMAt probe of csp_read or csp_send on an identifier.
Probed(m, probe, id) ==
    LET v == id[m.field]
        new == CASE m.op = "set" -> m.v
                 [] m.op = "below" -> IF v > m.v THEN m.v - 1 ELSE v
                 [] m.op = "add" -> (v + m.v) % 256
                 [] m.op = "bit" -> v \cup {m.v}
    IN  IF m.probe = probe THEN [id EXCEPT ![m.field] = new] ELSE id

-----------------------------------------------------------------------------
(* csp_route_work                                                             *)

Input  == Head(node.qfifo)
Pkt    == node.buf[Input.b]
Taking == rt.pc = "idle" /\ node.qfifo # <<>> /\ Input.b # NULL /\ ~node.crash

\* The packet is to me: the address or the broadcast address of the interface.
ToMe == Iface[Input.i].addr = Pkt.id.dst \/ csp_id_is_broadcast(Pkt.id.dst, Iface[Input.i].netmask)

DedupApplies ==
    DedupMode = "all" \/ (ToMe /\ DedupMode = "incoming") \/ (~ToMe /\ DedupMode = "fwd")

Duplicate == DedupApplies /\ csp_dedup_is_duplicate(node, Pkt)

\* The node once the packet is taken from the queue, copied to the promiscuous
\* queue and entered in the ring of packets seen.
Taken ==
    LET Seen(n) == IF DedupApplies THEN Remember(n, Pkt) ELSE n
    IN  Seen(csp_promisc_add(csp_qfifo_read(node), Input.b))

\* Mutant: the checksum is looked for first behind the data.
security_crc_last(opts, p) ==
    /\ "HMAC" \in p.id.flags => p.trl # <<>> /\ Last(p.trl) = "hmac"
    /\ "CRC32" \in p.id.flags \/ "CRC32REQ" \notin opts

Stripped(p, flag) ==
    IF flag \in p.id.flags THEN [p EXCEPT !.trl = Front(@), !.len = @ - 4] ELSE p

\* csp_crc32_verify and csp_hmac_verify: the last trailer is the right one.
csp_crc32_verify(p) == p.len >= 4 /\ p.trl # <<>> /\ Last(p.trl) = "crc"

csp_hmac_verify(p) == p.len >= 4 /\ p.trl # <<>> /\ Last(p.trl) = "hmac"

csp_route_security_check(opts, p) ==
    /\ IF "CRC32" \in p.id.flags THEN csp_crc32_verify(p) ELSE "CRC32REQ" \notin opts
    /\ IF "HMAC" \in p.id.flags THEN csp_hmac_verify(Stripped(p, "CRC32"))
                                ELSE "HMACREQ" \notin opts
    /\ "RDPREQ" \notin opts

\* What the check leaves of the packet.
Opened(n, b) == [n EXCEPT !.buf[b] = Stripped(Stripped(@, "CRC32"), "HMAC")]

RouteWakeUp ==
    /\ rt.pc = "idle" /\ node.qfifo # <<>> /\ Input.b = NULL /\ ~node.crash
    /\ Becomes(csp_qfifo_read(node))
    /\ UNCHANGED <<rt, srv, cli>>

RouteDuplicate ==
    /\ Taking /\ Duplicate
    /\ Becomes(csp_buffer_free(csp_promisc_add(csp_qfifo_read(node), Input.b), Input.b))
    /\ UNCHANGED <<rt, srv, cli>>

RouteForward(txok) ==
    /\ Taking /\ ~Duplicate /\ ~ToMe
    /\ Becomes(csp_send_direct(Taken, Pkt.id, Input.b, Input.i, txok))
    /\ UNCHANGED <<rt, srv, cli>>

Mine == Taking /\ ~Duplicate /\ ToMe

RouteCallback(txok) ==
    /\ Mine /\ csp_port_get_callback(node, Pkt.id.dport)
    /\ Becomes(IF csp_route_security_check({}, Pkt)
               THEN csp_service_handler(Opened(Taken, Input.b), Input.b, txok)
               ELSE csp_buffer_free(Taken, Input.b))
    /\ UNCHANGED <<rt, srv, cli>>

ForSocket == Mine /\ ~csp_port_get_callback(node, Pkt.id.dport)
Sock      == csp_port_get_socket(node, Pkt.id.dport)
ConnLess  == Sock # NULL /\ "CONN_LESS" \in node.sock[Sock].opts

\* A socket that is bound and does not listen yet has no queue to write to.
RouteConnless ==
    /\ ForSocket /\ ConnLess
    /\ LET s == node.sock[Sock]
           n == Taken
       IN  Becomes(
             IF ~csp_route_security_check(s.opts, Pkt) \/ Len(s.q) = RxqueueLen
             THEN csp_buffer_free(n, Input.b)
             ELSE IF s.listening
             THEN [Opened(n, Input.b) EXCEPT !.sock[Sock].q = Append(@, Input.b)]
             ELSE [n EXCEPT !.crash = TRUE])
    /\ UNCHANGED <<rt, srv, cli>>

Existing == csp_conn_find_existing(node, Pkt.id)

\* The options a packet is checked against: those of its connection or socket.
Opts == IF Existing # {} THEN node.conn[Min(Existing)].opts
        ELSE IF Sock # NULL THEN node.sock[Sock].opts ELSE {}

\* No connection, and no socket or no room in the table; or a failed check.
RouteReject ==
    /\ ForSocket /\ ~ConnLess
    /\ \/ Existing = {} /\ (Sock = NULL \/ NextClosed(node) = NULL)
       \/ ~csp_route_security_check(Opts, Pkt)
    /\ Becomes(csp_buffer_free(Taken, Input.b))
    /\ UNCHANGED <<rt, srv, cli>>

RouteNew ==
    /\ ForSocket /\ ~ConnLess /\ Existing = {} /\ Sock # NULL
    /\ csp_route_security_check(Opts, Pkt)
    /\ LET c  == NextClosed(node)
           id == Pkt.id
           idout == [id EXCEPT !.src = id.dst, !.dst = id.src, !.dport = id.sport, !.sport = id.dport]
           n  == csp_conn_new(csp_conn_allocate(Opened(Taken, Input.b), c), c, id, idout, "server")
       IN  /\ c # NULL
           /\ Becomes([n EXCEPT !.conn[c] = [@ EXCEPT !.dest = Sock, !.opts = Opts]])
           /\ rt' = [pc |-> "deliver", c |-> c, b |-> Input.b]
    /\ UNCHANGED <<srv, cli>>

RouteExisting ==
    /\ ForSocket /\ ~ConnLess /\ Existing # {}
    /\ csp_route_security_check(Opts, Pkt)
    /\ Becomes(Opened(Taken, Input.b))
    /\ rt' = [pc |-> "deliver", c |-> Min(Existing), b |-> Input.b]
    /\ UNCHANGED <<srv, cli>>

\* Mutant: a connection the socket has no room for is left open.
deliver_forgets(n, c, b) ==
    LET s == n.conn[c].dest
        m == csp_conn_enqueue_packet(n, c, b)
    IN  CASE Len(n.conn[c].rx) = RxqueueLen -> csp_buffer_free(n, b)
          [] Len(n.conn[c].rx) < RxqueueLen /\ s # NULL /\ n.sock[s].listening
             /\ Len(n.sock[s].q) < RxqueueLen ->
                [m EXCEPT !.sock[s].q = Append(@, c), !.conn[c].dest = NULL]
          [] OTHER -> m

\* The packet to the connection, and a new connection to the socket; when the
\* socket's queue is full the connection is closed again.
Delivered(n, c, b) ==
    LET m == csp_conn_enqueue_packet(n, c, b)
        s == n.conn[c].dest
    IN  IF Len(n.conn[c].rx) = RxqueueLen THEN csp_buffer_free(n, b)
        ELSE IF s = NULL THEN m
        ELSE IF ~n.sock[s].listening THEN [m EXCEPT !.crash = TRUE]
        ELSE IF Len(n.sock[s].q) = RxqueueLen THEN csp_close(m, c)
        ELSE [m EXCEPT !.sock[s].q = Append(@, c), !.conn[c].dest = NULL]

Deliver ==
    /\ rt.pc = "deliver" /\ ~node.crash
    /\ Becomes(Delivered(node, rt.c, rt.b))
    /\ rt' = Idle
    /\ UNCHANGED <<srv, cli>>

Router(txok) ==
    \/ RouteWakeUp \/ RouteDuplicate \/ RouteForward(txok) \/ RouteCallback(txok)
    \/ RouteConnless \/ RouteReject \/ RouteNew \/ RouteExisting \/ Deliver

-----------------------------------------------------------------------------
(* A server task: csp_bind, csp_listen, then csp_accept and csp_read in turn. *)

csp_accept(n, s) == [c |-> Head(n.sock[s].q), n |-> [n EXCEPT !.sock[s].q = Tail(@)]]

ServerBind ==
    /\ srv.pc = "start" /\ ~node.crash
    /\ Becomes(csp_bind(node, 1, CSP_ANY))
    /\ srv' = [srv EXCEPT !.pc = "bound"]
    /\ UNCHANGED <<rt, cli>>

ServerListen ==
    /\ srv.pc = "bound" /\ ~node.crash
    /\ Becomes(csp_listen(node, 1))
    /\ srv' = [srv EXCEPT !.pc = "accept"]
    /\ UNCHANGED <<rt, cli>>

ServerAccept ==
    /\ srv.pc = "accept" /\ node.sock[1].q # <<>> /\ ~node.crash
    /\ LET got == csp_accept(node, 1)
       IN  /\ Becomes(got.n)
           /\ srv' = [srv EXCEPT !.pc = "call_read", !.c = got.c]
    /\ UNCHANGED <<rt, cli>>

\* csp_read: the probe runs when it is called, the wait comes after it.
CallRead(n, c) == [n EXCEPT !.conn[c].idin = Probed(n.mut, "read", @)]

csp_read(n, c) == [b |-> Head(n.conn[c].rx), n |-> [n EXCEPT !.conn[c].rx = Tail(@)]]

ServerCallRead ==
    /\ srv.pc = "call_read" /\ ~node.crash
    /\ Becomes(CallRead(node, srv.c))
    /\ srv' = [srv EXCEPT !.pc = "read"]
    /\ UNCHANGED <<rt, cli>>

ServerRead ==
    /\ srv.pc = "read" /\ node.conn[srv.c].rx # <<>> /\ ~node.crash
    /\ LET got == csp_read(node, srv.c)
       IN  /\ Becomes(got.n)
           /\ srv' = [srv EXCEPT !.pc = "handle", !.b = got.b]
    /\ UNCHANGED <<rt, cli>>

\* The packet of MY_SERVER_PORT is consumed, any other goes to the services.
ServerHandle(txok) ==
    /\ srv.pc = "handle" /\ ~node.crash
    /\ Becomes(IF node.conn[srv.c].idin.dport = ServerPort THEN csp_buffer_free(node, srv.b)
               ELSE csp_service_handler(node, srv.b, txok))
    /\ srv' = [srv EXCEPT !.pc = "call_read", !.b = NULL]
    /\ UNCHANGED <<rt, cli>>

\* csp_read gives up after 50 ms and the connection is closed.
ServerTimeout ==
    /\ srv.pc = "read" /\ node.conn[srv.c].rx = <<>> /\ ~node.crash
    /\ Becomes(csp_close(node, srv.c))
    /\ srv' = [srv EXCEPT !.pc = "accept", !.c = NULL]
    /\ UNCHANGED <<rt, cli>>

Server(txok) ==
    \/ ServerBind \/ ServerListen \/ ServerAccept \/ ServerCallRead \/ ServerRead
    \/ ServerHandle(txok) \/ ServerTimeout

-----------------------------------------------------------------------------
(* A client task: one call after the other.                                   *)

ClientStep(t, pc) == cli[t].pc = pc /\ ~node.crash

GoTo(t, pc) == cli' = [cli EXCEPT ![t].pc = pc]

\* Begin a call; csp_ping_noreply takes its buffer first.
ClientCall(t, call, dest) ==
    /\ ClientStep(t, "idle")
    /\ LET got == csp_buffer_get(node, call.out)
       IN  IF call.early
           THEN /\ Becomes(got.n)
                /\ cli' = [cli EXCEPT ![t] = [pc |-> IF got.b = NULL THEN "idle" ELSE "connect",
                                             c |-> NULL, b |-> got.b, call |-> call, dest |-> dest]]
           ELSE /\ cli' = [cli EXCEPT ![t] = [pc |-> "connect", c |-> NULL, b |-> NULL,
                                             call |-> call, dest |-> dest]]
                /\ UNCHANGED node
    /\ UNCHANGED <<rt, srv>>

\* csp_conn_allocate takes a slot: from here on the router sees it open.
ClientAllocate(t) ==
    /\ ClientStep(t, "connect")
    /\ LET c == NextClosed(node)
       IN  IF c = NULL
           THEN /\ Becomes(csp_buffer_free(node, cli[t].b))
                /\ cli' = [cli EXCEPT ![t].pc = "failed", ![t].b = NULL]
           ELSE /\ Becomes(csp_conn_allocate(node, c))
                /\ cli' = [cli EXCEPT ![t].pc = "new", ![t].c = c]
    /\ UNCHANGED <<rt, srv>>

ClientNew(t) ==
    /\ ClientStep(t, "new")
    /\ \E g \in Garbage :
         LET k == cli[t].call
         IN  Becomes(csp_conn_new(node, cli[t].c,
                                  ConnectIdin(k.prio, cli[t].dest, k.dport, k.flags, g),
                                  ConnectIdout(k.prio, cli[t].dest, k.dport, k.flags, g), "client"))
    /\ GoTo(t, "ports")
    /\ UNCHANGED <<rt, srv>>

\* CSP_O_CRC32 and CSP_O_HMAC are the options that require them of a reply.
Required(flags) == {CASE f = "CRC32" -> "CRC32REQ" [] f = "HMAC" -> "HMACREQ" : f \in flags}

ClientPorts(t) ==
    /\ ClientStep(t, "ports")
    /\ Becomes(csp_connect(node, cli[t].c, Required(cli[t].call.flags)))
    /\ GoTo(t, "send")
    /\ UNCHANGED <<rt, srv>>

\* csp_send: the probe, then out along the identifier it has left.
csp_send(n, c, b, txok) ==
    LET m == [n EXCEPT !.conn[c].idout = Probed(n.mut, "send", @)]
    IN  IF n.conn[c].state # "open" THEN csp_buffer_free(m, b)
        ELSE csp_send_direct(m, m.conn[c].idout, b, NoIface, txok)

\* Where a call goes on after it has sent.
AfterSend(in) == IF in = 0 THEN "close" ELSE "call_read"

\* The request; a transaction asks for a buffer that holds the reply as well.  A
\* client that sends data and finds no buffer ends, its connection open.
ClientSend(t, txok) ==
    /\ ClientStep(t, "send")
    /\ LET k    == cli[t].call
           size == IF k.in > k.out THEN k.in ELSE k.out
           got  == IF k.early THEN [n |-> node, b |-> cli[t].b] ELSE csp_buffer_get(node, size)
           full == [got.n EXCEPT !.buf[got.b] = Buffer(Packet(NoId, k.data, k.out), 1)]
       IN  IF got.b = NULL
           THEN GoTo(t, IF k.dport = ServerPort THEN "failed" ELSE "close") /\ UNCHANGED node
           ELSE /\ Becomes(csp_send(full, cli[t].c, got.b, txok))
                /\ cli' = [cli EXCEPT ![t].pc = AfterSend(k.in), ![t].b = NULL]
    /\ UNCHANGED <<rt, srv>>

ClientCallRead(t) ==
    /\ ClientStep(t, "call_read")
    /\ Becomes(CallRead(node, cli[t].c))
    /\ GoTo(t, "read")
    /\ UNCHANGED <<rt, srv>>

\* The reply is looked at and freed; csp_ps reads on.
ClientRead(t) ==
    /\ ClientStep(t, "read") /\ node.conn[cli[t].c].rx # <<>>
    /\ LET got == csp_read(node, cli[t].c)
       IN  Becomes(csp_buffer_free(got.n, got.b))
    /\ GoTo(t, IF cli[t].call.all THEN "call_read" ELSE "close")
    /\ UNCHANGED <<rt, srv>>

ClientTimeout(t) ==
    /\ ClientStep(t, "read") /\ node.conn[cli[t].c].rx = <<>>
    /\ GoTo(t, "close")
    /\ UNCHANGED <<node, rt, srv>>

ClientClose(t) ==
    /\ ClientStep(t, "close")
    /\ Becomes(csp_close(node, cli[t].c))
    /\ cli' = [cli EXCEPT ![t].pc = "idle", ![t].c = NULL]
    /\ UNCHANGED <<rt, srv>>

-----------------------------------------------------------------------------
(* Where the packets are.                                                     *)

\* The queues that hold packets, and what is in them.
QueueNames ==
    {<<"qfifo", 0>>, <<"promisc", 0>>} \cup {<<"rx", c>> : c \in ConnSlots}
    \cup {<<"sock", s>> : s \in {k \in DOMAIN Sockets : "CONN_LESS" \in Sockets[k]}}

Queued(n) ==
    [q \in QueueNames |->
        CASE q[1] = "qfifo"   -> [k \in 1 .. Len(n.qfifo) |-> n.qfifo[k].b]
          [] q[1] = "promisc" -> n.promisc.q
          [] q[1] = "rx"      -> n.conn[q[2]].rx
          [] q[1] = "sock"    -> n.sock[q[2]].q]

\* The places of a queue that have a packet, and everyone who has it: the pool, a
\* place in a queue, a task.
PlacesIn(q, b) == {<<q[1], q[2], k>> : k \in {j \in DOMAIN Queued(node)[q] : Queued(node)[q][j] = b}}

Owner(has, name) == IF has THEN {<<name, 0, 0>>} ELSE {}

Owners(b) ==
    Owner(b \in node.free, "pool") \cup Owner(rt.b = b, "router") \cup Owner(srv.b = b, "server")
    \cup {<<"client", t, 0>> : t \in {u \in Clients : cli[u].b = b}}
    \cup UNION {PlacesIn(q, b) : q \in QueueNames}

\* Every buffer of the pool is free, or in exactly one queue, or in the hands of
\* exactly one task: no path through the router, the services or a call loses a
\* packet, frees it twice or leaves it to two owners.
BuffersOwned ==
    ~node.crash =>
        /\ \A b \in Buffers : Cardinality(Owners(b)) = 1
        /\ node.free = {b \in Buffers : node.buf[b].ref = 0}
        /\ \A q \in QueueNames : Range(Queued(node)[q]) \subseteq Buffers \cup {NULL}
=============================================================================
