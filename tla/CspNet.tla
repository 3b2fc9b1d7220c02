------------------------------- MODULE CspNet -------------------------------
(* A node between two networks: drivers that deliver packets on its           *)
(* interfaces, good, corrupt and repeated ones; the router, or the bridge in   *)
(* its place; a server, clients, a task that reads a connection-less socket    *)
(* and one that reads the promiscuous queue.  Any task may be slow and any     *)
(* wait may end early.                                                         *)
EXTENDS CspTasks

CONSTANT Scenes      \* what may happen to the node: records of
                      \*   traffic  what may arrive: [i, p], a packet on an interface
                      \*   calls    what clients ask for: [call, dest]
                      \*   bridge   the pair of csp_bridge_set_interfaces, or <<>>
                      \*   promisc  whether a task has enabled promiscuous mode
                      \*   arrivals, requests, time   how many of them, and how
                      \*            long it lasts (bounds)

\* The application has a socket with connections and one without; the ports of the
\* services are among those that can be bound; nothing lasts until the clock wraps.
ASSUME NetAssumption ==
    /\ DOMAIN Sockets = {1, 2} /\ "CONN_LESS" \notin Sockets[1] /\ "CONN_LESS" \in Sockets[2]
    /\ PortMaxBind \in Nat /\ PortMaxBind > CSP_UPTIME /\ Garbage \subseteq Nat
    /\ \A s \in Scenes :
         /\ s.time \in 0 .. ClockMod - 1
         /\ \A x \in s.traffic : x.p.id \in [pri : Nat, src : Nat, dst : Nat, dport : Nat, sport : Nat,
                                             flags : SUBSET STRING]
         /\ \A x \in s.calls : x.call.dport \in Nat /\ x.call.early \in BOOLEAN

VARIABLES scene, arrivals, calls,
          accepted,      \* history: the last packets that passed the search for duplicates
          dropped,       \* history: the packet the step dropped as a duplicate
          tainted,       \* history: slots that can get a packet of an earlier user
          shared         \* history: slots matched before their client had filled them in

bridge == scene.bridge
netvars == <<scene, arrivals, calls, accepted, dropped, tainted, shared>>
vars == <<taskvars, netvars>>

\* The application binds the service handler to the port of the ping, socket 1
\* to any other port and, behind the service ports, a connection-less socket.
ConnlessPort == PortMaxBind
Started ==
    LET n == csp_bind_callback(csp_bind(csp_init, 2, ConnlessPort), CSP_PING)
    IN  csp_listen(n, 2)

Init ==
    /\ scene \in Scenes
    /\ node = [(IF scene.promisc THEN csp_promisc_enable(Started) ELSE Started) EXCEPT
                 !.rtable = csp_rtable_set(@, CmpRoute.addr, CmpRoute.mask, CmpRoute.i, CmpRoute.via)]
    /\ rt = Idle /\ srv = [Idle EXCEPT !.pc = "start"]
    /\ cli = [t \in Clients |-> [pc |-> "idle", c |-> NULL, b |-> NULL, call |-> csp_ping, dest |-> 0]]
    /\ arrivals = 0 /\ calls = 0 /\ accepted = <<>> /\ dropped = {} /\ tainted = {} /\ shared = {}

\* The interrupt of a driver: a buffer, the packet, the router's input queue.
Receive ==
    /\ arrivals < scene.arrivals /\ ~node.crash
    /\ \E x \in scene.traffic :
         LET got == csp_buffer_get_isr(node, x.p.len)
         IN  Becomes(IF got.b = NULL THEN node
                     ELSE csp_qfifo_write_isr([got.n EXCEPT !.buf[got.b] = Buffer(x.p, 1)],
                                              got.b, x.i))
    /\ arrivals' = arrivals + 1
    /\ UNCHANGED <<rt, srv, cli, scene, calls, accepted, dropped, tainted, shared>>

\* A task that closes an RDP connection wakes the router.
WakeUp ==
    /\ scene.promisc /\ arrivals < scene.arrivals /\ ~node.crash
    /\ Becomes(csp_qfifo_wake_up(node))
    /\ arrivals' = arrivals + 1
    /\ UNCHANGED <<rt, srv, cli, scene, calls, accepted, dropped, tainted, shared>>

Tick ==
    /\ node.now < scene.time
    /\ Becomes([node EXCEPT !.now = @ + 1])
    /\ UNCHANGED <<rt, srv, cli, netvars>>

\* As much of the history as the ring remembers, and one more.
LastOf(s) == SubSeq(s, IF Len(s) > DedupCount + 1 THEN 2 ELSE 1, Len(s))

\* What the search for duplicates decided about the packet taken, if it was asked.
Noted(asked, duplicate) ==
    LET x == [crc |-> Crc(Pkt), at |-> node.now]
    IN  /\ accepted' = IF asked /\ ~duplicate THEN LastOf(Append(accepted, x)) ELSE accepted
        /\ dropped' = IF asked /\ duplicate THEN {x} ELSE {}

\* The router matches a slot that a client has opened and not yet filled in.
MatchedEarly(t) == rt'.pc = "deliver" /\ cli[t].c = rt'.c /\ cli[t].pc \in {"new", "ports"}

RouterStep ==
    /\ bridge = <<>>
    /\ \E txok \in BOOLEAN : Router(txok)
    /\ Noted(Taking /\ DedupApplies, Duplicate)
    /\ shared' = shared \cup {cli[t].c : t \in {u \in Clients : MatchedEarly(u)}}
    /\ UNCHANGED <<scene, arrivals, calls, tainted>>

\* csp_bridge_work: to the opposing interface as it is.
csp_bridge_work(n, txok) ==
    LET in    == Head(n.qfifo)
        p     == n.buf[in.b]
        dest  == IF in.i = bridge[1] THEN bridge[2] ELSE bridge[1]
        n1    == csp_qfifo_read(n)
    IN  CASE in.b = NULL -> n1
          [] in.b # NULL /\ csp_dedup_is_duplicate(n, p) -> csp_buffer_free(n1, in.b)
          [] OTHER -> csp_send_direct_iface(csp_promisc_add(Remember(n1, p), in.b), p.id, in.b,
                                            dest, NoVia, FALSE, txok)

BridgeStep ==
    /\ bridge # <<>> /\ node.qfifo # <<>> /\ ~node.crash
    /\ \E txok \in BOOLEAN : Becomes(csp_bridge_work(node, txok))
    /\ Noted(Input.b # NULL, csp_dedup_is_duplicate(node, Pkt))
    /\ UNCHANGED <<rt, srv, cli, scene, arrivals, calls, tainted, shared>>

\* A wait of the server ends while the router may hold a packet for the slot.
Delivering(c) == IF rt.pc = "deliver" /\ rt.c = c THEN {c} ELSE {}

ServerStep ==
    /\ \E txok \in BOOLEAN : Server(txok)
    /\ tainted' = IF srv'.c = NULL THEN tainted \cup Delivering(srv.c) ELSE tainted
    /\ UNCHANGED <<scene, arrivals, calls, accepted, dropped, shared>>

ClientBegin ==
    /\ calls < scene.requests
    /\ \E t \in Clients, x \in scene.calls : ClientCall(t, x.call, x.dest)
    /\ calls' = calls + 1
    /\ UNCHANGED <<scene, arrivals, accepted, dropped, tainted, shared>>

ClientStepOn ==
    /\ \E t \in Clients :
         \/ ClientAllocate(t) \/ ClientNew(t) \/ ClientPorts(t) \/ ClientCallRead(t)
         \/ ClientRead(t) \/ (\E txok \in BOOLEAN : ClientSend(t, txok))
    /\ UNCHANGED netvars

\* The wait for an answer ends: it may still come.
ClientGivesUp ==
    /\ \E t \in Clients : ClientTimeout(t) /\ tainted' = tainted \cup {cli[t].c}
    /\ UNCHANGED <<scene, arrivals, calls, accepted, dropped, shared>>

\* csp_ping_noreply closes its connection with an answer under way.
ClientEnd ==
    /\ \E t \in Clients :
         /\ ClientClose(t)
         /\ tainted' = tainted \cup Delivering(cli[t].c)
                       \cup (IF cli[t].call.early THEN {cli[t].c} ELSE {})
    /\ UNCHANGED <<scene, arrivals, calls, accepted, dropped, shared>>

\* csp_recvfrom, and csp_promisc_read: the packet is looked at and freed.
csp_recvfrom(n) == csp_buffer_free([n EXCEPT !.sock[2].q = Tail(@)], Head(n.sock[2].q))

csp_promisc_read(n) == csp_buffer_free([n EXCEPT !.promisc.q = Tail(@)], Head(n.promisc.q))

RecvFrom ==
    /\ node.sock[2].q # <<>> /\ ~node.crash /\ Becomes(csp_recvfrom(node))
    /\ UNCHANGED <<rt, srv, cli, netvars>>

PromiscRead ==
    /\ node.promisc.q # <<>> /\ ~node.crash /\ Becomes(csp_promisc_read(node))
    /\ UNCHANGED <<rt, srv, cli, netvars>>

\* The monitoring task leaves; what is queued stays until it reads again.
PromiscDisable ==
    /\ node.promisc.on /\ ~node.crash /\ Becomes(csp_promisc_disable(node))
    /\ UNCHANGED <<rt, srv, cli, netvars>>

Next ==
    \/ Receive \/ WakeUp \/ Tick \/ RouterStep \/ BridgeStep \/ ServerStep \/ ClientBegin
    \/ ClientStepOn \/ ClientGivesUp \/ ClientEnd \/ RecvFrom \/ PromiscRead \/ PromiscDisable

Spec == Init /\ [][Next]_vars

-----------------------------------------------------------------------------
\* Types; in particular no queue grows past its length and no task frees a packet
\* that is free (csp_dbg_errno stays unset).
TypeOK ==
    /\ node.free \subseteq Buffers /\ node.errno = "none"
    /\ Len(node.qfifo) <= QfifoLen /\ Len(node.promisc.q) <= RxqueueLen
    /\ \A s \in DOMAIN node.sock : Len(node.sock[s].q) <= RxqueueLen
    /\ \A c \in ConnSlots : Len(node.conn[c].rx) <= RxqueueLen
    /\ node.ringin \in 0 .. DedupCount - 1 /\ node.now \in 0 .. ClockMod - 1

Count(P) == IF P THEN 1 ELSE 0

\* The connections of the table that are open are those some task will close: a
\* client or the server has it, or the router has it and its socket will get it,
\* or it waits to be accepted; exactly one of them.  Left out is a slot that the
\* router has matched while a client was opening it: the identifiers of its last
\* user are still there and so is the socket, if the router itself closed it, so
\* that the client's connection is offered to the server too.
ConnsOwned ==
    ~node.crash =>
        \A c \in ConnSlots \ shared :
            (Cardinality({t \in Clients : cli[t].c = c}) + Count(srv.c = c)
             + Count(rt.c = c /\ node.conn[c].dest # NULL /\ node.conn[c].type = "server")
             + Cardinality({k \in DOMAIN node.sock[1].q : node.sock[1].q[k] = c}))
            = Count(node.conn[c].state = "open")

\* What a client finds in its queue answers its own call.  Three races are left
\* out, and they are the only ones: an answer to an earlier call on the slot that
\* comes after its caller has given up, a packet that the router was about to
\* queue when the connection was closed, and a packet that it matches between
\* csp_conn_allocate and the end of csp_connect.
AnswersMine ==
    \A t \in Clients :
        cli[t].pc \in {"send", "call_read", "read"} /\ cli[t].c \notin tainted \cup shared =>
            \A b \in Range(node.conn[cli[t].c].rx) : Answers(cli[t].call, node.buf[b])

\* A packet whose checksum is wrong reaches no application: not the server, not
\* a client, not the reader of the connection-less socket.
OnlyVerified ==
    \A b \in Range(node.sock[2].q) \cup UNION {Range(node.conn[c].rx) : c \in ConnSlots}
             \cup ({srv.b} \ {NULL}) :
        node.buf[b].data # "noise" /\ node.buf[b].trl = <<>>

\* Of the copies of a packet that arrive within the window one is accepted, as
\* long as no more than the ring remembers come in between; and what is dropped
\* was accepted within the window before (src/csp_dedup.c:12).
DedupExact ==
    /\ \A j, k \in DOMAIN accepted :
         j < k /\ k - j <= DedupCount /\ accepted[j].crc = accepted[k].crc
            => accepted[k].at - accepted[j].at >= DedupWindow
    /\ \A d \in dropped : \E k \in DOMAIN accepted :
         accepted[k].crc = d.crc /\ d.at - accepted[k].at \in 0 .. DedupWindow - 1

\* Split horizon: a packet for a local network is not sent back into the network
\* it came from, by whatever interface, and a forwarded packet keeps its trailers.
SplitHorizon ==
    [][bridge = <<>> /\ Taking /\ srv' = srv /\ cli' = cli =>
         \A k \in DOMAIN node'.wire :
            LET w == node'.wire[k]
            IN  ~ToMe /\ w.via = NoVia =>
                  ~csp_iflist_is_within_subnet(Iface[w.i].addr, Input.i) /\ w.p.trl = Pkt.trl]_node
=============================================================================
