-------------------------------- MODULE Rdp ---------------------------------
(***************************************************************************)
(* A client and a server that talk RDP over a network which loses,         *)
(* reorders and duplicates packets.  Each node has a connection slot       *)
(* (RdpConn), a router task that loops through csp_route_work, and a user  *)
(* task that connects or accepts, sends, reads and closes.  A user task    *)
(* sleeps on the semaphore tx_wait while it connects or while the transmit *)
(* window is full; the other steps of a task are calls, each one atomic    *)
(* between two such waits.                                                 *)
(***************************************************************************)
EXTENDS RdpConn

CONSTANTS
    Iss,          \* initial sequence numbers rand_r may give (subset of Seqnr)
    Senders,      \* nodes whose user task calls csp_send
    Closers,      \* nodes whose user task calls csp_close
    MaxConnects,  \* bound on the calls of csp_connect
    MaxSend,      \* bound on the packets a user task sends
    NetCap,       \* packets on their way to a node, more are lost
    Duplicating,  \* the network may deliver a packet more than once
    Expires,      \* conn_timeout may expire (10 s by default, longer than a run)
    MayFail       \* buffer allocation and the socket queue may fail

Client == "client"
Server == "server"
Node == {Client, Server}
Peer(n) == IF n = Client THEN Server ELSE Client

ASSUME IssAssumption    == Iss \subseteq Seqnr /\ Iss # {}
ASSUME NodeAssumption   == Senders \subseteq Node /\ Closers \subseteq Node
ASSUME BoundAssumption  == {MaxConnects, MaxSend, NetCap} \subseteq Nat
ASSUME ChoiceAssumption == {Duplicating, Expires, MayFail} \subseteq BOOLEAN

VARIABLES
    conn,      \* conn[n]: the connection slot of node n
    user,      \* user[n]: where the user task of n is
    router,    \* router[n]: the next step of csp_route_work at n
    net,       \* net[n]: the packets on their way to n
    sent,      \* sent[n]: number of packets the user task of n has sent
    connects   \* number of calls of csp_connect

vars == <<conn, user, router, net, sent, connects>>

\* idle: holds no connection.  connecting, retrying: in csp_rdp_connect, with
\* and without a retry left.  ready: holds the connection.  sending: in
\* csp_rdp_send, waiting for the window to open.
UserState == {"idle", "connecting", "retrying", "ready", "sending"}

\* Whether conn_timeout has passed
Late == IF Expires THEN BOOLEAN ELSE {FALSE}

\* Outcomes of allocations and of the socket queue
Outcome == IF MayFail THEN BOOLEAN ELSE {TRUE}

Init ==
    /\ \E nr \in Iss : conn = [n \in Node |-> csp_conn_init(nr)]
    /\ user = [n \in Node |-> "idle"]
    /\ router = [n \in Node |-> "timeouts"]
    /\ net = [n \in Node |-> {}]
    /\ sent = [n \in Node |-> 0]
    /\ connects = 0

\* What the network to a node holds when more packets are sent to it: what is too
\* much is lost, the older packets first.
Carry(carried, out) ==
    IF out = {} \/ Cardinality(carried \cup out) <= NetCap THEN carried \cup out ELSE out

\* The slot of n becomes c and what c sends is on its way; the packets in
\* consumed are no longer.
Update(n, c, consumed) ==
    /\ conn' = [conn EXCEPT ![n] = [c EXCEPT !.out = {}]]
    /\ net' = [net EXCEPT ![n] = @ \ consumed, ![Peer(n)] = Carry(@, c.out)]

-----------------------------------------------------------------------------
(* The user task *)

\* csp_connect with a free slot, up to the wait for the SYN/ACK
Connect(iss, mem) ==
    LET c == StartSyn(csp_conn_new(conn[Client], FALSE), iss, mem)
    IN  /\ user[Client] = "idle"
        /\ ~conn[Client].open
        /\ connects < MaxConnects
        /\ connects' = connects + 1
        /\ Update(Client, IF mem THEN c ELSE ConnectError(c, mem), {})
        /\ user' = [user EXCEPT ![Client] = IF mem THEN "connecting" ELSE @]
        /\ UNCHANGED <<router, sent>>

\* csp_bin_sem_wait of csp_rdp_connect returns CSP_SEMAPHORE_OK.
ConnectWake(iss, mem) ==
    LET c == [conn[Client] EXCEPT !.tx_wait = FALSE]
        retry == StartSyn(csp_rdp_queue_flush(c), iss, mem)
    IN  /\ user[Client] \in {"connecting", "retrying"}
        /\ conn[Client].tx_wait
        /\ \/ /\ c.state = "OPEN"
              /\ Update(Client, c, {})
              /\ user' = [user EXCEPT ![Client] = "ready"]
           \/ /\ c.state = "SYN_SENT" /\ user[Client] = "connecting"
              /\ Update(Client, IF mem THEN retry ELSE ConnectError(retry, mem), {})
              /\ user' = [user EXCEPT ![Client] = IF mem THEN "retrying" ELSE "idle"]
           \/ /\ c.state # "OPEN"
              /\ c.state = "SYN_SENT" => user[Client] = "retrying"
              /\ Update(Client, ConnectError(c, mem), {})
              /\ user' = [user EXCEPT ![Client] = "idle"]
        /\ UNCHANGED <<router, sent, connects>>

\* csp_bin_sem_wait of csp_rdp_connect times out.
ConnectTimeout(mem) ==
    /\ Expires
    /\ user[Client] \in {"connecting", "retrying"}
    /\ ~conn[Client].tx_wait
    /\ Update(Client, ConnectError(conn[Client], mem), {})
    /\ user' = [user EXCEPT ![Client] = "idle"]
    /\ UNCHANGED <<router, sent, connects>>

\* csp_accept
Accept ==
    /\ user[Server] = "idle"
    /\ conn[Server].backlog
    /\ Update(Server, [conn[Server] EXCEPT !.backlog = FALSE], {})
    /\ user' = [user EXCEPT ![Server] = "ready"]
    /\ UNCHANGED <<router, sent, connects>>

\* csp_rdp_send past its wait loop, with slot c.  Without a buffer for the copy
\* that is kept for retransmission nothing is sent (CSP_ERR_NOMEM).
FinishSend(n, c, mem) ==
    /\ Update(n, IF mem THEN Transmit(c, sent[n] + 1) ELSE c, {})
    /\ sent' = [sent EXCEPT ![n] = IF mem THEN @ + 1 ELSE @]
    /\ user' = [user EXCEPT ![n] = "ready"]

\* csp_send on an open connection (on another one it drops the packet)
Send(n, mem) ==
    /\ user[n] = "ready" /\ n \in Senders /\ sent[n] < MaxSend
    /\ conn[n].state = "OPEN"
    /\ \/ csp_rdp_is_conn_ready_for_tx(conn[n]) /\ FinishSend(n, conn[n], mem)
       \/ /\ ~csp_rdp_is_conn_ready_for_tx(conn[n])
          /\ user' = [user EXCEPT ![n] = "sending"]
          /\ UNCHANGED <<conn, net, sent>>
    /\ UNCHANGED <<router, connects>>

\* csp_bin_sem_wait of csp_rdp_send returns CSP_SEMAPHORE_OK: the loop tests
\* again, and the call ends with the transmission or with CSP_ERR_RESET.
SendWake(n, mem) ==
    LET c == [conn[n] EXCEPT !.tx_wait = FALSE]
    IN  /\ user[n] = "sending"
        /\ conn[n].tx_wait
        /\ \/ c.state = "OPEN" /\ csp_rdp_is_conn_ready_for_tx(c) /\ FinishSend(n, c, mem)
           \/ /\ c.state = "OPEN" => ~csp_rdp_is_conn_ready_for_tx(c)
              /\ Update(n, c, {})
              /\ user' = [user EXCEPT ![n] = IF c.state = "OPEN" THEN @ ELSE "ready"]
              /\ UNCHANGED sent
        /\ UNCHANGED <<router, connects>>

\* csp_bin_sem_wait of csp_rdp_send times out: CSP_ERR_TIMEDOUT
SendTimeout(n) ==
    /\ Expires
    /\ user[n] = "sending"
    /\ ~conn[n].tx_wait
    /\ user' = [user EXCEPT ![n] = "ready"]
    /\ UNCHANGED <<conn, router, net, sent, connects>>

Read(n, due, mem) ==
    /\ user[n] = "ready"
    /\ conn[n].open /\ conn[n].rx_queue # <<>>
    /\ Update(n, csp_read(conn[n], due, mem), {})
    /\ UNCHANGED <<user, router, sent, connects>>

\* csp_close
Close(n, mem) ==
    /\ user[n] = "ready" /\ n \in Closers
    /\ Update(n, csp_conn_close(conn[n], {"USERSPACE"}, mem), {})
    /\ user' = [user EXCEPT ![n] = "idle"]
    /\ UNCHANGED <<router, sent, connects>>

-----------------------------------------------------------------------------
(* The router task: csp_conn_check_timeouts, then one packet *)

CheckTimeouts(n, late, expired, due, mem) ==
    /\ router[n] = "timeouts"
    /\ router' = [router EXCEPT ![n] = "read"]
    /\ Update(n, IF conn[n].open
                 THEN csp_rdp_check_timeouts(conn[n], late, expired, due, mem)
                 ELSE conn[n], {})
    /\ UNCHANGED <<user, sent, connects>>

\* csp_route_work on a packet for this node.  Without a connection the server
\* opens one for its socket; the client's port has no socket, so the packet is
\* dropped there.
csp_route_work(n, p, iss, due, room, mem) ==
    IF conn[n].open
    THEN csp_rdp_new_packet(conn[n], p, iss, due, room, mem)
    ELSE IF n = Server
    THEN csp_rdp_new_packet(csp_conn_new(conn[n], TRUE), p, iss, due, room, mem)
    ELSE conn[n]

Receive(n, p, iss, due, room, mem) ==
    /\ router[n] = "read"
    /\ router' = [router EXCEPT ![n] = "timeouts"]
    /\ p \in net[n]
    /\ \E consumed \in IF Duplicating THEN {{p}, {}} ELSE {{p}} :
         Update(n, csp_route_work(n, p, iss, due, room, mem), consumed)
    /\ UNCHANGED <<user, sent, connects>>

\* csp_qfifo_read times out.
ReadTimeout(n) ==
    /\ router[n] = "read"
    /\ router' = [router EXCEPT ![n] = "timeouts"]
    /\ UNCHANGED <<conn, user, net, sent, connects>>

\* The network loses a packet.
Lose(n, p) ==
    /\ p \in net[n]
    /\ net' = [net EXCEPT ![n] = @ \ {p}]
    /\ UNCHANGED <<conn, user, router, sent, connects>>

-----------------------------------------------------------------------------
TxSeqs(c) == {e.seq_nr : e \in c.tx}

UserNext ==
    \/ \E iss \in Iss, mem \in Outcome : Connect(iss, mem) \/ ConnectWake(iss, mem)
    \/ \E mem \in Outcome : ConnectTimeout(mem)
    \/ Accept
    \/ \E n \in Node, mem \in Outcome : Send(n, mem) \/ SendWake(n, mem)
    \/ \E n \in Node : SendTimeout(n)
    \/ \E n \in Node, due \in BOOLEAN, mem \in Outcome : Read(n, due, mem)
    \/ \E n \in Node, mem \in Outcome : Close(n, mem)

RouterNext ==
    \/ \E n \in Node, late \in Late, due \in BOOLEAN, mem \in Outcome :
         \E expired \in SUBSET TxSeqs(conn[n]) : CheckTimeouts(n, late, expired, due, mem)
    \/ \E n \in Node, iss \in Iss, due \in BOOLEAN, room, mem \in Outcome :
         \E p \in net[n] : Receive(n, p, iss, due, room, mem)
    \/ \E n \in Node : ReadTimeout(n)

NetNext == \E n \in Node : \E p \in net[n] : Lose(n, p)

Next == UserNext \/ RouterNext \/ NetNext

Spec == Init /\ [][Next]_vars
-----------------------------------------------------------------------------
(* Invariants *)

\* Every variable keeps its type.
TypeOK ==
    /\ conn \in [Node -> Conn]
    /\ user \in [Node -> UserState]
    /\ router \in [Node -> {"timeouts", "read"}]
    /\ net \in [Node -> SUBSET Packet]
    /\ sent \in [Node -> Nat]
    /\ connects \in Nat

\* A user task, or the socket it will accept from, holds the handle of the slot.
HandleOut(n) == user[n] # "idle" \/ conn[n].backlog

\* CHANGELOG 1.6: "Ensure connection is closed from both userspace and
\* protocol, before closing completely".  While userspace holds a handle (also
\* when it is still queued on the socket) the router never gives the slot back:
\* csp_conn_close waits for CSP_RDP_CLOSED_BY_USERSPACE whatever packets,
\* resets and timeouts come, and no second user closes it.
HandleSafety ==
    \A n \in Node : HandleOut(n) => /\ conn[n].open
                                    /\ conn[n].state # "CLOSED"
                                    /\ "USERSPACE" \notin conn[n].closed_by

\* No slot leaks: an open slot without a handle in userspace is either still the
\* router's (dest_socket, closed by csp_rdp_check_timeouts when it gets old) or
\* waits in CLOSE_WAIT with only the protocol left to close it.
SlotAccounted ==
    \A n \in Node : conn[n].open /\ ~HandleOut(n) =>
        \/ conn[n].dest_socket
        \/ conn[n].state = "CLOSE_WAIT" /\ "USERSPACE" \in conn[n].closed_by

\* A slot given back to the pool is clean: csp_conn_allocate can hand it out,
\* and the next connection starts in RDP_CLOSED with no packet of this one in
\* the retransmission and reordering queues.
FreeSlotClean ==
    \A n \in Node : ~conn[n].open =>
        /\ conn[n].state = "CLOSED" /\ conn[n].closed_by = {}
        /\ conn[n].tx = {} /\ conn[n].rx = {}

\* Where the handle of slot c is when its user task is at u
Owned(u, c) ==
    \/ /\ u = "idle"
       /\ \/ SlotFree(c) \/ SlotPending(c) \/ SlotClosing(c)
          \/ SlotHeld(c) /\ c.backlog
    \/ u # "idle" /\ SlotHeld(c) /\ ~c.backlog

\* The protocol of csp_conn_close, csp_rdp_close and label discard_close in one
\* invariant: whichever of user task, router and timeouts closes first, a slot is
\* in one of four situations, and a user task that is not idle has the handle of
\* its slot to itself.  It implies the three invariants above.
Ownership == \A n \in Node : Owned(user[n], conn[n])
-----------------------------------------------------------------------------
(* The data stream *)

Stream == INSTANCE ReliableStream WITH delivered <- [n \in Node |-> conn[n].delivered]

\* doc/mtu.md:53 promises "retransmission and orderly delivery".  The endpoints
\* implement a reliable stream in both directions although the network loses,
\* duplicates and reorders packets, acknowledgements are delayed and the
\* sequence numbers wrap around: csp_rdp_new_packet and csp_rdp_rx_queue_flush
\* deliver each payload once and in order.
StreamSpec == Stream!Spec

\* n sends on an open connection that its peer has not closed.
Connected(n) == /\ conn[n].state = "OPEN"
                /\ conn[Peer(n)].state \in {"SYN_RCVD", "OPEN"}

\* The retransmission queue forgets nothing too early: a payload the peer has not
\* handed to its reader is in the sender's tx queue or in the peer's reordering
\* queue.  It is freed by csp_rdp_check_timeouts below snd_una and by
\* csp_rdp_flush_eack, and silently dropped by csp_rdp_queue_tx_add when the
\* queue of CSP_RDP_MAX_WINDOW * 2 is full: none of them may lose a payload.
Retained ==
    \A n \in Node : Connected(n) =>
        \A d \in Len(conn[Peer(n)].delivered) + 1 .. sent[n] :
            \/ \E e \in conn[n].tx : e.data = d
            \/ \E e \in conn[Peer(n)].rx : e.data = d

\* Flow control: whatever late, lost or reordered acknowledgements do to snd_una,
\* csp_rdp_is_conn_ready_for_tx never lets a sender run more than window_size
\* segments ahead of what its peer has received in sequence.
WindowRespected ==
    \A n \in Node : Connected(n) =>
        (conn[n].snd_nxt - 1 - conn[Peer(n)].rcv_cur) % Mod <= Window

\* doc/mtu.md:53, as an invariant: the payloads handed to a reader are 1, 2, 3...
InOrder ==
    \A n \in Node : \A i \in DOMAIN conn[n].delivered : conn[n].delivered[i] = i

-----------------------------------------------------------------------------
(* What comments of the code say of single steps *)

\* The router of n takes packet p off the network in this step.
Takes(n, p) == p \in net[n] /\ p \notin net'[n] /\ router[n] = "read" /\ router'[n] # "read"

\* csp_conn.h:42 calls snd_una "The sequence number of the oldest unacknowledged
\* segment": while a connection is open it never moves back to a segment that
\* was acknowledged before.
SndUnaMonotone ==
    [][\A n \in Node : conn[n].state = "OPEN" /\ conn'[n].state = "OPEN" =>
          ~csp_rdp_seq_before(conn'[n].snd_una, conn[n].snd_una)]_vars

\* csp_rdp.c:554 "Received RST in sequence, no more data incoming, reply with
\* RST": an open connection that gets the reset right after the last segment it
\* received is open no longer, wherever the sequence numbers are.
ResetInSequenceCloses ==
    [][\A n \in Node : \A p \in net[n] :
          /\ Takes(n, p) /\ "RST" \in p.flags
          /\ conn[n].state = "OPEN" /\ p.seq_nr = Plus(conn[n].rcv_cur, 1)
          => conn'[n].state # "OPEN"]_vars

\* csp_rdp.c:973 "wake up any pendng Tx": a user task that sleeps in
\* csp_rdp_connect or csp_rdp_send when the connection closes has its semaphore
\* posted, it does not sleep on until conn_timeout.
PendingTxWoken ==
    \A n \in Node : user[n] \in {"connecting", "retrying", "sending"}
                    /\ conn[n].state = "CLOSE_WAIT" => conn[n].tx_wait

-----------------------------------------------------------------------------
(* Liveness *)

\* The router task of a node keeps running csp_route_work: it always can take its
\* next step (csp_qfifo_read has a timeout), so it loops for ever.
RouterFairness(n) == []<>(router[n] = "read") /\ []<>(router[n] = "timeouts")

\* Time passes: again and again every timeout of a node has expired when its
\* router looks, and the buffers it needs then are there.
TimeFairness(n) ==
    []<><<CheckTimeouts(n, Expires, TxSeqs(conn[n]), TRUE, TRUE)>>_vars

\* The network is fair: if a packet with the client's newest payload is on its way
\* to the server again and again, copies of it are received again and again, and
\* so are copies of the server's newest acknowledgement at the client.
NewestData(p) == p.data = sent[Client] /\ p.data # NoData
NewestAck(p)  == "ACK" \in p.flags /\ p.ack_nr = conn[Server].rcv_cur
NetFairness ==
    /\ \/ <>[](\A p \in net[Server] : ~NewestData(p))
       \/ []<><<\E p \in net[Server] : NewestData(p) /\ Takes(Server, p)>>_vars
    /\ \/ <>[](\A p \in net[Client] : ~NewestAck(p))
       \/ []<><<\E p \in net[Client] : NewestAck(p) /\ Takes(Client, p)>>_vars

\* A task that is woken runs, and the application at the server accepts and reads.
UserFairness ==
    /\ WF_vars(\E iss \in Iss : ConnectWake(iss, TRUE))
    /\ WF_vars(SendWake(Client, TRUE))
    /\ WF_vars(Accept)
    /\ WF_vars(\E due \in BOOLEAN : Read(Server, due, TRUE))

DeliverySpec ==
    /\ Spec
    /\ \A n \in Node : RouterFairness(n) /\ TimeFairness(n)
    /\ UserFairness
    /\ NetFairness

\* doc/protocolstack.md:116 "Retransmission": a payload the client has sent is
\* handed to the server's reader in the end, whatever copies of it and of its
\* acknowledgements the network loses.
Delivered ==
    \A d \in 1 .. MaxSend :
        sent[Client] = d ~> Len(conn[Server].delivered) >= d

\* doc/protocolstack.md:113 "Flow Control": a sender that waits for the window to
\* open does not wait for ever, csp_rdp_check_timeouts posts tx_wait in the end.
SenderUnblocked == user[Client] = "sending" ~> user[Client] # "sending"

ReclaimSpec == Spec /\ \A n \in Node : RouterFairness(n) /\ TimeFairness(n)

\* A slot whose user has closed it, or that no user ever saw, goes back to the
\* pool: csp_rdp_check_timeouts ends CLOSE_WAIT and lost connections even if the
\* peer is silent, so that the CSP_CONN_MAX slots do not run out.
SlotReclaimed ==
    \A n \in Node : conn[n].open /\ ~HandleOut(n) ~> ~conn[n].open \/ HandleOut(n)
=============================================================================
