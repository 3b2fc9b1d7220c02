------------------------------ MODULE RdpProofs -----------------------------
(***************************************************************************)
(* Theorems about Rdp, for every sequence space, window, queue length and  *)
(* bound: its variables keep their types, and the router and the user task *)
(* never disagree about who owns a connection slot.                        *)
(***************************************************************************)
EXTENDS Rdp, RdpConnProofs

\* The inductive invariant.  Ownership is inductive on well-formed slots only.
IInv ==
    /\ TypeOK
    /\ \A n \in Node : IsFiniteSet(conn[n].tx)
    /\ Ownership

\* The constants of the two nodes
LEMMA NodeFacts == Client \in Node /\ Server \in Node /\ \A n \in Node : Peer(n) \in Node
BY DEF Client, Server, Node, Peer

\* Every slot of a state that satisfies the invariant is well formed.
LEMMA IInvSlot == ASSUME IInv, NEW n \in Node PROVE Slot(conn[n])
BY DEF IInv, TypeOK, Slot

\* Sending what is in field out does not change who owns the slot.
LEMMA SentOwned ==
    ASSUME NEW c, Slot(c), NEW u, Owned(u, c)
    PROVE  Slot([c EXCEPT !.out = {}]) /\ Owned(u, [c EXCEPT !.out = {}])
<1> DEFINE d == [c EXCEPT !.out = {}]
<1>1. d \in Conn BY DEF Slot, Conn
<1>2. SameOwner(c, d) /\ d.tx = c.tx /\ d.rx = c.rx BY DEF Slot, Conn, SameOwner
<1>3. Slot(d) BY <1>1, <1>2 DEF Slot
<1> HIDE DEF d
<1>4. Owned(u, d)
  BY <1>2, Zenon DEF Owned, SameOwner, SlotFree, SlotPending, SlotClosing, SlotHeld
<1> QED BY <1>3, <1>4 DEF d

\* A step that updates one slot preserves the invariant if the new slot is well
\* formed and owned.
LEMMA UpdateInv ==
    ASSUME IInv, NEW n \in Node, NEW c, Slot(c), NEW consumed, Update(n, c, consumed),
           user' \in [Node -> UserState], \A m \in Node \ {n} : user'[m] = user[m],
           Owned(user'[n], c),
           router' \in [Node -> {"timeouts", "read"}],
           sent' \in [Node -> Nat], connects' \in Nat
    PROVE  IInv'
<1> DEFINE d == [c EXCEPT !.out = {}]
<1>1. Slot(d) /\ Owned(user'[n], d) BY SentOwned
<1>2. conn' = [conn EXCEPT ![n] = d] BY DEF Update
<1>3. net' = [net EXCEPT ![n] = @ \ consumed, ![Peer(n)] = Carry(@, c.out)] BY DEF Update
<1> HIDE DEF d
<1>4. conn' \in [Node -> Conn] BY <1>1, <1>2 DEF IInv, TypeOK, Slot
<1>5. conn'[n] = d /\ \A m \in Node \ {n} : conn'[m] = conn[m] BY <1>2 DEF IInv, TypeOK
<1>6. \A m \in Node : IsFiniteSet(conn'[m].tx) BY <1>1, <1>5 DEF IInv, Slot
<1>7. \A m \in Node : Owned(user'[m], conn'[m]) BY <1>1, <1>5 DEF IInv, Ownership
<1>8. net' \in [Node -> SUBSET Packet]
  <2>1. c.out \in SUBSET Packet BY DEF Slot, Conn
  <2>2. \A carried \in SUBSET Packet : Carry(carried, c.out) \in SUBSET Packet
    BY <2>1 DEF Carry
  <2>3. [net EXCEPT ![n] = @ \ consumed] \in [Node -> SUBSET Packet] BY DEF IInv, TypeOK
  <2> QED BY <1>3, <2>2, <2>3, NodeFacts
<1> QED BY <1>4, <1>6, <1>7, <1>8 DEF IInv, TypeOK, Ownership

\* The invariant holds in the initial states.
LEMMA InitInv == Init => IInv
<1> SUFFICES ASSUME Init PROVE IInv OBVIOUS
<1>1. PICK nr \in Iss : conn = [n \in Node |-> csp_conn_init(nr)] BY DEF Init
<1>2. nr \in Seqnr BY IssAssumption
<1>3. Slot(csp_conn_init(nr)) BY <1>2, InitSlot
<1>4. SlotFree(csp_conn_init(nr)) BY DEF SlotFree, csp_conn_init
<1> QED BY <1>1, <1>3, <1>4 DEF Init, IInv, TypeOK, Ownership, Owned, Slot, UserState

\* A step that changes user task n only
LEMMA UserStep ==
    ASSUME IInv, NEW n \in Node, NEW v \in UserState, user' = [user EXCEPT ![n] = v]
    PROVE  /\ user' \in [Node -> UserState] /\ user'[n] = v
           /\ \A m \in Node \ {n} : user'[m] = user[m]
BY DEF IInv, TypeOK

\* A user task that is not idle has the handle.
LEMMA HandleHeld ==
    ASSUME IInv, NEW n \in Node, user[n] # "idle"
    PROVE  SlotHeld(conn[n]) /\ ~conn[n].backlog
BY DEF IInv, Ownership, Owned

\* A quiet call leaves the handle where it is.
LEMMA QuietHeld ==
    ASSUME NEW c, NEW d, Quiet(c, d), SlotHeld(c), ~c.backlog
    PROVE  Slot(d) /\ SlotHeld(d) /\ ~d.backlog
BY Zenon DEF Quiet, SameOwner, SlotHeld

\* Taking the semaphore leaves the handle where it is.
LEMMA TakeHeld ==
    ASSUME NEW c, Slot(c), SlotHeld(c), ~c.backlog
    PROVE  LET d == [c EXCEPT !.tx_wait = FALSE]
           IN  Quiet(c, d) /\ Slot(d) /\ SlotHeld(d) /\ ~d.backlog
<1> DEFINE d == [c EXCEPT !.tx_wait = FALSE]
<1>1. Quiet(c, d) BY DEF Quiet, SameOwner, Slot, Conn
<1> HIDE DEF d
<1>2. Slot(d) /\ SlotHeld(d) /\ ~d.backlog BY <1>1, QuietHeld
<1> QED BY <1>1, <1>2 DEF d

\* csp_connect preserves the invariant.
LEMMA ConnectInv ==
    ASSUME IInv, NEW iss \in Iss, NEW mem \in BOOLEAN, Connect(iss, mem) PROVE IInv'
<1> DEFINE c == conn[Client]
           b == csp_conn_new(c, FALSE)
           s == StartSyn(b, iss, mem)
           r == IF mem THEN s ELSE ConnectError(s, mem)
           u == IF mem THEN "connecting" ELSE user[Client]
<1>1. Slot(c) /\ user[Client] = "idle" /\ ~c.open
  BY NodeFacts, IInvSlot DEF Connect
<1>2. SlotFree(c)
  BY <1>1, NodeFacts DEF IInv, Ownership, Owned, SlotPending, SlotClosing, SlotHeld
<1>3. Slot(b) /\ b.open /\ ~b.dest_socket /\ b.closed_by = {} /\ ~b.backlog
  <2>1. <<>> \in Seq(Data) BY EmptySeq
  <2> QED BY <1>1, <1>2, <2>1 DEF csp_conn_new, Slot, Conn, SlotFree
<1>4. iss \in Seqnr BY IssAssumption
<1> HIDE DEF b
<1>5. Slot(s) /\ SlotHeld(s) /\ ~s.backlog BY <1>3, <1>4, StartSynHeld
<1> HIDE DEF s
<1>6. ~mem => Slot(r) /\ (SlotFree(r) \/ SlotClosing(r)) BY <1>5, ErrorClose
<1>7. mem => Slot(r) /\ SlotHeld(r) /\ ~r.backlog BY <1>5
<1>8. Update(Client, r, {}) BY DEF Connect, r, s, b
<1> HIDE DEF r
<1>9. user' = [user EXCEPT ![Client] = u] BY DEF Connect
<1>10. u \in UserState BY <1>1 DEF UserState
<1>11. /\ user' \in [Node -> UserState] /\ user'[Client] = u
       /\ \A m \in Node \ {Client} : user'[m] = user[m]
  BY <1>9, <1>10, NodeFacts, UserStep
<1>12. Owned(u, r) /\ Slot(r) BY <1>1, <1>6, <1>7 DEF Owned
<1>13. router' = router /\ sent' = sent /\ connects' \in Nat
  BY DEF Connect, IInv, TypeOK
<1> HIDE DEF u
<1> QED BY <1>8, <1>11, <1>12, <1>13, NodeFacts, UpdateInv DEF IInv, TypeOK

\* The return of csp_bin_sem_wait in csp_rdp_connect preserves the invariant.
LEMMA ConnectWakeInv ==
    ASSUME IInv, NEW iss \in Iss, NEW mem \in BOOLEAN, ConnectWake(iss, mem) PROVE IInv'
<1> DEFINE c == [conn[Client] EXCEPT !.tx_wait = FALSE]
           f == csp_rdp_queue_flush(c)
           retry == StartSyn(f, iss, mem)
<1>1. user[Client] # "idle" BY DEF ConnectWake
<1>2. Slot(c) /\ SlotHeld(c) /\ ~c.backlog
  BY <1>1, NodeFacts, IInvSlot, HandleHeld, TakeHeld
<1>3. ASSUME NEW r, NEW u \in UserState, Update(Client, r, {}), Slot(r), Owned(u, r),
             user' = [user EXCEPT ![Client] = u]
      PROVE  IInv'
  <2>1. /\ user' \in [Node -> UserState] /\ user'[Client] = u
        /\ \A m \in Node \ {Client} : user'[m] = user[m]
    BY <1>3, NodeFacts, UserStep
  <2>2. router' = router /\ sent' = sent /\ connects' = connects BY DEF ConnectWake
  <2> QED BY <1>3, <2>1, <2>2, NodeFacts, UpdateInv DEF IInv, TypeOK
<1>4. iss \in Seqnr BY IssAssumption
<1>5. Slot(retry) /\ SlotHeld(retry) /\ ~retry.backlog
  <2> HIDE DEF c
  <2>1. Quiet(c, f) BY <1>2, QueueFlushOwner
  <2> HIDE DEF f
  <2>2. Slot(f) /\ SlotHeld(f) /\ ~f.backlog BY <1>2, <2>1, QuietHeld
  <2>3. f.open /\ ~f.dest_socket /\ "USERSPACE" \notin f.closed_by BY <2>2 DEF SlotHeld
  <2> QED BY <1>4, <2>2, <2>3, StartSynHeld
<1> DEFINE e == ConnectError(retry, mem)
           g == ConnectError(c, mem)
<1>6. Slot(e) /\ (SlotFree(e) \/ SlotClosing(e))
  <2> HIDE DEF retry
  <2> QED BY <1>5, ErrorClose
<1>7. Slot(g) /\ (SlotFree(g) \/ SlotClosing(g))
  <2> HIDE DEF c
  <2> QED BY <1>2, ErrorClose
<1>8. \/ Update(Client, c, {}) /\ user' = [user EXCEPT ![Client] = "ready"]
      \/ mem /\ Update(Client, retry, {}) /\ user' = [user EXCEPT ![Client] = "retrying"]
      \/ ~mem /\ Update(Client, e, {}) /\ user' = [user EXCEPT ![Client] = "idle"]
      \/ Update(Client, g, {}) /\ user' = [user EXCEPT ![Client] = "idle"]
  BY DEF ConnectWake
<1> HIDE DEF c, e, g, retry
<1>9. Owned("ready", c) /\ Owned("retrying", retry) /\ Owned("idle", e) /\ Owned("idle", g)
  BY <1>2, <1>5, <1>6, <1>7 DEF Owned
<1>10. {"ready", "retrying", "idle"} \subseteq UserState BY DEF UserState
<1> QED BY <1>2, <1>3, <1>5, <1>6, <1>7, <1>8, <1>9, <1>10

\* The timeout of csp_bin_sem_wait in csp_rdp_connect preserves the invariant.
LEMMA ConnectTimeoutInv ==
    ASSUME IInv, NEW mem \in BOOLEAN, ConnectTimeout(mem) PROVE IInv'
<1> DEFINE r == ConnectError(conn[Client], mem)
<1>1. user[Client] # "idle" /\ Update(Client, r, {}) BY DEF ConnectTimeout
<1>2. Slot(conn[Client]) /\ SlotHeld(conn[Client]) /\ ~conn[Client].backlog
  BY <1>1, NodeFacts, IInvSlot, HandleHeld
<1>3. Slot(r) /\ (SlotFree(r) \/ SlotClosing(r)) BY <1>2, ErrorClose
<1> HIDE DEF r
<1>4. Owned("idle", r) BY <1>3 DEF Owned
<1>5. /\ user' \in [Node -> UserState] /\ user'[Client] = "idle"
      /\ \A m \in Node \ {Client} : user'[m] = user[m]
  BY NodeFacts, UserStep DEF ConnectTimeout, UserState
<1>6. router' = router /\ sent' = sent /\ connects' = connects BY DEF ConnectTimeout
<1> QED BY <1>1, <1>3, <1>4, <1>5, <1>6, NodeFacts, UpdateInv DEF IInv, TypeOK

\* csp_accept preserves the invariant: it takes the handle from the socket.
LEMMA AcceptInv == ASSUME IInv, Accept PROVE IInv'
<1> DEFINE c == conn[Server]
           r == [c EXCEPT !.backlog = FALSE]
<1>1. user[Server] = "idle" /\ c.backlog /\ Update(Server, r, {}) BY DEF Accept
<1>2. Slot(c) BY NodeFacts, IInvSlot
<1>3. SlotHeld(c)
  BY <1>1, NodeFacts DEF IInv, Ownership, Owned, SlotFree, SlotPending, SlotClosing
<1>4. Slot(r) /\ SlotHeld(r) /\ ~r.backlog BY <1>2, <1>3 DEF Slot, Conn, SlotHeld
<1> HIDE DEF r
<1>5. Owned("ready", r) BY <1>4 DEF Owned
<1>6. /\ user' \in [Node -> UserState] /\ user'[Server] = "ready"
      /\ \A m \in Node \ {Server} : user'[m] = user[m]
  BY NodeFacts, UserStep DEF Accept, UserState
<1>7. router' = router /\ sent' = sent /\ connects' = connects BY DEF Accept
<1> QED BY <1>1, <1>4, <1>5, <1>6, <1>7, NodeFacts, UpdateInv DEF IInv, TypeOK

\* The end of csp_rdp_send preserves the invariant.
LEMMA FinishSendInv ==
    ASSUME IInv, NEW n \in Node, NEW c, NEW mem, Slot(c), SlotHeld(c), ~c.backlog,
           FinishSend(n, c, mem), router' = router, connects' = connects
    PROVE  IInv'
<1> DEFINE t == Transmit(c, sent[n] + 1)
           r == IF mem THEN t ELSE c
<1>1. sent[n] + 1 \in Data BY DEF IInv, TypeOK, Data
<1>2. Quiet(c, t) BY <1>1, TransmitQuiet
<1>3. Update(n, r, {}) BY DEF FinishSend
<1> HIDE DEF t
<1>4. Slot(r) /\ SlotHeld(r) /\ ~r.backlog
  <2>1. Slot(t) /\ SlotHeld(t) /\ ~t.backlog BY <1>2, QuietHeld
  <2> QED BY <2>1
<1> HIDE DEF r
<1>5. Owned("ready", r) BY <1>4 DEF Owned
<1>6. /\ user' \in [Node -> UserState] /\ user'[n] = "ready"
      /\ \A m \in Node \ {n} : user'[m] = user[m]
  BY UserStep DEF FinishSend, UserState
<1>7. sent' \in [Node -> Nat] BY DEF FinishSend, IInv, TypeOK
<1> QED BY <1>3, <1>4, <1>5, <1>6, <1>7, UpdateInv DEF IInv, TypeOK

\* A step of a user task that holds its handle before and after, and changes
\* nothing else, preserves the invariant.
LEMMA StillHeldInv ==
    ASSUME IInv, NEW n \in Node, NEW v \in UserState \ {"idle"}, user[n] # "idle",
           user' = [user EXCEPT ![n] = v],
           UNCHANGED <<conn, router, net, sent, connects>>
    PROVE  IInv'
<1>1. /\ user' \in [Node -> UserState] /\ user'[n] = v
      /\ \A m \in Node \ {n} : user'[m] = user[m]
  BY UserStep
<1>2. Owned(v, conn[n]) BY HandleHeld DEF Owned
<1>3. \A m \in Node : Owned(user'[m], conn[m])
  BY <1>1, <1>2 DEF IInv, Ownership
<1> QED BY <1>1, <1>3 DEF IInv, TypeOK, Ownership

\* csp_send preserves the invariant.
LEMMA SendInv == ASSUME IInv, NEW n \in Node, NEW mem, Send(n, mem) PROVE IInv'
<1>1. user[n] # "idle" BY DEF Send
<1>2. Slot(conn[n]) /\ SlotHeld(conn[n]) /\ ~conn[n].backlog
  BY <1>1, IInvSlot, HandleHeld
<1>3. CASE FinishSend(n, conn[n], mem) BY <1>2, <1>3, FinishSendInv DEF Send
<1>4. CASE user' = [user EXCEPT ![n] = "sending"] /\ UNCHANGED <<conn, net, sent>>
  BY <1>1, <1>4, StillHeldInv DEF Send, UserState
<1> QED BY <1>3, <1>4 DEF Send

\* The return of csp_bin_sem_wait in csp_rdp_send preserves the invariant.
LEMMA SendWakeInv ==
    ASSUME IInv, NEW n \in Node, NEW mem, SendWake(n, mem) PROVE IInv'
<1> DEFINE c == [conn[n] EXCEPT !.tx_wait = FALSE]
           u == IF c.state = "OPEN" THEN user[n] ELSE "ready"
<1>1. user[n] = "sending" BY DEF SendWake
<1>2. Slot(c) /\ SlotHeld(c) /\ ~c.backlog BY <1>1, IInvSlot, HandleHeld, TakeHeld
<1>3. CASE FinishSend(n, c, mem)
  <2>1. router' = router /\ connects' = connects BY DEF SendWake
  <2> HIDE DEF c
  <2> QED BY <1>2, <1>3, <2>1, FinishSendInv
<1>4. CASE Update(n, c, {}) /\ user' = [user EXCEPT ![n] = u] /\ UNCHANGED sent
  <2>1. router' = router /\ connects' = connects BY DEF SendWake
  <2> HIDE DEF c
  <2>2. u \in UserState \ {"idle"} BY <1>1 DEF UserState
  <2>3. Owned(u, c) BY <1>2, <2>2 DEF Owned
  <2> HIDE DEF u
  <2>4. /\ user' \in [Node -> UserState] /\ user'[n] = u
        /\ \A m \in Node \ {n} : user'[m] = user[m]
    BY <1>4, <2>2, UserStep
  <2> QED BY <1>2, <1>4, <2>1, <2>3, <2>4, UpdateInv DEF IInv, TypeOK
<1> QED BY <1>3, <1>4 DEF SendWake

\* The timeout of csp_bin_sem_wait in csp_rdp_send preserves the invariant.
LEMMA SendTimeoutInv == ASSUME IInv, NEW n \in Node, SendTimeout(n) PROVE IInv'
BY StillHeldInv DEF SendTimeout, UserState

\* csp_read preserves the invariant.
LEMMA ReadInv ==
    ASSUME IInv, NEW n \in Node, NEW due, NEW mem, Read(n, due, mem) PROVE IInv'
<1> DEFINE r == csp_read(conn[n], due, mem)
<1>1. user[n] # "idle" /\ conn[n].rx_queue # <<>> /\ Update(n, r, {}) BY DEF Read
<1>2. Slot(conn[n]) /\ SlotHeld(conn[n]) /\ ~conn[n].backlog
  BY <1>1, IInvSlot, HandleHeld
<1>3. Quiet(conn[n], r) BY <1>1, <1>2, ReadQuiet
<1> HIDE DEF r
<1>4. Slot(r) /\ SlotHeld(r) /\ ~r.backlog BY <1>2, <1>3, QuietHeld
<1>5. user' = user /\ router' = router /\ sent' = sent /\ connects' = connects BY DEF Read
<1>6. Owned(user'[n], r) BY <1>1, <1>4, <1>5 DEF Owned
<1> QED BY <1>1, <1>4, <1>5, <1>6, UpdateInv DEF IInv, TypeOK

\* csp_close preserves the invariant.
LEMMA CloseInv == ASSUME IInv, NEW n \in Node, NEW mem, Close(n, mem) PROVE IInv'
<1> DEFINE r == csp_conn_close(conn[n], {"USERSPACE"}, mem)
<1>1. user[n] # "idle" /\ Update(n, r, {}) BY DEF Close
<1>2. Slot(conn[n]) /\ SlotHeld(conn[n]) /\ ~conn[n].backlog
  BY <1>1, IInvSlot, HandleHeld
<1>3. Slot(r) /\ (SlotFree(r) \/ SlotClosing(r)) BY <1>2, UserClose
<1> HIDE DEF r
<1>4. Owned("idle", r) BY <1>3 DEF Owned
<1>5. /\ user' \in [Node -> UserState] /\ user'[n] = "idle"
      /\ \A m \in Node \ {n} : user'[m] = user[m]
  BY UserStep DEF Close, UserState
<1>6. router' = router /\ sent' = sent /\ connects' = connects BY DEF Close
<1> QED BY <1>1, <1>3, <1>4, <1>5, <1>6, UpdateInv DEF IInv, TypeOK

\* What the router does by the ownership rules leaves the user task its handle.
LEMMA StaysOwned ==
    ASSUME NEW u, NEW c, Owned(u, c), c.open, NEW r, Stays(c, r)
    PROVE  Owned(u, r) /\ Slot(r) /\ ~Fresh(c)
<1>1. ~SlotFree(c) BY DEF SlotFree
<1>2. CASE u = "idle" /\ SlotPending(c) BY <1>2 DEF Owned, Stays, SlotPending, Fresh
<1>3. CASE u = "idle" /\ SlotClosing(c) BY <1>3 DEF Owned, Stays, SlotClosing, Fresh
<1>4. CASE u = "idle" /\ SlotHeld(c) /\ c.backlog
  <2>1. SlotHeld(r) /\ r.backlog BY <1>4, Zenon DEF Stays
  <2> QED BY <1>4, <2>1 DEF Owned, Stays, SlotHeld, Fresh
<1>5. CASE u # "idle" /\ SlotHeld(c) /\ ~c.backlog
  <2>1. SlotHeld(r) /\ ~r.backlog BY <1>5, Zenon DEF Stays
  <2> QED BY <1>5, <2>1 DEF Owned, Stays, SlotHeld, Fresh
<1> QED BY <1>1, <1>2, <1>3, <1>4, <1>5 DEF Owned

\* A slot in use of a state that satisfies the invariant is not fresh.
LEMMA NotFresh == ASSUME NEW u, NEW c, Owned(u, c) PROVE ~Fresh(c)
BY DEF Owned, SlotFree, SlotPending, SlotClosing, SlotHeld, Fresh

\* csp_conn_check_timeouts preserves the invariant.
LEMMA CheckTimeoutsInv ==
    ASSUME IInv, NEW n \in Node, NEW late, NEW expired, NEW due, NEW mem,
           CheckTimeouts(n, late, expired, due, mem)
    PROVE  IInv'
<1> DEFINE c == conn[n]
           r == IF c.open THEN csp_rdp_check_timeouts(c, late, expired, due, mem) ELSE c
<1>1. Slot(c) /\ Owned(user[n], c) BY IInvSlot DEF IInv, Ownership
<1>2. Update(n, r, {}) /\ user' = user /\ sent' = sent /\ connects' = connects
  BY DEF CheckTimeouts
<1>3. router' \in [Node -> {"timeouts", "read"}] BY DEF CheckTimeouts, IInv, TypeOK
<1>4. CASE c.open
  <2>1. Stays(c, csp_rdp_check_timeouts(c, late, expired, due, mem))
    BY <1>1, <1>4, NotFresh, TimeoutsStay
  <2>2. Stays(c, r) BY <2>1, <1>4
  <2> HIDE DEF r
  <2>3. Owned(user'[n], r) /\ Slot(r) BY <1>1, <1>2, <1>4, <2>2, StaysOwned
  <2> QED BY <1>2, <1>3, <2>3, UpdateInv DEF IInv, TypeOK
<1>5. CASE ~c.open
  <2>1. r = c BY <1>5
  <2> HIDE DEF r
  <2>2. Owned(user'[n], r) /\ Slot(r) BY <1>1, <1>2, <2>1
  <2> QED BY <1>2, <1>3, <2>2, UpdateInv DEF IInv, TypeOK
<1> QED BY <1>4, <1>5

\* The slot csp_route_work leaves is well formed and owned.
LEMMA RouteWorkOwned ==
    ASSUME IInv, NEW n \in Node, NEW p \in Packet, NEW iss \in Seqnr,
           NEW due, NEW room, NEW mem
    PROVE  LET r == csp_route_work(n, p, iss, due, room, mem)
           IN  Slot(r) /\ Owned(user[n], r)
<1> DEFINE c == conn[n]
           f == csp_conn_new(c, TRUE)
           r == csp_route_work(n, p, iss, due, room, mem)
<1>1. Slot(c) /\ Owned(user[n], c) BY IInvSlot DEF IInv, Ownership
<1>2. CASE c.open
  <2>1. r = csp_rdp_new_packet(c, p, iss, due, room, mem) BY <1>2 DEF csp_route_work
  <2>2. Stays(c, r) BY <1>1, <1>2, <2>1, NewPacketStays
  <2> HIDE DEF r
  <2>3. Slot(r) /\ Owned(user[n], r) BY <1>1, <1>2, <2>2, StaysOwned
  <2> QED BY <2>3 DEF r
<1>3. CASE ~c.open /\ n = Server
  <2>1. user[n] = "idle" /\ SlotFree(c)
    BY <1>1, <1>3 DEF Owned, SlotPending, SlotClosing, SlotHeld
  <2>2. Slot(f) /\ Fresh(f) BY <1>1, <2>1, ConnNewFresh
  <2>3. r = csp_rdp_new_packet(f, p, iss, due, room, mem) BY <1>3 DEF csp_route_work
  <2> HIDE DEF f
  <2>4. f.open BY <2>2 DEF Fresh
  <2>5. Stays(f, r) BY <2>2, <2>3, <2>4, NewPacketStays
  <2> HIDE DEF r
  <2>6. Slot(r) /\ (SlotPending(r) \/ SlotFree(r)) BY <2>2, <2>5 DEF Stays
  <2> QED BY <2>1, <2>6 DEF Owned, r
<1>4. CASE ~c.open /\ n # Server
  <2>1. r = c BY <1>4 DEF csp_route_work
  <2> QED BY <1>1, <2>1
<1> QED BY <1>2, <1>3, <1>4

\* A packet preserves the invariant.
LEMMA ReceiveInv ==
    ASSUME IInv, NEW n \in Node, NEW p \in net[n], NEW iss \in Iss,
           NEW due, NEW room, NEW mem, Receive(n, p, iss, due, room, mem)
    PROVE  IInv'
<1> DEFINE r == csp_route_work(n, p, iss, due, room, mem)
<1>1. p \in Packet /\ iss \in Seqnr BY IssAssumption DEF IInv, TypeOK
<1>2. Slot(r) /\ Owned(user[n], r) BY <1>1, RouteWorkOwned
<1>3. PICK consumed : Update(n, r, consumed) BY DEF Receive
<1> HIDE DEF r
<1>4. user' = user /\ sent' = sent /\ connects' = connects BY DEF Receive
<1>5. router' \in [Node -> {"timeouts", "read"}] BY DEF Receive, IInv, TypeOK
<1> QED BY <1>2, <1>3, <1>4, <1>5, UpdateInv DEF IInv, TypeOK

\* A timeout of csp_qfifo_read, a lost packet and a stuttering step preserve the
\* invariant.
LEMMA OtherInv ==
    ASSUME IInv, \/ \E n \in Node : ReadTimeout(n)
                 \/ \E n \in Node : \E p \in net[n] : Lose(n, p)
                 \/ UNCHANGED vars
    PROVE  IInv'
<1>1. ASSUME NEW n \in Node, ReadTimeout(n) PROVE IInv'
  BY <1>1 DEF ReadTimeout, IInv, TypeOK, Ownership
<1>2. ASSUME NEW n \in Node, NEW p \in net[n], Lose(n, p) PROVE IInv'
  BY <1>2 DEF Lose, IInv, TypeOK, Ownership
<1>3. ASSUME UNCHANGED vars PROVE IInv'
  BY <1>3 DEF vars, IInv, TypeOK, Ownership
<1> QED BY <1>1, <1>2, <1>3

\* Every step preserves the invariant.
LEMMA NextInv == IInv /\ [Next]_vars => IInv'
<1> SUFFICES ASSUME IInv, [Next]_vars PROVE IInv' OBVIOUS
<1>1. Outcome \subseteq BOOLEAN BY ChoiceAssumption DEF Outcome
<1>2. ASSUME UserNext PROVE IInv'
  <2>1. ASSUME NEW iss \in Iss, NEW mem \in Outcome, Connect(iss, mem) PROVE IInv'
    BY <1>1, <2>1, ConnectInv
  <2>2. ASSUME NEW iss \in Iss, NEW mem \in Outcome, ConnectWake(iss, mem) PROVE IInv'
    BY <1>1, <2>2, ConnectWakeInv
  <2>3. ASSUME NEW mem \in Outcome, ConnectTimeout(mem) PROVE IInv'
    BY <1>1, <2>3, ConnectTimeoutInv
  <2> QED BY <1>2, <2>1, <2>2, <2>3, AcceptInv, SendInv, SendWakeInv, SendTimeoutInv,
             ReadInv, CloseInv DEF UserNext
<1>3. ASSUME RouterNext PROVE IInv'
  BY <1>3, CheckTimeoutsInv, ReceiveInv, OtherInv DEF RouterNext
<1> QED BY <1>2, <1>3, OtherInv DEF Next, NetNext

-----------------------------------------------------------------------------
\* Every behaviour of the two nodes keeps the types of all variables, for every
\* sequence space, window and queue length.
THEOREM TypeCorrect == Spec => []TypeOK
<1>1. IInv => TypeOK BY DEF IInv
<1> QED BY <1>1, InitInv, NextInv, PTL DEF Spec

\* The closing protocol of csp_conn.c and csp_rdp.c: whichever of user task,
\* router and timeouts closes first, every slot is free, the router's, held by
\* userspace or closing, and a busy user task has its handle to itself.
THEOREM OwnershipCorrect == Spec => []Ownership
<1>1. IInv => Ownership BY DEF IInv
<1> QED BY <1>1, InitInv, NextInv, PTL DEF Spec

\* The router never gives back a slot whose handle userspace has.
THEOREM HandlesAreSafe == Spec => []HandleSafety
<1>1. Ownership => HandleSafety
  BY DEF Ownership, HandleSafety, HandleOut, Owned, SlotFree, SlotPending, SlotClosing, SlotHeld
<1> QED BY <1>1, OwnershipCorrect, PTL

\* No slot leaks: an open slot without a handle is the router's or closing.
THEOREM SlotsAreAccounted == Spec => []SlotAccounted
<1>1. Ownership => SlotAccounted
  BY DEF Ownership, SlotAccounted, HandleOut, Owned, SlotFree, SlotPending, SlotClosing, SlotHeld
<1> QED BY <1>1, OwnershipCorrect, PTL

\* A slot in the pool holds nothing of the connection that used it before.
THEOREM FreeSlotsAreClean == Spec => []FreeSlotClean
<1>1. Ownership => FreeSlotClean
  BY DEF Ownership, FreeSlotClean, Owned, SlotFree, SlotPending, SlotClosing, SlotHeld
<1> QED BY <1>1, OwnershipCorrect, PTL
=============================================================================
