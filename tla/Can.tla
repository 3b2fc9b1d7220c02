-------------------------------- MODULE Can ---------------------------------
(***************************************************************************)
(* The CAN interface (src/interfaces/csp_if_can.c, csp_if_can_pbuf.c): a   *)
(* packet is cut into frames of eight bytes by csp_can1_tx (CFP 1) or      *)
(* csp_can2_tx (CFP 2) and put together by csp_can_rx of the node it is    *)
(* for.  Several tasks on several nodes send to one receiver; the bus      *)
(* keeps the frames of a task in order, interleaves the frames of several  *)
(* tasks, and may lose or repeat some.                                     *)
(*                                                                         *)
(* A frame is received when it is sent: the receiver does nothing between  *)
(* two frames, so that a delay makes no difference.  Bytes are counted and *)
(* not carried: data is a sequence of chunks that say which bytes of which *)
(* packet they are.                                                        *)
(***************************************************************************)
EXTENDS Naturals, Integers, SequencesExt, FiniteSetsExt

CONSTANTS Tasks,      \* the tasks that send
          NodeOf,     \* the node each runs on
          Lengths,    \* the lengths of the packets they send
          TxMtu,      \* iface->mtu of the senders: csp_buffer_data_size() - 8
          RxMtu,      \* the receiver's
          IdMod,      \* identifiers of packets: 2^10 in CFP 1, 2^2 in CFP 2
          CountMod,   \* numbers of fragments: 2^8 in CFP 1, 2^3 in CFP 2
          PoolSize,   \* buffers of the receiver
          FifoCap,    \* length of its input queue
          MaxPackets, \* bound: packets sent altogether
          MaxTime,    \* bound: time, in units of PBUF_TIMEOUT_MS / 2
          Bus,        \* what may happen to a frame: "lose", "twice"
          MayFail     \* whether the driver of a sender may fail

ASSUME BusAssumption == Bus \subseteq {"lose", "twice"}
ASSUME NodeAssumption == NodeOf \in [Tasks -> Nat]
ASSUME SizeAssumption ==
  /\ Lengths \subseteq Nat
  /\ {TxMtu, RxMtu, PoolSize, FifoCap, MaxPackets, MaxTime} \subseteq Nat
  /\ {IdMod, CountMod} \subseteq [{1, 2} -> Nat \ {0}]

Nodes == {NodeOf[t] : t \in Tasks}

VARIABLES version,   \* csp_conf.version, the same on every node
          tx,        \* each sending task: where it is in csp_can_tx
          counter,   \* each node: ifdata->cfp_packet_counter
          sent,      \* history: the packets taken by csp_can_tx
          pbufs,     \* the receiver: ifdata->pbufs, the head first
          avail,     \* its free buffers
          fifo,      \* the buffers in its input queue
          now,       \* its clock
          delivered, \* history: what was put on the input queue
          smooth     \* history: no frame was lost or repeated, and no buffer,
                     \* no place and no time was missing

vars == <<version, tx, counter, sent, pbufs, avail, fifo, now, delivered, smooth>>

receiver == <<pbufs, avail, fifo, delivered, smooth>>

Idle == [pc |-> "idle"]

\* csp_can_add_interface on every node.
Init ==
  /\ version \in {1, 2}
  /\ tx = [t \in Tasks |-> Idle]
  /\ counter = [n \in Nodes |-> 0]
  /\ sent = <<>>
  /\ pbufs = <<>> /\ avail = PoolSize /\ fifo = 0
  /\ now = 0
  /\ delivered = <<>> /\ smooth = TRUE

-----------------------------------------------------------------------------
(* The frames of a packet p = [task, nr, len], cut at byte `at'.            *)

CAN_FRAME_SIZE == 8

Least(a, b) == IF a < b THEN a ELSE b

Chunk(p, at, n) == [pkt |-> p, at |-> at, n |-> n]

\* CFP 1: header, length and up to two bytes; `count' is the remain field.
First1(p, ident) ==
  LET n == Least(p.len, 2)
  IN [src |-> NodeOf[p.task], id |-> ident, begin |-> TRUE, end |-> FALSE,
      count |-> ((p.len + 6 - 1) \div CAN_FRAME_SIZE) % CountMod[version],
      hdr |-> p, dlc |-> 6 + n, chunk |-> Chunk(p, 0, n)]

\* Mutant: the remain field counts this frame too.
More1OffByOne(p, ident, at) ==
  LET n == Least(p.len - at, CAN_FRAME_SIZE)
  IN [src |-> NodeOf[p.task], id |-> ident, begin |-> FALSE, end |-> FALSE,
      count |-> ((p.len - at + CAN_FRAME_SIZE - 1) \div CAN_FRAME_SIZE) % CountMod[version],
      dlc |-> n, chunk |-> Chunk(p, at, n)]

More1(p, ident, at) ==
  LET n == Least(p.len - at, CAN_FRAME_SIZE)
  IN [src |-> NodeOf[p.task], id |-> ident, begin |-> FALSE, end |-> FALSE,
      count |-> ((p.len - at - n + CAN_FRAME_SIZE - 1) \div CAN_FRAME_SIZE) % CountMod[version],
      dlc |-> n, chunk |-> Chunk(p, at, n)]

\* CFP2_SENDER_MASK: what is left of the sender's address.
CFP2_SENDER_MASK == 31
Sender2(p) == NodeOf[p.task] % (CFP2_SENDER_MASK + 1)

\* CFP 2: the rest of the header and up to four bytes; `count' is the number
\* of the fragment, and the last frame is marked.
First2(p, ident) ==
  LET n == Least(p.len, 4)
  IN [src |-> Sender2(p), id |-> ident, begin |-> TRUE, end |-> n = p.len,
      count |-> 0,
      hdr |-> p, dlc |-> 4 + n, chunk |-> Chunk(p, 0, n)]

More2(p, ident, at, frag) ==
  LET n == Least(p.len - at, CAN_FRAME_SIZE)
  IN [src |-> Sender2(p), id |-> ident, begin |-> FALSE, end |-> at + n = p.len,
      count |-> frag % CountMod[version],
      dlc |-> n, chunk |-> Chunk(p, at, n)]

-----------------------------------------------------------------------------
(* Partial packets.  An entry whose buffer went back to the pool while it   *)
(* is still in the list is `freed'.                                         *)

Old(e) == now - e.last_used > 2

\* The receiver's state as a record: what a call returns.
State == [pbufs |-> pbufs, avail |-> avail, fifo |-> fifo,
          delivered |-> delivered, smooth |-> smooth]

\* Mutant: an entry that is done stays in the list.
PbufFreeKeep(s, i, buf_free) ==
  [s EXCEPT !.avail = IF buf_free /\ ~s.pbufs[i].freed THEN @ + 1 ELSE @]

\* csp_can_pbuf_free; a buffer that is free already is not freed again.
PbufFree(s, i, buf_free) ==
  [s EXCEPT !.pbufs = RemoveAt(@, i),
            !.avail = IF buf_free /\ ~s.pbufs[i].freed THEN @ + 1 ELSE @]

\* Mutant: old entries are unlinked and their buffers lost.
PbufCleanupLeak(s) == [s EXCEPT !.pbufs = SelectSeq(@, LAMBDA e : ~Old(e))]

\* Mutant: old entries are freed and not unlinked.
PbufCleanupKeep(s) ==
  [s EXCEPT !.pbufs = [i \in DOMAIN @ |-> [@[i] EXCEPT !.freed = @ \/ Old(s.pbufs[i])]],
            !.avail = @ + Cardinality({i \in DOMAIN s.pbufs : Old(s.pbufs[i]) /\ ~s.pbufs[i].freed})]

\* csp_can_pbuf_cleanup frees every old entry.  It unlinks one through prev,
\* the entry before it, even when that was unlinked itself: then the list
\* keeps it.
PbufCleanup(s) ==
  LET p == s.pbufs
      unlinked[i \in 0 .. Len(p)] == i > 0 /\ Old(p[i]) /\ ~unlinked[i - 1]
      kept == SelectSeq([i \in 1 .. Len(p) |-> i], LAMBDA i : ~unlinked[i])
  IN [s EXCEPT !.pbufs = [k \in 1 .. Len(kept) |->
                            [p[kept[k]] EXCEPT !.freed = @ \/ Old(p[kept[k]])]],
               !.smooth = @ /\ ~\E i \in 1 .. Len(p) : Old(p[i]),
               !.avail = @ + Cardinality({i \in 1 .. Len(p) : Old(p[i]) /\ ~p[i].freed})]

\* csp_can_pbuf_new with a buffer at hand: the new entry is the first.
PbufPush(s, f) ==
  [s EXCEPT !.avail = @ - 1,
            !.pbufs = <<[src |-> f.src, id |-> f.id, last_used |-> now, freed |-> FALSE,
                         remain |-> 0, rx_count |-> 0, hdr |-> f.hdr, data |-> <<>>]>> \o @]

\* csp_can_pbuf_find: the first entry of the frame's sender and identifier,
\* or 0.
PbufFind(s, f) == SelectInSeq(s.pbufs, LAMBDA e : e.src = f.src /\ e.id = f.id)

\* csp_qfifo_write: a full input queue drops the packet.
QfifoWrite(s, e) ==
  IF s.fifo < FifoCap
  THEN [s EXCEPT !.fifo = @ + 1,
                 !.delivered = Append(@, [hdr |-> e.hdr, data |-> e.data])]
  ELSE [s EXCEPT !.avail = @ + 1, !.smooth = FALSE]

-----------------------------------------------------------------------------
(* Reception of frame f into entry i, whose time of last use is set.        *)

\* The packet is complete, and leaves the list for the input queue.
Complete(s, i, e) == QfifoWrite(PbufFree(s, i, FALSE), e)

\* CFP 1: in `remain' the entry counts down, in rx_count it has the number of
\* bytes; the first frame says how many of each there will be.
Entry1(e, f) ==
  IF f.begin
  THEN [e EXCEPT !.hdr = f.hdr, !.data = <<>>, !.rx_count = 0, !.remain = f.count + 1]
  ELSE e

\* Mutant: the remain field is not compared.
Refused1Unchecked(e, f) ==
  \/ f.begin /\ (f.dlc < 6 \/ f.hdr.len > RxMtu)
  \/ e.rx_count + f.chunk.n > e.hdr.len

Refused1(e, f) ==
  \/ f.begin /\ (f.dlc < 6 \/ f.hdr.len > RxMtu)
  \/ f.count # e.remain - 1
  \/ e.rx_count + f.chunk.n > e.hdr.len

\* csp_can1_rx
Rx1(s, i, f) ==
  LET e == Entry1(s.pbufs[i], f)
      u == [e EXCEPT !.remain = @ - 1, !.rx_count = @ + f.chunk.n, !.data = Append(@, f.chunk)]
  IN IF Refused1(e, f) THEN PbufFree(s, i, TRUE)
     ELSE IF u.rx_count # u.hdr.len THEN [s EXCEPT !.pbufs[i] = u]
     ELSE Complete(s, i, u)

\* CFP 2: rx_count is the number of the next fragment, `remain' holds
\* frame_length, and the mark of the last frame ends the packet.
Entry2(e, f) ==
  IF f.begin
  THEN [e EXCEPT !.hdr = f.hdr, !.data = <<>>, !.rx_count = 0, !.remain = 6]
  ELSE e

Refused2(e, f) ==
  \/ f.begin /\ f.dlc < 4
  \/ ~f.begin /\ e.rx_count # f.count
  \/ e.remain + f.chunk.n > RxMtu

\* csp_can2_rx
Rx2(s, i, f) ==
  LET e == Entry2(s.pbufs[i], f)
      u == [e EXCEPT !.remain = @ + f.chunk.n, !.data = Append(@, f.chunk),
                     !.rx_count = (@ + 1) % CountMod[version]]
  IN IF Refused2(e, f) THEN PbufFree(s, i, TRUE)
     ELSE IF ~f.end THEN [s EXCEPT !.pbufs[i] = u]
     ELSE Complete(s, i, u)

Rx(s, i, f) ==
  LET t == [s EXCEPT !.pbufs[i].last_used = now]
  IN IF version = 1 THEN Rx1(t, i, f) ELSE Rx2(t, i, f)

\* csp_can_rx: an unknown packet must begin, and finds room after a clean-up.
CanRx(s, f) ==
  LET i == PbufFind(s, f)
      c == PbufCleanup(s)
  IN IF i # 0 THEN Rx(s, i, f)
     ELSE IF ~f.begin THEN s
     ELSE IF c.avail = 0 THEN [c EXCEPT !.smooth = FALSE]
     ELSE Rx(PbufPush(c, f), 1, f)

Become(s) ==
  /\ pbufs' = s.pbufs /\ avail' = s.avail /\ fifo' = s.fifo
  /\ delivered' = s.delivered /\ smooth' = s.smooth

\* The bus: f reaches the receiver, is lost, or is seen twice (a sender that
\* saw an error in the last bit of a frame repeats it).
Transmit(f) ==
  \/ Become(CanRx(State, f))
  \/ "lose" \in Bus /\ Become([State EXCEPT !.smooth = FALSE])
  \/ "twice" \in Bus /\ Become([CanRx(CanRx(State, f), f) EXCEPT !.smooth = FALSE])

-----------------------------------------------------------------------------
(* Transmission.                                                            *)

\* csp_send_direct_iface refuses a packet longer than the MTU; csp_can_tx
\* reads the counter, which two tasks of a node may do at once.
TxStart(t) ==
  /\ tx[t].pc = "idle" /\ Len(sent) < MaxPackets
  /\ \E len \in Lengths :
       /\ len <= TxMtu
       /\ LET p == [task |-> t, nr |-> Len(sent) + 1, len |-> len]
          IN /\ tx' = [tx EXCEPT ![t] = [pc |-> "first", pkt |-> p,
                                          ident |-> counter[NodeOf[t]]]]
             /\ sent' = Append(sent, p)
  /\ UNCHANGED <<version, counter, receiver, now>>

\* After n bytes: the call returns when that was all.
Sent(t, n, frag) ==
  tx' = [tx EXCEPT ![t] = IF n = tx[t].pkt.len THEN Idle
                          ELSE [pc |-> "more", pkt |-> tx[t].pkt, ident |-> tx[t].ident,
                                at |-> n, frag |-> frag]]

\* It writes the incremented counter back and sends the first frame.
TxFirst(t) ==
  /\ tx[t].pc = "first"
  /\ counter' = [counter EXCEPT ![NodeOf[t]] = (tx[t].ident + 1) % IdMod[version]]
  /\ LET f == IF version = 1 THEN First1(tx[t].pkt, tx[t].ident)
              ELSE First2(tx[t].pkt, tx[t].ident)
     IN Transmit(f) /\ Sent(t, f.chunk.n, 1)
  /\ UNCHANGED <<version, sent, now>>

TxMore(t) ==
  /\ tx[t].pc = "more"
  /\ LET f == IF version = 1 THEN More1(tx[t].pkt, tx[t].ident, tx[t].at)
              ELSE More2(tx[t].pkt, tx[t].ident, tx[t].at, tx[t].frag)
     IN Transmit(f) /\ Sent(t, tx[t].at + f.chunk.n, tx[t].frag + 1)
  /\ UNCHANGED <<version, counter, sent, now>>

\* The driver fails: the call returns CSP_ERR_DRIVER, the packet stays with
\* its caller.
TxFail(t) ==
  /\ MayFail /\ tx[t].pc \in {"first", "more"}
  /\ tx' = [tx EXCEPT ![t] = Idle]
  /\ counter' = IF tx[t].pc = "first"
                THEN [counter EXCEPT ![NodeOf[t]] = (tx[t].ident + 1) % IdMod[version]]
                ELSE counter
  /\ smooth' = FALSE
  /\ UNCHANGED <<version, sent, pbufs, avail, fifo, delivered, now>>

\* The router takes a packet from the input queue and frees it in the end.
RouterTake ==
  /\ fifo > 0
  /\ fifo' = fifo - 1 /\ avail' = avail + 1
  /\ UNCHANGED <<version, tx, counter, sent, pbufs, now, delivered, smooth>>

Tick ==
  /\ now < MaxTime
  /\ now' = now + 1
  /\ UNCHANGED <<version, tx, counter, sent, receiver>>

Next ==
  \/ \E t \in Tasks : TxStart(t) \/ TxFirst(t) \/ TxMore(t) \/ TxFail(t)
  \/ RouterTake
  \/ Tick

Spec == Init /\ [][Next]_vars

-----------------------------------------------------------------------------
Packet(p) == p.task \in Tasks /\ p.nr \in 1 .. MaxPackets /\ p.len \in Nat

\* Types; in particular the count of free buffers stays within the pool.
TypeOK ==
  /\ version \in {1, 2} /\ smooth \in BOOLEAN
  /\ \A t \in Tasks : tx[t].pc \in {"idle", "first", "more"}
  /\ counter \in [Nodes -> 0 .. IdMod[version] - 1]
  /\ \A k \in DOMAIN sent : Packet(sent[k])
  /\ \A i \in DOMAIN pbufs :
       /\ pbufs[i].id \in 0 .. IdMod[version] - 1 /\ pbufs[i].freed \in BOOLEAN
       /\ pbufs[i].last_used \in 0 .. now
       /\ Packet(pbufs[i].hdr)
  /\ avail \in 0 .. PoolSize /\ fifo \in 0 .. FifoCap
  /\ now \in 0 .. MaxTime

\* Every byte of packet p, in order, and nothing else.
Intact(d) ==
  /\ \A k \in DOMAIN d.data :
       /\ d.data[k].pkt = d.hdr
       /\ d.data[k].at = IF k = 1 THEN 0 ELSE d.data[k - 1].at + d.data[k - 1].n
  /\ Last(d.data).at + Last(d.data).n = d.hdr.len

\* However frames of several senders interleave, get lost or are repeated, what
\* csp_can_rx hands to the router is a packet that was sent, byte for byte.
OnlyIntact == \A k \in DOMAIN delivered : Intact(delivered[k])

\* A partial packet is in a buffer of its own: csp_can_pbuf_cleanup and
\* csp_can_pbuf_free take a buffer out of the list when they free it.
PbufsOwned == \A i \in DOMAIN pbufs : ~pbufs[i].freed

\* No buffer is lost and none is in two places: each is free, holds a
\* partial packet or is on the input queue.
BuffersAccounted ==
  avail + Cardinality({i \in DOMAIN pbufs : ~pbufs[i].freed}) + fifo = PoolSize

\* The longest packet the receiver takes: CFP 2 counts six bytes of header.
Limit == IF version = 1 THEN RxMtu ELSE RxMtu - 6

\* A packet the receiver can hold arrives, however the frames of several
\* senders interleave, if no frame was lost or repeated and buffers, queue and
\* time sufficed: once its call of csp_can_tx returned it was delivered.
AllArrive ==
  smooth => \A k \in DOMAIN sent :
    sent[k].len <= Limit /\ (tx[sent[k].task].pc = "idle" \/ tx[sent[k].task].pkt # sent[k]) =>
      \E d \in DOMAIN delivered : delivered[d].hdr = sent[k]
=============================================================================
