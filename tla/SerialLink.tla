----------------------------- MODULE SerialLink -----------------------------
(* Messages sent with csp_sfp_send over a serial line with KISS frames, and    *)
(* received with csp_sfp_recv (src/csp_sfp.c).  The line loses, garbles and    *)
(* adds bytes; the receiver may run out of buffers and of memory, and its      *)
(* application may give up waiting.                                            *)
EXTENDS Kiss

CONSTANTS Transfers,   \* what is sent, in this order: [data, mtu]
          Pool,        \* packets of the receiver (CSP_BUFFER_COUNT)
          RxqueueLen,  \* the queue of the connection
          Noise,       \* what a byte may turn into
          MaxNoise     \* how many bytes are disturbed (bound)

ASSUME LinkAssumption == {Pool, RxqueueLen, MaxNoise} \subseteq Nat

VARIABLES k, count,    \* csp_sfp_send: the transfer and how much of it is sent
          line,        \* bytes on the line, with the number of their frame
          s, rx,       \* the receiver's interface, and the queue of the connection
          rcv,         \* csp_sfp_recv: data, datasize
          heap,        \* blocks that are allocated and not given to the caller
          got,         \* history: what csp_sfp_recv has returned
          frames,      \* history: the length of every frame sent
          noise,       \* bytes disturbed so far
          hit, starved, accepted   \* history: frames disturbed, found no buffer, taken

vars == <<k, count, line, s, rx, rcv, heap, got, frames, noise, hit, starved, accepted>>

NULL == -1
NoData == [data |-> <<>>, size |-> NULL]

\* The identifier of the connection with CSP_FFRAG, and what noise may make of it:
\* the flag is gone, or it is another connection's.
Hdr == <<6, 1>>
NoFrag == <<6, 0>>

\* sfp_header_t
SfpHeader(offset, total) == <<7, offset, total>>

Init ==
    /\ k = 1 /\ count = 0 /\ line = <<>> /\ s = csp_kiss_add_interface(Pool) /\ rx = <<>>
    /\ rcv = NoData /\ heap = 0 /\ got = <<>>
    /\ frames = <<>> /\ noise = 0 /\ hit = {} /\ starved = FALSE /\ accepted = {}

-----------------------------------------------------------------------------
\* csp_sfp_header_add: the next fragment, its header behind the data.
Fragment(m) ==
    LET size == IF Len(m.data) - count > m.mtu THEN m.mtu ELSE Len(m.data) - count
    IN  [hdr |-> Hdr, data |-> SubSeq(m.data, count + 1, count + size)
                               \o <<SfpHeader(count, Len(m.data))>>]

\* One round of csp_sfp_send_own_memcpy; csp_send hands the packet to
\* csp_kiss_tx, or frees it when it is longer than the MTU of the interface.
SendFragment ==
    /\ k <= Len(Transfers) /\ line = <<>>
    /\ LET m == Transfers[k]
           p == Fragment(m)
           bytes == IF Len(p.data) <= csp_kiss_mtu THEN csp_kiss_tx(p) ELSE <<>>
           sent == count + Len(p.data) - 1
       IN  /\ line' = [j \in 1 .. Len(bytes) |-> [byte |-> bytes[j], f |-> Len(frames) + 1]]
           /\ frames' = Append(frames, Len(Frame(p)))
           /\ IF sent >= Len(m.data) THEN k' = k + 1 /\ count' = 0
              ELSE count' = sent /\ UNCHANGED k
    /\ UNCHANGED <<s, rx, rcv, heap, got, noise, hit, starved, accepted>>

\* No buffer for a fragment: csp_sfp_send returns, the transfer is not finished.
SendFails ==
    /\ k <= Len(Transfers) /\ line = <<>>
    /\ k' = k + 1 /\ count' = 0
    /\ UNCHANGED <<line, s, rx, rcv, heap, got, frames, noise, hit, starved, accepted>>

-----------------------------------------------------------------------------
\* The line delivers a byte.
Delivers(byte, f) ==
    /\ s' = csp_kiss_rx(s, byte)
    /\ starved' = (starved \/ (s'.mode = "skip_frame" /\ s.mode # "skip_frame"))
    /\ accepted' = IF s.packet /\ ~s'.packet THEN accepted \cup {f} ELSE accepted

RxByte ==
    /\ line # <<>>
    /\ Delivers(Head(line).byte, Head(line).f)
    /\ line' = Tail(line)
    /\ UNCHANGED <<k, count, rx, rcv, heap, got, frames, noise, hit>>

Disturb ==
    /\ line # <<>> /\ noise < MaxNoise /\ noise' = noise + 1 /\ hit' = hit \cup {Head(line).f}
    /\ UNCHANGED <<k, count, rx, rcv, heap, got, frames>>

Lose   == Disturb /\ line' = Tail(line) /\ UNCHANGED <<s, starved, accepted>>
Garble == Disturb /\ line' = Tail(line) /\ \E b \in Noise : Delivers(b, Head(line).f)
Add    == Disturb /\ line' = line /\ \E b \in Noise : Delivers(b, Head(line).f)

-----------------------------------------------------------------------------
\* The router: to the connection if the packet is for it and its queue has room,
\* otherwise somebody else reads the packet, or nobody, and it is freed.
Route ==
    /\ s.q # <<>>
    /\ LET p == Head(s.q)
       IN  IF p.hdr \in {Hdr, NoFrag} /\ Len(rx) < RxqueueLen
           THEN rx' = Append(rx, p) /\ s' = [s EXCEPT !.q = Tail(@)]
           ELSE s' = [s EXCEPT !.q = Tail(@), !.free = @ + 1] /\ UNCHANGED rx
    /\ UNCHANGED <<k, count, line, rcv, heap, got, frames, noise, hit, starved, accepted>>

\* csp_sfp_header_remove: the fields of the header.
csp_sfp_header_remove(p) ==
    LET h == Last(p.data)
    IN  [ok |-> p.hdr = Hdr /\ h[2] <= h[3], offset |-> h[2], total |-> h[3],
         data |-> Front(p.data)]

\* Mutant: the total size of a fragment is not compared with the transfer's.
accepts_any_total(f, r) == f.ok /\ f.offset = Len(r.data) /\ Len(r.data) + Len(f.data) <= f.total

\* The consistency checks on a fragment.
Consistent(f, r) ==
    /\ f.ok
    /\ f.offset = Len(r.data)
    /\ Len(r.data) + Len(f.data) <= f.total /\ r.size \in {NULL, f.total}
    /\ f.data # <<>> \/ Len(r.data) >= f.total

\* The call returns an error: what was received so far is freed.
Abandon == rcv' = NoData /\ heap' = heap - (IF rcv.size = NULL THEN 0 ELSE 1) /\ UNCHANGED got

\* csp_sfp_recv_fp, one packet of its loop.  The first one allocates the block
\* and may find no memory; the last one gives it to the caller.
Recv(f, memory) ==
    LET data == rcv.data \o f.data
        used == heap + (IF rcv.size = NULL THEN 1 ELSE 0)
    IN  IF ~Consistent(f, rcv) \/ (rcv.size = NULL /\ ~memory) THEN Abandon
        ELSE IF Len(data) >= f.total
        THEN rcv' = NoData /\ heap' = used - 1 /\ got' = Append(got, data)
        ELSE rcv' = [data |-> data, size |-> f.total] /\ heap' = used /\ UNCHANGED got

csp_sfp_recv ==
    /\ rx # <<>> /\ \E memory \in BOOLEAN : Recv(csp_sfp_header_remove(Head(rx)), memory)
    /\ rx' = Tail(rx)
    /\ s' = [s EXCEPT !.free = @ + 1]
    /\ UNCHANGED <<k, count, line, frames, noise, hit, starved, accepted>>

\* csp_read gives nothing in time: CSP_ERR_TIMEDOUT.
RecvTimeout ==
    /\ rx = <<>> /\ rcv # NoData
    /\ Abandon
    /\ UNCHANGED <<k, count, line, s, rx, frames, noise, hit, starved, accepted>>

Next ==
    \/ SendFragment \/ SendFails \/ RxByte \/ Lose \/ Garble \/ Add
    \/ Route \/ csp_sfp_recv \/ RecvTimeout

Spec == Init /\ [][Next]_vars

-----------------------------------------------------------------------------
\* What csp_sfp_recv returns is one of the messages sent, whatever the line did to
\* the frames in between: "If a chunk is missing the SFP client will abort the
\* reception" (doc/mtu.md:51).
OnlyWhole == \A j \in DOMAIN got : \E m \in Range(Transfers) : got[j] = m.data

\* Every packet of the receiver is free, or held for the frame that is coming in,
\* or in one of the queues; and a block of memory is allocated only while a
\* transfer is under way: no error path of csp_kiss_rx and csp_sfp_recv keeps one.
PacketsAccounted ==
    /\ s.free + (IF s.packet THEN 1 ELSE 0) + Len(s.q) + Len(rx) = Pool
    /\ heap = (IF rcv.size = NULL THEN 0 ELSE 1)

Past(f) == f < Len(frames) \/ line = <<>>

\* A disturbed byte costs the frame it is in and the one behind it and no more: as
\* long as there was a buffer for every frame, a frame that csp_kiss_rx has room
\* for arrives if neither it nor the frame in front of it was disturbed.
FrameLossBounded ==
    ~starved =>
        \A f \in DOMAIN frames :
            Past(f) /\ {f - 1, f} \cap hit = {} /\ frames[f] < MaxRx => f \in accepted
=============================================================================
