-------------------------------- MODULE Kiss --------------------------------
(* The KISS interface (src/interfaces/csp_if_kiss.c): packets as frames on a  *)
(* serial line.  A byte is a tuple of numbers; the header, the checksum and   *)
(* the fields of higher layers are one such byte each, and so are lengths.    *)
EXTENDS Integers, Sequences, SequencesExt

CONSTANTS MaxRx,       \* max_rx_length: csp_buffer_data_size()
          QfifoLen     \* the router's input queue

ASSUME KissAssumption == MaxRx \in Nat \ {0} /\ QfifoLen \in Nat \ {0}

FEND     == <<0>>
FESC     == <<1>>
TFEND    == <<2>>
TFESC    == <<3>>
TNC_DATA == <<4>>

\* The checksum is exact, and computed without the header.
Crc32(data) == <<5>> \o FlattenSeq(data)

csp_kiss_mtu == MaxRx - 1

Frame(p) == <<p.hdr>> \o p.data \o <<Crc32(p.data)>>

Escape(byte) ==
    CASE byte = FEND -> <<FESC, TFEND>>
      [] byte = FESC -> <<FESC, TFESC>>
      [] OTHER -> <<byte>>

csp_kiss_tx(p) ==
    LET frame == Frame(p)
    IN  <<FEND, TNC_DATA>> \o FlattenSeq([k \in 1 .. Len(frame) |-> Escape(frame[k])]) \o <<FEND>>

-----------------------------------------------------------------------------
(* The receiver s: mode, the bytes so far, whether the character after the    *)
(* first FEND is still to come, whether a packet is held for them; the free   *)
(* buffers and the input queue.                                               *)

csp_kiss_add_interface(pool) ==
    [mode |-> "not_started", frame |-> <<>>, first |-> FALSE, packet |-> FALSE,
     free |-> pool, q |-> <<>>]

NotStarted(s, byte) ==
    CASE byte # FEND -> s
      [] byte = FEND /\ ~s.packet /\ s.free = 0 -> [s EXCEPT !.mode = "skip_frame"]
      [] OTHER -> [s EXCEPT !.mode = "started", !.frame = <<>>, !.first = TRUE, !.packet = TRUE,
                            !.free = IF s.packet THEN @ ELSE @ - 1]

\* csp_id_strip and csp_crc32_verify of what came between two end characters.
Valid(frame) ==
    Len(frame) >= 2 /\ Last(frame) = Crc32(SubSeq(frame, 2, Len(frame) - 1))

\* csp_qfifo_write: the packet to the router, or back to the pool.
Accepted(s) ==
    LET p == [hdr |-> s.frame[1], data |-> SubSeq(s.frame, 2, Len(s.frame) - 1)]
        n == [s EXCEPT !.mode = "not_started", !.packet = FALSE]
    IN  IF Len(s.q) < QfifoLen THEN [n EXCEPT !.q = Append(@, p)] ELSE [n EXCEPT !.free = @ + 1]

\* Mutant: after a frame that is no good its packet is given up.
end_drops_packet(s) ==
    CASE s.frame = <<>> -> s
      [] s.frame # <<>> /\ ~Valid(s.frame) -> [s EXCEPT !.mode = "not_started", !.packet = FALSE]
      [] OTHER -> Accepted(s)

\* Mutant: an empty frame ends the search for the start.
end_of_empty(s) == IF s.frame # <<>> /\ Valid(s.frame) THEN Accepted(s) ELSE [s EXCEPT !.mode = "not_started"]

\* The end character: nothing so far and it was the start of the frame.  The
\* packet of a frame that is no good is kept for the next one.
EndChar(s) ==
    CASE s.frame = <<>> -> s
      [] s.frame # <<>> /\ ~Valid(s.frame) -> [s EXCEPT !.mode = "not_started"]
      [] OTHER -> Accepted(s)

Started(s, byte) ==
    CASE byte = FESC -> [s EXCEPT !.mode = "escaped"]
      [] byte = FEND -> EndChar(s)
      [] byte \notin {FESC, FEND} /\ s.first -> [s EXCEPT !.first = FALSE]
      [] OTHER -> [s EXCEPT !.frame = Append(@, byte)]

Escaped(s, byte) ==
    [s EXCEPT !.mode = "started",
              !.frame = CASE byte = TFESC -> Append(@, FESC)
                          [] byte = TFEND -> Append(@, FEND)
                          [] OTHER -> @]

SkipFrame(s, byte) == IF byte = FEND THEN [s EXCEPT !.mode = "not_started"] ELSE s

\* A packet that was too long is given up before the next byte is looked at.
TooLong(s) ==
    IF Len(s.frame) >= MaxRx THEN [s EXCEPT !.mode = "not_started", !.frame = <<>>] ELSE s

InMode(s, byte) ==
    CASE s.mode = "not_started" -> NotStarted(s, byte)
      [] s.mode = "started"     -> Started(s, byte)
      [] s.mode = "escaped"     -> Escaped(s, byte)
      [] s.mode = "skip_frame"  -> SkipFrame(s, byte)

csp_kiss_rx(s, byte) == InMode(TooLong(s), byte)
=============================================================================
