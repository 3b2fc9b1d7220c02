--------------------------- MODULE ReliableStream ---------------------------
(***************************************************************************)
(* What RDP promises its users (doc/protocolstack.md: "Packet re-ordering",*)
(* "Retransmission"; doc/mtu.md: "orderly delivery"): in each direction the*)
(* payloads a connection hands to its reader are the payloads the other    *)
(* side sent, in the order sent, none skipped and none twice.  The k-th    *)
(* payload a node sends is the number k.                                   *)
(***************************************************************************)
EXTENDS Naturals, Sequences

CONSTANTS Node, Peer(_)

VARIABLES sent,       \* sent[n]: how many payloads n has sent
          delivered   \* delivered[n]: the payloads handed to the reader at n

Init == /\ sent = [n \in Node |-> 0]
        /\ delivered = [n \in Node |-> <<>>]

Send(n) == /\ sent' = [sent EXCEPT ![n] = @ + 1]
           /\ UNCHANGED delivered

\* One or several payloads, the next ones in order
Deliver(n) ==
    /\ \E k \in 1 .. sent[Peer(n)] - Len(delivered[n]) :
         delivered' = [delivered EXCEPT ![n] = @ \o [i \in 1 .. k |-> Len(@) + i]]
    /\ UNCHANGED sent

\* A new connection starts an empty stream.
Restart(n) == /\ delivered' = [delivered EXCEPT ![n] = <<>>]
              /\ UNCHANGED sent

Next == \E n \in Node : Send(n) \/ Deliver(n) \/ Restart(n)

Spec == Init /\ [][Next]_<<sent, delivered>>
=============================================================================
