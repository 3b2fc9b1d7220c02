-------------------------------- MODULE Fifo --------------------------------
(***************************************************************************)
(* What include/csp/arch/csp_queue.h promises of a queue: "Enqueue (back)  *)
(* value" and "Dequeue value (front)".  `put' is everything that entered,  *)
(* `got' everything that left; at most Size values are inside.             *)
(***************************************************************************)
EXTENDS Naturals, Sequences

CONSTANTS Values,   \* what a queue carries (pointers to packets in libcsp)
          Size      \* the length given to csp_queue_create_static

VARIABLES put, got

vars == <<put, got>>

Init == put = <<>> /\ got = <<>>

Put(v) ==
  /\ Len(put) - Len(got) < Size
  /\ put' = Append(put, v)
  /\ UNCHANGED got

Get ==
  /\ Len(got) < Len(put)
  /\ got' = Append(got, put[Len(got) + 1])
  /\ UNCHANGED put

Next == Get \/ \E v \in Values : Put(v)

Spec == Init /\ [][Next]_vars
=============================================================================
