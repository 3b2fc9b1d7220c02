--------------------------- MODULE MCPthreadQueue ---------------------------
(* PthreadQueue on small instances; threads and values are interchangeable. *)
EXTENDS PthreadQueue, TLC

Symmetry == Permutations(Threads) \cup Permutations(Values)
=============================================================================
