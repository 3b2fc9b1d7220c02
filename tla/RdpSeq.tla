------------------------------- MODULE RdpSeq -------------------------------
(***************************************************************************)
(* Wrapping sequence-number arithmetic of the RDP transport (csp_rdp.c).   *)
(* The C code computes in uint16_t; Mod stands for 2^16, so that a model   *)
(* checker can walk a whole sequence space in a few steps.                 *)
(***************************************************************************)
EXTENDS Integers

CONSTANT Mod  \* size of the sequence-number space (2^16 in the code)

ASSUME ModAssumption == Mod \in Nat /\ Mod >= 2

Seqnr == 0 .. Mod - 1

\* Mutant: the sum is kept in an int, as at line 553.
PlusNoWrap(a, k) == a + k

\* (uint16_t)(a + k), for any integer k
Plus(a, k) == (a + k) % Mod

\* Return 1 if seq is between start and end (both inclusive)
csp_rdp_seq_between(seq, start, end) ==
    (end - start) % Mod >= (seq - start) % Mod

\* Return 1 if seq is before cmp: (int16_t)(seq - cmp) < 0
csp_rdp_seq_before(seq, cmp) == 2 * ((seq - cmp) % Mod) >= Mod

\* Return 1 if seq is after cmp
csp_rdp_seq_after(seq, cmp) == csp_rdp_seq_before(cmp, seq)
=============================================================================
