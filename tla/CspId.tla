------------------------------- MODULE CspId --------------------------------
(* Identifier packing (src/csp_id.c).  A header is the set of its one bits:   *)
(* the code shifts every field to its place and ORs the results, and no field *)
(* is masked before it is shifted.                                            *)
EXTENDS Integers, FiniteSets, FiniteSetsExt

Fields == {"pri", "src", "dst", "dport", "sport", "flags"}

\* Place and size of the fields of a CSP 1 header.
Id1 == [pri   |-> [off |-> 30, size |-> 2], src   |-> [off |-> 25, size |-> 5],
        dst   |-> [off |-> 20, size |-> 5], dport |-> [off |-> 14, size |-> 6],
        sport |-> [off |-> 8,  size |-> 6], flags |-> [off |-> 0,  size |-> 8]]

\* Place and size of the fields of a CSP 2 header.
Id2 == [pri   |-> [off |-> 46, size |-> 2], dst   |-> [off |-> 32, size |-> 14],
        src   |-> [off |-> 18, size |-> 14], dport |-> [off |-> 12, size |-> 6],
        sport |-> [off |-> 6,  size |-> 6], flags |-> [off |-> 0,  size |-> 6]]

Layout(version) == IF version = 2 THEN Id2 ELSE Id1

HeaderBits(version) == IF version = 2 THEN 48 ELSE 32

\* The one bits of a field of csp_id_t, at most 16 bits wide.
Bits(v) == {b \in 0 .. 15 : (v \div 2^b) % 2 = 1}

ValueOf(bits) == SumSet({2^b : b \in bits})

\* Mutant: source and destination change places.
csp_id1_prepend_swapped(id) ==
    LET from == [id EXCEPT !["src"] = id["dst"], !["dst"] = id["src"]]
    IN  UNION {{Id1[f].off + b : b \in Bits(from[f])} : f \in Fields}

\* csp_id1_prepend: the sum of the shifted fields, cut to the header.
csp_id1_prepend(id) ==
    {h \in UNION {{Id1[f].off + b : b \in Bits(id[f])} : f \in Fields} : h < 32}

\* csp_id1_strip: shift back and mask.
csp_id1_strip(h) ==
    [f \in Fields |-> ValueOf({b \in 0 .. Id1[f].size - 1 : b + Id1[f].off \in h})]

\* csp_id2_prepend: the same over 64 bits, of which 48 are sent.
csp_id2_prepend(id) ==
    {h \in UNION {{Id2[f].off + b : b \in Bits(id[f])} : f \in Fields} : h < 48}

csp_id2_strip(h) ==
    [f \in Fields |-> ValueOf({b \in 0 .. Id2[f].size - 1 : b + Id2[f].off \in h})]

csp_id_prepend(version, id) ==
    IF version = 2 THEN csp_id2_prepend(id) ELSE csp_id1_prepend(id)

csp_id_strip(version, h) ==
    IF version = 2 THEN csp_id2_strip(h) ELSE csp_id1_strip(h)
=============================================================================
