----------------------------- MODULE CspRtable ------------------------------
(* The routing table (src/csp_rtable_cidr.c) and its text form                *)
(* (src/csp_rtable_stdio.c).  A table r holds the array, and in, the number   *)
(* of entries in use; over is set once a write has gone past the array.       *)
EXTENDS CspSubnet, FiniteSets

CONSTANTS RtableSize, RouteIfaces

ASSUME RtableAssumption == RtableSize \in Nat \ {0} /\ "none" \notin RouteIfaces

NoVia     == -1         \* CSP_NO_VIA_ADDRESS
ZeroEntry == [addr |-> 0, mask |-> 0, i |-> "none", via |-> 0]
Slots     == 0 .. RtableSize - 1

rtable == [e |-> [k \in Slots |-> ZeroEntry], in |-> 0, over |-> FALSE]

Used(r) == {k \in Slots : k < r.in}

Matching(r, addr) == {k \in Used(r) : SameNetwork(r.e[k].addr, addr, r.e[k].mask)}

\* Mutant: the comparison of netmasks is turned round.
find_shortest(r, addr) ==
    {r.e[k] : k \in {j \in Matching(r, addr) : \A l \in Matching(r, addr) :
                        r.e[j].mask < r.e[l].mask \/ (r.e[j].mask = r.e[l].mask /\ l <= j)}}

\* csp_rtable_find_route: the set of the one entry found; of the matching entries
\* the scan keeps the last one with the largest netmask.
csp_rtable_find_route(r, addr) ==
    {r.e[k] : k \in {j \in Matching(r, addr) : \A l \in Matching(r, addr) :
                        r.e[j].mask > r.e[l].mask \/ (r.e[j].mask = r.e[l].mask /\ l <= j)}}

csp_rtable_find_exact(r, addr, mask) ==
    {k \in Used(r) : r.e[k].addr = addr /\ r.e[k].mask = mask}

\* csp_rtable_set_internal: the check on rtable_inptr has no effect, so that a
\* new entry of a full table is written behind the array.
csp_rtable_set_internal(r, addr, mask, i, via) ==
    LET found == csp_rtable_find_exact(r, addr, mask)
        entry == [addr |-> addr, mask |-> mask, i |-> i, via |-> via]
    IN  CASE found # {} -> [r EXCEPT !.e[CHOOSE k \in found : \A l \in found : k <= l] = entry]
          [] found = {} /\ r.in < RtableSize -> [r EXCEPT !.in = @ + 1, !.e[r.in] = entry]
          [] OTHER -> [r EXCEPT !.in = @ + 1, !.over = TRUE]

\* A netmask out of range becomes HostBits.
Netmask(mask) == IF mask \in 0 .. HostBits THEN mask ELSE HostBits

\* csp_rtable_set: no interface, no entry.
csp_rtable_set(r, addr, mask, i, via) ==
    IF i = "none" THEN r ELSE csp_rtable_set_internal(r, addr, Netmask(mask), i, via)

\* csp_rtable_free and csp_rtable_clear: memset, and rtable_inptr keeps its value.
csp_rtable_free(r) == [r EXCEPT !.e = [k \in Slots |-> ZeroEntry]]

csp_rtable_iterate(r) == [k \in 1 .. Cardinality(Used(r)) |-> r.e[k - 1]]

\* An entry as text: the netmask and the next hop are left out when they have
\* their default, and none stands for what is left out.
none == -2
csp_rtable_save_route(e) ==
    [addr |-> e.addr, mask |-> IF e.mask = HostBits THEN none ELSE e.mask,
     name |-> e.i, via |-> IF e.via = NoVia THEN none ELSE e.via]

\* csp_rtable_iterate calls csp_rtable_save_route on one entry after the other: the
\* text after each of them, without the loopback routes.
AfterSaving(rows) ==
    LET after[k \in 0 .. Len(rows)] ==
            IF k = 0 THEN <<>>
            ELSE IF rows[k].i = "lo" THEN after[k - 1]
            ELSE Append(after[k - 1], csp_rtable_save_route(rows[k]))
    IN  after

csp_rtable_save(r) ==
    LET rows == csp_rtable_iterate(r)
    IN  AfterSaving(rows)[Len(rows)]

\* The checks of csp_rtable_parse on one entry, after csp_iflist_get_by_name.
ValidText(x) ==
    /\ x.addr <= csp_id_get_max_nodeid
    /\ x.mask = none \/ x.mask <= HostBits
    /\ x.name \in RouteIfaces

\* Mutant: the default netmask of an entry without one is 0.
parse_mask0(x) == IF x.mask = none THEN 0 ELSE x.mask

ParsedMask(x) == IF x.mask = none THEN HostBits ELSE x.mask

ParsedVia(x) == IF x.via = none THEN NoVia ELSE x.via

\* The loop of csp_rtable_parse: the table after each of the first n entries.
AfterParsing(r, text, n) ==
    LET after[k \in 0 .. n] ==
            IF k = 0 THEN r
            ELSE csp_rtable_set(after[k - 1], text[k].addr, ParsedMask(text[k]), text[k].name,
                                ParsedVia(text[k]))
    IN  after

\* csp_rtable_parse with dry_run 0, one entry after the other up to the first
\* invalid one: what was set before it stays.  The text has at most the 100
\* characters that strnlen leaves of it (5 of the longest entries).
csp_rtable_load(r, text) ==
    LET bad   == {k \in 1 .. Len(text) : ~ValidText(text[k])}
        count == IF bad = {} THEN Len(text) ELSE (CHOOSE k \in bad : \A l \in bad : k <= l) - 1
    IN  AfterParsing(r, text, count)[count]

\* csp_rtable_parse with dry_run 1: the number of entries, or an error.
csp_rtable_check(text) ==
    IF \E k \in 1 .. Len(text) : ~ValidText(text[k]) THEN -1 ELSE Len(text)
=============================================================================
