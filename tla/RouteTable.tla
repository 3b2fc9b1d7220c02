----------------------------- MODULE RouteTable -----------------------------
(* The routing table over its life: routes set by the application or by CMP   *)
(* requests, tables loaded from text, the table saved, freed and filled        *)
(* again.  routes is what the calls have asked for, a function on prefixes.    *)
EXTENDS CspRtable

CONSTANTS Routes,    \* what csp_rtable_set may be called with: [addr, mask, i, via]
          Texts      \* what csp_rtable_load may be given

\* The interfaces of the calls are registered, or NULL.
ASSUME RouteAssumption ==
    Routes \subseteq [addr : Nat, mask : Int, i : RouteIfaces \cup {"none"}, via : Nat \cup {NoVia}]

\* What csp_rtable_parse has read of each entry.
ASSUME TextAssumption == Texts \subseteq Seq([addr : Nat, mask : Int, name : STRING, via : Int])

VARIABLES r, routes,
          cleared    \* csp_rtable_clear was called with entries in the table

rvars == <<r, routes, cleared>>

Init == r = rtable /\ routes = <<>> /\ cleared = FALSE

\* What a set asks for: it counts for its prefix from then on.
Asked(m, addr, mask, i, via) ==
    LET new == <<addr, Netmask(mask)>>
    IN  [p \in DOMAIN m \cup {new} |-> IF p = new THEN [i |-> i, via |-> via] ELSE m[p]]

Set ==
    \E e \in Routes :
        /\ r' = csp_rtable_set(r, e.addr, e.mask, e.i, e.via)
        /\ routes' = IF e.i = "none" THEN routes ELSE Asked(routes, e.addr, e.mask, e.i, e.via)
        /\ UNCHANGED cleared

\* What the first n entries of a text ask for.
AskedBy(m, text, n) ==
    LET asked[k \in 0 .. n] ==
            IF k = 0 THEN m
            ELSE Asked(asked[k - 1], text[k].addr, ParsedMask(text[k]), text[k].name,
                       ParsedVia(text[k]))
    IN  asked

\* A load asks for the entries in front of the first invalid one.
Load ==
    \E t \in Texts :
        LET good == {k \in 1 .. Len(t) : \A j \in 1 .. k : ValidText(t[j])}
            n    == Cardinality(good)
        IN  /\ r' = csp_rtable_load(r, t)
            /\ routes' = AskedBy(routes, t, n)[n]
            /\ UNCHANGED cleared

Clear ==
    /\ r' = csp_rtable_free(r)
    /\ routes' = <<>>
    /\ cleared' = (cleared \/ r.in > 0)

Next == Set \/ Load \/ Clear
Spec == Init /\ [][Next]_rvars

\* Until the array is overrun, csp_rtable_find_route finds the entry that was last
\* set for the longest prefix of the address that any call has asked for, and
\* nothing if there is none: whatever order routes were set, replaced, loaded and
\* cleared in.  The entries csp_rtable_clear leaves behind match every address with
\* a netmask of 0: from then on only the longer prefixes are sure to be found.
LongestPrefix ==
    ~r.over => \A addr \in 0 .. csp_id_get_max_nodeid :
        LET match == {p \in DOMAIN routes : SameNetwork(p[1], addr, p[2])}
            found == csp_rtable_find_route(r, addr)
        IN  IF \A p \in match : cleared /\ p[2] = 0
            THEN \A e \in found : cleared /\ e.mask = 0
            ELSE \E e \in found :
                    /\ found = {e} /\ <<e.addr, e.mask>> \in match
                    /\ \A p \in match : p[2] <= e.mask
                    /\ routes[<<e.addr, e.mask>>] = [i |-> e.i, via |-> e.via]

\* A table that is saved and loaded into an empty one has the same routes in the
\* same order, but for those of the loopback interface, and csp_rtable_check takes
\* the text for good: as long as the text has the 100 characters at most that the
\* parser reads, and csp_rtable_set, which does not look at them, was given addresses
\* that nodes can have.  (Saving what csp_rtable_clear leaves behind reads the name
\* of an interface that is NULL.)
SavedLoads ==
    LET rows  == csp_rtable_iterate(r)
        kept  == {k \in DOMAIN rows : rows[k].i # "lo"}
        text  == csp_rtable_save(r)
        again == csp_rtable_iterate(csp_rtable_load(rtable, text))
    IN  ~r.over /\ ~cleared /\ (\A k \in kept : rows[k].addr <= csp_id_get_max_nodeid) =>
            /\ csp_rtable_check(text) = Len(text)
            /\ Len(again) = Cardinality(kept)
            /\ \A k \in kept : again[Cardinality({l \in kept : l <= k})] = rows[k]
=============================================================================
