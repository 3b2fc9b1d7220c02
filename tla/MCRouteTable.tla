---------------------------- MODULE MCRouteTable ----------------------------
EXTENDS RouteTable

mc_Routes ==
    [addr : {0, 1, 2}, mask : {-1, 0, 1, 2}, i : {"A"}, via : {NoVia}]
    \cup [addr : {1, 2}, mask : {1, 2}, i : {"lo", "B", "none"}, via : {3}]

Text(addr, mask, name, via) == [addr |-> addr, mask |-> mask, name |-> name, via |-> via]
mc_Texts ==
    {<<Text(2, none, "A", none), Text(0, 0, "B", 1)>>,
     <<Text(1, 1, "B", none), Text(2, 3, "A", none), Text(3, none, "A", none)>>,
     <<Text(3, none, "C", none)>>}

\* A table that is overrun has left the array: what follows is not looked at.
Bounded == ~r.over
=============================================================================
