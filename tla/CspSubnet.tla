----------------------------- MODULE CspSubnet ------------------------------
(* Addresses and subnets (src/csp_id.c, src/csp_iflist.c): the first netmask  *)
(* bits of an address of HostBits bits name its network.                      *)
EXTENDS Integers, Sequences

CONSTANT HostBits   \* csp_id_get_host_bits()

ASSUME HostBitsAssumption == HostBits \in 1 .. 14

Hosts(netmask) == 2^(HostBits - netmask)

csp_id_get_max_nodeid == 2^HostBits - 1

csp_id_is_broadcast(addr, netmask) == addr % Hosts(netmask) = Hosts(netmask) - 1

SameNetwork(a, b, netmask) == a \div Hosts(netmask) = b \div Hosts(netmask)
=============================================================================
