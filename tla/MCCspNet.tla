------------------------------ MODULE MCCspNet ------------------------------
EXTENDS CspNet

\* Networks 4-7 and 8-11 of 16 addresses; C is a second link into the first one.
mc_IfList == <<"lo", "A", "B", "C">>
mc_Iface == [lo |-> [addr |-> 0, netmask |-> 4, mtu |-> 0], A |-> [addr |-> 4, netmask |-> 2, mtu |-> 0],
             B |-> [addr |-> 8, netmask |-> 2, mtu |-> 104], C |-> [addr |-> 6, netmask |-> 2, mtu |-> 0]]
mc_Sockets == <<{}, {"CONN_LESS", "CRC32REQ"}>>
mc_CmpRoute == [addr |-> 12, mask |-> 2, i |-> "B", via |-> 9]

Id(src, dst, dport, flags) ==
    [pri |-> 2, src |-> src, dst |-> dst, dport |-> dport, sport |-> 15, flags |-> flags]
From(i, id, data, trl) == [i |-> i, p |-> [Packet(id, data, 8) EXCEPT !.trl = trl]]

Hello == From("A", Id(5, 4, 7, {"CRC32"}), "hello", <<"crc">>)
Noise == From("A", Id(5, 4, 7, {"CRC32"}), "noise", <<"bad">>)
Other == From("A", Id(6, 4, 7, {}), "other", <<>>)
More  == From("A", Id(5, 4, 7, {"CRC32"}), "more", <<"crc">>)
Ping  == From("A", Id(5, 4, 1, {}), "ping", <<>>)
Dgram == From("B", Id(9, 8, 8, {"CRC32", "HMAC"}), "hello", <<"hmac", "crc">>)
Plain == From("B", Id(9, 8, 8, {}), "hello", <<>>)
Cross == From("A", Id(5, 9, 7, {"CRC32"}), "hello", <<"crc">>)
Again == From("C", Id(5, 9, 7, {"CRC32"}), "hello", <<"crc">>)
Stray == From("A", Id(5, 5, 7, {}), "hello", <<>>)
Far   == From("A", Id(5, 13, 7, {}), "hello", <<>>)

Peek  == From("A", Id(5, 4, 0, {}), "peek_long", <<>>)

Scene(traffic, asked, pair, promisc, arrived, requests, lasts) ==
    [traffic |-> traffic, calls |-> asked, bridge |-> pair, promisc |-> promisc,
     arrivals |-> arrived, requests |-> requests, time |-> lasts]
Asks(c) == [call |-> c, dest |-> 0]
Away == [call |-> csp_reboot, dest |-> 9]
Memfree == [csp_get_memfree EXCEPT !.flags = {"CRC32"}]
Services ==
    {Asks(c) : c \in {csp_get_uptime, csp_get_buf_free, csp_shutdown} \cup {csp_cmp(code) : code \in DOMAIN CMP_SIZE}}
mc_Symmetry == Permutations(Clients)
mc_Scenes ==
    {Scene({Hello, Noise, Other}, {}, <<>>, FALSE, 3, 0, 0),
     Scene({}, {Asks(csp_ping), Asks(Memfree)}, <<>>, FALSE, 0, 2, 0),
     Scene({Peek}, Services, <<>>, FALSE, 1, 1, 0),
     Scene({}, {Asks(csp_ping_noreply), Away}, <<>>, FALSE, 0, 3, 0),
     Scene({Hello, More}, {Away}, <<>>, FALSE, 3, 2, 0),
     Scene({Cross, Again, Stray, Far}, {}, <<>>, TRUE, 3, 0, 1),
     Scene({Cross, Dgram}, {}, <<"A", "B">>, TRUE, 3, 0, 1),
     Scene({Dgram, Plain, Ping}, {}, <<>>, TRUE, 3, 0, 0)}
=============================================================================
