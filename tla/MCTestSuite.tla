---------------------------- MODULE MCTestSuite -----------------------------
EXTENDS TestSuite

Mut(id, probe, field, op, v) == [id |-> id, probe |-> probe, field |-> field, op |-> op, v |-> v]

\* Mutants of fault_model_libcsp.csv, by their number: one of every probe, field
\* and operator that changes the verdict of a test, or is claimed to.
mc_Mutants ==
    {Mut(1, "read", "src", "set", 32), Mut(3, "read", "dst", "set", 32),
     Mut(8, "read", "dport", "add", 1), Mut(11, "read", "sport", "set", 7),
     Mut(16, "read", "flags", "bit", "CRC32"),
     Mut(21, "send", "pri", "set", 4), Mut(22, "send", "pri", "below", 3),
     Mut(24, "send", "src", "set", 32), Mut(26, "send", "dst", "set", 32),
     Mut(31, "send", "dport", "add", 1), Mut(32, "send", "dport", "add", -1),
     Mut(34, "send", "sport", "set", 7), Mut(37, "send", "sport", "add", 1),
     Mut(39, "send", "flags", "bit", "CRC32"), Mut(42, "send", "flags", "bit", "HMAC")}
\* Tests 2 and 3, whose client does not wait for the server, with the mutants
\* their oracles are about, test 1 with those it kills and some that survive,
\* the short ones with all.  Ten rounds of 300 ms keep the arrays of test_04,
\* fifteen of 200 ms do not.
mc_Campaign ==
    LET With(ids) == {NoMutant} \cup {m \in mc_Mutants : m.id \in ids}
        Runs(tests, paces, muts, orders) ==
            [test : tests, pace : paces, mut : muts, overtakes : orders]
    IN  Runs({4, 5}, {2, 3}, mc_Mutants \cup {NoMutant}, {TRUE})
        \cup Runs({1}, {2}, With({8, 24, 26, 31, 34, 39}), {TRUE})
        \cup Runs({2}, {2}, {NoMutant}, {TRUE})
        \cup Runs({2}, {2}, With({21, 22}), {FALSE})
        \cup Runs({3}, {2}, With({1, 24}), {FALSE})
mc_IfList == <<"lo">>
mc_Iface == [i \in {"lo"} |-> [addr |-> 0, netmask |-> 14, mtu |-> 0]]
mc_Sockets == <<{}>>
mc_CmpRoute == [addr |-> 8, mask |-> 14, i |-> "lo", via |-> -1]
=============================================================================
