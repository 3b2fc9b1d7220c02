----------------------------- MODULE CspProbes ------------------------------
(* The generated part of FAQAS_dataDrivenMutator.h and the probes it serves   *)
(* in csp_read and csp_send (src/csp_io.c): the fault models Read and Send    *)
(* over the identifiers conn->idin and conn->idout, whose fields are copied   *)
(* to a buffer of integers, mutated and copied back.                          *)
EXTENDS Mutator, CspId

CONSTANT Versions   \* the header versions the identifiers are packed with

\* Buffer positions of the fields of csp_id_t.
Field == <<"pri", "src", "dst", "dport", "sport", "flags">>

Between(type, lo, hi) == [type |-> type, min |-> lo, max |-> hi, delta |-> 1]
Threshold(type, thr) == [type |-> type, threshold |-> thr, delta |-> 1]
Shift(d) == [type |-> "SS", delta |-> d]
\* Mutant: state 2, the bit is flipped back and forth.
FlipBit(b) == [type |-> "BF", min |-> b, max |-> b, state |-> 2, value |-> 1]

SetBit(b) == [type |-> "BF", min |-> b, max |-> b, state |-> 0, value |-> 1]

Item(type, ops) == [type |-> type, ops |-> ops]

Node == Item("INT", [o \in 0 .. 1 |-> IF o = 0 THEN Between("INV", 0, 31) ELSE Threshold("VAT", 31)])
Port == Item("INT", [o \in 0 .. 4 |-> <<Between("INV", 8, 30), Between("VOR", 8, 30),
                                        Between("FVOR", 8, 30), Shift(1), Shift(-1)>>[o + 1]])
Flags == Item("BIN", [b \in 0 .. 3 |-> SetBit(b)])
Priority == Item("INT", [o \in 3 .. 5 |-> <<Between("INV", 0, 3), Threshold("VAT", 3),
                                            Threshold("FVAT", 3)>>[o - 2]])

\* Only the items and operators that are assigned; the rest of the block that
\* _FAQAS_create_FM allocates is never initialised.
Read_FM ==
    [min |-> 0, max |-> 20, items |-> [k \in 2 .. 6 |-> <<Node, Node, Port, Port, Flags>>[k - 1]]]

Send_FM ==
    [min |-> 20, max |-> 43, items |-> <<Priority, Node, Node, Port, Port, Flags>>]

\* Mutants 0 .. 42, one row of the csv file after the other; VOR has two.
selectItem == <<2,2, 3,3, 4,4,4,4,4,4, 5,5,5,5,5,5, 6,6,6,6,
                1,1,1, 2,2, 3,3, 4,4,4,4,4,4, 5,5,5,5,5,5, 6,6,6,6>>

selectOperator == <<0,1, 0,1, 0,1,1,2,3,4, 0,1,1,2,3,4, 0,1,2,3,
                    3,4,5, 0,1, 0,1, 0,1,1,2,3,4, 0,1,1,2,3,4, 0,1,2,3>>

selectOperation == [k \in 1 .. 43 |-> IF k - 1 \in {6, 12, 29, 35} THEN 1 ELSE 0]

LibcspMutants ==
    [k \in 1 .. 43 |-> [item |-> selectItem[k], op |-> selectOperator[k],
                        opt |-> selectOperation[k]]]

\* The fault models of libcsp are among those that are compiled in, with the first
\* rows of the csv file; others come behind them.
ASSUME LibcspAssumption ==
    /\ {"Read", "Send"} \subseteq Probes /\ ProbeOf \in [Tasks -> Probes]
    /\ Models["Read"] = Read_FM /\ Models["Send"] = Send_FM
    /\ \A k \in 1 .. 43 : Mutants[k] = LibcspMutants[k]
    /\ \A p \in Probes \ {"Read", "Send"} : Models[p].min \in Int /\ Models[p].min >= Send_FM.max
    /\ Ids \subseteq Int

\* The fields are uint8_t except the addresses, which are uint16_t.
StoreBack(item, v) == IF item \in {2, 3} THEN v % 65536 ELSE v % 256

\* The identifier that csp_send gives to the packet after its probe.
SentId == [f \in Fields |-> data["Send"][CHOOSE i \in 1 .. 6 : Field[i] = f]]

-----------------------------------------------------------------------------
\* A task that works with a fault model has a complete one: never one that
\* another call is still filling (the pointer is set first), nor one that
\* _FAQAS_delete_FM or the exit handler has freed.
ModelReady ==
    \A t \in Tasks : pc[t] = "mutate" => ptr[ProbeOf[t]] = "ready"

\* For the mutants of libcsp, lines that report an applied mutation carry different values of
\* global_mutation_counter, and a mutant is only ever reported as applied by the
\* one probe whose fault model holds its row of the csv file.
AppliedLinesIdentified ==
    \A i, j \in 1 .. Len(log) :
        log[i].status = 1 /\ log[j].status = 1 /\ mutation < Send_FM.max =>
            /\ log[i].counter = log[j].counter => i = j
            /\ log[i].probe = log[j].probe

\* The threshold, range and bit operators of libcsp leave a value they no longer
\* apply to, and the probe stores it in the connection: after the first
\* application the later calls on that connection report NOT_APPLIED.  FVAT and
\* VAT on one threshold are the case where a wrong delta would make it oscillate.
AppliedOncePerConnection ==
    \A p \in {"Read", "Send"} :
        mutation >= 0 /\ InRange(p) =>
            LET m == Mutants[mutation + 1]
            IN  Models[p].items[m.item].ops[m.op].type \in {"VOR", "VAT", "FVAT", "BF"}
                    => applied[p] <= 1

\* The value an applied operator of the csv file leaves is of its fault class:
\* outside the range (VOR), inside it (FVOR, INV), above or below the threshold.
InClass(op, v) ==
    CASE op.type = "VOR"  -> v \notin op.min .. op.max
      [] op.type \in {"FVOR", "INV"} -> v \in op.min .. op.max
      [] op.type \in {"VAT", "FVBT"} -> v > op.threshold
      [] op.type \in {"FVAT", "VBT"} -> v < op.threshold
      [] op.type = "IV" -> v = op.value
      [] OTHER -> TRUE

\* A call that reports status 1 for a mutant of libcsp has changed the item its
\* row names to a value of the fault class, and nothing else of any identifier;
\* a call that changes anything writes a line (README.md:126, the probes "modify
\* the SUT's buffer data" and the coverage counts on what they report).
AppliedIsReal ==
    [][\A t \in Tasks :
          LET p == ProbeOf[t]
              m == Mutants[mutation + 1]
              lineOfCall == log'[Len(log')]
          IN  pc[t] = "mutate" /\ pc'[t] = "idle" =>
                /\ data' # data => Len(log') = Len(log) + 1
                /\ Len(log') > Len(log) /\ lineOfCall.status = 1 =>
                    /\ p \in {"Read", "Send"} => data'[p][m.item] # data[p][m.item]
                    /\ InClass(Models[p].items[m.item].ops[m.op], data'[p][m.item])
                    /\ \A q \in Probes : \A i \in DOMAIN data[q] :
                         <<q, i>> # <<p, m.item>> => data'[q][i] = data[q][i]]_vars

\* The header of a packet carries the identifier that csp_send has left: packing
\* and parsing agree on both versions.  A field that a mutant has pushed past its
\* width is not masked, its excess bits go to the fields above it, and only there.
HeaderFaithful ==
    \A v \in Versions :
        LET at   == Layout(v)
            got  == csp_id_strip(v, csp_id_prepend(v, SentId))
            wide == {g \in Fields : SentId[g] >= 2^at[g].size}
        IN  \A f \in Fields \ wide :
                (\A g \in wide : at[f].off < at[g].off \/ at[f].off > at[g].off + 15)
                    => got[f] = SentId[f]
=============================================================================
