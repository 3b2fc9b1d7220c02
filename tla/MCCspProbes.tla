---------------------------- MODULE MCCspProbes -----------------------------
(* CspProbes for TLC: the fault models of libcsp, and a third one with the    *)
(* operators that the csv file of libcsp does not use.                        *)
EXTENDS CspProbes, TLC

Other_FM ==
    [min |-> 43, max |-> 52,
     items |-> (0 :> Item("INT",
                    (0 :> Threshold("VBT", 2)) @@ (1 :> Threshold("FVBT", 2)) @@
                    (2 :> [type |-> "IV", value |-> 3]) @@
                    (3 :> [type |-> "HV", value |-> 2]) @@
                    (4 :> [type |-> "ASA", threshold |-> 2, delta |-> 1, value |-> 2]) @@
                    (5 :> [type |-> "INV", min |-> 2, max |-> 2]))) @@
               (1 :> Item("LONG", (0 :> [type |-> "HV", value |-> 2]) @@
                                  (1 :> [type |-> "ASA", threshold |-> 2, delta |-> 1, value |-> 2]))) @@
               (6 :> Item("BIN",  (3 :> [type |-> "BF", min |-> 0, max |-> 2,
                                         state |-> 2, value |-> 2])))]

AllModels == ("Read" :> Read_FM) @@ ("Send" :> Send_FM) @@ ("Other" :> Other_FM)

Row(i, o) == [item |-> i, op |-> o, opt |-> 0]

AllMutants == LibcspMutants \o <<Row(0,0), Row(0,1), Row(0,2), Row(0,3), Row(0,4),
                                 Row(0,5), Row(1,0), Row(1,1), Row(6,3)>>

AllIds == -3 .. 51
OneTaskEach == [t \in {"reader", "sender", "other"} |->
                  CASE t = "reader" -> "Read" [] t = "sender" -> "Send" [] OTHER -> "Other"]

\* Identifiers of connections of the test suite: priorities 2 and 6, the ports
\* at the ends of their ranges, with and without the CRC flag.
Connections == {<<2, 0, 0, 10, 8, 0>>, <<6, 0, 31, 30, 0, 1>>}
AllInputs == [p \in {"Read", "Send", "Other"} |->
                IF p = "Other" THEN {[i \in {0, 1, 6} |-> v] : v \in {1, 3}} ELSE Connections]

TruncAll(p, item, v) == IF p = "Other" THEN v ELSE StoreBack(item, v)
=============================================================================
