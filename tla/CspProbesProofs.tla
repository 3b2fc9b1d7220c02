-------------------------- MODULE CspProbesProofs ---------------------------
(***************************************************************************)
(* Proofs about the probes for any number of tasks and calls, any order of *)
(* them, any identifiers and any further fault models: a task never works  *)
(* with an incomplete fault model as long as no two tasks share a probe,   *)
(* the coverage file identifies the applied mutations, and a mutation that *)
(* it reports was one, and on a connection is one once.                    *)
(***************************************************************************)
EXTENDS CspProbes, DataLemmas

-----------------------------------------------------------------------------
(* The fault model of a probe over its life.                               *)

\* A model that is being filled is being filled by a task.
Filled(p) == ptr[p] = "filling" => \E t \in Tasks : ProbeOf[t] = p /\ pc[t] = "fill"

ModelInv ==
    /\ ptr \in [Probes -> {"null", "filling", "ready"}]
    /\ pc \in [Tasks -> {"idle", "fill", "mutate", "exited"}]
    /\ \A t \in Tasks : pc[t] = "fill" => ptr[ProbeOf[t]] = "filling"
    /\ \A p \in Probes : Filled(p)
    /\ ModelReady

\* One task per probe.
Alone == \A t, u \in Tasks : ProbeOf[t] = ProbeOf[u] => t = u

\* With a singleton the end of a call leaves the model as it is.
LEMMA ReturnKeepsModels ==
    ASSUME Singleton, ModelInv, NEW t \in Tasks, pc[t] = "mutate", Return(t)
    PROVE  ModelInv'
<1>1. ptr' = ptr /\ pc' = [pc EXCEPT ![t] = "idle"]
  BY LibcspAssumption DEF Return, DeleteModel, ModelInv
<1>2. pc' \in [Tasks -> {"idle", "fill", "mutate", "exited"}]
  BY <1>1 DEF ModelInv
<1>3. \A p \in Probes : Filled(p)'
  BY <1>1 DEF ModelInv, Filled
<1> QED BY <1>1, <1>2, <1>3 DEF ModelInv, ModelReady

\* The first call publishes the pointer and fills the model; a later one finds it
\* complete, because the task that would still be filling it is the caller.
LEMMA GetModelKeeps ==
    ASSUME Alone, ModelInv, NEW t \in Tasks, GetModel(t)
    PROVE  ModelInv'
<1> DEFINE p == ProbeOf[t]
<1>0. p \in Probes /\ pc[t] = "idle"
  BY LibcspAssumption DEF GetModel
<1>1. CASE ptr[p] = "null"
  <2>1. ptr' = [ptr EXCEPT ![p] = "filling"] /\ pc' = [pc EXCEPT ![t] = "fill"]
    BY <1>1 DEF GetModel
  <2>2. /\ ptr' \in [Probes -> {"null", "filling", "ready"}]
        /\ pc' \in [Tasks -> {"idle", "fill", "mutate", "exited"}]
    BY <2>1 DEF ModelInv
  <2>3. \A u \in Tasks : pc'[u] = "fill" => ptr'[ProbeOf[u]] = "filling"
    BY <1>0, <2>1, LibcspAssumption DEF ModelInv
  <2>4. \A q \in Probes : Filled(q)'
    BY <1>0, <2>1 DEF ModelInv, Filled
  <2>5. ModelReady'
    BY <1>0, <1>1, <2>1, LibcspAssumption DEF ModelInv, ModelReady, Alone
  <2> QED BY <2>2, <2>3, <2>4, <2>5 DEF ModelInv
<1>2. CASE ptr[p] # "null"
  <2>1. ptr' = ptr /\ pc' = [pc EXCEPT ![t] = "mutate"]
    BY <1>2 DEF GetModel
  <2>2. ptr[p] = "ready"
    BY <1>0, <1>2 DEF ModelInv, Filled, Alone
  <2>3. pc' \in [Tasks -> {"idle", "fill", "mutate", "exited"}]
    BY <2>1 DEF ModelInv
  <2>4. \A q \in Probes : Filled(q)'
    BY <1>0, <2>1 DEF ModelInv, Filled
  <2> QED BY <1>0, <2>1, <2>2, <2>3, <2>4 DEF ModelInv, ModelReady
<1> QED BY <1>1, <1>2

\* The task that fills the model completes it.
LEMMA FillModelKeeps ==
    ASSUME Alone, ModelInv, NEW t \in Tasks, FillModel(t)
    PROVE  ModelInv'
<1> DEFINE p == ProbeOf[t]
<1>0. p \in Probes /\ pc[t] = "fill"
  BY LibcspAssumption DEF FillModel
<1>1. ptr' = [ptr EXCEPT ![p] = "ready"] /\ pc' = [pc EXCEPT ![t] = "mutate"]
  BY DEF FillModel
<1>2. /\ ptr' \in [Probes -> {"null", "filling", "ready"}]
      /\ pc' \in [Tasks -> {"idle", "fill", "mutate", "exited"}]
  BY <1>1 DEF ModelInv
<1>3. \A u \in Tasks : pc'[u] = "fill" => ptr'[ProbeOf[u]] = "filling"
  BY <1>0, <1>1, LibcspAssumption DEF ModelInv, Alone
<1>4. \A q \in Probes : Filled(q)'
  BY <1>0, <1>1 DEF ModelInv, Filled
<1>5. ModelReady'
  BY <1>0, <1>1, LibcspAssumption DEF ModelInv, ModelReady
<1> QED BY <1>2, <1>3, <1>4, <1>5 DEF ModelInv

\* No task works with a fault model that is being filled or was freed, if it is a
\* singleton and no two tasks call the same probe: the check of the pointer in
\* _FAQAS_<probe>_FM is not atomic with the assignments that fill the model, and
\* this is the use for which that does not matter.
THEOREM ModelsAreReady ==
    ASSUME Singleton, Alone
    PROVE  Spec => []ModelReady
<1>1. Init => ModelInv
  BY LibcspAssumption DEF Init, ModelInv, ModelReady, Filled
<1>2. ModelInv /\ [Next]_vars => ModelInv'
  <2> SUFFICES ASSUME ModelInv, [Next]_vars PROVE ModelInv'
    OBVIOUS
  <2>1. ASSUME NEW t \in Tasks, GetModel(t) PROVE ModelInv'
    BY <2>1, GetModelKeeps
  <2>2. ASSUME NEW t \in Tasks, FillModel(t) PROVE ModelInv'
    BY <2>2, FillModelKeeps
  <2>3. ASSUME NEW t \in Tasks, CoverOnly(t) \/ NotMine(t) \/ Mutate(t) PROVE ModelInv'
    BY <2>3, ReturnKeepsModels DEF CoverOnly, NotMine, Mutate
  <2>4. CASE Exit
    BY <2>4 DEF Exit, ModelInv, ModelReady, Filled
  <2>5. CASE UNCHANGED vars
    BY <2>5 DEF vars, ModelInv, ModelReady, Filled
  <2> QED BY <2>1, <2>2, <2>3, <2>4, <2>5 DEF Next
<1>3. ModelInv => ModelReady
  BY DEF ModelInv
<1> QED BY <1>1, <1>2, <1>3, PTL DEF Spec
-----------------------------------------------------------------------------
(* The coverage file.                                                      *)

\* The operators of the csv file of libcsp; BF flips one bit.
LibcspOp(op) ==
    /\ op.type \in {"INV", "VAT", "VOR", "FVOR", "SS", "FVAT", "BF"}
    /\ op.type = "BF" => op.value = 1

\* Every row of the csv file names an item and an operator that its fault model
\* has assigned.
LEMMA RowsNameOperators ==
    ASSUME NEW k \in 1 .. 43
    PROVE  LET m == LibcspMutants[k]
           IN  /\ k <= 20 => LibcspOp(Read_FM.items[m.item].ops[m.op])
               /\ k > 20 => LibcspOp(Send_FM.items[m.item].ops[m.op])
<1> DEFINE m == LibcspMutants[k]
<1>1. m.item = selectItem[k] /\ m.op = selectOperator[k]
  BY DEF LibcspMutants
<1>2. /\ \A o \in 0 .. 1 : LibcspOp(Node.ops[o])
      /\ \A o \in 0 .. 4 : LibcspOp(Port.ops[o])
      /\ \A o \in 0 .. 3 : LibcspOp(Flags.ops[o])
      /\ \A o \in 3 .. 5 : LibcspOp(Priority.ops[o])
  BY DEF Node, Port, Flags, Priority, Item, Between, Threshold, Shift, SetBit, LibcspOp
<1>3. /\ Read_FM.items[2] = Node /\ Read_FM.items[3] = Node /\ Read_FM.items[4] = Port
      /\ Read_FM.items[5] = Port /\ Read_FM.items[6] = Flags
  BY DEF Read_FM
<1>4. /\ Send_FM.items[1] = Priority /\ Send_FM.items[2] = Node /\ Send_FM.items[3] = Node
      /\ Send_FM.items[4] = Port /\ Send_FM.items[5] = Port /\ Send_FM.items[6] = Flags
  BY DEF Send_FM
<1>5. k <= 20 => \/ selectItem[k] \in {2, 3} /\ selectOperator[k] \in 0 .. 1
                 \/ selectItem[k] \in {4, 5} /\ selectOperator[k] \in 0 .. 4
                 \/ selectItem[k] = 6 /\ selectOperator[k] \in 0 .. 3
  BY DEF selectItem, selectOperator
<1>6. k > 20 => \/ selectItem[k] = 1 /\ selectOperator[k] \in 3 .. 5
                \/ selectItem[k] \in {2, 3} /\ selectOperator[k] \in 0 .. 1
                \/ selectItem[k] \in {4, 5} /\ selectOperator[k] \in 0 .. 4
                \/ selectItem[k] = 6 /\ selectOperator[k] \in 0 .. 3
  BY DEF selectItem, selectOperator
<1>7. k <= 20 => LibcspOp(Read_FM.items[m.item].ops[m.op])
  BY <1>1, <1>2, <1>3, <1>5
<1>8. k > 20 => LibcspOp(Send_FM.items[m.item].ops[m.op])
  BY <1>1, <1>2, <1>4, <1>6
<1> QED BY <1>7, <1>8

\* An outcome of one bit flip.
LEMMA BFSets ==
    ASSUME NEW op, op.value = 1, NEW v, NEW o \in BF(op, v)
    PROVE  o.sets
<1> DEFINE Flips(S) == UNION {FlipOne(op, x) : x \in S}
           Def(f) == f = [n \in 0 .. 1 |-> IF n = 0 THEN {Out(v, 1, TRUE)} ELSE Flips(f[n - 1])]
           g == [n \in 0 .. 1 |-> IF n = 0 THEN {Out(v, 1, TRUE)} ELSE FlipOne(op, Out(v, 1, TRUE))]
<1>1. Def(g)
  OBVIOUS
<1>2. BF(op, v) = (CHOOSE f : Def(f))[1]
  BY DEF BF
<1>3. Def(CHOOSE f : Def(f))
  <2> HIDE DEF Def
  <2> QED BY <1>1, Zenon
<1> DEFINE h == CHOOSE f : Def(f)
<1>4. \E x : o \in FlipOne(op, x)
  <2>1. o \in h[1] /\ Def(h)
    BY <1>2, <1>3
  <2> HIDE DEF h
  <2> DEFINE At(n) == IF n = 0 THEN {Out(v, 1, TRUE)} ELSE Flips(h[n - 1])
  <2>2. h = [n \in 0 .. 1 |-> At(n)]
    BY <2>1
  <2>3. h[1] = At(1)
    <3> HIDE DEF At
    <3> QED BY <2>2
  <2> QED BY <2>1, <2>3
<1>5. PICK x : o \in FlipOne(op, x)
  BY <1>4
<1> QED BY <1>5 DEF FlipOne, Out

\* An operator of libcsp that reports status 1 sets _FAQAS_mutated.
LEMMA AppliedSets ==
    ASSUME NEW op, LibcspOp(op), NEW type, NEW opt, NEW v,
           NEW x \in Apply(op, type, opt, v), x.out.status = 1
    PROVE  x.out.sets
<1>1. CASE op.type = "BF"
  <2>1. x.out \in BF(op, v)
    BY <1>1 DEF Apply
  <2> QED BY <1>1, <2>1, BFSets DEF LibcspOp
<1>2. CASE op.type = "INV"
  BY <1>2 DEF Apply, INV, Redraw, Out
<1>3. CASE op.type = "FVOR"
  BY <1>3 DEF Apply, FVOR, Redraw, Out
<1>4. CASE op.type = "VOR"
  BY <1>4 DEF Apply, VOR, Ignored, NoLine, Out
<1>5. CASE op.type = "VAT"
  BY <1>5 DEF Apply, VAT, Replace, Ignored, NoLine, Out
<1>6. CASE op.type = "FVAT"
  BY <1>6 DEF Apply, FVAT, Replace, Ignored, NoLine, Out
<1>7. CASE op.type = "SS"
  BY <1>7 DEF Apply, SS, Out
<1> QED BY <1>1, <1>2, <1>3, <1>4, <1>5, <1>6, <1>7 DEF LibcspOp

\* A mutant of libcsp is in the range of one fault model.
LEMMA OneModel ==
    ASSUME mutation \in Int, mutation < Send_FM.max, NEW p \in Probes, InRange(p)
    PROVE  \/ p = "Read" /\ mutation \in 0 .. 19
           \/ p = "Send" /\ mutation \in 20 .. 42
<1>1. Read_FM.min = 0 /\ Read_FM.max = 20 /\ Send_FM.min = 20 /\ Send_FM.max = 43
  BY DEF Read_FM, Send_FM
<1>2. p \in {"Read", "Send"}
  BY LibcspAssumption, <1>1 DEF InRange
<1> QED BY <1>1, <1>2, LibcspAssumption DEF InRange

\* What is known of a line that reports an applied mutation.
AppliedLine(i) == i \in 1 .. Len(log) /\ log[i].status = 1 /\ mutation < Send_FM.max

LineOK(i) ==
    /\ log[i].counter \in Int /\ log[i].counter < counter
    /\ log[i].probe \in Probes /\ InRange(log[i].probe)

LinesInv ==
    /\ mutation \in Int /\ counter \in Int /\ IsSeq(log)
    /\ \A i \in 1 .. Len(log) : AppliedLine(i) => LineOK(i)
    /\ \A i, j \in 1 .. Len(log) :
         AppliedLine(i) /\ AppliedLine(j) /\ i < j => log[i].counter # log[j].counter

\* A line without an applied mutation, and the counter goes nowhere or up.
LEMMA OtherLine ==
    ASSUME LinesInv, mutation' = mutation, NEW line, line.status # 1, log' = Append(log, line),
           counter' = counter \/ counter' = counter + 1
    PROVE  LinesInv'
<1>1. /\ IsSeq(log') /\ Len(log') = Len(log) + 1 /\ log'[Len(log) + 1] = line
      /\ \A i \in 1 .. Len(log) : log'[i] = log[i]
  BY AppendIsSeq DEF LinesInv
<1>2. Len(log) \in Nat /\ counter \in Int /\ counter' \in Int /\ counter <= counter'
  BY DEF LinesInv, IsSeq
<1>3. \A i \in 1 .. Len(log') : AppliedLine(i)' => i \in 1 .. Len(log) /\ AppliedLine(i) /\ log'[i] = log[i]
  BY <1>1, <1>2 DEF AppliedLine
<1>4. ASSUME NEW i \in 1 .. Len(log'), AppliedLine(i)' PROVE LineOK(i)'
  <2>1. i \in 1 .. Len(log) /\ LineOK(i) /\ log'[i] = log[i]
    BY <1>3, <1>4 DEF LinesInv
  <2> QED BY <1>2, <2>1 DEF LineOK, InRange
<1>5. \A i, j \in 1 .. Len(log') :
         AppliedLine(i)' /\ AppliedLine(j)' /\ i < j => log'[i].counter # log'[j].counter
  BY <1>3 DEF LinesInv
<1>6. mutation' \in Int
  BY DEF LinesInv
<1> QED BY <1>1, <1>2, <1>4, <1>5, <1>6 DEF LinesInv

\* No line.
LEMMA NoNewLine ==
    ASSUME LinesInv, mutation' = mutation, log' = log, counter' = counter \/ counter' = counter + 1
    PROVE  LinesInv'
<1>1. counter \in Int /\ counter' \in Int /\ counter <= counter'
  BY DEF LinesInv
<1>2. \A i : AppliedLine(i)' <=> AppliedLine(i)
  BY DEF AppliedLine
<1>3. \A i \in 1 .. Len(log) : LineOK(i) => LineOK(i)'
  BY <1>1 DEF LineOK, InRange
<1> QED BY <1>1, <1>2, <1>3 DEF LinesInv

\* A line that reports an applied mutation has the counter to itself.
LEMMA NewLine ==
    ASSUME LinesInv, mutation' = mutation, NEW p \in Probes, InRange(p),
           log' = Append(log, Line(p, 1)), mutation < Send_FM.max => counter' = counter + 1,
           counter' = counter \/ counter' = counter + 1
    PROVE  LinesInv'
<1> DEFINE line == Line(p, 1)
<1>0. line.counter = counter /\ line.probe = p
  BY DEF Line
<1> HIDE DEF line
<1>1. /\ IsSeq(log') /\ Len(log') = Len(log) + 1 /\ log'[Len(log) + 1] = line
      /\ \A i \in 1 .. Len(log) : log'[i] = log[i]
  BY AppendIsSeq DEF LinesInv, line
<1>2. Len(log) \in Nat /\ counter \in Int /\ counter' \in Int /\ counter <= counter'
  BY DEF LinesInv, IsSeq
<1>3. \A i \in 1 .. Len(log') : AppliedLine(i)' =>
        \/ i \in 1 .. Len(log) /\ AppliedLine(i) /\ log'[i] = log[i]
        \/ i = Len(log) + 1 /\ log'[i] = line /\ counter' = counter + 1
  BY <1>1, <1>2 DEF AppliedLine
<1>4. ASSUME NEW i \in 1 .. Len(log'), AppliedLine(i)' PROVE LineOK(i)'
  <2>1. CASE i \in 1 .. Len(log) /\ AppliedLine(i) /\ log'[i] = log[i]
    <3>1. LineOK(i)
      BY <2>1 DEF LinesInv
    <3> QED BY <1>2, <2>1, <3>1 DEF LineOK, InRange
  <2>2. CASE i = Len(log) + 1 /\ log'[i] = line /\ counter' = counter + 1
    BY <1>0, <1>2, <2>2 DEF LineOK, InRange
  <2> QED BY <1>3, <1>4, <2>1, <2>2
<1>5. ASSUME NEW i \in 1 .. Len(log'), NEW j \in 1 .. Len(log'), AppliedLine(i)', AppliedLine(j)', i < j
      PROVE  log'[i].counter # log'[j].counter
  <2>1. i \in 1 .. Len(log) /\ AppliedLine(i) /\ log'[i] = log[i]
    BY <1>1, <1>2, <1>3, <1>5
  <2>2. CASE j \in 1 .. Len(log) /\ AppliedLine(j) /\ log'[j] = log[j]
    BY <1>5, <2>1, <2>2 DEF LinesInv
  <2>3. CASE log'[j] = line
    <3>1. LineOK(i)
      BY <2>1 DEF LinesInv
    <3> QED BY <1>0, <1>2, <2>1, <2>3, <3>1 DEF LineOK
  <2> QED BY <1>3, <1>5, <2>2, <2>3
<1>6. mutation' \in Int
  BY DEF LinesInv
<1> QED BY <1>1, <1>2, <1>4, <1>5, <1>6 DEF LinesInv

\* _FAQAS_mutate: what is reported as applied was counted.
LEMMA MutateKeepsLines ==
    ASSUME LinesInv, NEW t \in Tasks, Mutate(t)
    PROVE  LinesInv'
<1> DEFINE p == ProbeOf[t]
           m == Mutants[mutation + 1]
           item == Models[p].items[m.item]
           op == item.ops[m.op]
<1>0. p \in Probes /\ InRange(p) /\ mutation' = mutation /\ mutation \in Int
  BY LibcspAssumption DEF Mutate, LinesInv
<1>1. PICK x \in Apply(op, item.type, m.opt, data[p][m.item]) :
        /\ mutated' = (mutated \/ x.out.sets)
        /\ log' = IF x.out.status = NoLine THEN log ELSE Append(log, Line(p, x.out.status))
        /\ Store(p, m.item, x.out.v)
  BY DEF Mutate
<1>2. counter' = counter \/ counter' = counter + 1
  BY <1>1 DEF Store
<1>3. mutated' => counter' = counter + 1
  BY <1>1 DEF Store
<1>4. CASE x.out.status = NoLine
  BY <1>0, <1>1, <1>2, <1>4, NoNewLine
<1>5. CASE x.out.status # NoLine /\ x.out.status # 1
  <2> DEFINE line == Line(p, x.out.status)
  <2>1. line.status # 1 /\ log' = Append(log, line)
    BY <1>1, <1>5 DEF Line
  <2> HIDE DEF line
  <2> QED BY <1>0, <1>2, <2>1, OtherLine
<1>6. CASE x.out.status = 1
  <2>1. log' = Append(log, Line(p, 1))
    BY <1>1, <1>6 DEF NoLine
  <2>2. ASSUME mutation < Send_FM.max PROVE counter' = counter + 1
    <3>1. \/ p = "Read" /\ mutation \in 0 .. 19
          \/ p = "Send" /\ mutation \in 20 .. 42
      BY <1>0, <2>2, OneModel
    <3>2. m = LibcspMutants[mutation + 1] /\ mutation + 1 \in 1 .. 43
      BY <3>1, LibcspAssumption
    <3>3. LibcspOp(op)
      <4> DEFINE k == mutation + 1
      <4>0. k \in 1 .. 43
        BY <3>2
      <4>1. CASE p = "Read" /\ mutation \in 0 .. 19
        <5>1. LibcspOp(Read_FM.items[LibcspMutants[k].item].ops[LibcspMutants[k].op])
          <6>1. k <= 20
            BY <4>1
          <6> HIDE DEF k
          <6> QED BY <4>0, <6>1, RowsNameOperators
        <5> QED BY <3>2, <4>1, <5>1, LibcspAssumption
      <4>2. CASE p = "Send" /\ mutation \in 20 .. 42
        <5>1. LibcspOp(Send_FM.items[LibcspMutants[k].item].ops[LibcspMutants[k].op])
          <6>1. k > 20
            BY <4>2
          <6> HIDE DEF k
          <6> QED BY <4>0, <6>1, RowsNameOperators
        <5> QED BY <3>2, <4>2, <5>1, LibcspAssumption
      <4> QED BY <3>1, <4>1, <4>2
    <3> HIDE DEF op
    <3>4. x.out.sets
      BY <1>6, <3>3, AppliedSets
    <3>5. mutated'
      BY <1>1, <3>4
    <3> QED BY <1>3, <3>5
  <2> QED BY <1>0, <1>2, <2>1, <2>2, NewLine
<1> QED BY <1>4, <1>5, <1>6

\* However many tasks call the probes of libcsp and however their calls
\* interleave, two lines of the coverage file that report an applied mutation have
\* different counters, and one probe writes all of them.
THEOREM LinesAreIdentified == Spec => []AppliedLinesIdentified
<1>1. Init => LinesInv
  <2> SUFFICES ASSUME Init PROVE LinesInv
    OBVIOUS
  <2>1. log = <<>> /\ counter = 1 /\ mutation \in Int
    BY LibcspAssumption DEF Init
  <2> QED BY <2>1, EmptyIsSeq DEF LinesInv
<1>2. LinesInv /\ [Next]_vars => LinesInv'
  <2> SUFFICES ASSUME LinesInv, [Next]_vars PROVE LinesInv'
    OBVIOUS
  <2>1. ASSUME NEW t \in Tasks, GetModel(t) \/ FillModel(t) \/ CoverOnly(t) PROVE LinesInv'
    BY <2>1, NoNewLine DEF GetModel, FillModel, CoverOnly
  <2>2. ASSUME NEW t \in Tasks, NotMine(t) PROVE LinesInv'
    <3> DEFINE line == Line(ProbeOf[t], 0)
    <3>1. line.status # 1 /\ log' = Append(log, line) /\ mutation' = mutation /\ counter' = counter
      BY <2>2 DEF NotMine, Line
    <3> HIDE DEF line
    <3> QED BY <3>1, OtherLine
  <2>3. ASSUME NEW t \in Tasks, Mutate(t) PROVE LinesInv'
    BY <2>3, MutateKeepsLines
  <2>4. CASE Exit \/ UNCHANGED vars
    BY <2>4, NoNewLine DEF Exit, vars
  <2> QED BY <2>1, <2>2, <2>3, <2>4 DEF Next
<1>3. LinesInv => AppliedLinesIdentified
  <2> SUFFICES ASSUME LinesInv, NEW i \in 1 .. Len(log), NEW j \in 1 .. Len(log),
                      log[i].status = 1, log[j].status = 1, mutation < Send_FM.max
               PROVE  /\ log[i].counter = log[j].counter => i = j
                      /\ log[i].probe = log[j].probe
    BY DEF AppliedLinesIdentified
  <2>1. AppliedLine(i) /\ AppliedLine(j)
    BY DEF AppliedLine
  <2>2. log[i].counter = log[j].counter => i = j
    <3>1. i \in Int /\ j \in Int
      BY DEF LinesInv, IsSeq
    <3>2. i < j \/ j < i \/ i = j
      BY <3>1
    <3> QED BY <2>1, <3>2 DEF LinesInv
  <2>3. log[i].probe = log[j].probe
    <3>1. /\ log[i].probe \in Probes /\ InRange(log[i].probe) /\ mutation \in Int
          /\ log[j].probe \in Probes /\ InRange(log[j].probe)
      BY <2>1 DEF LinesInv, LineOK
    <3>2. /\ \/ log[i].probe = "Read" /\ mutation \in 0 .. 19
             \/ log[i].probe = "Send" /\ mutation \in 20 .. 42
          /\ \/ log[j].probe = "Read" /\ mutation \in 0 .. 19
             \/ log[j].probe = "Send" /\ mutation \in 20 .. 42
      BY <3>1, OneModel
    <3>3. ~ (mutation \in 0 .. 19 /\ mutation \in 20 .. 42)
      BY <3>1
    <3> QED BY <3>2, <3>3, Zenon
  <2> QED BY <2>2, <2>3
<1> QED BY <1>1, <1>2, <1>3, PTL DEF Spec

-----------------------------------------------------------------------------
(* Once per connection.                                                    *)

\* The operators that AppliedOncePerConnection is about.
OnceTypes == {"VOR", "VAT", "FVAT", "BF"}

\* The number of values of a field of csp_id_t: uint16_t for the addresses.
Width(item) == IF item \in {2, 3} THEN 65536 ELSE 256

\* All that is needed of it.
IsWidth(W) == W \in Nat /\ W % 16 = 0 /\ W >= 64

\* The callers are csp_read and csp_send: a connection has an identifier, its
\* fields hold every value of their width, and the probe's integers are cut to it.
LibcspCalls ==
    \A p \in {"Read", "Send"} :
        /\ Inputs[p] # {} /\ Inputs[p] \subseteq [1 .. 6 -> Nat]
        /\ \A d \in Inputs[p] : \A i \in 1 .. 6 : d[i] < Width(i)
        /\ \A i \in 1 .. 6 : \A v \in -1 .. Width(i) : Trunc(p, i, v) = StoreBack(i, v)

\* What the csv file of libcsp says of its operators.
Charted(op, type) ==
    /\ op.type = "VOR" => type = "INT" /\ op.min = 8 /\ op.max = 30 /\ op.delta = 1
    /\ op.type \in {"INV", "FVOR"} => type = "INT" /\ op.min \in 0 .. 8 /\ op.max \in op.min + 1 .. 31
    /\ op.type \in {"VAT", "FVAT"} => type = "INT" /\ op.threshold \in {3, 31} /\ op.delta = 1
    /\ op.type = "SS" => type = "INT" /\ op.delta \in {-1, 1}
    /\ op.type = "BF" => op.min \in 0 .. 3 /\ op.max = op.min /\ op.state = 0 /\ op.value = 1

\* The operator has no more to do on the value v.
Spent(op, v) ==
    /\ op.type = "VOR" => v \notin op.min .. op.max
    /\ op.type = "VAT" => v > op.threshold
    /\ op.type = "FVAT" => v <= op.threshold
    /\ op.type = "BF" => (v \div 2^op.min) % 2 = 1

\* The mutant, and the operator its row names in the fault model of p.
Chosen == Mutants[mutation + 1]
RowItem(p) == Models[p].items[Chosen.item]
RowOp(p) == RowItem(p).ops[Chosen.op]

\* Every row of the csv file names such an operator.
LEMMA RowsAreCharted ==
    ASSUME NEW k \in 1 .. 43
    PROVE  LET m == LibcspMutants[k]
           IN  /\ m.item \in 1 .. 6
               /\ k <= 20 => Charted(Read_FM.items[m.item].ops[m.op], Read_FM.items[m.item].type)
               /\ k > 20 => Charted(Send_FM.items[m.item].ops[m.op], Send_FM.items[m.item].type)
<1> DEFINE m == LibcspMutants[k]
           Rows(x, S) == \A o \in S : Charted(x.ops[o], x.type)
<1>1. m.item = selectItem[k] /\ m.op = selectOperator[k]
  BY DEF LibcspMutants
<1>2. /\ Rows(Node, 0 .. 1) /\ Rows(Port, 0 .. 4) /\ Rows(Flags, 0 .. 3) /\ Rows(Priority, 3 .. 5)
  BY DEF Node, Port, Flags, Priority, Item, Between, Threshold, Shift, SetBit, Charted
<1>3. /\ Read_FM.items[2] = Node /\ Read_FM.items[3] = Node /\ Read_FM.items[4] = Port
      /\ Read_FM.items[5] = Port /\ Read_FM.items[6] = Flags
  BY DEF Read_FM
<1>4. /\ Send_FM.items[1] = Priority /\ Send_FM.items[2] = Node /\ Send_FM.items[3] = Node
      /\ Send_FM.items[4] = Port /\ Send_FM.items[5] = Port /\ Send_FM.items[6] = Flags
  BY DEF Send_FM
<1>5. k <= 20 => \/ selectItem[k] \in {2, 3} /\ selectOperator[k] \in 0 .. 1
                 \/ selectItem[k] \in {4, 5} /\ selectOperator[k] \in 0 .. 4
                 \/ selectItem[k] = 6 /\ selectOperator[k] \in 0 .. 3
  BY DEF selectItem, selectOperator
<1>6. k > 20 => \/ selectItem[k] = 1 /\ selectOperator[k] \in 3 .. 5
                \/ selectItem[k] \in {2, 3} /\ selectOperator[k] \in 0 .. 1
                \/ selectItem[k] \in {4, 5} /\ selectOperator[k] \in 0 .. 4
                \/ selectItem[k] = 6 /\ selectOperator[k] \in 0 .. 3
  BY DEF selectItem, selectOperator
<1>7. k <= 20 => Charted(Read_FM.items[m.item].ops[m.op], Read_FM.items[m.item].type)
  BY <1>1, <1>2, <1>3, <1>5
<1>8. k > 20 => Charted(Send_FM.items[m.item].ops[m.op], Send_FM.items[m.item].type)
  BY <1>1, <1>2, <1>4, <1>6
<1>9. m.item \in 1 .. 6
  BY <1>1, <1>5, <1>6
<1> QED BY <1>7, <1>8, <1>9

\* With one bit to flip the loop of BF has one turn.
LEMMA BFOneTurn ==
    ASSUME NEW op, op.value = 1, NEW v
    PROVE  BF(op, v) = FlipOne(op, Out(v, 1, TRUE))
<1> DEFINE Flips(S) == UNION {FlipOne(op, x) : x \in S}
           Def(f) == f = [n \in 0 .. 1 |-> IF n = 0 THEN {Out(v, 1, TRUE)} ELSE Flips(f[n - 1])]
           g == [n \in 0 .. 1 |-> IF n = 0 THEN {Out(v, 1, TRUE)} ELSE FlipOne(op, Out(v, 1, TRUE))]
<1>1. Def(g)
  OBVIOUS
<1>2. BF(op, v) = (CHOOSE f : Def(f))[1]
  BY DEF BF
<1>3. Def(CHOOSE f : Def(f))
  <2> HIDE DEF Def
  <2> QED BY <1>1, Zenon
<1> DEFINE h == CHOOSE f : Def(f)
<1>4. BF(op, v) = h[1] /\ Def(h)
  BY <1>2, <1>3
<1> HIDE DEF h
<1> DEFINE At(n) == IF n = 0 THEN {Out(v, 1, TRUE)} ELSE Flips(h[n - 1])
<1>5. h = [n \in 0 .. 1 |-> At(n)]
  BY <1>4
<1>6. h[1] = At(1) /\ h[0] = At(0)
  <2> HIDE DEF At
  <2> QED BY <1>5
<1>7. h[0] = {Out(v, 1, TRUE)} /\ h[1] = Flips(h[0])
  <2>1. At(0) = {Out(v, 1, TRUE)} /\ At(1) = Flips(h[1 - 1])
    <3> HIDE DEF Flips
    <3> QED OBVIOUS
  <2>2. 1 - 1 = 0
    OBVIOUS
  <2>3. Flips(h[1 - 1]) = Flips(h[0])
    <3> HIDE DEF Flips
    <3> QED BY <2>2, Zenon
  <2> HIDE DEF Flips, At
  <2> QED BY <1>6, <2>1, <2>3
<1>8. Flips({Out(v, 1, TRUE)}) = FlipOne(op, Out(v, 1, TRUE))
  OBVIOUS
<1> HIDE DEF Flips
<1> QED BY <1>4, <1>7, <1>8

\* A bit that is set stays set, and within the width of the field.
LEMMA SetBitOnce ==
    ASSUME NEW v \in Nat, NEW w \in {1, 2, 4, 8}, NEW W, IsWidth(W), v < W
    PROVE  /\ (v \div w) % 2 \in {0, 1}
           /\ (v \div w) % 2 = 0 => v + w \in 0 .. W - 1 /\ ((v + w) \div w) % 2 = 1
<1> USE DEF IsWidth
<1>1. CASE w = 1
  BY <1>1
<1>2. CASE w = 2
  BY <1>2
<1>3. CASE w = 4
  BY <1>3
<1>4. CASE w = 8
  BY <1>4
<1> QED BY <1>1, <1>2, <1>3, <1>4

\* One bit set, or nothing to set.
LEMMA BFOnce ==
    ASSUME NEW op, op.type = "BF", Charted(op, "BIN"), NEW v \in Nat, NEW W, IsWidth(W), v < W, NEW o \in BF(op, v)
    PROVE  /\ o.v \in 0 .. W - 1
           /\ IF o.status = 1 THEN ~Spent(op, v) /\ Spent(op, o.v) ELSE o.v = v
<1> DEFINE w == 2^op.min
<1>1. op.value = 1 /\ op.state = 0 /\ op.min \in 0 .. 3 /\ op.max = op.min
  BY DEF Charted
<1>2. 2^0 = 1 /\ 2^1 = 2 /\ 2^2 = 4 /\ 2^3 = 8
  OBVIOUS
<1>3. op.min \in {0, 1, 2, 3}
  BY <1>1
<1>4. w \in {1, 2, 4, 8}
  <2>1. CASE op.min = 0
    BY <2>1, <1>2
  <2>2. CASE op.min = 1
    BY <2>2, <1>2
  <2>3. CASE op.min = 2
    BY <2>3, <1>2
  <2>4. CASE op.min = 3
    BY <2>4, <1>2
  <2> QED BY <1>3, <2>1, <2>2, <2>3, <2>4
<1>5. /\ Spent(op, v) <=> (v \div w) % 2 = 1
      /\ Spent(op, v + w) <=> ((v + w) \div w) % 2 = 1
  BY Zenon DEF Spent
<1>6. o \in FlipOne(op, Out(v, 1, TRUE))
  BY <1>1, BFOneTurn
<1> HIDE DEF w
<1>7. /\ (v \div w) % 2 \in {0, 1}
      /\ (v \div w) % 2 = 0 => v + w \in 0 .. W - 1 /\ ((v + w) \div w) % 2 = 1
  BY <1>4, SetBitOnce
<1> DEFINE was == (v \div w) % 2
<1>8. (was = 0 /\ o = Out(v + w, 1, TRUE)) \/ (was = 1 /\ o = Out(v, 0, TRUE))
  <2> DEFINE p == op.min
             z == Out(v, 1, TRUE)
             bit(q) == (z.v \div 2^q) % 2
             flip(q) == IF bit(q) = 0 THEN z.v + 2^q ELSE z.v - 2^q
             range == op.min .. op.max
             good == {q \in range : op.state \in {0, 1} => bit(q) = op.state}
             gaveUp == IF good = range THEN {} ELSE {z.v} \cup {flip(q) : q \in good}
  <2>1. z.v = v /\ z.status = 1
    BY DEF Out
  <2>2. FlipOne(op, z) = {Out(flip(q), z.status, TRUE) : q \in good} \cup {Out(u, 0, TRUE) : u \in gaveUp}
    BY DEF FlipOne
  <2>3. range = {p} /\ op.state = 0
    BY <1>1
  <2>4. bit(p) = was /\ was \in {0, 1}
    BY <2>1, <1>7 DEF w
  <2>5. flip(p) = IF bit(p) = 0 THEN v + w ELSE v - w
    BY <2>1 DEF w
  <2>6. o \in FlipOne(op, z)
    BY <1>6
  <2> HIDE DEF z, bit, range, was, flip
  <2>7. CASE was = 0
    <3>1. good = {p}
      BY <2>3, <2>4, <2>7
    <3>2. gaveUp = {}
      BY <3>1, <2>3
    <3>3. flip(p) = v + w
      BY <2>4, <2>5, <2>7
    <3> HIDE DEF good, gaveUp, p
    <3>4. o = Out(v + w, 1, TRUE)
      BY <2>1, <2>2, <2>6, <3>1, <3>2, <3>3
    <3> QED BY <3>4, <2>7
  <2>8. CASE was = 1
    <3>1. good = {}
      BY <2>3, <2>4, <2>8
    <3>2. gaveUp = {v}
      BY <3>1, <2>1, <2>3
    <3> HIDE DEF good, gaveUp, p
    <3>3. o = Out(v, 0, TRUE)
      BY <2>1, <2>2, <2>6, <3>1, <3>2
    <3> QED BY <3>3, <2>8
  <2> QED BY <2>4, <2>7, <2>8
<1>9. CASE (v \div w) % 2 = 0 /\ o = Out(v + w, 1, TRUE)
  <2>1. o.v = v + w /\ o.status = 1
    BY <1>9 DEF Out
  <2> QED BY <2>1, <1>5, <1>7, <1>9
<1>10. CASE (v \div w) % 2 = 1 /\ o = Out(v, 0, TRUE)
  <2>1. o.v = v /\ o.status = 0
    BY <1>10 DEF Out
  <2> QED BY <2>1 DEF IsWidth
<1> QED BY <1>8, <1>9, <1>10

\* What an operator reports as applied it cannot be applied to again, and a value
\* it is not applied to stays.
LEMMA AppliedSpends ==
    ASSUME NEW op, NEW type, Charted(op, type), op.type \in OnceTypes, NEW opt,
           NEW v \in Nat, NEW W, IsWidth(W), v < W, NEW x \in Apply(op, type, opt, v)
    PROVE  /\ x.out.v \in 0 .. W - 1
           /\ IF x.out.status = 1 THEN ~Spent(op, v) /\ Spent(op, x.out.v) ELSE x.out.v = v
<1>1. CASE op.type = "BF"
  <2>1. x.out \in BF(op, v)
    BY <1>1 DEF Apply
  <2>2. Charted(op, "BIN")
    BY <1>1 DEF Charted
  <2> DEFINE o == x.out
  <2>3. o \in BF(op, v)
    BY <2>1
  <2> HIDE DEF o
  <2>4. /\ o.v \in 0 .. W - 1
        /\ IF o.status = 1 THEN ~Spent(op, v) /\ Spent(op, o.v) ELSE o.v = v
    BY <1>1, <2>2, <2>3, BFOnce
  <2> QED BY <2>4 DEF o
<1>2. CASE op.type = "VOR"
  BY <1>2 DEF Apply, VOR, Ignored, NoLine, Out, Charted, Spent, IsWidth
<1>3. CASE op.type = "VAT"
  BY <1>3 DEF Apply, VAT, Replace, Ignored, NoLine, Out, Charted, Spent, IsWidth
<1>4. CASE op.type = "FVAT"
  BY <1>4 DEF Apply, FVAT, Replace, Ignored, NoLine, Out, Charted, Spent, IsWidth
<1> QED BY <1>1, <1>2, <1>3, <1>4 DEF OnceTypes

\* Both widths are large enough for the tables of libcsp and multiples of its bits.
LEMMA WidthIs ==
    ASSUME NEW i
    PROVE  IsWidth(Width(i))
BY SMT DEF Width, IsWidth

\* What StoreBack makes of a value that is off its width by one at most.
LEMMA StoreBackIs ==
    ASSUME NEW i, NEW u \in -1 .. Width(i)
    PROVE  StoreBack(i, u) = IF u = -1 THEN Width(i) - 1 ELSE IF u = Width(i) THEN 0 ELSE u
BY SMT DEF Width, StoreBack

\* What a probe stores back of the integer that an operator left.
LEMMA StoresInWidth ==
    ASSUME LibcspCalls, NEW p \in {"Read", "Send"}, NEW i \in 1 .. 6
    PROVE  /\ \A u \in -1 .. Width(i) : Trunc(p, i, u) = IF u = -1 THEN Width(i) - 1 ELSE IF u = Width(i) THEN 0 ELSE u
           /\ \A u \in 0 .. Width(i) - 1 : Trunc(p, i, u) = u
<1> DEFINE W == Width(i)
<1>1. W \in Nat /\ W >= 64
  BY WidthIs DEF IsWidth
<1>2. ASSUME NEW u \in -1 .. W PROVE Trunc(p, i, u) = IF u = -1 THEN W - 1 ELSE IF u = W THEN 0 ELSE u
  <2>1. Trunc(p, i, u) = StoreBack(i, u)
    BY <1>2 DEF LibcspCalls
  <2>2. StoreBack(i, u) = IF u = -1 THEN W - 1 ELSE IF u = W THEN 0 ELSE u
    BY <1>2, StoreBackIs
  <2> QED BY <2>1, <2>2
<1>3. ASSUME NEW u \in 0 .. W - 1 PROVE Trunc(p, i, u) = u
  <2> HIDE DEF W
  <2>1. u \in -1 .. W /\ u # -1 /\ u # W
    BY <1>1
  <2> QED BY <1>2, <2>1
<1> QED BY <1>2, <1>3

\* The identifier of a new connection.
LEMMA FreshIdentifier ==
    ASSUME LibcspCalls, NEW p \in {"Read", "Send"}, NEW d \in Inputs[p]
    PROVE  DOMAIN d = 1 .. 6 /\ d = [i \in 1 .. 6 |-> d[i]] /\ \A i \in 1 .. 6 : d[i] \in 0 .. Width(i) - 1
<1>1. d \in [1 .. 6 -> Nat] /\ \A i \in 1 .. 6 : d[i] < Width(i)
  BY DEF LibcspCalls
<1>2. \A i \in 1 .. 6 : Width(i) \in Nat
  BY WidthIs DEF IsWidth
<1> QED BY <1>1, <1>2

\* What the row of a mutant of libcsp names.
LEMMA RowIs ==
    ASSUME mutation \in Int, NEW p \in {"Read", "Send"}, InRange(p)
    PROVE  /\ Chosen.item \in 1 .. 6
           /\ Charted(RowOp(p), RowItem(p).type) /\ LibcspOp(RowOp(p))
<1>1. Read_FM.min = 0 /\ Read_FM.max = 20 /\ Send_FM.min = 20 /\ Send_FM.max = 43
  BY DEF Read_FM, Send_FM
<1>2. Models["Read"] = Read_FM /\ Models["Send"] = Send_FM
  BY LibcspAssumption
<1> DEFINE k == mutation + 1
           m == LibcspMutants[k]
<1>3. k \in 1 .. 43 /\ (p = "Read" => k <= 20) /\ (p = "Send" => k > 20)
  BY <1>1, <1>2 DEF InRange
<1>4. Chosen = m
  BY <1>3, LibcspAssumption DEF Chosen
<1> HIDE DEF k
<1>5. /\ m.item \in 1 .. 6
      /\ k <= 20 => Charted(Read_FM.items[m.item].ops[m.op], Read_FM.items[m.item].type)
      /\ k > 20 => Charted(Send_FM.items[m.item].ops[m.op], Send_FM.items[m.item].type)
  BY <1>3, RowsAreCharted
<1>6. /\ k <= 20 => LibcspOp(Read_FM.items[m.item].ops[m.op])
      /\ k > 20 => LibcspOp(Send_FM.items[m.item].ops[m.op])
  BY <1>3, RowsNameOperators
<1> HIDE DEF m
<1>7. CASE p = "Read"
  BY <1>2, <1>3, <1>4, <1>5, <1>6, <1>7 DEF RowOp, RowItem
<1>8. CASE p = "Send"
  BY <1>2, <1>3, <1>4, <1>5, <1>6, <1>8 DEF RowOp, RowItem
<1> QED BY <1>7, <1>8

\* An operator of these types that was applied to the identifier of a probe is
\* spent; the value that it works on is one of the field.
OnceAt(p) ==
    InRange(p) /\ RowOp(p).type \in OnceTypes =>
        /\ DOMAIN data[p] = 1 .. 6
        /\ data[p][Chosen.item] \in 0 .. Width(Chosen.item) - 1
        /\ \/ applied[p] = 0
           \/ applied[p] = 1 /\ Spent(RowOp(p), data[p][Chosen.item])

\* Nothing about the probe changes.
LEMMA OnceStays ==
    ASSUME NEW p, OnceAt(p), mutation' = mutation, data'[p] = data[p], applied'[p] = applied[p]
    PROVE  OnceAt(p)'
BY DEF OnceAt, InRange, Chosen, RowOp, RowItem

\* A new connection brings an identifier that no operator was applied to.
LEMMA OnceNew ==
    ASSUME LibcspCalls, NEW p \in {"Read", "Send"}, mutation \in Int, mutation' = mutation,
           data'[p] \in Inputs[p], applied'[p] = 0
    PROVE  OnceAt(p)'
<1> SUFFICES ASSUME InRange(p) PROVE (DOMAIN data[p])' = 1 .. 6 /\ data'[p][Chosen.item] \in 0 .. Width(Chosen.item) - 1
  BY DEF OnceAt, InRange, Chosen, RowOp, RowItem
<1>1. Chosen.item \in 1 .. 6
  BY RowIs
<1> QED BY <1>1, FreshIdentifier

\* A mutation by the probe itself.
LEMMA OnceMutated ==
    ASSUME LibcspCalls, NEW p \in {"Read", "Send"}, mutation \in Int, mutation' = mutation, InRange(p), OnceAt(p),
           p \in DOMAIN data, p \in DOMAIN applied,
           NEW x \in Apply(RowOp(p), RowItem(p).type, Chosen.opt, data[p][Chosen.item]),
           mutated' = (mutated \/ x.out.sets),
           applied' = IF x.out.status = 1 THEN [applied EXCEPT ![p] = @ + 1] ELSE applied,
           Store(p, Chosen.item, x.out.v)
    PROVE  OnceAt(p)'
<1> SUFFICES ASSUME RowOp(p).type \in OnceTypes
             PROVE  /\ (DOMAIN data[p])' = 1 .. 6
                    /\ data'[p][Chosen.item] \in 0 .. Width(Chosen.item) - 1
                    /\ \/ applied'[p] = 0
                       \/ applied'[p] = 1 /\ Spent(RowOp(p), data'[p][Chosen.item])
  BY DEF OnceAt, InRange, Chosen, RowOp, RowItem
<1> DEFINE i == Chosen.item
           op == RowOp(p)
           type == RowItem(p).type
           v == data[p][i]
           W == Width(i)
           o == x.out
<1>1. i \in 1 .. 6 /\ Charted(op, type) /\ LibcspOp(op)
  BY RowIs
<1>2. /\ DOMAIN data[p] = 1 .. 6 /\ v \in 0 .. W - 1
      /\ applied[p] = 0 \/ (applied[p] = 1 /\ Spent(op, v))
  BY DEF OnceAt
<1>3. IsWidth(W) /\ W \in Nat
  BY WidthIs DEF IsWidth
<1>4. \A u \in 0 .. W - 1 : Trunc(p, i, u) = u
  BY <1>1, StoresInWidth
<1>5. x \in Apply(op, type, Chosen.opt, v) /\ op.type \in OnceTypes
  OBVIOUS
<1>6. v \in Nat /\ v < W
  <2> HIDE DEF v, W
  <2> QED BY <1>2, <1>3
<1>7. /\ o.v \in 0 .. W - 1
      /\ IF o.status = 1 THEN ~Spent(op, v) /\ Spent(op, o.v) ELSE o.v = v
  <2> HIDE DEF op, type, v, W
  <2> QED BY <1>1, <1>3, <1>5, <1>6, AppliedSpends
<1>8. o.status = 1 => mutated'
  <2>1. o.status = 1 => x.out.sets
    <3> HIDE DEF op, type, v
    <3> QED BY <1>1, <1>5, AppliedSets DEF o
  <2> QED BY <2>1
<1>9. data'[p][i] = o.v /\ (DOMAIN data[p])' = 1 .. 6
  <2>1. CASE mutated'
    <3>1. data' = [data EXCEPT ![p][i] = Trunc(p, i, o.v)]
      BY <2>1 DEF Store
    <3>2. Trunc(p, i, o.v) = o.v
      <4> HIDE DEF o, i, W
      <4> QED BY <1>4, <1>7
    <3> HIDE DEF i, o
    <3> QED BY <3>1, <3>2, <1>1, <1>2
  <2>2. CASE ~mutated'
    <3>1. data' = data
      BY <2>2 DEF Store
    <3> QED BY <2>2, <3>1, <1>2, <1>7, <1>8
  <2> QED BY <2>1, <2>2
<1>10. CASE o.status = 1
  <2>1. applied[p] = 0 /\ applied' = [applied EXCEPT ![p] = @ + 1]
    BY <1>2, <1>7, <1>10
  <2>2. applied'[p] = 1
    BY <2>1
  <2> QED BY <1>7, <1>9, <1>10, <2>2
<1>11. CASE o.status # 1
  <2>1. applied' = applied /\ o.v = v
    BY <1>7, <1>11
  <2> QED BY <1>2, <1>7, <1>9, <2>1
<1> QED BY <1>10, <1>11

\* The inductive invariant behind AppliedOncePerConnection.
OnceInv ==
    /\ mutation \in Int /\ DOMAIN data = Probes /\ DOMAIN applied = Probes
    /\ \A p \in {"Read", "Send"} : OnceAt(p)

\* The first identifiers are new.
LEMMA OnceInit ==
    ASSUME LibcspCalls, Init
    PROVE  OnceInv
<1>1. mutation \in Int /\ DOMAIN data = Probes /\ DOMAIN applied = Probes
  BY LibcspAssumption DEF Init
<1>2. ASSUME NEW p \in {"Read", "Send"} PROVE OnceAt(p)
  <2> SUFFICES ASSUME InRange(p) PROVE DOMAIN data[p] = 1 .. 6 /\ data[p][Chosen.item] \in 0 .. Width(Chosen.item) - 1
    BY LibcspAssumption DEF OnceAt, Init
  <2>1. data[p] = CHOOSE d \in Inputs[p] : TRUE
    BY LibcspAssumption DEF Init
  <2>2. data[p] \in Inputs[p]
    BY <2>1 DEF LibcspCalls
  <2>3. Chosen.item \in 1 .. 6
    BY <1>1, RowIs
  <2> QED BY <2>2, <2>3, FreshIdentifier
<1> QED BY <1>1, <1>2 DEF OnceInv

\* One case per action: only a new call and a mutation touch the identifier.
LEMMA OnceStep ==
    ASSUME LibcspCalls, OnceInv, [Next]_vars
    PROVE  OnceInv'
<1>1. mutation' = mutation
  BY DEF Next, vars, GetModel, FillModel, CoverOnly, NotMine, Mutate, Exit
<1>2. ASSUME data' = data, applied' = applied PROVE OnceInv'
  <2>1. \A p \in {"Read", "Send"} : OnceAt(p)'
    BY <1>1, <1>2, OnceStays DEF OnceInv
  <2> QED BY <1>1, <1>2, <2>1 DEF OnceInv
<1>3. ASSUME NEW t \in Tasks, GetModel(t) PROVE OnceInv'
  <2>1. CASE UNCHANGED <<data, applied>>
    BY <1>2, <2>1
  <2>2. CASE /\ \E d \in Inputs[ProbeOf[t]] : data' = [data EXCEPT ![ProbeOf[t]] = d]
             /\ applied' = [applied EXCEPT ![ProbeOf[t]] = 0]
    <3>1. PICK d \in Inputs[ProbeOf[t]] : data' = [data EXCEPT ![ProbeOf[t]] = d]
      BY <2>2
    <3>2. ASSUME NEW p \in {"Read", "Send"} PROVE OnceAt(p)'
      <4>1. p \in DOMAIN data /\ p \in DOMAIN applied
        BY LibcspAssumption DEF OnceInv
      <4>2. CASE p = ProbeOf[t]
        <5>1. data'[p] \in Inputs[p] /\ applied'[p] = 0
          BY <2>2, <3>1, <4>1, <4>2
        <5> QED BY <1>1, <5>1, OnceNew DEF OnceInv
      <4>3. CASE p # ProbeOf[t]
        <5>1. data'[p] = data[p] /\ applied'[p] = applied[p]
          BY <2>2, <3>1, <4>1, <4>3
        <5> QED BY <1>1, <5>1, OnceStays DEF OnceInv
      <4> QED BY <4>2, <4>3
    <3> QED BY <1>1, <2>2, <3>1, <3>2 DEF OnceInv
  <2> QED BY <1>3, <2>1, <2>2 DEF GetModel
<1>4. ASSUME NEW t \in Tasks, Mutate(t) PROVE OnceInv'
  <2> DEFINE q == ProbeOf[t]
  <2>1. PICK x \in Apply(RowOp(q), RowItem(q).type, Chosen.opt, data[q][Chosen.item]) :
          /\ mutated' = (mutated \/ x.out.sets)
          /\ applied' = IF x.out.status = 1 THEN [applied EXCEPT ![q] = @ + 1] ELSE applied
          /\ Store(q, Chosen.item, x.out.v)
    BY <1>4 DEF Mutate, RowOp, RowItem, Chosen
  <2>2. InRange(q)
    BY <1>4 DEF Mutate
  <2>3. data' = data \/ data' = [data EXCEPT ![q][Chosen.item] = Trunc(q, Chosen.item, x.out.v)]
    BY <2>1 DEF Store
  <2>4. ASSUME NEW p \in {"Read", "Send"} PROVE OnceAt(p)'
    <3>1. p \in DOMAIN data /\ p \in DOMAIN applied /\ OnceAt(p) /\ mutation \in Int
      BY LibcspAssumption DEF OnceInv
    <3>2. CASE p = q
      <4> HIDE DEF q
      <4>1. /\ x \in Apply(RowOp(p), RowItem(p).type, Chosen.opt, data[p][Chosen.item])
            /\ applied' = IF x.out.status = 1 THEN [applied EXCEPT ![p] = @ + 1] ELSE applied
            /\ Store(p, Chosen.item, x.out.v) /\ InRange(p)
        BY <2>1, <2>2, <3>2
      <4> QED BY <1>1, <2>1, <3>1, <4>1, OnceMutated
    <3>3. CASE p # q
      <4>1. data'[p] = data[p] /\ applied'[p] = applied[p]
        BY <2>1, <2>3, <3>1, <3>3
      <4> QED BY <1>1, <3>1, <4>1, OnceStays
    <3> QED BY <3>2, <3>3
  <2>5. DOMAIN data' = Probes /\ DOMAIN applied' = Probes
    BY <2>1, <2>3 DEF OnceInv
  <2> QED BY <1>1, <2>4, <2>5 DEF OnceInv
<1>5. ASSUME NEW t \in Tasks, FillModel(t) \/ CoverOnly(t) \/ NotMine(t) PROVE OnceInv'
  BY <1>2, <1>5 DEF FillModel, CoverOnly, NotMine
<1>6. CASE Exit
  BY <1>2, <1>6 DEF Exit
<1>7. CASE UNCHANGED vars
  BY <1>2, <1>7 DEF vars
<1> QED BY <1>3, <1>4, <1>5, <1>6, <1>7 DEF Next

\* However the calls of the probes interleave, an operator of libcsp on a
\* threshold, a range or a bit is applied to the identifier of a connection at most
\* once: the calls of csp_read and csp_send that follow find nothing to change.
THEOREM AppliedOnce ==
    ASSUME LibcspCalls
    PROVE  Spec => []AppliedOncePerConnection
<1>1. Init => OnceInv
  BY OnceInit
<1>2. OnceInv /\ [Next]_vars => OnceInv'
  BY OnceStep
<1>3. OnceInv => AppliedOncePerConnection
  <2> SUFFICES ASSUME OnceInv, NEW p \in {"Read", "Send"}, InRange(p), RowOp(p).type \in OnceTypes
               PROVE  applied[p] <= 1
    BY DEF AppliedOncePerConnection, RowOp, RowItem, Chosen, OnceTypes
  <2> QED BY DEF OnceInv, OnceAt
<1> QED BY <1>1, <1>2, <1>3, PTL DEF Spec

-----------------------------------------------------------------------------
(* What is reported as applied is a change of one field.                   *)

\* Only the mutants of libcsp are selected.
LibcspMutantsOnly == \A m \in Ids : m < Send_FM.max

\* The type of what the steps of a probe read and write.
ProbeTypes ==
    /\ mutation \in Int /\ mutation < Send_FM.max
    /\ DOMAIN pc = Tasks /\ IsSeq(log)
    /\ data = [p \in Probes |-> data[p]]
    /\ \A p \in {"Read", "Send"} :
         /\ data[p] = [i \in 1 .. 6 |-> data[p][i]]
         /\ \A i \in 1 .. 6 : data[p][i] \in 0 .. Width(i) - 1

\* What is left of a value u when it is cut to the W values of its field.
Cut(u, W) == IF u = -1 THEN W - 1 ELSE IF u = W THEN 0 ELSE u

\* An operator that reports status 1 has changed the value, also after it is cut,
\* to one of its fault class; without a line it has left the value.
ChangesValue(op, v, W, o) ==
    /\ o.v \in -1 .. W
    /\ o.status = 1 => o.sets /\ Cut(o.v, W) # v /\ InClass(op, Cut(o.v, W))
    /\ o.status = NoLine => o.v = v

\* Each operator of the csv file, one case per type.
LEMMA AppliedChanges ==
    ASSUME NEW op, NEW type, Charted(op, type), LibcspOp(op), NEW opt,
           NEW v \in Nat, NEW W, IsWidth(W), v < W, NEW x \in Apply(op, type, opt, v)
    PROVE  ChangesValue(op, v, W, x.out)
<1>1. CASE op.type = "BF"
  <2>1. x.out \in BF(op, v) /\ OnceTypes # {} /\ op.type \in OnceTypes
    BY <1>1 DEF Apply, OnceTypes
  <2> DEFINE o == x.out
  <2>2. o.v \in 0 .. W - 1 /\ IF o.status = 1 THEN ~Spent(op, v) /\ Spent(op, o.v) ELSE o.v = v
    BY <2>1, AppliedSpends
  <2>3. o.status = 1 => o.sets
    BY AppliedSets
  <2>4. o.status = 1 => o.v # v
    BY <2>2
  <2>5. \A u : InClass(op, u)
    BY <1>1 DEF InClass
  <2> HIDE DEF o
  <2>6. o.v \in -1 .. W /\ Cut(o.v, W) = o.v
    BY <2>2 DEF IsWidth, Cut
  <2>7. ChangesValue(op, v, W, o)
    BY <2>2, <2>3, <2>4, <2>5, <2>6 DEF ChangesValue, NoLine
  <2> QED BY <2>7 DEF o
<1>2. CASE op.type \in {"INV", "FVOR"}
  <2>1. PICK o \in Redraw(op, type, v) : x.out = o
    BY <1>2 DEF Apply, INV, FVOR
  <2>2. type = "INT" /\ op.min \in 0 .. 8 /\ op.max \in op.min + 1 .. 31
    BY <1>2 DEF Charted
  <2>3. \E r \in op.min .. op.max : o = Out(r, 0, TRUE) \/ (r # v /\ o = Out(r, 1, TRUE))
    <3>1. type \in Numeric /\ op.max # op.min /\ ~(op.max < op.min)
      BY <2>2 DEF Numeric
    <3>2. \/ o \in {Out(r, 1, TRUE) : r \in (op.min .. op.max) \ {v}}
          \/ o \in {Out(r, 0, TRUE) : r \in op.min .. op.max}
      BY <2>1, <3>1 DEF Redraw
    <3> QED BY <3>2
  <2>4. PICK r \in op.min .. op.max : o = Out(r, 0, TRUE) \/ (r # v /\ o = Out(r, 1, TRUE))
    BY <2>3
  <2>5. r \in -1 .. W /\ Cut(r, W) = r
    BY <2>2 DEF IsWidth, Cut
  <2>6. o.v = r /\ o.sets /\ o.status \in {0, 1} /\ (o.status = 1 => r # v)
    BY <2>4 DEF Out
  <2>7. InClass(op, r)
    BY <1>2 DEF InClass
  <2> QED BY <2>1, <2>5, <2>6, <2>7 DEF ChangesValue, NoLine
<1>3. CASE op.type = "VOR"
  <2>1. PICK o \in VOR(op, type, opt, v) : x.out = o
    BY <1>3 DEF Apply
  <2>2. type = "INT" /\ op.min = 8 /\ op.max = 30 /\ op.delta = 1
    BY <1>3 DEF Charted
  <2>3. \/ v \in 8 .. 30 /\ (o = Out(7, 1, TRUE) \/ o = Out(31, 1, TRUE))
        \/ o = Out(v, 0, TRUE) \/ o = Out(v, NoLine, TRUE)
    <3>1. type \in Numeric /\ op.min - op.delta = 7 /\ op.max + op.delta = 31
      BY <2>2 DEF Numeric
    <3> QED BY <2>1, <2>2, <3>1 DEF VOR
  <2>4. \A u \in {7, 31} : InClass(op, u) /\ u \in -1 .. W /\ Cut(u, W) = u
    BY <1>3, <2>2 DEF InClass, IsWidth, Cut
  <2>5. v \in -1 .. W
    BY DEF IsWidth
  <2> QED BY <2>1, <2>3, <2>4, <2>5 DEF ChangesValue, NoLine, Out
<1>4. CASE op.type \in {"VAT", "FVAT"}
  <2>1. PICK o \in VAT(op, type, v) \cup FVAT(op, type, v) :
          x.out = o /\ o \in IF op.type = "VAT" THEN VAT(op, type, v) ELSE FVAT(op, type, v)
    BY <1>4 DEF Apply
  <2>2. type = "INT" /\ op.threshold \in {3, 31} /\ op.delta = 1
    BY <1>4 DEF Charted
  <2>3. \/ op.type = "VAT" /\ v <= op.threshold /\ o = Out(op.threshold + 1, 1, TRUE)
        \/ op.type = "FVAT" /\ v > op.threshold /\ o = Out(op.threshold - 1, 1, TRUE)
        \/ o = Out(v, 0, TRUE)
    <3>1. type \in Numeric /\ op.delta = 1
      BY <2>2 DEF Numeric
    <3>2. CASE op.type = "VAT"
      BY <2>1, <3>1, <3>2 DEF VAT, Replace
    <3>3. CASE op.type = "FVAT"
      BY <2>1, <3>1, <3>3 DEF FVAT, Replace
    <3> QED BY <1>4, <3>2, <3>3
  <2>4. \A u \in {op.threshold - 1, op.threshold + 1} : u \in -1 .. W /\ Cut(u, W) = u
    BY <2>2 DEF IsWidth, Cut
  <2>5. v \in -1 .. W
    BY DEF IsWidth
  <2>6. op.type = "VAT" => InClass(op, op.threshold + 1)
    BY <2>2 DEF InClass
  <2>7. op.type = "FVAT" => InClass(op, op.threshold - 1)
    BY <2>2 DEF InClass
  <2> QED BY <2>1, <2>2, <2>3, <2>4, <2>5, <2>6, <2>7 DEF ChangesValue, NoLine, Out
<1>5. CASE op.type = "SS"
  <2>1. type = "INT" /\ op.delta \in {-1, 1}
    BY <1>5 DEF Charted
  <2>2. x.out = Out(v + op.delta, 1, TRUE)
    <3>1. type \in Numeric
      BY <2>1 DEF Numeric
    <3>2. SS(op, type, v) = {Out(v + op.delta, 1, TRUE)}
      BY <3>1 DEF SS
    <3>3. x.out \in SS(op, type, v)
      BY <1>5 DEF Apply
    <3> QED BY <3>2, <3>3
  <2>3. v + op.delta \in -1 .. W /\ Cut(v + op.delta, W) # v
    BY <2>1 DEF IsWidth, Cut
  <2>4. \A u : InClass(op, u)
    BY <1>5 DEF InClass
  <2> QED BY <2>2, <2>3, <2>4 DEF ChangesValue, NoLine, Out
<1> QED BY <1>1, <1>2, <1>3, <1>4, <1>5 DEF LibcspOp

\* What a call of the probe of t does, on one identifier.
RealCall(t) ==
    LET p == ProbeOf[t]
    IN  /\ data' # data => Len(log') = Len(log) + 1
        /\ Len(log') > Len(log) /\ log'[Len(log')].status = 1 =>
             /\ data'[p][Chosen.item] # data[p][Chosen.item] /\ InClass(RowOp(p), data'[p][Chosen.item])
             /\ \A q \in Probes : \A i \in DOMAIN data[q] :
                  <<q, i>> # <<p, Chosen.item>> => data'[q][i] = data[q][i]

\* Field i of the identifier of p becomes u, and nothing else changes.
Written(p, i, u) ==
    /\ data'[p][i] = u
    /\ \A q \in Probes : \A j \in DOMAIN data[q] : <<q, j>> # <<p, i>> => data'[q][j] = data[q][j]
    /\ data' = [q \in Probes |-> data'[q]]
    /\ \A q \in {"Read", "Send"} :
         /\ data'[q] = [j \in 1 .. 6 |-> data'[q][j]]
         /\ \A j \in 1 .. 6 : data'[q][j] \in 0 .. Width(j) - 1
    /\ u = data[p][i] => data' = data

\* The copy back writes one field of one identifier.
LEMMA OneField ==
    ASSUME ProbeTypes, NEW p \in {"Read", "Send"}, NEW i \in 1 .. 6, NEW u \in 0 .. Width(i) - 1,
           data' = [data EXCEPT ![p][i] = u]
    PROVE  Written(p, i, u)
<1>1. p \in Probes /\ {"Read", "Send"} \subseteq Probes
  BY LibcspAssumption
<1>2. /\ DOMAIN data = Probes /\ \A q \in {"Read", "Send"} : DOMAIN data[q] = 1 .. 6
      /\ data = [q \in Probes |-> data[q]] /\ data[p] = [j \in 1 .. 6 |-> data[p][j]]
  BY DEF ProbeTypes
<1>3. data' = [q \in Probes |-> IF q = p THEN [data[p] EXCEPT ![i] = u] ELSE data[q]]
  BY <1>1, <1>2
<1>4. data'[p] = [j \in 1 .. 6 |-> IF j = i THEN u ELSE data[p][j]]
  BY <1>1, <1>2, <1>3
<1>5. \A q \in Probes : q # p => data'[q] = data[q]
  BY <1>3
<1>6. data' = [q \in Probes |-> data'[q]]
  BY <1>3
<1>7. ASSUME NEW q \in {"Read", "Send"}
      PROVE  /\ data'[q] = [j \in 1 .. 6 |-> data'[q][j]]
             /\ \A j \in 1 .. 6 : data'[q][j] \in 0 .. Width(j) - 1
  <2>1. CASE q = p
    BY <1>4, <2>1 DEF ProbeTypes
  <2>2. CASE q # p
    BY <1>1, <1>5, <2>2 DEF ProbeTypes
  <2> QED BY <2>1, <2>2
<1>8. ASSUME u = data[p][i] PROVE data' = data
  <2>1. data'[p] = data[p]
    BY <1>2, <1>4, <1>8
  <2> QED BY <1>2, <1>5, <1>6, <2>1
<1>9. ASSUME NEW q \in Probes, NEW j \in DOMAIN data[q], <<q, j>> # <<p, i>> PROVE data'[q][j] = data[q][j]
  <2>1. CASE q = p
    BY <1>2, <1>4, <1>9, <2>1
  <2>2. CASE q # p
    BY <1>5, <2>2
  <2> QED BY <2>1, <2>2
<1> QED BY <1>4, <1>6, <1>7, <1>8, <1>9 DEF Written

\* The body of _FAQAS_mutate and the copy back, for a mutant of libcsp.
LEMMA MutateIsReal ==
    ASSUME LibcspCalls, ProbeTypes, NEW t \in Tasks, Mutate(t)
    PROVE  ProbeTypes' /\ RealCall(t)
<1> DEFINE p == ProbeOf[t]
           i == Chosen.item
           op == RowOp(p)
           type == RowItem(p).type
           v == data[p][i]
           W == Width(i)
<1>1. mutation \in Int /\ mutation < Send_FM.max /\ mutation' = mutation /\ InRange(p) /\ p \in Probes
  BY LibcspAssumption DEF ProbeTypes, Mutate
<1>2. p \in {"Read", "Send"}
  BY <1>1, OneModel
<1>3. i \in 1 .. 6 /\ Charted(op, type) /\ LibcspOp(op)
  BY <1>1, <1>2, RowIs
<1>4. IsWidth(W) /\ v \in Nat /\ v < W /\ W \in Nat /\ v \in 0 .. W - 1
  <2>1. IsWidth(W) /\ v \in 0 .. W - 1
    BY <1>2, <1>3, WidthIs DEF ProbeTypes
  <2> HIDE DEF W, v
  <2> QED BY <2>1 DEF IsWidth
<1>5. PICK x \in Apply(op, type, Chosen.opt, v) :
        /\ mutated' = (mutated \/ x.out.sets)
        /\ log' = IF x.out.status = NoLine THEN log ELSE Append(log, Line(p, x.out.status))
        /\ Store(p, i, x.out.v)
  BY DEF Mutate, RowOp, RowItem, Chosen
<1> DEFINE o == x.out
<1>6. ChangesValue(op, v, W, o)
  <2> HIDE DEF op, type, v, W
  <2> QED BY <1>3, <1>4, <1>5, AppliedChanges
<1>7. Trunc(p, i, o.v) = Cut(o.v, W) /\ o.v \in -1 .. W
  BY <1>2, <1>3, <1>6, StoresInWidth DEF ChangesValue, Cut
<1>8. Cut(o.v, W) \in 0 .. W - 1 /\ Cut(v, W) = v
  <2> HIDE DEF o, W, v
  <2> QED BY <1>4, <1>7 DEF Cut, IsWidth
<1> DEFINE u == Cut(o.v, W)
<1>9. data' = data \/ data' = [data EXCEPT ![p][i] = u]
  BY <1>5, <1>7 DEF Store
<1>10. mutated' => data' = [data EXCEPT ![p][i] = u]
  BY <1>5, <1>7 DEF Store
<1>11. /\ IsSeq(log) /\ Len(log) \in Nat
       /\ o.status # NoLine => IsSeq(log') /\ Len(log') = Len(log) + 1 /\ log'[Len(log) + 1].status = o.status
       /\ o.status = NoLine => log' = log
  <2>1. IsSeq(log) /\ Len(log) \in Nat
    BY DEF ProbeTypes, IsSeq
  <2>2. ASSUME o.status # NoLine
        PROVE  IsSeq(log') /\ Len(log') = Len(log) + 1 /\ log'[Len(log) + 1].status = o.status
    <3> DEFINE line == Line(p, o.status)
    <3>1. log' = Append(log, line) /\ line.status = o.status
      BY <1>5, <2>2 DEF Line
    <3> HIDE DEF line
    <3>2. IsSeq(log') /\ Len(log') = Len(log) + 1 /\ log'[Len(log) + 1] = line
      BY <2>1, <3>1, AppendIsSeq
    <3> QED BY <3>1, <3>2
  <2> QED BY <1>5, <2>1, <2>2
<1>12. ASSUME data' = [data EXCEPT ![p][i] = u]
       PROVE  /\ data'[p][i] = u
              /\ \A q \in Probes : \A j \in DOMAIN data[q] : <<q, j>> # <<p, i>> => data'[q][j] = data[q][j]
              /\ data' = [q \in Probes |-> data'[q]]
              /\ \A q \in {"Read", "Send"} :
                   /\ data'[q] = [j \in 1 .. 6 |-> data'[q][j]]
                   /\ \A j \in 1 .. 6 : data'[q][j] \in 0 .. Width(j) - 1
              /\ u = v => data' = data
  <2>1. u \in 0 .. Width(i) - 1
    BY <1>8
  <2>2. Written(p, i, u)
    <3> HIDE DEF u, p, i
    <3> QED BY <1>2, <1>3, <1>12, <2>1, OneField
  <2> HIDE DEF u
  <2> QED BY <2>2 DEF Written
<1>13. ProbeTypes'
  <2>1. /\ data' = [q \in Probes |-> data'[q]]
        /\ \A q \in {"Read", "Send"} :
             /\ data'[q] = [j \in 1 .. 6 |-> data'[q][j]]
             /\ \A j \in 1 .. 6 : data'[q][j] \in 0 .. Width(j) - 1
    BY <1>9, <1>12 DEF ProbeTypes
  <2>2. IsSeq(log')
    BY <1>11
  <2>3. DOMAIN pc' = Tasks
    BY DEF ProbeTypes, Mutate, Return
  <2> QED BY <1>1, <2>1, <2>2, <2>3 DEF ProbeTypes
<1>14. data' # data => Len(log') = Len(log) + 1
  <2>1. CASE o.status = NoLine
    <3>1. o.v = v
      BY <1>6, <2>1 DEF ChangesValue
    <3>2. u = v
      <4> HIDE DEF o, v, W
      <4> QED BY <1>8, <3>1
    <3> HIDE DEF u, v
    <3> QED BY <1>9, <1>12, <3>2
  <2> QED BY <1>11, <2>1
<1>15. ASSUME Len(log') > Len(log), log'[Len(log')].status = 1
       PROVE  /\ data'[p][i] # v /\ InClass(op, data'[p][i])
              /\ \A q \in Probes : \A j \in DOMAIN data[q] : <<q, j>> # <<p, i>> => data'[q][j] = data[q][j]
  <2>1. o.status = 1
    BY <1>11, <1>15
  <2>2. o.sets /\ u # v /\ InClass(op, u)
    BY <1>6, <2>1 DEF ChangesValue
  <2>3. mutated'
    BY <1>5, <2>2
  <2> HIDE DEF u, op
  <2> QED BY <1>10, <1>12, <2>2, <2>3
<1> QED BY <1>13, <1>14, <1>15 DEF RealCall

\* The first identifiers come from connections.
LEMMA ProbeTypesInit ==
    ASSUME LibcspCalls, LibcspMutantsOnly, Init
    PROVE  ProbeTypes
<1>1. mutation \in Int /\ mutation < Send_FM.max
  BY LibcspAssumption DEF Init, LibcspMutantsOnly
<1>2. DOMAIN pc = Tasks /\ data = [p \in Probes |-> data[p]] /\ log = <<>>
  BY DEF Init
<1>3. IsSeq(log)
  BY <1>2, EmptyIsSeq
<1>4. ASSUME NEW p \in {"Read", "Send"}
      PROVE  data[p] = [i \in 1 .. 6 |-> data[p][i]] /\ \A i \in 1 .. 6 : data[p][i] \in 0 .. Width(i) - 1
  <2>1. data[p] = CHOOSE d \in Inputs[p] : TRUE
    BY LibcspAssumption DEF Init
  <2>2. data[p] \in Inputs[p]
    BY <2>1 DEF LibcspCalls
  <2> QED BY <2>2, FreshIdentifier
<1> QED BY <1>1, <1>2, <1>3, <1>4 DEF ProbeTypes

\* Every step keeps the types, and a task that returns has made a real call.
LEMMA RealStep ==
    ASSUME LibcspCalls, ProbeTypes, [Next]_vars
    PROVE  /\ ProbeTypes'
           /\ \A t \in Tasks : pc[t] = "mutate" /\ pc'[t] = "idle" =>
                RealCall(t) /\ (ProbeOf[t] \notin {"Read", "Send"} => ~(Len(log') > Len(log) /\ log'[Len(log')].status = 1))
<1>1. ASSUME NEW t \in Tasks, GetModel(t)
      PROVE  ProbeTypes' /\ \A s \in Tasks : ~(pc[s] = "mutate" /\ pc'[s] = "idle")
  <2> DEFINE q == ProbeOf[t]
  <2>1. \A s \in Tasks : ~(pc[s] = "mutate" /\ pc'[s] = "idle")
    BY <1>1 DEF GetModel, ProbeTypes
  <2>2. mutation' = mutation /\ log' = log /\ DOMAIN pc' = Tasks
    BY <1>1 DEF GetModel, ProbeTypes
  <2>3. data' = data \/ \E d \in Inputs[q] : data' = [data EXCEPT ![q] = d]
    BY <1>1 DEF GetModel
  <2>4. data' = [p \in Probes |-> data'[p]]
    BY <2>3 DEF ProbeTypes
  <2>5. ASSUME NEW p \in {"Read", "Send"}
        PROVE  data'[p] = [i \in 1 .. 6 |-> data'[p][i]] /\ \A i \in 1 .. 6 : data'[p][i] \in 0 .. Width(i) - 1
    <3>1. data'[p] = data[p] \/ data'[p] \in Inputs[p]
      BY <2>3, LibcspAssumption DEF ProbeTypes
    <3>2. CASE data'[p] = data[p]
      BY <3>2 DEF ProbeTypes
    <3>3. CASE data'[p] \in Inputs[p]
      BY <3>3, FreshIdentifier
    <3> QED BY <3>1, <3>2, <3>3
  <2> QED BY <2>1, <2>2, <2>4, <2>5 DEF ProbeTypes
<1>2. ASSUME NEW t \in Tasks, FillModel(t)
      PROVE  ProbeTypes' /\ \A s \in Tasks : ~(pc[s] = "mutate" /\ pc'[s] = "idle")
  BY <1>2 DEF FillModel, ProbeTypes
<1>3. ASSUME NEW t \in Tasks, CoverOnly(t) \/ NotMine(t) \/ Mutate(t)
      PROVE  \A s \in Tasks : pc[s] = "mutate" /\ pc'[s] = "idle" => s = t
  BY <1>3 DEF CoverOnly, NotMine, Mutate, Return, ProbeTypes
<1>4. ASSUME NEW t \in Tasks, CoverOnly(t)
      PROVE  ProbeTypes' /\ RealCall(t) /\ Len(log') = Len(log)
  <2>1. ProbeTypes'
    BY <1>4 DEF CoverOnly, Return, ProbeTypes
  <2>2. log' = log /\ data' = data /\ Len(log) \in Nat
    BY <1>4 DEF CoverOnly, ProbeTypes, IsSeq
  <2> QED BY <2>1, <2>2 DEF RealCall
<1>5. ASSUME NEW t \in Tasks, NotMine(t)
      PROVE  ProbeTypes' /\ RealCall(t) /\ log'[Len(log')].status # 1
  <2> DEFINE line == Line(ProbeOf[t], 0)
  <2>1. log' = Append(log, line) /\ line.status # 1 /\ data' = data /\ mutation' = mutation /\ DOMAIN pc' = Tasks
    BY <1>5 DEF NotMine, Return, Line, ProbeTypes
  <2> HIDE DEF line
  <2>2. IsSeq(log') /\ Len(log') = Len(log) + 1 /\ log'[Len(log) + 1] = line
    BY <2>1, AppendIsSeq DEF ProbeTypes
  <2> QED BY <2>1, <2>2 DEF RealCall, ProbeTypes
<1>6. ASSUME NEW t \in Tasks, Mutate(t)
      PROVE  ProbeTypes' /\ RealCall(t) /\ ProbeOf[t] \in {"Read", "Send"}
  <2>1. ProbeOf[t] \in {"Read", "Send"}
    BY <1>6, OneModel, LibcspAssumption DEF Mutate, ProbeTypes
  <2> QED BY <1>6, <2>1, MutateIsReal
<1>7. CASE Exit \/ UNCHANGED vars
  BY <1>7 DEF Exit, vars, ProbeTypes
<1>8. Len(log) \in Nat
  BY DEF ProbeTypes, IsSeq
<1>9. ASSUME NEW t \in Tasks, CoverOnly(t) \/ NotMine(t) \/ Mutate(t)
      PROVE  /\ ProbeTypes' /\ RealCall(t)
             /\ ProbeOf[t] \notin {"Read", "Send"} => ~(Len(log') > Len(log) /\ log'[Len(log')].status = 1)
  BY <1>4, <1>5, <1>6, <1>8, <1>9
<1> QED BY <1>1, <1>2, <1>3, <1>7, <1>9 DEF Next

\* A call of a probe of libcsp that reports status 1 has changed the field that the
\* row of the mutant names, to a value of the fault class that is still one after
\* it was cut to the width of the field, and nothing else; and a change is reported.
THEOREM AppliedMutantsAreReal ==
    ASSUME LibcspCalls, LibcspMutantsOnly
    PROVE  Spec => AppliedIsReal
<1>1. Init => ProbeTypes
  BY ProbeTypesInit
<1>2. ProbeTypes /\ [Next]_vars => ProbeTypes'
  BY RealStep
<1>3. ProbeTypes /\ [Next]_vars =>
        [\A t \in Tasks :
          LET p == ProbeOf[t]
              m == Mutants[mutation + 1]
              lineOfCall == log'[Len(log')]
          IN  pc[t] = "mutate" /\ pc'[t] = "idle" =>
                /\ data' # data => Len(log') = Len(log) + 1
                /\ Len(log') > Len(log) /\ lineOfCall.status = 1 =>
                    /\ p \in {"Read", "Send"} => data'[p][m.item] # data[p][m.item]
                    /\ InClass(Models[p].items[m.item].ops[m.op], data'[p][m.item])
                    /\ \A q \in Probes : \A i \in DOMAIN data[q] :
                         <<q, i>> # <<p, m.item>> => data'[q][i] = data[q][i]]_vars
  BY RealStep DEF RealCall, RowOp, RowItem, Chosen
<1> QED BY <1>1, <1>2, <1>3, PTL DEF Spec, AppliedIsReal
=============================================================================
