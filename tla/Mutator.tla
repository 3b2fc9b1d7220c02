------------------------------ MODULE Mutator -------------------------------
(* The data-driven mutator of DAMAt (src/FAQAS_dataDrivenMutator.h): fault    *)
(* models built on first use, and _FAQAS_mutate, which replaces one item of a *)
(* buffer and writes a line to the coverage file.  A value is an integer; the *)
(* random draws are nondeterministic.  All items of libcsp have span 1.       *)
EXTENDS Integers, Sequences, FiniteSets

CONSTANTS
    Probes,     \* the fault models, by name
    Models,     \* [Probes -> fault model], generated from the csv file
    Mutants,    \* mutant k - 1 |-> [item, op, opt], generated from the csv file
    Ids,        \* the values MUTATION may be compiled with
    Tasks,      \* the tasks that call probes
    ProbeOf,    \* [Tasks -> Probes]
    Inputs,     \* [Probes -> set of buffers]: a new connection's identifier
    Trunc(_, _, _), \* (probe, item, value): what the caller stores back
    Singleton,  \* _FAQAS_SINGLETON_FM is defined
    MaxCalls    \* bound on the calls of a probe

VARIABLES
    mutation,   \* MUTATION
    ptr,        \* _FAQAS_<probe>_FM_ptr: "null", "filling", "ready" or "freed"
    pc,         \* where each task is in mutate_FM_<probe>
    data,       \* the identifier each probe reads and writes back
    applied,    \* lines with status 1 since the identifier was new, per probe
    hv,         \* memory of the HV operator
    mutated,    \* _FAQAS_mutated
    counter,    \* global_mutation_counter
    log,        \* the coverage file
    fmCov       \* FAQAS_fmCov

vars == <<mutation, ptr, pc, data, applied, hv, mutated, counter, log, fmCov>>

Numeric == {"INT", "LONG", "DOUBLE", "FLOAT"}

\* An outcome of an operator: the new value, the status written to the coverage
\* file (NoLine: none) and whether the operator sets _FAQAS_mutated.
NoLine == -1

Out(v, status, sets) == [v |-> v, status |-> status, sets |-> sets]

Ignored(v) == {Out(v, NoLine, FALSE)}

\* One more bit flipped: the loop gives up after ten tries per bit and then
\* reports failure, even if the last try found a bit.
FlipOne(op, o) ==
    LET bit(p)   == (o.v \div 2^p) % 2
        flip(p)  == IF bit(p) = 0 THEN o.v + 2^p ELSE o.v - 2^p
        range    == op.min .. op.max
        good     == {p \in range : op.state \in {0, 1} => bit(p) = op.state}
        gaveUp   == IF good = range THEN {}
                    ELSE {o.v} \cup {flip(p) : p \in good}
    IN  {Out(flip(p), o.status, TRUE) : p \in good} \cup {Out(v, 0, TRUE) : v \in gaveUp}

BF(op, v) ==
    LET flips[n \in 0 .. op.value] ==
            IF n = 0 THEN {Out(v, 1, TRUE)}
            ELSE UNION {FlipOne(op, o) : o \in flips[n - 1]}
    IN  flips[op.value]

VOR(op, type, opt, v) ==
    IF type \notin Numeric THEN Ignored(v)
    ELSE IF v \notin op.min .. op.max THEN {Out(v, 0, TRUE)}
    ELSE IF opt = 0 THEN {Out(op.min - op.delta, 1, TRUE)}
    ELSE IF opt = 1 THEN {Out(op.max + op.delta, 1, TRUE)}
    ELSE {Out(v, NoLine, TRUE)}

\* Mutant: one draw, kept even if it is the old value.
RedrawOnce(op, type, v) == {Out(r, 1, TRUE) : r \in op.min .. op.max}

\* FVOR and INV draw until the value differs; the thousandth draw is kept and
\* reported as a failure whatever it is.
Redraw(op, type, v) ==
    IF type \notin Numeric THEN {Out(v, 1, TRUE)}
    ELSE IF op.max = op.min THEN {Out(op.max, 1, TRUE)}
    ELSE IF op.max < op.min THEN {Out(v, 0, TRUE)}
    ELSE LET range == op.min .. op.max
         IN  {Out(r, 1, TRUE) : r \in range \ {v}} \cup
             (IF v \in range THEN {Out(r, 0, TRUE) : r \in range} ELSE {})

FVOR(op, type, v) == Redraw(op, type, v)
INV(op, type, v) == Redraw(op, type, v)

\* The threshold operators replace a value on the wrong side of the threshold.
Replace(type, v, test, new) ==
    IF type \notin Numeric THEN Ignored(v)
    ELSE IF test THEN {Out(new, 1, TRUE)} ELSE {Out(v, 0, TRUE)}

VAT(op, type, v) == Replace(type, v, v <= op.threshold, op.threshold + op.delta)
FVAT(op, type, v) == Replace(type, v, v > op.threshold, op.threshold - op.delta)
VBT(op, type, v) == Replace(type, v, v >= op.threshold, op.threshold - op.delta)
FVBT(op, type, v) == Replace(type, v, v < op.threshold, op.threshold + op.delta)

IV(op, type, v) ==
    IF type \in Numeric /\ v # op.value THEN {Out(op.value, 1, TRUE)}
                                        ELSE {Out(v, 0, TRUE)}

SS(op, type, v) == {Out(IF type \in Numeric THEN v + op.delta ELSE v, 1, TRUE)}

\* The second test looks at the result of the first.  LONG and BIN are left alone.
ASA(op, type, v) ==
    LET t  == op.threshold
        v1 == IF v >= t THEN t + (v - t) * op.value + op.delta ELSE v
        v2 == IF v1 < t THEN t - (v1 - t) * op.value + op.delta ELSE v1
    IN  IF type \in Numeric \ {"LONG"} THEN {Out(v2, 1, TRUE)} ELSE {Out(v, 1, FALSE)}

\* HV keeps a sample for op.value calls.  For LONG the sample goes to another
\* variable than the one read back, which therefore stays 0.
HVNext(op, type, v) ==
    LET h == IF hv.sample
             THEN [sample |-> FALSE, repeat |-> op.value,
                   stored |-> IF type = "LONG" THEN hv.stored ELSE v]
             ELSE hv
        n == IF h.repeat > 0 THEN h.repeat - 1 ELSE h.repeat
    IN  [out  |-> Out(IF h.repeat > 0 THEN h.stored ELSE v, 1, TRUE),
         hv   |-> [h EXCEPT !.repeat = n, !.sample = h.sample \/ n = 0]]

\* What the operator makes of the value, and the HV memory after it.
Apply(op, type, opt, v) ==
    IF op.type = "HV" THEN {HVNext(op, type, v)}
    ELSE {[out |-> o, hv |-> hv] : o \in
            CASE op.type = "BF"   -> BF(op, v)
              [] op.type = "VOR"  -> VOR(op, type, opt, v)
              [] op.type = "FVOR" -> FVOR(op, type, v)
              [] op.type = "VAT"  -> VAT(op, type, v)
              [] op.type = "FVAT" -> FVAT(op, type, v)
              [] op.type = "VBT"  -> VBT(op, type, v)
              [] op.type = "FVBT" -> FVBT(op, type, v)
              [] op.type = "IV"   -> IV(op, type, v)
              [] op.type = "SS"   -> SS(op, type, v)
              [] op.type = "INV"  -> INV(op, type, v)
              [] op.type = "ASA"  -> ASA(op, type, v)}

-----------------------------------------------------------------------------
Init ==
    /\ mutation \in Ids
    /\ ptr = [p \in Probes |-> "null"]
    /\ pc = [t \in Tasks |-> "idle"]
    /\ data = [p \in Probes |-> CHOOSE d \in Inputs[p] : TRUE]
    /\ applied = [p \in Probes |-> 0]
    /\ hv = [sample |-> TRUE, repeat |-> 0, stored |-> 0]
    /\ mutated = FALSE
    /\ counter = 1
    /\ log = <<>>
    /\ fmCov = 0

\* A line of the coverage file.
Line(probe, status) == [mutant |-> mutation, counter |-> counter,
                        status |-> status, probe |-> probe]

\* The call is for the identifier of the last call or for that of a new
\* connection.  _FAQAS_<probe>_FM publishes the pointer before the model is filled.
GetModel(t) ==
    LET p == ProbeOf[t]
    IN  /\ pc[t] = "idle"
        /\ Len(log) + fmCov + Cardinality({u \in Tasks : pc[u] # "idle"}) < MaxCalls
        /\ \/ UNCHANGED <<data, applied>>
           \/ /\ \E d \in Inputs[p] : data' = [data EXCEPT ![p] = d]
              /\ applied' = [applied EXCEPT ![p] = 0]
        /\ IF ptr[p] = "null"
           THEN /\ ptr' = [ptr EXCEPT ![p] = "filling"]
                /\ pc' = [pc EXCEPT ![t] = "fill"]
           ELSE /\ pc' = [pc EXCEPT ![t] = "mutate"]
                /\ UNCHANGED ptr
        /\ UNCHANGED <<mutation, hv, mutated, counter, log, fmCov>>

FillModel(t) ==
    /\ pc[t] = "fill"
    /\ ptr' = [ptr EXCEPT ![ProbeOf[t]] = "ready"]
    /\ pc' = [pc EXCEPT ![t] = "mutate"]
    /\ UNCHANGED <<mutation, data, applied, hv, mutated, counter, log, fmCov>>

\* Mutant: the singleton is freed after every call too.
DeleteAlways(p) == "freed"

\* _FAQAS_delete_FM frees the model unless it is a singleton; the pointer stays.
DeleteModel(p) == IF Singleton THEN ptr[p] ELSE "freed"

Return(t) ==
    /\ pc' = [pc EXCEPT ![t] = "idle"]
    /\ ptr' = [ptr EXCEPT ![ProbeOf[t]] = DeleteModel(ProbeOf[t])]

\* MUTATION -1: off; -2 and -3: fault model coverage only.
CoverOnly(t) ==
    /\ pc[t] = "mutate" /\ mutation \in {-1, -2, -3}
    /\ fmCov' = IF mutation = -1 THEN fmCov ELSE fmCov + 1
    /\ Return(t)
    /\ UNCHANGED <<mutation, data, applied, hv, mutated, counter, log>>

\* Mutant: the lower end of the range is off by one.
InRangeLow(p) == mutation + 1 >= Models[p].min /\ mutation < Models[p].max

InRange(p) == mutation >= Models[p].min /\ mutation < Models[p].max

\* The mutant belongs to another fault model.
NotMine(t) ==
    LET p == ProbeOf[t]
    IN  /\ pc[t] = "mutate" /\ mutation \notin {-1, -2, -3} /\ ~InRange(p)
        /\ log' = Append(log, Line(p, 0))
        /\ Return(t)
        /\ UNCHANGED <<mutation, data, applied, hv, mutated, counter, fmCov>>

\* Nothing is stored until some operator has set _FAQAS_mutated, which no call
\* ever resets.
Store(p, item, v) ==
    IF mutated'
    THEN /\ data' = [data EXCEPT ![p][item] = Trunc(p, item, v)]
         /\ counter' = counter + 1
    ELSE UNCHANGED <<data, counter>>

\* The body of _FAQAS_mutate and the copy back by the probe.
Mutate(t) ==
    LET p    == ProbeOf[t]
        m    == Mutants[mutation + 1]
        item == Models[p].items[m.item]
    IN  /\ pc[t] = "mutate" /\ mutation \notin {-1, -2, -3} /\ InRange(p)
        /\ \E r \in Apply(item.ops[m.op], item.type, m.opt, data[p][m.item]) :
            /\ hv' = r.hv
            /\ mutated' = (mutated \/ r.out.sets)
            /\ log' = IF r.out.status = NoLine THEN log
                      ELSE Append(log, Line(p, r.out.status))
            /\ applied' = IF r.out.status = 1
                          THEN [applied EXCEPT ![p] = @ + 1] ELSE applied
            /\ Store(p, m.item, r.out.v)
        /\ Return(t)
        /\ UNCHANGED <<mutation, fmCov>>

\* The atexit handlers, run when no task is inside a probe.
Exit ==
    /\ \A t \in Tasks : pc[t] = "idle"
    /\ ptr' = [p \in Probes |-> "null"]
    /\ pc' = [t \in Tasks |-> "exited"]
    /\ UNCHANGED <<mutation, data, applied, hv, mutated, counter, log, fmCov>>

Next ==
    \/ \E t \in Tasks : GetModel(t) \/ FillModel(t) \/ CoverOnly(t) \/ NotMine(t) \/ Mutate(t)
    \/ Exit

Spec == Init /\ [][Next]_vars
=============================================================================
