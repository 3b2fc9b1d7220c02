------------------------- MODULE PthreadQueueProofs -------------------------
(***************************************************************************)
(* Proofs about PthreadQueue for every number of threads, every size and   *)
(* every set of values: types, the first-in first-out refinement, and the  *)
(* absence of lost wake-ups.                                               *)
(***************************************************************************)
EXTENDS PthreadQueue, Integers, TLAPS

\* What ties the ring buffer to the history: the two points are the two
\* counts modulo the size, and between them lie the values not yet taken.
Ring ==
  /\ items = Len(put) - Len(got)
  /\ in = Len(put) % Size
  /\ out = Len(got) % Size
  /\ \A i \in Nat : Len(got) <= i /\ i < Len(put) => buffer[i % Size] = put[i + 1]

RingOK == TypeOK /\ Ring

\* Two positions less than a full turn apart are different places of the
\* ring.
LEMMA ModDistinct ==
  ASSUME NEW a \in Nat, NEW b \in Nat, NEW n \in Nat \ {0}, a < b, b - a < n
  PROVE  a % n # b % n
<1> DEFINE qa == a \div n
           qb == b \div n
<1>1. /\ qa \in Int /\ qb \in Int
      /\ a = (n * qa) + (a % n)
      /\ b = (n * qb) + (b % n)
  OBVIOUS
<1> HIDE DEF qa, qb
<1>2. SUFFICES ASSUME a % n = b % n PROVE FALSE
  OBVIOUS
<1>3. b - a = n * (qb - qa)
  BY <1>1, <1>2
<1>4. CASE qb - qa <= 0
  <2>1. n * (qb - qa) <= 0
    BY <1>1, <1>4
  <2> QED BY <2>1, <1>3
<1>5. CASE qb - qa >= 1
  <2>1. n * (qb - qa) >= n
    BY <1>1, <1>5
  <2> QED BY <2>1, <1>3
<1> QED BY <1>1, <1>4, <1>5

\* The successor of a point, modulo the size, is the successor of its count.
LEMMA ModSucc ==
  ASSUME NEW a \in Nat, NEW n \in Nat \ {0}
  PROVE  ((a % n) + 1) % n = (a + 1) % n
<1> DEFINE q == a \div n
           r == a % n
<1>1. q \in Nat /\ r \in 0 .. n - 1 /\ a = (n * q) + r
  OBVIOUS
<1> HIDE DEF q, r
<1>2. CASE r = n - 1
  <2>1. a + 1 = n * (q + 1)
    BY <1>1, <1>2
  <2>2. (n * (q + 1)) % n = 0
    BY <1>1
  <2>3. (r + 1) % n = 0
    BY <1>1, <1>2
  <2> QED BY <2>1, <2>2, <2>3 DEF r
<1>3. CASE r # n - 1
  <2>1. a + 1 = (n * q) + (r + 1) /\ r + 1 \in 0 .. n - 1
    BY <1>1, <1>3
  <2>2. ((n * q) + (r + 1)) % n = r + 1
    BY <1>1, <2>1
  <2>3. (r + 1) % n = r + 1
    BY <1>1, <2>1
  <2> QED BY <2>1, <2>2, <2>3 DEF r
<1> QED BY <1>2, <1>3
-----------------------------------------------------------------------------
LEMMA InitRing == Init => RingOK
  BY SizeAssumption DEF Init, RingOK, TypeOK, Ring, NoCall, Ops

\* What Start, Block, GiveUp, Notify, Wake and Expire leave of the ring.
LEMMA RingKept ==
  ASSUME RingOK, UNCHANGED <<queue, put, got>>, TypeOK'
  PROVE  RingOK'
  BY DEF RingOK, Ring, queue

LEMMA InsertRing ==
  ASSUME RingOK, NEW t \in Threads, Insert(t)
  PROVE  RingOK' /\ Fifo!Put(call[t].value)
<1> USE SizeAssumption DEF RingOK, TypeOK
<1>1. call[t].value \in Values /\ put' = Append(put, call[t].value) /\ Len(put') = Len(put) + 1
      /\ Len(put) \in Nat /\ Len(got) \in Nat
  BY DEF Insert
<1>2. items < Size /\ Len(put) - Len(got) < Size
  BY DEF Insert, Ready, Ring
<1>3. TypeOK'
  <2>1. put' \in Seq(Values) /\ got' \in Seq(Values)
    BY <1>1 DEF Insert
  <2>2. in' \in 0 .. Size - 1
    BY DEF Insert
  <2>3. buffer' \in [0 .. Size - 1 -> Values \cup {NoValue}]
    BY <1>1 DEF Insert
  <2>4. pc' \in [Threads -> {"idle", "test", "sleep", "expired", "notify"}]
        /\ \A u \in Threads : pc'[u] = "idle" <=> call'[u].op = "none"
    BY DEF Insert
  <2> QED BY <1>2, <2>1, <2>2, <2>3, <2>4 DEF Insert
<1>4. Ring'
  <2>1. items' = Len(put') - Len(got')
    BY <1>1 DEF Insert, Ring
  <2>2. in' = Len(put') % Size
    BY <1>1, ModSucc DEF Insert, Ring
  <2>3. ASSUME NEW i \in Nat, Len(got') <= i, i < Len(put')
        PROVE  buffer'[i % Size] = put'[i + 1]
    <3>1. i % Size \in 0 .. Size - 1 /\ in \in 0 .. Size - 1
      OBVIOUS
    <3>2. CASE i = Len(put)
      BY <1>1, <3>1, <3>2 DEF Insert, Ring
    <3>3. CASE i < Len(put)
      <4>1. Len(got) <= i
        BY <2>3 DEF Insert
      <4>2. i % Size # in
        <5>1. Len(put) - i < Size
          BY <1>1, <1>2, <4>1
        <5> QED BY <1>1, <3>3, <5>1, ModDistinct DEF Ring
      <4>3. buffer'[i % Size] = buffer[i % Size]
        BY <3>1, <4>2 DEF Insert
      <4>4. put'[i + 1] = put[i + 1]
        BY <1>1, <3>3
      <4> QED BY <3>3, <4>1, <4>3, <4>4 DEF Ring
    <3> QED BY <1>1, <2>3, <3>2, <3>3
  <2>4. out' = Len(got') % Size
    BY DEF Insert, Ring
  <2> QED BY <2>1, <2>2, <2>3, <2>4 DEF Ring
<1>5. Fifo!Put(call[t].value)
  BY <1>1, <1>2 DEF Fifo!Put, Insert
<1> QED BY <1>3, <1>4, <1>5

LEMMA ExtractRing ==
  ASSUME RingOK, NEW t \in Threads, Extract(t)
  PROVE  RingOK' /\ Fifo!Get
<1> USE SizeAssumption DEF RingOK, TypeOK
<1>1. Len(put) \in Nat /\ Len(got) \in Nat /\ Len(got) < Len(put) /\ items > 0
  <2>1. Len(put) \in Nat /\ Len(got) \in Nat /\ items \in Nat
    OBVIOUS
  <2>2. items # 0 /\ items = Len(put) - Len(got)
    BY DEF Extract, Ready, Ring
  <2> QED BY <2>1, <2>2
<1>2. buffer[out] = put[Len(got) + 1] /\ buffer[out] \in Values
  <2>1. buffer[out] = put[Len(got) + 1]
    <3>1. out = Len(got) % Size
      BY DEF Ring
    <3>2. \A i \in Nat : Len(got) <= i /\ i < Len(put) => buffer[i % Size] = put[i + 1]
      BY Zenon DEF Ring
    <3> HIDE DEF RingOK, TypeOK
    <3>3. buffer[Len(got) % Size] = put[Len(got) + 1]
      BY <1>1, <3>2
    <3> QED BY <3>1, <3>3
  <2>2. put[Len(got) + 1] \in Values
    BY <1>1
  <2> QED BY <2>1, <2>2
<1>3. got' = Append(got, buffer[out]) /\ got' \in Seq(Values) /\ Len(got') = Len(got) + 1
  BY <1>2 DEF Extract
<1>4. TypeOK'
  <2>1. out' \in 0 .. Size - 1
    BY DEF Extract
  <2>2. pc' \in [Threads -> {"idle", "test", "sleep", "expired", "notify"}]
        /\ \A u \in Threads : pc'[u] = "idle" <=> call'[u].op = "none"
    BY DEF Extract
  <2> QED BY <1>1, <1>3, <2>1, <2>2 DEF Extract
<1>5. Ring'
  <2>1. items' = Len(put') - Len(got') /\ in' = Len(put') % Size
    BY <1>1, <1>3 DEF Extract, Ring
  <2>2. out' = Len(got') % Size
    BY <1>1, <1>3, ModSucc DEF Extract, Ring
  <2>3. ASSUME NEW i \in Nat, Len(got') <= i, i < Len(put')
        PROVE  buffer'[i % Size] = put'[i + 1]
    <3>1. Len(got) <= i /\ i < Len(put) /\ buffer' = buffer /\ put' = put
      BY <1>1, <1>3, <2>3 DEF Extract
    <3> QED BY <3>1 DEF Ring
  <2> QED BY <2>1, <2>2, <2>3 DEF Ring
<1>6. Fifo!Get
  BY <1>1, <1>2, <1>3 DEF Fifo!Get, Extract
<1> QED BY <1>4, <1>5, <1>6

LEMMA NextRing == RingOK /\ [Next]_vars => RingOK' /\ [Fifo!Next]_(Fifo!vars)
<1> SUFFICES ASSUME RingOK, [Next]_vars
             PROVE  RingOK' /\ [Fifo!Next]_(Fifo!vars)
  OBVIOUS
<1>1. CASE UNCHANGED vars
  BY <1>1 DEF vars, RingOK, TypeOK, Ring, Fifo!vars
<1>2. ASSUME UNCHANGED <<queue, put, got>>, TypeOK'
      PROVE  RingOK' /\ [Fifo!Next]_(Fifo!vars)
  BY <1>2, RingKept DEF Fifo!vars
<1>3. ASSUME NEW t \in Threads, CallEnqueue(t) \/ CallDequeue(t)
      PROVE  RingOK' /\ [Fifo!Next]_(Fifo!vars)
  <2>1. UNCHANGED <<queue, put, got>>
    BY <1>3 DEF CallEnqueue, CallDequeue, Start
  <2>2. TypeOK'
    <3>1. PICK c \in [op : Ops, value : Values \cup {NoValue}, timed : BOOLEAN, eintr : BOOLEAN] :
            Start(t, c) /\ (c.op = "enqueue" => c.value \in Values)
      <4>1. CASE CallEnqueue(t)
        <5>1. PICK v \in Values, timed \in BOOLEAN, e \in StaleErrno :
                Start(t, [op |-> "enqueue", value |-> v, timed |-> timed, eintr |-> timed /\ e])
          BY <4>1 DEF CallEnqueue
        <5> DEFINE b == timed /\ e
                   c == [op |-> "enqueue", value |-> v, timed |-> timed, eintr |-> b]
        <5>2. b \in BOOLEAN
          OBVIOUS
        <5> HIDE DEF b
        <5>3. c \in [op : Ops, value : Values \cup {NoValue}, timed : BOOLEAN, eintr : BOOLEAN]
              /\ c.op = "enqueue" /\ c.value = v
          BY <5>2 DEF Ops
        <5>4. Start(t, c)
          BY <5>1 DEF b
        <5> HIDE DEF c
        <5> QED BY <5>3, <5>4
      <4>2. CASE CallDequeue(t)
        <5>1. PICK timed \in BOOLEAN, e \in StaleErrno :
                Start(t, [op |-> "dequeue", value |-> NoValue, timed |-> timed, eintr |-> timed /\ e])
          BY <4>2 DEF CallDequeue
        <5> DEFINE b == timed /\ e
                   c == [op |-> "dequeue", value |-> NoValue, timed |-> timed, eintr |-> b]
        <5>2. b \in BOOLEAN
          OBVIOUS
        <5> HIDE DEF b
        <5>3. c \in [op : Ops, value : Values \cup {NoValue}, timed : BOOLEAN, eintr : BOOLEAN]
              /\ c.op = "dequeue" /\ c.value = NoValue
          BY <5>2 DEF Ops
        <5>4. Start(t, c)
          BY <5>1 DEF b
        <5> HIDE DEF c
        <5> QED BY <5>3, <5>4
      <4> QED BY <1>3, <4>1, <4>2
    <3>2. pc' \in [Threads -> {"idle", "test", "sleep", "expired", "notify"}]
          /\ call' \in [Threads -> [op : Ops \cup {"none"}, value : Values \cup {NoValue},
                                   timed : BOOLEAN, eintr : BOOLEAN]]
      BY <3>1 DEF RingOK, TypeOK, Start
    <3>3. ASSUME NEW u \in Threads
          PROVE  /\ pc'[u] = "idle" <=> call'[u].op = "none"
                 /\ call'[u].op = "enqueue" => call'[u].value \in Values
      BY <3>1 DEF RingOK, TypeOK, Start, Ops
    <3> QED BY <2>1, <3>2, <3>3 DEF RingOK, TypeOK, queue
  <2> QED BY <2>1, <2>2, <1>2
<1>4. ASSUME NEW t \in Threads, Block(t) \/ Wake(t) \/ Expire(t)
      PROVE  RingOK' /\ [Fifo!Next]_(Fifo!vars)
  <2>1. UNCHANGED <<queue, put, got>>
    BY <1>4 DEF Block, Wake, Expire
  <2>2. TypeOK'
    BY <1>4, <2>1 DEF RingOK, TypeOK, queue, Block, Wake, Expire, AtTest
  <2> QED BY <2>1, <2>2, <1>2
<1>5. ASSUME NEW t \in Threads, GiveUp(t) \/ Notify(t)
      PROVE  RingOK' /\ [Fifo!Next]_(Fifo!vars)
  <2>1. UNCHANGED <<queue, put, got>>
    BY <1>5 DEF GiveUp, Notify
  <2>2. TypeOK'
    <3>1. call' = [call EXCEPT ![t] = NoCall] /\ pc'[t] = "idle"
          /\ pc' \in [Threads -> {"idle", "test", "sleep", "expired", "notify"}]
          /\ \A u \in Threads \ {t} : pc'[u] = pc[u] \/ (pc[u] # "idle" /\ pc'[u] # "idle")
      BY <1>5 DEF RingOK, TypeOK, GiveUp, Notify, Return, Waiters
    <3>2. call' \in [Threads -> [op : Ops \cup {"none"}, value : Values \cup {NoValue},
                                timed : BOOLEAN, eintr : BOOLEAN]]
      BY <3>1 DEF RingOK, TypeOK, NoCall
    <3>3. ASSUME NEW u \in Threads
          PROVE  /\ pc'[u] = "idle" <=> call'[u].op = "none"
                 /\ call'[u].op = "enqueue" => call'[u].value \in Values
      BY <3>1 DEF RingOK, TypeOK, NoCall
    <3> QED BY <2>1, <3>1, <3>2, <3>3 DEF RingOK, TypeOK, queue
  <2> QED BY <2>1, <2>2, <1>2
<1>6. ASSUME NEW t \in Threads, Insert(t)
      PROVE  RingOK' /\ [Fifo!Next]_(Fifo!vars)
  <2>1. call[t].value \in Values
    BY <1>6 DEF RingOK, TypeOK, Insert
  <2> QED BY <1>6, <2>1, InsertRing DEF Fifo!Next
<1>7. ASSUME NEW t \in Threads, Extract(t)
      PROVE  RingOK' /\ [Fifo!Next]_(Fifo!vars)
  BY <1>7, ExtractRing DEF Fifo!Next
<1> QED BY <1>1, <1>3, <1>4, <1>5, <1>6, <1>7 DEF Next, Run

\* The insert and the extract point never leave the buffer, whatever the
\* threads do (pthread_queue_enqueue, pthread_queue_dequeue).
THEOREM TypeCorrect == Spec => []TypeOK
<1>1. RingOK => TypeOK
  BY DEF RingOK
<1> QED BY InitRing, NextRing, <1>1, PTL DEF Spec

\* The ring buffer under its mutex implements the bounded FIFO that
\* csp_queue.h promises.
THEOREM ImplementsFifo == Spec => FifoSpec
<1>1. Init => Fifo!Init
  BY DEF Init, Fifo!Init
<1> QED BY InitRing, NextRing, <1>1, PTL DEF Spec, FifoSpec, Fifo!Spec

-----------------------------------------------------------------------------
LEMMA NextWakeup == RingOK /\ NoLostWakeup /\ [Next]_vars => NoLostWakeup'
<1> SUFFICES ASSUME RingOK, NoLostWakeup, [Next]_vars,
                    NEW t \in Threads, pc'[t] = "sleep", Ready(call[t].op)' 
             PROVE  \E u \in Threads : pc'[u] = "notify" /\ call'[u].op \in Ops \ {call'[t].op}
  BY DEF NoLostWakeup
<1> USE DEF RingOK, TypeOK
<1>1. CASE UNCHANGED vars
  BY <1>1 DEF vars, NoLostWakeup, Ready
<1>2. ASSUME NEW s \in Threads, CallEnqueue(s) \/ CallDequeue(s)
      PROVE  \E u \in Threads : pc'[u] = "notify" /\ call'[u].op \in Ops \ {call'[t].op}
  <2>1. PICK c : Start(s, c)
    BY <1>2 DEF CallEnqueue, CallDequeue
  <2>2. s # t /\ pc[t] = "sleep" /\ call'[t] = call[t] /\ items' = items
    BY <2>1 DEF Start, queue
  <2>3. PICK u \in Threads : pc[u] = "notify" /\ call[u].op \in Ops \ {call[t].op}
    BY <2>2 DEF NoLostWakeup, Ready
  <2>4. pc'[u] = "notify" /\ call'[u] = call[u]
    BY <2>1, <2>3 DEF Start
  <2> QED BY <2>2, <2>3, <2>4
<1>3. ASSUME NEW s \in Threads, Block(s) \/ Wake(s) \/ Expire(s)
      PROVE  \E u \in Threads : pc'[u] = "notify" /\ call'[u].op \in Ops \ {call'[t].op}
  <2>1. call' = call /\ items' = items /\ \A u \in Threads : pc[u] = "notify" => pc'[u] = "notify"
    BY <1>3 DEF Block, Wake, Expire, queue, AtTest
  <2>2. pc[t] = "sleep"
    BY <1>3, <2>1 DEF Block, Wake, Expire, Ready
  <2> QED BY <2>1, <2>2 DEF NoLostWakeup, Ready
<1>4. ASSUME NEW s \in Threads, GiveUp(s)
      PROVE  \E u \in Threads : pc'[u] = "notify" /\ call'[u].op \in Ops \ {call'[t].op}
  <2>1. s # t /\ pc[t] = "sleep" /\ call'[t] = call[t] /\ items' = items
    BY <1>4 DEF GiveUp, Return, queue
  <2>2. PICK u \in Threads : pc[u] = "notify" /\ call[u].op \in Ops \ {call[t].op}
    BY <2>1 DEF NoLostWakeup, Ready
  <2>3. pc'[u] = "notify" /\ call'[u] = call[u]
    BY <1>4, <2>2 DEF GiveUp, Return
  <2> QED BY <2>1, <2>2, <2>3
<1>5. ASSUME NEW s \in Threads, Notify(s)
      PROVE  \E u \in Threads : pc'[u] = "notify" /\ call'[u].op \in Ops \ {call'[t].op}
  <2>1. s # t /\ pc[t] = "sleep" /\ call'[t] = call[t] /\ items' = items
        /\ t \notin Waiters(call[s].op)
    BY <1>5 DEF Notify, queue
  <2>2. call[t].op = call[s].op
    BY <2>1 DEF Waiters
  <2>3. PICK u \in Threads : pc[u] = "notify" /\ call[u].op \in Ops \ {call[t].op}
    BY <2>1 DEF NoLostWakeup, Ready
  <2>4. u # s
    BY <2>2, <2>3
  <2>5. pc'[u] = "notify" /\ call'[u] = call[u]
    BY <1>5, <2>3, <2>4 DEF Notify, Waiters
  <2> QED BY <2>1, <2>3, <2>5
<1>6. ASSUME NEW s \in Threads, Insert(s) \/ Extract(s)
      PROVE  \E u \in Threads : pc'[u] = "notify" /\ call'[u].op \in Ops \ {call'[t].op}
  <2>1. call' = call /\ s # t /\ pc[t] = "sleep" /\ pc'[s] = "notify"
        /\ \A u \in Threads : pc[u] = "notify" => pc'[u] = "notify"
    BY <1>6 DEF Insert, Extract
  <2>2. call[t].op \in Ops
    BY <2>1
  <2>3. CASE call[s].op # call[t].op
    BY <1>6, <2>1, <2>3 DEF Insert, Extract, Ops
  <2>4. CASE call[s].op = call[t].op
    <3>1. Ready(call[t].op)
      BY <1>6, <2>4 DEF Insert, Extract
    <3> QED BY <2>1, <3>1 DEF NoLostWakeup
  <2> QED BY <2>3, <2>4
<1> QED BY <1>1, <1>2, <1>3, <1>4, <1>5, <1>6 DEF Next, Run

\* Whoever waits on a queue that became ready is about to be woken: the
\* broadcast outside the mutex loses no wake-up, for any number of threads.
THEOREM WakeupsAreNotLost == Spec => []NoLostWakeup
<1>1. Init => NoLostWakeup
  BY DEF Init, NoLostWakeup
<1> QED BY InitRing, NextRing, NextWakeup, <1>1, PTL DEF Spec
=============================================================================
