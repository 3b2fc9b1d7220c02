---------------------------- MODULE PthreadQueue ----------------------------
(***************************************************************************)
(* The queue of the POSIX port (src/arch/posix/pthread_queue.c): a ring    *)
(* buffer, a mutex and two condition variables.  Every queue of libcsp     *)
(* (router input, connection, socket, RDP, promiscuous) is one of these.   *)
(*                                                                         *)
(* A section under the mutex is one step: from pthread_mutex_lock, or the  *)
(* return of a wait, to the unlock or to the next wait.  The broadcast     *)
(* follows the unlock and is a step of its own.  pthread_cond_wait and     *)
(* pthread_cond_timedwait may return at any time without a broadcast       *)
(* (Wake), and the timed one once its absolute deadline passed (Expire).   *)
(* They report an error in their result and leave errno alone, so that     *)
(* `eintr' is what an earlier system call of the thread left in errno.     *)
(***************************************************************************)
EXTENDS Naturals, Sequences, FiniteSets

CONSTANTS Threads,    \* the tasks that use the queue, each in either role
          Values,     \* what they enqueue
          NoValue,    \* no value
          Size,       \* queue->size
          StaleErrno, \* whether errno may, or may not, hold EINTR at a call
          MaxPut      \* bound: values enqueued altogether

ASSUME SizeAssumption == Size \in Nat \ {0}
ASSUME ValueAssumption == NoValue \notin Values
ASSUME ErrnoAssumption == StaleErrno \subseteq BOOLEAN

VARIABLES buffer, items, in, out,   \* pthread_queue_t
          pc,                       \* where each thread is in its call
          call,                     \* its arguments
          put, got                  \* history: what entered and what left

queue == <<buffer, items, in, out>>
vars == <<buffer, items, in, out, pc, call, put, got>>

Ops == {"enqueue", "dequeue"}

NoCall == [op |-> "none", value |-> NoValue, timed |-> FALSE, eintr |-> FALSE]

\* pthread_queue_create.
Init ==
  /\ buffer = [i \in 0 .. Size - 1 |-> NoValue]
  /\ items = 0 /\ in = 0 /\ out = 0
  /\ pc = [t \in Threads |-> "idle"]
  /\ call = [t \in Threads |-> NoCall]
  /\ put = <<>> /\ got = <<>>

-----------------------------------------------------------------------------
\* A thread calls: timed unless the timeout is CSP_MAX_TIMEOUT.
Start(t, c) ==
  /\ pc[t] = "idle"
  /\ pc' = [pc EXCEPT ![t] = "test"]
  /\ call' = [call EXCEPT ![t] = c]
  /\ UNCHANGED <<queue, put, got>>

Return(t) ==
  /\ pc' = [pc EXCEPT ![t] = "idle"]
  /\ call' = [call EXCEPT ![t] = NoCall]

\* Enqueue calls that have not put their value in.
Enqueuing == {t \in Threads : call[t].op = "enqueue" /\ pc[t] # "notify"}

CallEnqueue(t) ==
  /\ Len(put) + Cardinality(Enqueuing) < MaxPut
  /\ \E v \in Values, timed \in BOOLEAN : \E e \in StaleErrno :
       Start(t, [op |-> "enqueue", value |-> v, timed |-> timed, eintr |-> timed /\ e])

CallDequeue(t) ==
  \E timed \in BOOLEAN : \E e \in StaleErrno :
    Start(t, [op |-> "dequeue", value |-> NoValue, timed |-> timed, eintr |-> timed /\ e])

-----------------------------------------------------------------------------
\* The loop's condition: what a call of this kind waits for.
Ready(op) == IF op = "enqueue" THEN items # Size ELSE items # 0

\* The thread holds the mutex and evaluates the loop's condition: it has just
\* called, was woken, or its wait ended with an error that errno hides.
AtTest(t) == pc[t] = "test" \/ (pc[t] = "expired" /\ call[t].eintr)

\* Mutant: the insert point is not taken modulo the size.
InsertNoWrap(t) ==
  /\ call[t].op = "enqueue" /\ AtTest(t) /\ Ready("enqueue")
  /\ buffer' = [buffer EXCEPT ![in] = call[t].value]
  /\ items' = items + 1
  /\ in' = in + 1
  /\ put' = Append(put, call[t].value)
  /\ pc' = [pc EXCEPT ![t] = "notify"]
  /\ UNCHANGED <<out, call, got>>

Insert(t) ==
  /\ call[t].op = "enqueue" /\ AtTest(t) /\ Ready("enqueue")
  /\ buffer' = [buffer EXCEPT ![in] = call[t].value]
  /\ items' = items + 1
  /\ in' = (in + 1) % Size
  /\ put' = Append(put, call[t].value)
  /\ pc' = [pc EXCEPT ![t] = "notify"]
  /\ UNCHANGED <<out, call, got>>

\* Mutant: the extract point does not move on.
ExtractStays(t) ==
  /\ call[t].op = "dequeue" /\ AtTest(t) /\ Ready("dequeue")
  /\ got' = Append(got, buffer[out])
  /\ items' = items - 1
  /\ pc' = [pc EXCEPT ![t] = "notify"]
  /\ UNCHANGED <<buffer, in, out, call, put>>

Extract(t) ==
  /\ call[t].op = "dequeue" /\ AtTest(t) /\ Ready("dequeue")
  /\ got' = Append(got, buffer[out])
  /\ items' = items - 1
  /\ out' = (out + 1) % Size
  /\ pc' = [pc EXCEPT ![t] = "notify"]
  /\ UNCHANGED <<buffer, in, call, put>>

\* The wait begins and releases the mutex, in one step.
Block(t) ==
  /\ AtTest(t) /\ ~Ready(call[t].op)
  /\ pc' = [pc EXCEPT ![t] = "sleep"]
  /\ UNCHANGED <<queue, call, put, got>>

\* Mutant: the result of the timed wait is ignored and the loop goes on.
GiveUpNever(t) ==
  /\ pc[t] = "expired" /\ ~call[t].eintr
  /\ pc' = [pc EXCEPT ![t] = "test"]
  /\ UNCHANGED <<queue, call, put, got>>

\* The timed wait failed: the call returns without another look at the queue.
GiveUp(t) ==
  /\ pc[t] = "expired" /\ ~call[t].eintr
  /\ Return(t)
  /\ UNCHANGED <<queue, put, got>>

-----------------------------------------------------------------------------
\* The threads that wait on the condition variable a call of kind op signals:
\* cond_empty after an enqueue, cond_full after a dequeue.
Waiters(op) == {u \in Threads : pc[u] = "sleep" /\ call[u].op # op}

\* Mutant: waiters are only told of the change that ended their condition.
NotifyIfFirst(t) ==
  /\ pc[t] = "notify"
  /\ pc' = [u \in Threads |->
              IF u = t THEN "idle"
              ELSE IF u \in Waiters(call[t].op) /\ items \in {1, Size - 1} THEN "test" ELSE pc[u]]
  /\ call' = [call EXCEPT ![t] = NoCall]
  /\ UNCHANGED <<queue, put, got>>

\* Mutant: no broadcast.
NotifyNobody(t) ==
  /\ pc[t] = "notify"
  /\ Return(t)
  /\ UNCHANGED <<queue, put, got>>

\* The broadcast after the unlock, and the return of the call.
Notify(t) ==
  /\ pc[t] = "notify"
  /\ pc' = [u \in Threads |-> IF u = t THEN "idle"
                              ELSE IF u \in Waiters(call[t].op) THEN "test" ELSE pc[u]]
  /\ call' = [call EXCEPT ![t] = NoCall]
  /\ UNCHANGED <<queue, put, got>>

\* A spurious wake-up.
Wake(t) ==
  /\ pc[t] = "sleep"
  /\ pc' = [pc EXCEPT ![t] = "test"]
  /\ UNCHANGED <<queue, call, put, got>>

\* The deadline of a timed wait passed.
Expire(t) ==
  /\ pc[t] = "sleep" /\ call[t].timed
  /\ pc' = [pc EXCEPT ![t] = "expired"]
  /\ UNCHANGED <<queue, call, put, got>>

-----------------------------------------------------------------------------
Run(t) == Insert(t) \/ Extract(t) \/ Block(t) \/ GiveUp(t) \/ Notify(t)

Next == \E t \in Threads :
  CallEnqueue(t) \/ CallDequeue(t) \/ Run(t) \/ Wake(t) \/ Expire(t)

Spec == Init /\ [][Next]_vars

\* A running thread runs on, and a deadline is absolute: a timed wait that is
\* entered again and again ends in a timeout.  No thread has to call, and no
\* wake-up comes by itself.
Fairness == \A t \in Threads : WF_vars(Run(t)) /\ SF_vars(Expire(t))

FairSpec == Spec /\ Fairness

-----------------------------------------------------------------------------
\* Types; in particular the insert and the extract point stay inside the
\* buffer that pthread_queue_create allocated.
TypeOK ==
  /\ buffer \in [0 .. Size - 1 -> Values \cup {NoValue}]
  /\ items \in 0 .. Size /\ in \in 0 .. Size - 1 /\ out \in 0 .. Size - 1
  /\ pc \in [Threads -> {"idle", "test", "sleep", "expired", "notify"}]
  /\ call \in [Threads -> [op : Ops \cup {"none"}, value : Values \cup {NoValue},
                           timed : BOOLEAN, eintr : BOOLEAN]]
  /\ put \in Seq(Values) /\ got \in Seq(Values)
  /\ \A t \in Threads :
       /\ pc[t] = "idle" <=> call[t].op = "none"
       /\ call[t].op = "enqueue" => call[t].value \in Values

\* No wake-up is lost although the broadcast comes after the unlock and
\* although a thread may fall asleep in between: whoever sleeps on a queue
\* that is ready for it has a thread on its way to wake it.
NoLostWakeup ==
  \A t \in Threads :
    pc[t] = "sleep" /\ Ready(call[t].op) =>
      \E u \in Threads : pc[u] = "notify" /\ call[u].op \in Ops \ {call[t].op}

\* The ring buffer is a bounded first-in first-out queue: whatever the
\* interleaving of callers, waits and timeouts, each value enqueued with
\* CSP_QUEUE_OK is dequeued once, in order, and no other value is.
Fifo == INSTANCE Fifo
FifoSpec == Fifo!Spec

\* A call with a timeout returns: with the element, or at its deadline.
TimedCallReturns ==
  \A t \in Threads : call[t].timed ~> pc[t] = "idle"

\* Somebody waits for op.
Waiting(op) == \E t \in Threads : call[t].op = op /\ pc[t] # "notify"

\* The queue does not stall: as long as it holds an element and somebody waits
\* for one, an element will be taken (or the waiter gives up); and the same for
\* a free slot and the callers that wait for one.
WaitersServed ==
  \A n \in 0 .. MaxPut :
    /\ (Len(got) = n /\ items > 0 /\ Waiting("dequeue")) ~> (Len(got) > n \/ ~Waiting("dequeue"))
    /\ (Len(put) = n /\ items < Size /\ Waiting("enqueue")) ~> (Len(put) > n \/ ~Waiting("enqueue"))
=============================================================================
