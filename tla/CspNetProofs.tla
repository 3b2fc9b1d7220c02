---------------------------- MODULE CspNetProofs ----------------------------
(***************************************************************************)
(* The node of CspNet for every pool, table, queue length, list of         *)
(* interfaces, set of clients and scene: the queues keep their lengths and *)
(* nothing is freed twice (TypeOK), every packet has one owner             *)
(* (BuffersOwned), and the search for duplicates is exact (DedupExact).    *)
(*                                                                         *)
(* The invariant, Ind, is an account of the pool.  Each function of the    *)
(* code is shown to keep it for a node n with a set H of packets in the    *)
(* hands of its tasks: csp_buffer_get adds to H, a queue or a driver takes *)
(* from it, csp_buffer_free gives back what is in it.  The steps of the    *)
(* tasks then say whose hands the packets of H are.                        *)
(***************************************************************************)
EXTENDS CspNet, DataLemmas, FiniteSetTheorems

-----------------------------------------------------------------------------
(* Where the buffers are: in the pool, in a queue, in a hand.              *)

\* What may be in a queue: the input queue also holds the wake-ups.
Item(q) == IF q = <<"qfifo", 0>> THEN Buffers \cup {NULL} ELSE Buffers

Contents(Q) == \A q \in QueueNames : IsSeq(Q[q]) /\ \A k \in 1 .. Len(Q[q]) : Q[q][k] \in Item(q)

\* No place of a queue has a buffer that is in the pool F or in a hand H, and no
\* two places have the same.
Apart(Q, F, H) ==
    /\ F \cap H = {}
    /\ \A q \in QueueNames : \A k \in 1 .. Len(Q[q]) : Q[q][k] \notin F \cup H
    /\ \A q, r \in QueueNames : \A j \in 1 .. Len(Q[q]) : \A k \in 1 .. Len(Q[r]) :
         Q[q][j] = Q[r][k] /\ Q[q][j] # NULL => q = r /\ j = k

\* A buffer that is in no place of Q is in F or H.
Somewhere(Q, F, H) ==
    \A b \in Buffers \ (F \cup H) : \E q \in QueueNames : \E k \in 1 .. Len(Q[q]) : Q[q][k] = b

Accounts(Q, F, H) ==
    Contents(Q) /\ F \subseteq Buffers /\ H \subseteq Buffers /\ Apart(Q, F, H) /\ Somewhere(Q, F, H)

\* Only the queue q0 is different in R.
Only(Q, R, q0) == \A q \in QueueNames : q # q0 => R[q] = Q[q]

\* The null pointer is no buffer of the pool.
LEMMA NullIsNoBuffer == NULL \notin Buffers
BY NodeAssumption DEF NULL, Buffers

\* A buffer is in one place of the queues at most.
LEMMA OnePlace ==
    ASSUME NEW Q, NEW F, NEW H, Accounts(Q, F, H), NEW q \in QueueNames, NEW r \in QueueNames,
           NEW j \in 1 .. Len(Q[q]), NEW k \in 1 .. Len(Q[r]), Q[q][j] = Q[r][k], Q[q][j] # NULL
    PROVE  q = r /\ j = k
BY DEF Accounts, Apart

\* A packet from a hand to the end of a queue.
LEMMA AccountsAppend ==
    ASSUME NEW Q, NEW R, NEW F, NEW H, Accounts(Q, F, H), NEW q0 \in QueueNames, NEW b \in H,
           Only(Q, R, q0), R[q0] = Append(Q[q0], b)
    PROVE  Accounts(R, F, H \ {b})
<1>0. b \in Buffers /\ b # NULL /\ b \notin F
  BY NullIsNoBuffer DEF Accounts, Apart
<1> DEFINE n == Len(Q[q0])
<1>1. /\ IsSeq(R[q0]) /\ Len(R[q0]) = n + 1 /\ n \in Nat /\ R[q0][n + 1] = b
      /\ \A k \in 1 .. n : R[q0][k] = Q[q0][k]
  BY AppendIsSeq DEF Accounts, Contents, IsSeq
<1>2. \A q \in QueueNames : \A k \in 1 .. Len(R[q]) :
        \/ q = q0 /\ k = n + 1 /\ R[q][k] = b
        \/ k \in 1 .. Len(Q[q]) /\ R[q][k] = Q[q][k]
  <2> TAKE q \in QueueNames
  <2>1. CASE q = q0
    BY <2>1, <1>1
  <2>2. CASE q # q0
    BY <2>2 DEF Only
  <2> QED BY <2>1, <2>2
<1>3. Contents(R)
  BY <1>0, <1>1, <1>2 DEF Contents, Item, Accounts, Only
<1>4. \A q \in QueueNames : \A k \in 1 .. Len(Q[q]) : Q[q][k] # b /\ Q[q][k] \notin F \cup H
  BY DEF Accounts, Apart
<1>5. Apart(R, F, H \ {b})
  <2>1. \A q \in QueueNames : \A k \in 1 .. Len(R[q]) : R[q][k] \notin F \cup (H \ {b})
    BY <1>0, <1>2, <1>4
  <2>2. ASSUME NEW q \in QueueNames, NEW r \in QueueNames, NEW j \in 1 .. Len(R[q]), NEW k \in 1 .. Len(R[r]),
               R[q][j] = R[r][k] /\ R[q][j] # NULL
        PROVE  q = r /\ j = k
    <3>1. \/ q = q0 /\ j = n + 1 /\ R[q][j] = b
          \/ j \in 1 .. Len(Q[q]) /\ R[q][j] = Q[q][j]
      BY <1>2
    <3>2. \/ r = q0 /\ k = n + 1 /\ R[r][k] = b
          \/ k \in 1 .. Len(Q[r]) /\ R[r][k] = Q[r][k]
      BY <1>2
    <3>3. \A x, y \in QueueNames : \A i \in 1 .. Len(Q[x]) : \A l \in 1 .. Len(Q[y]) :
            Q[x][i] = Q[y][l] /\ Q[x][i] # NULL => x = y /\ i = l
      BY DEF Accounts, Apart
    <3> QED BY <1>4, <2>2, <3>1, <3>2, <3>3
  <2> QED BY <2>1, <2>2 DEF Accounts, Apart
<1>6. Somewhere(R, F, H \ {b})
  <2> SUFFICES ASSUME NEW x \in Buffers \ (F \cup (H \ {b}))
               PROVE  \E q \in QueueNames : \E k \in 1 .. Len(R[q]) : R[q][k] = x
    BY DEF Somewhere
  <2>1. CASE x = b
    BY <2>1, <1>1
  <2>2. CASE x # b
    <3>1. PICK q \in QueueNames : \E k \in 1 .. Len(Q[q]) : Q[q][k] = x
      BY <2>2 DEF Accounts, Somewhere
    <3>2. PICK k \in 1 .. Len(Q[q]) : Q[q][k] = x
      BY <3>1
    <3>3. k \in 1 .. Len(R[q]) /\ R[q][k] = x
      BY <1>1, <3>2 DEF Only
    <3> QED BY <3>3
  <2> QED BY <2>1, <2>2
<1> QED BY <1>3, <1>5, <1>6 DEF Accounts

\* A wake-up is nobody's packet.
LEMMA AccountsNull ==
    ASSUME NEW Q, NEW R, NEW F, NEW H, Accounts(Q, F, H), Only(Q, R, <<"qfifo", 0>>),
           R[<<"qfifo", 0>>] = Append(Q[<<"qfifo", 0>>], NULL)
    PROVE  Accounts(R, F, H)
<1> DEFINE q0 == <<"qfifo", 0>>
           n == Len(Q[q0])
<1>0. q0 \in QueueNames /\ NULL \notin F \cup H
  BY NullIsNoBuffer DEF QueueNames, Accounts
<1>1. /\ IsSeq(R[q0]) /\ Len(R[q0]) = n + 1 /\ n \in Nat /\ R[q0][n + 1] = NULL
      /\ \A k \in 1 .. n : R[q0][k] = Q[q0][k]
  BY <1>0, AppendIsSeq DEF Accounts, Contents, IsSeq
<1>2. \A q \in QueueNames : \A k \in 1 .. Len(R[q]) :
        \/ q = q0 /\ k = n + 1 /\ R[q][k] = NULL
        \/ k \in 1 .. Len(Q[q]) /\ R[q][k] = Q[q][k]
  <2> TAKE q \in QueueNames
  <2>1. CASE q = q0
    BY <2>1, <1>1
  <2>2. CASE q # q0
    BY <2>2 DEF Only
  <2> QED BY <2>1, <2>2
<1> HIDE DEF q0
<1>3. Contents(R)
  BY <1>0, <1>1, <1>2 DEF Contents, Item, Accounts, Only, q0
<1>4. \A q \in QueueNames : \A k \in 1 .. Len(Q[q]) : Q[q][k] \notin F \cup H
  BY DEF Accounts, Apart
<1>5. Apart(R, F, H)
  <2>1. \A q \in QueueNames : \A k \in 1 .. Len(R[q]) : R[q][k] \notin F \cup H
    BY <1>0, <1>2, <1>4
  <2>2. ASSUME NEW q \in QueueNames, NEW r \in QueueNames, NEW j \in 1 .. Len(R[q]), NEW k \in 1 .. Len(R[r]),
               R[q][j] = R[r][k] /\ R[q][j] # NULL
        PROVE  q = r /\ j = k
    <3>1. j \in 1 .. Len(Q[q]) /\ R[q][j] = Q[q][j] /\ k \in 1 .. Len(Q[r]) /\ R[r][k] = Q[r][k]
      BY <1>2, <2>2
    <3>3. Q[q][j] = Q[r][k] /\ Q[q][j] # NULL
      BY <2>2, <3>1
    <3>4. j \in 1 .. Len(Q[q]) /\ k \in 1 .. Len(Q[r])
      BY <3>1
    <3> QED BY <3>3, <3>4, OnePlace
  <2> QED BY <2>1, <2>2 DEF Accounts, Apart
<1>6. Somewhere(R, F, H)
  <2> SUFFICES ASSUME NEW x \in Buffers \ (F \cup H)
               PROVE  \E q \in QueueNames : \E k \in 1 .. Len(R[q]) : R[q][k] = x
    BY DEF Somewhere
  <2>1. PICK q \in QueueNames : \E k \in 1 .. Len(Q[q]) : Q[q][k] = x
    BY DEF Accounts, Somewhere
  <2>2. PICK k \in 1 .. Len(Q[q]) : Q[q][k] = x
    BY <2>1
  <2>3. k \in 1 .. Len(R[q]) /\ R[q][k] = x
    <3>1. CASE q = q0
      BY <1>1, <2>2, <3>1
    <3>2. CASE q # q0
      BY <2>2, <3>2 DEF Only, q0
    <3> QED BY <3>1, <3>2
  <2> QED BY <2>3
<1> QED BY <1>3, <1>5, <1>6 DEF Accounts

\* Taking the first packet of a queue.
LEMMA AccountsTail ==
    ASSUME NEW Q, NEW R, NEW F, NEW H, Accounts(Q, F, H), NEW q0 \in QueueNames, Q[q0] # <<>>,
           Only(Q, R, q0), R[q0] = Tail(Q[q0])
    PROVE  /\ Head(Q[q0]) \in Item(q0) /\ Head(Q[q0]) \notin F \cup H
           /\ Accounts(R, F, H \cup ({Head(Q[q0])} \ {NULL}))
<1> DEFINE n == Len(Q[q0])
           b == Head(Q[q0])
           G == H \cup ({b} \ {NULL})
<1>1. /\ IsSeq(R[q0]) /\ Len(R[q0]) = n - 1 /\ n \in Nat /\ n > 0 /\ b = Q[q0][1]
      /\ \A k \in 1 .. n - 1 : R[q0][k] = Q[q0][k + 1]
  BY TailIsSeq DEF Accounts, Contents, IsSeq
<1> HIDE DEF b
<1>2. b \in Item(q0) /\ b \notin F \cup H
  BY <1>1 DEF Accounts, Contents, Apart
<1>3. b \in Buffers \cup {NULL}
  BY <1>2 DEF Item
<1> DEFINE Old(q, k) == IF q = q0 THEN k + 1 ELSE k
<1>4. \A q \in QueueNames : \A k \in 1 .. Len(R[q]) :
        k \in Nat /\ Old(q, k) \in 1 .. Len(Q[q]) /\ R[q][k] = Q[q][Old(q, k)] /\ ~(q = q0 /\ Old(q, k) = 1)
  <2> TAKE q \in QueueNames
  <2>0. Len(Q[q]) \in Nat /\ Len(R[q]) \in Nat
    BY <1>1 DEF Only, Accounts, Contents, IsSeq
  <2>1. CASE q = q0
    <3>1. TAKE k \in 1 .. Len(R[q])
    <3>2. k \in 1 .. n - 1 /\ Len(Q[q]) = n
      BY <2>1, <1>1
    <3>3. k + 1 \in 1 .. n /\ k + 1 # 1 /\ k \in Nat
      BY <3>2, <1>1
    <3> QED BY <2>1, <3>2, <3>3, <1>1
  <2>2. CASE q # q0
    BY <2>0, <2>2 DEF Only
  <2> QED BY <2>1, <2>2
<1>5. Contents(R)
  <2> SUFFICES ASSUME NEW q \in QueueNames
               PROVE  IsSeq(R[q]) /\ \A k \in 1 .. Len(R[q]) : R[q][k] \in Item(q)
    BY DEF Contents
  <2>1. IsSeq(R[q])
    BY <1>1 DEF Accounts, Contents, Only
  <2> QED BY <1>4, <2>1 DEF Accounts, Contents
<1> HIDE DEF Old
<1>6. \A q \in QueueNames : \A k \in 1 .. Len(R[q]) : R[q][k] = b => b = NULL
  BY <1>1, <1>4, SMTT(30) DEF Accounts, Apart
<1>7. Apart(R, F, G)
  <2>1. \A q \in QueueNames : \A k \in 1 .. Len(R[q]) : R[q][k] \notin F \cup G
    BY <1>4, <1>6 DEF Accounts, Apart
  <2>2. ASSUME NEW q \in QueueNames, NEW r \in QueueNames, NEW j \in 1 .. Len(R[q]), NEW k \in 1 .. Len(R[r]),
               R[q][j] = R[r][k] /\ R[q][j] # NULL
        PROVE  q = r /\ j = k
    <3>0. /\ Old(q, j) \in 1 .. Len(Q[q]) /\ Old(r, k) \in 1 .. Len(Q[r])
          /\ Q[q][Old(q, j)] = Q[r][Old(r, k)] /\ Q[q][Old(q, j)] # NULL
      BY <1>4, <2>2
    <3>1. q = r /\ Old(q, j) = Old(r, k)
      BY <3>0 DEF Accounts, Apart
    <3> QED BY <1>4, <3>1 DEF Old
  <2> QED BY <1>2, <2>1, <2>2 DEF Accounts, Apart
<1>8. Somewhere(R, F, G)
  <2> SUFFICES ASSUME NEW x \in Buffers \ (F \cup G)
               PROVE  \E q \in QueueNames : \E k \in 1 .. Len(R[q]) : R[q][k] = x
    BY DEF Somewhere
  <2>1. PICK q \in QueueNames : \E k \in 1 .. Len(Q[q]) : Q[q][k] = x
    BY DEF Accounts, Somewhere
  <2>2. PICK k \in 1 .. Len(Q[q]) : Q[q][k] = x
    BY <2>1
  <2>3. x # b /\ (q = q0 => k # 1)
    BY <1>1, <2>2, NullIsNoBuffer
  <2>4. CASE q = q0
    <3>0. k \in 1 .. n /\ k # 1
      BY <2>2, <2>3, <2>4
    <3>1. k - 1 \in 1 .. n - 1 /\ (k - 1) + 1 = k
      BY <1>1, <3>0
    <3>2. k - 1 \in 1 .. Len(R[q]) /\ R[q][k - 1] = x
      BY <1>1, <2>2, <2>4, <3>1
    <3> QED BY <3>2
  <2>5. CASE q # q0
    BY <2>2, <2>5 DEF Only
  <2> QED BY <2>4, <2>5
<1>9. G \subseteq Buffers
  BY <1>3 DEF Accounts
<1> QED BY <1>2, <1>5, <1>7, <1>8, <1>9 DEF Accounts, b

\* Between the pool and a hand.
LEMMA AccountsGet ==
    ASSUME NEW Q, NEW F, NEW H, Accounts(Q, F, H), NEW b \in F
    PROVE  Accounts(Q, F \ {b}, H \cup {b}) /\ b \in Buffers /\ b \notin H /\ b # NULL
BY NullIsNoBuffer DEF Accounts, Apart, Somewhere

\* A packet from a hand to the pool.
LEMMA AccountsFree ==
    ASSUME NEW Q, NEW F, NEW H, Accounts(Q, F, H), NEW b \in H
    PROVE  Accounts(Q, F \cup {b}, H \ {b}) /\ b \in Buffers /\ b \notin F /\ b # NULL
BY NullIsNoBuffer DEF Accounts, Apart, Somewhere

\* The packets of a queue go to the pool.
LEMMA AccountsFlush ==
    ASSUME NEW Q, NEW R, NEW F, NEW H, Accounts(Q, F, H), NEW q0 \in QueueNames, Only(Q, R, q0),
           R[q0] = <<>>, q0 # <<"qfifo", 0>>, NEW S,
           \A x : x \in S <=> \E k \in 1 .. Len(Q[q0]) : x = Q[q0][k]
    PROVE  Accounts(R, F \cup S, H)
<1>1. S \subseteq Buffers
  BY DEF Accounts, Contents, Item
<1>2. \A q \in QueueNames : \A k \in 1 .. Len(R[q]) :
        q # q0 /\ k \in 1 .. Len(Q[q]) /\ R[q][k] = Q[q][k] /\ R[q][k] \notin S
  <2> SUFFICES ASSUME NEW q \in QueueNames, NEW k \in 1 .. Len(R[q])
               PROVE  q # q0 /\ k \in 1 .. Len(Q[q]) /\ R[q][k] = Q[q][k] /\ R[q][k] \notin S
    OBVIOUS
  <2>1. q # q0
    BY EmptyIsSeq
  <2>2. R[q] = Q[q]
    BY <2>1 DEF Only
  <2>3. \A j \in 1 .. Len(Q[q0]) : Q[q0][j] # Q[q][k]
    BY <1>1, <2>1, <2>2, NullIsNoBuffer DEF Accounts, Apart
  <2> QED BY <2>1, <2>2, <2>3
<1>3. Contents(R)
  BY EmptyIsSeq DEF Accounts, Contents, Only
<1>4. S \cap H = {}
  BY DEF Accounts, Apart
<1>5. Apart(R, F \cup S, H)
  <2>1. \A q \in QueueNames : \A k \in 1 .. Len(R[q]) : R[q][k] \notin (F \cup S) \cup H
    BY <1>2 DEF Accounts, Apart
  <2>2. \A q, r \in QueueNames : \A j \in 1 .. Len(R[q]) : \A k \in 1 .. Len(R[r]) :
          R[q][j] = R[r][k] /\ R[q][j] # NULL => q = r /\ j = k
    BY <1>2 DEF Accounts, Apart
  <2> QED BY <1>4, <2>1, <2>2 DEF Accounts, Apart
<1>6. Somewhere(R, F \cup S, H)
  <2> SUFFICES ASSUME NEW x \in Buffers \ ((F \cup S) \cup H)
               PROVE  \E q \in QueueNames : \E k \in 1 .. Len(R[q]) : R[q][k] = x
    BY DEF Somewhere
  <2>1. PICK q \in QueueNames : \E k \in 1 .. Len(Q[q]) : Q[q][k] = x
    BY DEF Accounts, Somewhere
  <2>2. q # q0
    BY <2>1
  <2> QED BY <2>1, <2>2 DEF Only
<1> QED BY <1>1, <1>3, <1>5, <1>6 DEF Accounts

-----------------------------------------------------------------------------
(* A node with the packets of H in the hands of its tasks.                 *)

NodeFields ==
    {"buf", "free", "recent", "errno", "crash", "last", "conn", "qfifo", "port", "sock", "promisc",
     "ring", "ringin", "now", "rtable", "wire", "mut"}

IsId(x) ==
    /\ DOMAIN x = {"pri", "src", "dst", "dport", "sport", "flags"}
    /\ x.dport \in Nat \ {CSP_PS} /\ x.sport \in Nat \ {CSP_PS}

IsBuffer(p) ==
    DOMAIN p = {"ref", "id", "data", "trl", "len"} /\ p.ref \in {0, 1} /\ IsId(p.id)

IsConn(c) ==
    /\ DOMAIN c = {"state", "type", "idin", "idout", "rx", "dest", "opts"}
    /\ IsId(c.idin) /\ IsId(c.idout) /\ c.dest \in {NULL} \cup {s \in DOMAIN Sockets : "CONN_LESS" \notin Sockets[s]}
    /\ Len(c.rx) <= RxqueueLen

IsSock(s, k) ==
    /\ DOMAIN s = {"opts", "listening", "q"} /\ s.opts = Sockets[k]
    /\ IsSeq(s.q) /\ Len(s.q) <= RxqueueLen
    /\ "CONN_LESS" \notin Sockets[k] => \A j \in 1 .. Len(s.q) : s.q[j] \in ConnSlots

Bufs(x)  == DOMAIN x = Buffers /\ \A b \in Buffers : IsBuffer(x[b])
Conns(x) == DOMAIN x = ConnSlots /\ \A c \in ConnSlots : IsConn(x[c])
Socks(x) == DOMAIN x = DOMAIN Sockets /\ \A s \in DOMAIN Sockets : IsSock(x[s], s)
Ports(x) == /\ DOMAIN x = 0 .. CSP_ANY
            /\ \A p \in 0 .. CSP_ANY : x[p] \in {PORT_CLOSED, PORT_OPEN_CB} \cup DOMAIN Sockets
Monitor(x) == DOMAIN x = {"on", "q"} /\ Len(x.q) <= RxqueueLen
Fifo(x) == IsSeq(x) /\ Len(x) <= QfifoLen

Shape(n) ==
    /\ DOMAIN n = NodeFields /\ Bufs(n.buf) /\ Conns(n.conn) /\ Socks(n.sock) /\ Ports(n.port)
    /\ Monitor(n.promisc) /\ Fifo(n.qfifo) /\ n.last \in ConnSlots /\ n.mut = NoMutant
    /\ n.ringin \in 0 .. DedupCount - 1 /\ n.now \in 0 .. ClockMod - 1

Good(n, H) ==
    /\ Shape(n) /\ n.errno = "none"
    /\ n.free = {b \in Buffers : n.buf[b].ref = 0}
    /\ Accounts(Queued(n), n.free, H)

\* The search for duplicates is not concerned.
Quiet(n, m) == m.ring = n.ring /\ m.ringin = n.ringin /\ m.now = n.now

\* All but the fields fs, and those that no packet depends on, are the same.
Same(n, m, fs) ==
    /\ DOMAIN m = NodeFields
    /\ \A f \in NodeFields \ (fs \cup {"recent", "crash", "rtable", "wire"}) : m[f] = n[f]

-----------------------------------------------------------------------------
\* The queues by name.
LEMMA QueueKinds ==
    /\ \A q \in QueueNames :
         \/ q = <<"qfifo", 0>> \/ q = <<"promisc", 0>>
         \/ \E c \in ConnSlots : q = <<"rx", c>>
         \/ \E s \in DOMAIN Sockets : "CONN_LESS" \in Sockets[s] /\ q = <<"sock", s>>
    /\ <<"qfifo", 0>> \in QueueNames /\ <<"promisc", 0>> \in QueueNames
    /\ \A c \in ConnSlots : <<"rx", c>> \in QueueNames
    /\ \A s \in DOMAIN Sockets : "CONN_LESS" \in Sockets[s] => <<"sock", s>> \in QueueNames
BY DEF QueueNames

\* What is in the queue of a name.
LEMMA QueuedIs ==
    ASSUME NEW n, NEW q \in QueueNames
    PROVE  Queued(n)[q] =
             CASE q[1] = "qfifo"   -> [k \in 1 .. Len(n.qfifo) |-> n.qfifo[k].b]
               [] q[1] = "promisc" -> n.promisc.q
               [] q[1] = "rx"      -> n.conn[q[2]].rx
               [] q[1] = "sock"    -> n.sock[q[2]].q
<1> DEFINE At(r) == CASE r[1] = "qfifo"   -> [k \in 1 .. Len(n.qfifo) |-> n.qfifo[k].b]
                      [] r[1] = "promisc" -> n.promisc.q
                      [] r[1] = "rx"      -> n.conn[r[2]].rx
                      [] r[1] = "sock"    -> n.sock[r[2]].q
<1>1. Queued(n) = [r \in QueueNames |-> At(r)]
  BY DEF Queued
<1>2. Queued(n)[q] = At(q)
  <2> HIDE DEF At
  <2> QED BY <1>1
<1> QED BY <1>2

\* The packets of the input queue.
LEMMA QueuedFifo ==
    ASSUME NEW n
    PROVE  Queued(n)[<<"qfifo", 0>>] = [k \in 1 .. Len(n.qfifo) |-> n.qfifo[k].b]
BY QueueKinds, QueuedIs

\* The promiscuous queue.
LEMMA QueuedPromisc ==
    ASSUME NEW n
    PROVE  Queued(n)[<<"promisc", 0>>] = n.promisc.q
BY QueueKinds, QueuedIs

\* The receive queue of a connection.
LEMMA QueuedRx ==
    ASSUME NEW n, NEW c \in ConnSlots
    PROVE  Queued(n)[<<"rx", c>>] = n.conn[c].rx
BY QueueKinds, QueuedIs

\* The queue of a connection-less socket.
LEMMA QueuedSock ==
    ASSUME NEW n, NEW s \in DOMAIN Sockets, "CONN_LESS" \in Sockets[s]
    PROVE  Queued(n)[<<"sock", s>>] = n.sock[s].q
BY QueueKinds, QueuedIs

\* The account is one of the contents of the queues.
LEMMA AccountsSame ==
    ASSUME NEW Q, NEW R, NEW F, NEW H, Accounts(Q, F, H), \A q \in QueueNames : R[q] = Q[q]
    PROVE  Accounts(R, F, H)
<1>1. Contents(R)
  BY DEF Accounts, Contents
<1>2. Apart(R, F, H)
  BY DEF Accounts, Apart
<1>3. Somewhere(R, F, H)
  BY DEF Accounts, Somewhere
<1> QED BY <1>1, <1>2, <1>3 DEF Accounts

\* The queues are those of the four fields.
LEMMA QueuesSame ==
    ASSUME NEW n, NEW m, m.qfifo = n.qfifo, m.promisc = n.promisc, m.conn = n.conn, m.sock = n.sock
    PROVE  \A q \in QueueNames : Queued(m)[q] = Queued(n)[q]
<1>1. Queued(m)[<<"qfifo", 0>>] = Queued(n)[<<"qfifo", 0>>]
  <2>1. Queued(m)[<<"qfifo", 0>>] = [k \in 1 .. Len(m.qfifo) |-> m.qfifo[k].b]
    BY QueuedFifo
  <2>2. Queued(n)[<<"qfifo", 0>>] = [k \in 1 .. Len(n.qfifo) |-> n.qfifo[k].b]
    BY QueuedFifo
  <2> QED BY <2>1, <2>2
<1>2. Queued(m)[<<"promisc", 0>>] = Queued(n)[<<"promisc", 0>>]
  BY QueuedPromisc
<1>3. \A c \in ConnSlots : Queued(m)[<<"rx", c>>] = Queued(n)[<<"rx", c>>]
  BY QueuedRx
<1>4. \A s \in DOMAIN Sockets : "CONN_LESS" \in Sockets[s] =>
        Queued(m)[<<"sock", s>>] = Queued(n)[<<"sock", s>>]
  BY QueuedSock
<1> QED BY <1>1, <1>2, <1>3, <1>4, QueueKinds

\* Contents of buffers.
LEMMA GoodBufs ==
    ASSUME NEW n, NEW m, NEW H, Good(n, H), Same(n, m, {"buf"}), Bufs(m.buf),
           \A b \in Buffers : m.buf[b].ref = n.buf[b].ref
    PROVE  Good(m, H) /\ Quiet(n, m)
<1>1. /\ m.free = n.free /\ m.errno = n.errno /\ m.last = n.last /\ m.conn = n.conn /\ m.qfifo = n.qfifo
      /\ m.port = n.port /\ m.sock = n.sock /\ m.promisc = n.promisc /\ m.ring = n.ring
      /\ m.ringin = n.ringin /\ m.now = n.now /\ m.mut = n.mut /\ DOMAIN m = NodeFields
  BY DEF Same, NodeFields
<1>2. Accounts(Queued(m), n.free, H)
  BY <1>1, QueuesSame, AccountsSame DEF Good
<1> QED BY <1>1, <1>2 DEF Good, Shape, Quiet

\* A step on the queues.
LEMMA GoodQueues ==
    ASSUME NEW n, NEW m, NEW H, NEW G, Good(n, H),
           Same(n, m, {"qfifo", "promisc", "conn", "sock", "last"}), m.last \in ConnSlots,
           Fifo(m.qfifo), Monitor(m.promisc), Conns(m.conn), Socks(m.sock),
           Accounts(Queued(m), n.free, G)
    PROVE  Good(m, G) /\ Quiet(n, m)
<1>1. /\ m.free = n.free /\ m.errno = n.errno /\ m.buf = n.buf
      /\ m.port = n.port /\ m.ring = n.ring
      /\ m.ringin = n.ringin /\ m.now = n.now /\ m.mut = n.mut /\ DOMAIN m = NodeFields
  BY DEF Same, NodeFields
<1> QED BY <1>1 DEF Good, Shape, Quiet

\* The pool.
LEMMA GoodPool ==
    ASSUME NEW n, NEW m, NEW H, NEW G, Good(n, H), Same(n, m, {"buf", "free"}), Bufs(m.buf),
           m.free = {b \in Buffers : m.buf[b].ref = 0}, Accounts(Queued(n), m.free, G)
    PROVE  Good(m, G) /\ Quiet(n, m)
<1>1. /\ m.errno = n.errno /\ m.last = n.last /\ m.conn = n.conn /\ m.qfifo = n.qfifo
      /\ m.port = n.port /\ m.sock = n.sock /\ m.promisc = n.promisc /\ m.ring = n.ring
      /\ m.ringin = n.ringin /\ m.now = n.now /\ m.mut = n.mut /\ DOMAIN m = NodeFields
  BY DEF Same, NodeFields
<1>2. Accounts(Queued(m), m.free, G)
  BY <1>1, QueuesSame, AccountsSame
<1> QED BY <1>1, <1>2 DEF Good, Shape, Quiet

\* Two steps that leave the ring alone.
LEMMA QuietTrans ==
    ASSUME NEW n, NEW m, NEW k, Quiet(n, m), Quiet(m, k)
    PROVE  Quiet(n, k)
BY DEF Quiet

\* csp_buffer_free: from a hand to the pool.
LEMMA FreeGood ==
    ASSUME NEW n, NEW H, Good(n, H), NEW b \in H
    PROVE  /\ Good(csp_buffer_free(n, b), H \ {b}) /\ Quiet(n, csp_buffer_free(n, b))
           /\ Same(n, csp_buffer_free(n, b), {"buf", "free"})
<1> DEFINE m == csp_buffer_free(n, b)
<1>1. /\ Accounts(Queued(n), n.free \cup {b}, H \ {b}) /\ b \in Buffers /\ b \notin n.free /\ b # NULL
  BY AccountsFree DEF Good
<1>2. n.buf[b].ref # 0 /\ IsBuffer(n.buf[b]) /\ DOMAIN n = NodeFields /\ Bufs(n.buf)
  BY <1>1 DEF Good, Shape, Bufs
<1>3. m = [n EXCEPT !.buf[b].ref = 0, !.free = @ \cup {b}, !.recent = b]
  BY <1>1, <1>2 DEF csp_buffer_free
<1>4. /\ m.buf = [n.buf EXCEPT ![b].ref = 0] /\ m.free = n.free \cup {b} /\ DOMAIN m = NodeFields
      /\ \A f \in NodeFields \ {"buf", "free", "recent"} : m[f] = n[f]
  BY <1>2, <1>3 DEF NodeFields
<1> HIDE DEF m
<1>5. Bufs(m.buf) /\ m.buf[b].ref = 0 /\ \A x \in Buffers \ {b} : m.buf[x] = n.buf[x]
  BY <1>1, <1>2, <1>4 DEF Bufs, IsBuffer, IsId
<1>6. m.free = {x \in Buffers : m.buf[x].ref = 0}
  BY <1>1, <1>4, <1>5 DEF Good
<1>7. Same(n, m, {"buf", "free"})
  BY <1>4 DEF Same
<1>8. Accounts(Queued(n), m.free, H \ {b})
  BY <1>1, <1>4
<1>9. Good(m, H \ {b}) /\ Quiet(n, m)
  BY <1>5, <1>6, <1>7, <1>8, GoodPool
<1> QED BY <1>7, <1>9 DEF m

\* Only the queue q0 is concerned.
LEMMA QueuesOnly ==
    ASSUME NEW n, NEW m, NEW q0, q0 = <<"qfifo", 0>> \/ m.qfifo = n.qfifo,
           q0 = <<"promisc", 0>> \/ m.promisc.q = n.promisc.q,
           \A c \in ConnSlots : q0 = <<"rx", c>> \/ m.conn[c].rx = n.conn[c].rx,
           \A s \in DOMAIN Sockets : "CONN_LESS" \in Sockets[s] =>
               q0 = <<"sock", s>> \/ m.sock[s].q = n.sock[s].q
    PROVE  Only(Queued(n), Queued(m), q0)
<1>1. q0 = <<"qfifo", 0>> \/ Queued(m)[<<"qfifo", 0>>] = Queued(n)[<<"qfifo", 0>>]
  <2>1. Queued(m)[<<"qfifo", 0>>] = [k \in 1 .. Len(m.qfifo) |-> m.qfifo[k].b]
    BY QueuedFifo
  <2>2. Queued(n)[<<"qfifo", 0>>] = [k \in 1 .. Len(n.qfifo) |-> n.qfifo[k].b]
    BY QueuedFifo
  <2> QED BY <2>1, <2>2
<1>2. q0 = <<"promisc", 0>> \/ Queued(m)[<<"promisc", 0>>] = Queued(n)[<<"promisc", 0>>]
  BY QueuedPromisc
<1>3. \A c \in ConnSlots : q0 = <<"rx", c>> \/ Queued(m)[<<"rx", c>>] = Queued(n)[<<"rx", c>>]
  BY QueuedRx
<1>4. \A s \in DOMAIN Sockets : "CONN_LESS" \in Sockets[s] =>
        q0 = <<"sock", s>> \/ Queued(m)[<<"sock", s>>] = Queued(n)[<<"sock", s>>]
  BY QueuedSock
<1> QED BY <1>1, <1>2, <1>3, <1>4, QueueKinds DEF Only

\* A least buffer.
LEMMA LeastOf ==
    ASSUME NEW T, T \subseteq Nat, T # {}
    PROVE  Min(T) \in T
BY LeastNat DEF Min

-----------------------------------------------------------------------------
(* The packet pool and the input queue (csp_buffer.c, csp_qfifo.c).        *)

\* csp_buffer_get takes a buffer of the pool.
LEMMA NextFreeIsFree ==
    ASSUME NEW n, n.free \subseteq Buffers, n.free # {}
    PROVE  NextFree(n) \in n.free
<1>1. CASE n.free = {n.recent}
  BY <1>1 DEF NextFree
<1>2. CASE n.free # {n.recent}
  <2>1. n.free \ {n.recent} # {} /\ n.free \ {n.recent} \subseteq Nat
    BY <1>2 DEF Buffers
  <2>2. NextFree(n) = Min(n.free \ {n.recent})
    BY <1>2 DEF NextFree
  <2> QED BY <2>1, <2>2, LeastOf
<1> QED BY <1>1, <1>2

\* csp_buffer_get: NULL, or from the pool to a hand.
LEMMA GetGood ==
    ASSUME NEW n, NEW H, Good(n, H), NEW size
    PROVE  LET got == csp_buffer_get(n, size)
           IN  \/ got.b = NULL /\ got.n = n
               \/ /\ got.b \in Buffers \ H /\ got.b # NULL /\ Good(got.n, H \cup {got.b})
                  /\ Quiet(n, got.n) /\ Same(n, got.n, {"buf", "free"})
<1>1. CASE n.free = {} \/ size > BufferSize
  BY <1>1 DEF csp_buffer_get
<1>2. CASE ~(n.free = {} \/ size > BufferSize)
  <2> DEFINE b == NextFree(n)
             m == [n EXCEPT !.free = @ \ {b}, !.buf[b].ref = 1]
  <2>1. csp_buffer_get(n, size) = [n |-> m, b |-> b]
    BY <1>2 DEF csp_buffer_get
  <2>2. b \in n.free /\ b \in Buffers
    BY <1>2, NextFreeIsFree DEF Good
  <2> HIDE DEF b
  <2>3. Accounts(Queued(n), n.free \ {b}, H \cup {b}) /\ b \notin H /\ b # NULL
    BY <2>2, AccountsGet DEF Good
  <2>4. IsBuffer(n.buf[b]) /\ DOMAIN n = NodeFields /\ Bufs(n.buf)
    BY <2>2 DEF Good, Shape, Bufs
  <2>5. /\ m.buf = [n.buf EXCEPT ![b].ref = 1] /\ m.free = n.free \ {b} /\ DOMAIN m = NodeFields
        /\ \A f \in NodeFields \ {"buf", "free"} : m[f] = n[f]
    BY <2>4 DEF NodeFields
  <2> HIDE DEF m
  <2>6. Bufs(m.buf) /\ m.buf[b].ref = 1 /\ \A x \in Buffers \ {b} : m.buf[x] = n.buf[x]
    BY <2>2, <2>4, <2>5 DEF Bufs, IsBuffer, IsId
  <2>7. m.free = {x \in Buffers : m.buf[x].ref = 0}
    BY <2>2, <2>5, <2>6 DEF Good
  <2>8. Same(n, m, {"buf", "free"})
    BY <2>5 DEF Same
  <2>9. Good(m, H \cup {b}) /\ Quiet(n, m)
    BY <2>3, <2>5, <2>6, <2>7, <2>8, GoodPool, ZenonT(30)
  <2> QED BY <2>1, <2>2, <2>3, <2>8, <2>9
<1> QED BY <1>1, <1>2

\* A packet in a hand is written to.
LEMMA PutGood ==
    ASSUME NEW n, NEW m, NEW H, Good(n, H), NEW b \in H, NEW p, IsBuffer(p), p.ref = 1,
           Same(n, m, {"buf"}), m.buf = [n.buf EXCEPT ![b] = p]
    PROVE  Good(m, H) /\ Quiet(n, m)
<1>1. b \in Buffers /\ b \notin n.free
  BY DEF Good, Accounts, Apart
<1>2. n.buf[b].ref = 1 /\ Bufs(n.buf)
  BY <1>1 DEF Good, Shape, Bufs, IsBuffer
<1>3. Bufs(m.buf) /\ \A x \in Buffers : m.buf[x].ref = n.buf[x].ref
  BY <1>1, <1>2 DEF Bufs
<1> QED BY <1>3, GoodBufs

\* A packet in a hand is a buffer in use.
LEMMA HeldIs ==
    ASSUME NEW n, NEW H, Good(n, H), NEW b \in H
    PROVE  /\ b \in Buffers /\ b # NULL /\ n.buf[b].ref = 1 /\ IsBuffer(n.buf[b])
           /\ DOMAIN n = NodeFields /\ DOMAIN n.buf = Buffers
<1>1. b \in Buffers /\ b \notin n.free /\ b # NULL
  BY NullIsNoBuffer DEF Good, Accounts, Apart
<1> QED BY <1>1 DEF Good, Shape, Bufs, IsBuffer

\* csp_buffer_clone: NULL, or a second packet.
LEMMA CloneGood ==
    ASSUME NEW n, NEW H, Good(n, H), NEW b \in H
    PROVE  LET got == csp_buffer_clone(n, b)
           IN  \/ got.b = NULL /\ got.n = n
               \/ /\ got.b \in Buffers \ H /\ got.b # NULL /\ Good(got.n, H \cup {got.b})
                  /\ Quiet(n, got.n) /\ Same(n, got.n, {"buf", "free"})
<1> DEFINE got == csp_buffer_get(n, n.buf[b].len)
           p == [n.buf[b] EXCEPT !.ref = 1]
           m == [got.n EXCEPT !.buf[got.b] = p]
<1>1. csp_buffer_clone(n, b) = IF got.b = NULL THEN got ELSE [got EXCEPT !.n.buf[got.b] = p]
  BY DEF csp_buffer_clone, FilledWith
<1>2. \/ got.b = NULL /\ got.n = n
      \/ /\ got.b \in Buffers \ H /\ got.b # NULL /\ Good(got.n, H \cup {got.b})
         /\ Quiet(n, got.n) /\ Same(n, got.n, {"buf", "free"})
  BY GetGood
<1>3. DOMAIN got = {"n", "b"}
  BY DEF csp_buffer_get
<1>4. IsBuffer(p) /\ p.ref = 1
  BY HeldIs DEF IsBuffer
<1> HIDE DEF got, p
<1>5. CASE got.b = NULL
  BY <1>1, <1>2, <1>5
<1>6. CASE got.b # NULL
  <2> DEFINE g == [got EXCEPT !.n.buf[got.b] = p]
  <2>1. g.b = got.b /\ g.n = m
    BY <1>3
  <2>2. Good(got.n, H \cup {got.b}) /\ DOMAIN got.n = NodeFields
    BY <1>2, <1>6 DEF Good, Shape
  <2>3. m.buf = [got.n.buf EXCEPT ![got.b] = p] /\ Same(got.n, m, {"buf"})
    BY <2>2 DEF Same, NodeFields
  <2> HIDE DEF m
  <2>4. Good(m, H \cup {got.b}) /\ Quiet(got.n, m)
    <3> DEFINE G == H \cup {got.b}
    <3>1. got.b \in G /\ Good(got.n, G)
      BY <2>2
    <3> HIDE DEF G
    <3>2. Good(m, G) /\ Quiet(got.n, m)
      BY <1>4, <2>3, <3>1, PutGood
    <3> QED BY <3>2 DEF G
  <2>5. Same(n, m, {"buf", "free"}) /\ Quiet(n, m)
    <3>1. Quiet(n, m)
      BY <1>2, <1>6, <2>4, QuietTrans
    <3>2. Same(n, got.n, {"buf", "free"})
      BY <1>2, <1>6
    <3> QED BY <2>3, <3>1, <3>2 DEF Same
  <2> QED BY <1>1, <1>2, <1>6, <2>1, <2>4, <2>5
<1> QED BY <1>5, <1>6

\* The end of the input queue.
LEMMA FifoAppended ==
    ASSUME NEW n, NEW m, NEW x, IsSeq(n.qfifo), m.qfifo = Append(n.qfifo, x)
    PROVE  Queued(m)[<<"qfifo", 0>>] = Append(Queued(n)[<<"qfifo", 0>>], x.b)
<1> DEFINE f == [k \in 1 .. Len(n.qfifo) |-> n.qfifo[k].b]
           g == [k \in 1 .. Len(m.qfifo) |-> m.qfifo[k].b]
<1>1. Queued(n)[<<"qfifo", 0>>] = f /\ Queued(m)[<<"qfifo", 0>>] = g
  BY QueuedFifo
<1>2. /\ IsSeq(m.qfifo) /\ Len(m.qfifo) = Len(n.qfifo) + 1 /\ Len(n.qfifo) \in Nat
      /\ \A k \in 1 .. Len(n.qfifo) : m.qfifo[k] = n.qfifo[k]
      /\ m.qfifo[Len(n.qfifo) + 1] = x
  BY AppendIsSeq DEF IsSeq
<1>3. IsSeq(f) /\ Len(f) = Len(n.qfifo)
  BY <1>2 DEF IsSeq
<1>4. /\ IsSeq(Append(f, x.b)) /\ Len(Append(f, x.b)) = Len(f) + 1
      /\ (\A k \in 1 .. Len(f) : Append(f, x.b)[k] = f[k]) /\ Append(f, x.b)[Len(f) + 1] = x.b
  <2> HIDE DEF f
  <2> QED BY <1>3, AppendIsSeq
<1>5. Append(f, x.b) = [k \in 1 .. Len(f) + 1 |-> Append(f, x.b)[k]]
  BY <1>4 DEF IsSeq
<1>6. ASSUME NEW k \in 1 .. Len(n.qfifo) + 1 PROVE Append(f, x.b)[k] = m.qfifo[k].b
  <2>1. CASE k = Len(n.qfifo) + 1
    BY <1>2, <1>3, <1>4, <2>1
  <2>2. CASE k \in 1 .. Len(n.qfifo)
    BY <1>2, <1>3, <1>4, <2>2
  <2> QED BY <1>2, <2>1, <2>2
<1>7. g = Append(f, x.b)
  BY <1>2, <1>3, <1>5, <1>6
<1> QED BY <1>1, <1>7

\* The input queue without its head.
LEMMA FifoTail ==
    ASSUME NEW n, NEW m, IsSeq(n.qfifo), n.qfifo # <<>>, m.qfifo = Tail(n.qfifo)
    PROVE  /\ Queued(m)[<<"qfifo", 0>>] = Tail(Queued(n)[<<"qfifo", 0>>])
           /\ Queued(n)[<<"qfifo", 0>>] # <<>>
           /\ Head(Queued(n)[<<"qfifo", 0>>]) = Head(n.qfifo).b
<1> DEFINE f == [k \in 1 .. Len(n.qfifo) |-> n.qfifo[k].b]
           g == [k \in 1 .. Len(m.qfifo) |-> m.qfifo[k].b]
<1>1. Queued(n)[<<"qfifo", 0>>] = f /\ Queued(m)[<<"qfifo", 0>>] = g
  BY QueuedFifo
<1>2. /\ IsSeq(m.qfifo) /\ Len(m.qfifo) = Len(n.qfifo) - 1 /\ Len(n.qfifo) \in Nat /\ Len(n.qfifo) > 0
      /\ Head(n.qfifo) = n.qfifo[1]
      /\ \A k \in 1 .. Len(n.qfifo) - 1 : m.qfifo[k] = n.qfifo[k + 1]
  BY TailIsSeq DEF IsSeq
<1>3. IsSeq(f) /\ Len(f) = Len(n.qfifo) /\ f # <<>>
  BY <1>2 DEF IsSeq
<1>4. /\ IsSeq(Tail(f)) /\ Len(Tail(f)) = Len(f) - 1 /\ Head(f) = f[1]
      /\ \A k \in 1 .. Len(f) - 1 : Tail(f)[k] = f[k + 1]
  <2> HIDE DEF f
  <2> QED BY <1>3, TailIsSeq
<1>5. Tail(f) = [k \in 1 .. Len(f) - 1 |-> Tail(f)[k]]
  BY <1>4 DEF IsSeq
<1>6. \A k \in 1 .. Len(n.qfifo) - 1 : Tail(f)[k] = m.qfifo[k].b
  BY <1>2, <1>3, <1>4
<1>7. g = Tail(f)
  BY <1>2, <1>3, <1>5, <1>6
<1> QED BY <1>1, <1>2, <1>3, <1>4, <1>7

\* csp_qfifo_write: from a hand to the queue, or to the pool.
LEMMA QfifoWriteGood ==
    ASSUME NEW n, NEW H, Good(n, H), NEW b \in H, NEW i
    PROVE  Good(csp_qfifo_write(n, b, i), H \ {b}) /\ Quiet(n, csp_qfifo_write(n, b, i))
<1>0. b # NULL /\ DOMAIN n = NodeFields /\ Fifo(n.qfifo)
  BY HeldIs DEF Good, Shape
<1>1. CASE i = NoIface \/ ~(Len(n.qfifo) < QfifoLen)
  <2>1. csp_qfifo_write(n, b, i) = csp_buffer_free(n, b)
    BY <1>0, <1>1 DEF csp_qfifo_write
  <2> QED BY <2>1, FreeGood
<1>2. CASE i # NoIface /\ Len(n.qfifo) < QfifoLen
  <2> DEFINE x == [b |-> b, i |-> i]
             m == [n EXCEPT !.qfifo = Append(@, x)]
  <2>1. csp_qfifo_write(n, b, i) = m
    BY <1>0, <1>2 DEF csp_qfifo_write
  <2>2. m.qfifo = Append(n.qfifo, x) /\ DOMAIN m = NodeFields /\ x.b = b
        /\ \A f \in NodeFields \ {"qfifo"} : m[f] = n[f]
    BY <1>0 DEF NodeFields
  <2> HIDE DEF m, x
  <2>3. Queued(m)[<<"qfifo", 0>>] = Append(Queued(n)[<<"qfifo", 0>>], b)
    BY <1>0, <2>2, FifoAppended DEF Fifo
  <2>4. Only(Queued(n), Queued(m), <<"qfifo", 0>>)
    BY <2>2, QueuesOnly DEF NodeFields
  <2>5. Accounts(Queued(m), n.free, H \ {b})
    BY <2>3, <2>4, AccountsAppend, QueueKinds DEF Good
  <2>6. Fifo(m.qfifo)
    BY <1>0, <1>2, <2>2, AppendIsSeq, NodeAssumption, SMTT(30) DEF Fifo, IsSeq
  <2>7. Same(n, m, {"qfifo", "promisc", "conn", "sock", "last"})
    BY <2>2 DEF Same
  <2>8. m.last = n.last /\ m.promisc = n.promisc /\ m.conn = n.conn /\ m.sock = n.sock
    BY <2>2 DEF NodeFields
  <2>9. Good(m, H \ {b}) /\ Quiet(n, m)
    BY <2>5, <2>6, <2>7, <2>8, GoodQueues DEF Good, Shape
  <2> QED BY <2>1, <2>9
<1> QED BY <1>1, <1>2

\* csp_qfifo_write_isr: from a hand to the input queue, or to the pool when it is full.
LEMMA QfifoWriteIsrGood ==
    ASSUME NEW n, NEW H, Good(n, H), NEW b \in H, NEW i
    PROVE  Good(csp_qfifo_write_isr(n, b, i), H \ {b}) /\ Quiet(n, csp_qfifo_write_isr(n, b, i))
<1>1. b # NULL /\ n.buf[b].ref # 0
  BY HeldIs
<1>2. csp_buffer_free_isr(n, b) = csp_buffer_free(n, b)
  BY <1>1 DEF csp_buffer_free_isr
<1>3. \/ csp_qfifo_write_isr(n, b, i) = csp_buffer_free(n, b)
      \/ csp_qfifo_write_isr(n, b, i) = csp_qfifo_write(n, b, i)
  BY <1>2 DEF csp_qfifo_write_isr
<1> QED BY <1>3, FreeGood, QfifoWriteGood

\* csp_qfifo_wake_up: an entry without a packet.
LEMMA WakeUpGood ==
    ASSUME NEW n, NEW H, Good(n, H)
    PROVE  Good(csp_qfifo_wake_up(n), H) /\ Quiet(n, csp_qfifo_wake_up(n))
<1>0. DOMAIN n = NodeFields /\ Fifo(n.qfifo)
  BY DEF Good, Shape
<1>1. CASE Len(n.qfifo) = QfifoLen
  BY <1>1 DEF csp_qfifo_wake_up, Quiet
<1>2. CASE Len(n.qfifo) # QfifoLen
  <2> DEFINE x == [b |-> NULL, i |-> NoIface]
             m == [n EXCEPT !.qfifo = Append(@, x)]
  <2>1. csp_qfifo_wake_up(n) = m
    BY <1>2 DEF csp_qfifo_wake_up
  <2>2. m.qfifo = Append(n.qfifo, x) /\ DOMAIN m = NodeFields /\ x.b = NULL
        /\ \A f \in NodeFields \ {"qfifo"} : m[f] = n[f]
    BY <1>0 DEF NodeFields
  <2> HIDE DEF m, x
  <2>3. Queued(m)[<<"qfifo", 0>>] = Append(Queued(n)[<<"qfifo", 0>>], NULL)
    BY <1>0, <2>2, FifoAppended DEF Fifo
  <2>4. Only(Queued(n), Queued(m), <<"qfifo", 0>>)
    BY <2>2, QueuesOnly DEF NodeFields
  <2>5. Accounts(Queued(m), n.free, H)
    BY <2>3, <2>4, AccountsNull DEF Good
  <2>6. Fifo(m.qfifo)
    BY <1>0, <1>2, <2>2, AppendIsSeq, NodeAssumption, SMTT(30) DEF Fifo, IsSeq
  <2>7. Same(n, m, {"qfifo", "promisc", "conn", "sock", "last"})
    BY <2>2 DEF Same
  <2>8. m.last = n.last /\ m.promisc = n.promisc /\ m.conn = n.conn /\ m.sock = n.sock
    BY <2>2 DEF NodeFields
  <2>9. Good(m, H) /\ Quiet(n, m)
    BY <2>5, <2>6, <2>7, <2>8, GoodQueues DEF Good, Shape
  <2> QED BY <2>1, <2>9
<1> QED BY <1>1, <1>2

\* csp_qfifo_read: the packet, if it is one, is in the hands of the router.
LEMMA QfifoReadGood ==
    ASSUME NEW n, NEW H, Good(n, H), n.qfifo # <<>>
    PROVE  LET b == Head(n.qfifo).b
               m == csp_qfifo_read(n)
           IN  /\ b \in Buffers \cup {NULL} /\ b \notin H
               /\ Good(m, H \cup ({b} \ {NULL})) /\ Quiet(n, m) /\ Same(n, m, {"qfifo"})
<1>0. DOMAIN n = NodeFields /\ Fifo(n.qfifo)
  BY DEF Good, Shape
<1> DEFINE b == Head(n.qfifo).b
           m == csp_qfifo_read(n)
           G == H \cup ({b} \ {NULL})
<1>1. m.qfifo = Tail(n.qfifo) /\ DOMAIN m = NodeFields /\ \A f \in NodeFields \ {"qfifo"} : m[f] = n[f]
  BY <1>0 DEF NodeFields, csp_qfifo_read
<1> HIDE DEF m, b
<1>2. /\ Queued(m)[<<"qfifo", 0>>] = Tail(Queued(n)[<<"qfifo", 0>>])
      /\ Queued(n)[<<"qfifo", 0>>] # <<>> /\ Head(Queued(n)[<<"qfifo", 0>>]) = b
  BY <1>0, <1>1, FifoTail DEF b, Fifo
<1>3. Only(Queued(n), Queued(m), <<"qfifo", 0>>)
  BY <1>1, QueuesOnly DEF NodeFields
<1>4. Accounts(Queued(m), n.free, G) /\ b \in Item(<<"qfifo", 0>>) /\ b \notin H
  <2> DEFINE q0 == <<"qfifo", 0>>
             Q == Queued(n)
             R == Queued(m)
  <2>1. q0 \in QueueNames /\ Accounts(Q, n.free, H)
    BY QueueKinds DEF Good
  <2>2. Q[q0] # <<>> /\ Only(Q, R, q0) /\ R[q0] = Tail(Q[q0]) /\ Head(Q[q0]) = b
    BY <1>2, <1>3
  <2> HIDE DEF q0, Q, R
  <2>3. /\ Head(Q[q0]) \in Item(q0) /\ Head(Q[q0]) \notin n.free \cup H
        /\ Accounts(R, n.free, H \cup ({Head(Q[q0])} \ {NULL}))
    BY <2>1, <2>2, AccountsTail
  <2> QED BY <2>2, <2>3 DEF q0, R
<1>6. Fifo(m.qfifo)
  BY <1>0, <1>1, TailIsSeq, NodeAssumption, SMTT(30) DEF Fifo, IsSeq
<1>7. Same(n, m, {"qfifo", "promisc", "conn", "sock", "last"}) /\ Same(n, m, {"qfifo"})
  BY <1>1 DEF Same
<1>8. m.last = n.last /\ m.promisc = n.promisc /\ m.conn = n.conn /\ m.sock = n.sock
  BY <1>1 DEF NodeFields
<1> HIDE DEF G
<1>9. Good(m, G) /\ Quiet(n, m)
  BY <1>4, <1>6, <1>7, <1>8, GoodQueues DEF Good, Shape
<1> QED BY <1>4, <1>7, <1>9 DEF m, b, G, Item

-----------------------------------------------------------------------------
(* The way out (csp_promisc.c, csp_io.c, the services).                    *)

\* csp_promisc_add: a copy to the queue or back to the pool.
LEMMA PromiscAddGood ==
    ASSUME NEW n, NEW H, Good(n, H), NEW b \in H
    PROVE  /\ Good(csp_promisc_add(n, b), H) /\ Quiet(n, csp_promisc_add(n, b))
           /\ Same(n, csp_promisc_add(n, b), {"buf", "free", "promisc"})
<1> DEFINE copy == csp_buffer_clone(n, b)
           c == copy.b
           k == copy.n
           res == csp_promisc_add(n, b)
<1>0. Same(n, n, {"buf", "free", "promisc"}) /\ Quiet(n, n)
  BY DEF Same, Quiet, Good, Shape
<1>1. \/ c = NULL /\ k = n
      \/ /\ c \in Buffers \ H /\ c # NULL /\ Good(k, H \cup {c}) /\ Quiet(n, k)
         /\ Same(n, k, {"buf", "free"})
  BY CloneGood
<1>2. res = IF n.promisc.on THEN PromiscQueued(n, copy) ELSE n
  BY DEF csp_promisc_add
<1> HIDE DEF res
<1>3. CASE res = n
  BY <1>0, <1>3 DEF res
<1>4. CASE res # n
  <2>0. res = PromiscQueued(n, copy) /\ c # NULL
    BY <1>2, <1>4 DEF PromiscQueued
  <2> HIDE DEF copy, c, k
  <2>1. /\ c \in Buffers \ H /\ c # NULL /\ Good(k, H \cup {c}) /\ Quiet(n, k)
        /\ Same(n, k, {"buf", "free"}) /\ c \in H \cup {c} /\ (H \cup {c}) \ {c} = H
    BY <1>1, <2>0
  <2>2. k.promisc = n.promisc /\ DOMAIN k = NodeFields /\ Shape(k)
    BY <2>1 DEF Same, NodeFields, Good
  <2>3. CASE ~(Len(n.promisc.q) < RxqueueLen)
    <3>1. res = csp_buffer_free(k, c)
      BY <2>0, <2>3 DEF PromiscQueued, c, k
    <3>2. /\ Good(csp_buffer_free(k, c), (H \cup {c}) \ {c}) /\ Quiet(k, csp_buffer_free(k, c))
          /\ Same(k, csp_buffer_free(k, c), {"buf", "free"})
      <4> DEFINE G == H \cup {c}
      <4>1. Good(k, G) /\ c \in G
        BY <2>1
      <4> HIDE DEF G
      <4>2. /\ Good(csp_buffer_free(k, c), G \ {c}) /\ Quiet(k, csp_buffer_free(k, c))
            /\ Same(k, csp_buffer_free(k, c), {"buf", "free"})
        BY <4>1, FreeGood
      <4> QED BY <4>2 DEF G
    <3>3. Good(res, H) /\ Quiet(k, res) /\ Same(k, res, {"buf", "free"})
      BY <2>1, <3>1, <3>2
    <3>4. Quiet(n, res)
      BY <2>1, <3>3, QuietTrans
    <3>5. Same(n, res, {"buf", "free", "promisc"})
      BY <2>1, <3>3 DEF Same
    <3> QED BY <3>3, <3>4, <3>5 DEF res
  <2>4. CASE Len(n.promisc.q) < RxqueueLen
    <3> DEFINE m == [k EXCEPT !.promisc.q = Append(@, c)]
    <3>1. res = m
      BY <2>0, <2>4 DEF PromiscQueued, c, k
    <3>2. /\ m.promisc = [k.promisc EXCEPT !.q = Append(@, c)] /\ DOMAIN m = NodeFields
          /\ \A f \in NodeFields \ {"promisc"} : m[f] = k[f]
      BY <2>2 DEF NodeFields
    <3>3. m.promisc.q = Append(k.promisc.q, c) /\ DOMAIN m.promisc = {"on", "q"}
      BY <2>2, <3>2 DEF Shape, Monitor
    <3> HIDE DEF m
    <3> DEFINE q0 == <<"promisc", 0>>
               Q == Queued(k)
               R == Queued(m)
               G == H \cup {c}
    <3>4. Q[q0] = k.promisc.q /\ R[q0] = Append(Q[q0], c) /\ q0 \in QueueNames
      BY <3>3, QueuedPromisc, QueueKinds
    <3>5. Only(Q, R, q0)
      BY <3>2, QueuesOnly DEF NodeFields
    <3>6. Accounts(Q, k.free, G) /\ c \in G /\ IsSeq(k.promisc.q)
      BY <2>1, <3>4 DEF Good, Accounts, Contents
    <3> HIDE DEF q0, Q, R, G
    <3>7. Accounts(R, k.free, G \ {c})
      BY <3>4, <3>5, <3>6, AccountsAppend
    <3>8. Monitor(m.promisc)
      BY <2>2, <2>4, <3>3, <3>6, AppendIsSeq, NodeAssumption DEF Monitor, IsSeq, Shape
    <3>9. /\ Same(k, m, {"qfifo", "promisc", "conn", "sock", "last"})
          /\ m.last = k.last /\ m.qfifo = k.qfifo /\ m.conn = k.conn /\ m.sock = k.sock
      BY <3>2 DEF Same, NodeFields
    <3>10. Good(m, H) /\ Quiet(k, m)
      <4>1. G \ {c} = H /\ Good(k, G)
        BY <2>1 DEF G
      <4>2. Accounts(Queued(m), k.free, H)
        BY <4>1, <3>7 DEF R
      <4> QED BY <2>2, <3>8, <3>9, <4>1, <4>2, GoodQueues DEF Shape
    <3>11. Quiet(n, m)
      BY <2>1, <3>10, QuietTrans
    <3>12. Same(n, m, {"buf", "free", "promisc"})
      BY <2>1, <3>2 DEF Same
    <3> QED BY <3>1, <3>10, <3>11, <3>12 DEF res
  <2> QED BY <2>3, <2>4
<1> QED BY <1>3, <1>4

\* Trailers change neither the identifier nor the owner of a packet.
LEMMA SealedIsBuffer ==
    ASSUME NEW p, IsBuffer(p)
    PROVE  IsBuffer(Sealed(p)) /\ Sealed(p).ref = p.ref
<1> DEFINE h(q) == IF "HMAC" \in p.id.flags THEN csp_hmac_append(q) ELSE q
           c(q) == IF "CRC32" \in p.id.flags THEN csp_crc32_append(q) ELSE q
<1>1. Sealed(p) = c(h(p))
  BY DEF Sealed
<1>2. ASSUME NEW q, IsBuffer(q) PROVE IsBuffer(csp_hmac_append(q)) /\ csp_hmac_append(q).ref = q.ref
  BY <1>2 DEF IsBuffer, csp_hmac_append
<1>3. ASSUME NEW q, IsBuffer(q) PROVE IsBuffer(csp_crc32_append(q)) /\ csp_crc32_append(q).ref = q.ref
  BY <1>3 DEF IsBuffer, csp_crc32_append
<1>4. IsBuffer(h(p)) /\ h(p).ref = p.ref
  BY <1>2
<1> HIDE DEF h
<1>5. IsBuffer(c(h(p))) /\ c(h(p)).ref = p.ref
  BY <1>3, <1>4
<1> QED BY <1>1, <1>5

\* A field that no packet depends on.
LEMMA NeutralGood ==
    ASSUME NEW n, NEW m, NEW H, Good(n, H), Same(n, m, {})
    PROVE  Good(m, H) /\ Quiet(n, m)
<1>1. m.buf = n.buf /\ Same(n, m, {"buf"})
  BY DEF Same, NodeFields
<1> QED BY <1>1, GoodBufs DEF Good, Shape

\* nexthop takes the packet.
LEMMA NexthopGood ==
    ASSUME NEW n, NEW H, Good(n, H), NEW b \in H, NEW i, NEW via
    PROVE  Good(Nexthop(n, b, i, via), H \ {b}) /\ Quiet(n, Nexthop(n, b, i, via))
<1>1. CASE i = "lo"
  BY <1>1, QfifoWriteGood DEF Nexthop, csp_lo_tx
<1>2. CASE i # "lo"
  <2> DEFINE m == [n EXCEPT !.wire = Append(@, [i |-> i, via |-> via, p |-> n.buf[b]])]
  <2>1. Nexthop(n, b, i, via) = csp_buffer_free(m, b)
    BY <1>2 DEF Nexthop
  <2>2. Same(n, m, {})
    BY DEF Same, NodeFields, Good, Shape
  <2> HIDE DEF m
  <2>3. Good(m, H) /\ Quiet(n, m)
    BY <2>2, NeutralGood
  <2>4. Good(csp_buffer_free(m, b), H \ {b}) /\ Quiet(m, csp_buffer_free(m, b))
    BY <2>3, FreeGood
  <2>5. Quiet(n, csp_buffer_free(m, b))
    BY <2>3, <2>4, QuietTrans
  <2> QED BY <2>1, <2>4, <2>5
<1> QED BY <1>1, <1>2

\* Trailers and driver: the packet leaves the hand whatever happens.
LEMMA TransmitGood ==
    ASSUME NEW n, NEW H, Good(n, H), NEW b \in H, NEW i, NEW via, NEW from_me, NEW txok
    PROVE  /\ Good(Transmit(n, b, i, via, from_me, txok), H \ {b})
           /\ Quiet(n, Transmit(n, b, i, via, from_me, txok))
<1> DEFINE p == IF from_me THEN Sealed(n.buf[b]) ELSE n.buf[b]
           m == [n EXCEPT !.buf[b] = p]
<1>1. IsBuffer(p) /\ p.ref = 1
  BY HeldIs, SealedIsBuffer
<1>2. \/ Transmit(n, b, i, via, from_me, txok) = Nexthop(m, b, i, via)
      \/ Transmit(n, b, i, via, from_me, txok) = csp_buffer_free(n, b)
  BY DEF Transmit
<1> HIDE DEF p
<1>3. m.buf = [n.buf EXCEPT ![b] = p] /\ Same(n, m, {"buf"})
  BY HeldIs DEF Same, NodeFields
<1> HIDE DEF m
<1>4. Good(m, H) /\ Quiet(n, m)
  BY <1>1, <1>3, PutGood
<1>5. Good(Nexthop(m, b, i, via), H \ {b}) /\ Quiet(m, Nexthop(m, b, i, via))
  BY <1>4, NexthopGood
<1>6. Quiet(n, Nexthop(m, b, i, via))
  BY <1>4, <1>5, QuietTrans
<1>7. Good(csp_buffer_free(n, b), H \ {b}) /\ Quiet(n, csp_buffer_free(n, b))
  BY FreeGood
<1> QED BY <1>2, <1>5, <1>6, <1>7

\* The identifier of a packet in a hand is set.
LEMMA SetIdGood ==
    ASSUME NEW n, NEW H, Good(n, H), NEW b \in H, NEW id, IsId(id)
    PROVE  Good([n EXCEPT !.buf[b].id = id], H) /\ Quiet(n, [n EXCEPT !.buf[b].id = id])
<1> DEFINE p == [n.buf[b] EXCEPT !.id = id]
           m == [n EXCEPT !.buf[b].id = id]
<1>1. IsBuffer(p) /\ p.ref = 1
  BY HeldIs DEF IsBuffer
<1>2. m.buf = [n.buf EXCEPT ![b] = p] /\ Same(n, m, {"buf"})
  BY HeldIs DEF Same, NodeFields
<1> HIDE DEF m, p
<1>3. Good(m, H) /\ Quiet(n, m)
  BY <1>1, <1>2, PutGood
<1> QED BY <1>3 DEF m

\* csp_send_direct_iface takes the packet.
LEMMA SendIfaceGood ==
    ASSUME NEW n, NEW H, Good(n, H), NEW b \in H, NEW idout, IsId(idout), NEW i, NEW via, NEW from_me,
           NEW txok
    PROVE  /\ Good(csp_send_direct_iface(n, idout, b, i, via, from_me, txok), H \ {b})
           /\ Quiet(n, csp_send_direct_iface(n, idout, b, i, via, from_me, txok))
<1> DEFINE n1 == [n EXCEPT !.buf[b].id = idout]
           n2 == IF from_me /\ i # "lo" THEN csp_promisc_add(n1, b) ELSE n1
           n3 == Transmit(n2, b, i, via, from_me, txok)
<1>1. csp_send_direct_iface(n, idout, b, i, via, from_me, txok) = n3
  BY DEF csp_send_direct_iface
<1>2. Good(n1, H) /\ Quiet(n, n1)
  BY SetIdGood
<1> HIDE DEF n1
<1>3. Good(n2, H) /\ Quiet(n1, n2)
  BY <1>2, PromiscAddGood DEF Quiet
<1> HIDE DEF n2
<1>4. Good(n3, H \ {b}) /\ Quiet(n2, n3)
  BY <1>3, TransmitGood
<1> HIDE DEF n3
<1>5. Quiet(n, n3)
  BY <1>2, <1>3, <1>4 DEF Quiet
<1> QED BY <1>1, <1>4, <1>5

\* One interface of the loop of csp_send_direct.
CopyOn(n, idout, b, from, txok, k) ==
    IF n.crash \/ ~LocalTarget(idout.dst, from, IfList[k]) THEN n
    ELSE SendCopy(n, idout, b, from, IfList[k], txok)

\* A copy for one interface: taken from the pool and sent, or the node stops.
LEMMA SendCopyGood ==
    ASSUME NEW n, NEW H, Good(n, H), NEW b \in H, NEW idout, IsId(idout), NEW from, NEW i, NEW txok
    PROVE  /\ Good(SendCopy(n, idout, b, from, i, txok), H)
           /\ Quiet(n, SendCopy(n, idout, b, from, i, txok))
<1> DEFINE copy == csp_buffer_clone(n, b)
           c == copy.b
           k == copy.n
           id == [idout EXCEPT !.src = Iface[i].addr]
           m == [n EXCEPT !.crash = TRUE]
           s == csp_send_direct_iface(k, id, c, i, NoVia, from = NoIface, txok)
<1>1. \/ c = NULL /\ k = n
      \/ c \in Buffers \ H /\ c # NULL /\ Good(k, H \cup {c}) /\ Quiet(n, k)
  BY CloneGood
<1>2. SendCopy(n, idout, b, from, i, txok) = IF c = NULL THEN m ELSE s
  BY DEF SendCopy
<1>3. Good(m, H) /\ Quiet(n, m)
  <2>1. Same(n, m, {})
    BY DEF Same, NodeFields, Good, Shape
  <2> HIDE DEF m
  <2> QED BY <2>1, NeutralGood
<1>4. IsId(id)
  BY DEF IsId
<1> HIDE DEF id, c, k, m
<1>5. CASE c # NULL
  <2> DEFINE G == H \cup {c}
  <2>1. Good(k, G) /\ c \in G /\ G \ {c} = H /\ Quiet(n, k)
    BY <1>1, <1>5
  <2> HIDE DEF G
  <2>2. Good(s, G \ {c}) /\ Quiet(k, s)
    BY <1>4, <2>1, SendIfaceGood
  <2> HIDE DEF s
  <2>3. Good(s, H) /\ Quiet(n, s)
    BY <2>1, <2>2, QuietTrans
  <2> QED BY <1>2, <1>5, <2>3
<1> QED BY <1>2, <1>3, <1>5

\* The equation of SendCopies, a recursive function.
LEMMA SendCopiesIs ==
    ASSUME NEW n, NEW idout, NEW b, NEW from, NEW txok, Len(IfList) \in Nat
    PROVE  SendCopies(n, idout, b, from, txok) =
             [k \in 0 .. Len(IfList) |->
                IF k = 0 THEN n
                ELSE CopyOn(SendCopies(n, idout, b, from, txok)[k - 1], idout, b, from, txok, k)]
<1> DEFINE N == Len(IfList)
           Def(a, l) == a = [k \in 0 .. l |-> IF k = 0 THEN n ELSE CopyOn(a[k - 1], idout, b, from, txok, k)]
           S == {l \in Nat : \E a : Def(a, l)}
<1>1. 0 \in S
  <2> DEFINE a == [k \in 0 .. 0 |-> n]
  <2>1. Def(a, 0)
    OBVIOUS
  <2> QED BY <2>1
<1>2. ASSUME NEW l \in Nat, l \in S PROVE l + 1 \in S
  <2>1. PICK a : Def(a, l)
    BY <1>2
  <2> DEFINE c == [k \in 0 .. l + 1 |-> IF k = l + 1 THEN CopyOn(a[l], idout, b, from, txok, l + 1) ELSE a[k]]
  <2>2. \A k \in 0 .. l + 1 : c[k] = IF k = 0 THEN n ELSE CopyOn(c[k - 1], idout, b, from, txok, k)
    <3> TAKE k \in 0 .. l + 1
    <3>1. CASE k = 0
      BY <2>1, <3>1
    <3>2. CASE k = l + 1
      <4>1. c[k] = CopyOn(a[l], idout, b, from, txok, k) /\ c[k - 1] = a[l] /\ k # 0
        BY <3>2
      <4> QED BY <4>1
    <3>3. CASE k # 0 /\ k # l + 1
      <4>1. k \in 0 .. l /\ k - 1 \in 0 .. l
        BY <3>3
      <4>2. c[k] = a[k] /\ c[k - 1] = a[k - 1]
        BY <3>3, <4>1
      <4>3. a[k] = CopyOn(a[k - 1], idout, b, from, txok, k)
        BY <2>1, <3>3, <4>1
      <4> QED BY <3>3, <4>2, <4>3
    <3> QED BY <3>1, <3>2, <3>3
  <2>3. c = [k \in 0 .. l + 1 |-> c[k]]
    OBVIOUS
  <2> HIDE DEF c
  <2>4. Def(c, l + 1)
    BY <2>2, <2>3
  <2> QED BY <2>4
<1>3. N \in S
  <2> HIDE DEF S
  <2> QED BY <1>1, <1>2, AllNat
<1>4. \E a : Def(a, N)
  BY <1>3
<1>5. SendCopies(n, idout, b, from, txok) = CHOOSE a : Def(a, N)
  BY DEF SendCopies, CopyOn
<1>6. Def(CHOOSE a : Def(a, N), N)
  <2> HIDE DEF Def
  <2> QED BY <1>4
<1> QED BY <1>5, <1>6

\* Copies leave the packet where it is.
LEMMA SendCopiesGood ==
    ASSUME NEW n, NEW H, Good(n, H), NEW b \in H, NEW idout, IsId(idout), NEW from, NEW txok
    PROVE  /\ Good(SendCopies(n, idout, b, from, txok)[Len(IfList)], H)
           /\ Quiet(n, SendCopies(n, idout, b, from, txok)[Len(IfList)])
<1> DEFINE A == SendCopies(n, idout, b, from, txok)
           N == Len(IfList)
           S == {k \in Nat : k <= N => Good(A[k], H) /\ Quiet(n, A[k])}
<1>0. N \in Nat
  BY NodeAssumption
<1>1. \A k \in 0 .. N : A[k] = IF k = 0 THEN n ELSE CopyOn(A[k - 1], idout, b, from, txok, k)
  <2>1. A = [k \in 0 .. N |-> IF k = 0 THEN n ELSE CopyOn(A[k - 1], idout, b, from, txok, k)]
    BY <1>0, SendCopiesIs
  <2> HIDE DEF A, N
  <2> QED BY <2>1
<1> SUFFICES Good(A[N], H) /\ Quiet(n, A[N])
  OBVIOUS
<1> HIDE DEF A, N
<1>3. 0 \in S
  BY <1>0, <1>1 DEF Quiet
<1>4. ASSUME NEW k \in Nat, k \in S PROVE k + 1 \in S
  <2> SUFFICES ASSUME k + 1 <= N PROVE Good(A[k + 1], H) /\ Quiet(n, A[k + 1])
    OBVIOUS
  <2>1. A[k + 1] = CopyOn(A[k], idout, b, from, txok, k + 1)
    BY <1>0, <1>1
  <2>2. Good(A[k], H) /\ Quiet(n, A[k])
    BY <1>0, <1>4
  <2> DEFINE s == SendCopy(A[k], idout, b, from, IfList[k + 1], txok)
  <2>3. Good(s, H) /\ Quiet(A[k], s)
    BY <2>2, SendCopyGood
  <2>4. A[k + 1] = A[k] \/ A[k + 1] = s
    BY <2>1 DEF CopyOn
  <2> HIDE DEF s
  <2> QED BY <2>2, <2>3, <2>4, QuietTrans
<1>5. N \in S
  <2> HIDE DEF S
  <2> QED BY <1>0, <1>3, <1>4, AllNat
<1> QED BY <1>0, <1>5

\* csp_send_direct takes the packet, whatever becomes of it.
LEMMA SendDirectGood ==
    ASSUME NEW n, NEW H, Good(n, H), NEW b \in H, NEW idout, IsId(idout), NEW from, NEW txok
    PROVE  /\ Good(csp_send_direct(n, idout, b, from, txok), H \ {b})
           /\ Quiet(n, csp_send_direct(n, idout, b, from, txok))
<1> DEFINE m == SendCopies(n, idout, b, from, txok)[Len(IfList)]
           f == csp_buffer_free(m, b)
           r == CHOOSE r \in csp_rtable_find_route(n.rtable, idout.dst) : TRUE
           s == csp_send_direct_iface(n, idout, b, r.i, r.via, from = NoIface, txok)
           g == csp_buffer_free(n, b)
<1>1. csp_send_direct(n, idout, b, from, txok) \in {f, s, g}
  BY DEF csp_send_direct
<1>2. Good(m, H) /\ Quiet(n, m)
  BY SendCopiesGood
<1> HIDE DEF m
<1>3. Good(f, H \ {b}) /\ Quiet(m, f)
  BY <1>2, FreeGood
<1>4. Good(g, H \ {b}) /\ Quiet(n, g)
  BY FreeGood
<1>5. Good(s, H \ {b}) /\ Quiet(n, s)
  <2> HIDE DEF r
  <2> QED BY SendIfaceGood
<1> HIDE DEF f, g, s
<1>6. Quiet(n, f)
  BY <1>2, <1>3, QuietTrans
<1> QED BY <1>1, <1>3, <1>4, <1>5, <1>6

\* csp_sendto_reply takes the packet.
LEMMA SendtoReplyGood ==
    ASSUME NEW n, NEW H, Good(n, H), NEW b \in H, NEW req, IsBuffer(req), NEW txok
    PROVE  Good(csp_sendto_reply(n, req, b, txok), H \ {b}) /\ Quiet(n, csp_sendto_reply(n, req, b, txok))
<1> DEFINE id == [pri |-> req.id.pri, src |-> 0, dst |-> req.id.src, dport |-> req.id.sport,
                  sport |-> req.id.dport, flags |-> req.id.flags]
           m == [n EXCEPT !.buf[b].id = id]
           s == csp_send_direct(m, id, b, NoIface, txok)
<1>1. csp_sendto_reply(n, req, b, txok) = s
  BY DEF csp_sendto_reply, csp_sendto
<1>2. IsId(id)
  BY DEF IsId, IsBuffer
<1> HIDE DEF id
<1>3. Good(m, H) /\ Quiet(n, m)
  BY <1>2, SetIdGood
<1> HIDE DEF m
<1>4. Good(s, H \ {b}) /\ Quiet(m, s)
  BY <1>2, <1>3, SendDirectGood
<1> HIDE DEF s
<1> QED BY <1>1, <1>3, <1>4, QuietTrans

\* Data and length of a packet in a hand.
LEMMA AnswerGood ==
    ASSUME NEW n, NEW H, Good(n, H), NEW b \in H, NEW data, NEW len
    PROVE  Good(Answer(n, b, data, len), H) /\ Quiet(n, Answer(n, b, data, len))
<1> DEFINE p == [n.buf[b] EXCEPT !.data = data, !.len = len]
           m == [n EXCEPT !.buf[b].data = data, !.buf[b].len = len]
<1>1. IsBuffer(p) /\ p.ref = 1
  BY HeldIs DEF IsBuffer
<1>2. m.buf = [n.buf EXCEPT ![b] = p] /\ Same(n, m, {"buf"})
  <2>1. m.buf = [n.buf EXCEPT ![b].data = data, ![b].len = len] /\ Same(n, m, {"buf"})
    BY HeldIs, ZenonT(30) DEF Same, NodeFields
  <2> HIDE DEF m
  <2>2. [n.buf EXCEPT ![b].data = data, ![b].len = len] = [n.buf EXCEPT ![b] = p]
    BY HeldIs DEF IsBuffer
  <2> QED BY <2>1, <2>2
<1> HIDE DEF m, p
<1>3. Good(m, H) /\ Quiet(n, m)
  BY <1>1, <1>2, PutGood
<1> QED BY <1>3 DEF m, Answer

\* The services answer with the packet of the request, or free it.
LEMMA ServiceGood ==
    ASSUME NEW n, NEW H, Good(n, H), NEW b \in H, NEW txok
    PROVE  Good(csp_service_handler(n, b, txok), H \ {b}) /\ Quiet(n, csp_service_handler(n, b, txok))
<1> DEFINE dport == n.buf[b].id.dport
           cmp == IF dport = CSP_CMP THEN csp_cmp_handler(n, b)
                  ELSE [ok |-> dport \in CSP_PING .. CSP_UPTIME \ {CSP_REBOOT}, n |-> Answered(n, b, dport)]
           m == cmp.n
           r == csp_sendto_reply(m, m.buf[b], b, txok)
           g == csp_buffer_free(n, b)
<1>1. csp_service_handler(n, b, txok) \in {r, g}
  BY DEF csp_service_handler, ReplyOrFree
<1>2. dport # CSP_PS
  BY HeldIs DEF IsBuffer, IsId
<1>3. Good(m, H) /\ Quiet(n, m)
  <2>1. CASE dport = CSP_CMP
    <3> DEFINE code == IF n.buf[b].data = "ping" THEN "ident" ELSE n.buf[b].data
               n1   == CASE code = "route_set_v1" -> do_cmp_route_set_v1(n)
                         [] code = "route_set_v2" -> do_cmp_route_set_v2(n)
                         [] OTHER -> n
               size == IF code \in {"ident", "route_set_v1", "route_set_v2", "if_stats"}
                       THEN CMP_SIZE[code] ELSE n.buf[b].len
               data == code \o "_reply"
    <3>1. m = Answer(n1, b, data, size)
      BY <2>1 DEF csp_cmp_handler, Answer
    <3>2. Same(n, n1, {})
      BY DEF Same, NodeFields, Good, Shape, do_cmp_route_set_v1, do_cmp_route_set_v2
    <3> HIDE DEF n1, size, data
    <3>3. Good(n1, H) /\ Quiet(n, n1)
      BY <3>2, NeutralGood
    <3>4. Good(Answer(n1, b, data, size), H) /\ Quiet(n1, Answer(n1, b, data, size))
      BY <3>3, AnswerGood
    <3> HIDE DEF m
    <3> QED BY <3>1, <3>3, <3>4, QuietTrans
  <2>2. CASE dport # CSP_CMP
    <3>1. m = Answered(n, b, dport)
      BY <2>2
    <3>2. \/ m = n \/ \E data, len : m = Answer(n, b, data, len)
      BY <1>2, <3>1, SMTT(30) DEF Answered
    <3> HIDE DEF m
    <3>3. CASE m = n
      BY <3>3 DEF Quiet
    <3>4. ASSUME NEW data, NEW len, m = Answer(n, b, data, len) PROVE Good(m, H) /\ Quiet(n, m)
      BY <3>4, AnswerGood
    <3> QED BY <3>2, <3>3, <3>4
  <2> QED BY <2>1, <2>2
<1> HIDE DEF m
<1>4. Good(r, H \ {b}) /\ Quiet(m, r)
  BY <1>3, HeldIs, SendtoReplyGood
<1>5. Good(g, H \ {b}) /\ Quiet(n, g)
  BY FreeGood
<1> HIDE DEF r, g
<1> QED BY <1>1, <1>3, <1>4, <1>5, QuietTrans

\* The equation of Freeing.
LEMMA FreeingIs ==
    ASSUME NEW n, NEW bs, Len(bs) \in Nat
    PROVE  Freeing(n, bs) =
             [k \in 0 .. Len(bs) |-> IF k = 0 THEN n ELSE csp_buffer_free(Freeing(n, bs)[k - 1], bs[k])]
<1> DEFINE N == Len(bs)
           Def(a, l) == a = [k \in 0 .. l |-> IF k = 0 THEN n ELSE csp_buffer_free(a[k - 1], bs[k])]
           S == {l \in Nat : \E a : Def(a, l)}
<1>1. 0 \in S
  <2> DEFINE a == [k \in 0 .. 0 |-> n]
  <2>1. Def(a, 0)
    OBVIOUS
  <2> QED BY <2>1
<1>2. ASSUME NEW l \in Nat, l \in S PROVE l + 1 \in S
  <2>1. PICK a : Def(a, l)
    BY <1>2
  <2> DEFINE c == [k \in 0 .. l + 1 |-> IF k = l + 1 THEN csp_buffer_free(a[l], bs[l + 1]) ELSE a[k]]
  <2>2. \A k \in 0 .. l + 1 : c[k] = IF k = 0 THEN n ELSE csp_buffer_free(c[k - 1], bs[k])
    <3> TAKE k \in 0 .. l + 1
    <3>1. CASE k = 0
      BY <2>1, <3>1
    <3>2. CASE k = l + 1
      <4>1. c[k] = csp_buffer_free(a[l], bs[k]) /\ c[k - 1] = a[l] /\ k # 0
        BY <3>2
      <4> QED BY <4>1
    <3>3. CASE k # 0 /\ k # l + 1
      <4>1. k \in 0 .. l /\ k - 1 \in 0 .. l
        BY <3>3
      <4>2. c[k] = a[k] /\ c[k - 1] = a[k - 1]
        BY <3>3, <4>1
      <4>3. a[k] = csp_buffer_free(a[k - 1], bs[k])
        BY <2>1, <3>3, <4>1
      <4> QED BY <3>3, <4>2, <4>3
    <3> QED BY <3>1, <3>2, <3>3
  <2>3. c = [k \in 0 .. l + 1 |-> c[k]]
    OBVIOUS
  <2> HIDE DEF c
  <2>4. Def(c, l + 1)
    BY <2>2, <2>3
  <2> QED BY <2>4
<1>3. N \in S
  <2> HIDE DEF S
  <2> QED BY <1>1, <1>2, AllNat
<1>4. \E a : Def(a, N)
  BY <1>3
<1>5. Freeing(n, bs) = CHOOSE a : Def(a, N)
  BY DEF Freeing
<1>6. Def(CHOOSE a : Def(a, N), N)
  <2> HIDE DEF Def
  <2> QED BY <1>4
<1> QED BY <1>5, <1>6

-----------------------------------------------------------------------------
(* The connection table (csp_conn.c).                                      *)

\* What Freeing leaves of the pool.
LEMMA FreeingDoes ==
    ASSUME NEW n, NEW bs, DOMAIN n = NodeFields, Bufs(n.buf), IsSeq(bs),
           \A k \in 1 .. Len(bs) : bs[k] \in Buffers /\ n.buf[bs[k]].ref = 1,
           \A j, k \in 1 .. Len(bs) : bs[j] = bs[k] => j = k
    PROVE  LET m == Freeing(n, bs)[Len(bs)]
               freed == {bs[j] : j \in 1 .. Len(bs)}
           IN  /\ Same(n, m, {"buf", "free"}) /\ Bufs(m.buf) /\ m.free = n.free \cup freed
               /\ \A x \in Buffers : IF x \in freed THEN m.buf[x].ref = 0 ELSE m.buf[x] = n.buf[x]
<1> DEFINE A == Freeing(n, bs)
           N == Len(bs)
           freed(k) == {bs[j] : j \in 1 .. k}
           P(k) == /\ Same(n, A[k], {"buf", "free"}) /\ Bufs(A[k].buf) /\ A[k].free = n.free \cup freed(k)
                   /\ \A x \in Buffers : IF x \in freed(k) THEN A[k].buf[x].ref = 0
                                         ELSE A[k].buf[x] = n.buf[x]
           S == {k \in Nat : k <= N => P(k)}
<1>0. N \in Nat
  BY DEF IsSeq
<1>1. \A k \in 0 .. N : A[k] = IF k = 0 THEN n ELSE csp_buffer_free(A[k - 1], bs[k])
  <2>1. A = [k \in 0 .. N |-> IF k = 0 THEN n ELSE csp_buffer_free(A[k - 1], bs[k])]
    BY <1>0, FreeingIs
  <2> HIDE DEF A, N
  <2> QED BY <2>1
<1> SUFFICES P(N)
  OBVIOUS
<1> HIDE DEF A
<1>2. P(0)
  <2>1. A[0] = n /\ freed(0) = {}
    BY <1>0, <1>1
  <2> QED BY <2>1 DEF Same
<1>3. ASSUME NEW k \in Nat, k + 1 <= N, P(k) PROVE P(k + 1)
  <2> DEFINE b == bs[k + 1]
             a == A[k]
             m == A[k + 1]
  <2>1. m = csp_buffer_free(a, b) /\ b \in Buffers /\ b # NULL /\ n.buf[b].ref = 1
    BY <1>0, <1>1, <1>3, NullIsNoBuffer
  <2>2. b \notin freed(k) /\ freed(k + 1) = freed(k) \cup {b}
    <3>1. 1 .. k + 1 = (1 .. k) \cup {k + 1}
      OBVIOUS
    <3>2. \A j \in 1 .. k : j \in 1 .. N /\ k + 1 \in 1 .. N /\ j # k + 1
      BY <1>0, <1>3
    <3>3. b \notin freed(k)
      BY <3>2
    <3> QED BY <3>1, <3>3
  <2>3. /\ DOMAIN a = NodeFields /\ Bufs(a.buf) /\ a.free = n.free \cup freed(k)
        /\ a.buf[b] = n.buf[b] /\ Same(n, a, {"buf", "free"})
        /\ \A x \in Buffers : IF x \in freed(k) THEN a.buf[x].ref = 0 ELSE a.buf[x] = n.buf[x]
    BY <1>3, <2>1, <2>2 DEF Same
  <2> HIDE DEF a, m, b, freed
  <2>4. m = [a EXCEPT !.buf[b].ref = 0, !.free = @ \cup {b}, !.recent = b]
    BY <2>1, <2>3 DEF csp_buffer_free
  <2>5. /\ m.buf = [a.buf EXCEPT ![b].ref = 0] /\ m.free = a.free \cup {b} /\ DOMAIN m = NodeFields
        /\ \A f \in NodeFields \ {"buf", "free", "recent"} : m[f] = a[f]
    BY <2>3, <2>4 DEF NodeFields
  <2>6. Bufs(m.buf) /\ m.buf[b].ref = 0 /\ \A x \in Buffers \ {b} : m.buf[x] = a.buf[x]
    BY <2>1, <2>3, <2>5 DEF Bufs, IsBuffer, IsId
  <2>7. Same(n, m, {"buf", "free"})
    BY <2>3, <2>5 DEF Same
  <2>8. m.free = n.free \cup freed(k + 1)
    BY <2>2, <2>3, <2>5
  <2>9. \A x \in Buffers : IF x \in freed(k + 1) THEN m.buf[x].ref = 0 ELSE m.buf[x] = n.buf[x]
    BY <2>2, <2>3, <2>6
  <2> QED BY <2>6, <2>7, <2>8, <2>9 DEF m
<1> HIDE DEF P
<1>4. 0 \in S
  BY <1>2
<1>5. ASSUME NEW k \in Nat, k \in S PROVE k + 1 \in S
  BY <1>0, <1>3, <1>5
<1>6. N \in S
  <2> HIDE DEF S
  <2> QED BY <1>0, <1>4, <1>5, AllNat
<1> QED BY <1>0, <1>6

\* A queue of a connection is emptied into the pool.
LEMMA FlushGood ==
    ASSUME NEW n, NEW H, Good(n, H), NEW c \in ConnSlots
    PROVE  Good(csp_conn_flush_rx_queue(n, c), H) /\ Quiet(n, csp_conn_flush_rx_queue(n, c))
<1> DEFINE rx == n.conn[c].rx
           a == Freeing(n, rx)[Len(rx)]
           m == [a EXCEPT !.conn[c].rx = <<>>]
           q0 == <<"rx", c>>
           Q == Queued(n)
           R == Queued(m)
           freed == {rx[j] : j \in 1 .. Len(rx)}
<1>1. q0 \in QueueNames /\ Q[q0] = rx /\ Accounts(Q, n.free, H) /\ q0 # <<"qfifo", 0>>
  BY QueueKinds, QueuedRx DEF Good
<1>2. /\ IsSeq(rx) /\ Len(rx) \in Nat /\ \A k \in 1 .. Len(rx) : rx[k] \in Buffers /\ rx[k] \notin n.free
      /\ \A j, k \in 1 .. Len(rx) : rx[j] = rx[k] => j = k
  <2> HIDE DEF q0, Q, rx
  <2>1. IsSeq(rx) /\ Len(rx) \in Nat /\ \A k \in 1 .. Len(rx) : rx[k] \in Buffers /\ rx[k] \notin n.free
    BY <1>1 DEF Accounts, Contents, Apart, Item, IsSeq
  <2> QED BY <1>1, <2>1, NullIsNoBuffer DEF Accounts, Apart
<1>3. Shape(n) /\ DOMAIN n = NodeFields /\ Bufs(n.buf) /\ \A k \in 1 .. Len(rx) : n.buf[rx[k]].ref = 1
  <2>1. Shape(n) /\ DOMAIN n = NodeFields /\ Bufs(n.buf)
    BY DEF Good, Shape
  <2> HIDE DEF rx
  <2> QED BY <1>2, <2>1 DEF Good, Bufs, IsBuffer
<1>4. /\ Same(n, a, {"buf", "free"}) /\ Bufs(a.buf) /\ a.free = n.free \cup freed
      /\ \A x \in Buffers : IF x \in freed THEN a.buf[x].ref = 0 ELSE a.buf[x] = n.buf[x]
  <2> HIDE DEF rx
  <2> QED BY <1>2, <1>3, FreeingDoes
<1> HIDE DEF a
<1>5. a.free = {x \in Buffers : a.buf[x].ref = 0}
  <2>1. freed \subseteq Buffers
    BY <1>2
  <2> HIDE DEF freed
  <2> QED BY <1>4, <2>1 DEF Good
<1>6. /\ DOMAIN a = NodeFields /\ a.conn = n.conn /\ a.qfifo = n.qfifo /\ a.promisc = n.promisc
      /\ a.sock = n.sock
  BY <1>4 DEF Same, NodeFields
<1>7. /\ m.conn = [n.conn EXCEPT ![c].rx = <<>>] /\ DOMAIN m = NodeFields
      /\ \A f \in NodeFields \ {"conn"} : m[f] = a[f]
  BY <1>6 DEF NodeFields
<1> HIDE DEF m
<1>8. m.conn[c].rx = <<>> /\ Conns(m.conn) /\ \A d \in ConnSlots \ {c} : m.conn[d] = n.conn[d]
  <2>1. DOMAIN n.conn = ConnSlots /\ \A d \in ConnSlots : IsConn(n.conn[d])
    BY <1>3 DEF Shape, Conns
  <2>2. m.conn[c].rx = <<>> /\ DOMAIN m.conn = ConnSlots /\ \A d \in ConnSlots \ {c} : m.conn[d] = n.conn[d]
    BY <1>7, <2>1 DEF IsConn
  <2>3. m.conn[c] = [n.conn[c] EXCEPT !.rx = <<>>]
    BY <1>7, <2>1
  <2>4. IsConn(m.conn[c])
    BY <2>1, <2>3, NodeAssumption, EmptyIsSeq DEF IsConn
  <2> QED BY <2>1, <2>2, <2>4 DEF Conns
<1>9. Only(Q, R, q0) /\ R[q0] = <<>>
  <2>1. R[q0] = <<>>
    BY <1>8, QueuedRx
  <2>2. m.qfifo = n.qfifo /\ m.promisc = n.promisc /\ m.sock = n.sock
    BY <1>6, <1>7 DEF NodeFields
  <2>3. \A d \in ConnSlots : q0 = <<"rx", d>> \/ m.conn[d].rx = n.conn[d].rx
    BY <1>8
  <2> QED BY <2>1, <2>2, <2>3, QueuesOnly
<1>10. Accounts(R, n.free \cup freed, H)
  <2> DEFINE F == n.free
  <2>1. \A x : x \in freed <=> \E k \in 1 .. Len(Q[q0]) : x = Q[q0][k]
    BY <1>1
  <2>2. Accounts(Q, F, H)
    BY <1>1
  <2>3. q0 \in QueueNames
    BY <1>1
  <2>4. Only(Q, R, q0)
    BY <1>9
  <2>5. R[q0] = <<>>
    BY <1>9
  <2>6. q0 # <<"qfifo", 0>>
    BY <1>1
  <2> HIDE DEF freed, Q, R, q0, rx, F
  <2>7. Accounts(R, F \cup freed, H)
    BY <2>1, <2>2, <2>3, <2>4, <2>5, <2>6, AccountsFlush, ZenonT(30)
  <2> QED BY <2>7 DEF F
<1> HIDE DEF freed
<1>11. /\ m.free = n.free \cup freed /\ m.buf = a.buf /\ m.errno = n.errno /\ m.last = n.last
       /\ m.qfifo = n.qfifo /\ m.port = n.port /\ m.sock = n.sock /\ m.promisc = n.promisc
       /\ m.ring = n.ring /\ m.ringin = n.ringin /\ m.now = n.now /\ m.mut = n.mut
  BY <1>4, <1>7 DEF Same, NodeFields
<1>12. Shape(m)
  BY <1>3, <1>4, <1>7, <1>8, <1>11 DEF Shape
<1>13. Good(m, H)
  BY <1>4, <1>5, <1>10, <1>11, <1>12 DEF Good
<1>14. csp_conn_flush_rx_queue(n, c) = m
  BY DEF csp_conn_flush_rx_queue, m, a
<1> QED BY <1>11, <1>13, <1>14 DEF Quiet

\* A step on connections that leaves their queues alone.
LEMMA GoodConns ==
    ASSUME NEW n, NEW m, NEW H, Good(n, H), Same(n, m, {"conn", "last"}), m.last \in ConnSlots,
           Conns(m.conn), \A c \in ConnSlots : m.conn[c].rx = n.conn[c].rx
    PROVE  Good(m, H) /\ Quiet(n, m)
<1>1. /\ Same(n, m, {"qfifo", "promisc", "conn", "sock", "last"})
      /\ m.qfifo = n.qfifo /\ m.promisc = n.promisc /\ m.sock = n.sock
  BY DEF Same, NodeFields
<1>2. Queued(n)[<<"qfifo", 0>>] = Queued(m)[<<"qfifo", 0>>]
  <2>1. Queued(m)[<<"qfifo", 0>>] = [k \in 1 .. Len(m.qfifo) |-> m.qfifo[k].b]
    BY QueuedFifo
  <2>2. Queued(n)[<<"qfifo", 0>>] = [k \in 1 .. Len(n.qfifo) |-> n.qfifo[k].b]
    BY QueuedFifo
  <2> QED BY <1>1, <2>1, <2>2
<1>3. \A q \in QueueNames : q # <<"qfifo", 0>> => Queued(m)[q] = Queued(n)[q]
  BY <1>1, QueuesOnly DEF Only
<1>4. Accounts(Queued(m), n.free, H)
  BY <1>2, <1>3, AccountsSame DEF Good
<1> QED BY <1>1, <1>4, GoodQueues DEF Good, Shape

\* The fields of one connection, without its queue.
LEMMA GoodConn ==
    ASSUME NEW n, NEW m, NEW H, Good(n, H), NEW c \in ConnSlots, NEW x, IsConn(x), x.rx = n.conn[c].rx,
           Same(n, m, {"conn", "last"}), m.last \in ConnSlots, m.conn = [n.conn EXCEPT ![c] = x]
    PROVE  Good(m, H) /\ Quiet(n, m)
<1>1. Conns(n.conn)
  BY DEF Good, Shape
<1>2. Conns(m.conn) /\ \A d \in ConnSlots : m.conn[d].rx = n.conn[d].rx
  BY <1>1 DEF Conns
<1> QED BY <1>2, GoodConns, ZenonT(30)

\* A slot is found by csp_conn_allocate, or none is closed.
LEMMA NextClosedIs ==
    ASSUME NEW n, n.last \in ConnSlots
    PROVE  NextClosed(n) \in ConnSlots \cup {NULL}
<1> DEFINE Slot(j) == (n.last + j) % ConnMax
           closed  == {j \in 1 .. ConnMax : n.conn[Slot(j)].state = "closed"}
<1>0. ConnMax \in Nat \ {0}
  BY NodeAssumption
<1>1. \A j \in 1 .. ConnMax : Slot(j) \in ConnSlots
  BY <1>0 DEF ConnSlots
<1>2. NextClosed(n) = IF closed = {} THEN NULL ELSE Slot(Min(closed))
  BY DEF NextClosed
<1>3. CASE closed # {}
  <2>1. closed \subseteq 1 .. ConnMax /\ closed \subseteq Nat
    OBVIOUS
  <2> HIDE DEF closed, Slot
  <2>2. Min(closed) \in closed
    BY <1>3, <2>1, LeastOf
  <2> QED BY <1>1, <1>2, <1>3, <2>1, <2>2
<1> QED BY <1>2, <1>3

\* csp_conn_allocate.
LEMMA AllocateGood ==
    ASSUME NEW n, NEW H, Good(n, H), NEW c \in ConnSlots
    PROVE  Good(csp_conn_allocate(n, c), H) /\ Quiet(n, csp_conn_allocate(n, c))
<1> DEFINE m == [n EXCEPT !.last = c, !.conn[c].state = "open"]
           x == [n.conn[c] EXCEPT !.state = "open"]
<1>0. DOMAIN n = NodeFields /\ IsConn(n.conn[c])
  BY DEF Good, Shape, Conns
<1>1. IsConn(x) /\ x.rx = n.conn[c].rx
  BY <1>0 DEF IsConn
<1>2. m.conn = [n.conn EXCEPT ![c] = x] /\ Same(n, m, {"conn", "last"}) /\ m.last = c
  BY <1>0 DEF Same, NodeFields
<1> HIDE DEF m, x
<1>3. Good(m, H) /\ Quiet(n, m)
  BY <1>1, <1>2, GoodConn
<1> QED BY <1>3 DEF m, csp_conn_allocate

\* csp_conn_new: what is still in the receive queue of the slot is freed.
LEMMA ConnNewGood ==
    ASSUME NEW n, NEW H, Good(n, H), NEW c \in ConnSlots, NEW idin, NEW idout, IsId(idin), IsId(idout), NEW type
    PROVE  /\ Good(csp_conn_new(n, c, idin, idout, type), H)
           /\ Quiet(n, csp_conn_new(n, c, idin, idout, type))
<1> DEFINE x == [n.conn[c] EXCEPT !.type = type, !.idin = idin, !.idout = idout]
           m == [n EXCEPT !.conn[c] = [@ EXCEPT !.type = type, !.idin = idin, !.idout = idout]]
<1>0. DOMAIN n = NodeFields /\ IsConn(n.conn[c]) /\ n.last \in ConnSlots
  BY DEF Good, Shape, Conns
<1>1. IsConn(x) /\ x.rx = n.conn[c].rx
  BY <1>0 DEF IsConn
<1>2. m.conn = [n.conn EXCEPT ![c] = x] /\ Same(n, m, {"conn", "last"}) /\ m.last = n.last
  BY <1>0 DEF Same, NodeFields
<1>3. csp_conn_new(n, c, idin, idout, type) = csp_conn_flush_rx_queue(m, c)
  BY DEF csp_conn_new
<1> HIDE DEF m, x
<1>4. Good(m, H) /\ Quiet(n, m)
  BY <1>0, <1>1, <1>2, GoodConn
<1>5. Good(csp_conn_flush_rx_queue(m, c), H) /\ Quiet(m, csp_conn_flush_rx_queue(m, c))
  BY <1>4, FlushGood
<1> QED BY <1>3, <1>4, <1>5, QuietTrans

\* csp_close frees what is in the receive queue.
LEMMA CloseGood ==
    ASSUME NEW n, NEW H, Good(n, H), NEW c \in ConnSlots
    PROVE  Good(csp_close(n, c), H) /\ Quiet(n, csp_close(n, c))
<1>1. CASE csp_close(n, c) = n
  BY <1>1 DEF Quiet
<1>2. CASE csp_close(n, c) # n
  <2> DEFINE k == csp_conn_flush_rx_queue(n, c)
             m == [k EXCEPT !.conn[c].state = "closed"]
             x == [k.conn[c] EXCEPT !.state = "closed"]
  <2>1. csp_close(n, c) = m
    BY <1>2 DEF csp_close
  <2>2. Good(k, H) /\ Quiet(n, k)
    BY FlushGood
  <2> HIDE DEF k
  <2>3. DOMAIN k = NodeFields /\ IsConn(k.conn[c]) /\ k.last \in ConnSlots
    BY <2>2 DEF Good, Shape, Conns
  <2>4. IsConn(x) /\ x.rx = k.conn[c].rx
    BY <2>3 DEF IsConn
  <2>5. m.conn = [k.conn EXCEPT ![c] = x] /\ Same(k, m, {"conn", "last"}) /\ m.last = k.last
    BY <2>3 DEF Same, NodeFields
  <2> HIDE DEF m, x
  <2>6. Good(m, H) /\ Quiet(k, m)
    BY <2>2, <2>3, <2>4, <2>5, GoodConn
  <2> QED BY <2>1, <2>2, <2>6, QuietTrans
<1> QED BY <1>1, <1>2

\* The ports of outgoing connections are behind those that can be bound.
LEMMA OutgoingPort ==
    ASSUME NEW c \in ConnSlots
    PROVE  sport_outgoing(c) \in Nat \ {CSP_PS}
BY NetAssumption, NodeAssumption DEF sport_outgoing, CSP_PS, CSP_UPTIME, ConnSlots

\* csp_connect fills in the ports.
LEMMA ConnectGood ==
    ASSUME NEW n, NEW H, Good(n, H), NEW c \in ConnSlots, NEW opts
    PROVE  Good(csp_connect(n, c, opts), H) /\ Quiet(n, csp_connect(n, c, opts))
<1> DEFINE p == sport_outgoing(c)
           x == [n.conn[c] EXCEPT !.idout.sport = p, !.idin.dport = p, !.dest = NULL, !.opts = opts]
           m == [n EXCEPT !.conn[c] = [@ EXCEPT !.idout.sport = p, !.idin.dport = p, !.dest = NULL,
                                                !.opts = opts]]
<1>0. DOMAIN n = NodeFields /\ IsConn(n.conn[c]) /\ n.last \in ConnSlots
  BY DEF Good, Shape, Conns
<1>1. p \in Nat \ {CSP_PS}
  BY OutgoingPort
<1>2. csp_connect(n, c, opts) = m
  BY DEF csp_connect
<1> HIDE DEF p
<1>3. IsConn(x) /\ x.rx = n.conn[c].rx
  BY <1>0, <1>1 DEF IsConn, IsId
<1>4. m.conn = [n.conn EXCEPT ![c] = x] /\ Same(n, m, {"conn", "last"}) /\ m.last = n.last
  BY <1>0 DEF Same, NodeFields
<1> HIDE DEF m, x
<1>5. Good(m, H) /\ Quiet(n, m)
  BY <1>0, <1>3, <1>4, GoodConn
<1> QED BY <1>2, <1>5

\* The packet to the queue of a connection that has room for it.
LEMMA EnqueueGood ==
    ASSUME NEW n, NEW H, Good(n, H), NEW c \in ConnSlots, NEW b \in H, Len(n.conn[c].rx) # RxqueueLen
    PROVE  LET m == csp_conn_enqueue_packet(n, c, b)
           IN  Good(m, H \ {b}) /\ Quiet(n, m) /\ Same(n, m, {"conn"})
<1> DEFINE m == [n EXCEPT !.conn[c].rx = Append(@, b)]
           x == [n.conn[c] EXCEPT !.rx = Append(@, b)]
           q0 == <<"rx", c>>
           Q == Queued(n)
           R == Queued(m)
<1>0. DOMAIN n = NodeFields /\ Conns(n.conn) /\ IsConn(n.conn[c])
  BY DEF Good, Shape, Conns
<1>1. /\ q0 \in QueueNames /\ Q[q0] = n.conn[c].rx /\ Accounts(Q, n.free, H) /\ IsSeq(n.conn[c].rx)
  BY QueueKinds, QueuedRx DEF Good, Accounts, Contents
<1>2. /\ m.conn = [n.conn EXCEPT ![c] = x] /\ DOMAIN m = NodeFields
      /\ \A f \in NodeFields \ {"conn"} : m[f] = n[f]
  BY <1>0 DEF NodeFields
<1>3. x.rx = Append(n.conn[c].rx, b) /\ IsConn(x)
  <2>1. x.rx = Append(n.conn[c].rx, b)
    BY <1>0 DEF IsConn
  <2>2. Len(x.rx) <= RxqueueLen
    BY <1>0, <1>1, <2>1, AppendIsSeq, NodeAssumption DEF IsConn, IsSeq
  <2> QED BY <1>0, <2>1, <2>2 DEF IsConn
<1> HIDE DEF x, m
<1>4. Conns(m.conn) /\ m.conn[c] = x /\ \A d \in ConnSlots \ {c} : m.conn[d] = n.conn[d]
  BY <1>0, <1>2, <1>3 DEF Conns
<1>5. R[q0] = Append(Q[q0], b)
  BY <1>1, <1>3, <1>4, QueuedRx
<1>6. Only(Q, R, q0)
  BY <1>2, <1>4, QueuesOnly DEF NodeFields
<1>7. Accounts(R, n.free, H \ {b})
  <2> HIDE DEF q0, Q, R
  <2> QED BY <1>1, <1>5, <1>6, AccountsAppend
<1>8. /\ Same(n, m, {"qfifo", "promisc", "conn", "sock", "last"}) /\ Same(n, m, {"conn"})
      /\ m.last = n.last /\ m.qfifo = n.qfifo /\ m.promisc = n.promisc /\ m.sock = n.sock
  BY <1>2 DEF Same, NodeFields
<1>9. Good(m, H \ {b}) /\ Quiet(n, m)
  BY <1>4, <1>7, <1>8, GoodQueues DEF Good, Shape
<1> QED BY <1>8, <1>9 DEF csp_conn_enqueue_packet, m

\* csp_read with a packet there.
LEMMA ReadGood ==
    ASSUME NEW n, NEW H, Good(n, H), NEW c \in ConnSlots, n.conn[c].rx # <<>>
    PROVE  LET got == csp_read(n, c)
           IN  /\ got.b \in Buffers /\ got.b \notin H /\ got.b # NULL
               /\ Good(got.n, H \cup {got.b}) /\ Quiet(n, got.n)
<1> DEFINE m == [n EXCEPT !.conn[c].rx = Tail(@)]
           b == Head(n.conn[c].rx)
           x == [n.conn[c] EXCEPT !.rx = Tail(@)]
           q0 == <<"rx", c>>
           Q == Queued(n)
           R == Queued(m)
<1>0. DOMAIN n = NodeFields /\ Conns(n.conn) /\ IsConn(n.conn[c])
  BY DEF Good, Shape, Conns
<1>1. /\ q0 \in QueueNames /\ Q[q0] = n.conn[c].rx /\ Accounts(Q, n.free, H) /\ IsSeq(n.conn[c].rx)
  BY QueueKinds, QueuedRx DEF Good, Accounts, Contents
<1>2. /\ m.conn = [n.conn EXCEPT ![c] = x] /\ DOMAIN m = NodeFields
      /\ \A f \in NodeFields \ {"conn"} : m[f] = n[f]
  BY <1>0 DEF NodeFields
<1>3. x.rx = Tail(n.conn[c].rx) /\ IsConn(x)
  <2>1. x.rx = Tail(n.conn[c].rx)
    BY <1>0 DEF IsConn
  <2>2. Len(x.rx) <= RxqueueLen
    BY <1>0, <1>1, <2>1, TailIsSeq, NodeAssumption DEF IsConn, IsSeq
  <2> QED BY <1>0, <2>1, <2>2 DEF IsConn
<1>10. csp_read(n, c) = [b |-> b, n |-> m]
  BY DEF csp_read
<1> HIDE DEF x, m
<1>4. Conns(m.conn) /\ m.conn[c] = x /\ \A d \in ConnSlots \ {c} : m.conn[d] = n.conn[d]
  BY <1>0, <1>2, <1>3 DEF Conns
<1>5. R[q0] = Tail(Q[q0]) /\ Q[q0] # <<>> /\ Head(Q[q0]) = b
  BY <1>1, <1>3, <1>4, QueuedRx
<1>6. Only(Q, R, q0)
  BY <1>2, <1>4, QueuesOnly DEF NodeFields
<1>7. Accounts(R, n.free, H \cup {b}) /\ b \in Buffers /\ b \notin H /\ b # NULL
  <2>0. q0 # <<"qfifo", 0>>
    OBVIOUS
  <2> HIDE DEF q0, Q, R, b
  <2>1. /\ Head(Q[q0]) \in Item(q0) /\ Head(Q[q0]) \notin n.free \cup H
        /\ Accounts(R, n.free, H \cup ({Head(Q[q0])} \ {NULL}))
    BY <1>1, <1>5, <1>6, AccountsTail
  <2>2. b \in Buffers /\ b # NULL /\ b \notin H
    BY <1>5, <2>0, <2>1, NullIsNoBuffer DEF Item
  <2>3. H \cup ({Head(Q[q0])} \ {NULL}) = H \cup {b}
    BY <1>5, <2>2
  <2> QED BY <2>1, <2>2, <2>3
<1>8. /\ Same(n, m, {"qfifo", "promisc", "conn", "sock", "last"})
      /\ m.last = n.last /\ m.qfifo = n.qfifo /\ m.promisc = n.promisc /\ m.sock = n.sock
  BY <1>2 DEF Same, NodeFields
<1>9. Good(m, H \cup {b}) /\ Quiet(n, m)
  BY <1>4, <1>7, <1>8, GoodQueues DEF Good, Shape
<1> QED BY <1>7, <1>9, <1>10

-----------------------------------------------------------------------------
(* A packet taken from the input queue.                                    *)

\* The packet p is entered in the ring.
Entered(n, m, p) ==
    /\ m.ring = [n.ring EXCEPT ![n.ringin] = [crc |-> Crc(p), at |-> n.now]]
    /\ m.ringin = (n.ringin + 1) % DedupCount /\ m.now = n.now

\* csp_dedup_is_duplicate enters a packet that it has not found.
LEMMA RememberGood ==
    ASSUME NEW n, NEW H, Good(n, H), NEW p
    PROVE  LET m == Remember(n, p)
           IN  Good(m, H) /\ Entered(n, m, p) /\ Same(n, m, {"ring", "ringin"})
<1> DEFINE x == [crc |-> Crc(p), at |-> n.now]
           m == [n EXCEPT !.ring[n.ringin] = x, !.ringin = (@ + 1) % DedupCount]
<1>1. DOMAIN n = NodeFields /\ n.ringin \in 0 .. DedupCount - 1 /\ DedupCount \in Nat \ {0}
  BY NodeAssumption DEF Good, Shape
<1>2. /\ m.ring = [n.ring EXCEPT ![n.ringin] = x] /\ m.ringin = (n.ringin + 1) % DedupCount
      /\ DOMAIN m = NodeFields /\ \A f \in NodeFields \ {"ring", "ringin"} : m[f] = n[f]
  BY <1>1 DEF NodeFields
<1> HIDE DEF m, x
<1>3. m.ringin \in 0 .. DedupCount - 1
  BY <1>1, <1>2
<1>4. /\ m.buf = n.buf /\ m.free = n.free /\ m.errno = n.errno /\ m.last = n.last
      /\ m.qfifo = n.qfifo /\ m.port = n.port /\ m.sock = n.sock /\ m.promisc = n.promisc
      /\ m.now = n.now /\ m.mut = n.mut /\ m.conn = n.conn
  BY <1>2 DEF NodeFields
<1>5. Shape(m)
  BY <1>2, <1>3, <1>4 DEF Good, Shape
<1>6. Accounts(Queued(m), m.free, H)
  BY <1>4, QueuesSame, AccountsSame DEF Good
<1>7. Good(m, H)
  BY <1>4, <1>5, <1>6 DEF Good
<1>8. Entered(n, m, p) /\ Same(n, m, {"ring", "ringin"})
  BY <1>2, <1>4 DEF Entered, Same, x
<1> QED BY <1>7, <1>8 DEF Remember, m, x

\* What a task leaves of the node is the node, the free buffers blank.
LEMMA BecomesGood ==
    ASSUME NEW n, NEW H, Good(n, H), Becomes(n)
    PROVE  Good(node', H) /\ Quiet(n, node') /\ node'.crash = n.crash
<1> DEFINE w == [n EXCEPT !.wire = SubSeq(@, Len(node.wire) + 1, Len(@))]
           x == [b \in Buffers |-> IF b \in w.free THEN Blank ELSE w.buf[b]]
           m == [w EXCEPT !.buf = x]
<1>1. node' = m
  BY DEF Becomes, Settled
<1>2. DOMAIN n = NodeFields /\ Bufs(n.buf) /\ n.free = {b \in Buffers : n.buf[b].ref = 0}
  BY DEF Good, Shape
<1>3. DOMAIN w = NodeFields /\ \A f \in NodeFields \ {"wire"} : w[f] = n[f]
  BY <1>2 DEF NodeFields
<1>4. w.free = n.free /\ w.buf = n.buf /\ w.crash = n.crash
  BY <1>3 DEF NodeFields
<1> HIDE DEF w
<1>5. x = [b \in Buffers |-> IF b \in n.free THEN Blank ELSE n.buf[b]]
  BY <1>4
<1>6. IsBuffer(Blank) /\ Blank.ref = 0
  BY DEF IsBuffer, Blank, Buffer, Packet, NoId, IsId, CSP_PS
<1>7. Bufs(x) /\ \A b \in Buffers : x[b].ref = n.buf[b].ref
  BY <1>2, <1>5, <1>6 DEF Bufs
<1> HIDE DEF x
<1>8. m.buf = x /\ DOMAIN m = NodeFields /\ \A f \in NodeFields \ {"buf"} : m[f] = w[f]
  BY <1>3 DEF NodeFields
<1> HIDE DEF m
<1>9. Same(n, m, {"buf"}) /\ m.crash = n.crash
  BY <1>3, <1>4, <1>8 DEF Same, NodeFields
<1>10. Good(m, H) /\ Quiet(n, m)
  BY <1>7, <1>8, <1>9, GoodBufs
<1> QED BY <1>1, <1>9, <1>10

\* A packet without its trailer is a packet.
LEMMA StrippedIsBuffer ==
    ASSUME NEW p, IsBuffer(p), NEW flag
    PROVE  IsBuffer(Stripped(p, flag)) /\ Stripped(p, flag).ref = p.ref
BY DEF Stripped, IsBuffer

\* The trailers that were checked are taken off.
LEMMA OpenedGood ==
    ASSUME NEW n, NEW H, Good(n, H), NEW b \in H
    PROVE  Good(Opened(n, b), H) /\ Quiet(n, Opened(n, b)) /\ Same(n, Opened(n, b), {"buf"})
<1> DEFINE q == Stripped(n.buf[b], "CRC32")
           p == Stripped(q, "HMAC")
           m == Opened(n, b)
<1>1. IsBuffer(q) /\ q.ref = 1
  BY HeldIs, StrippedIsBuffer
<1> HIDE DEF q
<1>2. IsBuffer(p) /\ p.ref = 1
  BY <1>1, StrippedIsBuffer
<1>3. m = [n EXCEPT !.buf[b] = p]
  BY DEF Opened, q
<1> HIDE DEF p
<1>4. m.buf = [n.buf EXCEPT ![b] = p] /\ Same(n, m, {"buf"})
  BY <1>3, HeldIs DEF Same, NodeFields
<1> HIDE DEF m
<1>5. Good(m, H) /\ Quiet(n, m)
  BY <1>2, <1>4, PutGood
<1> QED BY <1>4, <1>5 DEF m

\* The router has the packet at the head of the input queue.
LEMMA TakenGood ==
    ASSUME NEW H, Good(node, H), Taking
    PROVE  /\ Input.b \in Buffers /\ Input.b # NULL /\ Input.b \notin H /\ IsBuffer(Pkt)
           /\ Good(Taken, H \cup {Input.b})
           /\ IF DedupApplies THEN Entered(node, Taken, Pkt) ELSE Quiet(node, Taken)
           /\ Taken.sock = node.sock
           /\ LET n == csp_promisc_add(csp_qfifo_read(node), Input.b)
              IN  Good(n, H \cup {Input.b}) /\ Quiet(node, n)
<1> DEFINE b == Input.b
           G == H \cup {b}
           n1 == csp_qfifo_read(node)
           n2 == csp_promisc_add(n1, b)
<1>1. /\ b \in Buffers \cup {NULL} /\ b \notin H /\ Good(n1, H \cup ({b} \ {NULL})) /\ Quiet(node, n1)
      /\ Same(node, n1, {"qfifo"})
  BY QfifoReadGood DEF Taking, Input
<1>2. b # NULL /\ b \in Buffers
  BY <1>1 DEF Taking
<1> HIDE DEF b
<1>3. Good(n1, G) /\ b \in G
  <2>1. H \cup ({b} \ {NULL}) = G
    BY <1>2
  <2> QED BY <1>1, <2>1
<1> HIDE DEF G, n1
<1>4. Good(n2, G) /\ Quiet(n1, n2) /\ Same(n1, n2, {"buf", "free", "promisc"})
  BY <1>3, PromiscAddGood
<1> HIDE DEF n2
<1>5. Quiet(node, n2)
  BY <1>1, <1>4, QuietTrans
<1>6. IsBuffer(Pkt)
  BY <1>2 DEF Good, Shape, Bufs, Pkt, b
<1>7. n2.sock = node.sock
  BY <1>1, <1>4 DEF Same, NodeFields
<1> DEFINE n3 == Remember(n2, Pkt)
<1>8. Taken = IF DedupApplies THEN n3 ELSE n2
  BY DEF Taken, n2, n1, b
<1>9. Good(n3, G) /\ Entered(n2, n3, Pkt) /\ Same(n2, n3, {"ring", "ringin"})
  BY <1>4, RememberGood
<1> HIDE DEF n3
<1>10. Entered(node, n3, Pkt) /\ n3.sock = node.sock
  BY <1>5, <1>7, <1>9 DEF Entered, Quiet, Same, NodeFields
<1> QED BY <1>1, <1>2, <1>4, <1>5, <1>6, <1>7, <1>8, <1>9, <1>10 DEF b, G, n1, n2

-----------------------------------------------------------------------------
(* The tasks and what is in their hands: the invariant.                    *)

\* The packets in the hands of the router r, the server s and the clients c.
HandsOf(r, s, c) == ({r.b, s.b} \cup {c[t].b : t \in Clients}) \ {NULL}

\* No two of them have the same.
Each(r, s, c) ==
    /\ r.b # NULL => r.b # s.b /\ \A t \in Clients : c[t].b # r.b
    /\ s.b # NULL => \A t \in Clients : c[t].b # s.b
    /\ \A t, u \in Clients : c[t].b # NULL /\ c[t].b = c[u].b => t = u

Hands == HandsOf(rt, srv, cli)

RouterIs(r) ==
    /\ DOMAIN r = {"pc", "c", "b"}
    /\ \/ r.pc = "idle" /\ r.b = NULL
       \/ r.pc = "deliver" /\ r.c \in ConnSlots /\ r.b \in Buffers

ServerIs(s) ==
    /\ DOMAIN s = {"pc", "c", "b"}
    /\ \/ s.pc \in {"start", "bound", "accept"} /\ s.b = NULL
       \/ s.pc \in {"call_read", "read"} /\ s.c \in ConnSlots /\ s.b = NULL
       \/ s.pc = "handle" /\ s.c \in ConnSlots /\ s.b \in Buffers

\* A call that takes its buffer early has it until it sends.
ClientIs(x) ==
    /\ DOMAIN x = {"pc", "c", "b", "call", "dest"}
    /\ x.call.dport \in Nat \ {CSP_PS} /\ x.call.early \in BOOLEAN
    /\ \/ x.pc \in {"idle", "failed"} /\ x.b = NULL
       \/ x.pc = "connect" /\ (IF x.call.early THEN x.b \in Buffers ELSE x.b = NULL)
       \/ /\ x.pc \in {"new", "ports", "send"} /\ x.c \in ConnSlots
          /\ IF x.call.early THEN x.b \in Buffers ELSE x.b = NULL
       \/ x.pc \in {"call_read", "read", "close"} /\ x.c \in ConnSlots /\ x.b = NULL

Tasks(r, s, c) ==
    /\ RouterIs(r) /\ ServerIs(s) /\ DOMAIN c = Clients /\ \A t \in Clients : ClientIs(c[t])
    /\ Each(r, s, c)

\* The node, with the packets in their hands; once it has crashed only the clock
\* goes on, and the packet of the router may be nowhere.
Held(n, r, s, c) == \E H \in SUBSET Buffers : Good(n, H) /\ (~n.crash => H = HandsOf(r, s, c))

Ind == Tasks(rt, srv, cli) /\ scene \in Scenes /\ Held(node, rt, srv, cli)

\* What a step of the router does to the ring of packets seen.
Marks ==
    IF Taking /\ DedupApplies /\ ~Duplicate THEN Entered(node, node', Pkt) ELSE Quiet(node, node')

\* The list of processes is not asked for: csp_ps_hook has nothing to say on this
\* platform, and csp_service_handler then sends the packet that it has freed.
PsUnused ==
    /\ CSP_PS \notin Garbage
    /\ \A s \in Scenes : /\ \A x \in s.traffic : CSP_PS \notin {x.p.id.dport, x.p.id.sport}
                         /\ \A x \in s.calls : x.call.dport # CSP_PS

\* A step that leaves the packets of G in the hands of its tasks.
LEMMA HeldAfter ==
    ASSUME NEW m, NEW G, Good(m, G), Becomes(m), NEW r, NEW s, NEW c, m.crash \/ G = HandsOf(r, s, c)
    PROVE  Held(node', r, s, c) /\ Quiet(m, node')
<1>1. Good(node', G) /\ Quiet(m, node') /\ node'.crash = m.crash
  BY BecomesGood
<1>2. G \in SUBSET Buffers
  BY DEF Good, Accounts
<1> QED BY <1>1, <1>2 DEF Held

\* The router takes a packet, and gives it away.
LEMMA RouterTakes ==
    ASSUME NEW r, NEW s, NEW c, NEW x, Each(r, s, c), r.b = NULL, x.b # NULL, x.b \notin HandsOf(r, s, c)
    PROVE  HandsOf(x, s, c) = HandsOf(r, s, c) \cup {x.b} /\ Each(x, s, c)
BY DEF Each, HandsOf

\* The router has given it away.
LEMMA RouterGives ==
    ASSUME NEW r, NEW s, NEW c, NEW x, Each(r, s, c), r.b # NULL, x.b = NULL
    PROVE  HandsOf(x, s, c) = HandsOf(r, s, c) \ {r.b} /\ Each(x, s, c) /\ r.b \in HandsOf(r, s, c)
BY DEF Each, HandsOf

\* The server.
LEMMA ServerTakes ==
    ASSUME NEW r, NEW s, NEW c, NEW x, Each(r, s, c), s.b = NULL, x.b # NULL, x.b \notin HandsOf(r, s, c)
    PROVE  HandsOf(r, x, c) = HandsOf(r, s, c) \cup {x.b} /\ Each(r, x, c)
BY DEF Each, HandsOf

\* The server has given it away.
LEMMA ServerGives ==
    ASSUME NEW r, NEW s, NEW c, NEW x, Each(r, s, c), s.b # NULL, x.b = NULL
    PROVE  HandsOf(r, x, c) = HandsOf(r, s, c) \ {s.b} /\ Each(r, x, c) /\ s.b \in HandsOf(r, s, c)
BY DEF Each, HandsOf

\* A client.
LEMMA ClientTakes ==
    ASSUME NEW r, NEW s, NEW c, NEW d, NEW t \in Clients, Each(r, s, c), c[t].b = NULL, d[t].b # NULL,
           d[t].b \notin HandsOf(r, s, c), \A u \in Clients \ {t} : d[u].b = c[u].b
    PROVE  HandsOf(r, s, d) = HandsOf(r, s, c) \cup {d[t].b} /\ Each(r, s, d)
BY DEF Each, HandsOf

\* A client has given it away.
LEMMA ClientGives ==
    ASSUME NEW r, NEW s, NEW c, NEW d, NEW t \in Clients, Each(r, s, c), c[t].b # NULL, d[t].b = NULL,
           \A u \in Clients \ {t} : d[u].b = c[u].b
    PROVE  HandsOf(r, s, d) = HandsOf(r, s, c) \ {c[t].b} /\ Each(r, s, d) /\ c[t].b \in HandsOf(r, s, c)
BY DEF Each, HandsOf

\* Nobody takes or gives.
LEMMA HandsSame ==
    ASSUME NEW r, NEW s, NEW c, NEW x, NEW y, NEW d, Each(r, s, c), x.b = r.b, y.b = s.b,
           \A u \in Clients : d[u].b = c[u].b
    PROVE  HandsOf(x, y, d) = HandsOf(r, s, c) /\ Each(x, y, d)
BY DEF Each, HandsOf

-----------------------------------------------------------------------------
(* The router.                                                             *)

\* A step of the router that has taken the packet, done away with it and is idle.
LEMMA RouterDone ==
    ASSUME Tasks(rt, srv, cli), Good(node, Hands), Taking, ~Duplicate, NEW m, Becomes(m),
           (m.crash /\ \E G : Good(m, G)) \/ Good(m, Hands), Quiet(Taken, m), UNCHANGED <<rt, srv, cli>>
    PROVE  Tasks(rt', srv', cli') /\ Held(node', rt', srv', cli') /\ Marks
<1>1. PICK G : Good(m, G) /\ (m.crash \/ G = Hands)
  OBVIOUS
<1>2. Held(node', rt, srv, cli) /\ Quiet(m, node')
  BY <1>1, HeldAfter DEF Hands
<1>3. IF DedupApplies THEN Entered(node, Taken, Pkt) ELSE Quiet(node, Taken)
  BY TakenGood
<1>4. Marks
  BY <1>2, <1>3 DEF Marks, Entered, Quiet
<1> QED BY <1>2, <1>4

\* The router reads an entry without a packet.
LEMMA RouteWakeUpGood ==
    ASSUME Tasks(rt, srv, cli), Good(node, Hands), RouteWakeUp
    PROVE  Tasks(rt', srv', cli') /\ Held(node', rt', srv', cli') /\ Marks
<1> DEFINE m == csp_qfifo_read(node)
<1>1. /\ Good(m, Hands \cup ({Head(node.qfifo).b} \ {NULL})) /\ Quiet(node, m)
  BY QfifoReadGood DEF RouteWakeUp
<1>2. Hands \cup ({Head(node.qfifo).b} \ {NULL}) = Hands
  BY DEF RouteWakeUp, Input
<1>3. Becomes(m) /\ UNCHANGED <<rt, srv, cli>> /\ ~Taking
  BY DEF RouteWakeUp, Taking
<1> HIDE DEF m
<1>4. Good(m, Hands)
  BY <1>1, <1>2
<1>5. Held(node', rt, srv, cli) /\ Quiet(m, node')
  BY <1>3, <1>4, HeldAfter DEF Hands
<1>6. Marks
  BY <1>1, <1>3, <1>5 DEF Marks, Quiet
<1> QED BY <1>3, <1>5, <1>6

\* The router drops a duplicate.
LEMMA RouteDuplicateGood ==
    ASSUME Tasks(rt, srv, cli), Good(node, Hands), RouteDuplicate
    PROVE  Tasks(rt', srv', cli') /\ Held(node', rt', srv', cli') /\ Marks
<1> DEFINE b == Input.b
           G == Hands \cup {b}
           n == csp_promisc_add(csp_qfifo_read(node), b)
           m == csp_buffer_free(n, b)
<1>1. Taking /\ Duplicate /\ Becomes(m) /\ UNCHANGED <<rt, srv, cli>>
  BY DEF RouteDuplicate
<1>2. b \notin Hands /\ Good(n, G) /\ Quiet(node, n)
  BY <1>1, TakenGood
<1>3. b \in G /\ G \ {b} = Hands
  BY <1>2
<1> HIDE DEF n, G, b
<1>4. Good(m, Hands) /\ Quiet(n, m)
  BY <1>2, <1>3, FreeGood
<1> HIDE DEF m
<1>5. Held(node', rt, srv, cli) /\ Quiet(m, node')
  BY <1>1, <1>4, HeldAfter DEF Hands
<1>6. Marks
  BY <1>1, <1>2, <1>4, <1>5 DEF Marks, Quiet
<1> QED BY <1>1, <1>5, <1>6

\* Taken, with the packet in the hand of the router.
LEMMA TakenInHand ==
    ASSUME Good(node, Hands), Taking
    PROVE  \E G : /\ Good(Taken, G) /\ Input.b \in G /\ G \ {Input.b} = Hands /\ G = Hands \cup {Input.b}
                  /\ IsId(Pkt.id)
<1>1. /\ Input.b \notin Hands /\ IsBuffer(Pkt) /\ Good(Taken, Hands \cup {Input.b})
  BY TakenGood
<1>2. (Hands \cup {Input.b}) \ {Input.b} = Hands
  BY <1>1
<1> QED BY <1>1, <1>2 DEF IsBuffer

\* The router sends the packet on.
LEMMA RouteForwardGood ==
    ASSUME Tasks(rt, srv, cli), Good(node, Hands), NEW txok, RouteForward(txok)
    PROVE  Tasks(rt', srv', cli') /\ Held(node', rt', srv', cli') /\ Marks
<1> DEFINE m == csp_send_direct(Taken, Pkt.id, Input.b, Input.i, txok)
<1>1. Taking /\ ~Duplicate /\ Becomes(m) /\ UNCHANGED <<rt, srv, cli>>
  BY DEF RouteForward
<1>2. PICK G : Good(Taken, G) /\ Input.b \in G /\ G \ {Input.b} = Hands /\ IsId(Pkt.id)
  BY <1>1, TakenInHand
<1>3. Good(m, G \ {Input.b}) /\ Quiet(Taken, m)
  BY <1>2, SendDirectGood
<1> HIDE DEF m
<1>4. Good(m, Hands)
  BY <1>2, <1>3
<1> QED BY <1>1, <1>3, <1>4, RouterDone

\* The router gives the packet to the service handler.
LEMMA RouteCallbackGood ==
    ASSUME Tasks(rt, srv, cli), Good(node, Hands), NEW txok, RouteCallback(txok)
    PROVE  Tasks(rt', srv', cli') /\ Held(node', rt', srv', cli') /\ Marks
<1> DEFINE b == Input.b
           o == Opened(Taken, b)
           s == csp_service_handler(o, b, txok)
           f == csp_buffer_free(Taken, b)
           m == IF csp_route_security_check({}, Pkt) THEN s ELSE f
<1>1. Taking /\ ~Duplicate /\ Becomes(m) /\ UNCHANGED <<rt, srv, cli>>
  BY DEF RouteCallback, Mine
<1>2. PICK G : Good(Taken, G) /\ b \in G /\ G \ {b} = Hands
  BY <1>1, TakenInHand
<1>3. Good(o, G) /\ Quiet(Taken, o)
  BY <1>2, OpenedGood
<1> HIDE DEF o, b
<1>4. Good(s, G \ {b}) /\ Quiet(o, s)
  BY <1>2, <1>3, ServiceGood
<1>5. Good(f, G \ {b}) /\ Quiet(Taken, f)
  BY <1>2, FreeGood
<1> HIDE DEF s, f
<1>6. Good(m, Hands) /\ Quiet(Taken, m)
  BY <1>2, <1>3, <1>4, <1>5, QuietTrans
<1> HIDE DEF m
<1> QED BY <1>1, <1>6, RouterDone

\* The router drops a packet that no socket takes or that fails the check.
LEMMA RouteRejectGood ==
    ASSUME Tasks(rt, srv, cli), Good(node, Hands), RouteReject
    PROVE  Tasks(rt', srv', cli') /\ Held(node', rt', srv', cli') /\ Marks
<1> DEFINE m == csp_buffer_free(Taken, Input.b)
<1>1. Taking /\ ~Duplicate /\ Becomes(m) /\ UNCHANGED <<rt, srv, cli>>
  BY DEF RouteReject, ForSocket, Mine
<1>2. PICK G : Good(Taken, G) /\ Input.b \in G /\ G \ {Input.b} = Hands
  BY <1>1, TakenInHand
<1>3. Good(m, G \ {Input.b}) /\ Quiet(Taken, m)
  BY <1>2, FreeGood
<1> HIDE DEF m
<1>4. Good(m, Hands)
  BY <1>2, <1>3
<1> QED BY <1>1, <1>3, <1>4, RouterDone

\* The socket a port is bound to.
LEMMA SocketIs ==
    ASSUME NEW H, Good(node, H), IsBuffer(Pkt)
    PROVE  Sock = NULL \/ Sock \in DOMAIN Sockets
<1>1. Pkt.id.dport \in Nat /\ Ports(node.port)
  BY DEF IsBuffer, IsId, Good, Shape
<1>2. CASE Pkt.id.dport > PortMaxBind
  BY <1>2 DEF Sock, csp_port_get_socket
<1>3. CASE ~(Pkt.id.dport > PortMaxBind)
  <2>1. Pkt.id.dport \in 0 .. CSP_ANY /\ CSP_ANY \in 0 .. CSP_ANY
    BY <1>1, <1>3, NetAssumption DEF CSP_ANY
  <2>2. BoundTo(node, Pkt.id.dport) \in {PORT_CLOSED, PORT_OPEN_CB} \cup DOMAIN Sockets
    BY <1>1, <2>1 DEF BoundTo, Ports
  <2> QED BY <2>2 DEF Sock, csp_port_get_socket
<1> QED BY <1>2, <1>3

\* A queue with room, and one element more.
LEMMA RoomForOne ==
    ASSUME NEW y, NEW e, IsSeq(y), Len(y) <= RxqueueLen, Len(y) # RxqueueLen
    PROVE  IsSeq(Append(y, e)) /\ Len(Append(y, e)) = Len(y) + 1 /\ Len(Append(y, e)) <= RxqueueLen
<1>1. IsSeq(Append(y, e)) /\ Len(Append(y, e)) = Len(y) + 1 /\ Len(y) \in Nat
  BY AppendIsSeq DEF IsSeq
<1>2. RxqueueLen \in Nat
  BY NodeAssumption
<1> QED BY <1>1, <1>2

\* A queue of a socket without connections has room for the packet.
LEMMA SockAppendGood ==
    ASSUME NEW n, NEW H, Good(n, H), NEW s \in DOMAIN Sockets, "CONN_LESS" \in Sockets[s], NEW b \in H,
           Len(n.sock[s].q) # RxqueueLen
    PROVE  LET m == [n EXCEPT !.sock[s].q = Append(@, b)]
           IN  Good(m, H \ {b}) /\ Quiet(n, m)
<1> DEFINE m == [n EXCEPT !.sock[s].q = Append(@, b)]
           x == [n.sock[s] EXCEPT !.q = Append(@, b)]
           q0 == <<"sock", s>>
           Q == Queued(n)
           R == Queued(m)
<1>0. DOMAIN n = NodeFields /\ Socks(n.sock) /\ IsSock(n.sock[s], s)
  BY DEF Good, Shape, Socks
<1>1. /\ q0 \in QueueNames /\ Q[q0] = n.sock[s].q /\ Accounts(Q, n.free, H) /\ IsSeq(n.sock[s].q)
  BY <1>0, QueueKinds, QueuedSock DEF Good, IsSock
<1>2. /\ m.sock = [n.sock EXCEPT ![s] = x] /\ DOMAIN m = NodeFields
      /\ \A f \in NodeFields \ {"sock"} : m[f] = n[f]
  BY <1>0 DEF NodeFields
<1>3. x.q = Append(n.sock[s].q, b) /\ IsSock(x, s)
  <2>1. x.q = Append(n.sock[s].q, b) /\ DOMAIN x = DOMAIN n.sock[s] /\ x.opts = n.sock[s].opts
    BY <1>0 DEF IsSock
  <2>2. IsSeq(x.q) /\ Len(x.q) <= RxqueueLen
    <3> HIDE DEF x
    <3> QED BY <1>0, <1>1, <2>1, RoomForOne DEF IsSock
  <2> QED BY <1>0, <2>1, <2>2 DEF IsSock
<1> HIDE DEF x, m
<1>4. Socks(m.sock) /\ m.sock[s] = x /\ \A d \in DOMAIN Sockets \ {s} : m.sock[d] = n.sock[d]
  BY <1>0, <1>2, <1>3 DEF Socks
<1>5. R[q0] = Append(Q[q0], b)
  BY <1>1, <1>3, <1>4, QueuedSock
<1>6. Only(Q, R, q0)
  <2>1. m.qfifo = n.qfifo /\ m.promisc = n.promisc /\ m.conn = n.conn
    BY <1>2 DEF NodeFields
  <2>2. \A d \in DOMAIN Sockets : q0 = <<"sock", d>> \/ m.sock[d].q = n.sock[d].q
    BY <1>4
  <2> QED BY <2>1, <2>2, QueuesOnly
<1>7. Accounts(R, n.free, H \ {b})
  <2> HIDE DEF q0, Q, R
  <2> QED BY <1>1, <1>5, <1>6, AccountsAppend
<1>8. /\ Same(n, m, {"qfifo", "promisc", "conn", "sock", "last"})
      /\ m.last = n.last /\ m.qfifo = n.qfifo /\ m.promisc = n.promisc /\ m.conn = n.conn
  BY <1>2 DEF Same, NodeFields
<1>9. Good(m, H \ {b}) /\ Quiet(n, m)
  BY <1>4, <1>7, <1>8, GoodQueues DEF Good, Shape
<1> QED BY <1>9 DEF m

\* The router gives the packet to a connection-less socket.
LEMMA RouteConnlessGood ==
    ASSUME Tasks(rt, srv, cli), Good(node, Hands), RouteConnless
    PROVE  Tasks(rt', srv', cli') /\ Held(node', rt', srv', cli') /\ Marks
<1> DEFINE b == Input.b
           s == node.sock[Sock]
           f == csp_buffer_free(Taken, b)
           o == Opened(Taken, b)
           q == [o EXCEPT !.sock[Sock].q = Append(@, b)]
           k == [Taken EXCEPT !.crash = TRUE]
           full == ~csp_route_security_check(s.opts, Pkt) \/ Len(s.q) = RxqueueLen
           m == IF full THEN f ELSE IF s.listening THEN q ELSE k
<1>1. Taking /\ ~Duplicate /\ Becomes(m) /\ UNCHANGED <<rt, srv, cli>> /\ ConnLess
  BY DEF RouteConnless, ForSocket, Mine
<1>2. PICK G : Good(Taken, G) /\ b \in G /\ G \ {b} = Hands
  BY <1>1, TakenInHand
<1>3. Good(f, Hands) /\ Quiet(Taken, f)
  BY <1>2, FreeGood
<1>4. Good(o, G) /\ Quiet(Taken, o) /\ Same(Taken, o, {"buf"})
  BY <1>2, OpenedGood
<1>5. IsBuffer(Pkt) /\ Taken.sock = node.sock
  BY <1>1, TakenGood
<1>6. Sock \in DOMAIN Sockets /\ "CONN_LESS" \in Sockets[Sock]
  <2>1. Sock \in DOMAIN Sockets
    BY <1>1, <1>5, SocketIs DEF ConnLess
  <2> QED BY <1>1, <2>1 DEF ConnLess, Good, Shape, Socks, IsSock
<1>7. o.sock = node.sock
  BY <1>4, <1>5 DEF Same, NodeFields
<1>8. ~full => Good(q, Hands) /\ Quiet(o, q)
  <2> HIDE DEF o, b
  <2> SUFFICES ASSUME ~full PROVE Good(q, Hands) /\ Quiet(o, q)
    OBVIOUS
  <2>1. Len(o.sock[Sock].q) # RxqueueLen
    BY <1>7
  <2>2. Good(q, G \ {b}) /\ Quiet(o, q)
    BY <1>2, <1>4, <1>6, <2>1, SockAppendGood
  <2> QED BY <1>2, <2>2
<1>9. Good(k, G) /\ Quiet(Taken, k) /\ k.crash
  <2>1. Same(Taken, k, {}) /\ k.crash
    BY <1>2 DEF Same, NodeFields, Good, Shape
  <2> HIDE DEF k
  <2> QED BY <1>2, <2>1, NeutralGood
<1> HIDE DEF f, o, q, k, full, s
<1>10. ((m.crash /\ \E X : Good(m, X)) \/ Good(m, Hands)) /\ Quiet(Taken, m)
  BY <1>3, <1>4, <1>8, <1>9, QuietTrans
<1> HIDE DEF m
<1> QED BY <1>1, <1>10, RouterDone

\* The router has found a connection and keeps the packet for it.
LEMMA RouterKeeps ==
    ASSUME Tasks(rt, srv, cli), Good(node, Hands), Taking, ~Duplicate, NEW m, Becomes(m),
           Good(m, Hands \cup {Input.b}), Quiet(Taken, m), NEW c \in ConnSlots,
           rt' = [pc |-> "deliver", c |-> c, b |-> Input.b], UNCHANGED <<srv, cli>>
    PROVE  Tasks(rt', srv', cli') /\ Held(node', rt', srv', cli') /\ Marks
<1>1. /\ Input.b \in Buffers /\ Input.b # NULL /\ Input.b \notin Hands
      /\ IF DedupApplies THEN Entered(node, Taken, Pkt) ELSE Quiet(node, Taken)
  BY TakenGood
<1>2. rt.b = NULL /\ Each(rt, srv, cli)
  BY DEF Taking, Tasks, RouterIs
<1>3. rt'.b = Input.b
  OBVIOUS
<1>4. HandsOf(rt', srv, cli) = Hands \cup {Input.b} /\ Each(rt', srv, cli)
  BY <1>1, <1>2, <1>3, RouterTakes DEF Hands
<1>5. Held(node', rt', srv, cli) /\ Quiet(m, node')
  BY <1>4, HeldAfter
<1>6. Marks
  BY <1>1, <1>5 DEF Marks, Entered, Quiet
<1>7. RouterIs(rt')
  BY <1>1 DEF RouterIs
<1>8. Tasks(rt', srv, cli)
  BY <1>4, <1>7 DEF Tasks
<1> QED BY <1>5, <1>6, <1>8

\* The router has found the connection of the packet and keeps the packet.
LEMMA RouteExistingGood ==
    ASSUME Tasks(rt, srv, cli), Good(node, Hands), RouteExisting
    PROVE  Tasks(rt', srv', cli') /\ Held(node', rt', srv', cli') /\ Marks
<1> DEFINE m == Opened(Taken, Input.b)
           c == Min(Existing)
<1>1. /\ Taking /\ ~Duplicate /\ Becomes(m) /\ UNCHANGED <<srv, cli>> /\ Existing # {}
      /\ rt' = [pc |-> "deliver", c |-> c, b |-> Input.b]
  BY DEF RouteExisting, ForSocket, Mine
<1>2. PICK G : Good(Taken, G) /\ Input.b \in G /\ G = Hands \cup {Input.b}
  BY <1>1, TakenInHand
<1>3. Good(m, G) /\ Quiet(Taken, m)
  BY <1>2, OpenedGood
<1>4. c \in ConnSlots
  <2>1. Existing \subseteq ConnSlots /\ Existing \subseteq Nat
    BY DEF Existing, csp_conn_find_existing, ConnSlots
  <2> QED BY <1>1, <2>1, LeastOf
<1> HIDE DEF m, c
<1>5. Good(m, Hands \cup {Input.b})
  BY <1>2, <1>3
<1> QED BY <1>1, <1>3, <1>4, <1>5, RouterKeeps

\* The router opens a connection and keeps the packet.
LEMMA RouteNewGood ==
    ASSUME Tasks(rt, srv, cli), Good(node, Hands), RouteNew
    PROVE  Tasks(rt', srv', cli') /\ Held(node', rt', srv', cli') /\ Marks
<1> DEFINE c  == NextClosed(node)
           id == Pkt.id
           idout == [id EXCEPT !.src = id.dst, !.dst = id.src, !.dport = id.sport, !.sport = id.dport]
           n1 == Opened(Taken, Input.b)
           n2 == csp_conn_allocate(n1, c)
           n3 == csp_conn_new(n2, c, id, idout, "server")
           m  == [n3 EXCEPT !.conn[c] = [@ EXCEPT !.dest = Sock, !.opts = Opts]]
           x  == [n3.conn[c] EXCEPT !.dest = Sock, !.opts = Opts]
<1>1. /\ Taking /\ ~Duplicate /\ Becomes(m) /\ UNCHANGED <<srv, cli>> /\ c # NULL /\ ~ConnLess /\ Sock # NULL
      /\ rt' = [pc |-> "deliver", c |-> c, b |-> Input.b]
  BY DEF RouteNew, ForSocket, Mine
<1>2. PICK G : Good(Taken, G) /\ Input.b \in G /\ G = Hands \cup {Input.b} /\ IsId(id)
  BY <1>1, TakenInHand
<1>3. c \in ConnSlots
  BY <1>1, NextClosedIs DEF Good, Shape
<1>4. IsBuffer(Pkt)
  BY <1>1, TakenGood
<1>5. Sock \in DOMAIN Sockets /\ "CONN_LESS" \notin Sockets[Sock]
  <2>1. Sock \in DOMAIN Sockets
    BY <1>1, <1>4, SocketIs
  <2> QED BY <1>1, <2>1 DEF ConnLess, Good, Shape, Socks, IsSock
<1>6. IsId(idout)
  BY <1>2 DEF IsId
<1>7. Good(n1, G) /\ Quiet(Taken, n1)
  BY <1>2, OpenedGood
<1> HIDE DEF c, idout, id, n1
<1>8. Good(n2, G) /\ Quiet(n1, n2)
  BY <1>3, <1>7, AllocateGood
<1> HIDE DEF n2
<1>9. Good(n3, G) /\ Quiet(n2, n3)
  BY <1>2, <1>3, <1>6, <1>8, ConnNewGood
<1> HIDE DEF n3
<1>10. DOMAIN n3 = NodeFields /\ IsConn(n3.conn[c]) /\ n3.last \in ConnSlots
  BY <1>3, <1>9 DEF Good, Shape, Conns
<1>11. IsConn(x) /\ x.rx = n3.conn[c].rx
  BY <1>5, <1>10 DEF IsConn
<1>12. m.conn = [n3.conn EXCEPT ![c] = x] /\ Same(n3, m, {"conn", "last"}) /\ m.last = n3.last
  BY <1>10 DEF Same, NodeFields
<1> HIDE DEF m, x
<1>13. Good(m, G) /\ Quiet(n3, m)
  BY <1>3, <1>9, <1>10, <1>11, <1>12, GoodConn
<1>14. Good(m, Hands \cup {Input.b}) /\ Quiet(Taken, m)
  BY <1>2, <1>7, <1>8, <1>9, <1>13 DEF Quiet
<1> QED BY <1>1, <1>3, <1>14, RouterKeeps

\* A queue of accepted connections.
LEMMA OfferGood ==
    ASSUME NEW n, NEW H, Good(n, H), NEW s \in DOMAIN Sockets, "CONN_LESS" \notin Sockets[s],
           NEW c \in ConnSlots, Len(n.sock[s].q) # RxqueueLen
    PROVE  LET m == [n EXCEPT !.sock[s].q = Append(@, c), !.conn[c].dest = NULL]
           IN  Good(m, H) /\ Quiet(n, m)
<1> DEFINE m == [n EXCEPT !.sock[s].q = Append(@, c), !.conn[c].dest = NULL]
           x == [n.sock[s] EXCEPT !.q = Append(@, c)]
           y == [n.conn[c] EXCEPT !.dest = NULL]
<1>0. /\ DOMAIN n = NodeFields /\ Socks(n.sock) /\ IsSock(n.sock[s], s) /\ Conns(n.conn) /\ IsConn(n.conn[c])
      /\ n.last \in ConnSlots
  BY DEF Good, Shape, Socks, Conns
<1>2. /\ m.sock = [n.sock EXCEPT ![s] = x] /\ m.conn = [n.conn EXCEPT ![c] = y] /\ DOMAIN m = NodeFields
      /\ \A f \in NodeFields \ {"sock", "conn"} : m[f] = n[f]
  BY <1>0 DEF NodeFields
<1>3. IsSock(x, s)
  <2>1. x.q = Append(n.sock[s].q, c) /\ DOMAIN x = DOMAIN n.sock[s] /\ x.opts = n.sock[s].opts
    BY <1>0 DEF IsSock
  <2>2. IsSeq(x.q) /\ Len(x.q) <= RxqueueLen /\ Len(x.q) = Len(n.sock[s].q) + 1
    <3> HIDE DEF x
    <3> QED BY <1>0, <2>1, RoomForOne DEF IsSock
  <2>3. \A j \in 1 .. Len(x.q) : x.q[j] \in ConnSlots
    BY <1>0, <2>1, <2>2, AppendIsSeq DEF IsSock, IsSeq
  <2> QED BY <1>0, <2>1, <2>2, <2>3 DEF IsSock
<1>4. IsConn(y) /\ y.rx = n.conn[c].rx
  BY <1>0 DEF IsConn
<1> HIDE DEF x, y, m
<1>5. Socks(m.sock) /\ \A d \in DOMAIN Sockets \ {s} : m.sock[d] = n.sock[d]
  BY <1>0, <1>2, <1>3 DEF Socks
<1>6. Conns(m.conn) /\ \A d \in ConnSlots : m.conn[d].rx = n.conn[d].rx
  BY <1>0, <1>2, <1>4 DEF Conns
<1>7. /\ Same(n, m, {"qfifo", "promisc", "conn", "sock", "last"})
      /\ m.qfifo = n.qfifo /\ m.promisc = n.promisc /\ m.last = n.last
  BY <1>2 DEF Same, NodeFields
<1>8. Only(Queued(n), Queued(m), <<"none", 0>>)
  BY <1>5, <1>6, <1>7, QueuesOnly
<1>9. \A q \in QueueNames : Queued(m)[q] = Queued(n)[q]
  BY <1>8, QueueKinds DEF Only
<1>10. Accounts(Queued(m), n.free, H)
  BY <1>9, AccountsSame DEF Good
<1>11. Good(m, H) /\ Quiet(n, m)
  BY <1>0, <1>5, <1>6, <1>7, <1>10, GoodQueues DEF Good, Shape
<1> QED BY <1>11 DEF m

\* The packet leaves the hand of the router for the connection or the pool.
LEMMA DeliveredGood ==
    ASSUME NEW n, NEW H, Good(n, H), NEW c \in ConnSlots, NEW b \in H
    PROVE  Good(Delivered(n, c, b), H \ {b}) /\ Quiet(n, Delivered(n, c, b))
<1> DEFINE m == csp_conn_enqueue_packet(n, c, b)
           s == n.conn[c].dest
           G == H \ {b}
<1>1. CASE Len(n.conn[c].rx) = RxqueueLen
  BY <1>1, FreeGood DEF Delivered
<1>2. CASE Len(n.conn[c].rx) # RxqueueLen
  <2>1. Good(m, G) /\ Quiet(n, m) /\ Same(n, m, {"conn"})
    BY <1>2, EnqueueGood
  <2>2. IsConn(n.conn[c])
    BY DEF Good, Shape, Conns
  <2>3. m.sock = n.sock
    BY <2>1 DEF Same, NodeFields
  <2> DEFINE k == [m EXCEPT !.crash = TRUE]
             f == csp_close(m, c)
             q == [m EXCEPT !.sock[s].q = Append(@, c), !.conn[c].dest = NULL]
  <2>4. \/ Delivered(n, c, b) \in {m, k, f}
        \/ Delivered(n, c, b) = q /\ s # NULL /\ Len(n.sock[s].q) # RxqueueLen
    BY <1>2 DEF Delivered
  <2> HIDE DEF m, G
  <2>5. Good(f, G) /\ Quiet(m, f)
    BY <2>1, CloseGood
  <2>6. Good(k, G) /\ Quiet(m, k)
    <3>1. Same(m, k, {})
      BY <2>1 DEF Same, NodeFields, Good, Shape
    <3> HIDE DEF k
    <3> QED BY <2>1, <3>1, NeutralGood
  <2>7. ASSUME s # NULL, Len(n.sock[s].q) # RxqueueLen PROVE Good(q, G) /\ Quiet(m, q)
    <3>1. s \in DOMAIN Sockets /\ "CONN_LESS" \notin Sockets[s] /\ Len(m.sock[s].q) # RxqueueLen
      BY <2>2, <2>3, <2>7 DEF IsConn
    <3> HIDE DEF s
    <3> QED BY <2>1, <3>1, OfferGood
  <2> HIDE DEF k, f, q
  <2>8. (Good(Delivered(n, c, b), G) /\ Quiet(m, Delivered(n, c, b))) \/ Delivered(n, c, b) = m
    BY <2>4, <2>5, <2>6, <2>7
  <2> QED BY <2>1, <2>8, QuietTrans DEF G
<1> QED BY <1>1, <1>2

\* The router delivers.
LEMMA DeliverGood ==
    ASSUME Tasks(rt, srv, cli), Good(node, Hands), Deliver
    PROVE  Tasks(rt', srv', cli') /\ Held(node', rt', srv', cli') /\ Marks
<1> DEFINE m == Delivered(node, rt.c, rt.b)
<1>1. rt.pc = "deliver" /\ Becomes(m) /\ rt' = Idle /\ UNCHANGED <<srv, cli>> /\ ~Taking
  BY DEF Deliver, Taking
<1>2. rt.c \in ConnSlots /\ rt.b \in Buffers /\ rt.b # NULL /\ Each(rt, srv, cli)
  BY <1>1, NullIsNoBuffer DEF Tasks, RouterIs
<1>3. rt'.b = NULL /\ RouterIs(rt')
  BY <1>1 DEF Idle, RouterIs
<1>4. HandsOf(rt', srv, cli) = Hands \ {rt.b} /\ Each(rt', srv, cli) /\ rt.b \in Hands
  BY <1>2, <1>3, RouterGives DEF Hands
<1>5. Good(m, Hands \ {rt.b}) /\ Quiet(node, m)
  BY <1>2, <1>4, DeliveredGood
<1> HIDE DEF m
<1>6. Held(node', rt', srv, cli) /\ Quiet(m, node')
  BY <1>1, <1>4, <1>5, HeldAfter
<1>7. Marks
  BY <1>1, <1>5, <1>6 DEF Marks, Quiet
<1> QED BY <1>1, <1>3, <1>4, <1>6, <1>7 DEF Tasks

\* Every step of the router.
LEMMA RouterGood ==
    ASSUME Tasks(rt, srv, cli), Good(node, Hands), NEW txok, Router(txok)
    PROVE  Tasks(rt', srv', cli') /\ Held(node', rt', srv', cli') /\ Marks
BY RouteWakeUpGood, RouteDuplicateGood, RouteForwardGood, RouteCallbackGood, RouteConnlessGood,
   RouteRejectGood, RouteNewGood, RouteExistingGood, DeliverGood DEF Router

-----------------------------------------------------------------------------
(* The server and the sockets.                                             *)

\* A socket with connections has no packets in its queue.
LEMMA GoodSock ==
    ASSUME NEW n, NEW m, NEW H, Good(n, H), NEW s \in DOMAIN Sockets, NEW x,
           "CONN_LESS" \notin Sockets[s] \/ x.q = n.sock[s].q, IsSock(x, s), Same(n, m, {"sock"}),
           m.sock = [n.sock EXCEPT ![s] = x]
    PROVE  Good(m, H) /\ Quiet(n, m)
<1>0. Socks(n.sock)
  BY DEF Good, Shape
<1>1. Socks(m.sock) /\ m.sock[s] = x /\ \A d \in DOMAIN Sockets \ {s} : m.sock[d] = n.sock[d]
  BY <1>0 DEF Socks
<1>2. /\ Same(n, m, {"qfifo", "promisc", "conn", "sock", "last"})
      /\ m.qfifo = n.qfifo /\ m.promisc = n.promisc /\ m.last = n.last /\ m.conn = n.conn
  BY DEF Same, NodeFields
<1>3. Only(Queued(n), Queued(m), <<"none", 0>>)
  BY <1>1, <1>2, QueuesOnly
<1>4. \A q \in QueueNames : Queued(m)[q] = Queued(n)[q]
  BY <1>3, QueueKinds DEF Only
<1>5. Accounts(Queued(m), n.free, H)
  BY <1>4, AccountsSame DEF Good
<1> QED BY <1>1, <1>2, <1>5, GoodQueues DEF Good, Shape

\* A step on the port table.
LEMMA PortGood ==
    ASSUME NEW n, NEW m, NEW H, Good(n, H), Same(n, m, {"port"}), Ports(m.port)
    PROVE  Good(m, H) /\ Quiet(n, m)
<1>1. /\ m.free = n.free /\ m.errno = n.errno /\ m.last = n.last /\ m.conn = n.conn /\ m.qfifo = n.qfifo
      /\ m.buf = n.buf /\ m.sock = n.sock /\ m.promisc = n.promisc /\ m.ring = n.ring
      /\ m.ringin = n.ringin /\ m.now = n.now /\ m.mut = n.mut /\ DOMAIN m = NodeFields
  BY DEF Same, NodeFields
<1>2. Accounts(Queued(m), n.free, H)
  BY <1>1, QueuesSame, AccountsSame DEF Good
<1> QED BY <1>1, <1>2 DEF Good, Shape, Quiet

\* csp_bind.
LEMMA BindGood ==
    ASSUME NEW n, NEW H, Good(n, H), NEW s \in DOMAIN Sockets, NEW port \in 0 .. CSP_ANY
    PROVE  Good(csp_bind(n, s, port), H) /\ Quiet(n, csp_bind(n, s, port))
<1> DEFINE m == csp_bind(n, s, port)
<1>1. Same(n, m, {"port"}) /\ (m.port = n.port \/ m.port = [n.port EXCEPT ![port] = s])
  BY DEF csp_bind, Same, NodeFields, Good, Shape
<1> HIDE DEF m
<1>2. Ports(m.port)
  BY <1>1 DEF Ports, Good, Shape
<1> QED BY <1>1, <1>2, PortGood DEF m

\* csp_listen; a queue created empty must not have held a packet.
LEMMA ListenGood ==
    ASSUME NEW n, NEW H, Good(n, H), NEW s \in DOMAIN Sockets,
           "CONN_LESS" \notin Sockets[s] \/ n.sock[s].q = <<>>
    PROVE  Good(csp_listen(n, s), H) /\ Quiet(n, csp_listen(n, s))
<1> DEFINE x == [n.sock[s] EXCEPT !.listening = TRUE, !.q = <<>>]
           m == [n EXCEPT !.sock[s] = [@ EXCEPT !.listening = TRUE, !.q = <<>>]]
<1>0. DOMAIN n = NodeFields /\ IsSock(n.sock[s], s)
  BY DEF Good, Shape, Socks
<1>1. IsSock(x, s)
  <2>1. DOMAIN x = DOMAIN n.sock[s] /\ x.opts = n.sock[s].opts /\ x.q = <<>>
    BY <1>0 DEF IsSock
  <2> QED BY <1>0, <2>1, EmptyIsSeq, NodeAssumption DEF IsSock
<1>2. Same(n, m, {"sock"}) /\ m.sock = [n.sock EXCEPT ![s] = x] /\ x.q = <<>>
  BY <1>0 DEF Same, NodeFields, IsSock
<1> HIDE DEF m, x
<1>3. Good(m, H) /\ Quiet(n, m)
  BY <1>1, <1>2, GoodSock
<1> QED BY <1>3 DEF csp_listen, m

\* csp_accept.
LEMMA AcceptGood ==
    ASSUME NEW n, NEW H, Good(n, H), NEW s \in DOMAIN Sockets, "CONN_LESS" \notin Sockets[s],
           n.sock[s].q # <<>>
    PROVE  LET got == csp_accept(n, s)
           IN  Good(got.n, H) /\ Quiet(n, got.n) /\ got.c \in ConnSlots
<1> DEFINE x == [n.sock[s] EXCEPT !.q = Tail(@)]
           m == [n EXCEPT !.sock[s].q = Tail(@)]
           c == Head(n.sock[s].q)
<1>0. DOMAIN n = NodeFields /\ IsSock(n.sock[s], s)
  BY DEF Good, Shape, Socks
<1>1. c \in ConnSlots
  BY <1>0, TailIsSeq DEF IsSock, IsSeq
<1>2. IsSock(x, s)
  <2>1. DOMAIN x = DOMAIN n.sock[s] /\ x.opts = n.sock[s].opts /\ x.q = Tail(n.sock[s].q)
    BY <1>0 DEF IsSock
  <2>2. /\ IsSeq(x.q) /\ Len(x.q) = Len(n.sock[s].q) - 1 /\ Len(n.sock[s].q) \in Nat /\ Len(x.q) \in Nat
        /\ \A i \in 1 .. Len(n.sock[s].q) - 1 : x.q[i] = n.sock[s].q[i + 1]
    BY <1>0, <2>1, TailIsSeq DEF IsSock, IsSeq
  <2>3. \A j \in 1 .. Len(x.q) : x.q[j] \in ConnSlots
    BY <1>0, <2>2 DEF IsSock
  <2>4. Len(x.q) <= RxqueueLen
    BY <1>0, <2>2, NodeAssumption DEF IsSock
  <2> QED BY <1>0, <2>1, <2>2, <2>3, <2>4 DEF IsSock
<1>3. Same(n, m, {"sock"}) /\ m.sock = [n.sock EXCEPT ![s] = x]
  BY <1>0 DEF Same, NodeFields
<1>4. csp_accept(n, s) = [c |-> c, n |-> m]
  BY DEF csp_accept
<1> HIDE DEF m, x, c
<1>5. Good(m, H) /\ Quiet(n, m)
  BY <1>2, <1>3, GoodSock
<1> QED BY <1>1, <1>4, <1>5

\* Without a mutant the probes leave an identifier as it is.
LEMMA ProbedIs ==
    ASSUME NEW probe, probe # "none", NEW id
    PROVE  Probed(NoMutant, probe, id) = id
BY DEF Probed, NoMutant

\* csp_read when it is called: without a mutant the probe changes nothing.
LEMMA CallReadGood ==
    ASSUME NEW n, NEW H, Good(n, H), NEW c \in ConnSlots
    PROVE  Good(CallRead(n, c), H) /\ Quiet(n, CallRead(n, c))
<1> DEFINE m == CallRead(n, c)
           x == [n.conn[c] EXCEPT !.idin = n.conn[c].idin]
<1>0. DOMAIN n = NodeFields /\ IsConn(n.conn[c]) /\ n.last \in ConnSlots /\ n.mut = NoMutant
  BY DEF Good, Shape, Conns
<1>1. m = [n EXCEPT !.conn[c].idin = n.conn[c].idin]
  BY <1>0, ProbedIs DEF CallRead
<1>2. IsConn(x) /\ x.rx = n.conn[c].rx
  BY <1>0 DEF IsConn
<1>3. m.conn = [n.conn EXCEPT ![c] = x] /\ Same(n, m, {"conn", "last"}) /\ m.last = n.last
  BY <1>0, <1>1 DEF Same, NodeFields
<1> HIDE DEF m, x
<1>4. Good(m, H) /\ Quiet(n, m)
  BY <1>0, <1>2, <1>3, GoodConn
<1> QED BY <1>4 DEF m

\* A step of the server that moves no packet to or from it.
LEMMA ServerSame ==
    ASSUME Tasks(rt, srv, cli), NEW m, Good(m, Hands), Quiet(node, m), Becomes(m), UNCHANGED <<rt, cli>>,
           ServerIs(srv'), srv'.b = srv.b
    PROVE  Tasks(rt', srv', cli') /\ Held(node', rt', srv', cli') /\ Quiet(node, node')
<1>1. HandsOf(rt, srv', cli) = Hands /\ Each(rt, srv', cli)
  BY HandsSame DEF Hands, Tasks
<1>2. Held(node', rt, srv', cli) /\ Quiet(m, node')
  BY <1>1, HeldAfter
<1> QED BY <1>1, <1>2, QuietTrans DEF Tasks

\* Every step of the server.
LEMMA ServerGood ==
    ASSUME Tasks(rt, srv, cli), Good(node, Hands), NEW txok, Server(txok)
    PROVE  Tasks(rt', srv', cli') /\ Held(node', rt', srv', cli') /\ Quiet(node, node')
<1>0. ServerIs(srv) /\ 1 \in DOMAIN Sockets /\ "CONN_LESS" \notin Sockets[1] /\ CSP_ANY \in 0 .. CSP_ANY
  BY NetAssumption DEF Tasks, CSP_ANY
<1>1. CASE ServerBind
  <2>1. Good(csp_bind(node, 1, CSP_ANY), Hands) /\ Quiet(node, csp_bind(node, 1, CSP_ANY))
    BY <1>0, BindGood
  <2>2. ServerIs(srv') /\ srv'.b = srv.b
    BY <1>0, <1>1 DEF ServerBind, ServerIs
  <2> QED BY <1>1, <2>1, <2>2, ServerSame DEF ServerBind
<1>2. CASE ServerListen
  <2>1. Good(csp_listen(node, 1), Hands) /\ Quiet(node, csp_listen(node, 1))
    BY <1>0, ListenGood
  <2>2. ServerIs(srv') /\ srv'.b = srv.b
    BY <1>0, <1>2 DEF ServerListen, ServerIs
  <2> QED BY <1>2, <2>1, <2>2, ServerSame DEF ServerListen
<1>3. CASE ServerAccept
  <2> DEFINE got == csp_accept(node, 1)
  <2>1. Good(got.n, Hands) /\ Quiet(node, got.n) /\ got.c \in ConnSlots
    BY <1>0, <1>3, AcceptGood DEF ServerAccept
  <2>2. Becomes(got.n) /\ srv' = [srv EXCEPT !.pc = "call_read", !.c = got.c] /\ UNCHANGED <<rt, cli>>
        /\ srv.pc = "accept"
    BY <1>3 DEF ServerAccept
  <2> HIDE DEF got
  <2>3. ServerIs(srv') /\ srv'.b = srv.b
    BY <1>0, <2>1, <2>2 DEF ServerIs
  <2> QED BY <2>1, <2>2, <2>3, ServerSame
<1>4. CASE ServerCallRead
  <2>0. srv.c \in ConnSlots
    BY <1>0, <1>4 DEF ServerCallRead, ServerIs
  <2>1. Good(CallRead(node, srv.c), Hands) /\ Quiet(node, CallRead(node, srv.c))
    BY <2>0, CallReadGood
  <2>2. ServerIs(srv') /\ srv'.b = srv.b
    BY <1>0, <1>4 DEF ServerCallRead, ServerIs
  <2> QED BY <1>4, <2>1, <2>2, ServerSame DEF ServerCallRead
<1>5. CASE ServerRead
  <2> DEFINE got == csp_read(node, srv.c)
  <2>0. srv.c \in ConnSlots /\ srv.b = NULL /\ node.conn[srv.c].rx # <<>>
    BY <1>0, <1>5 DEF ServerRead, ServerIs
  <2>1. /\ got.b \in Buffers /\ got.b \notin Hands /\ got.b # NULL /\ Good(got.n, Hands \cup {got.b})
        /\ Quiet(node, got.n)
    BY <2>0, ReadGood
  <2>2. Becomes(got.n) /\ srv' = [srv EXCEPT !.pc = "handle", !.b = got.b] /\ UNCHANGED <<rt, cli>>
    BY <1>5 DEF ServerRead
  <2> HIDE DEF got
  <2>3. ServerIs(srv') /\ srv'.b = got.b
    BY <1>0, <2>0, <2>1, <2>2 DEF ServerIs
  <2>4. HandsOf(rt, srv', cli) = Hands \cup {got.b} /\ Each(rt, srv', cli)
    BY <2>0, <2>1, <2>3, ServerTakes DEF Hands, Tasks
  <2>5. Held(node', rt, srv', cli) /\ Quiet(got.n, node')
    BY <2>1, <2>2, <2>4, HeldAfter
  <2> QED BY <2>1, <2>2, <2>3, <2>4, <2>5, QuietTrans DEF Tasks
<1>6. CASE ServerHandle(txok)
  <2> DEFINE f == csp_buffer_free(node, srv.b)
             h == csp_service_handler(node, srv.b, txok)
             m == IF node.conn[srv.c].idin.dport = ServerPort THEN f ELSE h
  <2>0. srv.c \in ConnSlots /\ srv.b \in Buffers /\ srv.b # NULL
    BY <1>0, <1>6, NullIsNoBuffer DEF ServerHandle, ServerIs
  <2>1. Becomes(m) /\ srv' = [srv EXCEPT !.pc = "call_read", !.b = NULL] /\ UNCHANGED <<rt, cli>>
    BY <1>6 DEF ServerHandle
  <2>2. ServerIs(srv') /\ srv'.b = NULL
    BY <1>0, <2>0, <2>1 DEF ServerIs
  <2>3. HandsOf(rt, srv', cli) = Hands \ {srv.b} /\ Each(rt, srv', cli) /\ srv.b \in Hands
    BY <2>0, <2>2, ServerGives DEF Hands, Tasks
  <2>4. Good(f, Hands \ {srv.b}) /\ Quiet(node, f)
    BY <2>3, FreeGood
  <2>5. Good(h, Hands \ {srv.b}) /\ Quiet(node, h)
    BY <2>3, ServiceGood
  <2> HIDE DEF f, h
  <2>6. Good(m, Hands \ {srv.b}) /\ Quiet(node, m)
    BY <2>4, <2>5
  <2> HIDE DEF m
  <2>7. Held(node', rt, srv', cli) /\ Quiet(m, node')
    BY <2>1, <2>3, <2>6, HeldAfter
  <2> QED BY <2>1, <2>2, <2>3, <2>6, <2>7, QuietTrans DEF Tasks
<1>7. CASE ServerTimeout
  <2>0. srv.c \in ConnSlots
    BY <1>0, <1>7 DEF ServerTimeout, ServerIs
  <2>1. Good(csp_close(node, srv.c), Hands) /\ Quiet(node, csp_close(node, srv.c))
    BY <2>0, CloseGood
  <2>2. ServerIs(srv') /\ srv'.b = srv.b
    BY <1>0, <1>7 DEF ServerTimeout, ServerIs
  <2> QED BY <1>7, <2>1, <2>2, ServerSame DEF ServerTimeout
<1> QED BY <1>1, <1>2, <1>3, <1>4, <1>5, <1>6, <1>7 DEF Server

\* Only client t does something.
OnlyClient(t) ==
    /\ UNCHANGED <<rt, srv>> /\ DOMAIN cli' = Clients /\ ClientIs(cli'[t])
    /\ \A u \in Clients \ {t} : cli'[u] = cli[u]

-----------------------------------------------------------------------------
(* The clients.                                                            *)

\* A step of one client keeps the types of all.
LEMMA ClientTasks ==
    ASSUME Tasks(rt, srv, cli), NEW t \in Clients, OnlyClient(t), Each(rt, srv, cli')
    PROVE  Tasks(rt', srv', cli')
BY DEF Tasks, OnlyClient

\* A step of a client that moves no packet to or from it.
LEMMA ClientSame ==
    ASSUME Tasks(rt, srv, cli), NEW m, Good(m, Hands), Quiet(node, m), Becomes(m), NEW t \in Clients,
           OnlyClient(t), cli'[t].b = cli[t].b
    PROVE  Tasks(rt', srv', cli') /\ Held(node', rt', srv', cli') /\ Quiet(node, node')
<1>1. HandsOf(rt, srv, cli') = Hands /\ Each(rt, srv, cli')
  BY HandsSame DEF Hands, Tasks, OnlyClient
<1>2. Held(node', rt, srv, cli') /\ Quiet(m, node')
  BY <1>1, HeldAfter
<1> QED BY <1>1, <1>2, QuietTrans, ClientTasks DEF OnlyClient

\* A client that does nothing to the node.
LEMMA ClientAlone ==
    ASSUME Tasks(rt, srv, cli), Good(node, Hands), UNCHANGED node, NEW t \in Clients,
           OnlyClient(t), cli'[t].b = cli[t].b
    PROVE  Tasks(rt', srv', cli') /\ Held(node', rt', srv', cli') /\ Quiet(node, node')
<1>1. HandsOf(rt, srv, cli') = Hands /\ Each(rt, srv, cli')
  BY HandsSame DEF Hands, Tasks, OnlyClient
<1>2. Hands \in SUBSET Buffers
  BY DEF Good, Accounts
<1>3. Held(node', rt, srv, cli')
  BY <1>1, <1>2 DEF Held
<1> QED BY <1>1, <1>3, ClientTasks DEF OnlyClient, Quiet

\* A call begins, with its buffer if it is taken early.
LEMMA ClientCallGood ==
    ASSUME Tasks(rt, srv, cli), Good(node, Hands), NEW t \in Clients, NEW call, NEW dest,
           call.dport \in Nat \ {CSP_PS}, call.early \in BOOLEAN, ClientCall(t, call, dest)
    PROVE  Tasks(rt', srv', cli') /\ Held(node', rt', srv', cli') /\ Quiet(node, node')
<1> DEFINE got == csp_buffer_get(node, call.out)
           x == [pc |-> IF got.b = NULL THEN "idle" ELSE "connect", c |-> NULL, b |-> got.b,
                 call |-> call, dest |-> dest]
           y == [pc |-> "connect", c |-> NULL, b |-> NULL, call |-> call, dest |-> dest]
<1>0. /\ DOMAIN cli = Clients /\ cli[t].b = NULL /\ UNCHANGED <<rt, srv>>
      /\ IF call.early THEN Becomes(got.n) /\ cli' = [cli EXCEPT ![t] = x]
         ELSE cli' = [cli EXCEPT ![t] = y] /\ UNCHANGED node
  BY DEF Tasks, ClientIs, ClientCall, ClientStep
<1>1. \/ got.b = NULL /\ got.n = node
      \/ /\ got.b \in Buffers \ Hands /\ got.b # NULL /\ Good(got.n, Hands \cup {got.b})
         /\ Quiet(node, got.n)
  BY GetGood
<1> HIDE DEF got
<1>2. CASE ~call.early
  <2>1. OnlyClient(t) /\ cli'[t].b = NULL
    BY <1>0, <1>2 DEF OnlyClient, ClientIs
  <2> QED BY <1>0, <1>2, <2>1, ClientAlone
<1>3. CASE call.early /\ got.b = NULL
  <2>0. cli' = [cli EXCEPT ![t] = x] /\ Becomes(got.n)
    BY <1>0, <1>3
  <2>1. x.pc = "idle" /\ x.b = NULL /\ ClientIs(x)
    BY <1>3 DEF ClientIs
  <2> HIDE DEF x
  <2>2. OnlyClient(t) /\ cli'[t].b = NULL
    BY <1>0, <2>0, <2>1 DEF OnlyClient
  <2>3. Good(got.n, Hands) /\ Quiet(node, got.n)
    BY <1>1, <1>3 DEF Quiet
  <2> QED BY <1>0, <2>0, <2>2, <2>3, ClientSame
<1>4. CASE call.early /\ got.b # NULL
  <2>0. cli' = [cli EXCEPT ![t] = x] /\ Becomes(got.n)
    BY <1>0, <1>4
  <2>10. x.b = got.b /\ ClientIs(x)
    BY <1>1, <1>4 DEF ClientIs
  <2> HIDE DEF x
  <2>1. OnlyClient(t) /\ cli'[t].b = got.b
    BY <1>0, <2>0, <2>10 DEF OnlyClient
  <2>2. HandsOf(rt, srv, cli') = Hands \cup {got.b} /\ Each(rt, srv, cli')
    <3>1. Each(rt, srv, cli) /\ cli[t].b = NULL /\ cli'[t].b # NULL /\ cli'[t].b \notin HandsOf(rt, srv, cli)
      BY <1>0, <1>1, <1>4, <2>1 DEF Hands, Tasks
    <3>2. \A u \in Clients \ {t} : cli'[u].b = cli[u].b
      BY <2>1 DEF OnlyClient
    <3>3. HandsOf(rt, srv, cli') = HandsOf(rt, srv, cli) \cup {cli'[t].b} /\ Each(rt, srv, cli')
      BY <3>1, <3>2, ClientTakes
    <3> QED BY <2>1, <3>3 DEF Hands
  <2>3. Held(node', rt, srv, cli') /\ Quiet(got.n, node')
    BY <1>0, <1>1, <1>4, <2>2, HeldAfter
  <2> QED BY <1>0, <1>1, <1>4, <2>1, <2>2, <2>3, QuietTrans, ClientTasks
<1> QED BY <1>2, <1>3, <1>4

\* A client takes a slot, or gives up and frees its buffer.
LEMMA ClientAllocateGood ==
    ASSUME Tasks(rt, srv, cli), Good(node, Hands), NEW t \in Clients, ClientAllocate(t)
    PROVE  Tasks(rt', srv', cli') /\ Held(node', rt', srv', cli') /\ Quiet(node, node')
<1> DEFINE c == NextClosed(node)
<1>0. /\ DOMAIN cli = Clients /\ ClientIs(cli[t]) /\ cli[t].pc = "connect" /\ UNCHANGED <<rt, srv>>
      /\ IF c = NULL
         THEN /\ Becomes(csp_buffer_free(node, cli[t].b))
              /\ cli' = [cli EXCEPT ![t].pc = "failed", ![t].b = NULL]
         ELSE /\ Becomes(csp_conn_allocate(node, c))
              /\ cli' = [cli EXCEPT ![t].pc = "new", ![t].c = c]
  BY DEF Tasks, ClientAllocate, ClientStep
<1>1. c \in ConnSlots \cup {NULL}
  BY NextClosedIs DEF Good, Shape
<1> HIDE DEF c
<1>2. CASE c # NULL
  <2>1. cli' = [cli EXCEPT ![t].pc = "new", ![t].c = c] /\ Becomes(csp_conn_allocate(node, c))
    BY <1>0, <1>2
  <2>2. OnlyClient(t) /\ cli'[t].b = cli[t].b
    BY <1>0, <1>1, <1>2, <2>1 DEF OnlyClient, ClientIs
  <2>3. Good(csp_conn_allocate(node, c), Hands) /\ Quiet(node, csp_conn_allocate(node, c))
    BY <1>1, <1>2, AllocateGood
  <2> QED BY <2>1, <2>2, <2>3, ClientSame
<1>3. CASE c = NULL
  <2> DEFINE b == cli[t].b
             m == csp_buffer_free(node, b)
  <2>1. cli' = [cli EXCEPT ![t].pc = "failed", ![t].b = NULL] /\ Becomes(m)
    BY <1>0, <1>3
  <2>2. OnlyClient(t) /\ cli'[t].b = NULL
    BY <1>0, <2>1 DEF OnlyClient, ClientIs
  <2>3. CASE b = NULL
    <3>1. m = node
      BY <2>3 DEF csp_buffer_free
    <3> QED BY <2>1, <2>2, <2>3, <3>1, ClientSame DEF Quiet
  <2>4. CASE b # NULL
    <3>1. HandsOf(rt, srv, cli') = Hands \ {b} /\ Each(rt, srv, cli') /\ b \in Hands
      BY <2>2, <2>4, ClientGives DEF Hands, Tasks, OnlyClient
    <3>2. Good(m, Hands \ {b}) /\ Quiet(node, m)
      BY <3>1, FreeGood
    <3> HIDE DEF m, b
    <3>3. Held(node', rt, srv, cli') /\ Quiet(m, node')
      BY <2>1, <3>1, <3>2, HeldAfter
    <3> QED BY <1>0, <2>2, <3>1, <3>2, <3>3, QuietTrans, ClientTasks
  <2> QED BY <2>3, <2>4
<1> QED BY <1>2, <1>3

\* A client goes on with csp_conn_new.
LEMMA ClientNewGood ==
    ASSUME PsUnused, Tasks(rt, srv, cli), Good(node, Hands), NEW t \in Clients, ClientNew(t)
    PROVE  Tasks(rt', srv', cli') /\ Held(node', rt', srv', cli') /\ Quiet(node, node')
<1> DEFINE k == cli[t].call
           idin(g) == ConnectIdin(k.prio, cli[t].dest, k.dport, k.flags, g)
           idout(g) == ConnectIdout(k.prio, cli[t].dest, k.dport, k.flags, g)
           m(g) == csp_conn_new(node, cli[t].c, idin(g), idout(g), "client")
<1>1. PICK g \in Garbage : Becomes(m(g))
  BY DEF ClientNew
<1>2. DOMAIN cli = Clients /\ ClientIs(cli[t]) /\ cli[t].pc = "new" /\ GoTo(t, "ports") /\ UNCHANGED <<rt, srv>>
  BY DEF Tasks, ClientNew, ClientStep
<1>3. cli[t].c \in ConnSlots /\ k.dport \in Nat \ {CSP_PS} /\ g \in Nat \ {CSP_PS}
  BY <1>2, NetAssumption DEF ClientIs, PsUnused
<1>4. IsId(idin(g)) /\ IsId(idout(g))
  BY <1>3 DEF IsId, ConnectIdin, ConnectIdout
<1>5. OnlyClient(t) /\ cli'[t].b = cli[t].b
  BY <1>2 DEF OnlyClient, ClientIs, GoTo
<1> HIDE DEF idin, idout
<1>6. Good(m(g), Hands) /\ Quiet(node, m(g))
  BY <1>3, <1>4, ConnNewGood
<1> HIDE DEF m
<1> QED BY <1>1, <1>5, <1>6, ClientSame

\* A client ends csp_connect.
LEMMA ClientPortsGood ==
    ASSUME Tasks(rt, srv, cli), Good(node, Hands), NEW t \in Clients, ClientPorts(t)
    PROVE  Tasks(rt', srv', cli') /\ Held(node', rt', srv', cli') /\ Quiet(node, node')
<1> DEFINE m == csp_connect(node, cli[t].c, Required(cli[t].call.flags))
<1>1. /\ DOMAIN cli = Clients /\ ClientIs(cli[t]) /\ cli[t].pc = "ports" /\ GoTo(t, "send")
      /\ UNCHANGED <<rt, srv>> /\ Becomes(m)
  BY DEF Tasks, ClientPorts, ClientStep
<1>2. Good(m, Hands) /\ Quiet(node, m)
  BY <1>1, ConnectGood DEF ClientIs
<1>3. OnlyClient(t) /\ cli'[t].b = cli[t].b
  BY <1>1 DEF OnlyClient, ClientIs, GoTo
<1> HIDE DEF m
<1> QED BY <1>1, <1>2, <1>3, ClientSame

\* A client calls csp_read.
LEMMA ClientCallReadGood ==
    ASSUME Tasks(rt, srv, cli), Good(node, Hands), NEW t \in Clients, ClientCallRead(t)
    PROVE  Tasks(rt', srv', cli') /\ Held(node', rt', srv', cli') /\ Quiet(node, node')
<1> DEFINE m == CallRead(node, cli[t].c)
<1>1. /\ DOMAIN cli = Clients /\ ClientIs(cli[t]) /\ cli[t].pc = "call_read" /\ GoTo(t, "read")
      /\ UNCHANGED <<rt, srv>> /\ Becomes(m)
  BY DEF Tasks, ClientCallRead, ClientStep
<1>2. Good(m, Hands) /\ Quiet(node, m)
  BY <1>1, CallReadGood DEF ClientIs
<1>3. OnlyClient(t) /\ cli'[t].b = cli[t].b
  BY <1>1 DEF OnlyClient, ClientIs, GoTo
<1> HIDE DEF m
<1> QED BY <1>1, <1>2, <1>3, ClientSame

\* A client reads a reply and frees it.
LEMMA ClientReadGood ==
    ASSUME Tasks(rt, srv, cli), Good(node, Hands), NEW t \in Clients, ClientRead(t)
    PROVE  Tasks(rt', srv', cli') /\ Held(node', rt', srv', cli') /\ Quiet(node, node')
<1> DEFINE got == csp_read(node, cli[t].c)
           m == csp_buffer_free(got.n, got.b)
           pc == IF cli[t].call.all THEN "call_read" ELSE "close"
<1>1. /\ DOMAIN cli = Clients /\ ClientIs(cli[t]) /\ cli[t].pc = "read" /\ GoTo(t, pc)
      /\ UNCHANGED <<rt, srv>> /\ Becomes(m) /\ node.conn[cli[t].c].rx # <<>>
  BY DEF Tasks, ClientRead, ClientStep
<1>2. cli[t].c \in ConnSlots
  BY <1>1 DEF ClientIs
<1>3. /\ got.b \notin Hands /\ Good(got.n, Hands \cup {got.b}) /\ Quiet(node, got.n)
  BY <1>1, <1>2, ReadGood
<1> DEFINE G == Hands \cup {got.b}
<1>4. G \ {got.b} = Hands /\ got.b \in G
  BY <1>3
<1> HIDE DEF got, G
<1>5. Good(m, G \ {got.b}) /\ Quiet(got.n, m)
  BY <1>3, <1>4, FreeGood DEF G
<1>6. Good(m, Hands) /\ Quiet(node, m)
  BY <1>3, <1>4, <1>5, QuietTrans
<1>7. pc \in {"call_read", "close"}
  OBVIOUS
<1> HIDE DEF m, pc
<1>8. OnlyClient(t) /\ cli'[t].b = cli[t].b
  BY <1>1, <1>7 DEF OnlyClient, ClientIs, GoTo
<1> QED BY <1>1, <1>6, <1>8, ClientSame

\* A client stops waiting.
LEMMA ClientTimeoutGood ==
    ASSUME Tasks(rt, srv, cli), Good(node, Hands), NEW t \in Clients, ClientTimeout(t)
    PROVE  Tasks(rt', srv', cli') /\ Held(node', rt', srv', cli') /\ Quiet(node, node')
<1>1. /\ DOMAIN cli = Clients /\ ClientIs(cli[t]) /\ cli[t].pc = "read" /\ GoTo(t, "close")
      /\ UNCHANGED <<node, rt, srv>>
  BY DEF Tasks, ClientTimeout, ClientStep
<1>2. OnlyClient(t) /\ cli'[t].b = cli[t].b
  BY <1>1 DEF OnlyClient, ClientIs, GoTo
<1> QED BY <1>1, <1>2, ClientAlone

\* A client closes its connection.
LEMMA ClientCloseGood ==
    ASSUME Tasks(rt, srv, cli), Good(node, Hands), NEW t \in Clients, ClientClose(t)
    PROVE  Tasks(rt', srv', cli') /\ Held(node', rt', srv', cli') /\ Quiet(node, node')
<1> DEFINE m == csp_close(node, cli[t].c)
<1>1. /\ DOMAIN cli = Clients /\ ClientIs(cli[t]) /\ cli[t].pc = "close"
      /\ cli' = [cli EXCEPT ![t].pc = "idle", ![t].c = NULL] /\ UNCHANGED <<rt, srv>> /\ Becomes(m)
  BY DEF Tasks, ClientClose, ClientStep
<1>2. Good(m, Hands) /\ Quiet(node, m)
  BY <1>1, CloseGood DEF ClientIs
<1>3. OnlyClient(t) /\ cli'[t].b = cli[t].b
  BY <1>1 DEF OnlyClient, ClientIs
<1> HIDE DEF m
<1> QED BY <1>1, <1>2, <1>3, ClientSame

\* csp_send takes the packet.
LEMMA SendGood ==
    ASSUME NEW n, NEW H, Good(n, H), NEW c \in ConnSlots, NEW b \in H, NEW txok
    PROVE  Good(csp_send(n, c, b, txok), H \ {b}) /\ Quiet(n, csp_send(n, c, b, txok))
<1> DEFINE m == [n EXCEPT !.conn[c].idout = Probed(n.mut, "send", @)]
           x == [n.conn[c] EXCEPT !.idout = n.conn[c].idout]
           f == csp_buffer_free(m, b)
           s == csp_send_direct(m, m.conn[c].idout, b, NoIface, txok)
<1>0. DOMAIN n = NodeFields /\ IsConn(n.conn[c]) /\ n.last \in ConnSlots /\ n.mut = NoMutant
  BY DEF Good, Shape, Conns
<1>1. csp_send(n, c, b, txok) \in {f, s}
  BY DEF csp_send
<1>2. m = [n EXCEPT !.conn[c].idout = n.conn[c].idout]
  BY <1>0, ProbedIs
<1>3. IsConn(x) /\ x.rx = n.conn[c].rx
  BY <1>0 DEF IsConn
<1>4. m.conn = [n.conn EXCEPT ![c] = x] /\ Same(n, m, {"conn", "last"}) /\ m.last = n.last
  BY <1>0, <1>2 DEF Same, NodeFields
<1> HIDE DEF m, x
<1>5. Good(m, H) /\ Quiet(n, m)
  BY <1>0, <1>3, <1>4, GoodConn
<1>6. IsId(m.conn[c].idout)
  BY <1>5 DEF Good, Shape, Conns, IsConn
<1>7. Good(f, H \ {b}) /\ Quiet(m, f)
  BY <1>5, FreeGood
<1>8. Good(s, H \ {b}) /\ Quiet(m, s)
  BY <1>5, <1>6, SendDirectGood
<1> HIDE DEF f, s
<1> QED BY <1>1, <1>5, <1>7, <1>8, QuietTrans

\* A packet is written into a buffer.
LEMMA FilledGood ==
    ASSUME NEW n, NEW H, Good(n, H), NEW b \in H, NEW p, IsId(p.id)
    PROVE  LET m == [n EXCEPT !.buf[b] = Buffer(p, 1)]
           IN  Good(m, H) /\ Quiet(n, m)
<1> DEFINE m == [n EXCEPT !.buf[b] = Buffer(p, 1)]
<1>1. IsBuffer(Buffer(p, 1)) /\ Buffer(p, 1).ref = 1
  BY DEF IsBuffer, Buffer
<1>2. m.buf = [n.buf EXCEPT ![b] = Buffer(p, 1)] /\ Same(n, m, {"buf"})
  BY HeldIs DEF Same, NodeFields
<1> HIDE DEF m
<1>3. Good(m, H) /\ Quiet(n, m)
  BY <1>1, <1>2, PutGood
<1> QED BY <1>3 DEF m

\* A client sends: its own buffer or one it takes, and its hand is empty.
LEMMA ClientSendGood ==
    ASSUME Tasks(rt, srv, cli), Good(node, Hands), NEW t \in Clients, NEW txok, ClientSend(t, txok)
    PROVE  Tasks(rt', srv', cli') /\ Held(node', rt', srv', cli') /\ Quiet(node, node')
<1> DEFINE k    == cli[t].call
           size == IF k.in > k.out THEN k.in ELSE k.out
           get  == csp_buffer_get(node, size)
           got  == IF k.early THEN [n |-> node, b |-> cli[t].b] ELSE get
           p    == Packet(NoId, k.data, k.out)
           full == [got.n EXCEPT !.buf[got.b] = Buffer(p, 1)]
           m    == csp_send(full, cli[t].c, got.b, txok)
           pc   == IF k.dport = ServerPort THEN "failed" ELSE "close"
<1>0. /\ DOMAIN cli = Clients /\ ClientIs(cli[t]) /\ cli[t].pc = "send" /\ UNCHANGED <<rt, srv>>
      /\ IF got.b = NULL THEN GoTo(t, pc) /\ UNCHANGED node
         ELSE Becomes(m) /\ cli' = [cli EXCEPT ![t].pc = AfterSend(k.in), ![t].b = NULL]
  BY DEF Tasks, ClientSend, ClientStep
<1>1. /\ cli[t].c \in ConnSlots /\ k.early \in BOOLEAN /\ Each(rt, srv, cli)
      /\ IF k.early THEN cli[t].b \in Buffers ELSE cli[t].b = NULL
  BY <1>0 DEF ClientIs, Tasks
<1>2. \/ get.b = NULL /\ get.n = node
      \/ /\ get.b \in Buffers \ Hands /\ get.b # NULL /\ Good(get.n, Hands \cup {get.b})
         /\ Quiet(node, get.n)
  BY GetGood
<1> HIDE DEF get
<1>3. CASE got.b = NULL
  <2>1. ~k.early /\ GoTo(t, pc) /\ UNCHANGED node
    BY <1>0, <1>1, <1>3, NullIsNoBuffer
  <2>2. cli[t].b = NULL /\ pc \in {"failed", "close"}
    BY <1>1, <2>1
  <2> HIDE DEF pc
  <2>3. OnlyClient(t) /\ cli'[t].b = cli[t].b
    BY <1>0, <1>1, <2>1, <2>2 DEF OnlyClient, ClientIs, GoTo
  <2> QED BY <2>1, <2>3, ClientAlone
<1>4. CASE got.b # NULL
  <2>1. Becomes(m) /\ cli' = [cli EXCEPT ![t].pc = AfterSend(k.in), ![t].b = NULL]
    BY <1>0, <1>4
  <2>2. AfterSend(k.in) \in {"close", "call_read"}
    BY DEF AfterSend
  <2>3. OnlyClient(t) /\ cli'[t].b = NULL
    BY <1>0, <1>1, <2>1, <2>2 DEF OnlyClient, ClientIs
  <2>4. \E G : /\ Good(got.n, G) /\ got.b \in G /\ G \ {got.b} = HandsOf(rt, srv, cli')
               /\ Each(rt, srv, cli') /\ Quiet(node, got.n)
    <3>1. CASE k.early
      <4>1. got.n = node /\ got.b = cli[t].b
        BY <3>1
      <4>2. HandsOf(rt, srv, cli') = Hands \ {cli[t].b} /\ Each(rt, srv, cli') /\ cli[t].b \in Hands
        BY <1>1, <1>4, <2>3, <4>1, ClientGives DEF Hands, OnlyClient
      <4> QED BY <4>1, <4>2 DEF Quiet
    <3>2. CASE ~k.early
      <4>1. got = get /\ cli[t].b = NULL
        BY <1>1, <3>2
      <4>2. HandsOf(rt, srv, cli') = Hands /\ Each(rt, srv, cli')
        BY <1>1, <2>3, <4>1, HandsSame DEF Hands, OnlyClient
      <4>3. /\ get.b \notin Hands /\ Good(get.n, Hands \cup {get.b}) /\ Quiet(node, get.n)
        BY <1>2, <1>4, <4>1
      <4>4. (Hands \cup {get.b}) \ {get.b} = Hands
        BY <4>3
      <4> QED BY <4>1, <4>2, <4>3, <4>4
    <3> QED BY <1>1, <3>1, <3>2
  <2>5. PICK G : /\ Good(got.n, G) /\ got.b \in G /\ G \ {got.b} = HandsOf(rt, srv, cli')
                 /\ Each(rt, srv, cli') /\ Quiet(node, got.n)
    BY <2>4
  <2>6. IsId(p.id)
    BY DEF Packet, NoId, IsId, CSP_PS
  <2> HIDE DEF got, p
  <2>7. Good(full, G) /\ Quiet(got.n, full)
    BY <2>5, <2>6, FilledGood
  <2> HIDE DEF full
  <2>8. Good(m, G \ {got.b}) /\ Quiet(full, m)
    BY <1>1, <2>5, <2>7, SendGood
  <2> HIDE DEF m
  <2>9. Held(node', rt, srv, cli') /\ Quiet(m, node')
    BY <2>1, <2>5, <2>8, HeldAfter
  <2>10. Quiet(node, node')
    BY <2>5, <2>7, <2>8, <2>9 DEF Quiet
  <2> QED BY <1>0, <2>3, <2>5, <2>9, <2>10, ClientTasks
<1> QED BY <1>3, <1>4

-----------------------------------------------------------------------------
(* Drivers, clock, bridge and the readers of two queues.                   *)

\* A step of the surroundings.
LEMMA OutsideGood ==
    ASSUME Tasks(rt, srv, cli), NEW m, Good(m, Hands), Becomes(m), UNCHANGED <<rt, srv, cli>>
    PROVE  Tasks(rt', srv', cli') /\ Held(node', rt', srv', cli') /\ Quiet(m, node')
BY HeldAfter DEF Hands

\* The interrupt of a driver: from the pool to the input queue.
LEMMA ReceiveGood ==
    ASSUME PsUnused, scene \in Scenes, Tasks(rt, srv, cli), Good(node, Hands), Receive
    PROVE  Tasks(rt', srv', cli') /\ Held(node', rt', srv', cli') /\ Quiet(node, node')
<1> DEFINE got(x) == csp_buffer_get_isr(node, x.p.len)
           full(x) == [got(x).n EXCEPT !.buf[got(x).b] = Buffer(x.p, 1)]
           w(x) == csp_qfifo_write_isr(full(x), got(x).b, x.i)
           m(x) == IF got(x).b = NULL THEN node ELSE w(x)
<1>1. PICK x \in scene.traffic : Becomes(m(x))
  BY DEF Receive
<1>2. IsId(x.p.id)
  <2>1. x.p.id \in [pri : Nat, src : Nat, dst : Nat, dport : Nat, sport : Nat, flags : SUBSET STRING]
    BY NetAssumption
  <2>2. CSP_PS \notin {x.p.id.dport, x.p.id.sport}
    BY DEF PsUnused
  <2> QED BY <2>1, <2>2 DEF IsId
<1>3. \/ got(x).b = NULL /\ got(x).n = node
      \/ /\ got(x).b \in Buffers \ Hands /\ got(x).b # NULL /\ Good(got(x).n, Hands \cup {got(x).b})
         /\ Quiet(node, got(x).n)
  BY GetGood DEF csp_buffer_get_isr
<1> HIDE DEF got
<1>4. Good(m(x), Hands) /\ Quiet(node, m(x))
  <2>1. CASE got(x).b = NULL
    BY <2>1 DEF Quiet
  <2>2. CASE got(x).b # NULL
    <3> DEFINE b == got(x).b
               G == Hands \cup {b}
    <3>1. Good(got(x).n, G) /\ b \in G /\ G \ {b} = Hands /\ Quiet(node, got(x).n)
      BY <1>3, <2>2
    <3> HIDE DEF b, G
    <3>2. Good(full(x), G) /\ Quiet(got(x).n, full(x))
      BY <1>2, <3>1, FilledGood DEF b
    <3> HIDE DEF full
    <3>3. Good(csp_qfifo_write_isr(full(x), b, x.i), G \ {b}) /\ Quiet(full(x), csp_qfifo_write_isr(full(x), b, x.i))
      BY <3>1, <3>2, QfifoWriteIsrGood
    <3>4. m(x) = csp_qfifo_write_isr(full(x), b, x.i)
      BY <2>2 DEF b
    <3> HIDE DEF m
    <3> QED BY <3>1, <3>2, <3>3, <3>4 DEF Quiet
  <2> QED BY <2>1, <2>2
<1> HIDE DEF m
<1>5. UNCHANGED <<rt, srv, cli>>
  BY DEF Receive
<1> QED BY <1>1, <1>4, <1>5, OutsideGood, QuietTrans

\* The router is woken.
LEMMA NetWakeUpGood ==
    ASSUME Tasks(rt, srv, cli), Good(node, Hands), WakeUp
    PROVE  Tasks(rt', srv', cli') /\ Held(node', rt', srv', cli') /\ Quiet(node, node')
BY WakeUpGood, OutsideGood, QuietTrans DEF WakeUp

\* Only the clock.
LEMMA TickGood ==
    ASSUME scene \in Scenes, Tasks(rt, srv, cli), Held(node, rt, srv, cli), Tick
    PROVE  /\ Tasks(rt', srv', cli') /\ Held(node', rt', srv', cli')
           /\ node'.ring = node.ring /\ node'.ringin = node.ringin /\ node'.now = node.now + 1
<1>1. PICK H \in SUBSET Buffers : Good(node, H) /\ (~node.crash => H = Hands)
  BY DEF Held, Hands
<1> DEFINE m == [node EXCEPT !.now = @ + 1]
<1>2. Becomes(m) /\ UNCHANGED <<rt, srv, cli>> /\ node.now < scene.time
  BY DEF Tick
<1>3. DOMAIN node = NodeFields /\ Shape(node)
  BY <1>1 DEF Good, Shape
<1>4. m.now = node.now + 1 /\ DOMAIN m = NodeFields /\ \A f \in NodeFields \ {"now"} : m[f] = node[f]
  BY <1>3 DEF NodeFields
<1> HIDE DEF m
<1>5. m.now \in 0 .. ClockMod - 1
  <2>1. scene.time \in 0 .. ClockMod - 1 /\ node.now \in 0 .. ClockMod - 1 /\ ClockMod \in Nat
    BY <1>3, NetAssumption, NodeAssumption DEF Shape
  <2> QED BY <1>2, <1>4, <2>1
<1>6. /\ m.buf = node.buf /\ m.free = node.free /\ m.errno = node.errno /\ m.last = node.last
      /\ m.qfifo = node.qfifo /\ m.port = node.port /\ m.sock = node.sock /\ m.promisc = node.promisc
      /\ m.ring = node.ring /\ m.ringin = node.ringin /\ m.mut = node.mut /\ m.conn = node.conn
      /\ m.crash = node.crash
  BY <1>4 DEF NodeFields
<1>7. Accounts(Queued(m), m.free, H)
  BY <1>1, <1>6, QueuesSame, AccountsSame DEF Good
<1>8. Good(m, H)
  BY <1>1, <1>3, <1>4, <1>5, <1>6, <1>7 DEF Good, Shape
<1>9. Held(node', rt, srv, cli) /\ Quiet(m, node')
  BY <1>1, <1>2, <1>6, <1>8, HeldAfter DEF Hands
<1> QED BY <1>2, <1>4, <1>6, <1>9 DEF Quiet

\* What a step of the bridge does to the ring of packets seen.
BridgeMarks ==
    IF Input.b # NULL /\ ~csp_dedup_is_duplicate(node, Pkt) THEN Entered(node, node', Pkt)
    ELSE Quiet(node, node')

\* The bridge takes a packet and sends it, or drops it.
LEMMA BridgeGood ==
    ASSUME Tasks(rt, srv, cli), Good(node, Hands), BridgeStep
    PROVE  Tasks(rt', srv', cli') /\ Held(node', rt', srv', cli') /\ BridgeMarks
<1> DEFINE b == Input.b
           dest == IF Input.i = bridge[1] THEN bridge[2] ELSE bridge[1]
           n1 == csp_qfifo_read(node)
           f == csp_buffer_free(n1, b)
           n2 == Remember(n1, Pkt)
           n3 == csp_promisc_add(n2, b)
           s(ok) == csp_send_direct_iface(n3, Pkt.id, b, dest, NoVia, FALSE, ok)
           dup == csp_dedup_is_duplicate(node, Pkt)
           m(ok) == IF b = NULL THEN n1 ELSE IF dup THEN f ELSE s(ok)
<1>1. PICK txok \in BOOLEAN : Becomes(csp_bridge_work(node, txok))
  BY DEF BridgeStep
<1>2. csp_bridge_work(node, txok) = m(txok)
  BY DEF csp_bridge_work, Input, Pkt
<1>3. UNCHANGED <<rt, srv, cli>> /\ node.qfifo # <<>>
  BY DEF BridgeStep
<1>4. b \in Buffers \cup {NULL} /\ b \notin Hands /\ Good(n1, Hands \cup ({b} \ {NULL})) /\ Quiet(node, n1)
  BY <1>3, QfifoReadGood DEF Input
<1> HIDE DEF n1, dup, dest
<1>5. CASE b = NULL
  <2>1. Hands \cup ({b} \ {NULL}) = Hands
    BY <1>5
  <2>2. Good(n1, Hands) /\ Becomes(n1)
    BY <1>1, <1>2, <1>4, <1>5, <2>1
  <2>3. Tasks(rt', srv', cli') /\ Held(node', rt', srv', cli') /\ Quiet(n1, node')
    BY <1>3, <2>2, OutsideGood
  <2> QED BY <1>4, <1>5, <2>3 DEF BridgeMarks, Quiet
<1>6. CASE b # NULL
  <2> DEFINE G == Hands \cup {b}
  <2>1. Hands \cup ({b} \ {NULL}) = G /\ b \in G /\ G \ {b} = Hands /\ b \in Buffers
    BY <1>4, <1>6
  <2>2. Good(n1, G) /\ IsId(Pkt.id)
    BY <1>4, <2>1 DEF Good, Shape, Bufs, IsBuffer, Pkt
  <2> HIDE DEF G, b
  <2>3. CASE dup
    <3>1. Good(f, G \ {b}) /\ Quiet(n1, f)
      BY <2>1, <2>2, FreeGood
    <3>2. Becomes(f)
      BY <1>1, <1>2, <1>6, <2>3
    <3> HIDE DEF f
    <3>3. Tasks(rt', srv', cli') /\ Held(node', rt', srv', cli') /\ Quiet(f, node')
      BY <1>3, <2>1, <3>1, <3>2, OutsideGood
    <3> QED BY <1>4, <2>3, <3>1, <3>3 DEF BridgeMarks, Quiet, dup
  <2>4. CASE ~dup
    <3>1. Good(n2, G) /\ Entered(n1, n2, Pkt)
      BY <2>2, RememberGood
    <3>2. Becomes(s(txok))
      BY <1>1, <1>2, <1>6, <2>4
    <3> HIDE DEF n2
    <3>3. Good(n3, G) /\ Quiet(n2, n3)
      BY <2>1, <3>1, PromiscAddGood
    <3> HIDE DEF n3
    <3>4. Good(s(txok), G \ {b}) /\ Quiet(n3, s(txok))
      BY <2>1, <2>2, <3>3, SendIfaceGood
    <3> HIDE DEF s
    <3>5. Tasks(rt', srv', cli') /\ Held(node', rt', srv', cli') /\ Quiet(s(txok), node')
      BY <1>3, <2>1, <3>2, <3>4, OutsideGood
    <3>6. Entered(node, node', Pkt)
      BY <1>4, <3>1, <3>3, <3>4, <3>5 DEF Entered, Quiet
    <3> QED BY <1>6, <2>4, <3>5, <3>6 DEF BridgeMarks, dup, b
  <2> QED BY <2>3, <2>4
<1> QED BY <1>5, <1>6

\* The packet at the head of a queue is looked at and freed.
LEMMA RecvFromGood ==
    ASSUME Tasks(rt, srv, cli), Good(node, Hands), RecvFrom
    PROVE  Tasks(rt', srv', cli') /\ Held(node', rt', srv', cli') /\ Quiet(node, node')
<1> DEFINE m == [node EXCEPT !.sock[2].q = Tail(@)]
           b == Head(node.sock[2].q)
           f == csp_buffer_free(m, b)
           x == [node.sock[2] EXCEPT !.q = Tail(@)]
           q0 == <<"sock", 2>>
           Q == Queued(node)
           R == Queued(m)
           G == Hands \cup {b}
<1>a. Becomes(f) /\ UNCHANGED <<rt, srv, cli>> /\ node.sock[2].q # <<>>
  BY DEF RecvFrom, csp_recvfrom
<1>b. 2 \in DOMAIN Sockets /\ "CONN_LESS" \in Sockets[2]
  BY NetAssumption
<1>0. DOMAIN node = NodeFields /\ Socks(node.sock) /\ IsSock(node.sock[2], 2)
  BY <1>b DEF Good, Shape, Socks
<1>1. /\ q0 \in QueueNames /\ Q[q0] = node.sock[2].q /\ Accounts(Q, node.free, Hands)
  BY <1>b, QueueKinds, QueuedSock DEF Good
<1>2. /\ m.sock = [node.sock EXCEPT ![2] = x] /\ DOMAIN m = NodeFields
      /\ \A g \in NodeFields \ {"sock"} : m[g] = node[g]
  BY <1>0 DEF NodeFields
<1>3. x.q = Tail(node.sock[2].q) /\ IsSock(x, 2)
  <2>1. x.q = Tail(node.sock[2].q) /\ DOMAIN x = DOMAIN node.sock[2] /\ x.opts = node.sock[2].opts
    BY <1>0 DEF IsSock
  <2> DEFINE y == node.sock[2].q
  <2>3. IsSeq(y) /\ Len(y) <= RxqueueLen /\ y # <<>> /\ x.q = Tail(y)
    BY <1>0, <1>a, <2>1 DEF IsSock
  <2>2. IsSeq(x.q) /\ Len(x.q) <= RxqueueLen
    <3> HIDE DEF y, x
    <3>1. IsSeq(Tail(y)) /\ Len(Tail(y)) = Len(y) - 1
      BY <2>3, TailIsSeq
    <3>2. Len(y) \in Nat /\ RxqueueLen \in Nat
      BY <2>3, NodeAssumption DEF IsSeq
    <3> QED BY <2>3, <3>1, <3>2
  <2> QED BY <1>0, <1>b, <2>1, <2>2 DEF IsSock
<1> HIDE DEF x, m, b
<1>4. Socks(m.sock) /\ m.sock[2] = x /\ \A d \in DOMAIN Sockets \ {2} : m.sock[d] = node.sock[d]
  BY <1>0, <1>b, <1>2, <1>3 DEF Socks
<1>5. R[q0] = Tail(Q[q0]) /\ Q[q0] # <<>> /\ Head(Q[q0]) = b
  BY <1>1, <1>3, <1>4, <1>a, <1>b, QueuedSock DEF b
<1>6. Only(Q, R, q0)
  <2>1. m.qfifo = node.qfifo /\ m.promisc = node.promisc /\ m.conn = node.conn
    BY <1>2 DEF NodeFields
  <2>2. \A d \in DOMAIN Sockets : q0 = <<"sock", d>> \/ m.sock[d].q = node.sock[d].q
    BY <1>4
  <2> QED BY <2>1, <2>2, QueuesOnly
<1>7. Accounts(R, node.free, G) /\ b \notin Hands
  <2>0. q0 # <<"qfifo", 0>>
    OBVIOUS
  <2> HIDE DEF q0, Q, R
  <2>1. /\ Head(Q[q0]) \in Item(q0) /\ Head(Q[q0]) \notin node.free \cup Hands
        /\ Accounts(R, node.free, Hands \cup ({Head(Q[q0])} \ {NULL}))
    BY <1>1, <1>5, <1>6, AccountsTail
  <2>2. b \in Buffers /\ b # NULL /\ b \notin Hands
    BY <1>5, <2>0, <2>1, NullIsNoBuffer DEF Item
  <2>3. Hands \cup ({Head(Q[q0])} \ {NULL}) = G
    BY <1>5, <2>2
  <2> QED BY <2>1, <2>2, <2>3
<1>8. /\ Same(node, m, {"qfifo", "promisc", "conn", "sock", "last"})
      /\ m.last = node.last /\ m.qfifo = node.qfifo /\ m.promisc = node.promisc /\ m.conn = node.conn
  BY <1>2 DEF Same, NodeFields
<1>9. G \ {b} = Hands /\ b \in G
  BY <1>7
<1> HIDE DEF G
<1>10. Good(m, G) /\ Quiet(node, m)
  BY <1>4, <1>7, <1>8, GoodQueues DEF Good, Shape
<1>11. Good(f, Hands) /\ Quiet(m, f)
  BY <1>9, <1>10, FreeGood
<1> HIDE DEF f
<1>12. Tasks(rt', srv', cli') /\ Held(node', rt', srv', cli') /\ Quiet(f, node')
  BY <1>a, <1>11, OutsideGood
<1> QED BY <1>10, <1>11, <1>12 DEF Quiet

\* A packet of the promiscuous queue is looked at and freed.
LEMMA PromiscReadGood ==
    ASSUME Tasks(rt, srv, cli), Good(node, Hands), PromiscRead
    PROVE  Tasks(rt', srv', cli') /\ Held(node', rt', srv', cli') /\ Quiet(node, node')
<1> DEFINE m == [node EXCEPT !.promisc.q = Tail(@)]
           b == Head(node.promisc.q)
           f == csp_buffer_free(m, b)
           q0 == <<"promisc", 0>>
           Q == Queued(node)
           R == Queued(m)
           G == Hands \cup {b}
<1>a. Becomes(f) /\ UNCHANGED <<rt, srv, cli>> /\ node.promisc.q # <<>>
  BY DEF PromiscRead, csp_promisc_read
<1>0. DOMAIN node = NodeFields /\ Monitor(node.promisc)
  BY DEF Good, Shape
<1>1. /\ q0 \in QueueNames /\ Q[q0] = node.promisc.q /\ Accounts(Q, node.free, Hands) /\ IsSeq(node.promisc.q)
  BY QueueKinds, QueuedPromisc DEF Good, Accounts, Contents
<1>2. /\ m.promisc = [node.promisc EXCEPT !.q = Tail(@)] /\ DOMAIN m = NodeFields
      /\ \A g \in NodeFields \ {"promisc"} : m[g] = node[g]
  BY <1>0 DEF NodeFields
<1> HIDE DEF m, b
<1>3. m.promisc.q = Tail(node.promisc.q) /\ Monitor(m.promisc)
  <2>1. m.promisc.q = Tail(node.promisc.q) /\ DOMAIN m.promisc = {"on", "q"}
    BY <1>0, <1>2 DEF Monitor
  <2>2. Len(m.promisc.q) <= RxqueueLen
    BY <1>0, <1>1, <1>a, <2>1, TailIsSeq, NodeAssumption DEF Monitor, IsSeq
  <2> QED BY <2>1, <2>2 DEF Monitor
<1>5. R[q0] = Tail(Q[q0]) /\ Q[q0] # <<>> /\ Head(Q[q0]) = b
  BY <1>1, <1>3, <1>a, QueuedPromisc DEF b
<1>8. /\ Same(node, m, {"qfifo", "promisc", "conn", "sock", "last"})
      /\ m.last = node.last /\ m.qfifo = node.qfifo /\ m.sock = node.sock /\ m.conn = node.conn
  BY <1>2 DEF Same, NodeFields
<1>6. Only(Q, R, q0)
  BY <1>8, QueuesOnly
<1>7. Accounts(R, node.free, G) /\ b \notin Hands
  <2>0. q0 # <<"qfifo", 0>>
    OBVIOUS
  <2> HIDE DEF q0, Q, R
  <2>1. /\ Head(Q[q0]) \in Item(q0) /\ Head(Q[q0]) \notin node.free \cup Hands
        /\ Accounts(R, node.free, Hands \cup ({Head(Q[q0])} \ {NULL}))
    BY <1>1, <1>5, <1>6, AccountsTail
  <2>2. b \in Buffers /\ b # NULL /\ b \notin Hands
    BY <1>5, <2>0, <2>1, NullIsNoBuffer DEF Item
  <2>3. Hands \cup ({Head(Q[q0])} \ {NULL}) = G
    BY <1>5, <2>2
  <2> QED BY <2>1, <2>2, <2>3
<1>9. G \ {b} = Hands /\ b \in G
  BY <1>7
<1> HIDE DEF G
<1>10. Good(m, G) /\ Quiet(node, m)
  BY <1>3, <1>7, <1>8, GoodQueues DEF Good, Shape
<1>11. Good(f, Hands) /\ Quiet(m, f)
  BY <1>9, <1>10, FreeGood
<1> HIDE DEF f
<1>12. Tasks(rt', srv', cli') /\ Held(node', rt', srv', cli') /\ Quiet(f, node')
  BY <1>a, <1>11, OutsideGood
<1> QED BY <1>10, <1>11, <1>12 DEF Quiet

\* Promiscuous mode on or off.
LEMMA PromiscSetGood ==
    ASSUME NEW n, NEW H, Good(n, H), NEW on
    PROVE  LET m == [n EXCEPT !.promisc.on = on] IN Good(m, H) /\ Quiet(n, m)
<1> DEFINE m == [n EXCEPT !.promisc.on = on]
<1>0. DOMAIN n = NodeFields /\ Monitor(n.promisc)
  BY DEF Good, Shape
<1>1. m.promisc = [n.promisc EXCEPT !.on = on] /\ Same(n, m, {"promisc"})
  BY <1>0 DEF Same, NodeFields
<1> HIDE DEF m
<1>2. Monitor(m.promisc) /\ m.promisc.q = n.promisc.q
  BY <1>0, <1>1 DEF Monitor
<1>3. /\ Same(n, m, {"qfifo", "promisc", "conn", "sock", "last"})
      /\ m.last = n.last /\ m.qfifo = n.qfifo /\ m.sock = n.sock /\ m.conn = n.conn
  BY <1>1 DEF Same, NodeFields
<1>4. Only(Queued(n), Queued(m), <<"none", 0>>)
  BY <1>2, <1>3, QueuesOnly
<1>5. \A q \in QueueNames : Queued(m)[q] = Queued(n)[q]
  BY <1>4, QueueKinds DEF Only
<1>6. Accounts(Queued(m), n.free, H)
  BY <1>5, AccountsSame DEF Good
<1>7. n.last \in ConnSlots /\ Fifo(n.qfifo) /\ Conns(n.conn) /\ Socks(n.sock)
  BY DEF Good, Shape
<1>8. Good(m, H) /\ Quiet(n, m)
  BY <1>2, <1>3, <1>6, <1>7, GoodQueues
<1> QED BY <1>8 DEF m

\* csp_promisc_disable.
LEMMA PromiscDisableGood ==
    ASSUME Tasks(rt, srv, cli), Good(node, Hands), PromiscDisable
    PROVE  Tasks(rt', srv', cli') /\ Held(node', rt', srv', cli') /\ Quiet(node, node')
<1> DEFINE m == csp_promisc_disable(node)
<1>1. Becomes(m) /\ UNCHANGED <<rt, srv, cli>>
  BY DEF PromiscDisable
<1>2. Good(m, Hands) /\ Quiet(node, m)
  BY PromiscSetGood DEF csp_promisc_disable
<1> HIDE DEF m
<1> QED BY <1>1, <1>2, OutsideGood, QuietTrans

-----------------------------------------------------------------------------
(* The start, and every step.                                              *)

\* csp_init: every buffer is in the pool and every queue is empty.
LEMMA InitGood == Good(csp_init, {}) /\ \A s \in DOMAIN Sockets : csp_init.sock[s].q = <<>>
<1> DEFINE n == csp_init
<1>1. /\ n.buf = csp_buffer_init /\ n.free = Buffers /\ n.errno = "none" /\ n.last = 0 /\ n.conn = csp_conn_init
      /\ n.qfifo = <<>> /\ n.promisc = [on |-> FALSE, q |-> <<>>] /\ n.port = [p \in 0 .. CSP_ANY |-> PORT_CLOSED]
      /\ n.sock = [s \in DOMAIN Sockets |-> [opts |-> Sockets[s], listening |-> FALSE, q |-> <<>>]]
      /\ n.ringin = 0 /\ n.now = 0 /\ n.mut = NoMutant /\ DOMAIN n = NodeFields
  BY DEF csp_init, NodeFields
<1> HIDE DEF n
<1>2. IsId(NoId)
  BY DEF IsId, NoId, CSP_PS
<1>3. Bufs(n.buf) /\ \A b \in Buffers : n.buf[b].ref = 0
  <2>1. IsBuffer(Blank) /\ Blank.ref = 0
    BY <1>2 DEF IsBuffer, Blank, Buffer, Packet
  <2> QED BY <1>1, <2>1 DEF Bufs, csp_buffer_init
<1>4. Conns(n.conn) /\ \A c \in ConnSlots : n.conn[c].rx = <<>>
  BY <1>1, <1>2, EmptyIsSeq, NodeAssumption DEF Conns, IsConn, csp_conn_init
<1>5. Socks(n.sock) /\ \A s \in DOMAIN Sockets : n.sock[s].q = <<>>
  BY <1>1, EmptyIsSeq, NodeAssumption DEF Socks, IsSock
<1>6. Ports(n.port) /\ Monitor(n.promisc) /\ n.promisc.q = <<>> /\ Fifo(n.qfifo)
  BY <1>1, EmptyIsSeq, NodeAssumption DEF Ports, Monitor, Fifo
<1>7. 0 \in ConnSlots /\ 0 \in 0 .. DedupCount - 1 /\ 0 \in 0 .. ClockMod - 1
  BY NodeAssumption DEF ConnSlots
<1>8. Shape(n)
  BY <1>1, <1>3, <1>4, <1>5, <1>6, <1>7 DEF Shape
<1>9. \A q \in QueueNames : IsSeq(Queued(n)[q]) /\ Len(Queued(n)[q]) = 0
  <2>1. IsSeq(Queued(n)[<<"qfifo", 0>>]) /\ Len(Queued(n)[<<"qfifo", 0>>]) = 0
    <3>1. Len(n.qfifo) = 0
      BY <1>1, EmptyIsSeq
    <3> DEFINE s == [k \in 1 .. 0 |-> n.qfifo[k].b]
    <3>2. IsSeq(s) /\ Len(s) = 0
      BY SeqIntro DEF IsSeq
    <3> QED BY <3>1, <3>2, QueuedFifo
  <2>2. IsSeq(Queued(n)[<<"promisc", 0>>]) /\ Len(Queued(n)[<<"promisc", 0>>]) = 0
    BY <1>6, QueuedPromisc, EmptyIsSeq
  <2>3. \A c \in ConnSlots : IsSeq(Queued(n)[<<"rx", c>>]) /\ Len(Queued(n)[<<"rx", c>>]) = 0
    BY <1>4, QueuedRx, EmptyIsSeq
  <2>4. \A s \in DOMAIN Sockets : "CONN_LESS" \in Sockets[s] =>
          IsSeq(Queued(n)[<<"sock", s>>]) /\ Len(Queued(n)[<<"sock", s>>]) = 0
    BY <1>5, QueuedSock, EmptyIsSeq
  <2> QED BY <2>1, <2>2, <2>3, <2>4, QueueKinds
<1>10. Accounts(Queued(n), n.free, {})
  <2> DEFINE Q == Queued(n)
  <2>1. \A q \in QueueNames : IsSeq(Q[q]) /\ 1 .. Len(Q[q]) = {}
    BY <1>9
  <2> HIDE DEF Q
  <2> QED BY <1>1, <2>1 DEF Q, Accounts, Contents, Apart, Somewhere
<1>11. n.free = {b \in Buffers : n.buf[b].ref = 0}
  BY <1>1, <1>3
<1> QED BY <1>1, <1>5, <1>8, <1>10, <1>11 DEF Good, n

\* The application's own start.
LEMMA StartedGood == Good(Started, {}) /\ Quiet(csp_init, Started)
<1> DEFINE n1 == csp_bind(csp_init, 2, ConnlessPort)
           n2 == csp_bind_callback(n1, CSP_PING)
<1>0. 2 \in DOMAIN Sockets /\ ConnlessPort \in 0 .. CSP_ANY /\ CSP_PING \in 0 .. CSP_ANY
  BY NetAssumption DEF ConnlessPort, CSP_ANY, CSP_PING, CSP_UPTIME
<1>1. Good(n1, {}) /\ Quiet(csp_init, n1)
  BY <1>0, InitGood, BindGood
<1>2. n1.sock[2].q = <<>>
  <2>1. n1.sock = csp_init.sock
    BY DEF csp_bind, csp_init
  <2> QED BY <1>0, <2>1, InitGood
<1> HIDE DEF n1
<1>3. Same(n1, n2, {"port"}) /\ Ports(n2.port) /\ n2.sock = n1.sock
  <2>1. Same(n1, n2, {"port"}) /\ (n2.port = n1.port \/ n2.port = [n1.port EXCEPT ![CSP_PING] = PORT_OPEN_CB])
    BY <1>1 DEF csp_bind_callback, Same, NodeFields, Good, Shape
  <2>2. Ports(n1.port)
    BY <1>1 DEF Good, Shape
  <2>3. Ports(n2.port)
    BY <2>1, <2>2 DEF Ports
  <2> QED BY <2>1, <2>3 DEF Same, NodeFields
<1> HIDE DEF n2
<1>4. Good(n2, {}) /\ Quiet(n1, n2)
  BY <1>1, <1>3, PortGood
<1>5. Good(csp_listen(n2, 2), {}) /\ Quiet(n2, csp_listen(n2, 2))
  BY <1>0, <1>2, <1>3, <1>4, ListenGood
<1>6. Started = csp_listen(n2, 2)
  BY DEF Started, n1, n2
<1> QED BY <1>1, <1>4, <1>5, <1>6 DEF Quiet

\* The invariant holds at the start.
LEMMA IndInit ==
    ASSUME Init
    PROVE  Ind /\ Quiet(csp_init, node)
<1> DEFINE n == IF scene.promisc THEN csp_promisc_enable(Started) ELSE Started
<1>1. Good(n, {}) /\ Quiet(csp_init, n)
  BY StartedGood, PromiscSetGood, QuietTrans DEF csp_promisc_enable
<1>2. node = [n EXCEPT !.rtable = csp_rtable_set(@, CmpRoute.addr, CmpRoute.mask, CmpRoute.i, CmpRoute.via)]
  BY DEF Init
<1> HIDE DEF n
<1>3. Same(n, node, {})
  BY <1>1, <1>2 DEF Same, NodeFields, Good, Shape
<1>4. Good(node, {}) /\ Quiet(n, node)
  BY <1>1, <1>3, NeutralGood
<1>5. rt.b = NULL /\ srv.b = NULL /\ \A t \in Clients : cli[t].b = NULL
  BY DEF Init, Idle
<1>6. HandsOf(rt, srv, cli) = {} /\ Each(rt, srv, cli)
  BY <1>5 DEF HandsOf, Each
<1>7. RouterIs(rt) /\ ServerIs(srv)
  BY DEF Init, Idle, RouterIs, ServerIs
<1>8. DOMAIN cli = Clients /\ \A t \in Clients : ClientIs(cli[t])
  <2> DEFINE x == [pc |-> "idle", c |-> NULL, b |-> NULL, call |-> csp_ping, dest |-> 0]
  <2>1. csp_ping.dport \in Nat \ {CSP_PS} /\ csp_ping.early \in BOOLEAN
    BY DEF csp_ping, Call, CSP_PING, CSP_PS
  <2>2. ClientIs(x)
    BY <2>1 DEF ClientIs
  <2> QED BY <2>2 DEF Init
<1>9. Held(node, rt, srv, cli)
  BY <1>4, <1>6 DEF Held
<1> QED BY <1>1, <1>4, <1>6, <1>7, <1>8, <1>9, QuietTrans DEF Ind, Tasks, Init

\* While the node runs the hands hold what it has given out.
LEMMA Running ==
    ASSUME Ind, ~node.crash
    PROVE  Tasks(rt, srv, cli) /\ Good(node, Hands) /\ scene \in Scenes
BY DEF Ind, Held, Hands

\* Once the node has crashed only the clock goes on.
LEMMA CrashedStops ==
    ASSUME Next, node.crash
    PROVE  Tick
BY DEF Next, Receive, WakeUp, RouterStep, BridgeStep, ServerStep, ClientBegin, ClientStepOn, ClientGivesUp,
       ClientEnd, RecvFrom, PromiscRead, PromiscDisable, Router, RouteWakeUp, RouteDuplicate, RouteForward,
       RouteCallback, RouteConnless, RouteReject, RouteNew, RouteExisting, Deliver, Mine, ForSocket, Taking,
       Server, ServerBind, ServerListen, ServerAccept, ServerCallRead, ServerRead, ServerHandle, ServerTimeout,
       ClientStep, ClientCall, ClientAllocate, ClientNew, ClientPorts, ClientCallRead, ClientRead, ClientSend,
       ClientTimeout, ClientClose

\* The steps that the search for duplicates has nothing to do with.
LEMMA QuietSteps ==
    ASSUME PsUnused, Ind, Next, ~Tick, ~RouterStep, ~BridgeStep
    PROVE  /\ Tasks(rt', srv', cli') /\ Held(node', rt', srv', cli') /\ Quiet(node, node')
           /\ UNCHANGED <<scene, accepted, dropped>>
<1>1. ~node.crash
  BY CrashedStops
<1>2. Tasks(rt, srv, cli) /\ Good(node, Hands) /\ scene \in Scenes
  BY <1>1, Running
<1>3. CASE Receive
  BY <1>2, <1>3, ReceiveGood DEF Receive
<1>4. CASE WakeUp
  BY <1>2, <1>4, NetWakeUpGood DEF WakeUp
<1>5. CASE ServerStep
  BY <1>2, <1>5, ServerGood DEF ServerStep
<1>6. CASE ClientBegin
  <2>1. PICK t \in Clients, x \in scene.calls : ClientCall(t, x.call, x.dest)
    BY <1>6 DEF ClientBegin
  <2>2. x.call.dport \in Nat \ {CSP_PS} /\ x.call.early \in BOOLEAN
    BY <1>2, NetAssumption DEF PsUnused
  <2> QED BY <1>2, <1>6, <2>1, <2>2, ClientCallGood DEF ClientBegin
<1>7. CASE ClientStepOn
  <2>1. PICK t \in Clients :
           \/ ClientAllocate(t) \/ ClientNew(t) \/ ClientPorts(t) \/ ClientCallRead(t)
           \/ ClientRead(t) \/ (\E txok \in BOOLEAN : ClientSend(t, txok))
    BY <1>7 DEF ClientStepOn
  <2>2. UNCHANGED <<scene, accepted, dropped>>
    BY <1>7 DEF ClientStepOn, netvars
  <2>3. CASE ClientAllocate(t)
    BY <1>2, <2>2, <2>3, ClientAllocateGood
  <2>4. CASE ClientNew(t)
    BY <1>2, <2>2, <2>4, ClientNewGood
  <2>5. CASE ClientPorts(t)
    BY <1>2, <2>2, <2>5, ClientPortsGood
  <2>6. CASE ClientCallRead(t)
    BY <1>2, <2>2, <2>6, ClientCallReadGood
  <2>7. CASE ClientRead(t)
    BY <1>2, <2>2, <2>7, ClientReadGood
  <2>8. CASE \E txok \in BOOLEAN : ClientSend(t, txok)
    BY <1>2, <2>2, <2>8, ClientSendGood
  <2> QED BY <2>1, <2>3, <2>4, <2>5, <2>6, <2>7, <2>8
<1>8. CASE ClientGivesUp
  BY <1>2, <1>8, ClientTimeoutGood DEF ClientGivesUp
<1>9. CASE ClientEnd
  BY <1>2, <1>9, ClientCloseGood DEF ClientEnd
<1>10. CASE RecvFrom
  BY <1>2, <1>10, RecvFromGood DEF RecvFrom, netvars
<1>11. CASE PromiscRead
  BY <1>2, <1>11, PromiscReadGood DEF PromiscRead, netvars
<1>12. CASE PromiscDisable
  BY <1>2, <1>12, PromiscDisableGood DEF PromiscDisable, netvars
<1> QED BY <1>3, <1>4, <1>5, <1>6, <1>7, <1>8, <1>9, <1>10, <1>11, <1>12 DEF Next

\* Every step of the specification keeps the invariant.
LEMMA IndNext ==
    ASSUME PsUnused, Ind, [Next]_vars
    PROVE  Ind'
<1>1. CASE UNCHANGED vars
  <2>1. node' = node /\ rt' = rt /\ srv' = srv /\ cli' = cli /\ scene' = scene
    BY <1>1 DEF vars, taskvars, netvars
  <2> QED BY <2>1 DEF Ind
<1>2. CASE Tick
  <2>1. scene' = scene
    BY <1>2 DEF Tick, netvars
  <2> QED BY <1>2, <2>1, TickGood DEF Ind
<1>3. CASE RouterStep
  <2>1. PICK txok \in BOOLEAN : Router(txok)
    BY <1>3 DEF RouterStep
  <2>2. ~node.crash
    BY <2>1 DEF Router, RouteWakeUp, RouteDuplicate, RouteForward, RouteCallback, RouteConnless, RouteReject,
       RouteNew, RouteExisting, Deliver, Mine, ForSocket, Taking
  <2>3. Tasks(rt', srv', cli') /\ Held(node', rt', srv', cli')
    BY <2>1, <2>2, Running, RouterGood
  <2>4. scene' = scene
    BY <1>3 DEF RouterStep
  <2> QED BY <2>3, <2>4 DEF Ind
<1>4. CASE BridgeStep
  <2>1. ~node.crash /\ scene' = scene
    BY <1>4 DEF BridgeStep
  <2> QED BY <1>4, <2>1, Running, BridgeGood DEF Ind
<1>5. CASE Next /\ ~Tick /\ ~RouterStep /\ ~BridgeStep
  BY <1>5, QuietSteps DEF Ind
<1> QED BY <1>1, <1>2, <1>3, <1>4, <1>5

\* The types follow.
LEMMA IndType ==
    ASSUME Ind
    PROVE  TypeOK
<1>1. PICK H \in SUBSET Buffers : Good(node, H)
  BY DEF Ind, Held
<1>2. Shape(node) /\ node.errno = "none" /\ node.free \subseteq Buffers
  BY <1>1 DEF Good
<1>3. \A s \in DOMAIN node.sock : Len(node.sock[s].q) <= RxqueueLen
  BY <1>2 DEF Shape, Socks, IsSock
<1>4. \A c \in ConnSlots : Len(node.conn[c].rx) <= RxqueueLen
  BY <1>2 DEF Shape, Conns, IsConn
<1> QED BY <1>2, <1>3, <1>4 DEF TypeOK, Shape, Fifo, Monitor

\* A buffer that one place accounts for has one owner.
LEMMA OneOwner ==
    ASSUME Accounts(Queued(node), node.free, Hands), Each(rt, srv, cli), NEW b \in Buffers
    PROVE  \E o : Owners(b) = {o}
<1> DEFINE Q == Queued(node)
           I == UNION {PlacesIn(q, b) : q \in QueueNames}
           P == Owner(b \in node.free, "pool")
           R == Owner(rt.b = b, "router")
           S == Owner(srv.b = b, "server")
           C == {<<"client", t, 0>> : t \in {u \in Clients : cli[u].b = b}}
<1>0. Owners(b) = P \cup R \cup S \cup C \cup I
  BY DEF Owners
<1>1. b # NULL
  BY NullIsNoBuffer
<1>2. (b \in node.free => P = {<<"pool", 0, 0>>}) /\ (b \notin node.free => P = {})
  BY DEF Owner
<1>3. (b = rt.b => R = {<<"router", 0, 0>>}) /\ (b # rt.b => R = {})
  BY DEF Owner
<1>4. (b = srv.b => S = {<<"server", 0, 0>>}) /\ (b # srv.b => S = {})
  BY DEF Owner
<1>5. \A q \in QueueNames : DOMAIN Q[q] = 1 .. Len(Q[q])
  BY DEF Accounts, Contents, IsSeq
<1>6. (\A q \in QueueNames : \A k \in 1 .. Len(Q[q]) : Q[q][k] # b) => I = {}
  BY <1>5 DEF PlacesIn
<1>7. b \notin Hands => R = {} /\ S = {} /\ C = {}
  BY <1>1, <1>3, <1>4 DEF Hands, HandsOf
<1>8. CASE b \in node.free
  <2>1. I = {}
    BY <1>6, <1>8 DEF Accounts, Apart
  <2>2. b \notin Hands
    BY <1>8 DEF Accounts, Apart
  <2>3. Owners(b) = {<<"pool", 0, 0>>}
    <3> HIDE DEF P, I, R, S, C
    <3> QED BY <1>0, <1>2, <1>7, <1>8, <2>1, <2>2
  <2> QED BY <2>3
<1>9. CASE b \in Hands
  <2>1. I = {} /\ b \notin node.free
    BY <1>6, <1>9 DEF Accounts, Apart
  <2>2. b = rt.b \/ b = srv.b \/ \E t \in Clients : cli[t].b = b
    BY <1>9 DEF Hands, HandsOf
  <2>3. CASE b = rt.b
    <3>1. S = {} /\ C = {}
      BY <1>1, <2>3 DEF Each, Owner
    <3> HIDE DEF P, I, R, S, C
    <3> QED BY <1>0, <1>2, <1>3, <2>1, <2>3, <3>1
  <2>4. CASE b = srv.b /\ b # rt.b
    <3>1. C = {}
      BY <1>1, <2>4 DEF Each
    <3> HIDE DEF P, I, R, S, C
    <3> QED BY <1>0, <1>2, <1>3, <1>4, <2>1, <2>4, <3>1
  <2>5. CASE b # srv.b /\ b # rt.b
    <3>1. PICK t \in Clients : cli[t].b = b
      BY <2>2, <2>5
    <3>2. C = {<<"client", t, 0>>}
      BY <1>1, <3>1 DEF Each
    <3> HIDE DEF P, I, R, S, C
    <3> QED BY <1>0, <1>2, <1>3, <1>4, <2>1, <2>5, <3>2
  <2> QED BY <2>3, <2>4, <2>5
<1>10. CASE b \notin node.free /\ b \notin Hands
  <2>1. PICK q \in QueueNames : \E k \in 1 .. Len(Q[q]) : Q[q][k] = b
    BY <1>10 DEF Accounts, Somewhere
  <2>2. PICK k \in 1 .. Len(Q[q]) : Q[q][k] = b
    BY <2>1
  <2>3. \A r \in QueueNames : \A j \in 1 .. Len(Q[r]) : Q[r][j] = b => r = q /\ j = k
    BY <1>1, <2>2 DEF Accounts, Apart
  <2>4. \A r \in QueueNames \ {q} : PlacesIn(r, b) = {}
    BY <1>5, <2>3 DEF PlacesIn
  <2>5. PlacesIn(q, b) = {<<q[1], q[2], k>>}
    BY <1>5, <2>2, <2>3 DEF PlacesIn
  <2>6. I = {<<q[1], q[2], k>>}
    BY <2>4, <2>5
  <2> HIDE DEF P, I, R, S, C
  <2> QED BY <1>0, <1>2, <1>7, <1>10, <2>6
<1> QED BY <1>8, <1>9, <1>10

\* That every packet has one owner follows: the account and the hands say who it is.
LEMMA IndOwned ==
    ASSUME Ind
    PROVE  BuffersOwned
<1> SUFFICES ASSUME ~node.crash
             PROVE  /\ \A b \in Buffers : Cardinality(Owners(b)) = 1
                    /\ node.free = {b \in Buffers : node.buf[b].ref = 0}
                    /\ \A q \in QueueNames : Range(Queued(node)[q]) \subseteq Buffers \cup {NULL}
  BY DEF BuffersOwned
<1>1. Good(node, Hands) /\ Each(rt, srv, cli)
  BY Running DEF Tasks
<1>2. Accounts(Queued(node), node.free, Hands)
  BY <1>1 DEF Good
<1>3. \A b \in Buffers : Cardinality(Owners(b)) = 1
  <2> TAKE b \in Buffers
  <2>1. PICK o : Owners(b) = {o}
    BY <1>1, <1>2, OneOwner
  <2> QED BY <2>1, FS_Singleton
<1>4. ASSUME NEW q \in QueueNames
      PROVE  Range(Queued(node)[q]) \subseteq Buffers \cup {NULL}
  BY <1>2 DEF Accounts, Contents, IsSeq, Item, Range
<1> QED BY <1>1, <1>3, <1>4 DEF Good

\* Types: the queues keep their lengths and nothing is freed twice.
THEOREM NetTypes ==
    ASSUME PsUnused
    PROVE  Spec => []TypeOK
<1>1. Init => Ind
  BY IndInit
<1>2. Ind /\ [Next]_vars => Ind'
  BY IndNext
<1>3. Ind => TypeOK
  BY IndType
<1> QED BY <1>1, <1>2, <1>3, PTL DEF Spec

\* Every buffer of the pool is free, in exactly one queue or in the hands of exactly
\* one task, whatever the tasks, drivers and clients do: csp_buffer_get and
\* csp_buffer_free are balanced on every path of csp_route.c, csp_io.c, csp_conn.c,
\* csp_bridge.c, csp_promisc.c and the service handler.
THEOREM BuffersAreOwned ==
    ASSUME PsUnused
    PROVE  Spec => []BuffersOwned
<1>1. Init => Ind
  BY IndInit
<1>2. Ind /\ [Next]_vars => Ind'
  BY IndNext
<1>3. Ind => BuffersOwned
  BY IndOwned
<1> QED BY <1>1, <1>2, <1>3, PTL DEF Spec

-----------------------------------------------------------------------------
(* The search for duplicates.                                              *)

\* Nothing lasts until an entry's window reaches the wrap of the clock.
NoWrap == \A s \in Scenes : s.time + DedupWindow < ClockMod

\* How many packets ago the place k of the ring was written.
Age(in, k) == IF k < in THEN in - k ELSE in + DedupCount - k

\* The ring holds the last packets accepted, newest behind ringin; the places not
\* yet written match nothing.
RingIs(n, a) ==
    /\ DOMAIN n.ring = 0 .. DedupCount - 1 /\ n.ringin \in 0 .. DedupCount - 1
    /\ \A k \in 0 .. DedupCount - 1 :
         LET j == Age(n.ringin, k)
         IN  IF j <= Len(a) THEN n.ring[k] = a[Len(a) - j + 1] ELSE n.ring[k].crc = <<>>

\* The packets accepted, up to now.
AcceptedIs(n, a) ==
    /\ IsSeq(a) /\ Len(a) <= DedupCount + 1
    /\ \A k \in 1 .. Len(a) : DOMAIN a[k] = {"crc", "at"} /\ a[k].at \in 0 .. n.now

\* The first half of DedupExact.
Spread(a) ==
    \A j, k \in 1 .. Len(a) :
        j < k /\ k - j <= DedupCount /\ a[j].crc = a[k].crc => a[k].at - a[j].at >= DedupWindow

\* The second half.
Known(a, ds) ==
    \A d \in ds : \E k \in 1 .. Len(a) : a[k].crc = d.crc /\ d.at - a[k].at \in 0 .. DedupWindow - 1

Seen ==
    /\ RingIs(node, accepted) /\ AcceptedIs(node, accepted) /\ Spread(accepted) /\ Known(accepted, dropped)
    /\ node.now <= scene.time

\* The next place of the ring.
LEMMA Modulo ==
    ASSUME NEW N \in Nat \ {0}, NEW in \in 0 .. N - 1
    PROVE  (in + 1) % N = IF in + 1 = N THEN 0 ELSE in + 1
OBVIOUS

\* What LastOf leaves of a history with one packet more.
LEMMA LastOfIs ==
    ASSUME NEW a, IsSeq(a), Len(a) <= DedupCount + 1, NEW x
    PROVE  LET r == LastOf(Append(a, x))
           IN  /\ IsSeq(r) /\ Len(r) = IF Len(a) = DedupCount + 1 THEN Len(a) ELSE Len(a) + 1
               /\ r[Len(r)] = x
               /\ \A j \in 1 .. Len(r) - 1 : r[j] = a[j + Len(a) + 1 - Len(r)]
<1> DEFINE s == Append(a, x)
           f == IF Len(s) > DedupCount + 1 THEN 2 ELSE 1
           r == SubSeq(s, f, Len(s))
<1>1. /\ IsSeq(s) /\ Len(s) = Len(a) + 1 /\ Len(a) \in Nat /\ DedupCount \in Nat \ {0}
      /\ s[Len(s)] = x /\ \A j \in 1 .. Len(a) : s[j] = a[j]
  BY AppendIsSeq, NodeAssumption, SMTT(30) DEF IsSeq
<1> HIDE DEF s
<1>2. f \in {1, 2} /\ f = (IF Len(a) = DedupCount + 1 THEN 2 ELSE 1) /\ f <= Len(s)
  BY <1>1
<1> HIDE DEF f
<1>3. IsSeq(r)
  BY <1>1, <1>2, SubSeqIsSeq
<1>4. Len(r) = Len(s) - f + 1 /\ \A j \in 1 .. Len(s) - f + 1 : r[j] = s[j + f - 1]
  <2> DEFINE S == {s[i] : i \in 1 .. Len(s)}
  <2>1. s \in Seq(S)
    BY <1>1, SeqIntro
  <2> HIDE DEF S
  <2> QED BY <1>1, <1>2, <2>1
<1> HIDE DEF r
<1>5. Len(r) = IF Len(a) = DedupCount + 1 THEN Len(a) ELSE Len(a) + 1
  BY <1>1, <1>2, <1>4
<1>6. r[Len(r)] = x
  BY <1>1, <1>2, <1>4, <1>5
<1>7. \A j \in 1 .. Len(r) - 1 : r[j] = a[j + Len(a) + 1 - Len(r)]
  BY <1>1, <1>2, <1>4, <1>5, SMTT(30)
<1> QED BY <1>3, <1>5, <1>6, <1>7 DEF LastOf, r, f, s

\* The numbers the search works on.
LEMMA SeenNumbers ==
    ASSUME NoWrap, Ind, Seen
    PROVE  /\ Len(accepted) \in Nat /\ DedupCount \in Nat \ {0} /\ DedupWindow \in Nat \ {0}
           /\ node.ringin \in 0 .. DedupCount - 1 /\ node.now \in Nat
           /\ \A k \in 1 .. Len(accepted) :
                /\ accepted[k].at \in 0 .. node.now
                /\ (accepted[k].at + DedupWindow) % ClockMod = accepted[k].at + DedupWindow
<1>1. /\ DedupCount \in Nat \ {0} /\ DedupWindow \in Nat \ {0} /\ ClockMod \in Nat \ {0}
      /\ scene.time \in Nat /\ scene.time + DedupWindow < ClockMod /\ node.now <= scene.time
  BY NodeAssumption, NetAssumption DEF Ind, Seen, NoWrap
<1>2. node.now \in 0 .. ClockMod - 1
  BY DEF Ind, Held, Good, Shape
<1>3. ASSUME NEW k \in 1 .. Len(accepted)
      PROVE  /\ accepted[k].at \in 0 .. node.now
             /\ (accepted[k].at + DedupWindow) % ClockMod = accepted[k].at + DedupWindow
  <2>1. accepted[k].at \in 0 .. node.now
    BY DEF Seen, AcceptedIs
  <2> DEFINE v == accepted[k].at + DedupWindow
  <2>2. v \in 0 .. ClockMod - 1
    BY <1>1, <1>2, <2>1, SMTT(30)
  <2> HIDE DEF v
  <2>3. v % ClockMod = v
    BY <1>1, <2>2
  <2> QED BY <2>1, <2>3 DEF v
<1> QED BY <1>1, <1>2, <1>3 DEF Seen, RingIs, AcceptedIs, IsSeq

\* csp_dedup_is_duplicate, while no window reaches the wrap: one of the packets
\* that the ring remembers is the same, and in the window.
LEMMA DuplicateIs ==
    ASSUME NoWrap, Ind, Seen, NEW p
    PROVE  csp_dedup_is_duplicate(node, p) <=>
             \E j \in 1 .. Len(accepted) :
                /\ Len(accepted) - j < DedupCount
                /\ accepted[j].crc = Crc(p) /\ node.now - accepted[j].at < DedupWindow
<1> DEFINE a == accepted
           L == Len(a)
           N == DedupCount
           in == node.ringin
<1>1. /\ L \in Nat /\ N \in Nat \ {0} /\ in \in 0 .. N - 1 /\ DedupWindow \in Nat /\ node.now \in Nat
      /\ \A j \in 1 .. L : a[j].at \in 0 .. node.now /\ (a[j].at + DedupWindow) % ClockMod = a[j].at + DedupWindow
  BY SeenNumbers
<1>2. \A k \in 0 .. N - 1 : Age(in, k) \in 1 .. N
  BY <1>1 DEF Age
<1>3. \A k \in 0 .. N - 1 : IF Age(in, k) <= L THEN node.ring[k] = a[L - Age(in, k) + 1] ELSE node.ring[k].crc = <<>>
  BY DEF Seen, RingIs
<1>4. Crc(p) # <<>>
  BY DEF Crc
<1> HIDE DEF L, N, in, a
<1>5. ASSUME csp_dedup_is_duplicate(node, p)
      PROVE  \E j \in 1 .. L : L - j < N /\ a[j].crc = Crc(p) /\ node.now - a[j].at < DedupWindow
  <2>1. PICK k \in 0 .. N - 1 : node.ring[k].crc = Crc(p) /\ node.now < (node.ring[k].at + DedupWindow) % ClockMod
    BY <1>5 DEF csp_dedup_is_duplicate, N
  <2> DEFINE j == L - Age(in, k) + 1
  <2>2. j \in 1 .. L /\ L - j < N /\ node.ring[k] = a[j]
    <3>1. Age(in, k) \in 1 .. N /\ Age(in, k) <= L /\ node.ring[k] = a[j]
      BY <1>2, <1>3, <1>4, <2>1
    <3> QED BY <1>1, <3>1
  <2> HIDE DEF j
  <2>3. node.now - a[j].at < DedupWindow
    BY <1>1, <2>1, <2>2
  <2> QED BY <2>1, <2>2, <2>3
<1>6. ASSUME NEW j \in 1 .. L, L - j < N, a[j].crc = Crc(p), node.now - a[j].at < DedupWindow
      PROVE  csp_dedup_is_duplicate(node, p)
  <2> DEFINE g == L - j + 1
             k == IF g <= in THEN in - g ELSE in + N - g
  <2>1. g \in 1 .. N /\ g <= L /\ L - g + 1 = j
    BY <1>1, <1>6
  <2> HIDE DEF g
  <2>2. k \in 0 .. N - 1 /\ Age(in, k) = g
    BY <1>1, <2>1 DEF Age, N
  <2> HIDE DEF k
  <2>3. node.ring[k] = a[j]
    BY <1>3, <2>1, <2>2
  <2>4. node.now < (a[j].at + DedupWindow) % ClockMod
    BY <1>1, <1>6
  <2> QED BY <1>6, <2>2, <2>3, <2>4 DEF csp_dedup_is_duplicate, N
<1> QED BY <1>5, <1>6 DEF L, N, a

\* A packet that is not a duplicate is entered in the ring and in the history.
LEMMA SeenAccepts ==
    ASSUME NoWrap, Ind, Seen, NEW p, ~csp_dedup_is_duplicate(node, p), Entered(node, node', p),
           accepted' = LastOf(Append(accepted, [crc |-> Crc(p), at |-> node.now])), dropped' = {}, scene' = scene
    PROVE  Seen'
<1> DEFINE a == accepted
           L == Len(a)
           N == DedupCount
           x == [crc |-> Crc(p), at |-> node.now]
           r == accepted'
           M == Len(r)
           in == node.ringin
           new == (in + 1) % N
<1>1. /\ L \in Nat /\ N \in Nat \ {0} /\ DedupWindow \in Nat \ {0} /\ in \in 0 .. N - 1 /\ node.now \in Nat
      /\ \A j \in 1 .. L : a[j].at \in 0 .. node.now
  BY SeenNumbers
<1>2. IsSeq(a) /\ L <= N + 1 /\ \A k \in 1 .. L : DOMAIN a[k] = {"crc", "at"}
  BY DEF Seen, AcceptedIs
<1>3. /\ IsSeq(r) /\ M = (IF L = N + 1 THEN L ELSE L + 1) /\ r[M] = x
      /\ \A j \in 1 .. M - 1 : r[j] = a[j + L + 1 - M]
  BY <1>2, LastOfIs
<1>4. x.crc = Crc(p) /\ x.at = node.now /\ DOMAIN x = {"crc", "at"}
  OBVIOUS
<1> HIDE DEF x
<1>5. M \in 1 .. N + 1 /\ \A j \in 1 .. M - 1 : j + L + 1 - M \in 1 .. L
  BY <1>1, <1>2, <1>3
<1>6. node'.now = node.now /\ node'.ringin = new /\ node'.ring = [node.ring EXCEPT ![in] = x]
  BY DEF Entered, x
<1>9. new = IF in + 1 = N THEN 0 ELSE in + 1
  BY <1>1, Modulo
<1>12. \A i \in 1 .. L : L - i < N /\ a[i].crc = Crc(p) => node.now - a[i].at >= DedupWindow
  BY <1>1, DuplicateIs
<1>13. DOMAIN node.ring = 0 .. N - 1 /\ \A k \in 0 .. N - 1 :
         IF Age(in, k) <= L THEN node.ring[k] = a[L - Age(in, k) + 1] ELSE node.ring[k].crc = <<>>
  BY DEF Seen, RingIs
<1>14. \A j, k \in 1 .. L : j < k /\ k - j <= N /\ a[j].crc = a[k].crc => a[k].at - a[j].at >= DedupWindow
  BY DEF Seen, Spread
<1> HIDE DEF new, L, M, N, a, r, in
<1>7. AcceptedIs(node', r)
  <2> SUFFICES ASSUME NEW k \in 1 .. M
               PROVE  DOMAIN r[k] = {"crc", "at"} /\ r[k].at \in 0 .. node.now
    BY <1>3, <1>5, <1>6 DEF AcceptedIs, M, N
  <2>1. CASE k = M
    BY <1>1, <1>3, <1>4, <2>1
  <2>2. CASE k # M
    BY <1>1, <1>2, <1>3, <1>5, <2>2
  <2> QED BY <2>1, <2>2
<1>8. Spread(r)
  <2> SUFFICES ASSUME NEW j \in 1 .. M, NEW k \in 1 .. M, j < k, k - j <= N, r[j].crc = r[k].crc
               PROVE  r[k].at - r[j].at >= DedupWindow
    BY DEF Spread, M, N
  <2> DEFINE i == j + L + 1 - M
  <2>1. r[j] = a[i] /\ i \in 1 .. L
    BY <1>3, <1>5
  <2>2. CASE k = M
    <3>1. L - i < N
      BY <1>1, <1>5, <2>2
    <3> HIDE DEF i
    <3> QED BY <1>3, <1>4, <1>12, <2>1, <2>2, <3>1
  <2>3. CASE k # M
    <3> DEFINE h == k + L + 1 - M
    <3>1. r[k] = a[h] /\ h \in 1 .. L /\ i < h /\ h - i <= N
      BY <1>1, <1>3, <1>5, <2>3
    <3> HIDE DEF i, h
    <3> QED BY <1>14, <2>1, <3>1
  <2> QED BY <2>2, <2>3
<1>10. RingIs(node', r)
  <2>1. DOMAIN node.ring = 0 .. N - 1 /\ new \in 0 .. N - 1
    BY <1>1, <1>9, <1>13
  <2>2. DOMAIN node'.ring = 0 .. N - 1
    BY <1>6, <2>1
  <2> SUFFICES ASSUME NEW k \in 0 .. N - 1
               PROVE  IF Age(new, k) <= M THEN node'.ring[k] = r[M - Age(new, k) + 1] ELSE node'.ring[k].crc = <<>>
    BY <1>6, <2>1, <2>2 DEF RingIs, N, M
  <2>3. CASE k = in
    <3>1. Age(new, k) = 1
      BY <1>1, <1>9, <2>3 DEF Age, N
    <3>2. node'.ring[k] = x
      BY <1>6, <2>1, <2>3
    <3> QED BY <1>3, <1>5, <3>1, <3>2
  <2>4. CASE k # in
    <3> DEFINE g == Age(in, k)
    <3>1. Age(new, k) = g + 1 /\ g \in 1 .. N - 1
      BY <1>1, <1>9, <2>4 DEF Age, N
    <3>2. node'.ring[k] = node.ring[k]
      BY <1>6, <2>1, <2>4
    <3>3. IF g <= L THEN node.ring[k] = a[L - g + 1] ELSE node.ring[k].crc = <<>>
      BY <1>13
    <3> HIDE DEF g
    <3>4. CASE g <= L
      <4>1. g + 1 <= M /\ M - g \in 1 .. M - 1
        BY <1>1, <1>2, <1>3, <3>1, <3>4
      <4>2. r[M - g] = a[L - g + 1]
        <5>1. r[M - g] = a[(M - g) + L + 1 - M]
          BY <1>3, <4>1
        <5>2. (M - g) + L + 1 - M = L - g + 1
          BY <1>1, <1>5, <3>1
        <5> QED BY <5>1, <5>2
      <4>3. M - (g + 1) + 1 = M - g
        BY <1>5, <3>1
      <4> QED BY <3>1, <3>2, <3>3, <3>4, <4>1, <4>2, <4>3
    <3>5. CASE ~(g <= L)
      <4>1. ~(g + 1 <= M)
        BY <1>1, <1>2, <1>3, <3>1, <3>5
      <4> QED BY <3>1, <3>2, <3>3, <3>5, <4>1
    <3> QED BY <3>4, <3>5
  <2> QED BY <2>3, <2>4
<1>11. Known(r, dropped')
  BY DEF Known, r
<1> QED BY <1>6, <1>7, <1>8, <1>10, <1>11 DEF Seen, r

\* A duplicate is dropped.
LEMMA SeenDrops ==
    ASSUME NoWrap, Ind, Seen, NEW p, csp_dedup_is_duplicate(node, p), Quiet(node, node'),
           accepted' = accepted, dropped' = {[crc |-> Crc(p), at |-> node.now]}, scene' = scene
    PROVE  Seen'
<1>1. PICK j \in 1 .. Len(accepted) :
        accepted[j].crc = Crc(p) /\ node.now - accepted[j].at < DedupWindow
  BY DuplicateIs
<1>2. node.now - accepted[j].at \in 0 .. DedupWindow - 1
  BY <1>1, SeenNumbers
<1>3. Known(accepted, dropped')
  BY <1>1, <1>2 DEF Known
<1>4. node'.ring = node.ring /\ node'.ringin = node.ringin /\ node'.now = node.now
  BY DEF Quiet
<1> QED BY <1>3, <1>4 DEF Seen, RingIs, AcceptedIs

\* No packet is looked at; the clock may have moved.
LEMMA SeenQuiet ==
    ASSUME NoWrap, Ind, Seen, node'.ring = node.ring, node'.ringin = node.ringin, node'.now \in Nat,
           node.now <= node'.now, node'.now <= scene.time,
           accepted' = accepted, dropped' \in {dropped, {}}, scene' = scene
    PROVE  Seen'
<1>1. AcceptedIs(node', accepted)
  <2>1. \A k \in 1 .. Len(accepted) : accepted[k].at \in 0 .. node'.now
    BY SeenNumbers
  <2> QED BY <2>1 DEF Seen, AcceptedIs
<1>2. Known(accepted, dropped')
  BY DEF Seen, Known
<1> QED BY <1>1, <1>2 DEF Seen, RingIs

\* At the start nothing is accepted, and no place of the ring matches a packet.
LEMMA SeenInit ==
    ASSUME Init
    PROVE  Seen
<1>1. Quiet(csp_init, node) /\ scene \in Scenes /\ accepted = <<>> /\ dropped = {}
  BY IndInit DEF Init
<1>2. /\ csp_init.ring = [k \in 0 .. DedupCount - 1 |-> [crc |-> <<>>, at |-> 0]] /\ csp_init.ringin = 0
      /\ csp_init.now = 0
  BY DEF csp_init
<1>3. node.ring = [k \in 0 .. DedupCount - 1 |-> [crc |-> <<>>, at |-> 0]] /\ node.ringin = 0 /\ node.now = 0
  BY <1>1, <1>2 DEF Quiet
<1>4. Len(accepted) = 0 /\ IsSeq(accepted) /\ DedupCount \in Nat \ {0} /\ scene.time \in Nat
  BY <1>1, EmptyIsSeq, NodeAssumption, NetAssumption
<1>5. RingIs(node, accepted)
  BY <1>3, <1>4 DEF RingIs, Age
<1> QED BY <1>1, <1>3, <1>4, <1>5 DEF Seen, AcceptedIs, Spread, Known

\* Every step keeps the ring and the history in agreement.
LEMMA SeenNext ==
    ASSUME PsUnused, NoWrap, Ind, Seen, [Next]_vars
    PROVE  Seen'
<1>0. node.now \in Nat /\ node.now <= scene.time
  BY SeenNumbers DEF Seen
<1>1. CASE UNCHANGED vars
  <2>1. node' = node /\ accepted' = accepted /\ dropped' = dropped /\ scene' = scene
    BY <1>1 DEF vars, taskvars, netvars
  <2> QED BY <1>0, <2>1, SeenQuiet
<1>2. CASE Tick
  <2>1. node'.ring = node.ring /\ node'.ringin = node.ringin /\ node'.now = node.now + 1
    BY <1>2, TickGood DEF Ind
  <2>2. accepted' = accepted /\ dropped' = dropped /\ scene' = scene /\ node.now < scene.time
    BY <1>2 DEF Tick, netvars
  <2>3. scene.time \in Nat
    BY NetAssumption DEF Ind
  <2> QED BY <1>0, <2>1, <2>2, <2>3, SeenQuiet
<1>3. CASE RouterStep
  <2>1. PICK txok \in BOOLEAN : Router(txok)
    BY <1>3 DEF RouterStep
  <2>2. ~node.crash
    BY <2>1 DEF Router, RouteWakeUp, RouteDuplicate, RouteForward, RouteCallback, RouteConnless, RouteReject,
       RouteNew, RouteExisting, Deliver, Mine, ForSocket, Taking
  <2>3. Marks
    BY <2>1, <2>2, Running, RouterGood
  <2>4. scene' = scene /\ Noted(Taking /\ DedupApplies, Duplicate)
    BY <1>3 DEF RouterStep
  <2>5. CASE Taking /\ DedupApplies /\ Duplicate
    <3>1. csp_dedup_is_duplicate(node, Pkt) /\ Quiet(node, node')
      BY <2>3, <2>5 DEF Duplicate, Marks
    <3>2. accepted' = accepted /\ dropped' = {[crc |-> Crc(Pkt), at |-> node.now]}
      BY <2>4, <2>5 DEF Noted
    <3> QED BY <2>4, <3>1, <3>2, SeenDrops
  <2>6. CASE Taking /\ DedupApplies /\ ~Duplicate
    <3>1. ~csp_dedup_is_duplicate(node, Pkt) /\ Entered(node, node', Pkt)
      BY <2>3, <2>6 DEF Duplicate, Marks
    <3>2. accepted' = LastOf(Append(accepted, [crc |-> Crc(Pkt), at |-> node.now])) /\ dropped' = {}
      BY <2>4, <2>6 DEF Noted
    <3> QED BY <2>4, <3>1, <3>2, SeenAccepts
  <2>7. CASE ~(Taking /\ DedupApplies)
    <3>1. Quiet(node, node')
      BY <2>3, <2>7 DEF Marks
    <3>2. accepted' = accepted /\ dropped' = {}
      BY <2>4, <2>7 DEF Noted
    <3> QED BY <1>0, <2>4, <3>1, <3>2, SeenQuiet DEF Quiet
  <2> QED BY <2>5, <2>6, <2>7
<1>4. CASE BridgeStep
  <2>1. ~node.crash /\ scene' = scene /\ Noted(Input.b # NULL, csp_dedup_is_duplicate(node, Pkt))
    BY <1>4 DEF BridgeStep
  <2>2. BridgeMarks
    BY <1>4, <2>1, Running, BridgeGood
  <2>3. CASE Input.b # NULL /\ csp_dedup_is_duplicate(node, Pkt)
    <3>1. Quiet(node, node')
      BY <2>2, <2>3 DEF BridgeMarks
    <3>2. accepted' = accepted /\ dropped' = {[crc |-> Crc(Pkt), at |-> node.now]}
      BY <2>1, <2>3 DEF Noted
    <3> QED BY <2>1, <2>3, <3>1, <3>2, SeenDrops
  <2>4. CASE Input.b # NULL /\ ~csp_dedup_is_duplicate(node, Pkt)
    <3>1. Entered(node, node', Pkt)
      BY <2>2, <2>4 DEF BridgeMarks
    <3>2. accepted' = LastOf(Append(accepted, [crc |-> Crc(Pkt), at |-> node.now])) /\ dropped' = {}
      BY <2>1, <2>4 DEF Noted
    <3> QED BY <2>1, <2>4, <3>1, <3>2, SeenAccepts
  <2>5. CASE Input.b = NULL
    <3>1. Quiet(node, node')
      BY <2>2, <2>5 DEF BridgeMarks
    <3>2. accepted' = accepted /\ dropped' = {}
      BY <2>1, <2>5 DEF Noted
    <3> QED BY <1>0, <2>1, <3>1, <3>2, SeenQuiet DEF Quiet
  <2> QED BY <2>3, <2>4, <2>5
<1>5. CASE Next /\ ~Tick /\ ~RouterStep /\ ~BridgeStep
  <2>1. Quiet(node, node') /\ UNCHANGED <<scene, accepted, dropped>>
    BY <1>5, QuietSteps
  <2> QED BY <1>0, <2>1, SeenQuiet DEF Quiet
<1> QED BY <1>1, <1>2, <1>3, <1>4, <1>5

\* Until the clock wraps, a packet is dropped as a duplicate exactly when the same one
\* was accepted within the window and is among the last that csp_dedup_array holds.
THEOREM DedupIsExact ==
    ASSUME PsUnused, NoWrap
    PROVE  Spec => []DedupExact
<1>1. Init => Ind /\ Seen
  BY IndInit, SeenInit
<1>2. (Ind /\ Seen) /\ [Next]_vars => (Ind /\ Seen)'
  BY IndNext, SeenNext
<1>3. Ind /\ Seen => DedupExact
  <2> SUFFICES ASSUME Seen PROVE DedupExact
    OBVIOUS
  <2>1. DOMAIN accepted = 1 .. Len(accepted)
    BY DEF Seen, AcceptedIs, IsSeq
  <2> QED BY <2>1 DEF Seen, Spread, Known, DedupExact
<1> QED BY <1>1, <1>2, <1>3, PTL DEF Spec
=============================================================================
