-------------------------- MODULE RouteTableProofs --------------------------
(***************************************************************************)
(* Proofs about RouteTable for every address width, table size, set of     *)
(* routes and set of texts: csp_rtable_find_route finds the longest        *)
(* prefix, whatever order routes were set, replaced, loaded and cleared    *)
(* in.                                                                     *)
(***************************************************************************)
EXTENDS RouteTable, DataLemmas, FiniteSetTheorems

Key(e) == <<e.addr, e.mask>>
Value(e) == [i |-> e.i, via |-> e.via]

\* The table t holds the routes m; c: csp_rtable_clear has left entries behind.
TypeOf(t) ==
    /\ t \in [e : {t.e}, in : Nat, over : BOOLEAN]
    /\ t.e \in [Slots -> {t.e[k] : k \in Slots}]

\* Every entry is what a set has written, or left behind.
Entry == [addr : Nat, mask : 0 .. HostBits, i : RouteIfaces, via : Int \ {none}]

Entries(t, c) == \A k \in Used(t) : t.e[k] \in Entry \/ (c /\ t.e[k] = ZeroEntry)

Masks(t) == \A k \in Used(t) : t.e[k].mask \in 0 .. HostBits

\* Every entry is one of the routes, or left behind.
Sound(t, m, c) ==
    \A k \in Used(t) : \/ Key(t.e[k]) \in DOMAIN m /\ m[Key(t.e[k])] = Value(t.e[k])
                       \/ c /\ t.e[k] = ZeroEntry

\* Every route has an entry.
Complete(t, m) == \A p \in DOMAIN m : \E k \in Used(t) : Key(t.e[k]) = p

\* Of two entries for a prefix the second was left behind, and is not found.
Unique(t, c) ==
    \A k, l \in Used(t) : k < l /\ Key(t.e[k]) = Key(t.e[l]) => c /\ t.e[l] = ZeroEntry

Holds(t, m, c) ==
    /\ TypeOf(t)
    /\ \/ t.over
       \/ /\ t.in <= RtableSize /\ Entries(t, c) /\ Masks(t)
          /\ Sound(t, m, c) /\ Complete(t, m) /\ Unique(t, c)

IInv == Holds(r, routes, cleared)

-----------------------------------------------------------------------------
(* csp_rtable_set.                                                         *)

\* The first of the entries found.
LEMMA FirstFound ==
    ASSUME NEW found \in SUBSET Slots, found # {}
    PROVE  LET k == CHOOSE k \in found : \A l \in found : k <= l
           IN  k \in found /\ \A l \in found : k <= l
<1>1. found \subseteq Nat
  BY DEF Slots
<1>2. \E k \in found : \A l \in found : k <= l
  BY <1>1, LeastNat
<1> QED BY <1>2

\* csp_rtable_set_internal: a replaced or new entry keeps table and routes together.
LEMMA SetInternalHolds ==
    ASSUME NEW t, NEW m, NEW c \in BOOLEAN, Holds(t, m, c),
           NEW addr \in Nat, NEW mask \in 0 .. HostBits, NEW i \in RouteIfaces,
           NEW via \in Int \ {none}, NEW n,
           DOMAIN n = DOMAIN m \cup {<<addr, mask>>},
           n[<<addr, mask>>] = [i |-> i, via |-> via],
           \A q \in DOMAIN m : q # <<addr, mask>> => n[q] = m[q]
    PROVE  Holds(csp_rtable_set_internal(t, addr, mask, i, via), n, c)
<1> DEFINE u == csp_rtable_set_internal(t, addr, mask, i, via)
           found == csp_rtable_find_exact(t, addr, mask)
           entry == [addr |-> addr, mask |-> mask, i |-> i, via |-> via]
           first == CHOOSE k \in found : \A l \in found : k <= l
<1> SUFFICES Holds(u, n, c)
  OBVIOUS
<1>1. /\ t \in [e : {t.e}, in : Nat, over : BOOLEAN] /\ t.in \in Nat /\ t.over \in BOOLEAN
      /\ t.e \in [Slots -> {t.e[k] : k \in Slots}]
      /\ RtableSize \in Nat
  BY RtableAssumption DEF Holds, TypeOf
<1>2. Key(entry) = <<addr, mask>> /\ Value(entry) = [i |-> i, via |-> via] /\ entry.mask = mask
  BY DEF Key, Value
<1>e. entry \in Entry
  BY DEF Entry
<1>3. \A k \in Slots : k \in found <=> k < t.in /\ Key(t.e[k]) = <<addr, mask>>
  BY DEF csp_rtable_find_exact, Used, Key
<1>4. found \subseteq Slots
  BY DEF csp_rtable_find_exact, Used
<1>5. CASE found # {}
  <2>1. first \in found /\ \A l \in found : first <= l
    BY <1>4, <1>5, FirstFound
  <2>2. u = [t EXCEPT !.e[first] = entry]
    BY <1>5 DEF csp_rtable_set_internal
  <2> HIDE DEF u, found, entry, first
  <2>3. /\ u \in [e : {u.e}, in : Nat, over : BOOLEAN] /\ u.in = t.in /\ u.over = t.over
        /\ u.e = [t.e EXCEPT ![first] = entry]
    BY <1>1, <2>2
  <2>4. u.e \in [Slots -> {u.e[k] : k \in Slots}]
    BY <1>1, <2>3
  <2>5. u.e[first] = entry /\ (\A k \in Slots : k # first => u.e[k] = t.e[k]) /\ Used(u) = Used(t)
    BY <1>1, <1>4, <2>1, <2>3 DEF Used
  <2>6. TypeOf(u)
    BY <2>3, <2>4 DEF TypeOf
  <2>7. CASE t.over
    BY <2>3, <2>6, <2>7 DEF Holds
  <2>8. CASE ~t.over
    <3>0. /\ Masks(t) /\ Sound(t, m, c) /\ Complete(t, m) /\ Unique(t, c) /\ t.in <= RtableSize
          /\ Entries(t, c)
      BY <2>8 DEF Holds
    <3>e. Entries(u, c)
      BY <1>e, <2>5, <3>0 DEF Entries, Used
    <3>1. Masks(u)
      BY <1>2, <2>5, <3>0 DEF Masks, Used
    <3>2. Sound(u, n, c)
      <4> SUFFICES ASSUME NEW k \in Used(u)
                   PROVE  \/ Key(u.e[k]) \in DOMAIN n /\ n[Key(u.e[k])] = Value(u.e[k])
                          \/ c /\ u.e[k] = ZeroEntry
        BY DEF Sound
      <4>1. k \in Used(t) /\ k \in Slots
        BY <2>5 DEF Used
      <4>2. CASE k = first
        BY <1>2, <2>5, <4>2
      <4>3. CASE k # first /\ Key(t.e[k]) # <<addr, mask>>
        BY <2>5, <3>0, <4>1, <4>3 DEF Sound
      <4>4. CASE k # first /\ Key(t.e[k]) = <<addr, mask>>
        <5>1. k \in found /\ first \in Used(t) /\ Key(t.e[first]) = <<addr, mask>> /\ first < k
          BY <1>3, <1>4, <2>1, <4>1, <4>4 DEF Used, Slots
        <5>2. c /\ t.e[k] = ZeroEntry
          BY <3>0, <4>1, <4>4, <5>1 DEF Unique
        <5> QED BY <2>5, <4>1, <4>4, <5>2
      <4> QED BY <4>2, <4>3, <4>4
    <3>3. Complete(u, n)
      <4> SUFFICES ASSUME NEW p \in DOMAIN n PROVE \E k \in Used(u) : Key(u.e[k]) = p
        BY DEF Complete
      <4>1. CASE p = <<addr, mask>>
        <5>1. first \in Used(u)
          BY <1>3, <1>4, <2>1, <2>5 DEF Used
        <5> QED BY <1>2, <2>5, <4>1, <5>1
      <4>2. CASE p # <<addr, mask>>
        <5>1. PICK k \in Used(t) : Key(t.e[k]) = p
          BY <3>0, <4>2 DEF Complete
        <5>2. k # first /\ k \in Slots
          BY <1>3, <1>4, <2>1, <4>2, <5>1 DEF Used
        <5> QED BY <2>5, <5>1, <5>2
      <4> QED BY <4>1, <4>2
    <3>4. Unique(u, c)
      <4>1. \A k \in Used(u) : k \in Used(t) /\ k \in Slots /\ Key(u.e[k]) = Key(t.e[k])
        BY <1>2, <1>3, <1>4, <2>1, <2>5 DEF Used
      <4> SUFFICES ASSUME NEW k \in Used(u), NEW l \in Used(u), k < l, Key(u.e[k]) = Key(u.e[l])
                   PROVE  c /\ u.e[l] = ZeroEntry
        BY DEF Unique
      <4>2. c /\ t.e[l] = ZeroEntry
        BY <3>0, <4>1 DEF Unique
      <4>3. l # first
        <5> SUFFICES ASSUME l = first PROVE FALSE
          OBVIOUS
        <5>1. Key(t.e[k]) = <<addr, mask>>
          BY <1>3, <1>4, <2>1, <4>1
        <5>2. k \in found
          BY <1>3, <4>1, <5>1 DEF Used
        <5> QED BY <2>1, <4>1, <5>2 DEF Slots
      <4> QED BY <2>5, <4>1, <4>2, <4>3
    <3> QED BY <2>3, <2>6, <3>0, <3>e, <3>1, <3>2, <3>3, <3>4 DEF Holds
  <2> QED BY <1>1, <2>7, <2>8
<1>6. CASE found = {} /\ t.in < RtableSize
  <2>1. u = [t EXCEPT !.in = @ + 1, !.e[t.in] = entry]
    BY <1>6 DEF csp_rtable_set_internal
  <2> HIDE DEF u, entry
  <2>2. t.in \in Slots
    BY <1>1, <1>6 DEF Slots
  <2>a. u = [e |-> [t.e EXCEPT ![t.in] = entry], in |-> t.in + 1, over |-> t.over]
    BY <1>1, <2>1
  <2>3. /\ u \in [e : {u.e}, in : Nat, over : BOOLEAN] /\ u.in = t.in + 1 /\ u.over = t.over
        /\ u.e = [t.e EXCEPT ![t.in] = entry]
    BY <1>1, <2>a
  <2>4. u.e \in [Slots -> {u.e[k] : k \in Slots}]
    BY <1>1, <2>3
  <2>b. u.e[t.in] = entry /\ \A k \in Slots : k # t.in => u.e[k] = t.e[k]
    BY <1>1, <2>2, <2>3
  <2>c. t.in \in Used(u)
    BY <1>1, <2>2, <2>3 DEF Used
  <2>d. \A k \in Used(u) : k \in Slots /\ (k # t.in => k \in Used(t) /\ k < t.in)
    BY <1>1, <2>3 DEF Used, Slots
  <2>e. \A k \in Used(t) : k \in Slots /\ k \in Used(u) /\ k # t.in
    BY <1>1, <2>3 DEF Used, Slots
  <2>5. /\ u.e[t.in] = entry /\ \A k \in Slots : k # t.in => u.e[k] = t.e[k]
        /\ t.in \in Used(u)
        /\ \A k \in Used(u) : k \in Slots /\ (k # t.in => k \in Used(t) /\ k < t.in)
        /\ \A k \in Used(t) : k \in Slots /\ k \in Used(u) /\ k # t.in
    BY <2>b, <2>c, <2>d, <2>e
  <2>6. TypeOf(u)
    BY <2>3, <2>4 DEF TypeOf
  <2>7. CASE t.over
    BY <2>3, <2>6, <2>7 DEF Holds
  <2>8. CASE ~t.over
    <3>0. Entries(t, c) /\ Masks(t) /\ Sound(t, m, c) /\ Complete(t, m) /\ Unique(t, c)
      BY <2>8 DEF Holds
    <3>a. \A k \in Used(t) : u.e[k] = t.e[k] /\ Key(t.e[k]) # <<addr, mask>>
      BY <1>3, <1>6, <2>5 DEF Used
    <3>e. Entries(u, c)
      BY <1>e, <2>5, <3>0 DEF Entries
    <3>1. Masks(u)
      BY <1>2, <2>5, <3>0 DEF Masks
    <3>2. Sound(u, n, c)
      BY <1>2, <2>5, <3>0, <3>a DEF Sound
    <3>3. Complete(u, n)
      BY <1>2, <2>5, <3>0, <3>a DEF Complete
    <3>4. Unique(u, c)
      <4> SUFFICES ASSUME NEW k \in Used(u), NEW l \in Used(u), k < l, Key(u.e[k]) = Key(u.e[l])
                   PROVE  c /\ u.e[l] = ZeroEntry
        BY DEF Unique
      <4>a. k \in Slots /\ l \in Slots /\ (l # t.in => l < t.in)
        BY <2>5
      <4>b. k # t.in
        <5>1. k \in Int /\ l \in Int
          BY <4>a DEF Slots
        <5> QED BY <1>1, <4>a, <5>1
      <4>1. k \in Used(t)
        BY <2>5, <4>b
      <4>2. l \in Used(t)
        BY <1>2, <2>5, <3>a, <4>1
      <4> QED BY <3>0, <3>a, <4>1, <4>2 DEF Unique
    <3>5. u.in <= RtableSize
      BY <1>1, <1>6, <2>3
    <3> QED BY <2>3, <2>6, <3>e, <3>1, <3>2, <3>3, <3>4, <3>5 DEF Holds
  <2> QED BY <1>1, <2>7, <2>8
<1>7. CASE found = {} /\ ~(t.in < RtableSize)
  <2>1. u = [t EXCEPT !.in = @ + 1, !.over = TRUE]
    BY <1>7 DEF csp_rtable_set_internal
  <2> HIDE DEF u
  <2>a. u = [e |-> t.e, in |-> t.in + 1, over |-> TRUE]
    BY <1>1, <2>1
  <2>2. u \in [e : {u.e}, in : Nat, over : BOOLEAN] /\ u.over /\ u.e = t.e
    BY <1>1, <2>a
  <2>3. Holds(u, n, c)
    BY <1>1, <2>2 DEF Holds, TypeOf
  <2> QED BY <2>3
<1> QED BY <1>5, <1>6, <1>7

\* A set keeps the table and the routes together.
LEMMA SetHolds ==
    ASSUME NEW t, NEW m, NEW c \in BOOLEAN, Holds(t, m, c),
           NEW addr \in Nat, NEW mask, NEW i \in RouteIfaces, NEW via \in Int \ {none}
    PROVE  Holds(csp_rtable_set(t, addr, mask, i, via), Asked(m, addr, mask, i, via), c)
<1> DEFINE k == Netmask(mask)
           n == Asked(m, addr, mask, i, via)
<1>1. k \in 0 .. HostBits
  BY HostBitsAssumption DEF Netmask
<1>2. csp_rtable_set(t, addr, mask, i, via) = csp_rtable_set_internal(t, addr, k, i, via)
  BY RtableAssumption DEF csp_rtable_set
<1>3. /\ DOMAIN n = DOMAIN m \cup {<<addr, k>>} /\ n[<<addr, k>>] = [i |-> i, via |-> via]
      /\ \A q \in DOMAIN m : q # <<addr, k>> => n[q] = m[q]
  BY DEF Asked
<1> HIDE DEF k, n
<1>4. Holds(csp_rtable_set_internal(t, addr, k, i, via), n, c)
  BY <1>1, <1>3, SetInternalHolds
<1> QED BY <1>2, <1>4 DEF n

-----------------------------------------------------------------------------
(* csp_rtable_load: the recursive definitions, and what they keep.         *)

Parse(t, x) == csp_rtable_set(t, x.addr, ParsedMask(x), x.name, ParsedVia(x))
Ask(m, x) == Asked(m, x.addr, ParsedMask(x), x.name, ParsedVia(x))

\* What the recursive definition of the parser's loop defines.
LEMMA AfterParsingIs ==
    ASSUME NEW t, NEW text, NEW n \in Nat
    PROVE  AfterParsing(t, text, n) =
             [k \in 0 .. n |-> IF k = 0 THEN t ELSE Parse(AfterParsing(t, text, n)[k - 1], text[k])]
<1> DEFINE Def(a, l) == a = [k \in 0 .. l |-> IF k = 0 THEN t ELSE Parse(a[k - 1], text[k])]
           S == {l \in Nat : \E a : Def(a, l)}
<1>1. 0 \in S
  <2> DEFINE a == [k \in 0 .. 0 |-> t]
  <2>1. Def(a, 0)
    OBVIOUS
  <2> QED BY <2>1
<1>2. ASSUME NEW l \in Nat, l \in S PROVE l + 1 \in S
  <2>1. PICK a : Def(a, l)
    BY <1>2
  <2> DEFINE b == [k \in 0 .. l + 1 |-> IF k = l + 1 THEN Parse(a[l], text[l + 1]) ELSE a[k]]
  <2>2. \A k \in 0 .. l + 1 : b[k] = IF k = 0 THEN t ELSE Parse(b[k - 1], text[k])
    <3> TAKE k \in 0 .. l + 1
    <3>1. CASE k = 0
      BY <2>1, <3>1
    <3>2. CASE k = l + 1
      <4>1. b[k] = Parse(a[l], text[k]) /\ b[k - 1] = a[l] /\ k # 0
        BY <3>2
      <4> QED BY <4>1
    <3>3. CASE k # 0 /\ k # l + 1
      <4>1. k \in 0 .. l /\ k - 1 \in 0 .. l
        BY <3>3
      <4>2. b[k] = a[k] /\ b[k - 1] = a[k - 1]
        BY <3>3, <4>1
      <4>3. a[k] = Parse(a[k - 1], text[k])
        BY <2>1, <3>3, <4>1
      <4> QED BY <3>3, <4>2, <4>3
    <3> QED BY <3>1, <3>2, <3>3
  <2>3. b = [k \in 0 .. l + 1 |-> b[k]]
    OBVIOUS
  <2> HIDE DEF b
  <2>4. Def(b, l + 1)
    BY <2>2, <2>3
  <2> QED BY <2>4
<1>3. n \in S
  <2> HIDE DEF S
  <2> QED BY <1>1, <1>2, AllNat
<1>4. \E a : Def(a, n)
  BY <1>3
<1>5. AfterParsing(t, text, n) = CHOOSE a : Def(a, n)
  BY DEF AfterParsing, Parse
<1>6. Def(CHOOSE a : Def(a, n), n)
  <2> HIDE DEF Def
  <2> QED BY <1>4, Zenon
<1> QED BY <1>5, <1>6

\* What the recursive definition of the routes a text asks for defines.
LEMMA AskedByIs ==
    ASSUME NEW m, NEW text, NEW n \in Nat
    PROVE  AskedBy(m, text, n) =
             [k \in 0 .. n |-> IF k = 0 THEN m ELSE Ask(AskedBy(m, text, n)[k - 1], text[k])]
<1> DEFINE Def(a, l) == a = [k \in 0 .. l |-> IF k = 0 THEN m ELSE Ask(a[k - 1], text[k])]
           S == {l \in Nat : \E a : Def(a, l)}
<1>1. 0 \in S
  <2> DEFINE a == [k \in 0 .. 0 |-> m]
  <2>1. Def(a, 0)
    OBVIOUS
  <2> QED BY <2>1
<1>2. ASSUME NEW l \in Nat, l \in S PROVE l + 1 \in S
  <2>1. PICK a : Def(a, l)
    BY <1>2
  <2> DEFINE b == [k \in 0 .. l + 1 |-> IF k = l + 1 THEN Ask(a[l], text[l + 1]) ELSE a[k]]
  <2>2. \A k \in 0 .. l + 1 : b[k] = IF k = 0 THEN m ELSE Ask(b[k - 1], text[k])
    <3> TAKE k \in 0 .. l + 1
    <3>1. CASE k = 0
      BY <2>1, <3>1
    <3>2. CASE k = l + 1
      <4>1. b[k] = Ask(a[l], text[k]) /\ b[k - 1] = a[l] /\ k # 0
        BY <3>2
      <4> QED BY <4>1
    <3>3. CASE k # 0 /\ k # l + 1
      <4>1. k \in 0 .. l /\ k - 1 \in 0 .. l
        BY <3>3
      <4>2. b[k] = a[k] /\ b[k - 1] = a[k - 1]
        BY <3>3, <4>1
      <4>3. a[k] = Ask(a[k - 1], text[k])
        BY <2>1, <3>3, <4>1
      <4> QED BY <3>3, <4>2, <4>3
    <3> QED BY <3>1, <3>2, <3>3
  <2>3. b = [k \in 0 .. l + 1 |-> b[k]]
    OBVIOUS
  <2> HIDE DEF b
  <2>4. Def(b, l + 1)
    BY <2>2, <2>3
  <2> QED BY <2>4
<1>3. n \in S
  <2> HIDE DEF S
  <2> QED BY <1>1, <1>2, AllNat
<1>4. \E a : Def(a, n)
  BY <1>3
<1>5. AskedBy(m, text, n) = CHOOSE a : Def(a, n)
  BY DEF AskedBy, Ask
<1>6. Def(CHOOSE a : Def(a, n), n)
  <2> HIDE DEF Def
  <2> QED BY <1>4, Zenon
<1> QED BY <1>5, <1>6

\* What a valid entry of a text is known to be.
Readable(x) == x.addr \in Nat /\ x.name \in RouteIfaces /\ ParsedVia(x) \in Int \ {none}

\* The loop of csp_rtable_parse keeps table and routes together.
LEMMA ParsingHolds ==
    ASSUME NEW t, NEW m, NEW c \in BOOLEAN, Holds(t, m, c),
           NEW text, NEW n \in Nat, \A k \in 1 .. n : Readable(text[k])
    PROVE  Holds(AfterParsing(t, text, n)[n], AskedBy(m, text, n)[n], c)
<1> DEFINE A == AfterParsing(t, text, n)
           B == AskedBy(m, text, n)
           S == {k \in Nat : k <= n => Holds(A[k], B[k], c)}
<1>1. \A k \in 0 .. n : A[k] = IF k = 0 THEN t ELSE Parse(A[k - 1], text[k])
  <2>1. A = [k \in 0 .. n |-> IF k = 0 THEN t ELSE Parse(A[k - 1], text[k])]
    BY AfterParsingIs
  <2> HIDE DEF A
  <2> QED BY <2>1
<1>2. \A k \in 0 .. n : B[k] = IF k = 0 THEN m ELSE Ask(B[k - 1], text[k])
  <2>1. B = [k \in 0 .. n |-> IF k = 0 THEN m ELSE Ask(B[k - 1], text[k])]
    BY AskedByIs
  <2> HIDE DEF B
  <2> QED BY <2>1
<1> SUFFICES Holds(A[n], B[n], c)
  OBVIOUS
<1> HIDE DEF A, B
<1>3. 0 \in S
  BY <1>1, <1>2
<1>4. ASSUME NEW k \in Nat, k \in S PROVE k + 1 \in S
  <2> SUFFICES ASSUME k + 1 <= n PROVE Holds(A[k + 1], B[k + 1], c)
    OBVIOUS
  <2> DEFINE x == text[k + 1]
  <2>1. A[k + 1] = Parse(A[k], x) /\ B[k + 1] = Ask(B[k], x)
    BY <1>1, <1>2
  <2>2. Holds(A[k], B[k], c) /\ Readable(x)
    BY <1>4
  <2> HIDE DEF x
  <2>3. Holds(Parse(A[k], x), Ask(B[k], x), c)
    BY <2>2, SetHolds DEF Parse, Ask, Readable
  <2> QED BY <2>1, <2>3
<1>5. n \in S
  <2> HIDE DEF S
  <2> QED BY <1>3, <1>4, AllNat
<1> QED BY <1>5

\* The two ways to count the entries in front of the first invalid one agree.
LEMMA CountOfGood ==
    ASSUME NEW text, Len(text) \in Nat
    PROVE  LET bad   == {k \in 1 .. Len(text) : ~ValidText(text[k])}
               count == IF bad = {} THEN Len(text) ELSE (CHOOSE k \in bad : \A l \in bad : k <= l) - 1
               good  == {k \in 1 .. Len(text) : \A j \in 1 .. k : ValidText(text[j])}
           IN  count \in 0 .. Len(text) /\ Cardinality(good) = count /\ \A k \in 1 .. count : ValidText(text[k])
<1> DEFINE bad   == {k \in 1 .. Len(text) : ~ValidText(text[k])}
           count == IF bad = {} THEN Len(text) ELSE (CHOOSE k \in bad : \A l \in bad : k <= l) - 1
           good  == {k \in 1 .. Len(text) : \A j \in 1 .. k : ValidText(text[j])}
<1>1. bad # {} => count \in Int /\ count + 1 \in bad /\ \A l \in bad : count + 1 <= l
  <2> SUFFICES ASSUME bad # {} PROVE count \in Int /\ count + 1 \in bad /\ \A l \in bad : count + 1 <= l
    OBVIOUS
  <2> DEFINE first == CHOOSE k \in bad : \A l \in bad : k <= l
  <2>1. bad \subseteq Nat
    OBVIOUS
  <2>2. count = first - 1
    OBVIOUS
  <2> HIDE DEF bad, count
  <2>3. \E k \in bad : \A l \in bad : k <= l
    BY <2>1, LeastNat
  <2>4. first \in bad /\ \A l \in bad : first <= l
    BY <2>3
  <2>5. first \in Nat
    BY <2>1, <2>4
  <2> HIDE DEF first
  <2> QED BY <2>2, <2>4, <2>5
<1>2. bad = {} => count = Len(text)
  OBVIOUS
<1>3. \A k \in 1 .. Len(text) : k \in bad <=> ~ValidText(text[k])
  OBVIOUS
<1>4. bad \subseteq 1 .. Len(text)
  OBVIOUS
<1> HIDE DEF bad, count
<1>5. count \in 0 .. Len(text)
  BY <1>1, <1>2, <1>4
<1>6. \A k \in 1 .. count : ValidText(text[k])
  BY <1>1, <1>2, <1>3, <1>4, <1>5
<1>7. count < Len(text) => ~ValidText(text[count + 1])
  BY <1>1, <1>2, <1>3, <1>5
<1>8. good = 1 .. count
  BY <1>5, <1>6, <1>7
<1>9. Cardinality(1 .. count) = count
  BY <1>5, FS_Interval
<1> HIDE DEF good
<1>10. count \in 0 .. Len(text) /\ Cardinality(good) = count
  BY <1>5, <1>8, <1>9
<1> QED BY <1>6, <1>10 DEF count, bad, good

\* A load does what the sets of its valid entries do.
LEMMA LoadHolds ==
    ASSUME NEW t, NEW m, NEW c \in BOOLEAN, Holds(t, m, c),
           NEW text \in Seq([addr : Nat, mask : Int, name : STRING, via : Int])
    PROVE  LET good == {k \in 1 .. Len(text) : \A j \in 1 .. k : ValidText(text[j])}
               n    == Cardinality(good)
           IN  Holds(csp_rtable_load(t, text), AskedBy(m, text, n)[n], c)
<1> DEFINE n == Cardinality({k \in 1 .. Len(text) : \A j \in 1 .. k : ValidText(text[j])})
<1>0. Len(text) \in Nat
  OBVIOUS
<1>1. csp_rtable_load(t, text) = AfterParsing(t, text, n)[n]
  BY <1>0, CountOfGood DEF csp_rtable_load
<1>2. n \in 0 .. Len(text) /\ \A k \in 1 .. n : ValidText(text[k])
  BY <1>0, CountOfGood
<1> HIDE DEF n
<1>3. ASSUME NEW k \in 1 .. n PROVE Readable(text[k])
  <2>0. k \in 1 .. Len(text)
    BY <1>0, <1>2
  <2>1. text[k] \in [addr : Nat, mask : Int, name : STRING, via : Int] /\ ValidText(text[k])
    <3> DEFINE Row == [addr : Nat, mask : Int, name : STRING, via : Int]
    <3>1. text \in Seq(Row)
      OBVIOUS
    <3> HIDE DEF Row
    <3>2. text[k] \in Row
      BY <2>0, <3>1
    <3> QED BY <1>2, <3>2 DEF Row
  <2>2. text[k].name \in RouteIfaces
    BY <2>1 DEF ValidText
  <2>3. ParsedVia(text[k]) \in Int \ {none}
    BY <2>1 DEF ParsedVia, none, NoVia
  <2> QED BY <2>1, <2>2, <2>3 DEF Readable
<1>4. Holds(AfterParsing(t, text, n)[n], AskedBy(m, text, n)[n], c)
  BY <1>2, <1>3, ParsingHolds
<1> QED BY <1>1, <1>4 DEF n
-----------------------------------------------------------------------------
(* The steps, and what the table finds.                                    *)

\* The empty table.
LEMMA InitHolds ==
    ASSUME Init
    PROVE  IInv /\ cleared \in BOOLEAN
<1>1. r = [e |-> [k \in Slots |-> ZeroEntry], in |-> 0, over |-> FALSE] /\ DOMAIN routes = {}
      /\ cleared = FALSE
  BY DEF Init, rtable
<1>2. Used(r) = {}
  BY <1>1 DEF Used, Slots
<1>3. TypeOf(r)
  BY <1>1 DEF TypeOf
<1>4. r.in <= RtableSize
  BY <1>1, RtableAssumption
<1> QED BY <1>1, <1>2, <1>3, <1>4 DEF IInv, Holds, Entries, Masks, Sound, Complete, Unique

\* csp_rtable_clear: every entry is left behind.
LEMMA ClearHolds ==
    ASSUME IInv, cleared \in BOOLEAN, Clear
    PROVE  IInv' /\ cleared' \in BOOLEAN
<1>1. /\ r \in [e : {r.e}, in : Nat, over : BOOLEAN] /\ r.in \in Nat /\ r.over \in BOOLEAN
      /\ r.over \/ r.in <= RtableSize
  BY DEF IInv, Holds, TypeOf
<1>2. r' = [e |-> [k \in Slots |-> ZeroEntry], in |-> r.in, over |-> r.over]
  BY <1>1 DEF Clear, csp_rtable_free
<1>3. TypeOf(r') /\ r'.over = r.over /\ r'.in = r.in /\ \A k \in Slots : r'.e[k] = ZeroEntry
  BY <1>1, <1>2 DEF TypeOf
<1>4. ASSUME NEW k \in Used(r') PROVE cleared' /\ r'.e[k] = ZeroEntry /\ r'.e[k].mask \in 0 .. HostBits
  <2>1. k \in Slots /\ k < r.in
    BY <1>3, <1>4 DEF Used
  <2>2. r.in > 0
    BY <1>1, <2>1 DEF Slots
  <2>3. cleared'
    BY <2>2 DEF Clear
  <2>4. ZeroEntry.mask \in 0 .. HostBits
    BY HostBitsAssumption DEF ZeroEntry
  <2> QED BY <1>3, <2>1, <2>3, <2>4
<1>5. Entries(r', cleared') /\ Masks(r') /\ Sound(r', routes', cleared') /\ Unique(r', cleared')
  BY <1>4 DEF Entries, Masks, Sound, Unique
<1>6. Complete(r', routes')
  BY DEF Clear, Complete
<1> QED BY <1>1, <1>3, <1>5, <1>6 DEF IInv, Holds, Clear

\* Every step keeps table and routes together.
LEMMA NextHolds ==
    ASSUME IInv, cleared \in BOOLEAN, [Next]_rvars
    PROVE  IInv' /\ cleared' \in BOOLEAN
<1>1. CASE Set
  <2>1. PICK e \in Routes :
          /\ r' = csp_rtable_set(r, e.addr, e.mask, e.i, e.via)
          /\ routes' = IF e.i = "none" THEN routes ELSE Asked(routes, e.addr, e.mask, e.i, e.via)
          /\ cleared' = cleared
    BY <1>1 DEF Set
  <2>2. CASE e.i = "none"
    BY <2>1, <2>2 DEF csp_rtable_set, IInv
  <2>3. CASE e.i # "none"
    <3>1. Holds(csp_rtable_set(r, e.addr, e.mask, e.i, e.via),
                Asked(routes, e.addr, e.mask, e.i, e.via), cleared)
      <4>1. e.addr \in Nat /\ e.i \in RouteIfaces /\ e.via \in Int \ {none}
        BY <2>3, RouteAssumption DEF none, NoVia
      <4> QED BY <4>1, SetHolds DEF IInv
    <3> QED BY <2>1, <2>3, <3>1 DEF IInv
  <2> QED BY <2>2, <2>3
<1>2. CASE Load
  <2> DEFINE N(t) == Cardinality({k \in 1 .. Len(t) : \A j \in 1 .. k : ValidText(t[j])})
  <2>1. PICK t \in Texts : /\ r' = csp_rtable_load(r, t)
                           /\ routes' = AskedBy(routes, t, N(t))[N(t)]
                           /\ cleared' = cleared
    BY <1>2 DEF Load
  <2>2. t \in Seq([addr : Nat, mask : Int, name : STRING, via : Int])
    BY TextAssumption
  <2>3. Holds(csp_rtable_load(r, t), AskedBy(routes, t, N(t))[N(t)], cleared)
    BY <2>2, LoadHolds DEF IInv
  <2> QED BY <2>1, <2>3 DEF IInv
<1>3. CASE Clear
  BY <1>3, ClearHolds
<1>4. CASE UNCHANGED rvars
  BY <1>4 DEF rvars, IInv
<1> QED BY <1>1, <1>2, <1>3, <1>4 DEF Next

\* The scan of csp_rtable_find_route ends with one entry: of those with the
\* largest netmask, the last.
LEMMA FindsOne ==
    ASSUME NEW t, Masks(t), NEW M \in SUBSET Used(t), M # {}
    PROVE  \E j \in M :
             {k \in M : \A l \in M : \/ t.e[k].mask > t.e[l].mask
                                     \/ t.e[k].mask = t.e[l].mask /\ l <= k} = {j}
<1> DEFINE mask(k) == t.e[k].mask
           T == {HostBits - mask(k) : k \in M}
<1>0. HostBits \in Nat /\ RtableSize \in Nat
  BY HostBitsAssumption, RtableAssumption
<1>1. \A k \in M : mask(k) \in 0 .. HostBits /\ k \in 0 .. RtableSize - 1
  BY DEF Masks, Used, Slots
<1> HIDE DEF mask
<1>2. T \subseteq Nat /\ T # {}
  BY <1>0, <1>1
<1>3. PICK x \in T : \A y \in T : x <= y
  BY <1>2, LeastNat
<1>4. PICK a \in M : x = HostBits - mask(a)
  BY <1>3
<1>5. \A k \in M : mask(k) <= mask(a)
  <2> TAKE k \in M
  <2>1. HostBits - mask(a) <= HostBits - mask(k)
    BY <1>3, <1>4
  <2> QED BY <1>0, <1>1, <2>1
<1> DEFINE U == {RtableSize - k : k \in {l \in M : mask(l) = mask(a)}}
<1>6. U \subseteq Nat /\ U # {}
  BY <1>0, <1>1, <1>4
<1>7. PICK z \in U : \A y \in U : z <= y
  BY <1>6, LeastNat
<1>8. PICK j \in M : mask(j) = mask(a) /\ z = RtableSize - j
  BY <1>7
<1>9. \A l \in M : mask(l) = mask(a) => l <= j
  <2> SUFFICES ASSUME NEW l \in M, mask(l) = mask(a) PROVE l <= j
    OBVIOUS
  <2>1. RtableSize - j <= RtableSize - l
    BY <1>7, <1>8
  <2> QED BY <1>0, <1>1, <2>1
<1> HIDE DEF T, U
<1> DEFINE best == {k \in M : \A l \in M : mask(k) > mask(l) \/ (mask(k) = mask(l) /\ l <= k)}
<1>10. j \in best
  <2>1. \A l \in M : mask(j) > mask(l) \/ (mask(j) = mask(l) /\ l <= j)
    BY <1>1, <1>5, <1>8, <1>9
  <2> QED BY <2>1
<1>11. ASSUME NEW k \in best PROVE k = j
  <2>1. k \in M /\ (mask(k) > mask(j) \/ (mask(k) = mask(j) /\ j <= k))
    OBVIOUS
  <2>2. mask(k) = mask(a) /\ j <= k
    BY <1>1, <1>5, <1>8, <2>1
  <2> QED BY <1>1, <1>9, <2>1, <2>2
<1>12. best = {j}
  BY <1>10, <1>11
<1> QED BY <1>12 DEF mask

\* The property follows from the invariant.
LEMMA HoldsFinds ==
    ASSUME IInv, cleared \in BOOLEAN
    PROVE  LongestPrefix
<1> SUFFICES ASSUME ~r.over, NEW addr \in 0 .. csp_id_get_max_nodeid
             PROVE  LET match == {p \in DOMAIN routes : SameNetwork(p[1], addr, p[2])}
                        found == csp_rtable_find_route(r, addr)
                    IN  IF \A p \in match : cleared /\ p[2] = 0
                        THEN \A e \in found : cleared /\ e.mask = 0
                        ELSE \E e \in found :
                                /\ found = {e} /\ <<e.addr, e.mask>> \in match
                                /\ \A p \in match : p[2] <= e.mask
                                /\ routes[<<e.addr, e.mask>>] = [i |-> e.i, via |-> e.via]
  BY DEF LongestPrefix
<1> DEFINE match == {p \in DOMAIN routes : SameNetwork(p[1], addr, p[2])}
           M == Matching(r, addr)
           best == {k \in M : \A l \in M : \/ r.e[k].mask > r.e[l].mask
                                           \/ r.e[k].mask = r.e[l].mask /\ l <= k}
           found == csp_rtable_find_route(r, addr)
<1>1. Masks(r) /\ Sound(r, routes, cleared) /\ Complete(r, routes)
  BY DEF IInv, Holds
<1>2. found = {r.e[k] : k \in best}
  BY DEF csp_rtable_find_route
<1>3. M \subseteq Used(r) /\ \A k \in M : SameNetwork(r.e[k].addr, addr, r.e[k].mask)
  BY DEF Matching
<1>4. \A k \in M : \/ Key(r.e[k]) \in match /\ routes[Key(r.e[k])] = Value(r.e[k])
                   \/ cleared /\ r.e[k] = ZeroEntry
  <2> TAKE k \in M
  <2>1. Key(r.e[k])[1] = r.e[k].addr /\ Key(r.e[k])[2] = r.e[k].mask
    BY DEF Key
  <2>2. Key(r.e[k]) \in DOMAIN routes => Key(r.e[k]) \in match
    BY <1>3, <2>1
  <2> QED BY <1>1, <1>3, <2>2 DEF Sound
<1>5. \A p \in match : \E k \in M : r.e[k].mask = p[2]
  <2> TAKE p \in match
  <2>1. PICK k \in Used(r) : Key(r.e[k]) = p
    BY <1>1 DEF Complete
  <2>2. r.e[k].addr = p[1] /\ r.e[k].mask = p[2]
    BY <2>1 DEF Key
  <2>3. k \in M
    BY <2>2 DEF Matching
  <2> QED BY <2>2, <2>3
<1>6. \A k \in M : r.e[k].mask \in 0 .. HostBits
  BY <1>1, <1>3 DEF Masks
<1>7. CASE \A p \in match : cleared /\ p[2] = 0
  <2>1. \A k \in M : cleared /\ r.e[k].mask = 0
    <3> TAKE k \in M
    <3>1. CASE Key(r.e[k]) \in match
      BY <1>7, <3>1 DEF Key
    <3>2. CASE cleared /\ r.e[k] = ZeroEntry
      BY <3>2 DEF ZeroEntry
    <3> QED BY <1>4, <3>1, <3>2
  <2>2. \A e \in found : cleared /\ e.mask = 0
    BY <1>2, <2>1
  <2> QED BY <1>7, <2>2
<1>8. CASE ~\A p \in match : cleared /\ p[2] = 0
  <2>1. PICK q \in match : ~(cleared /\ q[2] = 0)
    BY <1>8
  <2>2. PICK k0 \in M : r.e[k0].mask = q[2]
    BY <1>5
  <2>3. PICK j \in M : best = {j}
    BY <1>1, <1>3, <2>2, FindsOne
  <2>4. \A l \in M : r.e[l].mask <= r.e[j].mask
    BY <1>6, <2>3
  <2> HIDE DEF best, M, found, match
  <2> DEFINE e == r.e[j]
  <2>5. found = {e}
    BY <1>2, <2>3
  <2>6. \A p \in match : p[2] <= e.mask
    BY <1>5, <2>4
  <2>7. ~(cleared /\ e = ZeroEntry)
    <3> SUFFICES ASSUME cleared, e = ZeroEntry PROVE FALSE
      OBVIOUS
    <3>1. e.mask = 0
      BY DEF ZeroEntry
    <3>2. q[2] = 0
      BY <1>6, <2>2, <2>4, <3>1
    <3> QED BY <2>1, <3>2
  <2>8. Key(e) \in match /\ routes[Key(e)] = Value(e)
    BY <1>4, <2>7
  <2>9. /\ found = {e} /\ <<e.addr, e.mask>> \in match
        /\ \A p \in match : p[2] <= e.mask
        /\ routes[<<e.addr, e.mask>>] = [i |-> e.i, via |-> e.via]
    BY <2>5, <2>6, <2>8 DEF Key, Value
  <2> HIDE DEF e
  <2>10. \E x \in found :
                /\ found = {x} /\ <<x.addr, x.mask>> \in match
                /\ \A p \in match : p[2] <= x.mask
                /\ routes[<<x.addr, x.mask>>] = [i |-> x.i, via |-> x.via]
    BY <2>9
  <2> QED BY <1>8, <2>10 DEF found, match
<1> QED BY <1>7, <1>8

\* csp_rtable_find_route gives the entry last set for the longest prefix that was
\* asked for, after any sequence of csp_rtable_set, csp_rtable_load and
\* csp_rtable_clear that does not overrun the table.
THEOREM FindsLongestPrefix == Spec => []LongestPrefix
<1>1. Init => IInv /\ cleared \in BOOLEAN
  BY InitHolds
<1>2. (IInv /\ cleared \in BOOLEAN) /\ [Next]_rvars => (IInv /\ cleared \in BOOLEAN)'
  BY NextHolds
<1>3. IInv /\ cleared \in BOOLEAN => LongestPrefix
  BY HoldsFinds
<1> QED BY <1>1, <1>2, <1>3, PTL DEF Spec

-----------------------------------------------------------------------------
(* csp_rtable_save, and the load of what it has written.                   *)

SaveRow(text, e) == IF e.i = "lo" THEN text ELSE Append(text, csp_rtable_save_route(e))

\* What the recursive definition defines.
LEMMA AfterSavingIs ==
    ASSUME NEW rows, Len(rows) \in Nat
    PROVE  AfterSaving(rows) =
             [k \in 0 .. Len(rows) |-> IF k = 0 THEN <<>> ELSE SaveRow(AfterSaving(rows)[k - 1], rows[k])]
<1> DEFINE Def(a, l) == a = [k \in 0 .. l |-> IF k = 0 THEN <<>> ELSE SaveRow(a[k - 1], rows[k])]
           S == {l \in Nat : \E a : Def(a, l)}
<1>1. 0 \in S
  <2> DEFINE a == [k \in 0 .. 0 |-> <<>>]
  <2>1. Def(a, 0)
    OBVIOUS
  <2> QED BY <2>1
<1>2. ASSUME NEW l \in Nat, l \in S PROVE l + 1 \in S
  <2>1. PICK a : Def(a, l)
    BY <1>2
  <2> DEFINE b == [k \in 0 .. l + 1 |-> IF k = l + 1 THEN SaveRow(a[l], rows[l + 1]) ELSE a[k]]
  <2>2. \A k \in 0 .. l + 1 : b[k] = IF k = 0 THEN <<>> ELSE SaveRow(b[k - 1], rows[k])
    <3> TAKE k \in 0 .. l + 1
    <3>1. CASE k = 0
      BY <2>1, <3>1
    <3>2. CASE k = l + 1
      <4>1. b[k] = SaveRow(a[l], rows[k]) /\ b[k - 1] = a[l] /\ k # 0
        BY <3>2
      <4> QED BY <4>1
    <3>3. CASE k # 0 /\ k # l + 1
      <4>1. k \in 0 .. l /\ k - 1 \in 0 .. l
        BY <3>3
      <4>2. b[k] = a[k] /\ b[k - 1] = a[k - 1]
        BY <3>3, <4>1
      <4>3. a[k] = SaveRow(a[k - 1], rows[k])
        BY <2>1, <3>3, <4>1
      <4> QED BY <3>3, <4>2, <4>3
    <3> QED BY <3>1, <3>2, <3>3
  <2>3. b = [k \in 0 .. l + 1 |-> b[k]]
    OBVIOUS
  <2> HIDE DEF b
  <2>4. Def(b, l + 1)
    BY <2>2, <2>3
  <2> QED BY <2>4
<1>3. Len(rows) \in S
  <2> HIDE DEF S
  <2> QED BY <1>1, <1>2, AllNat
<1>4. \E a : Def(a, Len(rows))
  BY <1>3
<1>5. AfterSaving(rows) = CHOOSE a : Def(a, Len(rows))
  BY DEF AfterSaving, SaveRow
<1>6. Def(CHOOSE a : Def(a, Len(rows)), Len(rows))
  <2> HIDE DEF Def
  <2> QED BY <1>4, Zenon
<1> QED BY <1>5, <1>6

\* The rows that are saved, and where the k-th row comes to be.
Saved(rows) == {k \in 1 .. Len(rows) : rows[k].i # "lo"}
Place(rows, k) == Cardinality({l \in Saved(rows) : l <= k})

\* A row moves the place by one if it is saved.
LEMMA PlaceSteps ==
    ASSUME NEW rows, Len(rows) \in Nat
    PROVE  /\ \A k \in 0 .. Len(rows) : Place(rows, k) \in Nat /\ Place(rows, k) <= k
           /\ Place(rows, 0) = 0 /\ Place(rows, Len(rows)) = Cardinality(Saved(rows))
           /\ \A k \in 1 .. Len(rows) :
                Place(rows, k) = IF k \in Saved(rows) THEN Place(rows, k - 1) + 1 ELSE Place(rows, k - 1)
<1> DEFINE n == Len(rows)
           upto(k) == {l \in Saved(rows) : l <= k}
<1>0. Saved(rows) \subseteq 1 .. n /\ IsFiniteSet(1 .. n)
  BY FS_Interval DEF Saved
<1>1. \A k \in 0 .. n : IsFiniteSet(upto(k)) /\ Cardinality(upto(k)) \in Nat
  <2> TAKE k \in 0 .. n
  <2>1. upto(k) \subseteq 1 .. n
    BY <1>0
  <2> HIDE DEF upto
  <2>2. IsFiniteSet(upto(k))
    BY <1>0, <2>1, FS_Subset
  <2> QED BY <2>2, FS_CardinalityType
<1>2. \A k \in 0 .. n : Cardinality(upto(k)) <= k
  <2> TAKE k \in 0 .. n
  <2>1. upto(k) \subseteq 1 .. k
    BY <1>0
  <2>2. IsFiniteSet(1 .. k) /\ Cardinality(1 .. k) = k
    BY FS_Interval
  <2> HIDE DEF upto
  <2> QED BY <2>1, <2>2, FS_Subset
<1>3. upto(0) = {} /\ upto(n) = Saved(rows)
  BY <1>0
<1>4. Cardinality({}) = 0
  BY FS_EmptySet
<1>5. ASSUME NEW k \in 1 .. n, k \in Saved(rows)
      PROVE  Cardinality(upto(k)) = Cardinality(upto(k - 1)) + 1
  <2>1. upto(k) = upto(k - 1) \cup {k} /\ k \notin upto(k - 1) /\ k - 1 \in 0 .. n
    BY <1>0, <1>5
  <2> HIDE DEF upto
  <2> QED BY <1>1, <2>1, FS_AddElement
<1>6. ASSUME NEW k \in 1 .. n, k \notin Saved(rows)
      PROVE  Cardinality(upto(k)) = Cardinality(upto(k - 1))
  <2>1. upto(k) = upto(k - 1)
    BY <1>0, <1>6
  <2> QED BY <2>1
<1>7. \A k : Place(rows, k) = Cardinality(upto(k))
  BY DEF Place
<1> HIDE DEF upto
<1> QED BY <1>1, <1>2, <1>3, <1>4, <1>5, <1>6, <1>7

\* A saved row has a place behind those of the saved rows before it.
LEMMA PlaceOrder ==
    ASSUME NEW rows, Len(rows) \in Nat, NEW k \in 0 .. Len(rows), NEW l \in Saved(rows), l <= k
    PROVE  Place(rows, l) \in 1 .. Place(rows, k)
<1> DEFINE upto(j) == {i \in Saved(rows) : i <= j}
<1>0. Saved(rows) \subseteq 1 .. Len(rows) /\ IsFiniteSet(1 .. Len(rows))
  BY FS_Interval DEF Saved
<1>1. upto(l) \subseteq upto(k) /\ upto(k) \subseteq 1 .. Len(rows) /\ l \in upto(l)
  BY <1>0
<1>2. Place(rows, l) = Cardinality(upto(l)) /\ Place(rows, k) = Cardinality(upto(k))
  BY DEF Place
<1> HIDE DEF upto
<1>3. IsFiniteSet(upto(k))
  BY <1>0, <1>1, FS_Subset
<1>4. IsFiniteSet(upto(l)) /\ Cardinality(upto(l)) <= Cardinality(upto(k))
  BY <1>1, <1>3, FS_Subset
<1>5. Cardinality(upto(l)) \in Nat /\ Cardinality(upto(k)) \in Nat /\ Cardinality(upto(l)) # 0
  BY <1>1, <1>3, <1>4, FS_CardinalityType, FS_EmptySet
<1> QED BY <1>2, <1>4, <1>5

\* The text that is saved: one entry for each saved row, in its place.
TextUpTo(rows, text, k) ==
    /\ IsSeq(text) /\ Len(text) = Place(rows, k)
    /\ \A l \in Saved(rows) : l <= k => /\ Place(rows, l) \in 1 .. Place(rows, k)
                                       /\ text[Place(rows, l)] = csp_rtable_save_route(rows[l])
    /\ \A j \in 1 .. Place(rows, k) :
         \E l \in Saved(rows) : text[j] = csp_rtable_save_route(rows[l])

\* Every saved row has its text at the row's place.
LEMMA SavedText ==
    ASSUME NEW rows, Len(rows) \in Nat
    PROVE  TextUpTo(rows, AfterSaving(rows)[Len(rows)], Len(rows))
<1> DEFINE n == Len(rows)
           T == AfterSaving(rows)
           K == Saved(rows)
           P(k) == Place(rows, k)
           S == {k \in Nat : k <= n => TextUpTo(rows, T[k], k)}
<1>1. \A k \in 0 .. n : T[k] = IF k = 0 THEN <<>> ELSE SaveRow(T[k - 1], rows[k])
  <2>1. T = [k \in 0 .. n |-> IF k = 0 THEN <<>> ELSE SaveRow(T[k - 1], rows[k])]
    BY AfterSavingIs
  <2> HIDE DEF T
  <2> QED BY <2>1
<1>2. /\ \A k \in 0 .. n : P(k) \in Nat
      /\ P(0) = 0
      /\ \A k \in 1 .. n : P(k) = IF k \in K THEN P(k - 1) + 1 ELSE P(k - 1)
  BY PlaceSteps
<1>3. K \subseteq 1 .. n /\ \A k \in 1 .. n : k \in K <=> rows[k].i # "lo"
  BY DEF Saved
<1>4. 0 \in S
  <2>1. T[0] = <<>>
    BY <1>1
  <2>2. TextUpTo(rows, <<>>, 0)
    BY <1>2, <1>3, EmptyIsSeq DEF TextUpTo
  <2> QED BY <2>1, <2>2
<1> SUFFICES TextUpTo(rows, T[n], n)
  OBVIOUS
<1> HIDE DEF T, K, P
<1>5. ASSUME NEW k \in Nat, k \in S PROVE k + 1 \in S
  <2> SUFFICES ASSUME k + 1 <= n PROVE TextUpTo(rows, T[k + 1], k + 1)
    OBVIOUS
  <2> DEFINE x == T[k]
             y == T[k + 1]
             e == rows[k + 1]
  <2>0. /\ IsSeq(x) /\ Len(x) = P(k)
        /\ \A l \in K : l <= k => P(l) \in 1 .. P(k) /\ x[P(l)] = csp_rtable_save_route(rows[l])
        /\ \A j \in 1 .. P(k) : \E l \in K : x[j] = csp_rtable_save_route(rows[l])
    BY <1>5 DEF TextUpTo, P, K
  <2>1. y = SaveRow(x, e) /\ P(k) \in Nat /\ k + 1 \in 1 .. n
    BY <1>1, <1>2
  <2> HIDE DEF x, y, e
  <2>2. CASE k + 1 \notin K
    <3>1. y = x /\ P(k + 1) = P(k)
      BY <1>2, <1>3, <2>1, <2>2 DEF SaveRow, e
    <3>2. \A l \in K : l <= k + 1 => l <= k
      BY <1>3, <2>2
    <3>3. TextUpTo(rows, y, k + 1)
      BY <2>0, <3>1, <3>2 DEF TextUpTo, P, K
    <3> QED BY <3>3 DEF y
  <2>3. CASE k + 1 \in K
    <3>1. y = Append(x, csp_rtable_save_route(e)) /\ P(k + 1) = P(k) + 1
      BY <1>2, <1>3, <2>1, <2>3 DEF SaveRow, e
    <3>2. /\ IsSeq(y) /\ Len(y) = P(k) + 1 /\ y[P(k) + 1] = csp_rtable_save_route(e)
          /\ \A j \in 1 .. P(k) : y[j] = x[j]
      BY <2>0, <3>1, AppendIsSeq
    <3>3. ASSUME NEW l \in K, l <= k + 1
          PROVE  P(l) \in 1 .. P(k + 1) /\ y[P(l)] = csp_rtable_save_route(rows[l])
      <4>1. CASE l <= k
        BY <2>0, <2>1, <3>1, <3>2, <4>1
      <4>2. CASE l = k + 1
        BY <2>1, <3>1, <3>2, <4>2 DEF e
      <4> QED BY <1>3, <3>3, <4>1, <4>2
    <3>4. ASSUME NEW j \in 1 .. P(k + 1) PROVE \E l \in K : y[j] = csp_rtable_save_route(rows[l])
      <4>1. CASE j \in 1 .. P(k)
        BY <2>0, <3>2, <4>1
      <4>2. CASE j = P(k) + 1
        BY <2>3, <3>2, <4>2 DEF e
      <4>3. j \in 1 .. P(k) \/ j = P(k) + 1
        BY <2>1, <3>1
      <4> QED BY <4>1, <4>2, <4>3
    <3>5. TextUpTo(rows, y, k + 1)
      BY <3>1, <3>2, <3>3, <3>4 DEF TextUpTo, P, K
    <3> QED BY <3>5 DEF y
  <2> QED BY <2>2, <2>3
<1>6. n \in S
  <2> HIDE DEF S
  <2> QED BY <1>4, <1>5, AllNat
<1> QED BY <1>6

\* The text of an entry is valid, and parsing it sets the entry again.
LEMMA RouteAgain ==
    ASSUME NEW e \in Entry, NEW t, e.addr <= csp_id_get_max_nodeid
    PROVE  LET x == csp_rtable_save_route(e)
           IN  ValidText(x) /\ Parse(t, x) = csp_rtable_set_internal(t, e.addr, e.mask, e.i, e.via)
<1> DEFINE x == csp_rtable_save_route(e)
<1>0. /\ e.addr \in Nat /\ e.mask \in 0 .. HostBits /\ e.i \in RouteIfaces
      /\ e.via \in Int /\ e.via # none /\ HostBits \in Nat /\ none = -2 /\ NoVia = -1
  BY HostBitsAssumption DEF Entry, none, NoVia
<1>1. /\ x.addr = e.addr /\ x.name = e.i /\ x.mask = (IF e.mask = HostBits THEN none ELSE e.mask)
      /\ x.via = (IF e.via = NoVia THEN none ELSE e.via)
  BY DEF csp_rtable_save_route
<1> HIDE DEF x
<1>2. ParsedMask(x) = e.mask /\ ParsedVia(x) = e.via
  BY <1>0, <1>1 DEF ParsedMask, ParsedVia
<1>3. Netmask(e.mask) = e.mask
  BY <1>0 DEF Netmask
<1>4. ValidText(x)
  <2>1. x.mask = none \/ x.mask <= HostBits
    BY <1>0, <1>1
  <2> QED BY <1>0, <1>1, <2>1 DEF ValidText
<1>5. Parse(t, x) = csp_rtable_set_internal(t, e.addr, e.mask, e.i, e.via)
  BY <1>0, <1>1, <1>2, <1>3, RtableAssumption DEF Parse, csp_rtable_set
<1> QED BY <1>4, <1>5 DEF x

\* The table that the text gives so far: the saved rows, each in its place.
TableUpTo(rows, t, k) ==
    /\ TypeOf(t) /\ ~t.over /\ t.in = Place(rows, k)
    /\ \A l \in Saved(rows) : l <= k => t.e[Place(rows, l) - 1] = rows[l]
    /\ \A j \in Used(t) : \E l \in Saved(rows) : l <= k /\ t.e[j] = rows[l]

\* A set of a new prefix appends its entry.
LEMMA SetAppends ==
    ASSUME NEW t, TypeOf(t), t.in < RtableSize, NEW x \in Entry,
           \A k \in Used(t) : Key(t.e[k]) # Key(x)
    PROVE  LET u == csp_rtable_set_internal(t, x.addr, x.mask, x.i, x.via)
           IN  /\ TypeOf(u) /\ u.over = t.over /\ u.in = t.in + 1 /\ u.e[t.in] = x
               /\ \A k \in Slots : k # t.in => u.e[k] = t.e[k]
               /\ \A k \in Used(u) : k = t.in \/ k \in Used(t)
<1> DEFINE u == csp_rtable_set_internal(t, x.addr, x.mask, x.i, x.via)
<1>0. /\ t \in [e : {t.e}, in : Nat, over : BOOLEAN] /\ t.in \in Nat /\ t.over \in BOOLEAN
      /\ t.e \in [Slots -> {t.e[k] : k \in Slots}] /\ RtableSize \in Nat
  BY RtableAssumption DEF TypeOf
<1>1. csp_rtable_find_exact(t, x.addr, x.mask) = {}
  BY DEF csp_rtable_find_exact, Key
<1>2. x = [addr |-> x.addr, mask |-> x.mask, i |-> x.i, via |-> x.via]
  BY DEF Entry
<1>3. u = [t EXCEPT !.in = @ + 1, !.e[t.in] = x]
  BY <1>1, <1>2 DEF csp_rtable_set_internal
<1>4. u = [e |-> [t.e EXCEPT ![t.in] = x], in |-> t.in + 1, over |-> t.over]
  BY <1>0, <1>3
<1> HIDE DEF u
<1>5. t.in \in Slots
  BY <1>0 DEF Slots
<1>6. /\ u \in [e : {u.e}, in : Nat, over : BOOLEAN] /\ u.in = t.in + 1 /\ u.over = t.over
      /\ u.e = [t.e EXCEPT ![t.in] = x]
  BY <1>0, <1>4
<1>7. u.e \in [Slots -> {u.e[k] : k \in Slots}] /\ u.e[t.in] = x
      /\ \A k \in Slots : k # t.in => u.e[k] = t.e[k]
  BY <1>0, <1>5, <1>6
<1>8. TypeOf(u)
  BY <1>6, <1>7 DEF TypeOf
<1>9. \A k \in Used(u) : k = t.in \/ k \in Used(t)
  BY <1>0, <1>6 DEF Used, Slots
<1> QED BY <1>6, <1>7, <1>8, <1>9 DEF u

\* The text of rows with different prefixes fills an empty table with them.
LEMMA TextLoads ==
    ASSUME NEW rows, Len(rows) \in Nat, Len(rows) <= RtableSize,
           \A l \in Saved(rows) : rows[l] \in Entry /\ rows[l].addr <= csp_id_get_max_nodeid,
           \A k, l \in Saved(rows) : k < l => Key(rows[k]) # Key(rows[l]),
           NEW text, TextUpTo(rows, text, Len(rows))
    PROVE  /\ csp_rtable_check(text) = Len(text)
           /\ TableUpTo(rows, csp_rtable_load(rtable, text), Len(rows))
<1> DEFINE n == Len(rows)
           m == Len(text)
           A == AfterParsing(rtable, text, m)
           K == Saved(rows)
           P(k) == Place(rows, k)
           S == {k \in Nat : k <= n => TableUpTo(rows, A[P(k)], k)}
<1>1. \A j \in 1 .. m : ValidText(text[j])
  <2> TAKE j \in 1 .. m
  <2>1. PICK l \in K : text[j] = csp_rtable_save_route(rows[l])
    BY DEF TextUpTo
  <2> QED BY <2>1, RouteAgain
<1>2. csp_rtable_check(text) = m
  BY <1>1 DEF csp_rtable_check
<1>3. csp_rtable_load(rtable, text) = A[m]
  BY <1>1 DEF csp_rtable_load
<1>4. m = P(n) /\ m \in Nat /\ \A l \in K : P(l) \in 1 .. m /\ text[P(l)] = csp_rtable_save_route(rows[l])
  BY DEF TextUpTo, IsSeq, Saved
<1>5. \A j \in 0 .. m : A[j] = IF j = 0 THEN rtable ELSE Parse(A[j - 1], text[j])
  <2>1. A = [j \in 0 .. m |-> IF j = 0 THEN rtable ELSE Parse(A[j - 1], text[j])]
    BY <1>4, AfterParsingIs
  <2> HIDE DEF A
  <2> QED BY <2>1
<1>6. /\ \A k \in 0 .. n : P(k) \in Nat /\ P(k) <= k
      /\ P(0) = 0
      /\ \A k \in 1 .. n : P(k) = IF k \in K THEN P(k - 1) + 1 ELSE P(k - 1)
  BY PlaceSteps
<1>7. K \subseteq 1 .. n
  BY DEF Saved
<1>8. 0 \in S
  <2>1. A[P(0)] = [e |-> [k \in Slots |-> ZeroEntry], in |-> 0, over |-> FALSE]
    <3> HIDE DEF A, P, m
    <3>1. A[0] = rtable
      BY <1>4, <1>5
    <3> QED BY <1>6, <3>1 DEF rtable
  <2> HIDE DEF A
  <2>2. TypeOf(A[P(0)]) /\ ~A[P(0)].over /\ A[P(0)].in = 0 /\ Used(A[P(0)]) = {}
    BY <2>1 DEF TypeOf, Used, Slots
  <2>3. \A l \in K : ~(l <= 0)
    BY <1>7
  <2>4. TableUpTo(rows, A[P(0)], 0)
    BY <1>6, <2>2, <2>3 DEF TableUpTo
  <2> QED BY <2>4
<1> HIDE DEF A, K, P, m
<1>9. ASSUME NEW k \in Nat, k \in S PROVE k + 1 \in S
  <2> SUFFICES ASSUME k + 1 <= n PROVE TableUpTo(rows, A[P(k + 1)], k + 1)
    OBVIOUS
  <2>0. k \in 0 .. n /\ k + 1 \in 1 .. n /\ P(k) \in Nat /\ P(k) <= k
    BY <1>6
  <2> DEFINE t == A[P(k)]
             u == A[P(k + 1)]
             x == rows[k + 1]
  <2>1. /\ TypeOf(t) /\ ~t.over /\ t.in = P(k)
        /\ \A l \in K : l <= k => t.e[P(l) - 1] = rows[l]
        /\ \A j \in Used(t) : \E l \in K : l <= k /\ t.e[j] = rows[l]
    BY <1>9, <2>0 DEF TableUpTo, P, K
  <2>2. CASE k + 1 \notin K
    <3>1. u = t /\ P(k + 1) = P(k)
      BY <1>6, <2>0, <2>2
    <3>2. \A l \in K : l <= k + 1 <=> l <= k
      BY <1>7, <2>2
    <3> HIDE DEF t, u
    <3>3. TableUpTo(rows, u, k + 1)
      BY <2>1, <3>1, <3>2 DEF TableUpTo, P, K
    <3> QED BY <3>3 DEF u
  <2>3. CASE k + 1 \in K
    <3>1. P(k + 1) = P(k) + 1 /\ P(k + 1) \in 1 .. m
      BY <1>4, <1>6, <2>0, <2>3
    <3>2. u = Parse(t, text[P(k + 1)]) /\ text[P(k + 1)] = csp_rtable_save_route(x)
      BY <1>4, <1>5, <2>0, <2>3, <3>1
    <3>3. x \in Entry /\ x.addr <= csp_id_get_max_nodeid
      BY <2>3 DEF K
    <3> HIDE DEF t, u, x
    <3>4. u = csp_rtable_set_internal(t, x.addr, x.mask, x.i, x.via)
      BY <3>2, <3>3, RouteAgain
    <3>5. t.in < RtableSize
      BY <2>0, <2>1, RtableAssumption
    <3>6. \A j \in Used(t) : Key(t.e[j]) # Key(x)
      <4> TAKE j \in Used(t)
      <4>1. PICK l \in K : l <= k /\ t.e[j] = rows[l]
        BY <2>1
      <4>2. l < k + 1
        BY <1>7, <4>1
      <4>3. Key(rows[l]) # Key(rows[k + 1])
        BY <2>3, <4>2 DEF K
      <4> QED BY <4>1, <4>3 DEF x
    <3>7. /\ TypeOf(u) /\ u.over = t.over /\ u.in = t.in + 1 /\ u.e[t.in] = x
          /\ \A j \in Slots : j # t.in => u.e[j] = t.e[j]
          /\ \A j \in Used(u) : j = t.in \/ j \in Used(t)
      BY <2>1, <3>3, <3>4, <3>5, <3>6, SetAppends
    <3>8. ASSUME NEW l \in K, l <= k + 1 PROVE u.e[P(l) - 1] = rows[l]
      <4>1. CASE l = k + 1
        BY <2>0, <2>1, <3>1, <3>7, <4>1 DEF x
      <4>2. CASE l <= k
        <5>1. P(l) - 1 \in Slots /\ P(l) - 1 # t.in
          <6>1. P(l) \in 1 .. P(k)
            BY <4>2, PlaceOrder, <2>0 DEF P, K
          <6> QED BY <2>0, <2>1, <3>5, <6>1, RtableAssumption DEF Slots
        <5> QED BY <2>1, <3>7, <4>2, <5>1
      <4> QED BY <1>7, <3>8, <4>1, <4>2
    <3>9. ASSUME NEW j \in Used(u) PROVE \E l \in K : l <= k + 1 /\ u.e[j] = rows[l]
      <4>1. CASE j = t.in
        BY <2>3, <3>7, <4>1 DEF x
      <4>2. CASE j # t.in
        <5>1. j \in Used(t) /\ j \in Slots
          BY <3>7, <4>2 DEF Used
        <5>2. PICK l \in K : l <= k /\ t.e[j] = rows[l]
          BY <2>1, <5>1
        <5>3. l <= k + 1
          BY <1>7, <5>2
        <5> QED BY <3>7, <4>2, <5>1, <5>2, <5>3
      <4> QED BY <4>1, <4>2
    <3>10. TableUpTo(rows, u, k + 1)
      <4>1. u.in = P(k + 1) /\ ~u.over
        BY <2>1, <3>1, <3>7
      <4> QED BY <3>7, <3>8, <3>9, <4>1 DEF TableUpTo, P, K
    <3> QED BY <3>10 DEF u
  <2> QED BY <2>2, <2>3
<1>10. n \in S
  <2> HIDE DEF S
  <2> QED BY <1>8, <1>9, AllNat
<1>11. TableUpTo(rows, A[m], n)
  BY <1>4, <1>10
<1> QED BY <1>2, <1>3, <1>11 DEF m

\* The entries of a table in the order of csp_rtable_iterate.
LEMMA IterateIs ==
    ASSUME NEW t, t.in \in Nat, t.in <= RtableSize
    PROVE  /\ csp_rtable_iterate(t) = [k \in 1 .. t.in |-> t.e[k - 1]]
           /\ Len(csp_rtable_iterate(t)) = t.in /\ DOMAIN csp_rtable_iterate(t) = 1 .. t.in
           /\ \A k \in 1 .. t.in : k - 1 \in Used(t) /\ csp_rtable_iterate(t)[k] = t.e[k - 1]
<1>1. Used(t) = 0 .. t.in - 1
  BY RtableAssumption DEF Used, Slots
<1>2. Cardinality(0 .. t.in - 1) = t.in
  <2>1. t.in - 1 \in Int /\ (t.in - 1) - 0 + 1 = t.in
    OBVIOUS
  <2> QED BY <2>1, FS_Interval
<1>3. csp_rtable_iterate(t) = [k \in 1 .. t.in |-> t.e[k - 1]]
  BY <1>1, <1>2 DEF csp_rtable_iterate
<1> QED BY <1>1, <1>3

\* The property follows from the invariant.
LEMMA HoldsSaved ==
    ASSUME IInv, cleared \in BOOLEAN
    PROVE  SavedLoads
<1> DEFINE rows  == csp_rtable_iterate(r)
           kept  == {k \in DOMAIN rows : rows[k].i # "lo"}
           text  == csp_rtable_save(r)
           u     == csp_rtable_load(rtable, text)
           again == csp_rtable_iterate(u)
<1> SUFFICES ASSUME ~r.over, ~cleared, \A k \in kept : rows[k].addr <= csp_id_get_max_nodeid
             PROVE  /\ csp_rtable_check(text) = Len(text)
                    /\ Len(again) = Cardinality(kept)
                    /\ \A k \in kept : again[Cardinality({l \in kept : l <= k})] = rows[k]
  BY DEF SavedLoads
<1>1. r.in \in Nat /\ r.in <= RtableSize /\ Entries(r, FALSE) /\ Unique(r, FALSE)
  BY DEF IInv, Holds, TypeOf
<1>2. /\ Len(rows) = r.in /\ DOMAIN rows = 1 .. r.in
      /\ \A k \in 1 .. r.in : k - 1 \in Used(r) /\ rows[k] = r.e[k - 1]
  BY <1>1, IterateIs
<1>3. kept = Saved(rows)
  BY <1>2 DEF Saved
<1>4. text = AfterSaving(rows)[Len(rows)]
  BY DEF csp_rtable_save
<1> HIDE DEF rows, text
<1>5. Saved(rows) \subseteq 1 .. r.in
  BY <1>2 DEF Saved
<1>6. \A l \in Saved(rows) : rows[l] \in Entry /\ rows[l].addr <= csp_id_get_max_nodeid
  BY <1>1, <1>2, <1>3, <1>5 DEF Entries
<1>7. ASSUME NEW k \in Saved(rows), NEW l \in Saved(rows), k < l PROVE Key(rows[k]) # Key(rows[l])
  <2>1. k - 1 \in Used(r) /\ l - 1 \in Used(r) /\ rows[k] = r.e[k - 1] /\ rows[l] = r.e[l - 1]
    BY <1>2, <1>5
  <2>2. k - 1 < l - 1
    BY <1>1, <1>5, <1>7
  <2> QED BY <1>1, <2>1, <2>2 DEF Unique
<1>8. TextUpTo(rows, text, Len(rows))
  BY <1>1, <1>2, <1>4, SavedText
<1>9. csp_rtable_check(text) = Len(text) /\ TableUpTo(rows, u, r.in)
  BY <1>1, <1>2, <1>6, <1>7, <1>8, TextLoads
<1> HIDE DEF u, kept
<1>10. /\ \A k \in 0 .. r.in : Place(rows, k) \in Nat /\ Place(rows, k) <= k
       /\ Place(rows, r.in) = Cardinality(Saved(rows))
  BY <1>1, <1>2, PlaceSteps
<1>11. u.in = Cardinality(kept) /\ u.in \in Nat /\ u.in <= RtableSize
  BY <1>1, <1>3, <1>9, <1>10, RtableAssumption DEF TableUpTo
<1>12. /\ Len(again) = u.in
       /\ \A k \in 1 .. u.in : again[k] = u.e[k - 1]
  BY <1>11, IterateIs
<1>13. ASSUME NEW k \in kept PROVE again[Cardinality({l \in kept : l <= k})] = rows[k]
  <2>1. k \in Saved(rows) /\ Place(rows, k) = Cardinality({l \in kept : l <= k})
    BY <1>3 DEF Place
  <2>2. Place(rows, k) \in 1 .. u.in
    BY <1>1, <1>2, <1>5, <1>9, <2>1, PlaceOrder DEF TableUpTo
  <2>3. u.e[Place(rows, k) - 1] = rows[k]
    BY <1>1, <1>5, <1>9, <2>1 DEF TableUpTo
  <2> QED BY <1>12, <2>1, <2>2, <2>3
<1> QED BY <1>9, <1>11, <1>12, <1>13

\* csp_rtable_save and csp_rtable_load agree on the text of a table: after any
\* sequence of calls that does not overrun or clear it, the table that is loaded
\* has the routes of the one that was saved, in their order.
THEOREM SavedTablesLoad == Spec => []SavedLoads
<1>1. Init => IInv /\ cleared \in BOOLEAN
  BY InitHolds
<1>2. (IInv /\ cleared \in BOOLEAN) /\ [Next]_rvars => (IInv /\ cleared \in BOOLEAN)'
  BY NextHolds
<1>3. IInv /\ cleared \in BOOLEAN => SavedLoads
  BY HoldsSaved
<1> QED BY <1>1, <1>2, <1>3, PTL DEF Spec
=============================================================================
