----------------------------- MODULE DataLemmas -----------------------------
(***************************************************************************)
(* Facts about numbers and sequences that the proofs of several components *)
(* use: induction over the naturals in the form of a set, and sequences    *)
(* whose elements have no set of their own.                                *)
(***************************************************************************)
EXTENDS Integers, Sequences, WellFoundedInduction, TLAPS

\* A sequence, of whatever.
IsSeq(x) == Len(x) \in Nat /\ x = [i \in 1 .. Len(x) |-> x[i]]

-----------------------------------------------------------------------------
(* Numbers.                                                                *)

\* A set of numbers has a least one.
LEMMA LeastNat ==
    ASSUME NEW T, T \subseteq Nat, T # {}
    PROVE  \E x \in T : \A y \in T : x <= y
<1> DEFINE R == {ss \in Nat \X Nat : ss[1] < ss[2]}
<1>1. IsWellFoundedOn(R, Nat)
  BY NatLessThanWellFounded DEF OpToRel
<1> HIDE DEF R
<1>2. \E x \in T : \A y \in T : ~(<<y, x>> \in R)
  BY <1>1, WFMin, Zenon
<1>3. PICK x \in T : \A y \in T : ~(<<y, x>> \in R)
  BY <1>2
<1>4. \A y \in T : y \in Nat /\ x \in Nat /\ ~(y < x)
  <2> TAKE y \in T
  <2>1. y \in Nat /\ x \in Nat /\ ~(<<y, x>> \in R)
    BY <1>3
  <2>2. y < x => <<y, x>> \in R
    BY <2>1 DEF R
  <2> QED BY <2>1, <2>2
<1>5. \A y \in T : x <= y
  BY <1>4
<1> QED BY <1>5

\* Induction: a set of numbers with 0 and with every successor is all of them.
LEMMA AllNat ==
    ASSUME NEW S, 0 \in S, \A n \in Nat : n \in S => n + 1 \in S
    PROVE  Nat \subseteq S
<1> DEFINE T == Nat \ S
<1>1. SUFFICES ASSUME T # {} PROVE FALSE
  OBVIOUS
<1>2. PICK x \in T : \A y \in T : x <= y
  BY <1>1, LeastNat
<1>3. x \in Nat /\ x # 0 /\ x - 1 \in Nat
  BY <1>2
<1>4. x - 1 \in S
  BY <1>2, <1>3
<1>5. (x - 1) + 1 \in S /\ (x - 1) + 1 = x
  BY <1>3, <1>4
<1> QED BY <1>2, <1>5

-----------------------------------------------------------------------------
(* Sequences without a set of elements.                                    *)

\* A sequence whose elements are in S.
LEMMA SeqIntro ==
    ASSUME NEW x, IsSeq(x), NEW S, \A i \in 1 .. Len(x) : x[i] \in S
    PROVE  x \in Seq(S)
<1>1. x \in [1 .. Len(x) -> S] /\ Len(x) \in Nat
  BY DEF IsSeq
<1> QED BY <1>1

\* A member of Seq(S) is a sequence.
LEMMA SeqIsSeq ==
    ASSUME NEW S, NEW x \in Seq(S)
    PROVE  IsSeq(x)
BY DEF IsSeq

\* Length and elements of Append.
LEMMA AppendIsSeq ==
    ASSUME NEW x, NEW e, IsSeq(x)
    PROVE  /\ IsSeq(Append(x, e)) /\ Len(Append(x, e)) = Len(x) + 1
           /\ \A i \in 1 .. Len(x) : Append(x, e)[i] = x[i]
           /\ Append(x, e)[Len(x) + 1] = e
<1> DEFINE S == {x[i] : i \in 1 .. Len(x)} \cup {e}
<1>1. x \in Seq(S) /\ e \in S
  BY SeqIntro
<1> HIDE DEF S
<1>2. Append(x, e) \in Seq(S)
  BY <1>1
<1>3. IsSeq(Append(x, e))
  BY <1>2, SeqIsSeq
<1> QED BY <1>1, <1>3

\* Length and elements of Tail.
LEMMA TailIsSeq ==
    ASSUME NEW x, IsSeq(x), x # <<>>
    PROVE  /\ IsSeq(Tail(x)) /\ Len(Tail(x)) = Len(x) - 1 /\ Len(x) > 0
           /\ Head(x) = x[1]
           /\ \A i \in 1 .. Len(x) - 1 : Tail(x)[i] = x[i + 1]
<1> DEFINE S == {x[i] : i \in 1 .. Len(x)}
<1>1. x \in Seq(S)
  BY SeqIntro
<1> HIDE DEF S
<1>2. Tail(x) \in Seq(S) /\ Len(x) > 0
  BY <1>1
<1>3. IsSeq(Tail(x))
  BY <1>2, SeqIsSeq
<1> QED BY <1>1, <1>2, <1>3

\* Length and elements of a concatenation.
LEMMA ConcatIsSeq ==
    ASSUME NEW x, NEW y, IsSeq(x), IsSeq(y)
    PROVE  IsSeq(x \o y) /\ Len(x \o y) = Len(x) + Len(y)
<1> DEFINE S == {x[i] : i \in 1 .. Len(x)} \cup {y[i] : i \in 1 .. Len(y)}
<1>1. x \in Seq(S) /\ y \in Seq(S)
  BY SeqIntro
<1> HIDE DEF S
<1>2. x \o y \in Seq(S)
  BY <1>1
<1>3. IsSeq(x \o y)
  BY <1>2, SeqIsSeq
<1> QED BY <1>1, <1>3

\* Length and elements of SubSeq.
LEMMA SubSeqIsSeq ==
    ASSUME NEW x, IsSeq(x), NEW m \in Nat, NEW n \in Int, m >= 1, n <= Len(x)
    PROVE  IsSeq(SubSeq(x, m, n))
<1> DEFINE S == {x[i] : i \in 1 .. Len(x)}
<1>1. x \in Seq(S)
  BY SeqIntro
<1> HIDE DEF S
<1>2. SubSeq(x, m, n) \in Seq(S)
  BY <1>1
<1> QED BY <1>2, SeqIsSeq

\* The empty sequence.
LEMMA EmptyIsSeq == IsSeq(<<>>) /\ Len(<<>>) = 0
BY DEF IsSeq
=============================================================================
