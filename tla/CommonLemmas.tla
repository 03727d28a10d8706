---------------------------- MODULE CommonLemmas ----------------------------
(***************************************************************************)
(* Facts that several of the proofs need.  About natural numbers: every    *)
(* set of them has a least element, which takes the place of induction, as *)
(* the least counterexample has none before it.  About sequences of        *)
(* instructions: how they are put together, whatever their elements.       *)
(***************************************************************************)
EXTENDS Integers, Sequences, FiniteSetsExt, FiniteSetTheorems, SequenceTheorems,
        WellFoundedInduction, TLAPS

(* Bounded sets of integers have ends. *)
LEMMA NaturalsHaveMin ==
    ASSUME NEW S, S \subseteq Nat, S # {}
    PROVE  Min(S) \in S /\ \A y \in S : Min(S) <= y
<1> DEFINE below == {1 .. y : y \in S}
<1>1. below \subseteq FiniteSubsetsOf(Nat) /\ below # {}
  <2>1. \A y \in S : 1 .. y \in SUBSET Nat /\ IsFiniteSet(1 .. y)
    BY FS_Interval
  <2> QED
    BY <2>1 DEF FiniteSubsetsOf
<1>2. PICK b \in below : \A c \in below : ~(<<c, b>> \in StrictSubsetOrdering(Nat))
  BY <1>1, FS_StrictSubsetOrderingWellFounded, WFMin
<1>3. PICK x \in S : b = 1 .. x
  OBVIOUS
<1>4. ASSUME NEW y \in S PROVE x <= y
  <2> SUFFICES ASSUME y < x PROVE FALSE
    BY <1>3
  <2>1. 1 .. y \in SUBSET Nat /\ 1 .. x \in SUBSET Nat /\ 1 .. y \subseteq 1 .. x
    OBVIOUS
  <2>2. x \in 1 .. x /\ x \notin 1 .. y
    OBVIOUS
  <2>3. <<1 .. y, 1 .. x>> \in StrictSubsetOrdering(Nat)
    BY <2>1, <2>2 DEF StrictSubsetOrdering
  <2> QED
    BY <1>2, <1>3, <2>3
<1> QED
  BY <1>4 DEF Min

LEMMA BoundedHaveMax ==
    ASSUME NEW S, NEW n \in Nat, S \subseteq 0 .. n, S # {}
    PROVE  Max(S) \in S /\ \A y \in S : y <= Max(S)
<1> DEFINE T == {n - y : y \in S}
<1>1. T \subseteq Nat /\ T # {}
  <2>1. \A y \in S : n - y \in Nat
    OBVIOUS
  <2>2. PICK y \in S : TRUE
    OBVIOUS
  <2>3. n - y \in T
    OBVIOUS
  <2> QED
    BY <2>1, <2>3
<1>2. PICK x \in T : \A y \in T : x <= y
  BY <1>1, NaturalsHaveMin
<1>3. PICK z \in S : x = n - z
  BY <1>2
<1>4. \A y \in S : y <= z
  <2> SUFFICES ASSUME NEW y \in S PROVE y <= z
    OBVIOUS
  <2>1. n - y \in T
    OBVIOUS
  <2>2. x <= n - y
    BY <1>2, <2>1
  <2> QED
    BY <1>3, <2>2
<1> QED
  BY <1>4 DEF Max

-----------------------------------------------------------------------------
LEMMA Quotient ==
    ASSUME NEW r \in Nat, NEW w \in Nat \ {0}
    PROVE  /\ r \div w \in Nat /\ r % w \in 0 .. w - 1
           /\ r = w * (r \div w) + (r % w)
<1>1. r \div w \in Nat
  OBVIOUS
<1>2. r % w \in 0 .. w - 1
  OBVIOUS
<1>3. r = w * (r \div w) + (r % w)
  OBVIOUS
<1> QED
  BY <1>1, <1>2, <1>3

LEMMA SmallQuotient ==
    ASSUME NEW r \in Nat, NEW w \in Nat \ {0}, NEW k \in Nat, r < w * k
    PROVE  r \div w < k
<1> SUFFICES ASSUME r \div w >= k PROVE FALSE
  BY Quotient
<1>1. PICK q \in Nat, m \in Nat : q = r \div w /\ r = w * q + m
  BY Quotient
<1>2. PICK d \in Nat : q = k + d
  <2>1. q - k \in Nat /\ q = k + (q - k)
    BY <1>1
  <2> QED
    BY <2>1
<1>3. w * q = w * k + w * d /\ w * d \in Nat /\ w * k \in Nat
  BY <1>2
<1> QED
  BY <1>1, <1>3

LEMMA DigitsOf ==
    ASSUME NEW w \in Nat \ {0}, NEW h \in Nat, NEW l \in 0 .. w - 1
    PROVE  (w * h + l) \div w = h /\ (w * h + l) % w = l
<1>1. w * h + l \in Nat
  OBVIOUS
<1>2. PICK q \in Nat, m \in 0 .. w - 1 :
          q = (w * h + l) \div w /\ m = (w * h + l) % w /\ w * h + l = w * q + m
  BY <1>1, Quotient
<1>3. CASE q = h
  <2>1. w * q = w * h
    BY <1>3
  <2> QED
    BY <1>2, <1>3, <2>1
<1>4. CASE q < h
  <2>1. PICK d \in Nat : h = q + 1 + d
    <3>1. h - q - 1 \in Nat /\ h = q + 1 + (h - q - 1)
      BY <1>4
    <3> QED
      BY <3>1
  <2>2. w * h = w * q + w + w * d /\ w * d \in Nat /\ w * q \in Nat
    BY <2>1
  <2> QED
    BY <1>2, <2>2
<1>5. CASE q > h
  <2>1. PICK d \in Nat : q = h + 1 + d
    <3>1. q - h - 1 \in Nat /\ q = h + 1 + (q - h - 1)
      BY <1>5
    <3> QED
      BY <3>1
  <2>2. w * q = w * h + w + w * d /\ w * d \in Nat /\ w * h \in Nat
    BY <2>1
  <2> QED
    BY <1>2, <2>2
<1> QED
  BY <1>3, <1>4, <1>5

-----------------------------------------------------------------------------
IsSeq(w) == \E S : w \in Seq(S)

(* Sequences of whatever elements. *)
LEMMA Sequence ==
    ASSUME NEW u, IsSeq(u), NEW v, IsSeq(v), NEW w, IsSeq(w), NEW a
    PROVE  /\ IsSeq(<<>>) /\ IsSeq(<<a>>) /\ IsSeq(u \o v)
           /\ (u \o v) \o w = u \o (v \o w)
           /\ <<>> \o w = w
           /\ Len(u) \in Nat /\ Len(u \o v) = Len(u) + Len(v)
           /\ Head(<<a>> \o w) = a /\ Tail(<<a>> \o w) = w
           /\ Len(<<a>> \o w) = Len(w) + 1 /\ <<a>> \o w # <<>>
<1>1. PICK S1, S2, S3 : u \in Seq(S1) /\ v \in Seq(S2) /\ w \in Seq(S3)
  BY DEF IsSeq
<1> DEFINE S == S1 \cup S2 \cup S3 \cup {a}
<1>2. u \in Seq(S) /\ v \in Seq(S) /\ w \in Seq(S) /\ <<a>> \in Seq(S) /\ <<>> \in Seq(S)
  <2>1. S1 \subseteq S /\ S2 \subseteq S /\ S3 \subseteq S /\ a \in S
    OBVIOUS
  <2> QED
    BY <1>1, <2>1
<1> HIDE DEF S
<1>3. /\ IsSeq(<<>>) /\ IsSeq(<<a>>) /\ IsSeq(u \o v)
  <2>1. u \o v \in Seq(S)
    BY <1>2
  <2> QED
    BY <1>2, <2>1 DEF IsSeq
<1>4. (u \o v) \o w = u \o (v \o w)
  BY <1>2, ConcatAssociative
<1>5. <<>> \o w = w
  BY <1>2, ConcatEmptySeq
<1>6. Len(u) \in Nat /\ Len(u \o v) = Len(u) + Len(v) /\ Len(<<a>> \o w) = Len(w) + 1
  BY <1>2
<1>7. Head(<<a>> \o w) = a /\ Tail(<<a>> \o w) = w /\ <<a>> \o w # <<>>
  BY <1>2
<1> QED
  BY <1>3, <1>4, <1>5, <1>6, <1>7

LEMMA Cons ==
    ASSUME NEW a, NEW w, IsSeq(w)
    PROVE  /\ IsSeq(<<a>>) /\ IsSeq(<<a>> \o w) /\ Len(w) \in Nat
           /\ Head(<<a>> \o w) = a /\ Tail(<<a>> \o w) = w
           /\ Len(<<a>> \o w) = Len(w) + 1 /\ <<a>> \o w # <<>>
<1>1. IsSeq(<<a>>)
  BY Sequence
<1> QED
  BY <1>1, Sequence

LEMMA Assoc ==
    ASSUME NEW u, IsSeq(u), NEW v, IsSeq(v), NEW w, IsSeq(w)
    PROVE  (u \o v) \o w = u \o (v \o w)
BY Sequence

(* Named, where the sequences are large terms. *)
Associates(u, v, w) == (u \o v) \o w = u \o (v \o w)

LEMMA Associative ==
    ASSUME NEW u, IsSeq(u), NEW v, IsSeq(v), NEW w, IsSeq(w)
    PROVE  Associates(u, v, w)
BY Assoc DEF Associates

LEMMA Appended ==
    ASSUME NEW u, IsSeq(u), NEW v, IsSeq(v)
    PROVE  /\ IsSeq(u \o v) /\ Len(u \o v) = Len(u) + Len(v)
           /\ Len(u) \in Nat /\ Len(v) \in Nat
           /\ Len(v) > 0 => Len(u \o v) > 0
           /\ Len(v) > 1 => Len(u \o v) > 1
<1>1. IsSeq(u \o v) /\ Len(u \o v) = Len(u) + Len(v) /\ Len(u) \in Nat /\ Len(v) \in Nat
  BY Sequence
<1> QED
  BY <1>1

LEMMA Couple == ASSUME NEW a, NEW b PROVE <<a, b>> = <<a>> \o <<b>>
<1>1. <<a>> \in Seq({a, b}) /\ <<b>> \in Seq({a, b}) /\ <<a, b>> \in Seq({a, b})
  OBVIOUS
<1>2. <<a>> \o <<b>> \in Seq({a, b}) /\ Len(<<a>> \o <<b>>) = 2
  BY <1>1
<1>3. \A i \in 1 .. 2 : <<a, b>>[i] = (<<a>> \o <<b>>)[i]
  BY <1>1
<1> QED
  BY <1>1, <1>2, <1>3, SeqEqual

LEMMA Pair ==
    ASSUME NEW a, NEW b, NEW w, IsSeq(w)
    PROVE  /\ <<a, b>> \o w = <<a>> \o (<<b>> \o w)
           /\ IsSeq(<<a, b>>) /\ Len(<<a, b>>) = 2
<1>1. IsSeq(<<a>>) /\ IsSeq(<<b>>)
  BY Cons
<1>2. <<a, b>> = <<a>> \o <<b>>
  BY Couple
<1>3. IsSeq(<<a, b>>)
  BY <1>1, <1>2, Appended
<1>4. (<<a>> \o <<b>>) \o w = <<a>> \o (<<b>> \o w)
  BY <1>1, Assoc
<1> QED
  BY <1>2, <1>3, <1>4
=============================================================================
