----------------------- MODULE DispatchEncodingProofs -----------------------
(***************************************************************************)
(* The numbering of dispatcher entries identifies them, for every set of   *)
(* entries and every base.                                                 *)
(***************************************************************************)
EXTENDS DispatchEncoding, CommonLemmas, FiniteSetTheorems, TLAPS

(* What DispatchEncoding::new is given, and leaves as it is. *)
Entries ==
    /\ \E ids \in (SUBSET (1 .. MaxId)) \ {{}} : hidden \in [ids -> BOOLEAN]
    /\ regions \in BOOLEAN

-----------------------------------------------------------------------------
LEMMA Numbers ==
    ASSUME Entries
    PROVE  /\ Ids # {} /\ Ids \subseteq 1 .. MaxId /\ IsFiniteSet(Ids)
           /\ Count \in Nat /\ Count >= 1 /\ Count <= MaxId
           /\ hidden \in [Ids -> BOOLEAN]
           /\ Base \in Nat /\ Base >= 2 /\ MaxId \in Nat
           /\ MaxId < Base * Base /\ Base * Base \in Nat
<1>1. Ids # {} /\ Ids \subseteq 1 .. MaxId /\ hidden \in [Ids -> BOOLEAN]
  <2>1. PICK ids \in (SUBSET (1 .. MaxId)) \ {{}} : hidden \in [ids -> BOOLEAN]
    BY DEF Entries
  <2>2. Ids = ids
    BY <2>1 DEF Ids
  <2> QED
    BY <2>1, <2>2
<1>2. Base \in Nat /\ Base >= 2 /\ Base * Base \in Nat
  BY EncodingAssumption
<1>3. MaxId \in Nat /\ MaxId < Base * Base
  BY <1>2, EncodingAssumption
<1>4. IsFiniteSet(1 .. MaxId) /\ Cardinality(1 .. MaxId) = MaxId
  BY <1>3, FS_Interval
<1>5. IsFiniteSet(Ids) /\ Count <= MaxId
  BY <1>1, <1>4, FS_Subset DEF Count
<1>6. Count \in Nat /\ Count # 0
  BY <1>1, <1>5, FS_CardinalityType, FS_EmptySet DEF Count
<1> QED
  BY <1>1, <1>2, <1>3, <1>5, <1>6

(* The width of a page: the whole base, or the least whose square exceeds  *)
(* the number of entries.                                                  *)
LEMMA Width ==
    ASSUME Entries
    PROVE  /\ PageWidth \in Nat \ {0} /\ PageWidth <= Base
           /\ \/ PageWidth = Base /\ ~(Dense /\ Count > Base)
              \/ /\ Dense /\ Count < PageWidth * PageWidth
                 /\ (PageWidth - 1) * (PageWidth - 1) <= Count
<1> DEFINE S == {w \in 1 .. Base : w * w > Count} \cup {Base}
<1>0. Base \in Nat /\ Base >= 2 /\ Count \in Nat /\ Count < Base * Base
  BY Numbers
<1>1. S \subseteq 1 .. Base /\ S # {}
  BY <1>0
<1>2. S \subseteq Nat
  BY <1>0, <1>1
<1> HIDE DEF S
<1>3. Min(S) \in S /\ \A y \in S : Min(S) <= y
  BY <1>1, <1>2, NaturalsHaveMin
<1>4. CASE Dense /\ Count > Base
  <2>1. PageWidth = Min(S)
    BY <1>4 DEF PageWidth, SquareWidth, S
  <2>2. PageWidth \in S /\ \A y \in S : PageWidth <= y
    BY <1>3, <2>1
  <2>3. PageWidth \in 1 .. Base /\ PageWidth * PageWidth > Count
    BY <1>0, <2>2 DEF S
  <2>4. (PageWidth - 1) * (PageWidth - 1) <= Count
    <3>1. CASE PageWidth = 1
      BY <1>0, <3>1
    <3>2. CASE PageWidth # 1
      <4>1. PageWidth - 1 \in 1 .. Base /\ ~(PageWidth <= PageWidth - 1)
        BY <1>0, <2>3, <3>2
      <4>2. PageWidth - 1 \notin S
        BY <2>2, <4>1
      <4>3. ~((PageWidth - 1) * (PageWidth - 1) > Count)
        BY <4>1, <4>2 DEF S
      <4>4. (PageWidth - 1) * (PageWidth - 1) \in Nat
        BY <4>1
      <4> QED
        BY <1>0, <4>3, <4>4
    <3> QED
      BY <3>1, <3>2
  <2> QED
    BY <1>0, <1>4, <2>3, <2>4
<1>5. CASE ~(Dense /\ Count > Base)
  BY <1>0, <1>5 DEF PageWidth
<1> QED
  BY <1>4, <1>5

-----------------------------------------------------------------------------
(* Dense ranks count the entries in front. *)
Preceding(id) == {b \in Ids : Before(b, id)}

LEMMA StrictOrder ==
    ASSUME Entries
    PROVE  /\ \A a \in Ids : ~Before(a, a)
           /\ \A a, b, c \in Ids : Before(a, b) /\ Before(b, c) => Before(a, c)
           /\ \A a, b \in Ids : a = b \/ Before(a, b) \/ Before(b, a)
<1>1. Ids \subseteq Int /\ hidden \in [Ids -> BOOLEAN]
  BY Numbers
<1>2. \A a \in Ids : ~Before(a, a)
  BY <1>1 DEF Before
<1>3. ASSUME NEW a \in Ids, NEW b \in Ids, NEW c \in Ids, Before(a, b), Before(b, c)
      PROVE  Before(a, c)
  BY <1>1, <1>3 DEF Before
<1>4. ASSUME NEW a \in Ids, NEW b \in Ids PROVE a = b \/ Before(a, b) \/ Before(b, a)
  BY <1>1 DEF Before
<1> QED
  BY <1>2, <1>3, <1>4

LEMMA PrecedingGrows ==
    ASSUME Entries, NEW a \in Ids, NEW b \in Ids, Before(a, b)
    PROVE  Cardinality(Preceding(a)) < Cardinality(Preceding(b))
<1>1. /\ IsFiniteSet(Preceding(a)) /\ IsFiniteSet(Preceding(b))
      /\ Cardinality(Preceding(a)) \in Nat /\ Cardinality(Preceding(b)) \in Nat
  <2>1. Preceding(a) \in SUBSET Ids /\ Preceding(b) \in SUBSET Ids
    BY DEF Preceding
  <2> QED
    BY <2>1, Numbers, FS_Subset, FS_CardinalityType
<1>2. Preceding(a) \in SUBSET Preceding(b) /\ Preceding(a) # Preceding(b)
  BY StrictOrder DEF Preceding
<1> QED
  BY <1>1, <1>2, FS_Subset

LEMMA Ranks ==
    ASSUME Entries
    PROVE  /\ \A id \in Ids : /\ Rank(id) \in Nat \ {0} /\ Rank(id) <= MaxId
                              /\ Dense => Rank(id) <= Count
           /\ \A a, b \in Ids : Rank(a) = Rank(b) => a = b
<1>0. /\ Ids \subseteq 1 .. MaxId /\ IsFiniteSet(Ids) /\ Count \in Nat /\ Count <= MaxId
      /\ MaxId \in Nat
  BY Numbers
<1>1. CASE ~Dense
  BY <1>0, <1>1 DEF Rank
<1>2. CASE Dense
  <2>1. \A id \in Ids : Rank(id) = Cardinality(Preceding(id)) + 1
    BY <1>2 DEF Rank, Preceding
  <2>2. ASSUME NEW id \in Ids
        PROVE  Cardinality(Preceding(id)) \in Nat /\ Cardinality(Preceding(id)) < Count
    <3>1. Preceding(id) \in SUBSET Ids /\ id \notin Preceding(id)
      BY StrictOrder DEF Preceding
    <3>2. Preceding(id) # Ids
      BY <3>1
    <3>3. Cardinality(Preceding(id)) \in Nat
      BY <1>0, <3>1, FS_Subset, FS_CardinalityType
    <3> QED
      BY <1>0, <3>1, <3>2, <3>3, FS_Subset DEF Count
  <2>3. ASSUME NEW a \in Ids, NEW b \in Ids, Rank(a) = Rank(b) PROVE a = b
    <3>1. Cardinality(Preceding(a)) = Cardinality(Preceding(b))
      BY <2>1, <2>2, <2>3
    <3>2. ~Before(a, b) /\ ~Before(b, a)
      BY <2>2, <3>1, PrecedingGrows
    <3> QED
      BY <3>2, StrictOrder
  <2>4. ASSUME NEW id \in Ids
        PROVE  Rank(id) \in Nat \ {0} /\ Rank(id) <= MaxId /\ Rank(id) <= Count
    BY <1>0, <2>1, <2>2
  <2> QED
    BY <2>3, <2>4
<1> QED
  BY <1>1, <1>2

LEMMA Digits ==
    ASSUME Entries, NEW id \in Ids
    PROVE  /\ High(id) \in 0 .. Base - 1 /\ Low(id) \in 0 .. PageWidth - 1
           /\ Low(id) \in 0 .. Base - 1
           /\ Rank(id) = PageWidth * High(id) + Low(id)
           /\ Dense /\ Count > Base => High(id) < PageWidth
<1>0. /\ Base \in Nat /\ Base >= 2 /\ Count \in Nat /\ MaxId \in Nat /\ MaxId < Base * Base
      /\ PageWidth \in Nat \ {0} /\ PageWidth <= Base
      /\ Rank(id) \in Nat /\ Rank(id) <= MaxId /\ (Dense => Rank(id) <= Count)
  BY Numbers, Width, Ranks
<1>1. /\ High(id) \in Nat /\ Low(id) \in 0 .. PageWidth - 1
      /\ Rank(id) = PageWidth * High(id) + Low(id)
  BY <1>0, Quotient DEF High, Low
<1>2. CASE PageWidth = Base /\ ~(Dense /\ Count > Base)
  <2>1. Rank(id) < PageWidth * Base
    BY <1>0, <1>2
  <2>2. High(id) < Base
    BY <1>0, <2>1, SmallQuotient DEF High
  <2> QED
    BY <1>0, <1>1, <1>2, <2>2
<1>3. CASE Dense /\ Count < PageWidth * PageWidth
  <2>1. Rank(id) < PageWidth * PageWidth
    BY <1>0, <1>3
  <2>2. High(id) < PageWidth
    BY <1>0, <2>1, SmallQuotient DEF High
  <2> QED
    BY <1>0, <1>1, <2>2
<1> QED
  BY <1>2, <1>3, Width

-----------------------------------------------------------------------------
LEMMA PageEnds ==
    ASSUME Entries, NEW id \in Ids
    PROVE  LET p == Page(High(id))
           IN  /\ LowestOf(p) \in 0 .. PageWidth - 1 /\ HighestOf(p) \in 0 .. PageWidth - 1
               /\ LowestOf(p) <= Low(id) /\ Low(id) <= HighestOf(p)
               /\ \E a \in p : LowestOf(p) = Low(a)
<1> DEFINE p == Page(High(id))
           S == {Low(a) : a \in p}
<1>1. id \in p /\ p \subseteq Ids
  BY DEF Page
<1>2. PageWidth - 1 \in Nat
  BY Width
<1>3. S \subseteq 0 .. PageWidth - 1 /\ Low(id) \in S
  BY <1>1, Digits
<1>4. S \subseteq Nat
  BY <1>2, <1>3
<1>5. LowestOf(p) = Min(S) /\ HighestOf(p) = Max(S)
  BY DEF LowestOf, HighestOf
<1> HIDE DEF S
<1>6. /\ Min(S) \in S /\ \A y \in S : Min(S) <= y
      /\ Max(S) \in S /\ \A y \in S : y <= Max(S)
  BY <1>2, <1>3, <1>4, NaturalsHaveMin, BoundedHaveMax
<1>7. \E a \in p : Min(S) = Low(a)
  BY <1>6 DEF S
<1> QED
  BY <1>3, <1>5, <1>6, <1>7

LEMMA Codes ==
    ASSUME Entries, NEW id \in Ids
    PROVE  /\ Encode(id) \in (0 .. Base - 1) \X (0 .. PageWidth - 1)
           /\ Encode(id) # <<0, 0>>
           /\ Encode(id)[1] = High(id)
           /\ \/ ~Reversed(High(id)) /\ Encode(id)[2] = Low(id)
              \/ Reversed(High(id)) /\ Encode(id)[2] = Mirrored(Page(High(id)), Low(id))
<1> DEFINE p == Page(High(id))
<1>1. /\ High(id) \in 0 .. Base - 1 /\ Low(id) \in 0 .. PageWidth - 1
      /\ PageWidth \in Nat
  BY Digits, Width
<1>2. /\ LowestOf(p) \in 0 .. PageWidth - 1 /\ HighestOf(p) \in 0 .. PageWidth - 1
      /\ LowestOf(p) <= Low(id) /\ Low(id) <= HighestOf(p)
  BY PageEnds
<1>3. Mirrored(p, Low(id)) \in 0 .. PageWidth - 1 /\ Mirrored(p, Low(id)) >= LowestOf(p)
  BY <1>1, <1>2 DEF Mirrored
<1>4. Encode(id) = <<High(id), IF Reversed(High(id)) THEN Mirrored(p, Low(id)) ELSE Low(id)>>
  BY DEF Encode
<1>5. ASSUME NEW a \in Ids, High(a) = 0 PROVE Low(a) # 0
  <2>1. Rank(a) # 0 /\ Rank(a) = PageWidth * 0 + Low(a)
    BY <1>5, Digits, Ranks
  <2> QED
    BY <1>1, <2>1
<1>6. High(id) = 0 => Low(id) # 0 /\ LowestOf(p) # 0
  <2>1. PICK a \in p : LowestOf(p) = Low(a)
    BY PageEnds
  <2>2. a \in Ids /\ High(a) = High(id)
    BY DEF Page
  <2> QED
    BY <1>5, <2>1, <2>2
<1>7. Encode(id) # <<0, 0>>
  BY <1>1, <1>2, <1>3, <1>4, <1>6
<1> QED
  BY <1>1, <1>3, <1>4, <1>7

LEMMA CodesDiffer ==
    ASSUME Entries, NEW a \in Ids, NEW b \in Ids, Encode(a) = Encode(b)
    PROVE  a = b
<1>1. High(a) = High(b)
  BY Codes
<1> DEFINE p == Page(High(a))
<1>2. /\ LowestOf(p) \in Int /\ HighestOf(p) \in Int /\ Low(a) \in Int /\ Low(b) \in Int
  BY PageEnds, Digits
<1>3. Low(a) = Low(b)
  BY <1>1, <1>2, Codes DEF Mirrored
<1>4. Rank(a) = Rank(b)
  BY <1>1, <1>3, Digits
<1> QED
  BY <1>4, Ranks

-----------------------------------------------------------------------------
LEMMA EntriesKept ==
    ASSUME Entries, [Next]_vars
    PROVE  /\ Entries' /\ Ids' = Ids /\ Dense' = Dense /\ Count' = Count
           /\ \/ UNCHANGED codes
              \/ codes' = [id \in Ids |-> Encode(id)]
<1>1. UNCHANGED <<hidden, regions>> /\ (codes' = codes \/ codes' = [id \in Ids |-> Encode(id)])
  BY DEF Next, New, Encoded, vars
<1> QED
  BY <1>1 DEF Entries, Ids, Dense, Count

(* Two entries never share a PC, no entry has the PC zero that a context   *)
(* without continuation holds, and both codes are bytes: for every set of  *)
(* IDs and every base.                                                     *)
THEOREM EntriesIdentified == Spec => []CodesIdentify
<1>1. Init => Entries /\ CodesIdentify
  BY DEF Init, Entries, CodesIdentify, Built
<1>2. Entries /\ CodesIdentify /\ [Next]_vars => Entries' /\ CodesIdentify'
  <2> SUFFICES ASSUME Entries, CodesIdentify, [Next]_vars PROVE CodesIdentify'
    BY EntriesKept
  <2>1. CASE UNCHANGED codes
    BY <2>1, EntriesKept DEF CodesIdentify, Built
  <2>2. CASE codes' = [id \in Ids |-> Encode(id)]
    <3>1. PageWidth \in Nat /\ Base \in Nat /\ PageWidth <= Base
      BY Width, Numbers
    <3>2. \A id \in Ids : /\ codes'[id] = Encode(id) /\ Encode(id) # <<0, 0>>
                          /\ Encode(id) \in (0 .. Base - 1) \X (0 .. Base - 1)
      <4>1. 0 .. PageWidth - 1 \subseteq 0 .. Base - 1
        BY <3>1
      <4> QED
        BY <2>2, <4>1, Codes
    <3>3. \A a, b \in Ids : codes'[a] = codes'[b] => a = b
      BY <3>2, CodesDiffer
    <3>4. codes' \in [Ids -> (0 .. Base - 1) \X (0 .. Base - 1)]
      BY <2>2, <3>2
    <3> QED
      BY <3>2, <3>3, <3>4, EntriesKept DEF CodesIdentify
  <2> QED
    BY <2>1, <2>2, EntriesKept
<1> QED
  BY <1>1, <1>2, PTL DEF Spec

-----------------------------------------------------------------------------
(* Numbers without a gap are as many as their ends are apart. *)
LEMMA NoGap ==
    ASSUME NEW S, NEW n \in Nat, S \subseteq 0 .. n, S # {},
           \A a, b \in S : \A c \in Nat : a <= c /\ c <= b => c \in S
    PROVE  /\ Consecutive(S) /\ S = Min(S) .. Max(S)
           /\ Min(S) \in S /\ Max(S) \in S /\ \A y \in S : Min(S) <= y /\ y <= Max(S)
<1>1. S \subseteq Nat
  OBVIOUS
<1>2. /\ Min(S) \in S /\ \A y \in S : Min(S) <= y
      /\ Max(S) \in S /\ \A y \in S : y <= Max(S)
  BY <1>1, NaturalsHaveMin, BoundedHaveMax
<1>3. PICK lo, hi \in Nat : lo = Min(S) /\ hi = Max(S)
  BY <1>1, <1>2
<1>4. lo <= hi /\ lo \in S /\ hi \in S
  BY <1>1, <1>2, <1>3
<1>5. S \subseteq lo .. hi
  BY <1>1, <1>2, <1>3
<1>6. lo .. hi \subseteq S
  BY <1>3, <1>4
<1>7. Cardinality(S) = hi - lo + 1
  <2>1. S = lo .. hi
    BY <1>5, <1>6
  <2>2. Cardinality(lo .. hi) = IF lo > hi THEN 0 ELSE hi - lo + 1
    <3>1. lo \in Int /\ hi \in Int
      OBVIOUS
    <3> QED
      BY <3>1, FS_Interval, Zenon
  <2> QED
    BY <1>3, <1>4, <2>1, <2>2
<1> QED
  BY <1>2, <1>3, <1>5, <1>6, <1>7 DEF Consecutive

(* Dense ranks are all of the numbers from one to the number of entries.   *)
LEMMA RanksFill ==
    ASSUME Entries, Dense, NEW r \in 1 .. Count
    PROVE  \E id \in Ids : Rank(id) = r
<1> DEFINE rank == [id \in Ids |-> Rank(id)]
<1>1. Count \in Nat /\ IsFiniteSet(Ids) /\ Cardinality(Ids) = Count
  BY Numbers DEF Count
<1>2. IsFiniteSet(1 .. Count) /\ Cardinality(1 .. Count) = Count
  BY <1>1, FS_Interval
<1>3. rank \in Injection(Ids, 1 .. Count)
  <2>1. rank \in [Ids -> 1 .. Count]
    BY <1>1, Ranks
  <2>2. \A a, b \in Ids : rank[a] = rank[b] => a = b
    BY Ranks
  <2> QED
    BY <2>1, <2>2 DEF Injection, IsInjective
<1>4. rank \in Surjection(Ids, 1 .. Count)
  BY <1>1, <1>2, <1>3, FS_Injection
<1> QED
  BY <1>4 DEF Surjection

LEMMA HighsConsecutive ==
    ASSUME Entries, Dense
    PROVE  Consecutive({High(id) : id \in Ids})
<1> DEFINE S == {High(id) : id \in Ids}
<1>1. /\ PageWidth \in Nat \ {0} /\ Base - 1 \in Nat /\ Count \in Nat
      /\ Ids # {}
  BY Width, Numbers
<1>2. S \subseteq 0 .. Base - 1 /\ S # {}
  BY <1>1, Digits
<1>3. ASSUME NEW i \in Ids, NEW j \in Ids, NEW c \in Nat, High(i) <= c, c <= High(j)
      PROVE  \E id \in Ids : High(id) = c
  <2>1. CASE c = High(i)
    BY <2>1
  <2>2. CASE High(i) < c
    <3>1. PICK r \in Nat : r = PageWidth * c
      BY <1>1
    <3>2. r <= Rank(j) /\ Rank(j) <= Count
      <4>1. /\ Rank(j) = PageWidth * High(j) + Low(j) /\ High(j) \in Nat /\ Low(j) \in Nat
            /\ Rank(j) <= Count
        BY <1>1, Digits, Ranks
      <4>2. PICK d \in Nat : High(j) = c + d
        <5>1. High(j) - c \in Nat /\ High(j) = c + (High(j) - c)
          BY <1>3, <4>1
        <5> QED
          BY <5>1
      <4>3. PageWidth * High(j) = r + PageWidth * d /\ PageWidth * d \in Nat
        BY <1>1, <3>1, <4>2
      <4> QED
        BY <3>1, <4>1, <4>3
    <3>3. r >= 1
      <4>1. c >= 1
        BY <2>2, Digits
      <4> QED
        BY <1>1, <3>1, <4>1
    <3>4. r \div PageWidth = c
      <4>1. 0 \in 0 .. PageWidth - 1 /\ r = PageWidth * c + 0
        BY <1>1, <3>1
      <4> QED
        BY <1>1, <4>1, DigitsOf
    <3>5. r \in 1 .. Count
      BY <1>1, <3>1, <3>2, <3>3, Ranks
    <3>6. PICK id \in Ids : Rank(id) = r
      BY <3>5, RanksFill
    <3> QED
      BY <3>4, <3>6 DEF High
  <2> QED
    BY <1>3, <2>1, <2>2, Digits
<1>4. \A a, b \in S : \A c \in Nat : a <= c /\ c <= b => c \in S
  BY <1>3
<1> HIDE DEF S
<1>5. Consecutive(S)
  BY <1>1, <1>2, <1>4, NoGap
<1> QED
  BY <1>5 DEF S

LEMMA LowsWithoutGap ==
    ASSUME Entries, Dense, NEW high \in {High(id) : id \in Ids}
    PROVE  LET S == {Low(id) : id \in Page(high)}
           IN  /\ S \subseteq 0 .. PageWidth - 1 /\ S # {}
               /\ \A a, b \in S : \A c \in Nat : a <= c /\ c <= b => c \in S
<1> DEFINE S == {Low(id) : id \in Page(high)}
<1>1. PageWidth \in Nat \ {0} /\ Count \in Nat
  BY Width, Numbers
<1>2. S \subseteq 0 .. PageWidth - 1
  BY Digits DEF Page
<1>3. S # {}
  BY DEF Page
<1>4. ASSUME NEW i \in Page(high), NEW j \in Page(high), NEW c \in Nat, Low(i) <= c, c <= Low(j)
      PROVE  \E id \in Page(high) : Low(id) = c
  <2>1. /\ i \in Ids /\ j \in Ids /\ High(i) = high /\ High(j) = high
    BY DEF Page
  <2>2. /\ Rank(i) = PageWidth * high + Low(i) /\ Rank(j) = PageWidth * high + Low(j)
        /\ high \in Nat /\ Low(i) \in Nat /\ Low(j) \in 0 .. PageWidth - 1
        /\ Rank(i) >= 1 /\ Rank(j) <= Count
    BY <1>1, <2>1, Digits, Ranks
  <2>3. PageWidth * high \in Nat
    BY <1>1, <2>2
  <2>4. c \in 0 .. PageWidth - 1 /\ PageWidth * high + c \in 1 .. Count
    BY <1>1, <1>4, <2>2, <2>3
  <2>5. PICK id \in Ids : Rank(id) = PageWidth * high + c
    BY <2>4, RanksFill
  <2>6. High(id) = high /\ Low(id) = c
    BY <1>1, <2>2, <2>4, <2>5, DigitsOf DEF High, Low
  <2> QED
    BY <2>6 DEF Page
<1>5. \A a, b \in S : \A c \in Nat : a <= c /\ c <= b => c \in S
  BY <1>4
<1> QED
  BY <1>2, <1>3, <1>5

(* Mirroring about the occupied range leaves it the same range. *)
LEMMA LowsConsecutive ==
    ASSUME Entries, Dense, NEW high \in {High(id) : id \in Ids}
    PROVE  Consecutive({Encode(id)[2] : id \in Page(high)})
<1> DEFINE p == Page(high)
           S == {Low(id) : id \in p}
           T == {Encode(id)[2] : id \in p}
<1>1. PageWidth - 1 \in Nat
  BY Width
<1>2. /\ S \subseteq 0 .. PageWidth - 1 /\ S # {}
      /\ \A a, b \in S : \A c \in Nat : a <= c /\ c <= b => c \in S
  BY LowsWithoutGap
<1>3. LowestOf(p) = Min(S) /\ HighestOf(p) = Max(S)
  BY DEF LowestOf, HighestOf
<1>4. /\ \A id \in p : Low(id) \in S
      /\ \A l \in S : \E id \in p : Low(id) = l
  OBVIOUS
<1>5. \A id \in p : id \in Ids /\ High(id) = high
  BY DEF Page
<1> HIDE DEF S
<1>6. /\ Consecutive(S) /\ S = Min(S) .. Max(S)
      /\ Min(S) \in S /\ Max(S) \in S /\ \A y \in S : Min(S) <= y /\ y <= Max(S)
  BY <1>1, <1>2, NoGap
<1>7. CASE ~Reversed(high)
  <2>1. \A id \in p : Encode(id)[2] = Low(id)
    BY <1>5, <1>7, Codes
  <2>2. T = S
    BY <1>4, <2>1
  <2> QED
    BY <1>6, <2>2
<1>8. CASE Reversed(high)
  <2>1. PICK lo, hi \in Nat : lo = Min(S) /\ hi = Max(S)
    <3>1. S \subseteq Nat
      BY <1>1, <1>2
    <3> QED
      BY <1>6, <3>1
  <2>2. \A id \in p : Encode(id)[2] = lo + (hi - Low(id))
    BY <1>3, <1>5, <1>8, <2>1, Codes DEF Mirrored
  <2>3. \A l \in S : l \in Nat /\ lo <= l /\ l <= hi
    BY <1>2, <1>6, <2>1
  <2>4. \A l \in S : lo + (hi - l) \in S
    <3>1. S = lo .. hi
      BY <1>6, <2>1
    <3> QED
      BY <2>3, <3>1
  <2>5. T \subseteq S
    BY <1>4, <2>2, <2>4
  <2>6. S \subseteq T
    <3> SUFFICES ASSUME NEW l \in S PROVE l \in T
      OBVIOUS
    <3>1. PICK m \in S : m = lo + (hi - l)
      BY <2>4
    <3>2. PICK id \in p : Low(id) = m
      BY <1>4
    <3>3. Encode(id)[2] = l
      BY <2>2, <2>3, <3>1, <3>2
    <3> QED
      BY <3>3
  <2> QED
    BY <1>6, <2>5, <2>6
<1> QED
  BY <1>7, <1>8

(* With more than one page both codes are below the width. *)
LEMMA CodesSmall ==
    ASSUME Entries, Dense, Count > Base, NEW id \in Ids, NEW n \in {Encode(id)[1], Encode(id)[2]}
    PROVE  n * n <= Count
<1>1. /\ PageWidth \in Nat \ {0} /\ Count \in Nat
      /\ (PageWidth - 1) * (PageWidth - 1) <= Count
  BY Width, Numbers
<1>2. High(id) \in Nat /\ High(id) < PageWidth
  BY Digits
<1>3. Encode(id)[1] = High(id) /\ Encode(id)[2] \in 0 .. PageWidth - 1
  BY Codes
<1>4. n \in 0 .. PageWidth - 1
  BY <1>1, <1>2, <1>3
<1>5. PICK d \in Nat : PageWidth - 1 = n + d
  <2>1. PageWidth - 1 - n \in Nat /\ PageWidth - 1 = n + (PageWidth - 1 - n)
    BY <1>1, <1>4
  <2> QED
    BY <2>1
<1>6. /\ (PageWidth - 1) * (PageWidth - 1) = n * n + n * d + d * (n + d)
      /\ n * n \in Nat /\ n * d \in Nat /\ d * (n + d) \in Nat
  BY <1>4, <1>5
<1> QED
  BY <1>1, <1>6

(* What DenseCodesCountDown says of the codes c of the entries I. *)
Countdown(c, I, n) ==
    LET highs == {c[id][1] : id \in I}
        Lows(high) == {c[id][2] : id \in {i \in I : c[i][1] = high}}
        all == highs \cup UNION {Lows(high) : high \in highs}
    IN  /\ Consecutive(highs)
        /\ \A high \in highs : Consecutive(Lows(high))
        /\ n > Base => \A k \in all : k * k <= n

LEMMA CountdownOfCodes ==
    ASSUME Entries, Dense
    PROVE  Countdown([id \in Ids |-> Encode(id)], Ids, Count)
<1> DEFINE c == [id \in Ids |-> Encode(id)]
           highs == {c[id][1] : id \in Ids}
           Lows(high) == {c[id][2] : id \in {i \in Ids : c[i][1] = high}}
           all == highs \cup UNION {Lows(high) : high \in highs}
<1>1. \A id \in Ids : c[id] = Encode(id) /\ c[id][1] = High(id)
  BY Codes
<1> HIDE DEF c
<1>2. highs = {High(id) : id \in Ids}
  BY <1>1
<1>3. \A high : Lows(high) = {Encode(id)[2] : id \in Page(high)}
  BY <1>1 DEF Page
<1>4. Consecutive(highs)
  BY <1>2, HighsConsecutive
<1>5. ASSUME NEW high \in highs PROVE Consecutive(Lows(high))
  <2>1. Lows(high) = {Encode(id)[2] : id \in Page(high)}
    BY <1>3
  <2>2. high \in {High(id) : id \in Ids}
    BY <1>2
  <2> QED
    BY <2>1, <2>2, LowsConsecutive
<1>6. ASSUME Count > Base, NEW n \in all PROVE n * n <= Count
  <2>1. PICK id \in Ids : n \in {Encode(id)[1], Encode(id)[2]}
    BY <1>1
  <2> QED
    BY <1>6, <2>1, CodesSmall
<1>7. Countdown(c, Ids, Count)
  BY <1>4, <1>5, <1>6 DEF Countdown
<1> QED
  BY <1>7 DEF c

(* A dense numbering fills its pages and the entries of every page without *)
(* a gap, and with more than one page no countdown is longer than the      *)
(* square root of the number of entries: for every set of IDs, every base, *)
(* and wherever the portal entries are.                                    *)
THEOREM CountdownsShort == Spec => []DenseCodesCountDown
<1>1. Init => Entries /\ DenseCodesCountDown
  BY DEF Init, Entries, DenseCodesCountDown, Built
<1>2. DenseCodesCountDown <=> (Built /\ Dense => Countdown(codes, Ids, Count))
  BY Zenon DEF DenseCodesCountDown, Countdown
<1>3. DenseCodesCountDown' <=> (Built' /\ Dense' => Countdown(codes', Ids', Count'))
  BY Zenon DEF DenseCodesCountDown, Countdown, Consecutive
<1>4. Entries /\ DenseCodesCountDown /\ [Next]_vars => Entries' /\ DenseCodesCountDown'
  <2> SUFFICES ASSUME Entries, DenseCodesCountDown, [Next]_vars PROVE DenseCodesCountDown'
    BY EntriesKept
  <2>1. CASE UNCHANGED codes
    BY <1>2, <1>3, <2>1, EntriesKept DEF Built
  <2>2. CASE codes' = [id \in Ids |-> Encode(id)]
    BY <1>3, <2>2, EntriesKept, CountdownOfCodes
  <2> QED
    BY <2>1, <2>2, EntriesKept
<1> QED
  BY <1>1, <1>4, PTL DEF Spec
=============================================================================
