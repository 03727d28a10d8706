-------------------------- MODULE DispatchEncoding --------------------------
(***************************************************************************)
(* The private numbering of dispatcher entries: DispatchEncoding in        *)
(* backend/codegen/dispatch.rs maps the 16-bit IDs of continuations and of *)
(* hidden portal entries to the two bytes kept in the PC fields.           *)
(***************************************************************************)
EXTENDS Integers, FiniteSetsExt

CONSTANTS
    Base,    \* 256 in the code: codes of a page
    MaxId    \* greatest ID, 65535 in the code

ASSUME EncodingAssumption ==
    /\ Base \in Nat \ {0, 1}
    /\ MaxId \in 1 .. Base * Base - 1

VARIABLES
    hidden,   \* ID -> is it a portal entry?  Its domain are the entries.
    regions,  \* is a region plan given?  Then soft continuations have no entry
    codes     \* ID -> encode(ID), empty before DispatchEncoding::new

vars == <<hidden, regions, codes>>

Ids   == DOMAIN hidden
Count == Cardinality(Ids)

(* IDs are nonzero and unique, so all of 1..maximum occur when the count   *)
(* is the maximum.                                                         *)
Dense == regions \/ (Count = Max(Ids) /\ Count > Base)

(* Smallest width whose square exceeds the count.  (Mutant: pages are      *)
(* filled first.)                                                          *)
SquareWidth_Full == Base
SquareWidth == Min({w \in 1 .. Base : w * w > Count} \cup {Base})

PageWidth == IF Dense /\ Count > Base THEN SquareWidth ELSE Base

(* Order of dense ranks: portal entries first, then by ID. *)
Before(a, b) == IF hidden[a] = hidden[b] THEN a < b ELSE hidden[a]

(* Ranks start at one.  (Mutant: at zero.) *)
Rank_FromZero(id) == IF Dense THEN Cardinality({b \in Ids : Before(b, id)}) ELSE id
Rank(id) == IF Dense THEN Cardinality({b \in Ids : Before(b, id)}) + 1 ELSE id

High(id) == Rank(id) \div PageWidth
Low(id)  == Rank(id) % PageWidth

Page(high)   == {id \in Ids : High(id) = high}
LowestOf(p)  == Min({Low(id) : id \in p})
HighestOf(p) == Max({Low(id) : id \in p})

(* A page with portal entries is reversed when that brings them nearer to  *)
(* the start of its countdown.                                             *)
Reversed(high) ==
    LET p == Page(high)
        portals == {id \in p : hidden[id]}
    IN  /\ portals # {}
        /\ MapThenSumSet(LAMBDA id : HighestOf(p) - Low(id), portals)
             < MapThenSumSet(LAMBDA id : Low(id) - LowestOf(p), portals)

(* (Mutant: mirrored about the page width, not about the occupied range.)  *)
Mirrored_Width(p, low) == PageWidth - low
Mirrored(p, low) == LowestOf(p) + (HighestOf(p) - low)

Encode(id) ==
    LET high == High(id)
    IN  <<high, IF Reversed(high) THEN Mirrored(Page(high), Low(id)) ELSE Low(id)>>

-----------------------------------------------------------------------------
Init ==
    /\ \E ids \in (SUBSET (1 .. MaxId)) \ {{}} : hidden \in [ids -> BOOLEAN]
    /\ regions \in BOOLEAN
    /\ codes = <<>>

New ==
    /\ codes = <<>>
    /\ codes' = [id \in Ids |-> Encode(id)]
    /\ UNCHANGED <<hidden, regions>>

Encoded == codes # <<>> /\ UNCHANGED vars

Next == New \/ Encoded

Spec == Init /\ [][Next]_vars

-----------------------------------------------------------------------------
Built == codes # <<>>

(* Codes fit two bytes, no two entries share a PC, and none has the PC     *)
(* zero, which a context holds while it has no continuation.               *)
CodesIdentify ==
    Built => /\ codes \in [Ids -> (0 .. Base - 1) \X (0 .. Base - 1)]
             /\ \A a, b \in Ids : codes[a] = codes[b] => a = b
             /\ \A id \in Ids : codes[id] # <<0, 0>>

Consecutive(S) == Max(S) - Min(S) + 1 = Cardinality(S)

(* A dense numbering leaves no gap, at either level, so that the           *)
(* dispatcher counts down to pages and to entries instead of comparing;    *)
(* and both countdowns are short once there is more than one page: about   *)
(* the square root of the number of entries.                               *)
DenseCodesCountDown ==
    Built /\ Dense =>
        LET highs == {codes[id][1] : id \in Ids}
            Lows(high) == {codes[id][2] : id \in {i \in Ids : codes[i][1] = high}}
            all == highs \cup UNION {Lows(high) : high \in highs}
        IN  /\ Consecutive(highs)
            /\ \A high \in highs : Consecutive(Lows(high))
            /\ Count > Base => \A n \in all : n * n <= Count
=============================================================================
