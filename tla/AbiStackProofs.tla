--------------------------- MODULE AbiStackProofs ---------------------------
(***************************************************************************)
(* Proofs about AbiStack, for every program, layout, bank size and tape    *)
(* length: the flag lane, the free zone and the tiling of the frames, the  *)
(* ownership of the running code, that navigation comes home, and that     *)
(* the frames on the tape implement the activations of the VM.             *)
(*                                                                         *)
(* None of the invariants is inductive alone.  A return trusts FrameChunks *)
(* of the function that owns the running code, hence CodeMatchesFrame; the *)
(* return PCs it trusts sit in the context chunks of suspended frames,     *)
(* which local stores miss only because frames lie apart and code stores   *)
(* within its own frame; a call trusts the free zone and leaves its        *)
(* parameters there before it claims the chunks.                           *)
(***************************************************************************)
EXTENDS AbiStack, TLAPS, SequenceTheorems

Types ==
    /\ head \in [Chunks -> {0, 1}]
    /\ cell \in [Cells -> Nat]
    /\ globals \in [Globals -> Byte]
    /\ ctx \in Nat
    /\ code \in Conts
    /\ mode \in Modes
    /\ frames \in Seq([fn : Functions, ctx : Nat])
    /\ Len(frames) >= 1

(* There is always room for a coarse scan to find a free head above ctx. *)
ScanRoom == 1 <= ctx /\ ctx + Group <= Capacity

FramesApart ==
    /\ FrameChunks(frames[1].fn) <= frames[1].ctx
    /\ \A i, j \in 1 .. Len(frames) :
          i < j => frames[i].ctx + FrameChunks(frames[j].fn) <= frames[j].ctx

CallsAreValid ==
    \A i \in 2 .. Len(frames) : MayCall(frames[i - 1].fn, frames[i].fn)

(* Cells that hold program data, or Restore; the other cells up to ctx are *)
(* Active and the three PCs of the contexts.                               *)
Payload ==
    {x \in Cells : \A i \in 1 .. Len(frames) :
                        x[1] = frames[i].ctx => x[2] \notin {Active, Pc, NextPc, ReturnPc}}

PayloadIsBytes == \A x \in Payload : cell[x] \in Byte

(* The PCs of the current context at each point of a dispatcher cycle. *)
CurrentContext ==
    /\ mode # "cycle"    => cell[<<ctx, NextPc>>] = 0
    /\ mode \notin {"dispatch", "stopped"} => cell[<<ctx, Pc>>] = 0
    /\ cell[<<ctx, Active>>] \in {0, 1}
    /\ mode \in {"body", "args", "deliver"} => cell[<<ctx, Active>>] = 1

ParameterCells(g) == {<<p[1] - FrameChunks(g), p[2]>> : p \in Storage[g]}

PendingOK ==
    /\ mode = "args" =>
        /\ DOMAIN pending = {"kind", "callee", "args", "ret", "dead", "next",
                             "parameters", "stack", "globals"}
        /\ pending.callee \in Functions
        /\ MayCall(F, pending.callee)
        /\ pending.args \in Arguments(F, pending.callee)
        /\ pending.ret \in ContsOf(F)
        /\ pending.next \in Nat \ {0}
        /\ pending.parameters \subseteq ParameterCells(pending.callee)
        /\ ctx + FrameChunks(pending.callee) + Group <= Capacity
    /\ mode = "deliver" =>
        /\ DOMAIN pending = {"kind", "result", "next", "stack", "globals"}
        /\ F # Main
        /\ pending.result \in Results(F)
        /\ pending.next \in Nat \ {0}

Inv ==
    /\ Types
    /\ ScanRoom
    /\ FlagLane
    /\ FramesTile
    /\ FramesApart
    /\ CallsAreValid
    /\ PayloadIsBytes
    /\ FreeTapeZero
    /\ CurrentContext
    /\ SuspendedFramesWait
    /\ CodeMatchesFrame
    /\ PendingOK

-----------------------------------------------------------------------------
(* The anchor bank has an anchor on every phase lane: going down from c in *)
(* strides of Group lands on exactly one chunk of 1-Group..0.              *)
LEMMA PhaseAnchor ==
    ASSUME NEW c \in Nat, c >= 1
    PROVE  \E i \in 0 .. c + Group : c - i * Group \in Anchors
<1> DEFINE i == (c + Group - 1) \div Group
           r == (c + Group - 1) % Group
<1>1. Group \in Nat /\ Group >= 1
  BY TapeAssumption
<1>2. i \in Int /\ r \in 0 .. Group - 1 /\ c + Group - 1 = Group * i + r
  BY <1>1
<1> HIDE DEF i, r
<1>3. c - i * Group = r + 1 - Group
  BY <1>1, <1>2
<1>4. c - i * Group \in Anchors
  BY <1>1, <1>2, <1>3 DEF Anchors
<1>5. i >= 0
  <2> SUFFICES ASSUME i <= -1 PROVE FALSE
    BY <1>2
  <2>1. Group * i <= -Group
    BY <1>1, <1>2
  <2> QED
    BY <2>1, <1>1, <1>2
<1>6. i <= c + Group
  <2> SUFFICES ASSUME i >= c + Group + 1 PROVE FALSE
    BY <1>1, <1>2
  <2>1. Group * i >= c + Group + 1
    BY <1>1, <1>2
  <2> QED
    BY <2>1, <1>1, <1>2
<1> QED
  BY <1>1, <1>2, <1>4, <1>5, <1>6

(* Leaving any context of an intact lane and coming back lands on it, and  *)
(* nowhere else.                                                           *)
LEMMA RoundTrip ==
    ASSUME head \in [Chunks -> {0, 1}], ctx \in Nat, ScanRoom, FlagLane
    PROVE  NavigationReturns
<1>1. Group \in Nat /\ Group >= 1 /\ Capacity \in Nat
  BY TapeAssumption
<1>2. ctx >= 1 /\ ctx + Group <= Capacity
  BY DEF ScanRoom
<1>3. Returns(ctx, ctx)
  <2>1. PICK i \in 0 .. ctx + Group : ctx - i * Group \in Anchors
    BY <1>2, PhaseAnchor
  <2> DEFINE p == ctx - i * Group
             m == i + 1
  <2>2. p \in Int /\ 1 - Group <= p /\ p <= 0
    BY <2>1, <1>1 DEF Anchors
  <2>3. i >= 1 /\ i \in Nat
    BY <2>1, <2>2, <1>1, <1>2
  <2>4. ScansDown(ctx, i)
    <3>1. head[p] = 0
      BY <2>2, <1>1, <1>2 DEF FlagLane, Chunks
    <3>2. ASSUME NEW j \in 0 .. i - 1
          PROVE  ctx - j * Group \in Chunks /\ head[ctx - j * Group] # 0
      <4>1. ctx - j * Group = p + (i - j) * Group
        BY <2>3, <1>1, <1>2
      <4>2. (i - j) * Group >= Group /\ j * Group >= 0
        BY <3>2, <2>3, <1>1
      <4>3. ctx - j * Group \in 1 .. ctx
        BY <4>1, <4>2, <2>2, <2>3, <3>2, <1>1, <1>2
      <4> QED
        BY <4>3, <1>1, <1>2 DEF FlagLane, Chunks
    <3> QED
      BY <2>1, <3>1, <3>2 DEF ScansDown
  <2>5. p + m * Group = ctx + Group
    BY <2>3, <1>1, <1>2
  <2>6. ScansUp(p, m)
    <3>1. ctx + Group \in Chunks /\ head[ctx + Group] = 0
      BY <1>1, <1>2 DEF FlagLane, Chunks
    <3>2. ASSUME NEW j \in 1 .. m - 1
          PROVE  head[p + j * Group] # 0
      <4>1. p + j * Group = ctx - (i - j) * Group
        BY <2>3, <1>1, <1>2
      <4>2. j * Group >= Group /\ (i - j) * Group >= 0
        BY <3>2, <2>3, <1>1
      <4>3. p + j * Group \in 1 .. ctx
        BY <4>1, <4>2, <2>2, <2>3, <3>2, <1>1, <1>2
      <4> QED
        BY <4>3, <1>1, <1>2 DEF FlagLane, Chunks
    <3> QED
      BY <2>5, <3>1, <3>2, <2>3 DEF ScansUp
  <2>7. ctx = p + (m - 1) * Group
    BY <2>3, <1>1, <1>2
  <2>8. i \in 0 .. Capacity + Group
    BY <2>1, <1>1, <1>2
  <2>9. m \in 1 .. Capacity + Group
    BY <2>1, <2>3, <1>1, <1>2
  <2> QED
    BY <2>4, <2>6, <2>7, <2>8, <2>9 DEF Returns
<1>4. ASSUME NEW d, Returns(ctx, d)
      PROVE  d = ctx
  <2>1. PICK i \in 0 .. Capacity + Group, m \in 1 .. Capacity + Group :
            /\ ScansDown(ctx, i)
            /\ ScansUp(ctx - i * Group, m)
            /\ d = ctx - i * Group + (m - 1) * Group
    BY <1>4 DEF Returns
  <2> DEFINE p == ctx - i * Group
  <2>2. i \in Nat /\ m \in Nat /\ m >= 1 /\ p \in Int
    BY <2>1, <1>1, <1>2
  <2>3. p <= 0
    BY <2>1, <1>1 DEF ScansDown, Anchors
  <2>4. CASE m <= i
    <3>1. p + m * Group \in Chunks /\ head[p + m * Group] = 0
      BY <2>1 DEF ScansUp
    <3>2. p + m * Group = ctx - (i - m) * Group
      BY <2>2, <1>1, <1>2
    <3>3. i - m \in 0 .. i - 1
      BY <2>2, <2>4
    <3>4. head[ctx - (i - m) * Group] # 0
      BY <2>1, <3>3 DEF ScansDown
    <3> QED
      BY <3>1, <3>2, <3>4
  <2>5. CASE m >= i + 2
    <3>1. i + 1 \in 1 .. m - 1
      BY <2>2, <2>5
    <3>2. head[p + (i + 1) * Group] # 0
      BY <2>1, <3>1 DEF ScansUp
    <3>3. p + (i + 1) * Group = ctx + Group
      BY <2>2, <1>1, <1>2
    <3>4. head[ctx + Group] = 0
      BY <1>1, <1>2 DEF FlagLane, Chunks
    <3> QED
      BY <3>2, <3>3, <3>4
  <2>6. CASE m = i + 1
    BY <2>1, <2>2, <2>6, <1>1, <1>2
  <2> QED
    BY <2>2, <2>4, <2>5, <2>6
<1>5. ctx \in Chunks
  BY <1>1, <1>2 DEF Chunks
<1> QED
  BY <1>3, <1>4, <1>5 DEF NavigationReturns, Home

-----------------------------------------------------------------------------
(* Facts about constants that most steps need. *)
LEMMA Constants ==
    /\ Group \in Nat /\ Group >= 1 /\ Capacity \in Nat
    /\ CellBase \in Nat /\ CellBase >= 2 /\ 0 \in Byte
    /\ AbiFields \subseteq Lanes
    /\ \A f \in Functions : FrameChunks(f) \in Nat /\ FrameChunks(f) >= 1
                            /\ FrameChunks(f) = BodyChunks[f] + 1
BY TapeAssumption, LayoutAssumption DEF Byte, FrameChunks

(* The frame under the pointer: its function owns the code that runs, its  *)
(* chunks are apart from those of every other frame.                       *)
LEMMA TopFrame ==
    ASSUME Inv
    PROVE  /\ Len(frames) \in Nat /\ Len(frames) >= 1
           /\ frames[Len(frames)].ctx = ctx
           /\ mode \in {"body", "args", "deliver"} =>
                 F \in Functions /\ F = frames[Len(frames)].fn
           /\ \A i \in 1 .. Len(frames) :
                 /\ frames[i].fn \in Functions
                 /\ frames[i].ctx \in 1 .. ctx
                 /\ FrameChunks(frames[i].fn) <= frames[i].ctx
           /\ \A i \in 1 .. Len(frames) - 1 :
                 frames[i].ctx <= ctx - FrameChunks(frames[Len(frames)].fn)
<1>0. /\ frames \in Seq([fn : Functions, ctx : Nat]) /\ Len(frames) >= 1
      /\ FramesApart /\ FramesTile /\ CodeMatchesFrame /\ ctx \in Nat
  BY DEF Inv, Types
<1>1. Len(frames) \in Nat
  BY <1>0, LenProperties
<1>2. ASSUME NEW i \in 1 .. Len(frames)
      PROVE  frames[i].fn \in Functions /\ frames[i].ctx \in Nat
  <2>1. frames[i] \in [fn : Functions, ctx : Nat]
    BY <1>0, <1>2, ElementOfSeq
  <2> QED
    BY <2>1
<1>3. ctx = frames[Len(frames)].ctx
  BY <1>0 DEF FramesTile
<1>4. ASSUME NEW i \in 1 .. Len(frames)
      PROVE  FrameChunks(frames[i].fn) <= frames[i].ctx
  <2>1. CASE i = 1
    BY <1>0, <2>1 DEF FramesApart
  <2>2. CASE i # 1
    <3>1. frames[1].ctx + FrameChunks(frames[i].fn) <= frames[i].ctx
      BY <1>0, <1>1, <2>2 DEF FramesApart
    <3>2. frames[1].ctx \in Nat /\ frames[i].ctx \in Nat
      BY <1>0, <1>1, <1>2
    <3>3. FrameChunks(frames[i].fn) \in Nat
      BY <1>2, Constants
    <3> QED
      BY <3>1, <3>2, <3>3
  <2> QED
    BY <2>1, <2>2
<1>5. ASSUME NEW i \in 1 .. Len(frames) - 1
      PROVE  frames[i].ctx <= ctx - FrameChunks(frames[Len(frames)].fn)
  <2>1. frames[i].ctx + FrameChunks(frames[Len(frames)].fn) <= frames[Len(frames)].ctx
    BY <1>0, <1>1 DEF FramesApart
  <2>2. frames[i].ctx \in Nat /\ frames[Len(frames)].fn \in Functions
    BY <1>0, <1>1, <1>2
  <2>3. FrameChunks(frames[Len(frames)].fn) \in Nat
    BY <2>2, Constants
  <2> QED
    BY <2>1, <2>2, <2>3, <1>0, <1>3
<1>6. ASSUME NEW i \in 1 .. Len(frames)
      PROVE  frames[i].ctx \in 1 .. ctx
  <2>1. frames[i].fn \in Functions /\ frames[i].ctx \in Nat
    BY <1>2
  <2>2. frames[i].ctx >= 1
    BY <2>1, <1>4, Constants
  <2>3. CASE i = Len(frames)
    BY <2>1, <2>2, <2>3, <1>3, <1>0
  <2>4. CASE i # Len(frames)
    <3>1. frames[Len(frames)].fn \in Functions
      BY <1>0, <1>1, <1>2
    <3>2. FrameChunks(frames[Len(frames)].fn) \in Nat
      BY <3>1, Constants
    <3>3. frames[i].ctx <= ctx - FrameChunks(frames[Len(frames)].fn)
      BY <1>1, <1>5, <2>4
    <3> QED
      BY <3>2, <3>3, <2>1, <2>2, <1>0
  <2> QED
    BY <2>3, <2>4
<1>7. mode \in {"body", "args", "deliver"} =>
          F \in Functions /\ F = frames[Len(frames)].fn
  BY <1>0, <1>1, <1>2 DEF CodeMatchesFrame, RunningCodeMatches, ContsOf, F
<1> QED
  BY <1>0, <1>1, <1>2, <1>3, <1>4, <1>5, <1>6, <1>7

(* The cells a frame may give to its program, or use as Restore, are       *)
(* payload: they are no control cell of this or of another frame.          *)
LEMMA FrameCells ==
    ASSUME Inv, NEW i \in 1 .. Len(frames), NEW k \in Nat, NEW q \in Lanes,
           k <= BodyChunks[frames[i].fn],
           k = 0 => q \in {Value, Restore}
    PROVE  <<frames[i].ctx - k, q>> \in Payload /\ frames[i].ctx - k \in 1 .. ctx
<1> DEFINE c == frames[i].ctx
           x == <<c - k, q>>
<1>1. /\ ctx \in Nat /\ ctx + Group <= Capacity /\ FramesApart
      /\ Len(frames) \in Nat
      /\ Group \in Nat /\ Group >= 1 /\ Capacity \in Nat
  BY TopFrame, Constants DEF Inv, Types, ScanRoom
<1>2. /\ frames[i].fn \in Functions /\ c \in 1 .. ctx
      /\ FrameChunks(frames[i].fn) <= c
  BY TopFrame
<1>3. FrameChunks(frames[i].fn) \in Nat /\ k < FrameChunks(frames[i].fn)
  BY <1>2, Constants, LayoutAssumption
<1>4. c - k \in 1 .. ctx
  BY <1>1, <1>2, <1>3
<1>5. x \in Cells
  BY <1>1, <1>4 DEF Cells, Chunks
<1>6. ASSUME NEW j \in 1 .. Len(frames), c - k = frames[j].ctx
      PROVE  q \notin {Active, Pc, NextPc, ReturnPc}
  <2>1. frames[j].fn \in Functions /\ frames[j].ctx \in 1 .. ctx
    BY TopFrame
  <2>2. FrameChunks(frames[j].fn) \in Nat /\ FrameChunks(frames[j].fn) >= 1
    BY <2>1, Constants
  <2>3. CASE i = j
    <3>1. k = 0
      BY <1>2, <1>6, <2>3
    <3> QED
      BY <3>1 DEF Value, Restore, Active, Pc, NextPc, ReturnPc
  <2>4. CASE i < j
    <3>1. c + FrameChunks(frames[j].fn) <= frames[j].ctx
      BY <1>1, <2>4 DEF FramesApart
    <3> QED
      BY <3>1, <2>1, <2>2, <1>2, <1>6
  <2>5. CASE j < i
    <3>1. frames[j].ctx + FrameChunks(frames[i].fn) <= c
      BY <1>1, <2>5 DEF FramesApart
    <3> QED
      BY <3>1, <2>1, <1>2, <1>3, <1>6
  <2> QED
    BY <1>1, <2>3, <2>4, <2>5
<1> QED
  BY <1>4, <1>5, <1>6 DEF Payload

(* What emitted code of the current frame may name without leaving it. *)
LocalCells == Storage[F] \cup {AbiValue, <<0, Restore>>}

LEMMA LocalCellsArePayload ==
    ASSUME Inv, mode \in {"body", "args", "deliver"}, NEW l \in LocalCells
    PROVE  /\ l \in Nat \X Lanes
           /\ At(ctx, l) \in Payload
<1>1. PICK k \in Nat, q \in Lanes :
          /\ l = <<k, q>>
          /\ k <= BodyChunks[F]
          /\ k = 0 => q \in {Value, Restore}
  <2>1. F \in Functions
    BY TopFrame
  <2>2. BodyChunks[F] \in Nat /\ Storage[F] \subseteq (1 .. BodyChunks[F]) \X Lanes
    BY <2>1, LayoutAssumption
  <2>3. CASE l \in Storage[F]
    BY <2>2, <2>3
  <2>4. CASE l \in {AbiValue, <<0, Restore>>}
    BY <2>2, <2>4, Constants DEF AbiValue, AbiFields
  <2> QED
    BY <2>3, <2>4 DEF LocalCells
<1>2. /\ Len(frames) \in 1 .. Len(frames) /\ frames[Len(frames)].ctx = ctx
      /\ frames[Len(frames)].fn = F
  BY TopFrame
<1>3. <<ctx - k, q>> \in Payload
  BY <1>1, <1>2, FrameCells
<1> QED
  BY <1>1, <1>3 DEF At

(* A visit to any location ends in the frame it started from. *)
LEMMA BackHome ==
    ASSUME Inv, NEW l
    PROVE  Back(ctx, l) = ctx
BY RoundTrip DEF Inv, Types, NavigationReturns, Back

LEMMA PlusByte ==
    ASSUME NEW a \in Nat, NEW b \in Nat
    PROVE  Plus(a, b) \in Byte
<1>1. CellBase \in Nat /\ CellBase >= 2 /\ a + b \in Nat
  BY Constants
<1>2. (a + b) % CellBase \in 0 .. CellBase - 1
  BY <1>1
<1> QED
  BY <1>2 DEF Plus, Byte

LEMMA ReadByte ==
    ASSUME Inv, NEW l, l \in Globals \/ At(ctx, l) \in Payload
    PROVE  Read(ctx, l) \in Byte
BY DEF Inv, Types, PayloadIsBytes, Read

(* What a piece of emitted code writes: globals, payload, NextPc of its    *)
(* own context, and nothing else.                                          *)
LEMMA Stores ==
    ASSUME Inv, NEW w, WriteAll(ctx, w),
           \A l \in DOMAIN w :
              \/ l \in Globals /\ w[l] \in Byte
              \/ l \in Int \X Lanes /\ At(ctx, l) \in Payload /\ w[l] \in Byte
              \/ l = <<0, NextPc>> /\ w[l] \in Nat
    PROVE  /\ ctx' = ctx
           /\ cell' \in [Cells -> Nat]
           /\ globals' \in [Globals -> Byte]
           /\ \A x \in Payload : cell'[x] \in Byte
           /\ \A x \in Cells \ Payload : x # <<ctx, NextPc>> => cell'[x] = cell[x]
           /\ \A x \in Cells : <<ctx - x[1], x[2]>> \notin DOMAIN w => cell'[x] = cell[x]
           /\ <<0, NextPc>> \in DOMAIN w => cell'[<<ctx, NextPc>>] = w[<<0, NextPc>>]
<1>1. /\ cell \in [Cells -> Nat] /\ globals \in [Globals -> Byte] /\ ctx \in Nat
      /\ PayloadIsBytes /\ ctx \in Chunks
  BY Constants DEF Inv, Types, ScanRoom, Chunks
<1>2. Byte \subseteq Nat /\ Lanes \subseteq Nat /\ AbiFields \subseteq Lanes
      /\ Globals \cap (Int \X Lanes) = {}
  BY Constants, LayoutAssumption DEF Byte
<1>3. <<ctx, NextPc>> \in Cells /\ <<ctx, NextPc>> \notin Payload
  <2>1. Len(frames) \in 1 .. Len(frames) /\ frames[Len(frames)].ctx = ctx
    BY TopFrame
  <2> QED
    BY <1>1, <1>2, <2>1 DEF Cells, Payload, AbiFields
<1>4. cell' = Written(ctx, w) /\ ctx' = ctx
      /\ globals' = [g \in Globals |-> IF g \in DOMAIN w THEN w[g] ELSE globals[g]]
  BY DEF WriteAll
<1>5. ASSUME NEW x \in Cells
      PROVE  \/ <<ctx - x[1], x[2]>> \notin DOMAIN w /\ cell'[x] = cell[x]
             \/ x \in Payload /\ cell'[x] \in Byte
             \/ x = <<ctx, NextPc>> /\ cell'[x] \in Nat
                /\ <<0, NextPc>> \in DOMAIN w /\ cell'[x] = w[<<0, NextPc>>]
  <2> DEFINE l == <<ctx - x[1], x[2]>>
  <2>1. cell'[x] = IF l \in DOMAIN w THEN w[l] ELSE cell[x]
    BY <1>4 DEF Written
  <2>2. x[1] \in Int /\ x[2] \in Lanes /\ x = <<x[1], x[2]>>
    BY Constants DEF Cells, Chunks
  <2>3. l \in Int \X Lanes /\ l \notin Globals
    BY <1>1, <1>2, <2>2
  <2>4. At(ctx, l) = x
    BY <1>1, <2>2 DEF At
  <2>5. CASE l \notin DOMAIN w
    BY <2>1, <2>5
  <2>6. CASE l \in DOMAIN w
    <3>1. cell'[x] = w[l]
      BY <2>1, <2>6
    <3>2. CASE l = <<0, NextPc>> /\ w[l] \in Nat
      <4>1. ctx - x[1] = 0 /\ x[2] = NextPc
        BY <3>2
      <4>2. x = <<ctx, NextPc>>
        BY <4>1, <2>2, <1>1
      <4> QED
        BY <4>2, <3>1, <3>2, <2>6
    <3>3. CASE At(ctx, l) \in Payload /\ w[l] \in Byte
      BY <3>1, <3>3, <2>4
    <3> QED
      BY <2>3, <2>6, <3>2, <3>3
  <2> QED
    BY <2>5, <2>6
<1>6. cell' \in [Cells -> Nat]
  <2>1. ASSUME NEW x \in Cells PROVE cell'[x] \in Nat
    BY <1>1, <1>2, <1>5
  <2>2. cell' = [x \in Cells |-> cell'[x]]
    BY <1>4 DEF Written
  <2> QED
    BY <2>1, <2>2
<1>7. globals' \in [Globals -> Byte]
  <2>1. ASSUME NEW g \in Globals, g \in DOMAIN w PROVE w[g] \in Byte
    <3>1. g # <<0, NextPc>> /\ g \notin Int \X Lanes
      BY <1>2 DEF AbiFields
    <3> QED
      BY <2>1, <3>1
  <2> QED
    BY <1>1, <1>4, <2>1
<1>8. Payload \subseteq Cells
  BY DEF Payload
<1>9. ASSUME NEW x \in Payload PROVE cell'[x] \in Byte
  <2>1. x \in Cells /\ x # <<ctx, NextPc>> /\ cell[x] \in Byte
    BY <1>1, <1>3, <1>8 DEF PayloadIsBytes
  <2> QED
    BY <2>1, <1>5
<1>10. ASSUME <<0, NextPc>> \in DOMAIN w
       PROVE  cell'[<<ctx, NextPc>>] = w[<<0, NextPc>>]
  <2>1. <<ctx - <<ctx, NextPc>>[1], <<ctx, NextPc>>[2]>> = <<0, NextPc>>
    BY <1>1
  <2> QED
    BY <1>3, <1>4, <1>10, <2>1 DEF Written
<1>11. ASSUME NEW x \in Cells, <<ctx - x[1], x[2]>> \notin DOMAIN w
       PROVE  cell'[x] = cell[x]
  BY <1>4, <1>11 DEF Written
<1>12. ASSUME NEW x \in Cells \ Payload, x # <<ctx, NextPc>>
       PROVE  cell'[x] = cell[x]
  BY <1>5, <1>12
<1> QED
  BY <1>4, <1>6, <1>7, <1>9, <1>10, <1>11, <1>12

-----------------------------------------------------------------------------
(* A step that moves no frame keeps the invariant when it keeps the        *)
(* control cells of suspended frames and its own return PC, and the        *)
(* conjuncts about the running code.                                       *)
LEMMA SameFrames ==
    ASSUME Inv,
           UNCHANGED <<head, ctx, frames>>,
           cell' \in [Cells -> Nat], globals' \in [Globals -> Byte],
           code' \in Conts, mode' \in Modes,
           \A x \in Payload : cell'[x] \in Byte,
           \A x \in Cells \ Payload : x[1] # ctx => cell'[x] = cell[x],
           cell'[<<ctx, ReturnPc>>] = cell[<<ctx, ReturnPc>>],
           FreeTapeZero', CurrentContext', PendingOK', RunningCodeMatches'
    PROVE  Inv'
<1>1. Types'
  BY DEF Inv, Types
<1>2. ScanRoom' /\ FlagLane' /\ FramesTile' /\ FramesApart' /\ CallsAreValid'
  BY DEF Inv, ScanRoom, FlagLane, FramesTile, FramesApart, CallsAreValid
<1>3. PayloadIsBytes'
  BY DEF PayloadIsBytes, Payload
<1>4. ASSUME NEW i \in 1 .. Len(frames), i # Len(frames),
             NEW q \in {Active, Pc, NextPc, ReturnPc}
      PROVE  cell'[<<frames[i].ctx, q>>] = cell[<<frames[i].ctx, q>>]
  <2>1. /\ Len(frames) \in Nat /\ ctx \in Nat /\ ctx + Group <= Capacity
        /\ Group \in Nat /\ Group >= 1 /\ Capacity \in Nat
    BY TopFrame, Constants DEF Inv, Types, ScanRoom
  <2>2. i \in 1 .. Len(frames) - 1
    BY <2>1, <1>4
  <2>3. /\ frames[Len(frames)].fn \in Functions
        /\ frames[i].ctx <= ctx - FrameChunks(frames[Len(frames)].fn)
        /\ frames[i].ctx \in 1 .. ctx
    BY <2>1, <2>2, TopFrame
  <2>4. FrameChunks(frames[Len(frames)].fn) \in Nat
        /\ FrameChunks(frames[Len(frames)].fn) >= 1
    BY <2>3, Constants
  <2>5. frames[i].ctx # ctx
    BY <2>1, <2>3, <2>4
  <2>6. <<frames[i].ctx, q>> \in Cells
    BY <2>1, <2>3, Constants DEF Cells, Chunks, AbiFields
  <2>7. <<frames[i].ctx, q>> \notin Payload
    BY DEF Payload
  <2> QED
    BY <2>5, <2>6, <2>7
<1>5. SuspendedFramesWait'
  <2>1. ASSUME NEW i \in 1 .. Len(frames) - 1
        PROVE  i \in 1 .. Len(frames) /\ i # Len(frames)
    BY TopFrame
  <2> QED
    BY <1>4, <2>1 DEF Inv, SuspendedFramesWait
<1>6. ReturnPcsMatch'
  <2> SUFFICES ASSUME NEW i \in 2 .. Len(frames)
               PROVE  cell'[<<frames[i].ctx, ReturnPc>>] \in ContsOf(frames[i - 1].fn)
    BY DEF ReturnPcsMatch
  <2>1. cell[<<frames[i].ctx, ReturnPc>>] \in ContsOf(frames[i - 1].fn)
    BY DEF Inv, CodeMatchesFrame, ReturnPcsMatch
  <2>2. CASE i = Len(frames)
    BY <2>1, <2>2, TopFrame
  <2>3. CASE i # Len(frames)
    <3>1. i \in 1 .. Len(frames)
      OBVIOUS
    <3> QED
      BY <1>4, <2>1, <2>3, <3>1
  <2> QED
    BY <2>2, <2>3
<1> QED
  BY <1>1, <1>2, <1>3, <1>5, <1>6 DEF Inv, CodeMatchesFrame

(* Facts about the cells of the current context. *)
LEMMA ContextCells ==
    ASSUME Inv, NEW q \in {Active, Pc, NextPc, ReturnPc}
    PROVE  <<ctx, q>> \in Cells /\ <<ctx, q>> \notin Payload
<1>1. /\ Len(frames) \in 1 .. Len(frames) /\ frames[Len(frames)].ctx = ctx
      /\ ctx \in Nat /\ ctx + Group <= Capacity
  BY TopFrame DEF Inv, Types, ScanRoom
<1>2. <<ctx, q>> \in Cells
  BY <1>1, Constants DEF Cells, Chunks, AbiFields
<1> QED
  BY <1>1, <1>2 DEF Payload

(* A step of emitted code that stores only program data: it goes on in the *)
(* same function, in the same frame.                                       *)
LEMMA DataStep ==
    ASSUME Inv, mode \in {"body", "args", "deliver"}, mode' = mode,
           UNCHANGED <<head, code, frames>>, NEW w, WriteAll(ctx, w),
           \A l \in DOMAIN w :
              /\ l \in Globals \/ (l \in Int \X Lanes /\ At(ctx, l) \in Payload)
              /\ w[l] \in Byte,
           FreeTapeZero', PendingOK'
    PROVE  Inv'
<1>1. /\ ctx' = ctx
      /\ cell' \in [Cells -> Nat]
      /\ globals' \in [Globals -> Byte]
      /\ \A x \in Payload : cell'[x] \in Byte
      /\ \A x \in Cells \ Payload : x # <<ctx, NextPc>> => cell'[x] = cell[x]
      /\ \A x \in Cells : <<ctx - x[1], x[2]>> \notin DOMAIN w => cell'[x] = cell[x]
  BY Stores
<1>2. ctx \in Nat
  BY DEF Inv, Types
<1>3. <<0, NextPc>> \notin DOMAIN w
  <2>1. At(ctx, <<0, NextPc>>) = <<ctx, NextPc>>
    BY <1>2 DEF At
  <2>2. <<0, NextPc>> \notin Globals
    BY LayoutAssumption DEF AbiFields
  <2> QED
    BY <2>1, <2>2, ContextCells
<1>4. ASSUME NEW q \in {Active, Pc, NextPc, ReturnPc}
      PROVE  cell'[<<ctx, q>>] = cell[<<ctx, q>>]
  <2>1. <<ctx, q>> \in Cells \ Payload
    BY ContextCells
  <2>2. CASE q = NextPc
    <3>1. <<ctx - <<ctx, q>>[1], <<ctx, q>>[2]>> = <<0, NextPc>>
      BY <1>2, <2>2
    <3> QED
      BY <1>1, <1>3, <2>1, <3>1
  <2>3. CASE q # NextPc
    BY <1>1, <2>1, <2>3
  <2> QED
    BY <2>2, <2>3
<1>5. CurrentContext'
  BY <1>1, <1>4 DEF Inv, CurrentContext
<1>6. RunningCodeMatches'
  BY <1>1, <1>4 DEF Inv, CodeMatchesFrame, RunningCodeMatches
<1>7. code' \in Conts /\ mode' \in Modes
  BY DEF Inv, Types
<1>8. \A x \in Cells \ Payload : x[1] # ctx => cell'[x] = cell[x]
  BY <1>1
<1> QED
  BY <1>1, <1>4, <1>5, <1>6, <1>7, <1>8, SameFrames

(* Stores that stay within the frame leave the free zone alone. *)
LEMMA FreeZoneKept ==
    ASSUME Inv, mode # "args", mode' # "args", ctx' = ctx,
           \A x \in Cells : x[1] > ctx => cell'[x] = cell[x]
    PROVE  FreeTapeZero'
BY DEF Inv, FreeTapeZero

LEMMA LocationKinds ==
    ASSUME Inv, mode \in {"body", "args", "deliver"},
           NEW l \in Locations(F) \cup {<<0, Restore>>}
    PROVE  l \in Globals \/ (l \in Nat \X Lanes /\ At(ctx, l) \in Payload)
BY LocalCellsArePayload DEF Locations, LocalCells

(* A frame instruction. *)
LEMMA FrameStore ==
    ASSUME Inv, mode = "body", mode' = mode,
           UNCHANGED <<head, code, frames>>, NEW w, WriteAll(ctx, w),
           DOMAIN w \subseteq Locations(F) \cup {<<0, Restore>>},
           \A l \in DOMAIN w : w[l] \in Byte
    PROVE  Inv'
<1>1. ctx \in Nat
  BY DEF Inv, Types
<1>2. \A l \in DOMAIN w :
        l \in Globals \/ (l \in Nat \X Lanes /\ At(ctx, l) \in Payload)
  BY LocationKinds
<1>3. FreeTapeZero'
  <2>1. ASSUME NEW x \in Cells, x[1] > ctx
        PROVE  cell'[x] = cell[x]
    <3>1. x[1] \in Int /\ x[2] \in Lanes
      BY Constants DEF Cells, Chunks
    <3>2. <<ctx - x[1], x[2]>> \in Int \X Lanes /\ ~(ctx - x[1] \in Nat)
      BY <1>1, <2>1, <3>1
    <3>3. <<ctx - x[1], x[2]>> \notin DOMAIN w
      BY <1>2, <3>2, LayoutAssumption
    <3> QED
      BY <3>3 DEF WriteAll, Written
  <2> QED
    BY <2>1, FreeZoneKept DEF WriteAll
<1>4. PendingOK'
  BY DEF PendingOK
<1> QED
  BY <1>2, <1>3, <1>4, DataStep

LEMMA BodyKeepsInv ==
    ASSUME Inv, BodyStep
    PROVE  Inv'
<1>1. PICK dst \in Locations(F) :
        \/ \E v \in Byte : SetLocation(dst, v)
        \/ \E src \in Locations(F) : CopyLocations(src, dst)
        \/ \E src \in Locations(F), factor \in Byte \ {0} :
                TransferLocation(src, dst, factor)
  BY DEF BodyStep
<1>2. Back(ctx, dst) = ctx /\ \A l : Back(ctx, l) = ctx
  BY BackHome
<1>3. 0 \in Byte /\ Byte \subseteq Nat
  BY Constants DEF Byte
<1>4. CASE \E v \in Byte : SetLocation(dst, v)
  <2>1. PICK v \in Byte : SetLocation(dst, v)
    BY <1>4
  <2> DEFINE w == [l \in {dst} |-> v]
  <2>2. /\ mode = "body" /\ mode' = mode /\ UNCHANGED <<head, code, frames>>
        /\ WriteAll(ctx, w)
    BY <1>2, <2>1 DEF SetLocation
  <2>3. DOMAIN w \subseteq Locations(F) \cup {<<0, Restore>>} /\ \A l \in DOMAIN w : w[l] \in Byte
    OBVIOUS
  <2> HIDE DEF w
  <2> QED
    BY <2>2, <2>3, FrameStore
<1>5. CASE \E src \in Locations(F) : CopyLocations(src, dst)
  <2>1. PICK src \in Locations(F) : CopyLocations(src, dst)
    BY <1>5
  <2> DEFINE w == [l \in {dst, <<0, Restore>>} |-> IF l = dst THEN Read(ctx, src) ELSE 0]
  <2>2. /\ mode = "body" /\ mode' = mode /\ UNCHANGED <<head, code, frames>>
        /\ WriteAll(ctx, w)
    BY <1>2, <2>1 DEF CopyLocations
  <2>3. Read(ctx, src) \in Byte
    BY <2>2, LocationKinds, ReadByte
  <2>4. DOMAIN w \subseteq Locations(F) \cup {<<0, Restore>>} /\ \A l \in DOMAIN w : w[l] \in Byte
    BY <1>3, <2>3
  <2> HIDE DEF w
  <2> QED
    BY <2>2, <2>4, FrameStore
<1>6. CASE \E src \in Locations(F), factor \in Byte \ {0} : TransferLocation(src, dst, factor)
  <2>1. PICK src \in Locations(F), factor \in Byte \ {0} : TransferLocation(src, dst, factor)
    BY <1>6
  <2> DEFINE w == [l \in {src, dst} |->
                IF l = src THEN 0 ELSE Plus(Read(ctx, dst), factor * Read(ctx, src))]
  <2>2. /\ mode = "body" /\ mode' = mode /\ UNCHANGED <<head, code, frames>>
        /\ WriteAll(ctx, w)
    BY <1>2, <2>1 DEF TransferLocation
  <2>3. Read(ctx, src) \in Byte /\ Read(ctx, dst) \in Byte
    BY <2>2, LocationKinds, ReadByte
  <2>4. factor * Read(ctx, src) \in Nat /\ Read(ctx, dst) \in Nat
    <3>1. factor \in Nat /\ Read(ctx, src) \in Nat /\ Read(ctx, dst) \in Nat
      BY <1>3, <2>3
    <3>2. \A a, b \in Nat : a * b \in Nat
      OBVIOUS
    <3> QED
      BY <3>1, <3>2
  <2>5. Plus(Read(ctx, dst), factor * Read(ctx, src)) \in Byte
    BY <2>4, PlusByte
  <2>6. DOMAIN w \subseteq Locations(F) \cup {<<0, Restore>>} /\ \A l \in DOMAIN w : w[l] \in Byte
    BY <1>3, <2>5
  <2> HIDE DEF w
  <2> QED
    BY <2>2, <2>6, FrameStore
<1> QED
  BY <1>1, <1>4, <1>5, <1>6

(* The dispatcher: it only moves the PC of the current context. *)
LEMMA DispatcherKeepsInv ==
    ASSUME Inv, Dispatch \/ EndCycle
    PROVE  Inv'
<1>1. /\ cell \in [Cells -> Nat] /\ ctx \in Nat /\ code \in Conts /\ mode \in Modes
      /\ globals \in [Globals -> Byte] /\ PayloadIsBytes /\ CurrentContext
      /\ RunningCodeMatches
  BY DEF Inv, Types, CodeMatchesFrame
<1>2. \A q \in {Active, Pc, NextPc, ReturnPc} :
          <<ctx, q>> \in Cells /\ <<ctx, q>> \notin Payload
  BY ContextCells
<1>3. Payload \subseteq Cells
  BY DEF Payload
<1>4. CASE Dispatch
  <2>1. /\ UNCHANGED <<head, globals, ctx, pending, frames>> /\ mode = "dispatch"
        /\ mode' \in {"body", "stopped"}
        /\ code' \in Conts /\ cell' \in [Cells -> Nat]
        /\ \A x \in Cells : x # <<ctx, Pc>> => cell'[x] = cell[x]
        /\ mode' = "body" => /\ cell'[<<ctx, Pc>>] = 0
                             /\ cell[<<ctx, Active>>] # 0
                             /\ code' = cell[<<ctx, Pc>>]
    <3>1. CASE cell[<<ctx, Active>>] = 0
      BY <1>1, <1>4, <3>1 DEF Dispatch
    <3>2. CASE cell[<<ctx, Active>>] # 0
      BY <1>1, <1>2, <1>4, <3>2 DEF Dispatch
    <3> QED
      BY <3>1, <3>2
  <2>2. \A q \in {Active, NextPc, ReturnPc} : cell'[<<ctx, q>>] = cell[<<ctx, q>>]
    BY <1>2, <2>1 DEF Active, Pc, NextPc, ReturnPc
  <2>3. CurrentContext'
    BY <1>1, <2>1, <2>2 DEF CurrentContext
  <2>4. RunningCodeMatches'
    BY <1>1, <2>1, <2>2 DEF RunningCodeMatches
  <2>5. FreeTapeZero'
    <3>1. ASSUME NEW x \in Cells, x[1] > ctx PROVE x # <<ctx, Pc>>
      BY <1>1, <3>1
    <3> QED
      BY <2>1, <3>1, FreeZoneKept
  <2>6. PendingOK'
    BY <2>1 DEF PendingOK
  <2>7. \A x \in Payload : cell'[x] \in Byte
    BY <1>1, <1>2, <1>3, <2>1 DEF PayloadIsBytes
  <2>8. \A x \in Cells \ Payload : x[1] # ctx => cell'[x] = cell[x]
    BY <2>1
  <2>9. mode' \in Modes
    BY <2>1 DEF Modes
  <2> QED
    BY <1>1, <2>1, <2>2, <2>3, <2>4, <2>5, <2>6, <2>7, <2>8, <2>9, SameFrames
<1>5. CASE EndCycle
  <2>1. /\ UNCHANGED <<head, globals, ctx, code, pending, frames>> /\ mode = "cycle"
        /\ mode' = "dispatch" /\ cell' \in [Cells -> Nat]
        /\ \A x \in Cells : x \notin {<<ctx, Pc>>, <<ctx, NextPc>>} => cell'[x] = cell[x]
        /\ cell'[<<ctx, Pc>>] = cell[<<ctx, NextPc>>]
        /\ cell'[<<ctx, NextPc>>] = 0
    BY <1>1, <1>2, <1>5 DEF EndCycle, AdvancedPc, Pc, NextPc
  <2>2. \A q \in {Active, ReturnPc} : cell'[<<ctx, q>>] = cell[<<ctx, q>>]
    BY <1>2, <2>1 DEF Active, Pc, NextPc, ReturnPc
  <2>3. CurrentContext'
    BY <1>1, <2>1, <2>2 DEF CurrentContext
  <2>4. RunningCodeMatches'
    BY <1>1, <2>1, <2>2 DEF RunningCodeMatches
  <2>5. FreeTapeZero'
    <3>1. ASSUME NEW x \in Cells, x[1] > ctx PROVE x \notin {<<ctx, Pc>>, <<ctx, NextPc>>}
      BY <1>1, <3>1
    <3> QED
      BY <2>1, <3>1, FreeZoneKept
  <2>6. PendingOK'
    BY <2>1 DEF PendingOK
  <2>7. \A x \in Payload : cell'[x] \in Byte
    BY <1>1, <1>2, <1>3, <2>1 DEF PayloadIsBytes
  <2>8. \A x \in Cells \ Payload : x[1] # ctx => cell'[x] = cell[x]
    BY <2>1
  <2>9. mode' \in Modes
    BY <2>1 DEF Modes
  <2> QED
    BY <1>1, <2>1, <2>2, <2>3, <2>4, <2>5, <2>6, <2>7, <2>8, <2>9, SameFrames
<1> QED
  BY <1>4, <1>5

(* A terminator that stays in its frame: NextPc of the context, and data. *)
LEMMA ControlStore ==
    ASSUME Inv, mode = "body", mode' = "cycle",
           UNCHANGED <<head, code, frames>>, NEW w, WriteAll(ctx, w),
           NEW target \in ContsOf(F),
           \A l \in DOMAIN w : l # <<0, NextPc>> => l \in Locations(F) /\ w[l] \in Byte,
           <<0, NextPc>> \in DOMAIN w, w[<<0, NextPc>>] = target
    PROVE  Inv'
<1>1. ctx \in Nat /\ code \in Conts /\ CurrentContext /\ target \in Nat
  BY ProgramAssumption DEF Inv, Types, ContsOf
<1>2. \A l \in DOMAIN w :
         \/ l \in Globals /\ w[l] \in Byte
         \/ l \in Nat \X Lanes /\ At(ctx, l) \in Payload /\ w[l] \in Byte
         \/ l = <<0, NextPc>> /\ w[l] \in Nat
  BY <1>1, LocationKinds
<1>3. /\ ctx' = ctx
      /\ cell' \in [Cells -> Nat]
      /\ globals' \in [Globals -> Byte]
      /\ \A x \in Payload : cell'[x] \in Byte
      /\ \A x \in Cells \ Payload : x # <<ctx, NextPc>> => cell'[x] = cell[x]
      /\ \A x \in Cells : <<ctx - x[1], x[2]>> \notin DOMAIN w => cell'[x] = cell[x]
      /\ cell'[<<ctx, NextPc>>] = target
  BY <1>2, Stores
<1>4. \A q \in {Active, Pc, NextPc, ReturnPc} :
          <<ctx, q>> \in Cells /\ <<ctx, q>> \notin Payload
  BY ContextCells
<1>5. \A q \in {Active, Pc, ReturnPc} : cell'[<<ctx, q>>] = cell[<<ctx, q>>]
  BY <1>3, <1>4 DEF Active, Pc, NextPc, ReturnPc
<1>6. CurrentContext'
  BY <1>1, <1>3, <1>5 DEF CurrentContext
<1>7. RunningCodeMatches'
  <2>1. F = frames[Len(frames)].fn
    BY TopFrame
  <2> QED
    BY <1>3, <2>1 DEF RunningCodeMatches, ContsOf
<1>8. FreeTapeZero'
  <2>1. ASSUME NEW x \in Cells, x[1] > ctx
        PROVE  cell'[x] = cell[x]
    <3>1. x[1] \in Int /\ x[2] \in Lanes
      BY Constants DEF Cells, Chunks
    <3>2. <<ctx - x[1], x[2]>> \in Int \X Lanes /\ ~(ctx - x[1] \in Nat)
      BY <1>1, <2>1, <3>1
    <3>3. <<ctx - x[1], x[2]>> \notin DOMAIN w
      BY <1>2, <3>2, LayoutAssumption
    <3> QED
      BY <1>3, <3>3
  <2> QED
    BY <1>3, <2>1, FreeZoneKept
<1>9. PendingOK' /\ mode' \in Modes
  BY DEF PendingOK, Modes
<1>10. \A x \in Cells \ Payload : x[1] # ctx => cell'[x] = cell[x]
  BY <1>3
<1> QED
  BY <1>1, <1>3, <1>5, <1>6, <1>7, <1>8, <1>9, <1>10, SameFrames

LEMMA LocalControlKeepsInv ==
    ASSUME Inv, LocalControl
    PROVE  Inv'
<1>1. \A l : Back(ctx, l) = ctx
  BY BackHome
<1>2. /\ cell \in [Cells -> Nat] /\ ctx \in Nat /\ globals \in [Globals -> Byte]
  BY DEF Inv, Types
<1>3. ASSUME NEW target \in ContsOf(F), Goto(target)
      PROVE  Inv'
  <2> DEFINE w == [l \in {<<0, NextPc>>} |-> target]
  <2>1. cell' = Written(ctx, w)
    <3>1. ASSUME NEW x \in Cells
          PROVE  (<<ctx - x[1], x[2]>> \in DOMAIN w) <=> (x = <<ctx, NextPc>>)
      <4>1. x[1] \in Int /\ x = <<x[1], x[2]>>
        BY Constants DEF Cells, Chunks
      <4> QED
        BY <4>1, <1>2
    <3>2. ASSUME NEW x \in Cells
          PROVE  cell'[x] = IF x = <<ctx, NextPc>> THEN target ELSE cell[x]
      BY <1>2, <1>3 DEF Goto
    <3>3. cell' = [x \in Cells |-> cell'[x]]
      BY <1>2, <1>3 DEF Goto
    <3> QED
      BY <3>1, <3>2, <3>3 DEF Written
  <2>2. globals' = [g \in Globals |-> IF g \in DOMAIN w THEN w[g] ELSE globals[g]]
    <3>1. \A g \in Globals : g \notin DOMAIN w
      BY LayoutAssumption DEF AbiFields
    <3> QED
      BY <3>1, <1>2, <1>3 DEF Goto
  <2>3. /\ WriteAll(ctx, w) /\ mode = "body" /\ mode' = "cycle"
        /\ UNCHANGED <<head, code, frames>>
    BY <1>3, <2>1, <2>2 DEF Goto, WriteAll
  <2> QED
    BY <2>3, ControlStore
<1>4. ASSUME NEW condition \in Locations(F), NEW then \in ContsOf(F), NEW else \in ContsOf(F),
             Branch(condition, then, else)
      PROVE  Inv'
  <2> DEFINE target == IF Read(ctx, condition) # 0 THEN then ELSE else
             w == [l \in {condition, <<0, NextPc>>} |->
                     IF l = condition THEN 0
                     ELSE IF Read(ctx, condition) # 0 THEN then ELSE else]
  <2>1. /\ WriteAll(ctx, w) /\ mode = "body" /\ mode' = "cycle"
        /\ UNCHANGED <<head, code, frames>>
    BY <1>1, <1>4 DEF Branch
  <2>2. condition # <<0, NextPc>>
    <3>1. At(ctx, <<0, NextPc>>) = <<ctx, NextPc>> /\ <<0, NextPc>> \notin Globals
      BY <1>2, LayoutAssumption DEF At, AbiFields
    <3> QED
      BY <3>1, <2>1, LocationKinds, ContextCells
  <2>3. /\ \A l \in DOMAIN w : l # <<0, NextPc>> => l \in Locations(F) /\ w[l] \in Byte
        /\ <<0, NextPc>> \in DOMAIN w
        /\ w[<<0, NextPc>>] = target
        /\ target \in ContsOf(F)
    BY <2>2, Constants
  <2> HIDE DEF w, target
  <2> QED
    BY <2>1, <2>3, ControlStore
<1> QED
  BY <1>3, <1>4 DEF LocalControl

LEMMA StopKeepsInv ==
    ASSUME Inv, Stop
    PROVE  Inv'
<1>1. /\ cell \in [Cells -> Nat] /\ ctx \in Nat /\ code \in Conts
      /\ globals \in [Globals -> Byte] /\ PayloadIsBytes /\ CurrentContext
  BY DEF Inv, Types
<1>2. \A q \in {Active, Pc, NextPc, ReturnPc} :
          <<ctx, q>> \in Cells /\ <<ctx, q>> \notin Payload
  BY ContextCells
<1>3. /\ UNCHANGED <<head, globals, ctx, code, pending, frames>>
      /\ mode = "body" /\ mode' = "cycle"
      /\ cell' \in [Cells -> Nat] /\ cell'[<<ctx, Active>>] = 0
      /\ \A x \in Cells : x # <<ctx, Active>> => cell'[x] = cell[x]
  BY <1>1, <1>2 DEF Stop
<1>4. \A q \in {Pc, NextPc, ReturnPc} : cell'[<<ctx, q>>] = cell[<<ctx, q>>]
  BY <1>2, <1>3 DEF Active, Pc, NextPc, ReturnPc
<1>5. CurrentContext' /\ RunningCodeMatches' /\ PendingOK' /\ mode' \in Modes
  BY <1>1, <1>3, <1>4 DEF CurrentContext, RunningCodeMatches, PendingOK, Modes
<1>6. FreeTapeZero'
  <2>1. ASSUME NEW x \in Cells, x[1] > ctx PROVE x # <<ctx, Active>>
    BY <1>1, <2>1
  <2> QED
    BY <1>3, <2>1, FreeZoneKept
<1>7. Payload \subseteq Cells
  BY DEF Payload
<1>8. \A x \in Payload : cell'[x] \in Byte
  BY <1>2, <1>3, <1>7, <1>1 DEF PayloadIsBytes
<1>9. \A x \in Cells \ Payload : x[1] # ctx => cell'[x] = cell[x]
  BY <1>3
<1> QED
  BY <1>1, <1>3, <1>4, <1>5, <1>6, <1>8, <1>9, SameFrames

(* The first step of a call or of a return: it may clear Restore. *)
LEMMA BeginStep ==
    ASSUME Inv, mode = "body", mode' \in {"args", "deliver"},
           UNCHANGED <<head, globals, ctx, code, frames>>,
           cell' = cell \/ cell' = [cell EXCEPT ![<<ctx, Restore>>] = 0],
           PendingOK'
    PROVE  Inv'
<1>1. /\ cell \in [Cells -> Nat] /\ ctx \in Nat /\ code \in Conts
      /\ globals \in [Globals -> Byte] /\ PayloadIsBytes /\ CurrentContext
      /\ RunningCodeMatches /\ FreeTapeZero /\ 0 \in Byte
  BY Constants DEF Inv, Types, CodeMatchesFrame
<1>2. /\ cell' \in [Cells -> Nat]
      /\ \A x \in Cells : x # <<ctx, Restore>> => cell'[x] = cell[x]
      /\ \A x \in Payload : cell'[x] \in Byte
  <2>1. CASE cell' = cell
    BY <1>1, <2>1 DEF PayloadIsBytes
  <2>2. CASE cell' = [cell EXCEPT ![<<ctx, Restore>>] = 0]
    <3>1. Payload \subseteq Cells
      BY DEF Payload
    <3> QED
      BY <1>1, <2>2, <3>1 DEF PayloadIsBytes
  <2> QED
    BY <2>1, <2>2
<1>3. \A q \in {Active, Pc, NextPc, ReturnPc} : cell'[<<ctx, q>>] = cell[<<ctx, q>>]
  BY <1>2, ContextCells DEF Active, Pc, NextPc, ReturnPc, Restore
<1>4. CurrentContext' /\ RunningCodeMatches' /\ mode' \in Modes
  BY <1>1, <1>3 DEF CurrentContext, RunningCodeMatches, Modes
<1>5. FreeTapeZero'
  <2>1. ASSUME NEW x \in Cells, x[1] > ctx PROVE x # <<ctx, Restore>>
    BY <1>1, <2>1
  <2>2. \A x \in Cells : x[1] > ctx => cell[x] = 0
    BY <1>1 DEF FreeTapeZero
  <2> QED
    BY <1>2, <2>1, <2>2 DEF FreeTapeZero
<1>6. \A x \in Cells \ Payload : x[1] # ctx => cell'[x] = cell[x]
  BY <1>2
<1> QED
  BY <1>1, <1>2, <1>3, <1>4, <1>5, <1>6, SameFrames

LEMMA CallKeepsInv ==
    ASSUME Inv, CallStep
    PROVE  Inv'
<1>0. PICK g \in Functions, ret \in ContsOf(F) :
           MayCall(F, g) /\ \E args \in Arguments(F, g) :
              \E dead \in SUBSET MayConsume(args) : BeginCall(g, args, ret, dead)
  BY DEF CallStep
<1>1. PICK args \in Arguments(F, g) :
           \E dead \in SUBSET MayConsume(args) : BeginCall(g, args, ret, dead)
  BY <1>0
<1>2. PICK dead : BeginCall(g, args, ret, dead)
  BY <1>1
<1>3. /\ mode = "body" /\ mode' = "args"
      /\ UNCHANGED <<head, globals, ctx, code, frames>>
      /\ cell' = cell \/ cell' = [cell EXCEPT ![<<ctx, Restore>>] = 0]
      /\ ctx + FrameChunks(g) + Group <= Capacity
      /\ pending' = [kind |-> "call", callee |-> g, args |-> args, ret |-> ret,
                     dead |-> dead, next |-> 1, parameters |-> {},
                     stack |-> StackOnTape, globals |-> globals]
  BY <1>2 DEF BeginCall
<1>4. PendingOK'
  BY <1>0, <1>1, <1>3 DEF PendingOK, F
<1> QED
  BY <1>3, <1>4, BeginStep

LEMMA ReturnKeepsInv ==
    ASSUME Inv, ReturnStep
    PROVE  Inv'
<1>1. PICK result \in Results(F) : BeginReturn(result)
  BY DEF ReturnStep
<1>2. /\ mode = "body" /\ mode' = "deliver" /\ F # Main
      /\ UNCHANGED <<head, globals, ctx, code, frames>>
      /\ cell' = cell \/ cell' = [cell EXCEPT ![<<ctx, Restore>>] = 0]
      /\ pending' = [kind |-> "return", result |-> result, next |-> 1,
                     stack |-> StackOnTape, globals |-> globals]
  BY <1>1 DEF BeginReturn
<1>3. PendingOK'
  BY <1>1, <1>2 DEF PendingOK, F
<1> QED
  BY <1>2, <1>3, BeginStep

(* A parameter cell lies in the free zone. *)
LEMMA ParameterPlace ==
    ASSUME Inv, mode = "args", NEW l \in ParameterCells(pending.callee)
    PROVE  /\ l \in Int \X Lanes /\ l[1] < 0
           /\ At(ctx, l) \in Payload
           /\ 0 - l[1] \in 1 .. BodyChunks[pending.callee]
<1>1. /\ pending.callee \in Functions /\ ctx \in Nat
      /\ ctx + FrameChunks(pending.callee) + Group <= Capacity
  BY DEF Inv, Types, PendingOK
<1>2. PICK p \in Storage[pending.callee] : l = <<p[1] - FrameChunks(pending.callee), p[2]>>
  BY DEF ParameterCells
<1>3. /\ p[1] \in 1 .. BodyChunks[pending.callee] /\ p[2] \in Lanes
      /\ BodyChunks[pending.callee] \in Nat
  BY <1>1, LayoutAssumption
<1>4. /\ FrameChunks(pending.callee) = BodyChunks[pending.callee] + 1
      /\ Group \in Nat /\ Group >= 1 /\ Capacity \in Nat
  BY <1>1, Constants
<1>5. /\ l[1] = p[1] - FrameChunks(pending.callee) /\ l[2] = p[2]
      /\ l \in Int \X Lanes /\ l[1] < 0 /\ 0 - l[1] \in 1 .. BodyChunks[pending.callee]
  BY <1>2, <1>3, <1>4
<1>6. At(ctx, l) \in Cells /\ At(ctx, l)[1] > ctx
  BY <1>1, <1>3, <1>4, <1>5 DEF At, Cells, Chunks
<1>7. \A i \in 1 .. Len(frames) : frames[i].ctx <= ctx /\ frames[i].ctx \in Nat
  BY TopFrame
<1>8. At(ctx, l)[1] \in Int
  BY <1>1, <1>5 DEF At
<1> QED
  BY <1>1, <1>5, <1>6, <1>7, <1>8 DEF Payload

LEMMA ArgumentKeepsInv ==
    ASSUME Inv, CopyArgument
    PROVE  Inv'
<1> DEFINE g == pending.callee
           i == pending.next
           src == pending.args[i]
           param == Params[g][i]
           dst == <<param[1] - FrameChunks(g), param[2]>>
           restore == <<0, Restore>>
           c == Back(ctx, src)
           v == Read(c, src)
           old == ParameterBase(c, dst)
           w == [l \in {src, dst, restore} |->
                  CASE l = dst     -> Plus(old, v)
                    [] l = restore -> IF i \in pending.dead THEN Read(c, restore) ELSE 0
                    [] l = src     -> IF i \in pending.dead THEN 0
                                      ELSE Plus(v, Read(c, restore))]
<1>1. c = ctx
  BY BackHome
<1>2. /\ mode = "args" /\ mode' = mode /\ UNCHANGED <<head, code, frames>>
      /\ i <= Len(Params[g]) /\ WriteAll(ctx, w)
      /\ pending' = [pending EXCEPT !.next = @ + 1, !.parameters = @ \cup {dst}]
  <2>1. /\ mode = "args" /\ mode' = mode /\ UNCHANGED <<head, code, frames>>
        /\ i <= Len(Params[g]) /\ WriteAll(c, w)
        /\ pending' = [pending EXCEPT !.next = @ + 1, !.parameters = @ \cup {dst}]
    BY Zenon DEF CopyArgument
  <2> HIDE DEF c, w
  <2> QED
    BY <2>1, <1>1
<1>3. /\ g \in Functions /\ i \in Nat \ {0} /\ pending.args \in Arguments(F, g)
      /\ pending.parameters \subseteq ParameterCells(g) /\ ctx \in Nat
      /\ DOMAIN pending = {"kind", "callee", "args", "ret", "dead", "next",
                           "parameters", "stack", "globals"}
      /\ PendingOK
  BY <1>2 DEF Inv, Types, PendingOK
<1>4. param \in Storage[g] /\ i \in 1 .. Len(Params[g])
  <2>1. Params[g] \in Seq(Storage[g]) /\ Len(Params[g]) \in Nat
    BY <1>3, LayoutAssumption, LenProperties
  <2>2. i \in 1 .. Len(Params[g])
    BY <1>2, <1>3, <2>1
  <2> QED
    BY <2>1, <2>2, ElementOfSeq
<1>5. src \in Locations(F)
  BY <1>3, <1>4 DEF Arguments
<1>6. dst \in ParameterCells(g)
  BY <1>4 DEF ParameterCells
<1>7. /\ dst \in Int \X Lanes /\ dst[1] < 0 /\ At(ctx, dst) \in Payload
  BY <1>2, <1>6, ParameterPlace
<1>8. \A l \in {src, restore} : l \in Globals \/ (l \in Nat \X Lanes /\ At(ctx, l) \in Payload)
  BY <1>2, <1>5, LocationKinds
<1>9. v \in Byte /\ Read(c, restore) \in Byte /\ Read(c, dst) \in Byte
      /\ 0 \in Byte /\ Byte \subseteq Nat
  <2> HIDE DEF c, dst, src, restore
  <2> QED
    BY <1>1, <1>7, <1>8, ReadByte, Constants DEF Byte
<1>10. Plus(old, v) \in Byte /\ Plus(v, Read(c, restore)) \in Byte
  <2> HIDE DEF c, dst
  <2> QED
    BY <1>9, PlusByte DEF ParameterBase
<1>11. \A l \in DOMAIN w : w[l] \in Byte
  BY <1>9, <1>10
<1>12. DOMAIN w = {src, dst, restore}
  OBVIOUS
<1> HIDE DEF w
<1>13. \A l \in DOMAIN w :
          /\ l \in Globals \/ (l \in Int \X Lanes /\ At(ctx, l) \in Payload)
          /\ w[l] \in Byte
  BY <1>7, <1>8, <1>11, <1>12
<1>14. FreeTapeZero'
  <2>1. ctx' = ctx /\ \A x \in Cells : <<ctx - x[1], x[2]>> \notin DOMAIN w => cell'[x] = cell[x]
    BY <1>2 DEF WriteAll, Written
  <2>2. pending.parameters' = pending.parameters \cup {dst}
    BY <1>2, <1>3
  <2>3. ASSUME NEW x \in Cells, x[1] > ctx, <<ctx - x[1], x[2]>> \notin pending.parameters'
        PROVE  cell'[x] = 0
    <3> DEFINE l == <<ctx - x[1], x[2]>>
    <3>1. x[1] \in Int /\ x[2] \in Lanes
      BY Constants DEF Cells, Chunks
    <3>2. l \in Int \X Lanes /\ ~(l[1] \in Nat) /\ l # dst
      BY <1>3, <2>2, <2>3, <3>1
    <3>3. l \notin {src, restore}
      BY <1>8, <3>2, LayoutAssumption
    <3>4. cell'[x] = cell[x]
      BY <1>12, <2>1, <3>2, <3>3
    <3>5. l \notin pending.parameters
      BY <2>2, <2>3
    <3> QED
      BY <2>3, <3>4, <3>5 DEF Inv, FreeTapeZero
  <2> QED
    BY <2>1, <2>3, <1>2 DEF FreeTapeZero
<1>15. PendingOK'
  <2>1. /\ DOMAIN pending' = DOMAIN pending
        /\ pending.callee' = g /\ pending.args' = pending.args /\ pending.ret' = pending.ret
        /\ pending.next' = i + 1 /\ pending.parameters' = pending.parameters \cup {dst}
    BY <1>2, <1>3
  <2>2. i + 1 \in Nat \ {0} /\ pending.parameters \cup {dst} \subseteq ParameterCells(g)
    BY <1>3, <1>6
  <2>3. ctx' = ctx /\ F' = F
    BY <1>2 DEF WriteAll, F
  <2> QED
    BY <1>2, <1>3, <2>1, <2>2, <2>3 DEF PendingOK
<1> QED
  BY <1>2, <1>13, <1>14, <1>15, DataStep

(* The frame a return goes back to. *)
LEMMA CallerFrame ==
    ASSUME Inv, mode = "deliver"
    PROVE  /\ Len(frames) - 1 \in 1 .. Len(frames) /\ Len(frames) >= 2
           /\ frames[Len(frames) - 1].ctx = ctx - FrameChunks(F)
           /\ frames[Len(frames) - 1].fn \in Functions
           /\ MayCall(frames[Len(frames) - 1].fn, F)
           /\ F \in Functions /\ F # Main
<1>1. /\ Len(frames) \in Nat /\ Len(frames) >= 1 /\ F \in Functions
      /\ F = frames[Len(frames)].fn /\ frames[Len(frames)].ctx = ctx
      /\ F # Main
  BY TopFrame DEF Inv, PendingOK
<1>2. Len(frames) # 1
  <2>1. frames[1].fn = Main
    BY DEF Inv, FramesTile
  <2> QED
    BY <1>1, <2>1
<1>3. /\ Len(frames) \in 2 .. Len(frames) /\ Len(frames) - 1 \in 1 .. Len(frames)
      /\ Len(frames) >= 2
  <2>1. \A n \in Nat : n >= 1 /\ n # 1 => n \in 2 .. n /\ n - 1 \in 1 .. n /\ n >= 2
    OBVIOUS
  <2> QED
    BY <1>1, <1>2, <2>1
<1>4. ctx = frames[Len(frames) - 1].ctx + FrameChunks(F)
  BY <1>1, <1>3 DEF Inv, FramesTile
<1>5. frames[Len(frames) - 1].ctx \in 1 .. ctx /\ frames[Len(frames) - 1].fn \in Functions
  BY <1>3, TopFrame
<1>6. FrameChunks(F) \in Nat
  BY <1>1, Constants
<1>7. MayCall(frames[Len(frames) - 1].fn, F)
  BY <1>1, <1>3 DEF Inv, CallsAreValid
<1>8. frames[Len(frames) - 1].ctx = ctx - FrameChunks(F)
  <2> DEFINE d == frames[Len(frames) - 1].ctx
             k == FrameChunks(F)
  <2>1. ctx = d + k /\ d \in Int /\ k \in Int
    BY <1>4, <1>5, <1>6
  <2> HIDE DEF d, k
  <2>2. d = ctx - k
    BY <2>1
  <2> QED
    BY <2>2 DEF d, k
<1> QED
  BY <1>1, <1>2, <1>3, <1>5, <1>7, <1>8

(* The place of a delivered cell: the caller's AbiValue or its outbox. *)
LEMMA ResultPlace ==
    ASSUME Inv, mode = "deliver", NEW i \in Nat \ {0}, i <= ResultLength(F),
           NEW slot, slot = IF Result[F] = "cell" THEN AbiValue ELSE Outbox[i]
    PROVE  /\ pending.result[i] \in Locations(F)
           /\ <<slot[1] + FrameChunks(F), slot[2]>> \in Nat \X Lanes
           /\ At(ctx, <<slot[1] + FrameChunks(F), slot[2]>>) \in Payload
<1> DEFINE b == Len(frames) - 1
           caller == frames[b].fn
<1>1. /\ b \in 1 .. Len(frames) /\ frames[b].ctx = ctx - FrameChunks(F)
      /\ caller \in Functions /\ MayCall(caller, F) /\ F \in Functions
  BY CallerFrame
<1>2. /\ Result[F] \in {"void", "cell", "aggregate"} /\ ResultCells[F] \in Nat
      /\ OutboxCells[caller] \in Nat /\ ctx \in Nat
      /\ FrameChunks(F) \in Nat /\ pending.result \in Results(F)
      /\ BodyChunks[caller] \in Nat
  <2>1. ctx \in Nat /\ pending.result \in Results(F)
    BY DEF Inv, Types, PendingOK
  <2> HIDE DEF caller
  <2>2. OutboxCells[caller] \in 0 .. Len(Outbox)
    BY <1>1, ResultAssumption
  <2>3. FrameChunks(F) \in Nat
    BY <1>1, Constants
  <2>4. /\ Result[F] \in {"void", "cell", "aggregate"} /\ ResultCells[F] \in Nat
    BY <1>1, ResultAssumption
  <2>5. BodyChunks[caller] \in Nat
    BY <1>1, LayoutAssumption
  <2> QED
    BY <2>1, <2>2, <2>3, <2>4, <2>5
<1>3. Result[F] # "void"
  BY <1>2 DEF ResultLength
<1>4. CASE Result[F] = "cell"
  <2>1. i = 1 /\ slot = <<0, Value>>
    BY <1>4 DEF ResultLength, AbiValue
  <2>2. pending.result[i] \in Locations(F)
    BY <1>2, <1>4, <2>1 DEF Results
  <2>3. Value \in Lanes
    BY Constants DEF AbiFields
  <2>4. <<ctx - FrameChunks(F) - 0, Value>> \in Payload
    BY <1>1, <1>2, <2>3, FrameCells
  <2>5. At(ctx, <<slot[1] + FrameChunks(F), slot[2]>>) = <<ctx - FrameChunks(F) - 0, Value>>
    BY <1>2, <2>1 DEF At
  <2> QED
    BY <1>2, <2>1, <2>2, <2>3, <2>4, <2>5
<1>5. CASE Result[F] = "aggregate"
  <2>1. i \in 1 .. ResultCells[F] /\ slot = Outbox[i]
    BY <1>2, <1>5 DEF ResultLength
  <2>2. pending.result[i] \in Locations(F)
    BY <1>2, <1>5, <2>1 DEF Results, Locations
  <2>3. i \in 1 .. OutboxCells[caller]
    BY <1>1, <1>2, <1>5, <2>1 DEF MayCall
  <2>4. slot \in Storage[caller]
    BY <1>1, <2>1, <2>3, ResultAssumption
  <2>5. slot[1] \in 1 .. BodyChunks[caller] /\ slot[2] \in Lanes
    BY <1>1, <2>4, LayoutAssumption
  <2>6. slot[1] \in Nat /\ slot[1] <= BodyChunks[caller] /\ slot[1] # 0
    BY <1>2, <2>5
  <2>7. <<frames[b].ctx - slot[1], slot[2]>> \in Payload
    BY <1>1, <2>5, <2>6, FrameCells
  <2>8. At(ctx, <<slot[1] + FrameChunks(F), slot[2]>>) = <<frames[b].ctx - slot[1], slot[2]>>
    BY <1>1, <1>2, <2>6 DEF At
  <2> QED
    BY <1>2, <2>2, <2>5, <2>6, <2>7, <2>8
<1> QED
  BY <1>2, <1>3, <1>4, <1>5

LEMMA DeliveryKeepsInv ==
    ASSUME Inv, DeliverCell
    PROVE  Inv'
<1> DEFINE i == pending.next
           src == pending.result[i]
           slot == IF Result[F] = "cell" THEN AbiValue ELSE Outbox[i]
           dst == <<slot[1] + FrameChunks(F), slot[2]>>
           spent == IF src \notin Globals THEN src
                    ELSE IF Result[F] = "cell" THEN AbiValue ELSE <<0, Restore>>
           c == Back(ctx, src)
           w == [l \in {dst, spent} |-> IF l = dst THEN Read(c, src) ELSE 0]
<1>1. c = ctx
  BY BackHome
<1>2. /\ mode = "deliver" /\ mode' = mode /\ UNCHANGED <<head, code, frames>>
      /\ i <= ResultLength(F) /\ WriteAll(ctx, w)
      /\ pending' = [pending EXCEPT !.next = @ + 1]
  <2>1. /\ mode = "deliver" /\ mode' = mode /\ UNCHANGED <<head, code, frames>>
        /\ i <= ResultLength(F) /\ WriteAll(c, w)
        /\ pending' = [pending EXCEPT !.next = @ + 1]
    BY Zenon DEF DeliverCell
  <2> HIDE DEF c, w
  <2> QED
    BY <2>1, <1>1
<1>3. /\ i \in Nat \ {0} /\ pending.result \in Results(F) /\ ctx \in Nat
      /\ DOMAIN pending = {"kind", "result", "next", "stack", "globals"}
      /\ F # Main
  BY <1>2 DEF Inv, Types, PendingOK
<1>4. src \in Locations(F) /\ dst \in Nat \X Lanes /\ At(ctx, dst) \in Payload
  BY <1>2, <1>3, ResultPlace
<1>5. spent \in Locations(F) \cup {<<0, Restore>>}
  BY <1>4 DEF Locations
<1>6. \A l \in {src, spent} : l \in Globals \/ (l \in Nat \X Lanes /\ At(ctx, l) \in Payload)
  BY <1>2, <1>4, <1>5, LocationKinds
<1>7. Read(c, src) \in Byte /\ 0 \in Byte
  <2> HIDE DEF c, src
  <2> QED
    BY <1>1, <1>6, ReadByte, Constants
<1>8. DOMAIN w = {dst, spent} /\ \A l \in DOMAIN w : w[l] \in Byte
  <2> HIDE DEF c, dst, spent
  <2> QED
    BY <1>7
<1> HIDE DEF w
<1>9. \A l \in DOMAIN w :
          /\ l \in Globals \/ (l \in Nat \X Lanes /\ At(ctx, l) \in Payload)
          /\ w[l] \in Byte
  BY <1>4, <1>6, <1>8
<1>10. FreeTapeZero'
  <2>1. ctx' = ctx /\ \A x \in Cells : <<ctx - x[1], x[2]>> \notin DOMAIN w => cell'[x] = cell[x]
    BY <1>2 DEF WriteAll, Written
  <2>2. ASSUME NEW x \in Cells, x[1] > ctx
        PROVE  cell'[x] = cell[x]
    <3>1. x[1] \in Int /\ x[2] \in Lanes
      BY Constants DEF Cells, Chunks
    <3>2. <<ctx - x[1], x[2]>> \in Int \X Lanes /\ ~(ctx - x[1] \in Nat)
      BY <1>3, <2>2, <3>1
    <3>3. <<ctx - x[1], x[2]>> \notin DOMAIN w
      BY <1>9, <3>2, LayoutAssumption
    <3> QED
      BY <2>1, <3>3
  <2> QED
    BY <1>2, <2>1, <2>2, FreeZoneKept
<1>11. PendingOK'
  <2>1. /\ DOMAIN pending' = DOMAIN pending
        /\ pending.result' = pending.result
        /\ pending.next' = i + 1
    BY <1>2, <1>3
  <2>2. i + 1 \in Nat \ {0} /\ F' = F
    BY <1>2, <1>3 DEF F
  <2> QED
    BY <1>2, <1>3, <2>1, <2>2 DEF PendingOK
<1> QED
  BY <1>2, <1>9, <1>10, <1>11, DataStep

-----------------------------------------------------------------------------
(* Entering a callee. *)
LEMMA EnterKeepsInv ==
    ASSUME Inv, EnterCallee
    PROVE  Inv'
<1> DEFINE g == pending.callee
           c == ctx + FrameChunks(g)
           n == Len(frames)
           new == [fn |-> g, ctx |-> c]
<1>1. /\ mode = "args" /\ mode' = "cycle" /\ ctx' = c
      /\ head' = HeadsSet(ctx + 1, c, 1)
      /\ cell' = [x \in Cells |-> IF x[1] = c
                                  THEN ContextField(x[2], Entry[g], pending.ret)
                                  ELSE cell[x]]
      /\ frames' = Append(frames, new)
      /\ UNCHANGED <<globals, code>>
  BY DEF EnterCallee
<1>2. /\ g \in Functions /\ MayCall(F, g) /\ g # Main
      /\ pending.ret \in ContsOf(F) /\ c + Group <= Capacity
      /\ pending.parameters \subseteq ParameterCells(g)
  BY <1>1 DEF Inv, PendingOK, MayCall
<1>3. /\ FrameChunks(g) \in Nat /\ FrameChunks(g) >= 1
      /\ FrameChunks(g) = BodyChunks[g] + 1
      /\ Group \in Nat /\ Group >= 1 /\ Capacity \in Nat /\ BodyChunks[g] \in Nat
      /\ AbiFields \subseteq Lanes /\ 0 \in Byte
  BY <1>2, Constants, LayoutAssumption
<1>4. /\ ctx \in Nat /\ ctx >= 1 /\ c \in Nat /\ ctx < c
      /\ cell \in [Cells -> Nat] /\ head \in [Chunks -> {0, 1}]
      /\ globals \in [Globals -> Byte] /\ code \in Conts
      /\ frames \in Seq([fn : Functions, ctx : Nat])
  BY <1>3 DEF Inv, Types, ScanRoom
<1>5. n \in Nat /\ n >= 1 /\ frames[n].ctx = ctx /\ F = frames[n].fn /\ n \in 1 .. n
  BY <1>1, TopFrame
<1>6. new \in [fn : Functions, ctx : Nat] /\ new.fn = g /\ new.ctx = c
  BY <1>2, <1>4
<1>7. /\ frames' \in Seq([fn : Functions, ctx : Nat])
      /\ Len(frames)' = n + 1
      /\ \A i \in 1 .. n : frames'[i] = frames[i]
      /\ frames'[n + 1] = new
  BY <1>1, <1>4, <1>6, AppendProperties
<1>8. Entry[g] \in ContsOf(g) /\ Entry[g] \in Nat /\ pending.ret \in Nat
  BY <1>2, ProgramAssumption DEF ContsOf
<1>9. \A i \in 1 .. n : /\ frames[i].ctx \in Nat /\ frames[i].ctx <= ctx
                        /\ frames[i].ctx >= 1 /\ frames[i].fn \in Functions
  BY TopFrame, <1>4
<1> HIDE DEF g, c, n, new
<1>10. ASSUME NEW x \in Cells
       PROVE  /\ x[1] # c => cell'[x] = cell[x]
              /\ x[1] = c => cell'[x] = ContextField(x[2], Entry[g], pending.ret)
  BY <1>1
<1>11. /\ <<c, Active>> \in Cells /\ <<c, Pc>> \in Cells
       /\ <<c, NextPc>> \in Cells /\ <<c, ReturnPc>> \in Cells
  BY <1>2, <1>3, <1>4 DEF Cells, Chunks, AbiFields
<1>12. /\ cell'[<<c, Active>>] = 1 /\ cell'[<<c, Pc>>] = 0
       /\ cell'[<<c, NextPc>>] = Entry[g] /\ cell'[<<c, ReturnPc>>] = pending.ret
  BY <1>10, <1>11 DEF ContextField, Active, Pc, NextPc, ReturnPc
<1>13. \A i \in 1 .. n, q \in {Active, Pc, NextPc, ReturnPc} :
          cell'[<<frames[i].ctx, q>>] = cell[<<frames[i].ctx, q>>]
  <2> SUFFICES ASSUME NEW i \in 1 .. n, NEW q \in {Active, Pc, NextPc, ReturnPc}
               PROVE  cell'[<<frames[i].ctx, q>>] = cell[<<frames[i].ctx, q>>]
    OBVIOUS
  <2>1. <<frames[i].ctx, q>> \in Cells /\ frames[i].ctx # c
    BY <1>2, <1>3, <1>4, <1>9 DEF Cells, Chunks, AbiFields
  <2> QED
    BY <2>1, <1>10
<1>14. Types'
  <2>1. head' \in [Chunks -> {0, 1}]
    BY <1>1, <1>4 DEF HeadsSet
  <2>2. cell' \in [Cells -> Nat]
    <3>1. ASSUME NEW x \in Cells PROVE cell'[x] \in Nat
      BY <1>4, <1>8, <1>10 DEF ContextField
    <3> QED
      BY <3>1, <1>1
  <2>3. Len(frames)' >= 1 /\ mode' \in Modes
    BY <1>1, <1>5, <1>7 DEF Modes
  <2> QED
    BY <2>1, <2>2, <2>3, <1>1, <1>4, <1>7 DEF Types
<1>15. ScanRoom'
  BY <1>1, <1>2, <1>4 DEF ScanRoom
<1>16. FlagLane'
  BY <1>1, <1>2, <1>3, <1>4 DEF HeadsSet, FlagLane, Chunks, Inv
<1>17. FramesTile'
  <2>1. frames'[1] = [fn |-> Main, ctx |-> FrameChunks(Main)]
    BY <1>5, <1>7 DEF Inv, FramesTile
  <2>2. ASSUME NEW i \in 2 .. n + 1
        PROVE  /\ frames'[i].fn # Main
               /\ frames'[i].ctx = frames'[i - 1].ctx + FrameChunks(frames'[i].fn)
    <3>1. CASE i = n + 1
      <4>1. frames'[i] = new /\ i - 1 = n /\ frames'[i - 1] = frames[n]
        BY <3>1, <1>5, <1>7
      <4> QED
        BY <4>1, <1>2, <1>5, <1>6 DEF c
    <3>2. CASE i # n + 1
      <4>1. i \in 2 .. n /\ i \in 1 .. n /\ i - 1 \in 1 .. n
        BY <3>2, <1>5
      <4>2. frames'[i] = frames[i] /\ frames'[i - 1] = frames[i - 1]
        BY <4>1, <1>7
      <4> QED
        BY <4>1, <4>2 DEF Inv, FramesTile, n
    <3> QED
      BY <3>1, <3>2
  <2>3. ctx' = frames'[n + 1].ctx
    BY <1>1, <1>6, <1>7
  <2> QED
    BY <2>1, <2>2, <2>3, <1>7 DEF FramesTile
<1>18. FramesApart'
  <2>1. FrameChunks(frames'[1].fn) <= frames'[1].ctx
    BY <1>5, <1>7 DEF Inv, FramesApart
  <2>2. ASSUME NEW i \in 1 .. n + 1, NEW j \in 1 .. n + 1, i < j
        PROVE  frames'[i].ctx + FrameChunks(frames'[j].fn) <= frames'[j].ctx
    <3>1. i \in 1 .. n /\ frames'[i] = frames[i]
      BY <2>2, <1>5, <1>7
    <3>2. CASE j = n + 1
      <4>1. frames'[j].fn = g /\ frames'[j].ctx = ctx + FrameChunks(g)
        BY <3>2, <1>6, <1>7 DEF c
      <4> QED
        BY <3>1, <4>1, <1>3, <1>4, <1>9
    <3>3. CASE j # n + 1
      <4>1. j \in 1 .. n /\ frames'[j] = frames[j]
        BY <3>3, <1>5, <1>7
      <4> QED
        BY <2>2, <3>1, <4>1 DEF Inv, FramesApart, n
    <3> QED
      BY <3>2, <3>3
  <2> QED
    BY <2>1, <2>2, <1>7 DEF FramesApart
<1>19. CallsAreValid'
  <2>1. ASSUME NEW i \in 2 .. n + 1
        PROVE  MayCall(frames'[i - 1].fn, frames'[i].fn)
    <3>1. CASE i = n + 1
      <4>1. frames'[i].fn = g /\ frames'[i - 1].fn = F
        BY <3>1, <1>5, <1>6, <1>7
      <4> QED
        BY <4>1, <1>2
    <3>2. CASE i # n + 1
      <4>1. i \in 2 .. n /\ i \in 1 .. n /\ i - 1 \in 1 .. n
        BY <3>2, <1>5
      <4>2. frames'[i] = frames[i] /\ frames'[i - 1] = frames[i - 1]
        BY <4>1, <1>7
      <4> QED
        BY <4>1, <4>2 DEF Inv, CallsAreValid, n
    <3> QED
      BY <3>1, <3>2
  <2> QED
    BY <2>1, <1>7 DEF CallsAreValid
<1>20. PayloadIsBytes'
  <2> SUFFICES ASSUME NEW x \in Payload' PROVE cell'[x] \in Byte
    BY DEF PayloadIsBytes
  <2>1. x \in Cells
    BY DEF Payload
  <2>2. \A i \in 1 .. n + 1 :
            x[1] = frames'[i].ctx => x[2] \notin {Active, Pc, NextPc, ReturnPc}
    BY <1>7 DEF Payload
  <2>3. CASE x[1] = c
    <3>1. x[2] \notin {Active, Pc, NextPc, ReturnPc}
      BY <2>2, <2>3, <1>5, <1>6, <1>7
    <3>2. cell'[x] = 0
      BY <2>1, <2>3, <3>1, <1>10 DEF ContextField
    <3> QED
      BY <3>2, <1>3
  <2>4. CASE x[1] # c
    <3>1. \A i \in 1 .. n : x[1] = frames[i].ctx => x[2] \notin {Active, Pc, NextPc, ReturnPc}
      BY <2>2, <1>5, <1>7
    <3>2. x \in Payload
      BY <2>1, <3>1 DEF Payload, n
    <3>3. cell'[x] = cell[x]
      BY <2>1, <2>4, <1>10
    <3> QED
      BY <3>2, <3>3 DEF Inv, PayloadIsBytes
  <2> QED
    BY <2>3, <2>4
<1>21. FreeTapeZero'
  <2> SUFFICES ASSUME NEW x \in Cells, x[1] > c PROVE cell'[x] = 0
    BY <1>1 DEF FreeTapeZero
  <2>1. x[1] \in Int /\ x[2] \in Lanes
    BY Constants DEF Cells, Chunks
  <2>2. <<ctx - x[1], x[2]>> \notin pending.parameters
    <3>1. ASSUME <<ctx - x[1], x[2]>> \in pending.parameters PROVE FALSE
      <4>1. 0 - <<ctx - x[1], x[2]>>[1] \in 1 .. BodyChunks[g]
        BY <3>1, <1>1, <1>2, ParameterPlace DEF g
      <4> QED
        BY <4>1, <2>1, <1>3, <1>4 DEF c
    <3> QED
      BY <3>1
  <2>3. cell[x] = 0
    BY <2>1, <2>2, <1>4 DEF Inv, FreeTapeZero
  <2> QED
    BY <2>1, <2>3, <1>4, <1>10
<1>22. CurrentContext'
  BY <1>1, <1>12 DEF CurrentContext
<1>23. SuspendedFramesWait'
  <2> SUFFICES ASSUME NEW i \in 1 .. n
               PROVE  /\ cell'[<<frames[i].ctx, Pc>>] = 0
                      /\ cell'[<<frames[i].ctx, NextPc>>] = 0
                      /\ cell'[<<frames[i].ctx, Active>>] = 1
    BY <1>5, <1>7 DEF SuspendedFramesWait
  <2>1. CASE i = n
    BY <2>1, <1>1, <1>5, <1>13 DEF Inv, CurrentContext
  <2>2. CASE i # n
    <3>1. i \in 1 .. n - 1
      BY <2>2, <1>5
    <3> QED
      BY <3>1, <1>13 DEF Inv, SuspendedFramesWait, n
  <2> QED
    BY <2>1, <2>2
<1>24. RunningCodeMatches'
  <2>1. frames'[Len(frames')].fn = g
    BY <1>6, <1>7
  <2> QED
    BY <2>1, <1>1, <1>8, <1>12 DEF RunningCodeMatches
<1>25. ReturnPcsMatch'
  <2>1. ASSUME NEW i \in 2 .. n + 1
        PROVE  cell'[<<frames'[i].ctx, ReturnPc>>] \in ContsOf(frames'[i - 1].fn)
    <3>1. CASE i = n + 1
      <4>1. frames'[i].ctx = c /\ frames'[i - 1].fn = F
        BY <3>1, <1>5, <1>6, <1>7
      <4> QED
        BY <4>1, <1>2, <1>12
    <3>2. CASE i # n + 1
      <4>1. i \in 2 .. n /\ i \in 1 .. n /\ i - 1 \in 1 .. n
        BY <3>2, <1>5
      <4>2. frames'[i] = frames[i] /\ frames'[i - 1] = frames[i - 1]
        BY <4>1, <1>7
      <4>3. cell[<<frames[i].ctx, ReturnPc>>] \in ContsOf(frames[i - 1].fn)
        BY <4>1 DEF Inv, CodeMatchesFrame, ReturnPcsMatch, n
      <4> QED
        BY <4>1, <4>2, <4>3, <1>13
    <3> QED
      BY <3>1, <3>2
  <2> QED
    BY <2>1, <1>7 DEF ReturnPcsMatch
<1>26. PendingOK'
  BY <1>1 DEF PendingOK
<1> QED
  BY <1>14, <1>15, <1>16, <1>17, <1>18, <1>19, <1>20, <1>21, <1>22, <1>23, <1>24,
     <1>25, <1>26 DEF Inv, CodeMatchesFrame

(* Leaving a callee. *)
LEMMA LeaveKeepsInv ==
    ASSUME Inv, LeaveCallee
    PROVE  Inv'
<1> DEFINE n == Len(frames)
           c == ctx - FrameChunks(F)
<1>1. /\ mode = "deliver" /\ mode' = "cycle" /\ ctx' = c
      /\ head' = HeadsSet(c + 1, ctx, 0)
      /\ cell' = [x \in Cells |->
                IF x[1] \in c + 1 .. ctx THEN 0
                ELSE IF x = <<c, NextPc>> THEN cell[<<ctx, ReturnPc>>]
                ELSE IF x = <<c, Value>> /\ Result[F] # "cell" THEN 0
                ELSE cell[x]]
      /\ frames' = SubSeq(frames, 1, n - 1)
      /\ UNCHANGED <<globals, code>>
  BY DEF LeaveCallee, CallerDelta, Wiped
<1>2. /\ n - 1 \in 1 .. n /\ n >= 2 /\ n \in Nat
      /\ frames[n - 1].ctx = c /\ F \in Functions
  BY <1>1, CallerFrame, TopFrame
<1>3. /\ FrameChunks(F) \in Nat /\ FrameChunks(F) >= 1
      /\ Group \in Nat /\ Group >= 1 /\ Capacity \in Nat
      /\ AbiFields \subseteq Lanes /\ 0 \in Byte
  BY <1>2, Constants
<1>4. /\ ctx \in Nat /\ ctx + Group <= Capacity
      /\ cell \in [Cells -> Nat] /\ head \in [Chunks -> {0, 1}]
      /\ globals \in [Globals -> Byte] /\ code \in Conts
      /\ frames \in Seq([fn : Functions, ctx : Nat])
  BY DEF Inv, Types, ScanRoom
<1>5. F = frames[n].fn /\ frames[n].ctx = ctx
  BY <1>1, TopFrame
<1>6. \A i \in 1 .. n - 1 : /\ frames[i].ctx \in Nat /\ frames[i].ctx >= 1
                            /\ frames[i].ctx <= c /\ frames[i].fn \in Functions
  <2>1. \A i \in 1 .. n - 1 : i \in 1 .. n
    BY <1>2
  <2> QED
    BY <1>4, <1>5, <2>1, TopFrame
<1>7. c \in Nat /\ c >= 1 /\ c < ctx
  <2>1. n - 1 \in 1 .. n - 1
    BY <1>2
  <2>2. frames[n - 1].ctx \in Nat /\ frames[n - 1].ctx >= 1
    BY <2>1, <1>6
  <2> QED
    BY <2>2, <1>2, <1>3, <1>4
<1>8. /\ frames' \in Seq([fn : Functions, ctx : Nat])
      /\ Len(frames)' = n - 1
      /\ \A i \in 1 .. n - 1 : frames'[i] = frames[i]
  <2>1. \A i \in 1 .. n - 1 : frames[i] \in [fn : Functions, ctx : Nat]
    <3>1. \A i \in 1 .. n - 1 : i \in 1 .. n
      BY <1>2
    <3> QED
      BY <3>1, <1>4, ElementOfSeq
  <2>2. 1 \in Int /\ n - 1 \in Int /\ 1 <= n - 1 /\ (n - 1) - 1 + 1 = n - 1
    BY <1>2
  <2>3. /\ SubSeq(frames, 1, n - 1) \in Seq([fn : Functions, ctx : Nat])
        /\ Len(SubSeq(frames, 1, n - 1)) = (n - 1) - 1 + 1
        /\ \A i \in 1 .. (n - 1) - 1 + 1 : SubSeq(frames, 1, n - 1)[i] = frames[1 + i - 1]
    <3> HIDE DEF n
    <3> QED
      BY <2>1, <2>2, SubSeqProperties
  <2>4. \A i \in 1 .. n - 1 : 1 + i - 1 = i
    OBVIOUS
  <2> QED
    BY <1>1, <2>2, <2>3, <2>4
<1> HIDE DEF n, c
<1>9. ASSUME NEW x \in Cells
      PROVE  /\ x[1] \in c + 1 .. ctx => cell'[x] = 0
             /\ x = <<c, NextPc>> => cell'[x] = cell[<<ctx, ReturnPc>>]
             /\ x = <<c, Value>> => cell'[x] \in {0, cell[x]}
             /\ x[1] \notin c + 1 .. ctx /\ x # <<c, NextPc>> /\ x # <<c, Value>>
                   => cell'[x] = cell[x]
  <2>1. cell'[x] = IF x[1] \in c + 1 .. ctx THEN 0
                   ELSE IF x = <<c, NextPc>> THEN cell[<<ctx, ReturnPc>>]
                   ELSE IF x = <<c, Value>> /\ Result[F] # "cell" THEN 0
                   ELSE cell[x]
    BY <1>1
  <2>2. <<c, NextPc>> # <<c, Value>>
    BY DEF NextPc, Value
  <2>3. \A q : <<c, q>>[1] \notin c + 1 .. ctx
    BY <1>4, <1>7
  <2>4. x = <<c, NextPc>> \/ x = <<c, Value>> => x[1] \notin c + 1 .. ctx
    BY <2>3
  <2> QED
    BY <2>1, <2>2, <2>4
<1>10. \A i \in 1 .. n - 1, q \in {Active, Pc, NextPc, ReturnPc} :
          <<frames[i].ctx, q>> # <<c, NextPc>> =>
             cell'[<<frames[i].ctx, q>>] = cell[<<frames[i].ctx, q>>]
  <2> SUFFICES ASSUME NEW i \in 1 .. n - 1, NEW q \in {Active, Pc, NextPc, ReturnPc},
                      <<frames[i].ctx, q>> # <<c, NextPc>>
               PROVE  cell'[<<frames[i].ctx, q>>] = cell[<<frames[i].ctx, q>>]
    OBVIOUS
  <2>1. <<frames[i].ctx, q>> \in Cells /\ frames[i].ctx \notin c + 1 .. ctx
    BY <1>3, <1>4, <1>6, <1>7 DEF Cells, Chunks, AbiFields
  <2>2. q # Value
    BY DEF Value, Active, Pc, NextPc, ReturnPc
  <2> QED
    BY <2>1, <2>2, <1>9
<1>11. /\ <<c, NextPc>> \in Cells /\ <<ctx, ReturnPc>> \in Cells
  BY <1>3, <1>4, <1>7 DEF Cells, Chunks, AbiFields
<1>12. /\ cell'[<<c, NextPc>>] = cell[<<ctx, ReturnPc>>]
       /\ cell[<<ctx, ReturnPc>>] \in ContsOf(frames[n - 1].fn)
       /\ cell[<<ctx, ReturnPc>>] \in Nat
       /\ cell'[<<c, Active>>] = 1 /\ cell'[<<c, Pc>>] = 0
  <2>1. n - 1 \in 1 .. n - 1 /\ n \in 2 .. n
    BY <1>2
  <2>2. cell[<<ctx, ReturnPc>>] \in ContsOf(frames[n - 1].fn)
    BY <2>1, <1>5 DEF Inv, CodeMatchesFrame, ReturnPcsMatch, n
  <2>3. cell[<<c, Active>>] = 1 /\ cell[<<c, Pc>>] = 0
    BY <2>1, <1>2 DEF Inv, SuspendedFramesWait, n
  <2>4. <<c, Active>> # <<c, NextPc>> /\ <<c, Pc>> # <<c, NextPc>>
    BY DEF Active, Pc, NextPc
  <2> QED
    BY <2>1, <2>2, <2>3, <2>4, <1>2, <1>4, <1>9, <1>10, <1>11
<1>13. Types'
  <2>1. head' \in [Chunks -> {0, 1}]
    BY <1>1, <1>4 DEF HeadsSet
  <2>2. cell' \in [Cells -> Nat]
    <3>1. ASSUME NEW x \in Cells PROVE cell'[x] \in Nat
      BY <1>4, <1>9, <1>12
    <3> QED
      BY <3>1, <1>1
  <2>3. Len(frames)' >= 1 /\ mode' \in Modes
    BY <1>1, <1>2, <1>8 DEF Modes
  <2> QED
    BY <2>1, <2>2, <2>3, <1>1, <1>4, <1>7, <1>8 DEF Types
<1>14. ScanRoom'
  BY <1>1, <1>3, <1>4, <1>7 DEF ScanRoom
<1>15. FlagLane'
  BY <1>1, <1>3, <1>4, <1>7 DEF HeadsSet, FlagLane, Chunks, Inv
<1>16. FramesTile'
  <2>1. frames'[1] = [fn |-> Main, ctx |-> FrameChunks(Main)]
    BY <1>2, <1>8 DEF Inv, FramesTile
  <2>2. ASSUME NEW i \in 2 .. n - 1
        PROVE  /\ frames'[i].fn # Main
               /\ frames'[i].ctx = frames'[i - 1].ctx + FrameChunks(frames'[i].fn)
    <3>1. i \in 2 .. n /\ i \in 1 .. n - 1 /\ i - 1 \in 1 .. n - 1
      BY <1>2
    <3>2. frames'[i] = frames[i] /\ frames'[i - 1] = frames[i - 1]
      BY <3>1, <1>8
    <3> QED
      BY <3>1, <3>2 DEF Inv, FramesTile, n
  <2>3. ctx' = frames'[n - 1].ctx
    BY <1>1, <1>2, <1>8
  <2> QED
    BY <2>1, <2>2, <2>3, <1>8 DEF FramesTile
<1>17. FramesApart'
  <2>1. FrameChunks(frames'[1].fn) <= frames'[1].ctx
    BY <1>2, <1>8 DEF Inv, FramesApart
  <2>2. ASSUME NEW i \in 1 .. n - 1, NEW j \in 1 .. n - 1, i < j
        PROVE  frames'[i].ctx + FrameChunks(frames'[j].fn) <= frames'[j].ctx
    <3>1. i \in 1 .. n /\ j \in 1 .. n /\ frames'[i] = frames[i] /\ frames'[j] = frames[j]
      BY <1>2, <1>8
    <3> QED
      BY <2>2, <3>1 DEF Inv, FramesApart, n
  <2> QED
    BY <2>1, <2>2, <1>8 DEF FramesApart
<1>18. CallsAreValid'
  <2>1. ASSUME NEW i \in 2 .. n - 1
        PROVE  MayCall(frames'[i - 1].fn, frames'[i].fn)
    <3>1. i \in 2 .. n /\ i \in 1 .. n - 1 /\ i - 1 \in 1 .. n - 1
      BY <1>2
    <3>2. frames'[i] = frames[i] /\ frames'[i - 1] = frames[i - 1]
      BY <3>1, <1>8
    <3> QED
      BY <3>1, <3>2 DEF Inv, CallsAreValid, n
  <2> QED
    BY <2>1, <1>8 DEF CallsAreValid
<1>19. FreeTapeZero'
  <2> SUFFICES ASSUME NEW x \in Cells, x[1] > c PROVE cell'[x] = 0
    BY <1>1 DEF FreeTapeZero
  <2>1. x[1] \in Int
    BY Constants DEF Cells, Chunks
  <2>2. CASE x[1] \in c + 1 .. ctx
    BY <2>2, <1>9
  <2>3. CASE x[1] > ctx
    <3>1. cell[x] = 0
      BY <2>3, <1>1 DEF Inv, FreeTapeZero
    <3>2. x # <<c, NextPc>> /\ x # <<c, Value>> /\ x[1] \notin c + 1 .. ctx
      BY <2>1, <2>3, <1>4, <1>7
    <3> QED
      BY <3>1, <3>2, <1>9
  <2> QED
    BY <2>1, <2>2, <2>3, <1>4, <1>7
<1>20. PayloadIsBytes'
  <2> SUFFICES ASSUME NEW x \in Payload' PROVE cell'[x] \in Byte
    BY DEF PayloadIsBytes
  <2>1. x \in Cells /\ x[1] \in Int
    BY Constants DEF Payload, Cells, Chunks
  <2>2. CASE x[1] > c
    BY <2>1, <2>2, <1>1, <1>3, <1>19 DEF FreeTapeZero
  <2>3. CASE x[1] <= c
    <3>1. \A i \in 1 .. n - 1 :
             x[1] = frames[i].ctx => x[2] \notin {Active, Pc, NextPc, ReturnPc}
      BY <1>8 DEF Payload
    <3>2. x[1] # frames[n].ctx
      BY <2>1, <2>3, <1>5, <1>7, <1>4
    <3>3. \A i \in 1 .. n : i = n \/ i \in 1 .. n - 1
      BY <1>2
    <3>4. x \in Payload
      BY <2>1, <3>1, <3>2, <3>3 DEF Payload, n
    <3>5. n - 1 \in 1 .. n - 1
      BY <1>2
    <3>6. x # <<c, NextPc>>
      BY <3>1, <3>5, <1>2
    <3>7. x[1] \notin c + 1 .. ctx
      BY <2>1, <2>3, <1>7
    <3> QED
      BY <2>1, <3>4, <3>6, <3>7, <1>3, <1>9 DEF Inv, PayloadIsBytes
  <2> QED
    BY <2>1, <2>2, <2>3, <1>7
<1>21. CurrentContext'
  BY <1>1, <1>12 DEF CurrentContext
<1>22. SuspendedFramesWait'
  <2> SUFFICES ASSUME NEW i \in 1 .. (n - 1) - 1
               PROVE  /\ cell'[<<frames[i].ctx, Pc>>] = 0
                      /\ cell'[<<frames[i].ctx, NextPc>>] = 0
                      /\ cell'[<<frames[i].ctx, Active>>] = 1
    <3>1. \A i \in 1 .. (n - 1) - 1 : i \in 1 .. n - 1
      BY <1>2
    <3> QED
      BY <3>1, <1>8 DEF SuspendedFramesWait
  <2>1. i \in 1 .. n - 1 /\ n - 1 \in 1 .. n /\ i \in 1 .. n /\ i < n - 1
    BY <1>2
  <2>2. frames[i].ctx + FrameChunks(frames[n - 1].fn) <= c
    BY <2>1, <1>2 DEF Inv, FramesApart, n
  <2>3. frames[n - 1].fn \in Functions /\ frames[i].ctx \in Nat
    BY <2>1, <1>2, <1>6, TopFrame DEF n
  <2>4. frames[i].ctx # c
    BY <2>2, <2>3, <1>7, Constants
  <2> QED
    BY <2>1, <2>4, <1>10 DEF Inv, SuspendedFramesWait, n
<1>23. RunningCodeMatches'
  BY <1>1, <1>2, <1>8, <1>12 DEF RunningCodeMatches
<1>24. ReturnPcsMatch'
  <2>1. ASSUME NEW i \in 2 .. n - 1
        PROVE  cell'[<<frames'[i].ctx, ReturnPc>>] \in ContsOf(frames'[i - 1].fn)
    <3>1. i \in 2 .. n /\ i \in 1 .. n - 1 /\ i - 1 \in 1 .. n - 1
      BY <1>2
    <3>2. frames'[i] = frames[i] /\ frames'[i - 1] = frames[i - 1]
      BY <3>1, <1>8
    <3>3. cell[<<frames[i].ctx, ReturnPc>>] \in ContsOf(frames[i - 1].fn)
      BY <3>1 DEF Inv, CodeMatchesFrame, ReturnPcsMatch, n
    <3>4. <<frames[i].ctx, ReturnPc>> # <<c, NextPc>>
      BY DEF ReturnPc, NextPc
    <3> QED
      BY <3>1, <3>2, <3>3, <3>4, <1>10
  <2> QED
    BY <2>1, <1>8 DEF ReturnPcsMatch
<1>25. PendingOK'
  BY <1>1 DEF PendingOK
<1> QED
  BY <1>13, <1>14, <1>15, <1>16, <1>17, <1>18, <1>19, <1>20, <1>21, <1>22, <1>23, <1>24,
     <1>25 DEF Inv, CodeMatchesFrame

-----------------------------------------------------------------------------
(* The state that initialize_main leaves satisfies the invariant. *)
LEMMA InitInv == Init => Inv
<1> SUFFICES ASSUME Init PROVE Inv
  OBVIOUS
<1> DEFINE m == FrameChunks(Main)
<1>1. /\ Main \in Functions /\ Entry[Main] \in ContsOf(Main) /\ Entry[Main] \in Conts
      /\ Entry[Main] \in Nat /\ m \in Nat /\ m >= 1 /\ m + Group <= Capacity
      /\ Group \in Nat /\ Group >= 1 /\ Capacity \in Nat /\ 0 \in Byte
      /\ CellBase \in Nat /\ CellBase >= 2 /\ AbiFields \subseteq Lanes
  BY ProgramAssumption, TapeAssumption, Constants DEF ContsOf
<1>2. /\ ctx = m /\ code = Entry[Main] /\ mode = "dispatch" /\ pending = Idle
      /\ frames = <<[fn |-> Main, ctx |-> m]>>
      /\ head = [b \in Chunks |-> IF b \in 1 .. m THEN 1 ELSE 0]
      /\ cell = [x \in Cells |-> IF x = <<ctx, Active>> THEN 1
                                 ELSE IF x = <<ctx, Pc>> THEN Entry[Main] ELSE 0]
      /\ globals = [g \in Globals |-> 0]
  BY DEF Init
<1> HIDE DEF m
<1>3. /\ Len(frames) = 1 /\ frames[1] = [fn |-> Main, ctx |-> m]
      /\ frames[1].fn = Main /\ frames[1].ctx = m
      /\ frames \in Seq([fn : Functions, ctx : Nat])
  BY <1>1, <1>2
<1>4. /\ <<ctx, Active>> \in Cells /\ <<ctx, Pc>> \in Cells /\ <<ctx, NextPc>> \in Cells
  BY <1>1, <1>2 DEF Cells, Chunks, AbiFields
<1>5. /\ cell[<<ctx, Active>>] = 1 /\ cell[<<ctx, Pc>>] = Entry[Main]
      /\ cell[<<ctx, NextPc>>] = 0
  BY <1>2, <1>4 DEF Active, Pc, NextPc
<1>6. Types
  <2>1. cell \in [Cells -> Nat]
    BY <1>1, <1>2
  <2>2. head \in [Chunks -> {0, 1}]
    BY <1>2
  <2> QED
    BY <2>1, <2>2, <1>1, <1>2, <1>3 DEF Types, Modes
<1>7. ScanRoom /\ FlagLane
  BY <1>1, <1>2 DEF ScanRoom, FlagLane
<1>8. FramesTile /\ FramesApart /\ CallsAreValid
  BY <1>1, <1>2, <1>3 DEF FramesTile, FramesApart, CallsAreValid, m
<1>9. PayloadIsBytes
  <2> SUFFICES ASSUME NEW x \in Payload PROVE cell[x] \in Byte
    BY DEF PayloadIsBytes
  <2>1. x \in Cells /\ (x[1] = ctx => x[2] \notin {Active, Pc, NextPc, ReturnPc})
    BY <1>2, <1>3 DEF Payload
  <2> QED
    BY <2>1, <1>1, <1>2
<1>10. FreeTapeZero
  BY <1>1, <1>2 DEF FreeTapeZero
<1>11. CurrentContext /\ SuspendedFramesWait /\ PendingOK
  BY <1>2, <1>3, <1>5 DEF CurrentContext, SuspendedFramesWait, PendingOK
<1>12. CodeMatchesFrame
  BY <1>1, <1>2, <1>3, <1>5 DEF CodeMatchesFrame, RunningCodeMatches, ReturnPcsMatch
<1> QED
  BY <1>6, <1>7, <1>8, <1>9, <1>10, <1>11, <1>12 DEF Inv

LEMMA StutterKeepsInv ==
    ASSUME Inv, UNCHANGED vars
    PROVE  Inv'
BY DEF Inv, vars, Types, ScanRoom, FlagLane, FramesTile, FramesApart, CallsAreValid,
       PayloadIsBytes, Payload, FreeTapeZero, CurrentContext, SuspendedFramesWait,
       CodeMatchesFrame, RunningCodeMatches, ReturnPcsMatch, PendingOK, F

LEMMA NextKeepsInv ==
    ASSUME Inv, [Next]_vars
    PROVE  Inv'
BY BodyKeepsInv, DispatcherKeepsInv, LocalControlKeepsInv, StopKeepsInv, CallKeepsInv,
   ReturnKeepsInv, ArgumentKeepsInv, DeliveryKeepsInv, EnterKeepsInv, LeaveKeepsInv,
   StutterKeepsInv DEF Next, Finished

(* Every reachable state of the tape satisfies the whole invariant. *)
THEOREM InvHolds == Spec => []Inv
BY InitInv, NextKeepsInv, PTL DEF Spec

LEMMA InvImpliesTypeOK == Inv => TypeOK
<1> SUFFICES ASSUME Inv PROVE TypeOK
  OBVIOUS
<1>1. ctx \in Chunks /\ \A i \in 1 .. Len(frames) :
          frames[i].fn \in Functions /\ frames[i].ctx \in Chunks
  BY TopFrame, Constants DEF Inv, Types, ScanRoom, Chunks
<1>2. DOMAIN frames = 1 .. Len(frames)
  BY LenProperties DEF Inv, Types
<1> QED
  BY <1>1, <1>2 DEF Inv, Types, TypeOK

(* The heads mark the chunks of the live frames and no other, whatever     *)
(* calls and returns have been executed.                                   *)
THEOREM FlagLaneHolds == Spec => []FlagLane
BY InvHolds, PTL DEF Inv

(* Emitted code that leaves its frame for static storage comes back to     *)
(* that frame, for every size of the anchor bank and every depth.          *)
THEOREM NavigationHolds == Spec => []NavigationReturns
<1>1. Inv => NavigationReturns
  BY RoundTrip DEF Inv, Types
<1> QED
  BY <1>1, InvHolds, PTL

(* Frames are allocated on zeroed tape. *)
THEOREM FreeTapeHolds == Spec => []FreeTapeZero
BY InvHolds, PTL DEF Inv

(* Live frames lie end to end up to the current context. *)
THEOREM TilingHolds == Spec => []FramesTile
BY InvHolds, PTL DEF Inv

(* The code that runs, and the code every return will resume, belongs to   *)
(* the function whose frame is current then.                               *)
THEOREM CodeMatchHolds == Spec => []CodeMatchesFrame
BY InvHolds, PTL DEF Inv

(* A suspended frame has nothing left in its PCs and stays active. *)
THEOREM SuspendedHolds == Spec => []SuspendedFramesWait
BY InvHolds, PTL DEF Inv

(* Type correctness. *)
THEOREM TypeCorrect == Spec => []TypeOK
BY InvImpliesTypeOK, InvHolds, PTL

-----------------------------------------------------------------------------
(***************************************************************************)
(* Frames on the tape keep what ActivationStack promises: every step of    *)
(* AbiStack is a step of the continuation VM on the mapped state, or       *)
(* leaves it alone.                                                        *)
(*                                                                         *)
(* A call and a return take several steps and become visible with the      *)
(* last one, so the proof needs to know, at each step in between, how the  *)
(* tape differs from the state the terminator found.  TransitInv says it:  *)
(* a call has bound the parameters it reached and consumed the dead        *)
(* sources it passed, a return has delivered the cells it reached.         *)
(***************************************************************************)

(* A live frame, read from the tape as a VM frame. *)
FrameAt(i) ==
    [fn    |-> frames[i].fn,
     store |-> [s \in Storage[frames[i].fn] |-> cell[At(frames[i].ctx, s)]],
     value |-> cell[<<frames[i].ctx, Value>>],
     ret   |-> IF i = 1 THEN 0 ELSE cell[<<frames[i].ctx, ReturnPc>>]]

(* What a location of the current frame held when the terminator began. *)
Held == pending.stack[Len(frames)]
HeldAt(l) ==
    IF l \in Globals THEN pending.globals[l]
    ELSE IF l = AbiValue THEN Held.value ELSE Held.store[l]

HeldShape ==
    /\ pending.stack = [i \in 1 .. Len(frames) |-> pending.stack[i]]
    /\ \A i \in 1 .. Len(frames) :
          LET held == pending.stack[i]
          IN  held = [fn    |-> frames[i].fn,
                      store |-> [s \in Storage[frames[i].fn] |-> held.store[s]],
                      value |-> held.value,
                      ret   |-> FrameAt(i).ret]
    /\ pending.globals = globals

-----------------------------------------------------------------------------
(* A call: the sources it has consumed, the argument that a parameter cell *)
(* holds so far.                                                           *)
Consumed == {pending.args[i] : i \in {j \in pending.dead : j < pending.next}}

Hits(s) == {i \in 1 .. pending.next - 1 : Params[pending.callee][i] = s}

BoundSoFar(s) ==
    IF Hits(s) = {} THEN 0
    ELSE HeldAt(pending.args[CHOOSE i \in Hits(s) : \A j \in Hits(s) : j <= i])

ParameterCell(g, s) == <<s[1] - FrameChunks(g), s[2]>>

CallInTransit ==
    mode = "args" =>
        /\ HeldShape
        /\ pending.dead \subseteq MayConsume(pending.args)
        /\ pending.next <= Len(Params[pending.callee]) + 1
        /\ Params[pending.callee] # <<>> => cell[<<ctx, Restore>>] = 0
        /\ pending.parameters = {ParameterCell(pending.callee, Params[pending.callee][i]) :
                                    i \in 1 .. pending.next - 1}
        /\ \A i \in 1 .. Len(frames) - 1 : pending.stack[i] = FrameAt(i)
        /\ \A l \in Storage[F] \cup {AbiValue} :
              cell[At(ctx, l)] = IF l \in Consumed THEN 0 ELSE HeldAt(l)
        /\ \A s \in Storage[pending.callee] :
              cell[At(ctx, ParameterCell(pending.callee, s))] = BoundSoFar(s)

(* A return: the outbox cells of the caller that it has reached. *)
Arrived(s) == {j \in 1 .. pending.next - 1 : Outbox[j] = s}

ReturnInTransit ==
    mode = "deliver" =>
        LET n == Len(frames) - 1  caller == frames[n]
        IN  /\ HeldShape
            /\ pending.next <= ResultLength(F) + 1
            /\ \A i \in 1 .. n - 1 : pending.stack[i] = FrameAt(i)
            /\ \A j \in pending.next .. ResultLength(F) :
                  Read(ctx, pending.result[j]) = HeldAt(pending.result[j])
            /\ \A s \in Storage[caller.fn] :
                  cell[At(caller.ctx, s)] =
                      IF Result[F] = "aggregate" /\ Arrived(s) # {}
                      THEN HeldAt(pending.result[CHOOSE j \in Arrived(s) : TRUE])
                      ELSE pending.stack[n].store[s]
            /\ cell[<<caller.ctx, Value>>] =
                  IF Result[F] = "cell" /\ pending.next > 1
                  THEN HeldAt(pending.result[1]) ELSE pending.stack[n].value

NothingPending == mode \notin {"args", "deliver"} => pending = Idle

TransitInv == CallInTransit /\ ReturnInTransit /\ NothingPending

-----------------------------------------------------------------------------
(* The abstract specification speaks of the same program and layout. *)
LEMMA SameProgram ==
    /\ VM!Byte = Byte /\ VM!AbiValue = AbiValue
    /\ \A f : VM!Locations(f) = Locations(f) /\ VM!ContsOf(f) = ContsOf(f)
              /\ VM!Results(f) = Results(f)
    /\ \A f, g : VM!MayCall(f, g) = MayCall(f, g) /\ VM!Arguments(f, g) = Arguments(f, g)
<1>1. VM!AbiValue = AbiValue /\ VM!Byte = Byte
  BY DEF VM!AbiValue, AbiValue, VM!Byte, Byte, VM!Value, Value
<1>2. \A f : VM!Locations(f) = Locations(f) /\ VM!ContsOf(f) = ContsOf(f)
  BY <1>1 DEF VM!Locations, Locations, VM!ContsOf, ContsOf
<1>3. \A f : VM!Results(f) = Results(f)
  BY <1>2 DEF VM!Results, Results
<1>4. \A f, g : VM!MayCall(f, g) = MayCall(f, g)
  BY DEF VM!MayCall, MayCall
<1>5. \A f, g : VM!Arguments(f, g) = Arguments(f, g)
  BY <1>2 DEF VM!Arguments, Arguments
<1> QED
  BY <1>1, <1>2, <1>3, <1>4, <1>5

LEMMA StackIsFrames == StackOnTape = [i \in 1 .. Len(frames) |-> FrameAt(i)]
BY DEF StackOnTape, FrameAt

(* The cells, relative to its context, that a frame shows to the VM. *)
ContentOf(i) == Storage[frames[i].fn] \cup {AbiValue, <<0, ReturnPc>>}

LEMMA ContentPlace ==
    ASSUME Inv, NEW i \in 1 .. Len(frames), NEW l \in ContentOf(i)
    PROVE  /\ l \in Nat \X Lanes /\ l[1] <= BodyChunks[frames[i].fn]
           /\ BodyChunks[frames[i].fn] \in Nat
           /\ l[1] = 0 => l[2] \in {Value, ReturnPc}
           /\ At(frames[i].ctx, l) \in Cells
           /\ At(frames[i].ctx, l)[1] \in 1 .. frames[i].ctx
           /\ frames[i].ctx \in 1 .. ctx
<1>1. /\ frames[i].fn \in Functions /\ frames[i].ctx \in 1 .. ctx
      /\ FrameChunks(frames[i].fn) <= frames[i].ctx
  BY TopFrame
<1>2. /\ BodyChunks[frames[i].fn] \in Nat
      /\ Storage[frames[i].fn] \subseteq (1 .. BodyChunks[frames[i].fn]) \X Lanes
      /\ AbiFields \subseteq Lanes
  BY <1>1, LayoutAssumption
<1>3. /\ l \in Nat \X Lanes /\ l[1] <= BodyChunks[frames[i].fn]
      /\ l[1] = 0 => l[2] \in {Value, ReturnPc}
  <2>1. CASE l \in Storage[frames[i].fn]
    BY <1>2, <2>1
  <2>2. CASE l \in {AbiValue, <<0, ReturnPc>>}
    BY <1>2, <2>2 DEF AbiValue, AbiFields
  <2> QED
    BY <2>1, <2>2 DEF ContentOf
<1>4. ctx \in Nat /\ ctx + Group <= Capacity /\ Group \in Nat /\ Group >= 1 /\ Capacity \in Nat
  BY Constants DEF Inv, Types, ScanRoom
<1>5. frames[i].ctx - l[1] \in 1 .. frames[i].ctx
  BY <1>1, <1>2, <1>3, <1>4, Constants, SMTT(30)
<1>6. At(frames[i].ctx, l) \in Cells /\ At(frames[i].ctx, l)[1] = frames[i].ctx - l[1]
  BY <1>1, <1>3, <1>4, <1>5 DEF At, Cells, Chunks
<1> QED
  BY <1>1, <1>2, <1>3, <1>5, <1>6

LEMMA SameFrame ==
    ASSUME NEW i, frames'[i] = frames[i],
           \A l \in ContentOf(i) : cell'[At(frames[i].ctx, l)] = cell[At(frames[i].ctx, l)],
           frames[i].ctx \in Int
    PROVE  FrameAt(i)' = FrameAt(i)
<1>1. \A s \in Storage[frames[i].fn] :
          cell'[At(frames[i].ctx, s)] = cell[At(frames[i].ctx, s)]
  BY DEF ContentOf
<1>2. ASSUME NEW q \in {Value, ReturnPc}
      PROVE  cell'[<<frames[i].ctx, q>>] = cell[<<frames[i].ctx, q>>]
  <2>1. <<0, q>> \in ContentOf(i)
    BY DEF ContentOf, AbiValue
  <2>2. At(frames[i].ctx, <<0, q>>) = <<frames[i].ctx, q>>
    BY DEF At
  <2> QED
    BY <2>1, <2>2
<1> QED
  BY <1>1, <1>2 DEF FrameAt

(* A write set acts on the cell that a location names. *)
LEMMA WrittenAt ==
    ASSUME ctx \in Int, NEW w, WriteAll(ctx, w), NEW l \in Int \X Lanes, At(ctx, l) \in Cells
    PROVE  cell'[At(ctx, l)] = IF l \in DOMAIN w THEN w[l] ELSE cell[At(ctx, l)]
<1>1. <<ctx - At(ctx, l)[1], At(ctx, l)[2]>> = l
  BY DEF At
<1> QED
  BY <1>1 DEF WriteAll, Written

LEMMA GlobalWritten ==
    ASSUME NEW c, NEW w, WriteAll(c, w), NEW g \in Globals
    PROVE  globals'[g] = IF g \in DOMAIN w THEN w[g] ELSE globals[g]
BY DEF WriteAll

(* A frame is untouched by stores that stay above its context. *)
LEMMA LowerFrameKept ==
    ASSUME Inv, NEW w, WriteAll(ctx, w), NEW i \in 1 .. Len(frames), frames'[i] = frames[i],
           \A l \in DOMAIN w : l \notin Globals =>
                l \in Int \X Lanes /\ l[1] < ctx - frames[i].ctx
    PROVE  FrameAt(i)' = FrameAt(i)
<1> SUFFICES ASSUME NEW l \in ContentOf(i)
             PROVE  cell'[At(frames[i].ctx, l)] = cell[At(frames[i].ctx, l)]
  <2>1. frames[i].ctx \in Int
    BY TopFrame
  <2> QED
    BY <2>1, SameFrame
<1> DEFINE x == At(frames[i].ctx, l)
<1>1. /\ l \in Nat \X Lanes /\ x \in Cells /\ x = <<frames[i].ctx - l[1], l[2]>>
      /\ frames[i].ctx \in 1 .. ctx /\ ctx \in Nat
  BY ContentPlace DEF At, Inv, Types
<1> HIDE DEF x
<1>2. /\ <<ctx - x[1], x[2]>> \in Int \X Lanes /\ ctx - x[1] >= ctx - frames[i].ctx
      /\ ctx - x[1] \in Int
  BY <1>1
<1>3. <<ctx - x[1], x[2]>> \notin Globals
  BY <1>2, LayoutAssumption
<1>4. <<ctx - x[1], x[2]>> \notin DOMAIN w
  BY <1>1, <1>2, <1>3
<1>5. cell'[x] = cell[x]
  BY <1>1, <1>4 DEF WriteAll, Written
<1> QED
  BY <1>5 DEF x

-----------------------------------------------------------------------------
(* What the mapping yields while no call or return is in transit. *)
LEMMA MappedBody ==
    ASSUME Inv, NothingPending, mode = "body"
    PROVE  /\ vmStack = StackOnTape /\ vmGlobals = globals
           /\ vmRunning = TRUE /\ vmCurrent = code
           /\ Len(vmStack) = Len(frames)
           /\ VM!Top = FrameAt(Len(frames)) /\ VM!Fn = F
           /\ F \in Functions
<1>1. pending = Idle
  BY DEF NothingPending
<1>2. vmStack = StackOnTape /\ vmGlobals = globals
  BY <1>1 DEF vmStack, vmGlobals, InTransit
<1>3. cell[<<ctx, Active>>] = 1
  BY DEF Inv, CurrentContext
<1>4. vmRunning = TRUE /\ vmCurrent = code
  BY <1>3 DEF vmRunning, vmCurrent
<1>5. /\ Len(frames) \in Nat /\ Len(frames) >= 1
      /\ F \in Functions /\ F = frames[Len(frames)].fn
  BY TopFrame
<1>6. Len(vmStack) = Len(frames)
  BY <1>2, <1>5, StackIsFrames
<1>7. VM!Top = FrameAt(Len(frames))
  BY <1>2, <1>5, <1>6, StackIsFrames DEF VM!Top
<1>8. VM!Fn = F
  BY <1>5, <1>7 DEF VM!Fn, FrameAt
<1> QED
  BY <1>2, <1>4, <1>5, <1>6, <1>7, <1>8

LEMMA LocationPlaces ==
    ASSUME Inv, mode \in {"body", "args", "deliver"}, NEW l \in Locations(F)
    PROVE  \/ l \in Globals /\ l \notin Int \X Lanes /\ l # AbiValue
           \/ l = AbiValue /\ l \notin Globals
           \/ l \in Storage[F] /\ l \notin Globals /\ l \in Nat \X Lanes /\ l[1] >= 1
              /\ l[1] <= BodyChunks[F] /\ l # AbiValue
<1>1. /\ F \in Functions /\ BodyChunks[F] \in Nat
      /\ Storage[F] \subseteq (1 .. BodyChunks[F]) \X Lanes
      /\ Globals \cap (Int \X Lanes) = {} /\ AbiValue \in Int \X Lanes
  BY TopFrame, LayoutAssumption DEF AbiValue, AbiFields
<1>2. CASE l \in Globals
  BY <1>1, <1>2
<1>3. CASE l = AbiValue
  BY <1>1, <1>3
<1>4. CASE l \in Storage[F]
  <2>1. l \in (1 .. BodyChunks[F]) \X Lanes
    BY <1>1, <1>4
  <2>2. l \in Nat \X Lanes /\ l[1] >= 1 /\ l[1] <= BodyChunks[F]
    BY <1>1, <2>1
  <2>3. l # AbiValue
    BY <2>2 DEF AbiValue
  <2>4. l \notin Globals
    BY <1>1, <2>2
  <2> QED
    BY <1>4, <2>2, <2>3, <2>4
<1> QED
  BY <1>2, <1>3, <1>4 DEF Locations

LEMMA MappedRead ==
    ASSUME Inv, NothingPending, mode = "body", NEW l \in Locations(F)
    PROVE  VM!Read(l) = Read(ctx, l)
<1>1. /\ vmGlobals = globals /\ VM!Top = FrameAt(Len(frames)) /\ VM!AbiValue = AbiValue
      /\ frames[Len(frames)].ctx = ctx /\ F = frames[Len(frames)].fn /\ ctx \in Nat
  BY MappedBody, SameProgram, TopFrame DEF Inv, Types
<1>2. CASE l \in Globals
  BY <1>1, <1>2 DEF VM!Read, Read
<1>3. CASE l = AbiValue /\ l \notin Globals
  BY <1>1, <1>3 DEF VM!Read, Read, FrameAt, At, AbiValue
<1>4. CASE l \in Storage[F] /\ l \notin Globals /\ l # AbiValue
  BY <1>1, <1>4 DEF VM!Read, Read, FrameAt
<1> QED
  BY <1>2, <1>3, <1>4, LocationPlaces

LEMMA WrittenRecord ==
    ASSUME NEW fn, NEW store, NEW value, NEW ret, NEW v, NEW frame,
           frame = [fn |-> fn, store |-> store, value |-> value, ret |-> ret]
    PROVE  VM!WithWrites(frame, v) =
               [fn |-> fn, store |-> VM!Overwrite(store, v),
                value |-> IF VM!AbiValue \in DOMAIN v THEN v[VM!AbiValue] ELSE value,
                ret |-> ret]
<1>1. frame.store = store /\ frame.value = value
  OBVIOUS
<1> DEFINE a == VM!Overwrite(store, v)
           b == IF VM!AbiValue \in DOMAIN v THEN v[VM!AbiValue] ELSE value
<1>2. VM!WithWrites(frame, v) = [frame EXCEPT !.store = a, !.value = b]
  BY <1>1 DEF VM!WithWrites
<1> HIDE DEF a, b
<1>3. VM!WithWrites(frame, v) = [fn |-> fn, store |-> a, value |-> b, ret |-> ret]
  BY <1>2
<1> QED
  BY <1>3 DEF a, b

(* A store of emitted code into its own frame is a write set of the VM. *)
LEMMA MappedStore ==
    ASSUME Inv, NothingPending, mode = "body", UNCHANGED <<head, frames, code>>,
           NEW w, WriteAll(ctx, w), NEW v,
           DOMAIN w \subseteq Locations(F) \cup {<<0, Restore>>, <<0, NextPc>>},
           DOMAIN v = DOMAIN w \cap Locations(F), \A l \in DOMAIN v : v[l] = w[l],
           pending' = Idle
    PROVE  /\ VM!WriteAll(v)
           /\ cell'[<<ctx, Active>>] = 1
<1>0. PICK n : n = Len(frames)
  OBVIOUS
<1>1. /\ vmStack = StackOnTape /\ vmGlobals = globals /\ Len(vmStack) = n
      /\ VM!AbiValue = AbiValue /\ F \in Functions /\ F = frames[n].fn /\ n \in Nat /\ n >= 1
      /\ frames[n].ctx = ctx /\ ctx \in Nat /\ AbiFields \subseteq Lanes
      /\ ctx' = ctx /\ cell[<<ctx, Active>>] = 1
  BY <1>0, MappedBody, SameProgram, TopFrame, Constants
     DEF Inv, Types, WriteAll, CurrentContext
<1>2. vmStack' = StackOnTape' /\ vmGlobals' = globals'
  BY DEF vmStack, vmGlobals, InTransit
<1>3. ASSUME NEW l \in DOMAIN w
      PROVE  l \notin Globals => l \in Int \X Lanes /\ l[1] >= 0
                                 /\ l[1] <= BodyChunks[F] /\ l # <<0, Active>> /\ l # <<0, ReturnPc>>
  <2>1. BodyChunks[F] \in Nat
    BY <1>1, LayoutAssumption
  <2>2. CASE l \in {<<0, Restore>>, <<0, NextPc>>}
    BY <1>1, <2>1, <2>2 DEF AbiFields, Restore, NextPc, Active, ReturnPc
  <2>3. CASE l \in Locations(F)
    <3>1. CASE l = AbiValue
      BY <1>1, <2>1, <3>1 DEF AbiValue, AbiFields, Active, ReturnPc, Value
    <3>2. CASE l \in Nat \X Lanes /\ l[1] >= 1 /\ l[1] <= BodyChunks[F]
      BY <2>1, <3>2
    <3> QED
      BY <2>3, <3>1, <3>2, LocationPlaces
  <2> QED
    BY <2>2, <2>3
<1>4. ASSUME NEW q \in {Active, ReturnPc} PROVE cell'[<<ctx, q>>] = cell[<<ctx, q>>]
  <2>1. <<0, q>> \notin DOMAIN w
    <3>1. <<0, q>> \in Int \X Lanes /\ <<0, q>> \notin Globals
      BY <1>1, LayoutAssumption DEF AbiFields
    <3> QED
      BY <1>3, <3>1
  <2>2. At(ctx, <<0, q>>) = <<ctx, q>> /\ <<ctx, q>> \in Cells /\ <<0, q>> \in Int \X Lanes
    BY <1>1, ContextCells DEF At, AbiFields
  <2> QED
    BY <1>1, <2>1, <2>2, WrittenAt
<1>5. ASSUME NEW l \in Storage[F] \cup {AbiValue}
      PROVE  cell'[At(ctx, l)] = IF l \in DOMAIN v THEN v[l] ELSE cell[At(ctx, l)]
  <2>1. l \in ContentOf(n) /\ l \in Locations(F)
    BY <1>1 DEF ContentOf, Locations
  <2>2. l \in Int \X Lanes /\ At(ctx, l) \in Cells
    BY <1>0, <1>1, <2>1, ContentPlace
  <2>3. l \in DOMAIN v <=> l \in DOMAIN w
    BY <2>1
  <2> QED
    BY <1>1, <2>2, <2>3, WrittenAt
<1>6. FrameAt(n)' = VM!WithWrites(FrameAt(n), v)
  <2>1. At(ctx, AbiValue) = <<ctx, Value>>
    BY <1>1 DEF At, AbiValue
  <2>3. FrameAt(n)' = [fn    |-> F,
                       store |-> [s \in Storage[F] |-> cell'[At(ctx, s)]],
                       value |-> cell'[<<ctx, Value>>],
                       ret   |-> FrameAt(n).ret]
    BY <1>1, <1>4 DEF FrameAt
  <2>4. [s \in Storage[F] |-> cell'[At(ctx, s)]] = VM!Overwrite(FrameAt(n).store, v)
    BY <1>1, <1>5 DEF FrameAt, VM!Overwrite
  <2>5. cell'[<<ctx, Value>>] =
            IF VM!AbiValue \in DOMAIN v THEN v[VM!AbiValue] ELSE FrameAt(n).value
    BY <1>1, <1>5, <2>1 DEF FrameAt
  <2>6. FrameAt(n) = [fn |-> F, store |-> FrameAt(n).store, value |-> FrameAt(n).value,
                      ret |-> FrameAt(n).ret]
    BY <1>1 DEF FrameAt
  <2> QED
    BY <2>3, <2>4, <2>5, <2>6, WrittenRecord
<1>7. ASSUME NEW i \in 1 .. n, i # n PROVE FrameAt(i)' = FrameAt(i)
  <2>1. /\ i \in 1 .. n - 1 /\ frames[i].ctx \in 1 .. ctx
        /\ frames[i].ctx <= ctx - FrameChunks(F)
    BY <1>0, <1>1, <1>7, TopFrame
  <2>2. FrameChunks(F) = BodyChunks[F] + 1 /\ BodyChunks[F] \in Nat
    BY <1>1, Constants, LayoutAssumption
  <2>3. \A l \in DOMAIN w : l \notin Globals =>
            l \in Int \X Lanes /\ l[1] < ctx - frames[i].ctx
    BY <1>1, <1>3, <2>1, <2>2, SMTT(30)
  <2> QED
    BY <1>0, <1>7, <2>3, LowerFrameKept
<1>8. StackOnTape' = [StackOnTape EXCEPT ![n] = VM!WithWrites(@, v)]
  <2>1. StackOnTape = [i \in 1 .. n |-> FrameAt(i)]
    BY <1>0, StackIsFrames
  <2>2. StackOnTape' = [i \in 1 .. n |-> FrameAt(i)']
    BY <1>0 DEF StackOnTape, FrameAt
  <2>3. ASSUME NEW i \in 1 .. n, i # n PROVE StackOnTape'[i] = StackOnTape[i]
    BY <1>7, <2>1, <2>2, <2>3
  <2>4. n \in 1 .. n
    BY <1>1
  <2>5. StackOnTape'[n] = VM!WithWrites(StackOnTape[n], v)
    BY <1>6, <2>1, <2>2, <2>4
  <2> QED
    BY <2>1, <2>2, <2>3, <2>4, <2>5
<1>9. globals' = VM!Overwrite(globals, v)
  <2>1. \A g \in Globals : g \in Locations(F)
    BY DEF Locations
  <2>2. DOMAIN globals = Globals
    BY DEF Inv, Types
  <2> QED
    BY <2>1, <2>2 DEF VM!Overwrite, WriteAll
<1> QED
  BY <1>1, <1>2, <1>4, <1>8, <1>9 DEF VM!WriteAll

LEMMA QuietTransit ==
    ASSUME mode' \notin {"args", "deliver"}, pending' = Idle
    PROVE  TransitInv'
BY DEF TransitInv, CallInTransit, ReturnInTransit, NothingPending

(* A frame instruction of the emitted code is one of the VM. *)
LEMMA BodyMaps ==
    ASSUME Inv, TransitInv, BodyStep
    PROVE  VM!Next /\ TransitInv'
<1>1. PICK dst \in Locations(F) :
        \/ \E v \in Byte : SetLocation(dst, v)
        \/ \E src \in Locations(F) : CopyLocations(src, dst)
        \/ \E src \in Locations(F), factor \in Byte \ {0} :
                TransferLocation(src, dst, factor)
  BY DEF BodyStep
<1>2. /\ mode = "body" /\ mode' = "body" /\ NothingPending /\ pending = Idle /\ pending' = Idle
      /\ UNCHANGED <<head, frames, code>>
  BY <1>1 DEF SetLocation, CopyLocations, TransferLocation, TransitInv, NothingPending
<1>3. /\ VM!Byte = Byte /\ VM!Locations(VM!Fn) = Locations(F) /\ vmRunning
      /\ \A l \in Locations(F) : VM!Read(l) = Read(ctx, l) /\ l # <<0, Restore>>
      /\ \A l : Back(ctx, l) = ctx
  <2>1. \A l \in Locations(F) : VM!Read(l) = Read(ctx, l)
    BY <1>2, MappedRead
  <2>2. \A l \in Locations(F) : l # <<0, Restore>>
    BY <1>2, LocationPlaces, Constants DEF AbiValue, AbiFields, Value, Restore
  <2> QED
    BY <1>2, <2>1, <2>2, SameProgram, MappedBody, BackHome
<1>4. ASSUME cell'[<<ctx, Active>>] = 1, ctx' = ctx
      PROVE  UNCHANGED <<vmCurrent, vmRunning>>
  BY <1>2, <1>4, MappedBody DEF vmCurrent, vmRunning
<1>5. VM!BodyStep
  <2>1. CASE \E v \in Byte : SetLocation(dst, v)
    <3>1. PICK v \in Byte : SetLocation(dst, v)
      BY <2>1
    <3>2. WriteAll(ctx, [l \in {dst} |-> v]) /\ ctx' = ctx
      BY <1>3, <3>1 DEF SetLocation, WriteAll
    <3>3. VM!WriteAll([l \in {dst} |-> v]) /\ cell'[<<ctx, Active>>] = 1
      BY <1>1, <1>2, <3>2, MappedStore
    <3>4. VM!Set(dst, v)
      BY <1>3, <1>4, <3>2, <3>3 DEF VM!Set
    <3> QED
      BY <1>1, <1>3, <3>1, <3>4 DEF VM!BodyStep
  <2>2. CASE \E src \in Locations(F) : CopyLocations(src, dst)
    <3>1. PICK src \in Locations(F) : CopyLocations(src, dst)
      BY <2>2
    <3> DEFINE w == [l \in {dst, <<0, Restore>>} |-> IF l = dst THEN Read(ctx, src) ELSE 0]
               v == [l \in {dst} |-> VM!Read(src)]
    <3>2. WriteAll(ctx, w) /\ ctx' = ctx
      BY <1>3, <3>1 DEF CopyLocations, WriteAll
    <3>3. /\ DOMAIN w \subseteq Locations(F) \cup {<<0, Restore>>, <<0, NextPc>>}
          /\ DOMAIN v = DOMAIN w \cap Locations(F)
          /\ \A l \in DOMAIN v : v[l] = w[l]
      BY <1>1, <1>3, <3>1
    <3> HIDE DEF w
    <3>4. VM!WriteAll(v) /\ cell'[<<ctx, Active>>] = 1
      BY <1>2, <3>2, <3>3, MappedStore
    <3>5. VM!Copy(src, dst)
      BY <1>3, <1>4, <3>2, <3>4 DEF VM!Copy
    <3> QED
      BY <1>1, <1>3, <3>1, <3>5 DEF VM!BodyStep
  <2>3. CASE \E src \in Locations(F), factor \in Byte \ {0} :
                TransferLocation(src, dst, factor)
    <3>1. PICK src \in Locations(F), factor \in Byte \ {0} :
                TransferLocation(src, dst, factor)
      BY <2>3
    <3> DEFINE w == [l \in {src, dst} |->
                        IF l = src THEN 0
                        ELSE Plus(Read(ctx, dst), factor * Read(ctx, src))]
               v == [l \in {src, dst} |->
                        IF l = src THEN 0
                        ELSE (VM!Read(dst) + factor * VM!Read(src)) % CellBase]
    <3>2. WriteAll(ctx, w) /\ ctx' = ctx /\ src # dst
      BY <1>3, <3>1 DEF TransferLocation, WriteAll
    <3>3. /\ DOMAIN w \subseteq Locations(F) \cup {<<0, Restore>>, <<0, NextPc>>}
          /\ DOMAIN v = DOMAIN w \cap Locations(F)
          /\ \A l \in DOMAIN v : v[l] = w[l]
      BY <1>1, <1>3, <3>1 DEF Plus
    <3> HIDE DEF w
    <3>4. VM!WriteAll(v) /\ cell'[<<ctx, Active>>] = 1
      BY <1>2, <3>2, <3>3, MappedStore
    <3>5. VM!Transfer(src, dst, factor)
      BY <1>3, <1>4, <3>2, <3>4 DEF VM!Transfer
    <3> QED
      BY <1>1, <1>3, <3>1, <3>5 DEF VM!BodyStep
  <2> QED
    BY <1>1, <2>1, <2>2, <2>3
<1> QED
  BY <1>2, <1>5, QuietTransit DEF VM!Next

-----------------------------------------------------------------------------
(* The control cells of the current context are no part of a VM frame. *)
LEMMA ControlCellsHidden ==
    ASSUME Inv, frames' = frames,
           \A x \in Cells :
               x \notin {<<ctx, q>> : q \in {Active, Pc, NextPc, Restore}} => cell'[x] = cell[x]
    PROVE  /\ StackOnTape' = StackOnTape
           /\ \A i \in 1 .. Len(frames) : FrameAt(i)' = FrameAt(i)
<1>1. ASSUME NEW i \in 1 .. Len(frames) PROVE FrameAt(i)' = FrameAt(i)
  <2> SUFFICES ASSUME NEW l \in ContentOf(i)
               PROVE  cell'[At(frames[i].ctx, l)] = cell[At(frames[i].ctx, l)]
    BY TopFrame, SameFrame
  <2>1. /\ l \in Nat \X Lanes
        /\ l[1] = 0 => l[2] \in {Value, ReturnPc}
        /\ At(frames[i].ctx, l) \in Cells /\ frames[i].ctx \in 1 .. ctx /\ ctx \in Nat
        /\ At(frames[i].ctx, l) = <<frames[i].ctx - l[1], l[2]>>
    BY ContentPlace DEF Inv, Types, At
  <2>2. ASSUME NEW q \in {Active, Pc, NextPc, Restore}, At(frames[i].ctx, l) = <<ctx, q>>
        PROVE  FALSE
    <3>0. l[2] = q /\ frames[i].ctx - l[1] = ctx
      BY <2>1, <2>2
    <3>1. CASE l[1] = 0
      BY <2>1, <2>2, <3>0, <3>1 DEF Value, ReturnPc, Active, Pc, NextPc, Restore
    <3>2. CASE l[1] # 0
      BY <2>1, <3>0, <3>2
    <3> QED
      BY <3>1, <3>2
  <2> QED
    BY <2>1, <2>2
<1> QED
  BY <1>1 DEF StackOnTape, FrameAt

(* The two halves of a dispatcher cycle are invisible to the VM: a PC in   *)
(* Pc, in NextPc and in the code that runs is one and the same `current`.  *)
LEMMA DispatcherMaps ==
    ASSUME Inv, TransitInv, Dispatch \/ EndCycle
    PROVE  UNCHANGED VM!vars /\ TransitInv'
<1>1. /\ mode \in {"dispatch", "cycle"} /\ mode' \notin {"args", "deliver"}
      /\ pending = Idle /\ pending' = Idle
      /\ UNCHANGED <<head, globals, ctx, frames>>
  BY DEF Dispatch, EndCycle, TransitInv, NothingPending
<1>2. /\ <<ctx, Active>> \in Cells /\ <<ctx, Pc>> \in Cells /\ <<ctx, NextPc>> \in Cells
      /\ cell \in [Cells -> Nat]
  BY ContextCells DEF Inv, Types
<1>3. cell' \in {cell, [cell EXCEPT ![<<ctx, Pc>>] = 0], AdvancedPc}
  BY DEF Dispatch, EndCycle
<1>4. /\ \A x \in Cells : x \notin {<<ctx, q>> : q \in {Active, Pc, NextPc, Restore}}
                              => cell'[x] = cell[x]
      /\ cell'[<<ctx, Active>>] = cell[<<ctx, Active>>]
  BY <1>2, <1>3 DEF AdvancedPc, Active, Pc, NextPc
<1>5. UNCHANGED <<vmStack, vmGlobals, vmRunning>>
  BY <1>1, <1>4, ControlCellsHidden DEF vmStack, vmGlobals, vmRunning, InTransit
<1>6. UNCHANGED vmCurrent
  <2>1. CASE ~vmRunning
    <3>1. ~vmRunning' /\ cell[<<ctx, Active>>] \in {0, 1}
      BY <1>5, <2>1 DEF Inv, CurrentContext
    <3>2. code' = code
      BY <2>1, <3>1 DEF Dispatch, EndCycle, vmRunning
    <3> QED
      BY <2>1, <3>1, <3>2 DEF vmCurrent
  <2>2. CASE vmRunning /\ Dispatch
    <3>1. mode = "dispatch" /\ mode' = "body" /\ code' = cell[<<ctx, Pc>>]
      BY <2>2 DEF Dispatch, vmRunning
    <3> QED
      BY <2>2, <3>1 DEF vmCurrent
  <2>3. CASE vmRunning /\ EndCycle
    <3>1. /\ mode = "cycle" /\ mode' = "dispatch"
          /\ cell'[<<ctx, Pc>>] = cell[<<ctx, NextPc>>]
      BY <1>2, <2>3 DEF EndCycle, AdvancedPc, Pc, NextPc
    <3> QED
      BY <1>1, <1>5, <2>3, <3>1 DEF vmCurrent
  <2> QED
    BY <2>1, <2>2, <2>3
<1> QED
  BY <1>1, <1>5, <1>6, QuietTransit DEF VM!vars

LEMMA LocalControlMaps ==
    ASSUME Inv, TransitInv, LocalControl
    PROVE  VM!Next /\ TransitInv'
<1>1. /\ mode = "body" /\ mode' = "cycle" /\ NothingPending /\ pending = Idle
      /\ pending' = Idle /\ UNCHANGED <<head, frames, code>>
  BY DEF LocalControl, Goto, Branch, TransitInv, NothingPending
<1>2. /\ vmRunning /\ VM!ContsOf(VM!Fn) = ContsOf(F) /\ VM!Locations(VM!Fn) = Locations(F)
      /\ ctx \in Nat /\ cell \in [Cells -> Nat] /\ cell[<<ctx, Active>>] = 1
      /\ <<ctx, Active>> \in Cells /\ <<ctx, NextPc>> \in Cells
  BY <1>1, MappedBody, SameProgram, ContextCells DEF Inv, Types, CurrentContext
<1>3. VM!LocalControl
  <2>1. CASE \E target \in ContsOf(F) : Goto(target)
    <3>1. PICK target \in ContsOf(F) : Goto(target)
      BY <2>1
    <3>2. /\ cell' = [cell EXCEPT ![<<ctx, NextPc>>] = target]
          /\ UNCHANGED <<globals, ctx>>
      BY <3>1 DEF Goto
    <3>3. StackOnTape' = StackOnTape
      BY <1>1, <1>2, <3>2, ControlCellsHidden
    <3>4. cell'[<<ctx, NextPc>>] = target /\ cell'[<<ctx, Active>>] = 1
      BY <1>2, <3>2 DEF NextPc, Active
    <3>5. UNCHANGED <<vmStack, vmGlobals, vmRunning>>
      BY <1>1, <1>2, <3>2, <3>3, <3>4 DEF vmStack, vmGlobals, InTransit, vmRunning
    <3>6. vmCurrent' = target
      BY <1>1, <1>2, <3>2, <3>4 DEF vmCurrent, vmRunning
    <3> QED
      BY <1>2, <3>5, <3>6 DEF VM!LocalControl, VM!Goto
  <2>2. CASE \E condition \in Locations(F), then, else \in ContsOf(F) :
                Branch(condition, then, else)
    <3>1. PICK condition \in Locations(F), then \in ContsOf(F), else \in ContsOf(F) :
                Branch(condition, then, else)
      BY <2>2
    <3>2. Back(ctx, condition) = ctx
      BY BackHome
    <3> DEFINE target == IF Read(ctx, condition) # 0 THEN then ELSE else
               w == [l \in {condition, <<0, NextPc>>} |-> IF l = condition THEN 0 ELSE target]
               v == [l \in {condition} |-> 0]
    <3>3. WriteAll(ctx, w) /\ ctx' = ctx
      BY <3>1, <3>2 DEF Branch, WriteAll
    <3>4. \A l \in Locations(F) : l # <<0, NextPc>>
      BY <1>1, LocationPlaces, Constants DEF AbiValue, AbiFields, Value, NextPc
    <3>5. /\ DOMAIN w \subseteq Locations(F) \cup {<<0, Restore>>, <<0, NextPc>>}
          /\ DOMAIN v = DOMAIN w \cap Locations(F)
          /\ \A l \in DOMAIN v : v[l] = w[l]
      BY <3>1, <3>4
    <3>6. <<0, NextPc>> \in DOMAIN w /\ w[<<0, NextPc>>] = target
      BY <3>1, <3>4
    <3> HIDE DEF w, target
    <3>7. VM!WriteAll(v) /\ cell'[<<ctx, Active>>] = 1
      BY <1>1, <3>3, <3>5, MappedStore
    <3>8. cell'[<<ctx, NextPc>>] = target
      <4>1. /\ At(ctx, <<0, NextPc>>) = <<ctx, NextPc>> /\ <<0, NextPc>> \in Int \X Lanes
            /\ ctx \in Int
        BY <1>2, Constants DEF At, AbiFields
      <4> QED
        BY <1>2, <3>3, <3>6, <4>1, WrittenAt
    <3>9. vmRunning' /\ vmCurrent' = target
      BY <1>1, <3>3, <3>7, <3>8 DEF vmCurrent, vmRunning
    <3>10. target = IF VM!Read(condition) # 0 THEN then ELSE else
      BY <1>1, <3>1, MappedRead DEF target
    <3>11. vmRunning' = vmRunning
      BY <1>2, <3>9 DEF vmRunning
    <3> QED
      BY <1>2, <3>1, <3>7, <3>9, <3>10, <3>11 DEF VM!LocalControl, VM!Branch
  <2> QED
    BY <2>1, <2>2 DEF LocalControl
<1> QED
  BY <1>1, <1>3, QuietTransit DEF VM!Next

LEMMA StopMaps ==
    ASSUME Inv, TransitInv, Stop
    PROVE  VM!Next /\ TransitInv'
<1>1. /\ mode = "body" /\ mode' = "cycle" /\ NothingPending /\ pending = Idle
      /\ pending' = Idle /\ UNCHANGED <<head, globals, ctx, frames, code>>
      /\ cell' = [cell EXCEPT ![<<ctx, Active>>] = 0]
  BY DEF Stop, TransitInv, NothingPending
<1>2. /\ vmRunning /\ vmCurrent = code /\ <<ctx, Active>> \in Cells /\ cell \in [Cells -> Nat]
  BY <1>1, MappedBody, ContextCells DEF Inv, Types
<1>3. cell'[<<ctx, Active>>] = 0 /\ StackOnTape' = StackOnTape
  BY <1>1, <1>2, ControlCellsHidden
<1>4. vmRunning' = FALSE
  BY <1>1, <1>3 DEF vmRunning
<1>5. UNCHANGED <<vmStack, vmGlobals, vmCurrent>>
  BY <1>1, <1>2, <1>3, <1>4 DEF vmStack, vmGlobals, InTransit, vmCurrent
<1> QED
  BY <1>1, <1>2, <1>4, <1>5, QuietTransit DEF VM!Next, VM!Stop

-----------------------------------------------------------------------------
(* What the mapping yields while a call or a return is in transit. *)
LEMMA MappedTransit ==
    ASSUME Inv, mode \in {"args", "deliver"}
    PROVE  /\ vmStack = pending.stack /\ vmGlobals = pending.globals
           /\ vmRunning = TRUE /\ vmCurrent = code
<1>1. pending # Idle
  <2>1. "next" \in DOMAIN pending
    BY DEF Inv, PendingOK
  <2>2. "next" \notin DOMAIN Idle
    BY DEF Idle
  <2> QED
    BY <2>1, <2>2
<1>2. cell[<<ctx, Active>>] = 1
  BY DEF Inv, CurrentContext
<1> QED
  BY <1>1, <1>2 DEF vmStack, vmGlobals, InTransit, vmRunning, vmCurrent

(* The first step of a call or a return records the state and clears at    *)
(* most Restore: the VM sees nothing of it.                                *)
LEMMA BeginMaps ==
    ASSUME Inv, NothingPending, mode = "body", mode' \in {"args", "deliver"},
           UNCHANGED <<head, globals, ctx, code, frames>>,
           cell' = cell \/ cell' = [cell EXCEPT ![<<ctx, Restore>>] = 0],
           pending' # Idle, pending'.stack = StackOnTape, pending'.globals = globals
    PROVE  /\ UNCHANGED VM!vars
           /\ HeldShape'
           /\ \A i \in 1 .. Len(frames) : pending'.stack[i] = FrameAt(i)'
           /\ \A x \in Cells : x # <<ctx, Restore>> => cell'[x] = cell[x]
           /\ \A l \in Locations(F) : Read(ctx, l)' = HeldAt(l)'
<1>1. /\ vmStack = StackOnTape /\ vmGlobals = globals /\ vmRunning = TRUE /\ vmCurrent = code
      /\ ctx \in Nat /\ cell \in [Cells -> Nat] /\ cell[<<ctx, Active>>] = 1
      /\ <<ctx, Active>> \in Cells /\ Len(frames) \in Nat /\ Len(frames) >= 1
      /\ frames[Len(frames)].ctx = ctx /\ F = frames[Len(frames)].fn
  BY MappedBody, ContextCells, TopFrame DEF Inv, Types, CurrentContext
<1>2. \A x \in Cells : x # <<ctx, Restore>> => cell'[x] = cell[x]
  BY <1>1
<1>3. StackOnTape' = StackOnTape /\ \A i \in 1 .. Len(frames) : FrameAt(i)' = FrameAt(i)
  BY <1>1, <1>2, ControlCellsHidden
<1>4. cell'[<<ctx, Active>>] = 1
  BY <1>1, <1>2 DEF Active, Restore
<1>5. UNCHANGED VM!vars
  BY <1>1, <1>4 DEF VM!vars, vmStack, vmGlobals, vmRunning, vmCurrent, InTransit
<1>6. StackOnTape = [i \in 1 .. Len(frames) |-> FrameAt(i)]
  BY StackIsFrames
<1>7. \A i \in 1 .. Len(frames) : pending'.stack[i] = FrameAt(i) /\ pending'.stack[i] = FrameAt(i)'
  BY <1>3, <1>6
<1>8. HeldShape'
  <2>1. pending'.stack = [i \in 1 .. Len(frames) |-> pending'.stack[i]]
    BY <1>6
  <2>2. ASSUME NEW i \in 1 .. Len(frames), NEW held, held = FrameAt(i)
        PROVE  held = [fn    |-> frames[i].fn,
                       store |-> [s \in Storage[frames[i].fn] |-> held.store[s]],
                       value |-> held.value,
                       ret   |-> FrameAt(i).ret]
    BY <2>2 DEF FrameAt
  <2> QED
    BY <1>3, <1>7, <2>1, <2>2 DEF HeldShape
<1>9. ASSUME NEW l \in Locations(F)
      PROVE  Read(ctx, l)' = HeldAt(l)'
  <2>1. pending'.stack[Len(frames)] = FrameAt(Len(frames))
    BY <1>1, <1>7
  <2>2. CASE l \in Globals
    BY <2>2 DEF Read, HeldAt
  <2>3. CASE l = AbiValue /\ l \notin Globals
    <3>1. At(ctx, AbiValue) = <<ctx, Value>> /\ <<ctx, Value>> \in Cells
      <4>1. <<ctx, Value>> \in Cells
        BY <1>1, Constants DEF Cells, AbiFields
      <4> QED
        BY <1>1, <4>1 DEF At, AbiValue
    <3>2. cell'[<<ctx, Value>>] = cell[<<ctx, Value>>]
      BY <1>2, <3>1 DEF Value, Restore
    <3>3. HeldAt(l)' = FrameAt(Len(frames)).value
      BY <2>1, <2>3 DEF HeldAt, Held
    <3>4. Read(ctx, l)' = cell'[<<ctx, Value>>]
      BY <2>3, <3>1 DEF Read
    <3> QED
      BY <1>1, <3>2, <3>3, <3>4 DEF FrameAt
  <2>4. CASE l \in Storage[F] /\ l \notin Globals /\ l # AbiValue /\ l \in Nat \X Lanes /\ l[1] >= 1
    <3>1. At(ctx, l) \in Cells /\ At(ctx, l) # <<ctx, Restore>>
      <4>1. l \in ContentOf(Len(frames))
        BY <1>1, <2>4 DEF ContentOf
      <4>2. At(ctx, l) \in Cells
        BY <1>1, <4>1, ContentPlace
      <4> QED
        BY <1>1, <2>4, <4>2 DEF At
    <3>2. HeldAt(l)' = FrameAt(Len(frames)).store[l]
      BY <2>1, <2>4 DEF HeldAt, Held
    <3>3. Read(ctx, l)' = cell'[At(ctx, l)]
      BY <2>4 DEF Read, At
    <3> QED
      BY <1>1, <1>2, <2>4, <3>1, <3>2, <3>3 DEF FrameAt
  <2> QED
    BY <2>2, <2>3, <2>4, LocationPlaces
<1> QED
  BY <1>2, <1>5, <1>7, <1>8, <1>9

LEMMA CallBeginMaps ==
    ASSUME Inv, TransitInv, CallStep
    PROVE  UNCHANGED VM!vars /\ TransitInv'
<1>0. PICK g \in {h \in Functions : MayCall(F, h)}, ret \in ContsOf(F) :
          \E args \in Arguments(F, g) :
              \E dead \in SUBSET MayConsume(args) : BeginCall(g, args, ret, dead)
  BY DEF CallStep
<1>a. PICK args \in Arguments(F, g) :
          \E dead \in SUBSET MayConsume(args) : BeginCall(g, args, ret, dead)
  BY <1>0
<1>1. PICK dead \in SUBSET MayConsume(args) : BeginCall(g, args, ret, dead)
  BY <1>a
<1>2. /\ mode = "body" /\ mode' = "args" /\ NothingPending
      /\ UNCHANGED <<head, globals, ctx, code, frames>>
      /\ pending' = [kind |-> "call", callee |-> g, args |-> args, ret |-> ret,
                     dead |-> dead, next |-> 1, parameters |-> {},
                     stack |-> StackOnTape, globals |-> globals]
      /\ cell' = IF Params[g] = <<>> THEN cell ELSE [cell EXCEPT ![<<ctx, Restore>>] = 0]
      /\ ctx + FrameChunks(g) + Group <= Capacity
  BY <1>1 DEF BeginCall, TransitInv
<1>3. /\ UNCHANGED VM!vars
      /\ HeldShape'
      /\ \A i \in 1 .. Len(frames) : pending'.stack[i] = FrameAt(i)'
      /\ \A x \in Cells : x # <<ctx, Restore>> => cell'[x] = cell[x]
      /\ \A l \in Locations(F) : Read(ctx, l)' = HeldAt(l)'
  <2>1. pending' # Idle
    BY <1>2 DEF Idle
  <2> QED
    BY <1>2, <2>1, BeginMaps
<1>4. /\ Len(Params[g]) \in Nat /\ g \in Functions /\ Params[g] \in Seq(Storage[g])
      /\ Len(frames) \in Nat /\ Len(frames) >= 1
      /\ ctx \in Nat /\ ctx >= 1 /\ cell \in [Cells -> Nat] /\ Group \in Nat /\ Capacity \in Nat
      /\ Storage[g] \subseteq (1 .. BodyChunks[g]) \X Lanes /\ BodyChunks[g] \in Nat
      /\ FrameChunks(g) = BodyChunks[g] + 1
      /\ <<ctx, Restore>> \in Cells /\ Group >= 1
      /\ F \in Functions /\ F' = F
  <2>1. g \in Functions /\ Params[g] \in Seq(Storage[g])
    BY <1>1, LayoutAssumption
  <2>2. Len(Params[g]) \in Nat
    BY <2>1, LenProperties
  <2>3. ctx \in Chunks
    BY Constants DEF Inv, Types, ScanRoom, Chunks
  <2> QED
    BY <1>2, <2>1, <2>2, <2>3, TopFrame, Constants, LayoutAssumption
       DEF Inv, Types, ScanRoom, Cells, AbiFields, F
<1>5. Consumed' = {}
  <2>1. dead \subseteq DOMAIN args /\ DOMAIN args = 1 .. Len(Params[g])
    BY <1>1 DEF MayConsume, Arguments
  <2>2. {j \in dead : j < 1} = {}
    BY <1>4, <2>1
  <2> QED
    BY <1>2, <2>2 DEF Consumed
<1>6. ASSUME NEW l \in Storage[F] \cup {AbiValue}
      PROVE  cell'[At(ctx, l)] = HeldAt(l)'
  <2>1. l \in Locations(F)
    BY DEF Locations
  <2>2. l \notin Globals
    BY <1>4, LayoutAssumption DEF AbiValue, AbiFields
  <2> QED
    BY <1>2, <1>3, <2>1, <2>2 DEF Read
<1>7. ASSUME NEW s \in Storage[g]
      PROVE  cell'[At(ctx, ParameterCell(g, s))] = BoundSoFar(s)'
  <2>1. s \in (1 .. BodyChunks[g]) \X Lanes
    BY <1>4
  <2>2. At(ctx, ParameterCell(g, s)) = <<ctx - (s[1] - FrameChunks(g)), s[2]>>
    BY DEF At, ParameterCell
  <2>3. ctx - (s[1] - FrameChunks(g)) \in ctx + 1 .. Capacity
    BY <1>2, <1>4, <2>1, SMTT(30)
  <2>4. At(ctx, ParameterCell(g, s)) \in Cells
    BY <1>4, <2>1, <2>2, <2>3 DEF Cells, Chunks
  <2>5. cell[At(ctx, ParameterCell(g, s))] = 0
    BY <1>2, <1>4, <2>2, <2>3, <2>4 DEF Inv, FreeTapeZero
  <2>6. cell'[At(ctx, ParameterCell(g, s))] = 0
    BY <1>3, <1>4, <2>2, <2>3, <2>4, <2>5
  <2>7. Hits(s)' = {}
    BY <1>2 DEF Hits
  <2> QED
    BY <2>6, <2>7 DEF BoundSoFar
<1>8. Params[g] # <<>> => cell'[<<ctx, Restore>>] = 0
  BY <1>2, <1>4
<1>9. {ParameterCell(g, Params[g][i]) : i \in 1 .. 1 - 1} = {}
  OBVIOUS
<1>10. \A l \in Storage[F] \cup {AbiValue} :
            cell'[At(ctx, l)] = IF l \in Consumed' THEN 0 ELSE HeldAt(l)'
  BY <1>5, <1>6
<1>11. CallInTransit'
  <2>1. /\ pending'.callee = g /\ pending'.args = args /\ pending'.dead = dead
        /\ pending'.next = 1 /\ pending'.parameters = {}
    BY <1>2
  <2>2. dead \subseteq MayConsume(args) /\ 1 <= Len(Params[g]) + 1
    BY <1>1, <1>4
  <2>3. \A i \in 1 .. Len(frames) - 1 : pending'.stack[i] = FrameAt(i)'
    BY <1>3, <1>4
  <2> QED
    BY <1>2, <1>3, <1>4, <1>7, <1>8, <1>9, <1>10, <2>1, <2>2, <2>3
       DEF CallInTransit, At, MayConsume
<1> QED
  BY <1>2, <1>3, <1>11 DEF TransitInv, ReturnInTransit, NothingPending

LEMMA ReturnBeginMaps ==
    ASSUME Inv, TransitInv, ReturnStep
    PROVE  UNCHANGED VM!vars /\ TransitInv'
<1>1. PICK result \in Results(F) : BeginReturn(result)
  BY DEF ReturnStep
<1>2. /\ mode = "body" /\ mode' = "deliver" /\ NothingPending /\ F # Main
      /\ UNCHANGED <<head, globals, ctx, code, frames>>
      /\ pending' = [kind |-> "return", result |-> result, next |-> 1,
                     stack |-> StackOnTape, globals |-> globals]
      /\ cell' = IF Result[F] = "aggregate" THEN [cell EXCEPT ![<<ctx, Restore>>] = 0] ELSE cell
  BY <1>1 DEF BeginReturn, TransitInv
<1>3. /\ UNCHANGED VM!vars
      /\ HeldShape'
      /\ \A i \in 1 .. Len(frames) : pending'.stack[i] = FrameAt(i)'
      /\ \A l \in Locations(F) : Read(ctx, l)' = HeldAt(l)'
  <2>1. pending' # Idle
    BY <1>2 DEF Idle
  <2> QED
    BY <1>2, <2>1, BeginMaps
<1>4. Len(frames) \in Nat /\ F' = F /\ F \in Functions /\ F = frames[Len(frames)].fn
      /\ frames[1].fn = Main /\ Len(frames) >= 2
  <2>1. F \in Functions /\ F = frames[Len(frames)].fn /\ Len(frames) \in Nat /\ Len(frames) >= 1
    BY <1>2, TopFrame
  <2>2. frames[1].fn = Main
    BY DEF Inv, FramesTile
  <2> QED
    BY <1>2, <2>1, <2>2 DEF F
<1>5. ASSUME NEW j \in 1 .. ResultLength(F)
      PROVE  result[j] \in Locations(F)
  <2>1. Result[F] \in {"void", "cell", "aggregate"}
    BY <1>4, ResultAssumption
  <2>2. CASE Result[F] = "void"
    BY <1>5, <2>2 DEF ResultLength
  <2>3. CASE Result[F] = "cell"
    BY <1>1, <1>5, <2>3 DEF Results, ResultLength
  <2>4. CASE Result[F] = "aggregate"
    BY <1>1, <1>5, <2>4 DEF Results, ResultLength, Locations
  <2> QED
    BY <2>1, <2>2, <2>3, <2>4
<1>6. ResultLength(F) \in Nat
  BY <1>4, ResultAssumption DEF ResultLength
<1>7. \A j \in 1 .. ResultLength(F) : Read(ctx, result[j])' = HeldAt(result[j])'
  BY <1>3, <1>5
<1>8. PICK n \in Nat : n = Len(frames) - 1 /\ n >= 1
  BY <1>4
<1>9. ReturnInTransit'
  <2>1. pending'.result = result /\ pending'.next = 1
    BY <1>2
  <2>2. \A s : Arrived(s)' = {}
    BY <1>2 DEF Arrived
  <2>3. \A i \in 1 .. n : pending'.stack[i] = FrameAt(i)'
    BY <1>3, <1>4, <1>8
  <2>4. pending'.stack[n] = FrameAt(n)'
    BY <1>3, <1>4, <1>8
  <2>5. \A s \in Storage[frames[n].fn] :
            cell'[At(frames[n].ctx, s)] = pending'.stack[n].store[s]
    BY <1>2, <2>4 DEF FrameAt
  <2>6. cell'[<<frames[n].ctx, Value>>] = pending'.stack[n].value
    BY <1>2, <2>4 DEF FrameAt
  <2>7. \A i \in 1 .. n - 1 : pending'.stack[i] = FrameAt(i)'
    BY <1>8, <2>3
  <2> QED
    BY <1>2, <1>3, <1>4, <1>6, <1>7, <1>8, <2>1, <2>2, <2>5, <2>6, <2>7
       DEF ReturnInTransit, At
<1> QED
  BY <1>2, <1>3, <1>9 DEF TransitInv, CallInTransit, NothingPending

-----------------------------------------------------------------------------
(* A parameter cell lies above the caller's frame, and distinct parameters *)
(* have distinct cells.                                                    *)
LEMMA ParameterCellPlace ==
    ASSUME NEW g \in Functions, NEW s \in Storage[g]
    PROVE  /\ ParameterCell(g, s) \in Int \X Lanes
           /\ ParameterCell(g, s)[1] < 0
           /\ ParameterCell(g, s)[1] >= 0 - BodyChunks[g]
           /\ ParameterCell(g, s) \notin Globals
           /\ \A t \in Storage[g] : ParameterCell(g, t) = ParameterCell(g, s) => t = s
<1>1. /\ Storage[g] \subseteq (1 .. BodyChunks[g]) \X Lanes /\ BodyChunks[g] \in Nat
      /\ FrameChunks(g) = BodyChunks[g] + 1 /\ FrameChunks(g) \in Nat
      /\ Globals \cap (Int \X Lanes) = {}
  BY LayoutAssumption, Constants
<1>2. /\ ParameterCell(g, s) \in Int \X Lanes
      /\ ParameterCell(g, s)[1] < 0
      /\ ParameterCell(g, s)[1] >= 0 - BodyChunks[g]
  BY <1>1 DEF ParameterCell
<1>3. ASSUME NEW t \in Storage[g], ParameterCell(g, t) = ParameterCell(g, s)
      PROVE  t = s
  <2>1. /\ s = <<s[1], s[2]>> /\ t = <<t[1], t[2]>> /\ s[1] \in Int /\ t[1] \in Int
    BY <1>1
  <2>2. t[1] - FrameChunks(g) = s[1] - FrameChunks(g) /\ t[2] = s[2]
    BY <1>3 DEF ParameterCell
  <2>3. t[1] = s[1]
    BY <1>1, <2>1, <2>2
  <2> QED
    BY <2>1, <2>2, <2>3
<1> QED
  BY <1>1, <1>2, <1>3

LEMMA GreatestIs ==
    ASSUME NEW S, NEW i \in S, \A j \in S : j <= i /\ j \in Int
    PROVE  (CHOOSE j \in S : \A k \in S : k <= j) = i
<1> DEFINE P(j) == j \in S /\ \A k \in S : k <= j
<1>1. P(i)
  OBVIOUS
<1>2. \A j : P(j) => j = i
  OBVIOUS
<1> QED
  BY <1>1, <1>2

(* What one argument does: its parameter cell receives what the source     *)
(* held when the call began, a dead source is zero afterwards.             *)
ArgumentStored(w, src, dst, isDead) ==
    /\ WriteAll(ctx, w)
    /\ DOMAIN w = {src, dst, <<0, Restore>>}
    /\ w[dst] = HeldAt(src)
    /\ w[<<0, Restore>>] = 0
    /\ w[src] = IF isDead THEN 0 ELSE HeldAt(src)

LEMMA ArgumentEffect ==
    ASSUME Inv, CallInTransit, CopyArgument,
           NEW g, g = pending.callee, NEW i, i = pending.next,
           NEW src, src = pending.args[i], NEW param, param = Params[g][i]
    PROVE  /\ mode = "args" /\ mode' = mode /\ UNCHANGED <<head, code, frames>> /\ ctx' = ctx
           /\ g \in Functions /\ i \in 1 .. Len(Params[g]) /\ Len(Params[g]) \in Nat
           /\ param \in Storage[g] /\ src \in Locations(F) /\ src \notin Consumed
           /\ DOMAIN pending.args = 1 .. Len(Params[g])
           /\ \E w : ArgumentStored(w, src, ParameterCell(g, param), i \in pending.dead)
           /\ pending'.callee = g /\ pending'.args = pending.args
           /\ pending'.dead = pending.dead /\ pending'.next = i + 1
           /\ pending'.parameters = pending.parameters \cup {ParameterCell(g, param)}
           /\ pending'.stack = pending.stack /\ pending'.globals = pending.globals
           /\ pending' # Idle
<1> DEFINE dst == ParameterCell(g, param)
           restore == <<0, Restore>>
           Stored(j, s, d, at, base) ==
               [l \in {s, d, restore} |->
                  CASE l = d       -> Plus(base, Read(at, s))
                    [] l = restore -> IF j \in pending.dead THEN Read(at, restore) ELSE 0
                    [] l = s       -> IF j \in pending.dead THEN 0
                                      ELSE Plus(Read(at, s), Read(at, restore))]
           w == Stored(i, src, dst, ctx, ParameterBase(ctx, dst))
<1>1. /\ mode = "args" /\ mode' = mode /\ UNCHANGED <<head, code, frames>>
      /\ i <= Len(Params[g]) /\ WriteAll(ctx, w)
      /\ pending' = [pending EXCEPT !.next = @ + 1, !.parameters = @ \cup {dst}]
  <2> DEFINE source == pending.args[pending.next]
             slot == Params[pending.callee][pending.next]
             cellOf == <<slot[1] - FrameChunks(pending.callee), slot[2]>>
             c == Back(ctx, source)
             written == Stored(pending.next, source, cellOf, c, ParameterBase(c, cellOf))
  <2>1. /\ mode = "args" /\ mode' = mode /\ UNCHANGED <<head, code, frames>>
        /\ pending.next <= Len(Params[pending.callee]) /\ WriteAll(c, written)
        /\ pending' = [pending EXCEPT !.next = @ + 1, !.parameters = @ \cup {cellOf}]
    BY Zenon DEF CopyArgument
  <2>2. c = ctx /\ source = src /\ cellOf = dst
    BY BackHome DEF ParameterCell
  <2> HIDE DEF Stored
  <2>3. written = w
    BY <2>2
  <2> HIDE DEF c, source, written, cellOf, w, dst
  <2> QED
    BY <2>1, <2>2, <2>3
<1>2. /\ g \in Functions /\ i \in Nat \ {0} /\ pending.args \in Arguments(F, g)
      /\ ctx \in Nat /\ ctx + FrameChunks(g) + Group <= Capacity
      /\ DOMAIN pending = {"kind", "callee", "args", "ret", "dead", "next",
                           "parameters", "stack", "globals"}
  BY <1>1 DEF Inv, Types, PendingOK
<1>3. param \in Storage[g] /\ i \in 1 .. Len(Params[g]) /\ Len(Params[g]) \in Nat
  <2>1. Params[g] \in Seq(Storage[g]) /\ Len(Params[g]) \in Nat
    BY <1>2, LayoutAssumption, LenProperties
  <2>2. i \in 1 .. Len(Params[g])
    BY <1>1, <1>2, <2>1
  <2> QED
    BY <2>1, <2>2, ElementOfSeq
<1>4. DOMAIN pending.args = 1 .. Len(Params[g]) /\ src \in Locations(F)
  BY <1>2, <1>3 DEF Arguments
<1>5. src \notin Consumed
  <2> SUFFICES ASSUME NEW j \in pending.dead, j < i, pending.args[j] = src PROVE FALSE
    BY DEF Consumed
  <2>1. j \in MayConsume(pending.args) /\ j \in 1 .. Len(Params[g])
    BY <1>1, <1>4 DEF CallInTransit, MayConsume
  <2>2. i <= j
    BY <1>3, <1>4, <2>1 DEF MayConsume
  <2> QED
    BY <1>3, <2>1, <2>2
<1>6. /\ dst \in Int \X Lanes /\ dst[1] < 0 /\ dst \notin Globals
      /\ dst \in ParameterCells(g)
  BY <1>2, <1>3, ParameterCellPlace DEF ParameterCells, ParameterCell
<1>7. /\ src \in Globals \/ src \in Nat \X Lanes
      /\ src # restore /\ restore \in Nat \X Lanes /\ restore \notin Globals
  <2>1. restore \in Nat \X Lanes /\ restore \notin Globals
    BY LayoutAssumption DEF AbiFields
  <2>2. src \in Globals \/ src \in Nat \X Lanes
    BY <1>1, <1>4, LocationKinds
  <2>3. src # restore
    BY <1>1, <1>4, <2>1, LocationPlaces DEF AbiValue, Value, Restore
  <2> QED
    BY <2>1, <2>2, <2>3
<1>8. dst # src /\ dst # restore
  BY <1>6, <1>7
<1>9. Read(ctx, restore) = 0
  <2>1. Params[g] # <<>>
    BY <1>3
  <2>2. cell[<<ctx, Restore>>] = 0
    BY <1>1, <2>1 DEF CallInTransit
  <2> QED
    BY <1>2, <1>7, <2>2 DEF Read, At
<1>10. Read(ctx, src) = HeldAt(src)
  <2>1. CASE src \in Globals
    BY <1>1, <2>1 DEF Read, HeldAt, CallInTransit, HeldShape
  <2>2. CASE src \notin Globals
    <3>1. src \in Storage[F] \cup {AbiValue}
      BY <1>4, <2>2 DEF Locations
    <3> QED
      BY <1>1, <1>5, <2>2, <3>1 DEF Read, CallInTransit
  <2> QED
    BY <2>1, <2>2
<1>11. Read(ctx, src) \in Byte
  <2>1. src \in Globals \/ At(ctx, src) \in Payload
    BY <1>1, <1>4, LocationKinds
  <2> QED
    BY <2>1, ReadByte
<1>12. ParameterBase(ctx, dst) = 0
  <2>1. CASE dst \in pending.parameters
    BY <2>1 DEF ParameterBase
  <2>2. CASE dst \notin pending.parameters
    <3>1. At(ctx, dst) \in Cells
      BY <1>1, <1>6, ParameterPlace DEF Payload
    <3>2. At(ctx, dst)[1] > ctx /\ <<ctx - At(ctx, dst)[1], At(ctx, dst)[2]>> = dst
      BY <1>2, <1>6 DEF At
    <3>3. cell[At(ctx, dst)] = 0
      BY <2>2, <3>1, <3>2 DEF Inv, FreeTapeZero
    <3> QED
      BY <1>6, <2>2, <3>3 DEF ParameterBase, Read
  <2> QED
    BY <2>1, <2>2
<1>13. \A b \in Byte : Plus(0, b) = b /\ Plus(b, 0) = b
  BY Constants DEF Plus, Byte
<1>14. /\ w[dst] = HeldAt(src) /\ w[restore] = 0
       /\ w[src] = IF i \in pending.dead THEN 0 ELSE HeldAt(src)
       /\ DOMAIN w = {src, dst, restore}
  <2>1. /\ w[dst] = Plus(ParameterBase(ctx, dst), Read(ctx, src))
        /\ w[restore] = IF i \in pending.dead THEN Read(ctx, restore) ELSE 0
        /\ w[src] = IF i \in pending.dead THEN 0 ELSE Plus(Read(ctx, src), Read(ctx, restore))
        /\ DOMAIN w = {src, dst, restore}
    <3> HIDE DEF dst, restore
    <3> QED
      BY <1>7, <1>8
  <2> QED
    BY <2>1, <1>9, <1>10, <1>11, <1>12, <1>13
<1>15. ctx' = ctx
  BY <1>1, ZenonT(60) DEF WriteAll
<1>16. ArgumentStored(w, src, dst, i \in pending.dead)
  BY <1>1, <1>14, ZenonT(60) DEF ArgumentStored
<1> HIDE DEF w, dst
<1>17. /\ pending'.callee = g /\ pending'.args = pending.args
       /\ pending'.dead = pending.dead /\ pending'.next = i + 1
       /\ pending'.parameters = pending.parameters \cup {dst}
       /\ pending'.stack = pending.stack /\ pending'.globals = pending.globals
       /\ DOMAIN pending' = DOMAIN pending
  BY <1>1, <1>2
<1>18. pending' # Idle
  <2>1. "next" \in DOMAIN pending' /\ "next" \notin DOMAIN Idle
    BY <1>2, <1>17 DEF Idle
  <2> QED
    BY <2>1
<1> QED
  BY <1>1, <1>2, <1>3, <1>4, <1>5, <1>15, <1>16, <1>17, <1>18 DEF dst

(* Copying an argument is invisible to the VM. *)
LEMMA ArgumentMaps ==
    ASSUME Inv, TransitInv, CopyArgument
    PROVE  UNCHANGED VM!vars /\ TransitInv'
<1>0. PICK g, i, src, n : g = pending.callee /\ i = pending.next /\ src = pending.args[i]
                          /\ n = Len(frames)
  OBVIOUS
<1>a. PICK param : param = Params[g][i]
  OBVIOUS
<1>b. CallInTransit
  BY DEF TransitInv
<1>1. /\ mode = "args" /\ mode' = "args" /\ UNCHANGED <<head, code, frames>> /\ ctx' = ctx
      /\ g \in Functions /\ i \in 1 .. Len(Params[g]) /\ Len(Params[g]) \in Nat
      /\ param \in Storage[g] /\ src \in Locations(F) /\ src \notin Consumed
      /\ DOMAIN pending.args = 1 .. Len(Params[g])
  BY <1>0, <1>a, <1>b, ArgumentEffect
<1> DEFINE dst == ParameterCell(g, param)
           restore == <<0, Restore>>
<1>c. PICK w : ArgumentStored(w, src, dst, i \in pending.dead)
  BY <1>0, <1>a, <1>b, ArgumentEffect
<1>2. /\ WriteAll(ctx, w)
      /\ DOMAIN w = {src, dst, restore}
      /\ w[dst] = HeldAt(src)
      /\ w[restore] = 0
      /\ w[src] = IF i \in pending.dead THEN 0 ELSE HeldAt(src)
  BY <1>c DEF ArgumentStored
<1>3. /\ pending'.callee = g /\ pending'.args = pending.args /\ pending'.dead = pending.dead
      /\ pending'.next = i + 1 /\ pending'.parameters = pending.parameters \cup {dst}
      /\ pending'.stack = pending.stack /\ pending'.globals = pending.globals
      /\ pending' # Idle
  BY <1>0, <1>a, <1>b, ArgumentEffect
<1>4. /\ dst \in Int \X Lanes /\ dst[1] < 0 /\ dst \notin Globals
      /\ dst[1] >= 0 - BodyChunks[g]
      /\ \A t \in Storage[g] : ParameterCell(g, t) = dst => t = param
      /\ restore \in Nat \X Lanes /\ restore \notin Globals
      /\ AbiFields \subseteq Lanes
  BY <1>1, ParameterCellPlace, LayoutAssumption DEF AbiFields
<1>5. /\ ctx \in Nat /\ n \in Nat /\ n >= 1 /\ frames[n].ctx = ctx /\ F = frames[n].fn
      /\ F \in Functions /\ F' = F /\ BodyChunks[F] \in Nat
      /\ Storage[F] \subseteq (1 .. BodyChunks[F]) \X Lanes
      /\ FrameChunks(F) = BodyChunks[F] + 1
      /\ Globals \cap (Int \X Lanes) = {}
  BY <1>0, <1>1, TopFrame, LayoutAssumption, Constants DEF Inv, Types, F
<1>6. CallInTransit /\ HeldShape /\ pending.dead \subseteq MayConsume(pending.args)
      /\ pending.globals = globals
  BY <1>1 DEF TransitInv, CallInTransit, HeldShape
<1>7. \/ src \in Globals /\ src \notin Int \X Lanes
      \/ src \in Nat \X Lanes /\ src \notin Globals /\ src[1] <= BodyChunks[F]
         /\ (src[1] = 0 => src = AbiValue)
  <2>1. CASE src = AbiValue
    BY <1>4, <1>5, <2>1 DEF AbiValue, AbiFields
  <2>2. CASE src # AbiValue
    BY <1>1, <2>2, LocationPlaces
  <2> QED
    BY <2>1, <2>2
<1>8. dst # src /\ dst # restore /\ src # restore
  BY <1>4, <1>7 DEF AbiValue, Value, Restore
<1>9. globals' = globals
  <2>1. ASSUME NEW x \in Globals PROVE globals'[x] = globals[x]
    <3>1. CASE x = src
      <4>1. i \notin pending.dead
        BY <1>0, <1>6, <2>1, <3>1 DEF MayConsume
      <4>2. HeldAt(src) = globals[src]
        BY <1>6, <2>1, <3>1 DEF HeldAt
      <4> QED
        BY <1>2, <2>1, <3>1, <4>1, <4>2 DEF WriteAll
    <3>2. CASE x # src
      BY <1>2, <1>4, <2>1, <3>2 DEF WriteAll
    <3> QED
      BY <3>1, <3>2
  <2>2. globals \in [Globals -> Byte] /\ globals' = [x \in Globals |-> globals'[x]]
    BY <1>2 DEF Inv, Types, WriteAll
  <2> QED
    BY <2>1, <2>2
<1>10. \A l : HeldAt(l)' = HeldAt(l)
  BY <1>1, <1>3 DEF HeldAt, Held
<1>11. ASSUME NEW l \in ContentOf(n) \cup {restore}
       PROVE  /\ At(ctx, l) \in Cells /\ l \in Int \X Lanes /\ l # dst
              /\ l \in Nat \X Lanes
              /\ cell'[At(ctx, l)] = IF l \in DOMAIN w THEN w[l] ELSE cell[At(ctx, l)]
  <2>1. /\ l \in Nat \X Lanes /\ At(ctx, l) \in Cells
    <3>1. CASE l \in ContentOf(n)
      BY <1>0, <1>5, <3>1, ContentPlace
    <3>2. CASE l = restore
      <4>1. At(ctx, l) = <<ctx, Restore>> /\ ctx \in Chunks
        BY <1>5, <3>2, Constants DEF At, Inv, ScanRoom, Chunks
      <4> QED
        BY <1>4, <3>2, <4>1 DEF Cells, AbiFields
    <3> QED
      BY <3>1, <3>2
  <2>2. l \in Int \X Lanes /\ l # dst
    BY <1>4, <2>1
  <2> QED
    BY <1>2, <1>5, <2>1, <2>2, WrittenAt
<1>12. ASSUME NEW l \in Storage[F] \cup {AbiValue}
       PROVE  cell'[At(ctx, l)] = IF l \in Consumed' THEN 0 ELSE HeldAt(l)
  <2>1. l \in ContentOf(n) /\ l # restore
    BY <1>5 DEF ContentOf, AbiValue, Value, Restore
  <2>2. cell[At(ctx, l)] = IF l \in Consumed THEN 0 ELSE HeldAt(l)
    BY <1>1, <1>6 DEF CallInTransit
  <2>3. Consumed' = {pending.args[j] : j \in {k \in pending.dead : k < i + 1}}
    BY <1>3 DEF Consumed
  <2>7. Consumed = {pending.args[j] : j \in {k \in pending.dead : k < i}}
    BY <1>0 DEF Consumed
  <2>4. pending.dead \subseteq 1 .. Len(Params[g])
    BY <1>1, <1>6 DEF MayConsume
  <2>5. CASE l = src
    <3>1. cell'[At(ctx, l)] = IF i \in pending.dead THEN 0 ELSE HeldAt(l)
      BY <1>2, <1>11, <2>1, <2>5
    <3>2. i \in pending.dead => src \in Consumed'
      BY <1>0, <1>1, <2>3
    <3>3. i \notin pending.dead => src \notin Consumed'
      BY <1>0, <1>1, <2>3, <2>4, <2>7
    <3> QED
      BY <2>5, <3>1, <3>2, <3>3
  <2>6. CASE l # src
    <3>1. cell'[At(ctx, l)] = cell[At(ctx, l)]
      BY <1>2, <1>11, <2>1, <2>6
    <3>2. l \in Consumed' <=> l \in Consumed
      BY <1>0, <1>1, <2>3, <2>4, <2>6, <2>7
    <3> QED
      BY <2>2, <3>1, <3>2
  <2> QED
    BY <2>5, <2>6
<1>13. cell'[<<ctx, Restore>>] = 0
  <2>1. At(ctx, restore) = <<ctx, Restore>>
    BY <1>5 DEF At
  <2> QED
    BY <1>2, <1>11, <2>1
<1>14. ASSUME NEW s \in Storage[g]
       PROVE  cell'[At(ctx, ParameterCell(g, s))] = BoundSoFar(s)'
  <2> DEFINE l == ParameterCell(g, s)
  <2>1. l \in Int \X Lanes /\ At(ctx, l) \in Cells /\ l \notin {src, restore}
    <3>1. l \in Int \X Lanes /\ l[1] < 0
      BY <1>1, ParameterCellPlace
    <3>2. l \in ParameterCells(g)
      BY DEF ParameterCells, ParameterCell
    <3>3. At(ctx, l) \in Payload
      BY <1>0, <1>1, <3>2, ParameterPlace
    <3> QED
      BY <1>4, <1>7, <3>1, <3>3 DEF Payload
  <2>2. cell'[At(ctx, l)] = IF l = dst THEN w[l] ELSE cell[At(ctx, l)]
    BY <1>2, <1>5, <2>1, WrittenAt
  <2>3. Hits(s)' = {j \in 1 .. i : Params[g][j] = s}
    <3>1. pending'.next - 1 = i
      BY <1>1, <1>3
    <3> QED
      BY <1>3, <3>1 DEF Hits
  <2>4. Hits(s) = {j \in 1 .. i - 1 : Params[g][j] = s}
    BY <1>0 DEF Hits
  <2>5. CASE s = param
    <3>1. i \in Hits(s)' /\ \A j \in Hits(s)' : j <= i /\ j \in Int
      BY <1>a, <1>1, <2>3, <2>5
    <3>2. (CHOOSE j \in Hits(s)' : \A k \in Hits(s)' : k <= j) = i
      BY <3>1, GreatestIs
    <3>3. BoundSoFar(s)' = HeldAt(src)'
      BY <1>0, <1>3, <3>1, <3>2 DEF BoundSoFar
    <3> QED
      BY <1>2, <1>10, <2>2, <2>5, <3>3
  <2>6. CASE s # param
    <3>1. Hits(s)' = Hits(s)
      BY <1>a, <1>1, <2>3, <2>4, <2>6
    <3>2. BoundSoFar(s)' = BoundSoFar(s)
      BY <1>3, <1>10, <3>1 DEF BoundSoFar
    <3>3. l # dst
      BY <1>4, <2>6
    <3>4. cell[At(ctx, l)] = BoundSoFar(s)
      BY <1>0, <1>1, <1>6 DEF CallInTransit
    <3> QED
      BY <2>2, <3>2, <3>3, <3>4
  <2> QED
    BY <2>5, <2>6
<1>15. pending'.parameters = {ParameterCell(g, Params[g][j]) : j \in 1 .. pending'.next - 1}
  <2>1. pending.parameters = {ParameterCell(g, Params[g][j]) : j \in 1 .. i - 1}
    BY <1>0, <1>1, <1>6 DEF CallInTransit
  <2>2. 1 .. pending'.next - 1 = (1 .. i - 1) \cup {i}
    BY <1>1, <1>3
  <2> QED
    BY <1>a, <1>3, <2>1, <2>2
<1>16. ASSUME NEW k \in 1 .. n - 1 PROVE FrameAt(k)' = FrameAt(k)
  <2>1. /\ k \in 1 .. Len(frames) /\ frames[k].ctx \in 1 .. ctx
        /\ frames[k].ctx <= ctx - FrameChunks(F)
    BY <1>0, <1>5, TopFrame
  <2>2. ASSUME NEW l \in DOMAIN w, l \notin Globals
        PROVE  l \in Int \X Lanes /\ l[1] < ctx - frames[k].ctx
    <3>1. CASE l = src
      BY <1>5, <1>7, <2>1, <2>2, <3>1
    <3>2. CASE l = dst
      BY <1>4, <1>5, <2>1, <3>2
    <3>3. CASE l = restore
      BY <1>4, <1>5, <2>1, <3>3
    <3> QED
      BY <1>2, <3>1, <3>2, <3>3
  <2> QED
    BY <1>1, <1>2, <2>1, <2>2, LowerFrameKept
<1>17. FrameAt(n)'.ret = FrameAt(n).ret
  <2>1. At(ctx, <<0, ReturnPc>>) = <<ctx, ReturnPc>> /\ <<0, ReturnPc>> \in ContentOf(n)
    BY <1>5 DEF At, ContentOf
  <2>2. <<0, ReturnPc>> \notin {src, restore}
    <3>1. <<0, ReturnPc>> \in Nat \X Lanes
      BY <1>4 DEF AbiFields
    <3> QED
      BY <1>7, <3>1 DEF ReturnPc, Restore, AbiValue, Value
  <2>3. cell'[<<ctx, ReturnPc>>] = cell[<<ctx, ReturnPc>>]
    BY <1>2, <1>11, <2>1, <2>2
  <2> QED
    BY <1>1, <1>5, <2>3 DEF FrameAt
<1>18. HeldShape'
  <2>1. \A k \in 1 .. n : FrameAt(k)'.ret = FrameAt(k).ret
    BY <1>5, <1>16, <1>17
  <2> QED
    BY <1>0, <1>1, <1>3, <1>6, <1>9, <2>1 DEF HeldShape
<1>19. UNCHANGED VM!vars
  <2>2. InTransit'
    BY <1>3 DEF InTransit, Idle
  <2>3. Inv'
    BY ArgumentKeepsInv
  <2>4. vmRunning' = TRUE
    BY <1>1, <2>3 DEF vmRunning, Inv, CurrentContext
  <2> QED
    BY <1>1, <1>3, <2>2, <2>4, MappedTransit DEF VM!vars, vmStack, vmGlobals, vmCurrent
<1>20. CallInTransit'
  <2>1. pending'.next <= Len(Params[g]) + 1
    BY <1>1, <1>3
  <2>2. pending'.dead \subseteq MayConsume(pending'.args)
    BY <1>3, <1>6
  <2>3. \A k \in 1 .. n - 1 : pending'.stack[k] = FrameAt(k)'
    BY <1>0, <1>1, <1>3, <1>6, <1>16 DEF CallInTransit
  <2>4. \A l \in Storage[F] \cup {AbiValue} :
            cell'[At(ctx, l)] = IF l \in Consumed' THEN 0 ELSE HeldAt(l)'
    BY <1>10, <1>12
  <2>5. \A s \in Storage[g] : cell'[At(ctx, ParameterCell(g, s))] = BoundSoFar(s)'
    BY <1>14
  <2>6. /\ pending'.callee = g /\ pending'.next = i + 1 /\ Len(frames') = n /\ F' = F
        /\ ctx' = ctx /\ mode' = "args"
    BY <1>0, <1>1, <1>3, <1>5
  <2>7. /\ (pending.dead \subseteq MayConsume(pending.args))'
        /\ (pending.next <= Len(Params[pending.callee]) + 1)'
        /\ (Params[pending.callee] # <<>> => cell[<<ctx, Restore>>] = 0)'
    BY <1>13, <2>1, <2>2, <2>6
  <2>8. (pending.parameters = {ParameterCell(pending.callee, Params[pending.callee][j]) :
                                    j \in 1 .. pending.next - 1})'
    BY <1>15, <2>6
  <2>9. (\A k \in 1 .. Len(frames) - 1 : pending.stack[k] = FrameAt(k))'
    BY <2>3, <2>6
  <2>10. (\A l \in Storage[F] \cup {AbiValue} :
              cell[At(ctx, l)] = IF l \in Consumed THEN 0 ELSE HeldAt(l))'
    BY <2>4, <2>6
  <2>11. (\A s \in Storage[pending.callee] :
              cell[At(ctx, ParameterCell(pending.callee, s))] = BoundSoFar(s))'
    BY <2>5, <2>6
  <2> QED
    BY <1>18, <2>7, <2>8, <2>9, <2>10, <2>11 DEF CallInTransit
<1> QED
  BY <1>1, <1>19, <1>20 DEF TransitInv, ReturnInTransit, NothingPending

-----------------------------------------------------------------------------
(* The state in transit, as the VM reads it. *)
LEMMA MappedHeld ==
    ASSUME Inv, mode \in {"args", "deliver"}, HeldShape
    PROVE  /\ Len(pending.stack) = Len(frames) /\ Len(frames) \in Nat /\ Len(frames) >= 1
           /\ VM!Top = Held /\ VM!Fn = F /\ F \in Functions
           /\ \A l : VM!Read(l) = HeldAt(l)
           /\ Held = [fn |-> F, store |-> [s \in Storage[F] |-> Held.store[s]],
                      value |-> Held.value, ret |-> FrameAt(Len(frames)).ret]
<1>1. /\ Len(frames) \in Nat /\ Len(frames) >= 1 /\ F \in Functions
      /\ F = frames[Len(frames)].fn
  BY TopFrame
<1>2. pending.stack = [i \in 1 .. Len(frames) |-> pending.stack[i]]
  BY DEF HeldShape
<1>3. Len(pending.stack) = Len(frames)
  <2> DEFINE n == Len(frames)
             e(i) == pending.stack[i]
  <2>1. pending.stack = [i \in 1 .. n |-> e(i)]
    BY <1>2
  <2> HIDE DEF n, e
  <2>2. Len(pending.stack) = n
    BY <1>1, <2>1 DEF n
  <2> QED
    BY <2>2 DEF n
<1>4. vmStack = pending.stack /\ vmGlobals = pending.globals
  BY MappedTransit
<1>5. VM!Top = Held
  BY <1>3, <1>4 DEF VM!Top, Held
<1>6. Held = [fn |-> F, store |-> [s \in Storage[F] |-> Held.store[s]],
              value |-> Held.value, ret |-> FrameAt(Len(frames)).ret]
  BY <1>1 DEF HeldShape, Held
<1>7. VM!Fn = F
  <2>1. Held.fn = F
    BY <1>6
  <2> QED
    BY <1>5, <2>1 DEF VM!Fn
<1>8. \A l : VM!Read(l) = HeldAt(l)
  BY <1>4, <1>5, SameProgram DEF VM!Read, HeldAt
<1> QED
  BY <1>1, <1>3, <1>5, <1>6, <1>7, <1>8

(* The frame of the callee, and the caller's as the call leaves it. *)
LEMMA EnterMaps ==
    ASSUME Inv, TransitInv, EnterCallee
    PROVE  VM!Next /\ TransitInv'
<1>0. PICK g, n, args, ret : g = pending.callee /\ n = Len(frames) /\ args = pending.args
                             /\ ret = pending.ret
  OBVIOUS
<1>a. PICK c : c = ctx + FrameChunks(g)
  OBVIOUS
<1>1. /\ mode = "args" /\ mode' = "cycle" /\ ctx' = c /\ pending' = Idle
      /\ pending.next > Len(Params[g])
      /\ cell' = [x \in Cells |-> IF x[1] = c THEN ContextField(x[2], Entry[g], ret)
                                  ELSE cell[x]]
      /\ frames' = Append(frames, [fn |-> g, ctx |-> c])
      /\ UNCHANGED <<globals, code>>
  BY <1>0, <1>a DEF EnterCallee
<1>2. /\ g \in Functions /\ MayCall(F, g) /\ ret \in ContsOf(F)
      /\ args \in Arguments(F, g) /\ c + Group <= Capacity
      /\ pending.next \in Nat \ {0}
  BY <1>0, <1>a, <1>1 DEF Inv, PendingOK
<1>3. /\ FrameChunks(g) \in Nat /\ FrameChunks(g) = BodyChunks[g] + 1 /\ BodyChunks[g] \in Nat
      /\ Storage[g] \subseteq (1 .. BodyChunks[g]) \X Lanes
      /\ Params[g] \in Seq(Storage[g]) /\ Len(Params[g]) \in Nat
      /\ Group \in Nat /\ Group >= 1 /\ Capacity \in Nat /\ AbiFields \subseteq Lanes
  BY <1>2, Constants, LayoutAssumption, LenProperties
<1>4. /\ ctx \in Nat /\ ctx >= 1 /\ c \in Nat /\ ctx < c /\ c <= Capacity
      /\ frames \in Seq([fn : Functions, ctx : Nat])
      /\ cell \in [Cells -> Nat]
  <2>1. /\ ctx \in Nat /\ ctx >= 1
        /\ frames \in Seq([fn : Functions, ctx : Nat]) /\ cell \in [Cells -> Nat]
    BY DEF Inv, Types, ScanRoom
  <2>2. c \in Nat /\ ctx < c /\ c <= Capacity
    BY <1>a, <1>2, <1>3, <2>1, SMTT(30)
  <2> QED
    BY <2>1, <2>2
<1>5. /\ CallInTransit /\ HeldShape /\ pending.dead \subseteq MayConsume(args)
      /\ pending.globals = globals /\ pending.next <= Len(Params[g]) + 1
  BY <1>0, <1>1 DEF TransitInv, CallInTransit, HeldShape
<1>6. /\ Len(pending.stack) = n /\ n \in Nat /\ n >= 1
      /\ VM!Fn = F /\ F \in Functions
      /\ \A l : VM!Read(l) = HeldAt(l)
      /\ Held = [fn |-> F, store |-> [s \in Storage[F] |-> Held.store[s]],
                 value |-> Held.value, ret |-> FrameAt(n).ret]
  BY <1>0, <1>1, <1>5, MappedHeld
<1>7. /\ frames[n].ctx = ctx /\ F = frames[n].fn
      /\ \A i \in 1 .. n : frames[i].ctx \in 1 .. ctx
  BY <1>0, <1>1, TopFrame
<1>8. /\ Len(frames') = n + 1
      /\ \A i \in 1 .. n : frames'[i] = frames[i]
      /\ frames'[n + 1] = [fn |-> g, ctx |-> c]
  BY <1>0, <1>1, <1>2, <1>4, AppendProperties
<1>9. ASSUME NEW x \in Cells
      PROVE  /\ x[1] # c => cell'[x] = cell[x]
             /\ x[1] = c => cell'[x] = ContextField(x[2], Entry[g], ret)
  BY <1>1
<1>10. ASSUME NEW q \in AbiFields
       PROVE  cell'[<<c, q>>] = ContextField(q, Entry[g], ret)
  <2>1. <<c, q>> \in Cells
    BY <1>3, <1>4 DEF Cells, Chunks
  <2> QED
    BY <1>9, <2>1
<1>11. ASSUME NEW i \in 1 .. n PROVE FrameAt(i)' = FrameAt(i)
  <2> SUFFICES ASSUME NEW l \in ContentOf(i)
               PROVE  cell'[At(frames[i].ctx, l)] = cell[At(frames[i].ctx, l)]
    BY <1>7, <1>8, SameFrame
  <2>1. At(frames[i].ctx, l) \in Cells /\ At(frames[i].ctx, l)[1] \in 1 .. ctx
    BY <1>0, <1>4, <1>7, ContentPlace
  <2> QED
    BY <1>4, <1>9, <2>1
<1> DEFINE lost == [l \in Consumed |-> 0]
<1>12. Consumed \subseteq {args[i] : i \in DOMAIN args} /\ Consumed \cap Globals = {}
  BY <1>0, <1>5 DEF Consumed, MayConsume
<1>13. FrameAt(n) = VM!WithWrites(Held, lost)
  <2>1. \A l \in Storage[F] \cup {AbiValue} :
            cell[At(ctx, l)] = IF l \in Consumed THEN 0 ELSE HeldAt(l)
    BY <1>1, <1>5 DEF CallInTransit
  <2>2. /\ \A l \in Storage[F] : l \notin Globals /\ l # AbiValue
        /\ AbiValue \notin Globals
    <3>1. Storage[F] \subseteq (1 .. BodyChunks[F]) \X Lanes /\ BodyChunks[F] \in Nat
          /\ Globals \cap (Int \X Lanes) = {}
      BY <1>6, LayoutAssumption
    <3> QED
      BY <1>3, <3>1 DEF AbiValue, AbiFields
  <2>3. [s \in Storage[F] |-> cell[At(ctx, s)]]
            = VM!Overwrite([s \in Storage[F] |-> Held.store[s]], lost)
    BY <2>1, <2>2 DEF VM!Overwrite, HeldAt
  <2>4. cell[<<ctx, Value>>] = IF VM!AbiValue \in DOMAIN lost THEN lost[VM!AbiValue]
                               ELSE Held.value
    <3>1. At(ctx, AbiValue) = <<ctx, Value>>
      BY <1>4 DEF At, AbiValue
    <3>2. cell[At(ctx, AbiValue)] = IF AbiValue \in Consumed THEN 0 ELSE Held.value
      BY <2>1, <2>2 DEF HeldAt
    <3> QED
      BY <3>1, <3>2, SameProgram
  <2>5. FrameAt(n) = [fn |-> F, store |-> [s \in Storage[F] |-> cell[At(ctx, s)]],
                      value |-> cell[<<ctx, Value>>], ret |-> FrameAt(n).ret]
    BY <1>7 DEF FrameAt
  <2>6. VM!WithWrites(Held, lost) =
            [fn |-> F, store |-> VM!Overwrite([s \in Storage[F] |-> Held.store[s]], lost),
             value |-> IF VM!AbiValue \in DOMAIN lost THEN lost[VM!AbiValue] ELSE Held.value,
             ret |-> FrameAt(n).ret]
    BY <1>6, WrittenRecord
  <2> QED
    BY <2>3, <2>4, <2>5, <2>6, Zenon
<1>14. FrameAt(n + 1)' = [VM!NewFrame(g, ret) EXCEPT !.store = VM!Bound(g, args)]
  <2>1. ASSUME NEW s \in Storage[g]
        PROVE  cell'[At(c, s)] = VM!Bound(g, args)[s]
    <3>1. s[1] \in 1 .. BodyChunks[g] /\ s[2] \in Lanes
      BY <1>3
    <3>0. c - s[1] \in ctx + 1 .. c - 1
      BY <1>a, <1>3, <1>4, <3>1, SMTT(30)
    <3>2. At(c, s) \in Cells /\ At(c, s)[1] # c
      BY <1>3, <1>4, <3>0, <3>1, SMTT(30) DEF At, Cells, Chunks
    <3>3. At(c, s) = At(ctx, ParameterCell(g, s))
      BY <1>a, <1>3, <1>4, <3>1 DEF At, ParameterCell
    <3>4. cell'[At(c, s)] = BoundSoFar(s)
      BY <1>0, <1>1, <1>5, <1>9, <3>2, <3>3 DEF CallInTransit
    <3>5. pending.next - 1 = Len(Params[g])
      BY <1>1, <1>2, <1>3, <1>5
    <3>6. Hits(s) = {i \in 1 .. Len(Params[g]) : Params[g][i] = s}
      BY <1>0, <3>5 DEF Hits
    <3>7. BoundSoFar(s) = IF Hits(s) = {} THEN 0
                          ELSE VM!Read(args[CHOOSE i \in Hits(s) : \A j \in Hits(s) : j <= i])
      BY <1>0, <1>6 DEF BoundSoFar
    <3> QED
      BY <3>4, <3>6, <3>7 DEF VM!Bound
  <2>2. FrameAt(n + 1)' = [fn |-> g, store |-> [s \in Storage[g] |-> cell'[At(c, s)]],
                           value |-> cell'[<<c, Value>>],
                           ret |-> cell'[<<c, ReturnPc>>]]
    BY <1>6, <1>8 DEF FrameAt
  <2>3. cell'[<<c, Value>>] = 0 /\ cell'[<<c, ReturnPc>>] = ret
    BY <1>10 DEF AbiFields, ContextField, Value, Active, NextPc, ReturnPc
  <2>4. VM!Bound(g, args) = [s \in Storage[g] |-> VM!Bound(g, args)[s]]
    BY DEF VM!Bound
  <2> QED
    BY <2>1, <2>2, <2>3, <2>4 DEF VM!NewFrame
<1>15. /\ cell'[<<c, Active>>] = 1 /\ cell'[<<c, NextPc>>] = Entry[g]
  BY <1>10 DEF AbiFields, ContextField, Active, NextPc
<1>16. /\ vmStack = pending.stack /\ vmGlobals = globals /\ vmRunning = TRUE
  BY <1>1, <1>5, MappedTransit
<1>17. /\ vmStack' = StackOnTape' /\ vmGlobals' = globals /\ vmRunning' = TRUE
       /\ vmCurrent' = Entry[g]
  BY <1>1, <1>15 DEF vmStack, vmGlobals, vmRunning, vmCurrent, InTransit
<1>18. StackOnTape' = Append([pending.stack EXCEPT ![n] = VM!WithWrites(@, lost)],
                             [VM!NewFrame(g, ret) EXCEPT !.store = VM!Bound(g, args)])
  <2> DEFINE S == [pending.stack EXCEPT ![n] = VM!WithWrites(@, lost)]
             new == [VM!NewFrame(g, ret) EXCEPT !.store = VM!Bound(g, args)]
  <2>1. StackOnTape' = [i \in 1 .. n + 1 |-> FrameAt(i)']
    BY <1>8 DEF StackOnTape, FrameAt
  <2>2. pending.stack = [i \in 1 .. n |-> pending.stack[i]]
    BY <1>0, <1>5 DEF HeldShape
  <2>3. \A i \in 1 .. n - 1 : pending.stack[i] = FrameAt(i)
    BY <1>0, <1>1, <1>5 DEF CallInTransit
  <2>4. pending.stack[n] = Held
    BY <1>0 DEF Held
  <2>5. ASSUME NEW i \in 1 .. n PROVE S[i] = FrameAt(i)'
    <3>1. CASE i = n
      <4>1. S[n] = VM!WithWrites(pending.stack[n], lost)
        BY <1>6, <2>2
      <4> QED
        BY <1>6, <1>11, <1>13, <2>4, <3>1, <4>1
    <3>2. CASE i # n
      <4>1. S[i] = pending.stack[i]
        BY <2>2, <3>2
      <4> QED
        BY <1>6, <1>11, <2>3, <3>2, <4>1
    <3> QED
      BY <3>1, <3>2
  <2>6. S = [i \in 1 .. n |-> S[i]]
    BY <2>2
  <2>7. FrameAt(n + 1)' = new
    BY <1>14
  <2> HIDE DEF S, new
  <2>8. Append(S, new) = [i \in 1 .. n + 1 |-> IF i = n + 1 THEN new ELSE S[i]]
    <3> DEFINE e(i) == S[i]
    <3>1. S = [i \in 1 .. n |-> e(i)]
      BY <2>6
    <3> HIDE DEF e
    <3>2. Append(S, new) = [i \in 1 .. n + 1 |-> IF i = n + 1 THEN new ELSE e(i)]
      BY <1>6, <3>1
    <3> QED
      BY <3>2 DEF e
  <2> QED
    BY <1>6, <2>1, <2>5, <2>7, <2>8 DEF S, new
<1>19. VM!Call(g, args, ret, Consumed)
  <2>1. lost \in [Consumed -> VM!Byte]
    BY SameProgram, Constants
  <2> QED
    BY <1>6, <1>16, <1>17, <1>18, <2>1 DEF VM!Call
<1>20. VM!CallStep
  BY <1>2, <1>6, <1>12, <1>19, SameProgram DEF VM!CallStep
<1> QED
  BY <1>1, <1>20, QuietTransit DEF VM!Next

-----------------------------------------------------------------------------
(* Where the i-th cell of a result goes and what the others are. *)
LEMMA ResultSlot ==
    ASSUME Inv, mode = "deliver", NEW m, m = Len(frames) - 1,
           NEW i \in Nat \ {0}, i <= ResultLength(F),
           NEW slot, slot = IF Result[F] = "cell" THEN AbiValue ELSE Outbox[i]
    PROVE  /\ slot \in Nat \X Lanes /\ slot[1] <= BodyChunks[frames[m].fn]
           /\ \/ /\ Result[F] = "cell" /\ ResultLength(F) = 1 /\ i = 1 /\ slot = AbiValue
              \/ /\ Result[F] = "aggregate" /\ ResultLength(F) = ResultCells[F]
                 /\ slot = Outbox[i] /\ slot \in Storage[frames[m].fn] /\ slot[1] >= 1
                 /\ \A j \in 1 .. ResultCells[F] : /\ pending.result[j] \in Storage[F] \cup Globals
                                                   /\ pending.result[j] = pending.result[i] => j = i
                                                   /\ Outbox[j] = Outbox[i] => j = i
<1>1. /\ m \in 1 .. Len(frames) /\ frames[m].fn \in Functions /\ MayCall(frames[m].fn, F)
      /\ F \in Functions /\ pending.result \in Results(F)
  BY CallerFrame DEF Inv, PendingOK
<1> DEFINE caller == frames[m].fn
<1>2. /\ Result[F] \in {"void", "cell", "aggregate"} /\ ResultCells[F] \in Nat
      /\ OutboxCells[caller] \in 0 .. Len(Outbox) /\ BodyChunks[caller] \in Nat
      /\ Storage[caller] \subseteq (1 .. BodyChunks[caller]) \X Lanes
  <2>1. caller \in Functions
    BY <1>1
  <2> HIDE DEF caller
  <2> QED
    BY <1>1, <2>1, ResultAssumption, LayoutAssumption
<1>3. Result[F] # "void"
  BY <1>2 DEF ResultLength
<1>4. CASE Result[F] = "cell"
  <2>1. i = 1 /\ slot = <<0, Value>> /\ ResultLength(F) = 1
    BY <1>4 DEF ResultLength, AbiValue
  <2> QED
    BY <1>2, <1>4, <2>1, Constants DEF AbiFields, AbiValue
<1>5. CASE Result[F] = "aggregate"
  <2>1. /\ i \in 1 .. ResultCells[F] /\ slot = Outbox[i] /\ ResultLength(F) = ResultCells[F]
    BY <1>2, <1>5 DEF ResultLength
  <2>2. ResultCells[F] <= OutboxCells[caller]
    BY <1>1, <1>5 DEF MayCall
  <2>3. i \in 1 .. OutboxCells[caller] /\ \A j \in 1 .. ResultCells[F] : j \in 1 .. Len(Outbox)
    <3> HIDE DEF caller
    <3>1. OutboxCells[caller] \in Nat /\ OutboxCells[caller] <= Len(Outbox)
      <4>1. OutboxCells[caller] \in 0 .. Len(Outbox)
        BY <1>2
      <4> QED
        BY <4>1
    <3> QED
      BY <1>2, <2>1, <2>2, <3>1
  <2>4. slot \in Storage[caller]
    BY <1>1, <2>1, <2>3, ResultAssumption
  <2>5. slot[1] \in 1 .. BodyChunks[caller] /\ slot \in Nat \X Lanes
    BY <1>2, <2>4
  <2>6. \A j \in 1 .. ResultCells[F] : Outbox[j] = Outbox[i] => j = i
    BY <2>1, <2>3, ResultAssumption
  <2>7. \A j \in 1 .. ResultCells[F] : /\ pending.result[j] \in Storage[F] \cup Globals
                                       /\ pending.result[j] = pending.result[i] => j = i
    BY <1>1, <1>5, <2>1 DEF Results
  <2> QED
    BY <1>2, <1>5, <2>1, <2>4, <2>5, <2>6, <2>7
<1> QED
  BY <1>2, <1>3, <1>4, <1>5

DeliveryStored(w, src, dst, spent) ==
    /\ WriteAll(ctx, w)
    /\ DOMAIN w = {dst, spent}
    /\ w[dst] = HeldAt(src)
    /\ dst # spent => w[spent] = 0

LEMMA DeliveryEffect ==
    ASSUME Inv, ReturnInTransit, DeliverCell,
           NEW i, i = pending.next, NEW src, src = pending.result[i],
           NEW slot, slot = IF Result[F] = "cell" THEN AbiValue ELSE Outbox[i],
           NEW spent, spent = IF src \notin Globals THEN src
                              ELSE IF Result[F] = "cell" THEN AbiValue ELSE <<0, Restore>>
    PROVE  /\ mode = "deliver" /\ mode' = mode /\ UNCHANGED <<head, code, frames>> /\ ctx' = ctx
           /\ i \in Nat \ {0} /\ i <= ResultLength(F)
           /\ src \in Locations(F)
           /\ \E w : DeliveryStored(w, src, <<slot[1] + FrameChunks(F), slot[2]>>, spent)
           /\ pending'.next = i + 1 /\ pending'.result = pending.result
           /\ pending'.stack = pending.stack /\ pending'.globals = pending.globals
           /\ pending' # Idle
<1> DEFINE dst == <<slot[1] + FrameChunks(F), slot[2]>>
           w == [l \in {dst, spent} |-> IF l = dst THEN Read(ctx, src) ELSE 0]
<1>1. /\ mode = "deliver" /\ mode' = mode /\ UNCHANGED <<head, code, frames>>
      /\ i <= ResultLength(F) /\ WriteAll(ctx, w)
      /\ pending' = [pending EXCEPT !.next = @ + 1]
  <2> DEFINE source == pending.result[pending.next]
             place == IF Result[F] = "cell" THEN AbiValue ELSE Outbox[pending.next]
             cellOf == <<place[1] + FrameChunks(F), place[2]>>
             cleared == IF source \notin Globals THEN source
                        ELSE IF Result[F] = "cell" THEN AbiValue ELSE <<0, Restore>>
             c == Back(ctx, source)
             written == [l \in {cellOf, cleared} |-> IF l = cellOf THEN Read(c, source) ELSE 0]
  <2>1. /\ mode = "deliver" /\ mode' = mode /\ UNCHANGED <<head, code, frames>>
        /\ pending.next <= ResultLength(F) /\ WriteAll(c, written)
        /\ pending' = [pending EXCEPT !.next = @ + 1]
    BY Zenon DEF DeliverCell
  <2>2. c = ctx /\ source = src /\ cellOf = dst /\ cleared = spent
    BY BackHome
  <2>3. written = w
    BY <2>2
  <2> HIDE DEF c, source, written, cellOf, w, dst, cleared
  <2> QED
    BY <2>1, <2>2, <2>3
<1>2. /\ i \in Nat \ {0} /\ DOMAIN pending = {"kind", "result", "next", "stack", "globals"}
  BY <1>1 DEF Inv, PendingOK
<1>3. src \in Locations(F)
  BY <1>1, <1>2, ResultPlace
<1>4. Read(ctx, src) = HeldAt(src)
  <2>1. ResultLength(F) \in Nat
    BY <1>1, CallerFrame, ResultAssumption DEF ResultLength
  <2>2. i \in pending.next .. ResultLength(F)
    BY <1>1, <1>2, <2>1
  <2> QED
    BY <1>1, <2>2 DEF ReturnInTransit
<1>5. DeliveryStored(w, src, dst, spent)
  <2> HIDE DEF dst
  <2> QED
    BY <1>1, <1>4 DEF DeliveryStored
<1>6. /\ pending'.next = i + 1 /\ pending'.result = pending.result
      /\ pending'.stack = pending.stack /\ pending'.globals = pending.globals
      /\ DOMAIN pending' = DOMAIN pending
  BY <1>1, <1>2
<1>7. pending' # Idle
  <2>1. "next" \in DOMAIN pending' /\ "next" \notin DOMAIN Idle
    BY <1>2, <1>6 DEF Idle
  <2> QED
    BY <2>1
<1>8. ctx' = ctx
  BY <1>1, ZenonT(60) DEF WriteAll
<1> HIDE DEF w
<1> QED
  BY <1>1, <1>2, <1>3, <1>5, <1>6, <1>7, <1>8

(* Delivering a cell of the result is invisible to the VM. *)
LEMMA DeliveryMaps ==
    ASSUME Inv, TransitInv, DeliverCell
    PROVE  UNCHANGED VM!vars /\ TransitInv'
<1>0. PICK i, src, n, slot : /\ i = pending.next /\ src = pending.result[i] /\ n = Len(frames)
                             /\ slot = IF Result[F] = "cell" THEN AbiValue ELSE Outbox[i]
  OBVIOUS
<1>a. PICK spent, dst, m : /\ spent = IF src \notin Globals THEN src
                                      ELSE IF Result[F] = "cell" THEN AbiValue
                                      ELSE <<0, Restore>>
                           /\ dst = <<slot[1] + FrameChunks(F), slot[2]>>
                           /\ m = n - 1
  OBVIOUS
<1>b. ReturnInTransit
  BY DEF TransitInv
<1>1. /\ mode = "deliver" /\ mode' = "deliver" /\ UNCHANGED <<head, code, frames>> /\ ctx' = ctx
      /\ i \in Nat \ {0} /\ i <= ResultLength(F) /\ src \in Locations(F)
  BY <1>0, <1>a, <1>b, DeliveryEffect
<1>c. PICK w : DeliveryStored(w, src, dst, spent)
  BY <1>0, <1>a, <1>b, DeliveryEffect
<1>2. /\ WriteAll(ctx, w) /\ DOMAIN w = {dst, spent} /\ w[dst] = HeldAt(src)
  BY <1>c DEF DeliveryStored
<1>3. /\ pending'.next = i + 1 /\ pending'.result = pending.result
      /\ pending'.stack = pending.stack /\ pending'.globals = pending.globals
      /\ pending' # Idle
  BY <1>0, <1>a, <1>b, DeliveryEffect
<1>4. /\ ctx \in Nat /\ n \in Nat /\ n >= 2 /\ m \in 1 .. n /\ m = n - 1 /\ F' = F
      /\ frames[n].ctx = ctx /\ F = frames[n].fn /\ F \in Functions
      /\ frames[m].ctx = ctx - FrameChunks(F) /\ frames[m].fn \in Functions
      /\ frames[m].ctx \in 1 .. ctx
  BY <1>0, <1>a, <1>1, TopFrame, CallerFrame DEF Inv, Types, F
<1>5. /\ BodyChunks[F] \in Nat /\ FrameChunks(F) = BodyChunks[F] + 1
      /\ Storage[F] \subseteq (1 .. BodyChunks[F]) \X Lanes
      /\ BodyChunks[frames[m].fn] \in Nat /\ FrameChunks(frames[m].fn) = BodyChunks[frames[m].fn] + 1
      /\ Storage[frames[m].fn] \subseteq (1 .. BodyChunks[frames[m].fn]) \X Lanes
      /\ Globals \cap (Int \X Lanes) = {} /\ AbiFields \subseteq Lanes
  BY <1>4, LayoutAssumption, Constants
<1>6. /\ slot \in Nat \X Lanes /\ slot[1] <= BodyChunks[frames[m].fn]
      /\ \/ /\ Result[F] = "cell" /\ ResultLength(F) = 1 /\ i = 1 /\ slot = AbiValue
         \/ /\ Result[F] = "aggregate" /\ ResultLength(F) = ResultCells[F]
            /\ slot = Outbox[i] /\ slot \in Storage[frames[m].fn] /\ slot[1] >= 1
            /\ \A j \in 1 .. ResultCells[F] : /\ pending.result[j] \in Storage[F] \cup Globals
                                              /\ pending.result[j] = pending.result[i] => j = i
                                              /\ Outbox[j] = Outbox[i] => j = i
  BY <1>0, <1>a, <1>1, ResultSlot
<1>7. /\ HeldShape /\ pending.globals = globals
  BY <1>1, <1>b DEF ReturnInTransit, HeldShape
<1>8. /\ dst \in Nat \X Lanes /\ dst[1] = slot[1] + FrameChunks(F) /\ dst[2] = slot[2]
      /\ dst[1] > BodyChunks[F]
  BY <1>a, <1>5, <1>6
<1>9. /\ spent \in Nat \X Lanes /\ spent[1] <= BodyChunks[F] /\ spent \notin Globals
      /\ spent \in {src, AbiValue, <<0, Restore>>}
      /\ spent # src => src \in Globals
      /\ spent[1] = 0 => spent[2] \in {Value, Restore}
  <2>1. spent \in Nat \X Lanes /\ spent[1] <= BodyChunks[F] /\ (spent[1] = 0 => spent[2] \in {Value, Restore})
    <3>1. CASE spent = src
      <4>1. src \notin Globals \/ src \in Int \X Lanes
        BY <1>a, <1>5, <3>1 DEF AbiValue, AbiFields
      <4>2. CASE src = AbiValue
        BY <1>5, <3>1, <4>2 DEF AbiValue, AbiFields
      <4>3. CASE src \in Nat \X Lanes /\ src[1] >= 1 /\ src[1] <= BodyChunks[F]
        BY <3>1, <4>3
      <4> QED
        BY <1>1, <4>1, <4>2, <4>3, LocationPlaces
    <3>2. CASE spent \in {AbiValue, <<0, Restore>>}
      BY <1>5, <3>2 DEF AbiValue, AbiFields
    <3> QED
      BY <1>a, <3>1, <3>2
  <2> QED
    BY <1>a, <1>5, <2>1
<1>10. dst # spent /\ dst \notin Globals
  BY <1>5, <1>8, <1>9
<1>11. globals' = globals
  BY <1>2, <1>9, <1>10 DEF WriteAll, Inv, Types
<1>12. \A l : HeldAt(l)' = HeldAt(l)
  BY <1>1, <1>3 DEF HeldAt, Held
<1>13. ASSUME NEW l \in ContentOf(n)
       PROVE  /\ l \in Nat \X Lanes /\ l # dst
              /\ l # spent => cell'[At(ctx, l)] = cell[At(ctx, l)]
  <2>1. l \in Nat \X Lanes /\ l[1] <= BodyChunks[F] /\ At(ctx, l) \in Cells
    BY <1>0, <1>4, ContentPlace
  <2>2. l # dst
    BY <1>5, <1>8, <2>1
  <2> QED
    BY <1>2, <1>4, <2>1, <2>2, WrittenAt
<1>14. ASSUME NEW l \in ContentOf(m)
       PROVE  /\ l = slot => cell'[At(frames[m].ctx, l)] = HeldAt(src)
              /\ l # slot => cell'[At(frames[m].ctx, l)] = cell[At(frames[m].ctx, l)]
  <2> DEFINE r == <<l[1] + FrameChunks(F), l[2]>>
  <2>1. l \in Nat \X Lanes /\ At(frames[m].ctx, l) \in Cells
    BY <1>0, <1>4, ContentPlace
  <2>2. At(ctx, r) = At(frames[m].ctx, l)
    BY <1>4, <1>5, <2>1 DEF At
  <2>3. r \in Int \X Lanes /\ r # spent
    BY <1>5, <1>9, <2>1
  <2>4. r = dst <=> l = slot
    BY <1>a, <1>5, <1>6, <2>1
  <2>5. cell'[At(ctx, r)] = IF r \in DOMAIN w THEN w[r] ELSE cell[At(ctx, r)]
    BY <1>2, <1>4, <2>1, <2>2, <2>3, WrittenAt
  <2> HIDE DEF r
  <2> QED
    BY <1>2, <2>2, <2>3, <2>4, <2>5
<1>15. ASSUME NEW k \in 1 .. m - 1 PROVE FrameAt(k)' = FrameAt(k)
  <2>1. /\ k \in 1 .. Len(frames) /\ frames[k].ctx \in 1 .. ctx
        /\ frames[k].ctx + FrameChunks(frames[m].fn) <= frames[m].ctx
    BY <1>0, <1>4, TopFrame, SMTT(30) DEF Inv, FramesApart
  <2>2. ASSUME NEW l \in DOMAIN w, l \notin Globals
        PROVE  l \in Int \X Lanes /\ l[1] < ctx - frames[k].ctx
    <3> DEFINE low == frames[k].ctx
               mid == frames[m].ctx
               b == BodyChunks[frames[m].fn]
    <3>1. /\ low \in Nat /\ mid \in Nat /\ b \in Nat /\ BodyChunks[F] \in Nat
          /\ low + (b + 1) <= mid /\ mid = ctx - (BodyChunks[F] + 1) /\ slot[1] <= b
      BY <1>4, <1>5, <1>6, <2>1, SMTT(30)
    <3> HIDE DEF low, mid, b
    <3>2. CASE l = dst
      <4>1. l \in Nat \X Lanes /\ l[1] = slot[1] + (BodyChunks[F] + 1) /\ slot[1] \in Nat
        BY <1>5, <1>6, <1>8, <3>2
      <4>2. l[1] < ctx - low
        BY <1>4, <3>1, <4>1
      <4> QED
        BY <4>1, <4>2 DEF low
    <3>3. CASE l = spent
      <4>1. l \in Nat \X Lanes /\ l[1] <= BodyChunks[F]
        BY <1>9, <3>3
      <4>2. l[1] < ctx - low
        BY <1>4, <3>1, <4>1
      <4> QED
        BY <4>1, <4>2 DEF low
    <3> QED
      BY <1>2, <3>2, <3>3
  <2> QED
    BY <1>1, <1>2, <2>1, <2>2, LowerFrameKept
<1>16. FrameAt(n)'.ret = FrameAt(n).ret /\ FrameAt(m)'.ret = FrameAt(m).ret
  <2>1. /\ At(ctx, <<0, ReturnPc>>) = <<ctx, ReturnPc>>
        /\ At(frames[m].ctx, <<0, ReturnPc>>) = <<frames[m].ctx, ReturnPc>>
        /\ <<0, ReturnPc>> \in ContentOf(n) /\ <<0, ReturnPc>> \in ContentOf(m)
    BY <1>4 DEF At, ContentOf
  <2>2. <<0, ReturnPc>> # spent
    BY <1>9 DEF ReturnPc, Restore, Value
  <2>3. <<0, ReturnPc>> # slot
    BY <1>6 DEF ReturnPc, AbiValue, Value
  <2>4. /\ cell'[<<ctx, ReturnPc>>] = cell[<<ctx, ReturnPc>>]
        /\ cell'[<<frames[m].ctx, ReturnPc>>] = cell[<<frames[m].ctx, ReturnPc>>]
    BY <1>13, <1>14, <2>1, <2>2, <2>3
  <2> QED
    BY <1>1, <1>4, <2>4 DEF FrameAt
<1>17. HeldShape'
  <2>1. \A k \in 1 .. n : FrameAt(k)'.ret = FrameAt(k).ret
    BY <1>4, <1>15, <1>16
  <2> QED
    BY <1>0, <1>1, <1>3, <1>7, <1>11, <2>1 DEF HeldShape
<1>18. UNCHANGED VM!vars
  <2>1. InTransit'
    BY <1>3 DEF InTransit, Idle
  <2>2. Inv'
    BY DeliveryKeepsInv
  <2>3. vmRunning' = TRUE
    BY <1>1, <2>2 DEF vmRunning, Inv, CurrentContext
  <2> QED
    BY <1>1, <1>3, <2>1, <2>3, MappedTransit DEF VM!vars, vmStack, vmGlobals, vmCurrent
<1>19. ASSUME NEW j \in i + 1 .. ResultLength(F)
       PROVE  Read(ctx, pending.result[j])' = HeldAt(pending.result[j])
  <2>1. /\ Result[F] = "aggregate" /\ j \in 1 .. ResultCells[F] /\ j # i
        /\ j \in i .. ResultLength(F)
    BY <1>1, <1>6
  <2>2. /\ pending.result[j] \in Storage[F] \cup Globals /\ pending.result[j] # src
    BY <1>0, <1>6, <2>1
  <2>3. Read(ctx, pending.result[j]) = HeldAt(pending.result[j])
    BY <1>0, <1>1, <1>b, <2>1 DEF ReturnInTransit
  <2>4. CASE pending.result[j] \in Globals
    BY <1>1, <1>3, <1>11, <2>3, <2>4 DEF Read
  <2>5. CASE pending.result[j] \notin Globals
    <3>1. pending.result[j] \in ContentOf(n) /\ pending.result[j] \in Storage[F]
      BY <1>4, <2>2, <2>5 DEF ContentOf
    <3>2. pending.result[j] # spent
      <4>1. pending.result[j][1] >= 1
        BY <1>5, <3>1
      <4>2. spent # src => spent[1] = 0
        BY <1>9 DEF AbiValue
      <4> QED
        BY <2>2, <4>1, <4>2
    <3>3. cell'[At(ctx, pending.result[j])] = cell[At(ctx, pending.result[j])]
      BY <1>13, <3>1, <3>2
    <3> QED
      BY <1>1, <1>3, <2>3, <2>5, <3>3 DEF Read
  <2> QED
    BY <2>4, <2>5
<1>20. ASSUME NEW s \in Storage[frames[m].fn]
       PROVE  cell'[At(frames[m].ctx, s)] =
                  IF Result[F] = "aggregate" /\ Arrived(s)' # {}
                  THEN HeldAt(pending.result[CHOOSE j \in Arrived(s)' : TRUE])
                  ELSE pending.stack[m].store[s]
  <2>1. cell[At(frames[m].ctx, s)] =
            IF Result[F] = "aggregate" /\ Arrived(s) # {}
            THEN HeldAt(pending.result[CHOOSE j \in Arrived(s) : TRUE])
            ELSE pending.stack[m].store[s]
    BY <1>0, <1>1, <1>4, <1>b DEF ReturnInTransit
  <2>2. s \in ContentOf(m) /\ s[1] >= 1
    BY <1>5 DEF ContentOf
  <2>3. /\ Arrived(s) = {j \in 1 .. i - 1 : Outbox[j] = s}
        /\ Arrived(s)' = {j \in 1 .. i : Outbox[j] = s}
    <3>1. pending'.next - 1 = i
      BY <1>1, <1>3
    <3> QED
      BY <1>0, <3>1 DEF Arrived
  <2>4. CASE Result[F] = "cell"
    <3>1. s # slot
      BY <1>6, <2>2, <2>4 DEF AbiValue
    <3> QED
      BY <1>14, <2>1, <2>2, <2>4, <3>1
  <2>5. CASE Result[F] = "aggregate" /\ s = slot
    <3>1. ResultCells[F] \in Nat /\ i \in 1 .. ResultCells[F]
      BY <1>1, <1>4, <1>6, <2>5, ResultAssumption
    <3>2. \A j \in 1 .. i : Outbox[j] = s <=> j = i
      BY <1>1, <1>6, <2>5, <3>1
    <3>3. Arrived(s)' = {i}
      BY <1>1, <2>3, <3>2
    <3> QED
      BY <1>0, <1>14, <2>2, <2>5, <3>3
  <2>6. CASE Result[F] = "aggregate" /\ s # slot
    <3>1. Arrived(s)' = Arrived(s)
      BY <1>1, <1>6, <2>3, <2>6
    <3> QED
      BY <1>14, <2>1, <2>2, <2>6, <3>1
  <2> QED
    BY <1>6, <2>4, <2>5, <2>6
<1>21. cell'[<<frames[m].ctx, Value>>] =
           IF Result[F] = "cell" /\ pending'.next > 1
           THEN HeldAt(pending.result[1]) ELSE pending.stack[m].value
  <2>1. AbiValue \in ContentOf(m) /\ At(frames[m].ctx, AbiValue) = <<frames[m].ctx, Value>>
    BY <1>4 DEF ContentOf, At, AbiValue
  <2>2. CASE Result[F] = "cell"
    BY <1>0, <1>3, <1>6, <1>14, <2>1, <2>2
  <2>3. CASE Result[F] = "aggregate"
    <3>1. slot # AbiValue
      BY <1>6, <2>3 DEF AbiValue
    <3>2. cell[<<frames[m].ctx, Value>>] = pending.stack[m].value
      BY <1>0, <1>1, <1>4, <1>b, <2>3 DEF ReturnInTransit
    <3> QED
      BY <1>14, <2>1, <2>3, <3>1, <3>2
  <2> QED
    BY <1>6, <2>2, <2>3
<1>22. ReturnInTransit'
  <2>1. /\ Len(frames') - 1 = m /\ frames' = frames /\ ctx' = ctx /\ F' = F
        /\ pending'.next = i + 1 /\ pending'.result = pending.result
        /\ pending'.stack = pending.stack
    BY <1>0, <1>1, <1>3, <1>4
  <2>2. i + 1 <= ResultLength(F) + 1
    <3>1. ResultLength(F) \in Nat
      BY <1>4, ResultAssumption DEF ResultLength
    <3> QED
      BY <1>1, <3>1
  <2>3. \A k \in 1 .. m - 1 : pending'.stack[k] = FrameAt(k)'
    BY <1>0, <1>1, <1>3, <1>4, <1>15, <1>b DEF ReturnInTransit
  <2>4. (pending.next <= ResultLength(F) + 1)'
    BY <2>1, <2>2
  <2>5. (\A j \in pending.next .. ResultLength(F) :
            Read(ctx, pending.result[j]) = HeldAt(pending.result[j]))'
    BY <1>12, <1>19, <2>1
  <2>6. (\A s \in Storage[frames[Len(frames) - 1].fn] :
            cell[At(frames[Len(frames) - 1].ctx, s)] =
                IF Result[F] = "aggregate" /\ Arrived(s) # {}
                THEN HeldAt(pending.result[CHOOSE j \in Arrived(s) : TRUE])
                ELSE pending.stack[Len(frames) - 1].store[s])'
    BY <1>12, <1>20, <2>1
  <2>7. (cell[<<frames[Len(frames) - 1].ctx, Value>>] =
            IF Result[F] = "cell" /\ pending.next > 1
            THEN HeldAt(pending.result[1]) ELSE pending.stack[Len(frames) - 1].value)'
    BY <1>12, <1>21, <2>1
  <2>8. (\A k \in 1 .. Len(frames) - 1 - 1 : pending.stack[k] = FrameAt(k))'
    BY <2>1, <2>3
  <2> QED
    BY <1>17, <2>4, <2>5, <2>6, <2>7, <2>8 DEF ReturnInTransit
<1> QED
  BY <1>1, <1>18, <1>22 DEF TransitInv, CallInTransit, NothingPending

(* What leaving a callee, the n-th frame, does to the frames below it: the *)
(* m-th at context c becomes the current one.                              *)
CalleeLeft(n, m, c) ==
    /\ mode = "deliver" /\ mode' = "cycle" /\ ctx' = c /\ pending' = Idle
    /\ UNCHANGED <<globals, code>>
    /\ pending.next > ResultLength(F)
    /\ n \in Nat /\ m \in Nat /\ m >= 1
    /\ Len(frames') = m
    /\ \A k \in 1 .. m : frames'[k] = frames[k]
    /\ \A l \in ContentOf(m) :
          cell'[At(c, l)] = IF l = AbiValue /\ Result[F] # "cell" THEN 0 ELSE cell[At(c, l)]
    /\ cell'[<<c, NextPc>>] = cell[<<ctx, ReturnPc>>]
    /\ cell'[<<c, Active>>] = 1

LEMMA LeaveEffect ==
    ASSUME Inv, TransitInv, LeaveCallee, NEW n, n = Len(frames), NEW m, m = n - 1,
           NEW c, c = frames[m].ctx
    PROVE  CalleeLeft(n, m, c) /\ \A k \in 1 .. m - 1 : FrameAt(k)' = FrameAt(k)
<1>1. /\ mode = "deliver" /\ mode' = "cycle" /\ ctx' = ctx - FrameChunks(F)
      /\ pending' = Idle /\ pending.next > ResultLength(F)
      /\ cell' = [x \in Cells |->
                IF x[1] \in (ctx - FrameChunks(F)) + 1 .. ctx THEN 0
                ELSE IF x = <<ctx - FrameChunks(F), NextPc>> THEN cell[<<ctx, ReturnPc>>]
                ELSE IF x = <<ctx - FrameChunks(F), Value>> /\ Result[F] # "cell" THEN 0
                ELSE cell[x]]
      /\ frames' = SubSeq(frames, 1, n - 1)
      /\ UNCHANGED <<globals, code>>
  BY DEF LeaveCallee, CallerDelta, Wiped
<1>2. /\ n \in Nat /\ m \in Nat /\ m >= 1 /\ m \in 1 .. n /\ F \in Functions
      /\ c = ctx - FrameChunks(F) /\ frames[m].fn \in Functions /\ c \in 1 .. ctx
      /\ ctx \in Nat
  BY <1>1, CallerFrame, TopFrame DEF Inv, Types
<1>3. /\ FrameChunks(F) \in Nat /\ FrameChunks(F) >= 1 /\ c < ctx
      /\ BodyChunks[frames[m].fn] \in Nat /\ AbiFields \subseteq Lanes
      /\ FrameChunks(frames[m].fn) = BodyChunks[frames[m].fn] + 1
  BY <1>2, Constants, LayoutAssumption
<1>4. ASSUME NEW x \in Cells, x[1] \in Int, x[1] <= c
      PROVE  cell'[x] = IF x = <<c, NextPc>> THEN cell[<<ctx, ReturnPc>>]
                        ELSE IF x = <<c, Value>> /\ Result[F] # "cell" THEN 0 ELSE cell[x]
  <2>1. x[1] \notin c + 1 .. ctx
    BY <1>2, <1>4
  <2> QED
    BY <1>1, <1>2, <2>1
<1>5. Len(frames') = m /\ \A k \in 1 .. m : frames'[k] = frames[k]
  <2>1. \A k \in 1 .. m : frames[k] \in [fn : Functions, ctx : Nat]
    <3>1. \A k \in 1 .. m : k \in 1 .. n
      BY <1>2
    <3> QED
      BY <3>1, ElementOfSeq DEF Inv, Types
  <2>2. 1 \in Int /\ m \in Int /\ 1 <= m /\ m - 1 + 1 = m
    BY <1>2
  <2>3. /\ Len(SubSeq(frames, 1, m)) = m - 1 + 1
        /\ \A k \in 1 .. m - 1 + 1 : SubSeq(frames, 1, m)[k] = frames[1 + k - 1]
    BY <2>1, <2>2, SubSeqProperties
  <2> QED
    BY <1>1, <1>2, <2>2, <2>3
<1>6. ASSUME NEW k \in 1 .. m - 1 PROVE FrameAt(k)' = FrameAt(k)
  <2>0. k \in 1 .. n /\ k \in 1 .. m /\ k < m
    BY <1>2
  <2>1. /\ frames'[k] = frames[k] /\ frames[k].ctx \in 1 .. ctx
        /\ frames[k].ctx + FrameChunks(frames[m].fn) <= c
    BY <1>2, <1>5, <2>0, TopFrame DEF Inv, FramesApart
  <2>2. frames[k].ctx < c /\ frames[k].ctx \in Nat
    <3> DEFINE low == frames[k].ctx
               b == BodyChunks[frames[m].fn]
    <3>1. low + (b + 1) <= c /\ b \in Nat /\ low \in 1 .. ctx
      BY <1>3, <2>1
    <3> HIDE DEF low, b
    <3>2. low < c /\ low \in Nat
      BY <1>2, <3>1
    <3> QED
      BY <3>2 DEF low
  <2>3. ASSUME NEW l \in ContentOf(k)
        PROVE  cell'[At(frames[k].ctx, l)] = cell[At(frames[k].ctx, l)]
    <3> DEFINE x == At(frames[k].ctx, l)
    <3>1. x \in Cells /\ x[1] \in 1 .. frames[k].ctx
      BY <2>0, ContentPlace
    <3> HIDE DEF x
    <3> DEFINE low == frames[k].ctx
               b == x[1]
    <3>2. low < c /\ low \in Nat /\ b \in 1 .. low /\ c \in Int
      BY <1>2, <2>2, <3>1
    <3> HIDE DEF low, b
    <3>3. b \in Int /\ b <= c /\ b # c
      BY <3>2
    <3>4. x[1] \in Int /\ x[1] <= c /\ x # <<c, NextPc>> /\ x # <<c, Value>>
      BY <3>3 DEF b
    <3>5. cell'[x] = cell[x]
      BY <1>4, <3>1, <3>4
    <3> QED
      BY <3>5 DEF x
  <2> QED
    BY <2>1, <2>3, SameFrame
<1>7. ASSUME NEW l \in ContentOf(m)
      PROVE  cell'[At(c, l)] = IF l = AbiValue /\ Result[F] # "cell" THEN 0
                               ELSE cell[At(c, l)]
  <2>1. /\ l \in Nat \X Lanes /\ (l[1] = 0 => l[2] \in {Value, ReturnPc})
        /\ At(c, l) \in Cells /\ At(c, l) = <<c - l[1], l[2]>>
    BY <1>2, ContentPlace DEF At
  <2>2. At(c, l)[1] \in Int /\ At(c, l)[1] <= c
    BY <1>2, <2>1
  <2>3. At(c, l) # <<c, NextPc>>
    <3> SUFFICES ASSUME At(c, l) = <<c, NextPc>> PROVE FALSE
      OBVIOUS
    <3>1. c - l[1] = c /\ l[2] = NextPc
      BY <2>1
    <3>2. l[1] = 0
      BY <1>2, <2>1, <3>1
    <3> QED
      BY <2>1, <3>1, <3>2 DEF NextPc, Value, ReturnPc
  <2>4. At(c, l) = <<c, Value>> <=> l = AbiValue
    BY <1>2, <2>1 DEF AbiValue
  <2> QED
    BY <1>4, <2>1, <2>2, <2>3, <2>4
<1>8. cell'[<<c, NextPc>>] = cell[<<ctx, ReturnPc>>] /\ cell'[<<c, Active>>] = 1
  <2>1. <<c, NextPc>> \in Cells /\ <<c, Active>> \in Cells
    <3>1. ctx + Group <= Capacity /\ Group \in Nat /\ Group >= 1 /\ Capacity \in Nat
      BY Constants DEF Inv, ScanRoom
    <3>2. c \in Chunks
      BY <1>2, <3>1 DEF Chunks
    <3> QED
      BY <1>3, <3>2 DEF Cells, AbiFields
  <2>2. <<c, Active>> # <<c, NextPc>> /\ <<c, Active>> # <<c, Value>>
    BY DEF Active, NextPc, Value
  <2>3. cell[<<c, Active>>] = 1
    <3>1. m \in 1 .. Len(frames) - 1
      BY <1>2
    <3> QED
      BY <3>1 DEF Inv, SuspendedFramesWait
  <2>4. \A q : <<c, q>>[1] = c
    OBVIOUS
  <2>5. c \in Int /\ c <= c
    BY <1>2
  <2> QED
    BY <1>4, <2>1, <2>2, <2>3, <2>4, <2>5
<1> QED
  BY <1>1, <1>2, <1>5, <1>6, <1>7, <1>8 DEF CalleeLeft

(* The caller wakes up with its frame as the VM delivers the result. *)
LEMMA DeliveredFrame ==
    ASSUME Inv, TransitInv, LeaveCallee, NEW m, m = Len(frames) - 1
    PROVE  VM!Delivered(pending.stack[m], F, pending.result) = FrameAt(m)'
<1>0. PICK c, g, held, result : /\ c = frames[m].ctx /\ g = frames[m].fn
                                /\ held = pending.stack[m] /\ result = pending.result
  OBVIOUS
<1>1. /\ mode = "deliver" /\ m \in Nat /\ m >= 1 /\ frames'[m] = frames[m]
      /\ m \in 1 .. m /\ pending.next > ResultLength(F)
      /\ \A l \in ContentOf(m) :
            cell'[At(c, l)] = IF l = AbiValue /\ Result[F] # "cell" THEN 0
                              ELSE cell[At(c, l)]
  <2>1. PICK n : n = Len(frames)
    OBVIOUS
  <2>2. /\ mode = "deliver" /\ n \in Nat /\ m \in Nat /\ m >= 1
        /\ pending.next > ResultLength(F)
        /\ \A k \in 1 .. m : frames'[k] = frames[k]
        /\ \A l \in ContentOf(m) :
              cell'[At(c, l)] = IF l = AbiValue /\ Result[F] # "cell" THEN 0
                                ELSE cell[At(c, l)]
    <3>1. m = n - 1
      BY <2>1
    <3>2. CalleeLeft(n, m, c)
      BY <1>0, <2>1, <3>1, LeaveEffect
    <3> QED
      BY <3>2 DEF CalleeLeft
  <2>3. m \in 1 .. m
    BY <2>2
  <2> QED
    BY <2>2, <2>3
<1>2. /\ ReturnInTransit /\ HeldShape
  BY <1>1 DEF TransitInv, ReturnInTransit
<1>3. /\ m \in 1 .. Len(frames) /\ F \in Functions /\ g \in Functions /\ c \in 1 .. ctx
  BY <1>0, <1>1, CallerFrame, TopFrame
<1>4. /\ BodyChunks[g] \in Nat /\ Storage[g] \subseteq (1 .. BodyChunks[g]) \X Lanes
      /\ Result[F] \in {"void", "cell", "aggregate"} /\ ResultCells[F] \in Nat
  BY <1>3, LayoutAssumption, ResultAssumption
<1>5. /\ pending.next = ResultLength(F) + 1
      /\ \A s \in Storage[g] :
            cell[At(c, s)] = IF Result[F] = "aggregate" /\ Arrived(s) # {}
                             THEN HeldAt(result[CHOOSE j \in Arrived(s) : TRUE])
                             ELSE held.store[s]
      /\ cell[<<c, Value>>] = IF Result[F] = "cell" /\ pending.next > 1
                              THEN HeldAt(result[1]) ELSE held.value
  <2>1. ResultLength(F) \in Nat /\ pending.next \in Nat
    BY <1>1, <1>4 DEF ResultLength, Inv, PendingOK
  <2>2. pending.next <= ResultLength(F) + 1
    BY <1>1, <1>2 DEF ReturnInTransit
  <2>3. pending.next = ResultLength(F) + 1
    BY <1>1, <2>1, <2>2
  <2> QED
    BY <1>0, <1>1, <1>2, <2>3 DEF ReturnInTransit
<1>6. \A l : VM!Read(l) = HeldAt(l)
  BY <1>1, <1>2, MappedHeld
<1>7. held = [fn |-> g, store |-> [s \in Storage[g] |-> held.store[s]],
              value |-> held.value, ret |-> FrameAt(m).ret]
  BY <1>0, <1>2, <1>3 DEF HeldShape
<1>8. /\ \A s \in Storage[g] : cell'[At(c, s)] = cell[At(c, s)]
      /\ cell'[<<c, Value>>] = IF Result[F] # "cell" THEN 0 ELSE cell[<<c, Value>>]
      /\ cell'[<<c, ReturnPc>>] = cell[<<c, ReturnPc>>]
  <2>1. \A s \in Storage[g] : s \in ContentOf(m) /\ s # AbiValue
    BY <1>0, <1>4 DEF ContentOf, AbiValue
  <2>2. /\ AbiValue \in ContentOf(m) /\ <<0, ReturnPc>> \in ContentOf(m)
        /\ <<0, ReturnPc>> # AbiValue
        /\ At(c, AbiValue) = <<c, Value>> /\ At(c, <<0, ReturnPc>>) = <<c, ReturnPc>>
    BY <1>3 DEF ContentOf, AbiValue, ReturnPc, Value, At
  <2> QED
    BY <1>1, <2>1, <2>2
<1>9. FrameAt(m)' = [fn |-> g, store |-> [s \in Storage[g] |-> cell[At(c, s)]],
                     value |-> IF Result[F] # "cell" THEN 0 ELSE cell[<<c, Value>>],
                     ret |-> FrameAt(m).ret]
  <2>1. FrameAt(m)' = [fn |-> g, store |-> [s \in Storage[g] |-> cell'[At(c, s)]],
                       value |-> cell'[<<c, Value>>],
                       ret |-> IF m = 1 THEN 0 ELSE cell'[<<c, ReturnPc>>]]
    BY <1>0, <1>1 DEF FrameAt
  <2>2. FrameAt(m).ret = IF m = 1 THEN 0 ELSE cell[<<c, ReturnPc>>]
    BY <1>0 DEF FrameAt
  <2>3. [s \in Storage[g] |-> cell'[At(c, s)]] = [s \in Storage[g] |-> cell[At(c, s)]]
    BY <1>8
  <2> QED
    BY <1>8, <2>1, <2>2, <2>3
<1>10. CASE Result[F] = "void"
  <2>1. [s \in Storage[g] |-> cell[At(c, s)]] = [s \in Storage[g] |-> held.store[s]]
    BY <1>5, <1>10
  <2>2. VM!Delivered(held, F, result) = [held EXCEPT !.value = 0]
    BY <1>10 DEF VM!Delivered
  <2>3. [held EXCEPT !.value = 0] = [fn |-> g, store |-> [s \in Storage[g] |-> held.store[s]],
                                     value |-> 0, ret |-> FrameAt(m).ret]
    BY <1>7
  <2> QED
    BY <1>0, <1>9, <1>10, <2>1, <2>2, <2>3
<1>11. CASE Result[F] = "cell"
  <2>1. [s \in Storage[g] |-> cell[At(c, s)]] = [s \in Storage[g] |-> held.store[s]]
    BY <1>5, <1>11
  <2>2. cell[<<c, Value>>] = VM!Read(result[1])
    BY <1>5, <1>6, <1>11 DEF ResultLength
  <2>3. VM!Delivered(held, F, result) = [held EXCEPT !.value = VM!Read(result[1])]
    BY <1>11 DEF VM!Delivered
  <2>4. ASSUME NEW v
        PROVE  [held EXCEPT !.value = v] =
                   [fn |-> g, store |-> [s \in Storage[g] |-> held.store[s]],
                    value |-> v, ret |-> FrameAt(m).ret]
    BY <1>7
  <2> QED
    BY <1>0, <1>9, <1>11, <2>1, <2>2, <2>3, <2>4
<1>12. CASE Result[F] = "aggregate"
  <2> DEFINE new == [s \in DOMAIN held.store |->
                        IF \E i \in DOMAIN result : Outbox[i] = s
                        THEN VM!Read(result[CHOOSE i \in DOMAIN result : Outbox[i] = s])
                        ELSE held.store[s]]
  <2>1. DOMAIN result = 1 .. ResultCells[F] /\ pending.next - 1 = ResultCells[F]
    <3>1. result \in Results(F)
      BY <1>0, <1>1 DEF Inv, PendingOK
    <3> QED
      BY <1>4, <1>5, <1>12, <3>1 DEF Results, ResultLength
  <2>2. ASSUME NEW s \in Storage[g]
        PROVE  cell[At(c, s)] =
                   IF \E i \in DOMAIN result : Outbox[i] = s
                   THEN VM!Read(result[CHOOSE i \in DOMAIN result : Outbox[i] = s])
                   ELSE held.store[s]
    <3>1. Arrived(s) = {i \in DOMAIN result : Outbox[i] = s}
      BY <2>1 DEF Arrived
    <3>2. CASE Arrived(s) = {}
      BY <1>5, <3>1, <3>2
    <3>3. CASE Arrived(s) # {}
      <4>1. PICK i \in DOMAIN result : Outbox[i] = s
        BY <3>1, <3>3
      <4>2. \A j \in DOMAIN result : Outbox[j] = s => j = i
        <5>1. \A j \in DOMAIN result : j \in 1 .. Len(Outbox)
          <6>1. MayCall(g, F)
            BY <1>0, <1>1, CallerFrame
          <6>2. ResultCells[F] <= OutboxCells[g] /\ OutboxCells[g] \in 0 .. Len(Outbox)
            BY <1>3, <1>12, <6>1, ResultAssumption DEF MayCall
          <6>3. OutboxCells[g] \in Nat /\ OutboxCells[g] <= Len(Outbox)
            BY <6>2
          <6> QED
            BY <1>4, <2>1, <6>2, <6>3
        <5> QED
          BY <4>1, <5>1, ResultAssumption
      <4>3. Arrived(s) = {i}
        BY <3>1, <4>1, <4>2
      <4>4. (CHOOSE j \in Arrived(s) : TRUE) = i
        BY <4>3
      <4>5. (CHOOSE j \in DOMAIN result : Outbox[j] = s) = i
        BY <4>1, <4>2
      <4> QED
        BY <1>5, <1>6, <1>12, <3>3, <4>1, <4>4, <4>5, ZenonT(60)
    <3> QED
      BY <3>2, <3>3
  <2>3. DOMAIN held.store = Storage[g]
    BY <1>7
  <2>4. new = [s \in Storage[g] |-> cell[At(c, s)]]
    BY <2>2, <2>3
  <2>a. VM!Delivered(held, F, result) = [held EXCEPT !.store = new, !.value = 0]
    BY <1>12 DEF VM!Delivered
  <2> HIDE DEF new
  <2>b. PICK half : half = [held EXCEPT !.store = new]
    OBVIOUS
  <2>5. VM!Delivered(held, F, result) = [half EXCEPT !.value = 0]
    BY <2>a, <2>b
  <2>6. half = [fn |-> g, store |-> new, value |-> held.value, ret |-> FrameAt(m).ret]
    BY <1>7, <2>b
  <2>7. [half EXCEPT !.value = 0] =
            [fn |-> g, store |-> new, value |-> 0, ret |-> FrameAt(m).ret]
    BY <2>6
  <2> QED
    BY <1>0, <1>9, <1>12, <2>4, <2>5, <2>7
<1> QED
  BY <1>0, <1>4, <1>10, <1>11, <1>12

LEMMA PrefixOf ==
    ASSUME NEW s, NEW m \in Nat, m >= 1
    PROVE  SubSeq(s, 1, m) = [k \in 1 .. m |-> s[k]]
<1> DEFINE S == {s[k] : k \in 1 .. m}
<1>1. \A k \in 1 .. m : s[k] \in S
  OBVIOUS
<1> HIDE DEF S
<1>2. m - 1 + 1 = m /\ \A k \in 1 .. m : 1 + k - 1 = k
  OBVIOUS
<1>3. /\ SubSeq(s, 1, m) \in Seq(S) /\ Len(SubSeq(s, 1, m)) = m
      /\ \A k \in 1 .. m : SubSeq(s, 1, m)[k] = s[k]
  BY <1>1, <1>2, SubSeqProperties
<1>4. DOMAIN SubSeq(s, 1, m) = 1 .. m
  BY <1>3
<1>5. SubSeq(s, 1, m) = [k \in DOMAIN SubSeq(s, 1, m) |-> SubSeq(s, 1, m)[k]]
  BY <1>3
<1> QED
  BY <1>3, <1>4, <1>5

(* The last step of a return is the return of the VM. *)
LEMMA LeaveMaps ==
    ASSUME Inv, TransitInv, LeaveCallee
    PROVE  VM!Next /\ TransitInv'
<1>0. PICK n, result : n = Len(frames) /\ result = pending.result
  OBVIOUS
<1>a. PICK m, c : m = n - 1 /\ c = frames[m].ctx
  OBVIOUS
<1>1. CalleeLeft(n, m, c) /\ \A k \in 1 .. m - 1 : FrameAt(k)' = FrameAt(k)
  BY <1>0, <1>a, LeaveEffect
<1>2. /\ mode = "deliver" /\ mode' = "cycle" /\ ctx' = c /\ pending' = Idle
      /\ globals' = globals /\ n \in Nat /\ m \in Nat /\ m >= 1 /\ n > 1
      /\ Len(frames') = m
      /\ cell'[<<c, NextPc>>] = cell[<<ctx, ReturnPc>>] /\ cell'[<<c, Active>>] = 1
  BY <1>a, <1>1 DEF CalleeLeft
<1>3. /\ ReturnInTransit /\ HeldShape /\ pending.globals = globals
  BY <1>2 DEF TransitInv, ReturnInTransit, HeldShape
<1>4. /\ Len(pending.stack) = n /\ VM!Top = Held /\ VM!Fn = F
      /\ Held.ret = FrameAt(n).ret
  <2>1. Held = [fn |-> F, store |-> [s \in Storage[F] |-> Held.store[s]],
                value |-> Held.value, ret |-> FrameAt(n).ret]
    BY <1>0, <1>2, <1>3, MappedHeld
  <2>2. Held.ret = FrameAt(n).ret
    BY <2>1
  <2> QED
    BY <1>0, <1>2, <1>3, <2>2, MappedHeld
<1>5. VM!Top.ret = cell[<<ctx, ReturnPc>>]
  <2>1. frames[n].ctx = ctx /\ n # 1
    BY <1>0, <1>2, TopFrame
  <2> QED
    BY <1>4, <2>1 DEF FrameAt
<1>6. /\ vmStack = pending.stack /\ vmGlobals = globals /\ vmRunning = TRUE
  BY <1>2, <1>3, MappedTransit
<1>7. /\ vmStack' = StackOnTape' /\ vmGlobals' = globals /\ vmRunning' = TRUE
      /\ vmCurrent' = cell[<<ctx, ReturnPc>>]
  BY <1>2 DEF vmStack, vmGlobals, vmRunning, vmCurrent, InTransit
<1>8. StackOnTape' = [SubSeq(pending.stack, 1, m) EXCEPT
                          ![m] = VM!Delivered(@, F, result)]
  <2>1. SubSeq(pending.stack, 1, m) = [k \in 1 .. m |-> pending.stack[k]]
    BY <1>2, PrefixOf
  <2>2. FrameAt(m)' = VM!Delivered(pending.stack[m], F, result)
    BY <1>0, <1>a, DeliveredFrame
  <2>3. \A k \in 1 .. m - 1 : pending.stack[k] = FrameAt(k)'
    BY <1>0, <1>a, <1>1, <1>2, <1>3 DEF ReturnInTransit
  <2>4. StackOnTape' = [k \in 1 .. m |-> FrameAt(k)']
    BY <1>2 DEF StackOnTape, FrameAt
  <2> DEFINE new == VM!Delivered(pending.stack[m], F, result)
             S == SubSeq(pending.stack, 1, m)
  <2>5. [S EXCEPT ![m] = VM!Delivered(@, F, result)] = [S EXCEPT ![m] = new]
    BY <1>2, <2>1
  <2>6. FrameAt(m)' = new /\ S = [k \in 1 .. m |-> pending.stack[k]]
    BY <2>1, <2>2
  <2> HIDE DEF new, S
  <2>7. [S EXCEPT ![m] = new] = [k \in 1 .. m |-> FrameAt(k)']
    <3>1. \A k \in 1 .. m : [S EXCEPT ![m] = new][k] = FrameAt(k)'
      BY <1>2, <2>3, <2>6
    <3> QED
      BY <2>6, <3>1
  <2> QED
    BY <2>4, <2>5, <2>7 DEF S
<1>9. VM!Return(result)
  <2>1. Len(vmStack) > 1 /\ Len(vmStack) - 1 = m
    BY <1>a, <1>2, <1>4, <1>6
  <2> QED
    BY <1>4, <1>5, <1>6, <1>7, <1>8, <2>1 DEF VM!Return
<1>10. VM!ReturnStep
  <2>1. F # Main /\ result \in Results(F)
    BY <1>0, <1>2 DEF Inv, PendingOK
  <2> QED
    BY <1>4, <1>9, <2>1, SameProgram DEF VM!ReturnStep
<1> QED
  BY <1>2, <1>10, QuietTransit DEF VM!Next

-----------------------------------------------------------------------------
(* The tape that initialize_main leaves is the initial state of the VM. *)
LEMMA InitMaps ==
    ASSUME Init
    PROVE  VM!Init /\ TransitInv
<1>1. Inv
  BY InitInv
<1>2. /\ mode = "dispatch" /\ pending = Idle /\ globals = [g \in Globals |-> 0]
      /\ ctx = FrameChunks(Main)
      /\ frames = <<[fn |-> Main, ctx |-> ctx]>>
      /\ cell = [x \in Cells |-> IF x = <<ctx, Active>> THEN 1
                                 ELSE IF x = <<ctx, Pc>> THEN Entry[Main] ELSE 0]
  BY DEF Init
<1>3. /\ Len(frames) = 1 /\ frames[1].fn = Main /\ frames[1].ctx = ctx
      /\ ctx \in Nat /\ 1 \in 1 .. Len(frames)
  BY <1>1, <1>2 DEF Inv, Types
<1>4. \A l \in ContentOf(1) : cell[At(ctx, l)] = 0
  <2> SUFFICES ASSUME NEW l \in ContentOf(1) PROVE cell[At(ctx, l)] = 0
    OBVIOUS
  <2>1. /\ l \in Nat \X Lanes /\ At(ctx, l) \in Cells
        /\ l[1] = 0 => l[2] \in {Value, ReturnPc}
    BY <1>1, <1>3, ContentPlace
  <2>2. At(ctx, l) # <<ctx, Active>> /\ At(ctx, l) # <<ctx, Pc>>
    BY <1>3, <2>1 DEF At, Value, ReturnPc, Active, Pc
  <2> QED
    BY <1>2, <2>1, <2>2
<1>5. <<ctx, Active>> \in Cells /\ <<ctx, Pc>> \in Cells
  BY <1>1, ContextCells
<1>6. cell[<<ctx, Active>>] = 1 /\ cell[<<ctx, Pc>>] = Entry[Main]
  BY <1>2, <1>5 DEF Active, Pc
<1>7. FrameAt(1) = VM!NewFrame(Main, 0)
  <2>1. \A s \in Storage[Main] : cell[At(ctx, s)] = 0
    BY <1>3, <1>4 DEF ContentOf
  <2>2. AbiValue \in ContentOf(1) /\ At(ctx, AbiValue) = <<ctx, Value>>
    BY <1>3 DEF ContentOf, At, AbiValue
  <2>3. cell[<<ctx, Value>>] = 0
    BY <1>4, <2>2
  <2> QED
    BY <1>3, <2>1, <2>3 DEF FrameAt, VM!NewFrame
<1>8. StackOnTape = <<VM!NewFrame(Main, 0)>>
  <2>1. StackOnTape = [k \in 1 .. 1 |-> FrameAt(k)]
    BY <1>3, StackIsFrames
  <2> DEFINE new == VM!NewFrame(Main, 0)
  <2>2. FrameAt(1) = new
    BY <1>7
  <2> HIDE DEF new
  <2>3. StackOnTape = [k \in 1 .. 1 |-> new]
    BY <2>1, <2>2
  <2>4. [k \in 1 .. 1 |-> new] = <<new>>
    OBVIOUS
  <2> QED
    BY <2>3, <2>4 DEF new
<1>9. /\ vmStack = StackOnTape /\ vmGlobals = globals /\ vmRunning = TRUE
      /\ vmCurrent = Entry[Main]
  BY <1>2, <1>6 DEF vmStack, vmGlobals, vmRunning, vmCurrent, InTransit
<1>10. VM!Init
  BY <1>2, <1>8, <1>9 DEF VM!Init
<1>11. TransitInv
  BY <1>2 DEF TransitInv, CallInTransit, ReturnInTransit, NothingPending
<1> QED
  BY <1>10, <1>11

LEMMA StutterMaps ==
    ASSUME Inv, TransitInv, UNCHANGED vars
    PROVE  UNCHANGED VM!vars /\ TransitInv'
<1>1. UNCHANGED <<head, cell, globals, ctx, code, mode, pending, frames>>
  BY DEF vars
<1>2. UNCHANGED VM!vars
  BY <1>1 DEF VM!vars, vmStack, vmGlobals, vmRunning, vmCurrent, InTransit, StackOnTape
<1>3. TransitInv'
  <2>1. /\ \A i : FrameAt(i)' = FrameAt(i)
        /\ F' = F /\ Consumed' = Consumed
        /\ \A l : HeldAt(l)' = HeldAt(l) /\ Read(ctx, l)' = Read(ctx, l)
        /\ \A s : Arrived(s)' = Arrived(s)
    BY <1>1 DEF FrameAt, F, Consumed, HeldAt, Held, Read, Arrived
  <2>2. \A s : BoundSoFar(s)' = BoundSoFar(s)
    BY <1>1, <2>1 DEF BoundSoFar, Hits
  <2>3. HeldShape => HeldShape'
    BY <1>1, <2>1 DEF HeldShape
  <2>4. CallInTransit'
    BY <1>1, <2>1, <2>2, <2>3, Zenon DEF TransitInv, CallInTransit
  <2>5. ReturnInTransit'
    BY <1>1, <2>1, <2>3, Zenon DEF TransitInv, ReturnInTransit
  <2>6. NothingPending'
    BY <1>1 DEF TransitInv, NothingPending
  <2> QED
    BY <2>4, <2>5, <2>6 DEF TransitInv
<1> QED
  BY <1>2, <1>3

(* Every step of the emitted code is one of the VM, or none. *)
LEMMA NextMaps ==
    ASSUME Inv, TransitInv, [Next]_vars
    PROVE  [VM!Next]_(VM!vars) /\ TransitInv'
<1>1. CASE Dispatch \/ EndCycle
  BY <1>1, DispatcherMaps
<1>2. CASE BodyStep
  BY <1>2, BodyMaps
<1>3. CASE LocalControl
  BY <1>3, LocalControlMaps
<1>4. CASE Stop
  BY <1>4, StopMaps
<1>5. CASE CallStep
  BY <1>5, CallBeginMaps
<1>6. CASE CopyArgument
  BY <1>6, ArgumentMaps
<1>7. CASE EnterCallee
  BY <1>7, EnterMaps
<1>8. CASE ReturnStep
  BY <1>8, ReturnBeginMaps
<1>9. CASE DeliverCell
  BY <1>9, DeliveryMaps
<1>10. CASE LeaveCallee
  BY <1>10, LeaveMaps
<1>11. CASE UNCHANGED vars
  BY <1>11, StutterMaps
<1> QED
  BY <1>1, <1>2, <1>3, <1>4, <1>5, <1>6, <1>7, <1>8, <1>9, <1>10, <1>11 DEF Next, Finished

(* Between the first and the last step of a call or a return, the tape     *)
(* differs from the state the terminator found by what has been copied or  *)
(* consumed so far and by nothing else.                                    *)
THEOREM TransitHolds == Spec => []TransitInv
<1>1. Init => TransitInv
  BY InitMaps
<1>2. Inv /\ TransitInv /\ [Next]_vars => TransitInv'
  BY NextMaps
<1> QED
  BY <1>1, <1>2, InvHolds, PTL DEF Spec

(* The activation stack on the tape is the one of the continuation VM:     *)
(* emitted calls, returns and memory accesses do to the frames and the     *)
(* globals what Machine::run does to its own, for every program, frame     *)
(* layout, anchor bank and tape length.                                    *)
THEOREM TapeImplementsVM == Spec => ImplementsVM
<1>1. Init => VM!Init
  BY InitMaps
<1>2. Inv /\ TransitInv /\ [Next]_vars => [VM!Next]_(VM!vars)
  BY NextMaps
<1> QED
  BY <1>1, <1>2, InvHolds, TransitHolds, PTL DEF Spec, ImplementsVM, VM!Spec
=============================================================================
