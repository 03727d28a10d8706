------------------------------- MODULE TapeCode -------------------------------
(***************************************************************************)
(* The code of the generator on the tape: what the operations of BF IR do, *)
(* the primitives of AbiEmitter that reach, clear, move and copy cells     *)
(* (codegen/transport.rs), and the instructions of a frame with structured *)
(* control (codegen/instructions.rs).                                      *)
(*                                                                         *)
(* A cell is named by <<"rel", o>>, from the head of the current context,  *)
(* or <<"abs", n>>, in the static part.  An emitter "e" knows the plan     *)
(* "c", the function "f", the head "fixed" of a fixed context, or None,    *)
(* how many temporaries of branches are taken, "depth", and the ways down  *)
(* to the anchors and back up the stack.                                   *)
(***************************************************************************)
EXTENDS TapeLayout

CONSTANTS
    MaxTurns    \* passes of a loop, for the work of a run

GoTo(o)     == [op |-> "go", to |-> o]           \* move_to
Here(o)     == [op |-> "here", to |-> o]         \* the position is now o
Shift(n)    == [op |-> "shift", by |-> n]        \* push_move
Adjust(n)   == [op |-> "adjust", by |-> n]
While(body) == [op |-> "while", body |-> body]
Scan(n)     == [op |-> "scan", by |-> n]         \* a loop of one move
Zero        == [op |-> "zero"]                   \* a loop of one decrement
GetByte     == [op |-> "in"]
PutByte     == [op |-> "out"]

(* emitted_size; long code is taken in halves throughout. *)
RECURSIVE SizeFrom(_, _, _)
SizeOf(i) ==
    CASE i.op = "here" -> 0
      [] i.op = "while" -> 2 + SizeFrom(i.body, 1, Len(i.body))
      [] i.op \in {"scan", "zero"} -> 3
      [] OTHER -> 1
SizeFrom(code, lo, hi) ==
    CASE lo > hi -> 0
      [] lo = hi -> SizeOf(code[lo])
      [] OTHER -> LET mid == (lo + hi) \div 2 IN SizeFrom(code, lo, mid) + SizeFrom(code, mid + 1, hi)
CodeSize(code) == SizeFrom(code, 1, Len(code))

-----------------------------------------------------------------------------
(* The position of the emitter: a move goes from where it believes the     *)
(* pointer to be, after a loop from where its body ends.                   *)
RECURSIVE Resolved(_, _, _, _)
Resolved(code, lo, hi, at) ==
    LET mid == (lo + hi) \div 2
        Then(r, s) == [code |-> r.code \o s.code, at |-> s.at]
        Rest(r) == Then(r, Resolved(code, mid + 1, hi, r.at))
        Looped(r) == [code |-> <<While(r.code)>>, at |-> r.at]
        One(i) ==
            CASE i.op = "go" -> [code |-> IF i.to = at THEN <<>> ELSE <<Shift(i.to - at)>>, at |-> i.to]
              [] i.op = "here" -> [code |-> <<>>, at |-> i.to]
              [] i.op = "while" -> Looped(Resolved(i.body, 1, Len(i.body), at))
              [] OTHER -> [code |-> <<i>>, at |-> at]
    IN  CASE lo > hi -> [code |-> <<>>, at |-> at]
          [] lo = hi -> One(code[lo])
          [] OTHER -> Rest(Resolved(code, lo, mid, at))

(* A BF machine; "end" tells of a run off the tape, or without end.        *)
RECURSIVE RunFrom(_, _, _, _)
RECURSIVE Turn(_, _, _)
RECURSIVE Scanned(_, _, _)

Halted(m, why) == [m EXCEPT !.end = why]
Moved(m, ptr) == IF ptr \in DOMAIN m.tape THEN [m EXCEPT !.ptr = ptr] ELSE Halted(m, "off the tape")
Scanned(m, by, turns) ==
    CASE m.end # None \/ m.tape[m.ptr] = 0 -> m
      [] turns = 0 -> Halted(m, "endless")
      [] OTHER -> Scanned(Moved(m, m.ptr + by), by, turns - 1)
Turn(body, m, turns) ==
    CASE m.end # None \/ m.tape[m.ptr] = 0 -> m
      [] turns = 0 -> Halted(m, "endless")
      [] OTHER -> Turn(body, RunFrom(body, 1, Len(body), m), turns - 1)

Performed(m, i) ==
    CASE i.op = "shift"  -> Moved(m, m.ptr + i.by)
      [] i.op = "adjust" -> [m EXCEPT !.tape[m.ptr] = (@ + i.by) % Byte]
      [] i.op = "zero"   -> [m EXCEPT !.tape[m.ptr] = 0]
      [] i.op = "scan"   -> Scanned(m, i.by, MaxTurns)
      [] i.op = "while"  -> Turn(i.body, m, MaxTurns)
      [] i.op = "out"    -> [m EXCEPT !.output = Append(@, m.tape[m.ptr])]
      [] i.op = "in" ->
             IF m.input = <<>> THEN [m EXCEPT !.tape[m.ptr] = 0]
             ELSE [m EXCEPT !.tape[m.ptr] = Head(m.input), !.input = Tail(@)]

RunFrom(code, lo, hi, m) ==
    CASE m.end # None \/ lo > hi -> m
      [] m.end = None /\ lo = hi -> Performed(m, code[lo])
      [] OTHER -> LET mid == (lo + hi) \div 2 IN RunFrom(code, mid + 1, hi, RunFrom(code, lo, mid, m))

-----------------------------------------------------------------------------
Rel(o) == <<"rel", o>>
Abs(n) == <<"abs", n>>
Joined(codes) == FlattenSeq(codes)

(* emit_context_to_global_inner and back.  Without a bank, a scan goes     *)
(* down the heads of the stack to the anchor, which is zero, and one goes  *)
(* up to the first free head.  With a bank of anchors, long steps go down  *)
(* the lane of the context, leave a breadcrumb at its anchor, and the      *)
(* guides lead to the first anchor.  (Mutant: the crumb stays.)            *)
Breadcrumb == 1
Guide == 2
ToBank(s) ==
    IF s.group = 1 THEN <<Shift(-Stride), Shift(Stride), Scan(-Stride)>>
    ELSE <<Scan(-(s.group * Stride)), Shift(Breadcrumb), Adjust(-1), Shift(Guide - Breadcrumb),
           Scan(-Stride), Shift(-Guide)>>
FromBank_CrumbStays(s) ==
    IF s.group = 1 THEN <<Shift(Stride), Scan(Stride), Shift(-Stride)>>
    ELSE <<Shift(Breadcrumb), Scan(Stride), Shift(-Breadcrumb),
           Shift(s.group * Stride), Scan(s.group * Stride), Shift(-(s.group * Stride))>>
FromBank(s) ==
    IF s.group = 1 THEN <<Shift(Stride), Scan(Stride), Shift(-Stride)>>
    ELSE <<Shift(Breadcrumb), Scan(Stride), Adjust(1), Shift(-Breadcrumb),
           Shift(s.group * Stride), Scan(s.group * Stride), Shift(-(s.group * Stride))>>

ToGlobal(e, n) ==
    IF e.fixed # None THEN <<GoTo(n - e.fixed), Here(0)>>
    ELSE e.down \o <<Shift(n - e.c.statics.bank), Here(0)>>
FromGlobal(e, n) ==
    IF e.fixed # None THEN <<GoTo(e.fixed - n), Here(0)>>
    ELSE <<Shift(e.c.statics.bank - n)>> \o e.up \o <<Here(0)>>

(* move_context_to_location and move_location_to_context. *)
Visit(e, l) ==
    CASE l[1] = "rel" -> <<GoTo(l[2])>>
      [] l[1] = "abs" /\ e.fixed # None -> <<GoTo(l[2] - e.fixed)>>
      [] OTHER -> ToGlobal(e, l[2])
Unvisit(e, l) == IF l[1] = "rel" \/ e.fixed # None THEN <<GoTo(0)>> ELSE FromGlobal(e, l[2])
Within(e, l, code) == Visit(e, l) \o code \o Unvisit(e, l)

SetAt(e, l, v)    == Within(e, l, <<Zero, Adjust(v)>>)
ClearAt(e, l)     == Within(e, l, <<Zero>>)
AdjustAt(e, l, v) == Within(e, l, <<Adjust(v)>>)

(* The loop that counts a cell down and adds it elsewhere. *)
Drain(e, src, targets) ==
    Visit(e, src)
    \o <<While(<<Adjust(-1)>> \o Unvisit(e, src)
               \o Joined([k \in DOMAIN targets |-> AdjustAt(e, targets[k].at, targets[k].factor)])
               \o Visit(e, src))>>
    \o Unvisit(e, src)
Into(l) == [at |-> l, factor |-> 1]

(* move_location, move_location_to_zero, and the copies, by way of a cell  *)
(* to restore the source from.                                             *)
MoveToZero(e, src, dst) == IF src = dst THEN <<>> ELSE Drain(e, src, <<Into(dst)>>)
MoveAt(e, src, dst) == IF src = dst THEN <<>> ELSE ClearAt(e, dst) \o Drain(e, src, <<Into(dst)>>)
CopyToZeroed(e, src, dst, restore) ==
    IF src = dst THEN <<>> ELSE Drain(e, src, <<Into(dst), Into(restore)>>) \o MoveAt(e, restore, src)
CopyZeroedRestore(e, src, dst, restore) ==
    IF src = dst THEN <<>> ELSE ClearAt(e, dst) \o CopyToZeroed(e, src, dst, restore)
CopyAt(e, src, dst, restore) ==
    IF src = dst THEN <<>> ELSE ClearAt(e, restore) \o CopyZeroedRestore(e, src, dst, restore)

-----------------------------------------------------------------------------
(* Bytes across the stack as two nibbles.  The bits are counted in cells   *)
(* next to each other, after one that stays zero.                          *)
Half == Bits \div 2
Contribution == [half \in {0, 1} |-> IF half = 0 THEN 1 ELSE 2 ^ Half]

Increment(zero, back) ==
    <<GoTo(zero + 1), Scan(1), Adjust(2), While(<<Adjust(-1), Shift(-1)>>), Here(zero), GoTo(back)>>
RestoreSource(source, half) == <<GoTo(source), Adjust(Contribution[half])>>

Decompose(e, zero, source) ==
    Joined([k \in 1 .. Bits + 1 |-> ClearAt(e, Rel(zero + k - 1))])
    \o <<GoTo(source), While(<<Adjust(-1)>> \o Increment(zero, source))>>
PackInto(first) ==
    Joined([k \in 1 .. Half - 1 |->
        <<GoTo(first + k), While(<<Adjust(-1), GoTo(first), Adjust(2 ^ k), GoTo(first + k)>>), GoTo(0)>>])
Pack(zero) == PackInto(zero + 1) \o PackInto(zero + 1 + Half)
Digit(at, carry) == <<GoTo(at), While(<<Adjust(-1)>> \o carry \o <<GoTo(at)>>), GoTo(0)>>
Digits(zero, low, high) == Digit(zero + 1, low) \o Digit(zero + 1 + Half, high)

(* global_to_relative_nibbles_at: offsets are from "base", in the static   *)
(* part, but for the destination.                                          *)
NibblesFromGlobal(e, base, source, destination, restore, scratch) ==
    LET Carry(half) == (IF restore THEN RestoreSource(source, half) ELSE <<>>)
                       \o <<GoTo(0)>> \o FromGlobal(e, base)
                       \o <<GoTo(destination), Adjust(Contribution[half]), GoTo(0)>> \o ToGlobal(e, base)
    IN  Decompose(e, scratch - base, source) \o Pack(scratch - base) \o Digits(scratch - base, Carry(0), Carry(1))
        \o FromGlobal(e, base)
(* copy_global_to_relative_bits and move_global_to_relative_nibbles. *)
FetchNibbles(e, source, destination, restore, scratch) ==
    ClearAt(e, Rel(destination)) \o ToGlobal(e, source)
    \o NibblesFromGlobal(e, source, 0, destination, restore, scratch)

(* relative_to_global_nibbles: by way of the route cells. *)
RouteScratch == 7
NibblesToGlobal(e, source, destination, restore) ==
    LET zero == RouteAt(e.c.layout[e.f], RouteScratch)
        Carry(half) == (IF restore THEN RestoreSource(source, half) ELSE <<>>)
                       \o <<GoTo(0)>> \o ToGlobal(e, destination) \o <<Adjust(Contribution[half])>>
                       \o FromGlobal(e, destination)
    IN  Decompose(e, zero, source) \o <<GoTo(0)>> \o Pack(zero) \o Digits(zero, Carry(0), Carry(1))

-----------------------------------------------------------------------------
(* address_location.  *)
Located(e, a) ==
    LET l == e.c.layout[e.f] IN
    CASE a[1] = "slot"   -> Rel(ValueAt(l, a[3]))
      [] a[1] = "frame"  -> Rel(ElementAt(l, a[2], a[3]))
      [] a[1] = "outbox" -> Rel(OutboxAt(l, a[3]))
      [] a[1] = "global" -> Abs(GlobalAt(e.c.statics, a))
      [] a[1] = "abi"    -> Rel(Field.value)
LocatedPart(e, o, k) == Located(e, Address(o, k))
Restore == Rel(Field.restore)
Dead(i, a) == a[1] # "global" /\ a \notin i.out

(* acquire_branch_temporary. *)
Temporary(e) == Rel(ValueAt(e.c.layout[e.f], e.c.layout[e.f].gate + e.depth))
Inside(e) == [e EXCEPT !.depth = @ + 1]

(* emit_preserving_zero_test and emit_truth_copy: dst := (source # 0), the *)
(* flag and the zero after the source at equal distances.                  *)
ZeroTest(e, source, step) ==
    ClearAt(e, Rel(source + 2 * step)) \o SetAt(e, Rel(source + step), 1)
    \o <<GoTo(source), While(<<GoTo(source + step), Zero>>), Shift(step), Scan(step), Here(source + 2 * step)>>
TruthCopy(e, source, dst, step) ==
    SetAt(e, Rel(dst), 1) \o ZeroTest(e, source, step)
    \o <<GoTo(source + step),
         While(<<Adjust(-1)>> \o ClearAt(e, Rel(dst)) \o <<GoTo(source + step)>>), GoTo(0)>>

(* truth_copy_layout: the step of the guards when the copy, and what is    *)
(* added to it, are only tested; 0 otherwise.                              *)
IsTested(body, k) ==
    Tests(body, IF AddsTo(body, k + 1, body[k].dst) THEN k + 2 ELSE k + 1, body[k].dst)

PortalRegions(e) == {e.c.program.nodes[c].end.region : c \in
    {b \in NodesOf(e.c.program, e.f) : e.c.program.nodes[b].end.op \in {"load", "store"}}}
TruthStep(e, body, k) ==
    LET i == body[k] IN
    IF /\ e.c.options.compare /\ i.op = "copy" /\ i.dst[1] = "slot" /\ i.src # i.dst /\ IsTested(body, k)
       /\ ~Dead(i, i.src) /\ RegionOf(i.src) \notin PortalRegions(e)
       /\ AddsTo(body, k + 1, i.dst) => body[k + 1].value # 0
    THEN GuardStep(e.c.program.functions[e.f], e.c.layout[e.f], i.src) ELSE 0

Tested(e, body, k, step) ==
    LET source == Located(e, body[k].src)[2]
        added == IF AddsTo(body, k + 1, body[k].dst) THEN body[k + 1].value ELSE 0
    IN  IF added = 0 THEN TruthCopy(e, source, Located(e, body[k].dst)[2], step)
        ELSE <<GoTo(source), Adjust(added)>> \o TruthCopy(e, source, Located(e, body[k].dst)[2], step)
             \o <<GoTo(source), Adjust(-added), GoTo(0)>>

-----------------------------------------------------------------------------
(* emit_compare: both operands count down together, in place or in the     *)
(* scratch cells; left - leftZero = flag - right = zero - flag = 1.        *)
Remainder == Field.restore
CompareCode(e, right, left, dst, i, difference) ==
    LET flag == right + 1  zero == right + 2
        countdown == <<GoTo(left), While(<<Adjust(-1), GoTo(left - 1)>>),
                       Shift(right - (left - 1)), Here(right), Adjust(-1)>>
        notGreater == <<Adjust(-1), Adjust(i.no), GoTo(left)>>
                      \o (IF difference = None THEN <<Zero>> ELSE MoveAt(e, Rel(left), Rel(Remainder)))
                      \o <<GoTo(zero)>>
        greater == (IF difference = None THEN <<Zero>>
                    ELSE <<While(<<Adjust(-1), GoTo(Remainder), Adjust(-1), GoTo(right)>>)>>)
                   \o <<GoTo(flag), Adjust(i.yes), GoTo(right)>>
    IN  (IF difference = None THEN <<>> ELSE ClearAt(e, Rel(Remainder)))
        \o <<GoTo(flag), Adjust(1), GoTo(right), While(countdown), Shift(1), Here(flag), While(notGreater),
             Here(zero), GoTo(right), While(greater), GoTo(0)>>
        \o (IF difference = None THEN <<>> ELSE MoveAt(e, Rel(Remainder), difference))
        \o MoveAt(e, Rel(flag), dst)

Staged(e, left, right) ==
    (IF left = right THEN CopyAt(e, right, Rel(Field.scratch0), Rel(Field.scratch1))
     ELSE MoveToZero(e, right, Rel(Field.scratch0)))
    \o MoveToZero(e, left, Rel(Field.scratch3))

Compared(e, i, dst, difference) ==
    LET left == Located(e, i.left)  right == Located(e, i.right) IN
    IF e.c.options.compare /\ i.left[1] = "slot" /\ i.right[1] = "slot" /\ i.left # i.right
    THEN CompareCode(e, right[2], left[2], dst, i, difference)
    ELSE Staged(e, left, right) \o CompareCode(e, Field.scratch0, Field.scratch3, dst, i, difference)

CopyCode(e, i) ==
    LET src == Located(e, i.src)  dst == Located(e, i.dst) IN
    CASE Dead(i, i.src) -> MoveAt(e, src, dst)
      [] ~Dead(i, i.src) /\ e.c.options.nibble /\ e.fixed = None /\ dst[1] = "rel"
            /\ i.src[1] = "global" /\ i.src[2] \in Scalars(e.c.program) ->
             FetchNibbles(e, src[2], dst[2], TRUE, e.c.statics.scratch)
      [] OTHER -> CopyAt(e, src, dst, Restore)

(* aggregate_copy. *)
CellsCode(e, i) ==
    LET Cell(r, k) == Located(e, Element(r, k))
        Each(k) == IF Dead(i, Element(i.from, k)) THEN MoveAt(e, Cell(i.from, k), Cell(i.into, k))
                   ELSE CopyZeroedRestore(e, Cell(i.from, k), Cell(i.into, k), Restore)
    IN  IF i.from = i.into THEN <<>>
        ELSE ClearAt(e, Restore) \o Joined([k \in 1 .. i.cells |-> Each(k - 1)])

(* emit_aggregate_clear_range: from the base of the region. *)
IsElement(e, a) == a[1] = "frame" \/ (a[1] = "global" /\ a[2] \notin Scalars(e.c.program))
ClearsNext(e, body, k, n) ==
    /\ k + n \in DOMAIN body /\ body[k + n].op = "set" /\ body[k + n].value = 0
    /\ body[k + n].dst = Element(RegionOf(body[k].dst), body[k].dst[3] + n)
RECURSIVE RangeLength(_, _, _, _)
RangeLength(e, body, k, n) == IF ClearsNext(e, body, k, n) THEN RangeLength(e, body, k, n + 1) ELSE n
ClearedFrom(e, body, k) ==
    IF body[k].op = "set" /\ body[k].value = 0 /\ IsElement(e, body[k].dst) THEN RangeLength(e, body, k, 1) ELSE 1

ClearRange(e, a, n) ==
    LET base == IF a[1] = "frame" THEN Rel(BaseAt(e.c.layout[e.f], a[2])) ELSE Abs(e.c.statics.base[a[2]])
        origin == CASE base[1] = "rel" -> base[2]
                    [] base[1] = "abs" /\ e.fixed # None -> base[2] - e.fixed
                    [] OTHER -> 0
    IN  Within(e, base, Joined([k \in 1 .. n |-> ClearAt(e, Rel(origin + ElementOffset(a[3] + k - 1)))]))

-----------------------------------------------------------------------------
(* emit_all, emit_instruction_inner and emit_structured_branch. *)
RECURSIVE BodyFrom(_, _, _)
RECURSIVE Emitted(_, _)

BodyCode(e, body) == BodyFrom(e, body, 1)
BodyFrom(e, body, k) ==
    LET Skipping(step, n) ==
            CASE step # 0 -> Tested(e, body, k, step)
                             \o BodyFrom(e, body, IF AddsTo(body, k + 1, body[k].dst) THEN k + 2 ELSE k + 1)
              [] step = 0 /\ n > 1 -> ClearRange(e, body[k].dst, n) \o BodyFrom(e, body, k + n)
              [] OTHER -> Emitted(e, body[k]) \o BodyFrom(e, body, k + 1)
    IN  IF k > Len(body) THEN <<>>
        ELSE Skipping(IF body[k].op = "copy" THEN TruthStep(e, body, k) ELSE 0, ClearedFrom(e, body, k))

(* An arm runs with its condition, and its flag, cleared before and after. *)
Arm(e, gate, body, cleared) ==
    Visit(e, gate) \o <<While(<<Zero>> \o Unvisit(e, gate) \o BodyCode(e, body) \o cleared \o Visit(e, gate))>>
    \o Unvisit(e, gate)
IfCode(e, i, condition) ==
    IF i.else = <<>> THEN Arm(e, condition, i.then, ClearAt(e, condition))
    ELSE LET flag == Temporary(e)
             cleared == ClearAt(e, condition) \o ClearAt(e, flag)
         IN  SetAt(e, flag, 1) \o Arm(Inside(e), condition, i.then, cleared)
             \o Arm(Inside(e), flag, i.else, cleared)

Emitted(e, i) ==
    CASE i.op = "set"    -> SetAt(e, Located(e, i.dst), i.value)
      [] i.op = "add"    -> AdjustAt(e, Located(e, i.dst), i.value)
      [] i.op = "input"  -> Within(e, Located(e, i.dst), <<GetByte>>)
      [] i.op = "output" -> Within(e, Located(e, i.src), <<PutByte>>)
      [] i.op = "copy"   -> CopyCode(e, i)
      [] i.op = "cells"  -> CellsCode(e, i)
      [] i.op = "transfer" ->
             IF i.targets = <<>> THEN ClearAt(e, Located(e, i.src))
             ELSE Drain(e, Located(e, i.src),
                        [k \in DOMAIN i.targets |-> [at |-> Located(e, i.targets[k].dst), factor |-> i.targets[k].factor]])
      [] i.op = "compare" -> Compared(e, i, Located(e, i.dst), None)
      [] i.op = "sub"     -> Compared(e, i, Located(e, i.borrow), Located(e, i.difference))
      [] i.op = "if"      -> IfCode(e, i, Located(e, i.condition))
      [] i.op = "loop"    ->
             LET condition == Located(e, i.condition) IN
             Visit(e, condition)
             \o <<While(Unvisit(e, condition) \o BodyCode(e, i.body) \o Visit(e, condition))>>
             \o Unvisit(e, condition)
=============================================================================
