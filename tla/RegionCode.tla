------------------------------ MODULE RegionCode ------------------------------
(***************************************************************************)
(* The code of one entry of the dispatcher: a continuation, or a region of *)
(* soft ones with its loops, and one terminator (region_emission.rs,       *)
(* control.rs); calls to, and returns from, functions with fixed frames    *)
(* (static_frames.rs); callees and resumes that run on within the same     *)
(* visit (direct_regions.rs, without its bindings of parameters).          *)
(*                                                                         *)
(* An emitter also knows the gates of the loops it is in, "loops", how     *)
(* many callees deep it is, "direct", and where those return, "returns".   *)
(***************************************************************************)
EXTENDS TapeCode

At0(c, f, fixed) ==
    [c |-> c, f |-> f, fixed |-> fixed, depth |-> 0, loops |-> Nothing, direct |-> 0, returns |-> <<>>,
     down |-> ToBank(c.statics), up |-> FromBank(c.statics)]
FixedAt(c, f) == IF f \in DOMAIN c.context THEN c.context[f] ELSE None

SetField(e, field, v) == SetAt(e, Rel(field), v)
ClearField(e, field)  == ClearAt(e, Rel(field))
SetPc(e, base, low, high, id) ==
    SetAt(e, Rel(base + low), Low(e.c, id)) \o SetAt(e, Rel(base + high), High(e.c, id))
SetNext(e, id) == SetPc(e, 0, Field.nextLow, Field.nextHigh, id)
Migrate(delta) == <<GoTo(delta), Here(0)>>
ClearChunk(e, head) == Joined([k \in 1 .. Stride |-> ClearAt(e, Rel(head + k - 1))])

(* aggregate_return_source and return_body_length: an aggregate that is    *)
(* copied last and then returned is returned from where it was copied.     *)
ReturnedLeaves == 16
SelfCopy(i) == (i.op = "cells" /\ i.from = i.into) \/ (i.op = "copy" /\ i.src = i.dst)
TailEnd(body) == Max({0} \cup {k \in DOMAIN body : ~SelfCopy(body[k])})
OwnRegion(r) == r[1] \in {"frame", "outbox"}
CopiesAll(i, o) ==
    i.op = "cells" /\ i.into = o.region /\ o.offset + o.cells <= i.cells /\ OwnRegion(i.from)
CopiesLeaves(is, o) ==
    /\ \A i \in is :
          /\ i.op = "copy"
          /\ RegionOf(i.dst) = o.region /\ i.dst[3] - o.offset \in 0 .. o.cells - 1
          /\ OwnRegion(RegionOf(i.src)) /\ RegionOf(i.src) # o.region
          /\ i.src[3] >= i.dst[3] - o.offset
    /\ Cardinality({i.dst : i \in is}) = o.cells
    /\ Cardinality({<<RegionOf(i.src), i.src[3] - i.dst[3]>> : i \in is}) = 1

Unshortened(n) == [length |-> Len(n.body), value |-> IF n.end.op = "return" THEN n.end.value ELSE None]
ShortenedAt(n, end, o) ==
    LET body == n.body
        leaves == {body[k] : k \in end - o.cells + 1 .. end}
        first == CHOOSE i \in leaves : i.dst[3] = o.offset
    IN  CASE end = 0 -> Unshortened(n)
          [] end # 0 /\ CopiesAll(body[end], o) ->
                 [length |-> end - 1, value |-> Part(body[end].from, o.offset, o.cells)]
          [] end # 0 /\ ~CopiesAll(body[end], o) ->
                 IF o.cells \in 1 .. Min({ReturnedLeaves, end}) /\ CopiesLeaves(leaves, o)
                 THEN [length |-> end - o.cells, value |-> Part(RegionOf(first.src), first.src[3], o.cells)]
                 ELSE Unshortened(n)
Shortened(n) ==
    IF n.end.op = "return" /\ n.end.value # None /\ n.end.value.kind = "aggregate" /\ n.end.value.region[1] = "frame"
    THEN ShortenedAt(n, TailEnd(n.body), n.end.value) ELSE Unshortened(n)

-----------------------------------------------------------------------------
(* The copies of a call's arguments, in order: a source is consumed by its *)
(* last use, if it is dead after the call.  (Mutant: by its first.)        *)
Handed(d, t) ==
    Joined([k \in DOMAIN d.parameters |->
        LET cells == ParameterCells(d, d.parameters[k]) IN
        [n \in DOMAIN cells |-> [from |-> Address(t.arguments[k], n - 1), into |-> cells[n]]]])
InFrame(l, a) == IF a[1] = "slot" THEN ValueAt(l, a[3]) ELSE ElementAt(l, a[2], a[3])
WrittenBefore(copies, k) == \E j \in 1 .. k - 1 : copies[j].into = copies[k].into
LastUse_First(copies, k) == ~\E j \in 1 .. k - 1 : copies[j].from = copies[k].from
LastUse(copies, k) == ~\E j \in k + 1 .. Len(copies) : copies[j].from = copies[k].from
Consumes(copies, k, n) == LastUse(copies, k) /\ Dead(n, copies[k].from)

HandOver(e, src, dst, consume) ==
    IF consume THEN MoveToZero(e, src, dst) ELSE CopyToZeroed(e, src, dst, Restore)

(* emit_call_inner: the arguments are copied before the heads of the new   *)
(* frame are set, while the scan from the globals still ends here.         *)
(* (Mutant: after.)                                                        *)
Marks(e, total) == Joined([k \in 1 .. total |-> SetAt(e, Rel(k * Stride), 1)])
CallFrame_MarkedFirst(passed, marks) == marks \o passed
CallFrame(passed, marks) == passed \o marks

(* "direct" is None, or says whether the return PC is kept. *)
SetPcs(e, delta, direct, entry, resume) ==
    (IF direct = None THEN SetPc(e, delta, Field.nextLow, Field.nextHigh, entry) ELSE <<>>)
    \o (IF direct = None \/ direct = "preserve" THEN SetPc(e, delta, Field.returnLow, Field.returnHigh, resume) ELSE <<>>)
NewContext(e, delta) ==
    Joined([k \in 1 .. Chunk |-> ClearAt(e, Rel(delta + k))]) \o SetAt(e, Rel(delta + Field.active), 1)

DynamicCall(e, n, d, l, copies, direct) ==
    LET t == n.end
        delta == l.total * Stride
        Arrives(k) == Rel(delta + InFrame(l, copies[k].into))
        Pass(k) == (IF WrittenBefore(copies, k) THEN ClearAt(e, Arrives(k)) ELSE <<>>)
                   \o HandOver(e, Located(e, copies[k].from), Arrives(k), Consumes(copies, k, n))
    IN  CallFrame((IF t.arguments = <<>> THEN <<>> ELSE ClearAt(e, Restore)) \o Joined([k \in DOMAIN copies |-> Pass(k)]),
                  Marks(e, l.total))
        \o NewContext(e, delta) \o SetPcs(e, delta, direct, d.entry, t.to) \o Migrate(delta)

(* emit_fixed_call: between a frame of the stack and the static part bytes *)
(* go as nibbles, a global is copied where it is.                          *)
CopyThere(e, src, dst) ==
    LET there == [e EXCEPT !.fixed = src]  scratch == Abs(e.c.statics.scratch) IN
    ToGlobal(e, src) \o ClearAt(there, scratch) \o CopyToZeroed(there, Abs(src), dst, scratch)
    \o <<GoTo(0)>> \o FromGlobal(e, src)

FixedPass(e, src, dst, consume) ==
    CASE e.fixed = None /\ src[1] = "rel" /\ e.c.options.nibble -> NibblesToGlobal(e, src[2], dst[2], ~consume)
      [] e.fixed = None /\ src[1] = "abs" -> CopyThere(e, src[2], dst)
      [] OTHER -> HandOver(e, src, dst, consume)

FixedCall(e, n, d, l, base, copies, direct) ==
    LET t == n.end
        callee == [e EXCEPT !.fixed = base, !.f = t.callee]
        Arrives(k) == Abs(base + InFrame(l, copies[k].into))
        Pass(k) == (IF WrittenBefore(copies, k) THEN ClearAt(e, Arrives(k)) ELSE <<>>)
                   \o FixedPass(e, Located(e, copies[k].from), Arrives(k), Consumes(copies, k, n))
    IN  ClearAt(e, Restore) \o Joined([k \in DOMAIN copies |-> Pass(k)])
        \o ToGlobal(e, base)
        \o Joined([k \in 1 .. l.total |-> SetAt(callee, Rel((k - l.total) * Stride), 1)])
        \o NewContext(callee, 0)
        \o SetPcs(callee, 0, direct, d.entry, e.c.gates[<<t.to, t.callee>>])

-----------------------------------------------------------------------------
(* has_direct_return and direct_fixed_result. *)
HasDirectReturn(e) == e.c.options.known /\ e.returns # <<>> /\ Last(e.returns).callee = e.f
CallerOf(e, target) == e.c.program.nodes[target].function
Delivered(e) ==
    /\ HasDirectReturn(e) /\ e.fixed # None /\ Last(e.returns).gate # None
    /\ CallerOf(e, Last(e.returns).target) \in DOMAIN e.c.context

(* What a return brings: from local cells it is moved, from globals copied. *)
Brought(e, src, dst) ==
    IF src[1] = "rel" THEN MoveAt(e, src, dst) ELSE CopyZeroedRestore(e, src, dst, Restore)
ResumeAt(e, delta) ==
    IF HasDirectReturn(e) THEN <<>>
    ELSE MoveAt(e, Rel(Field.returnLow), Rel(delta + Field.nextLow))
         \o MoveAt(e, Rel(Field.returnHigh), Rel(delta + Field.nextHigh))
Locals(l) == [k \in 1 .. l.total - 1 |-> (k - l.total) * Stride]

(* emit_return_inner: the frame is left all zero.  (Mutant: but for its     *)
(* outbox.)                                                                 *)
ClearFrame_OutboxStays(e, l) ==
    Joined([k \in DOMAIN Locals(l) |->
        IF k \in l.total - l.route - l.outbox .. l.total - l.route - 1 THEN ClearAt(e, Rel(Locals(l)[k]))
        ELSE ClearChunk(e, Locals(l)[k])])
ClearFrame(e, l) == Joined([k \in DOMAIN Locals(l) |-> ClearChunk(e, Locals(l)[k])])

(* common_outbox_offset: every frame has as many route cells as main's.     *)
DynamicReturn(e, value, l) ==
    LET delta == -(l.total * Stride)
        callerValue == Rel(delta + Field.value)
        Sent(k) == Brought(e, LocatedPart(e, value, k), Rel(delta + OutboxAt(e.c.layout[e.c.program.main], k)))
        Cell(src) == IF src[1] = "rel" THEN MoveAt(e, src, callerValue)
                     ELSE CopyAt(e, src, Rel(Field.value), Restore) \o MoveAt(e, Rel(Field.value), callerValue)
    IN  (CASE value = None -> ClearAt(e, callerValue)
           [] value # None /\ value.kind = "cell" -> Cell(LocatedPart(e, value, 0))
           [] OTHER -> ClearAt(e, Restore) \o Joined([k \in 1 .. value.cells |-> Sent(k - 1)])
                       \o ClearAt(e, callerValue))
        \o ResumeAt(e, delta) \o ClearFrame(e, l) \o ClearChunk(e, 0) \o Migrate(delta)

(* emit_fixed_return: the context stays until its gate.  "caller" is the   *)
(* fixed caller that is delivered to, or None.                             *)
FixedReturn(e, value, l, caller) ==
    LET c == e.c
        own == Rel(Field.value)
        valueCell == IF caller = None THEN own ELSE Abs(c.context[caller] + Field.value)
        Inbox(k) == Abs(IF caller = None THEN c.result[e.f] + k ELSE c.context[caller] + OutboxAt(c.layout[caller], k))
        Cell(src) == IF src[1] = "rel" THEN MoveAt(e, src, valueCell) ELSE CopyAt(e, src, valueCell, Restore)
        cleared == ClearAt(e, own) \o (IF caller = None THEN <<>> ELSE ClearAt(e, valueCell))
    IN  (CASE value = None -> cleared
           [] value # None /\ value.kind = "cell" -> Cell(LocatedPart(e, value, 0))
           [] OTHER -> ClearAt(e, Restore)
                       \o Joined([k \in 1 .. value.cells |-> Brought(e, LocatedPart(e, value, k - 1), Inbox(k - 1))])
                       \o cleared)
        \o ClearFrame(e, l) \o ResumeAt(e, 0)

(* The result of a fixed frame, fetched from a frame of the stack. *)
Fetched(e, src, dst, scratch) ==
    IF e.c.options.nibble /\ e.fixed = None THEN FetchNibbles(e, src, dst, FALSE, scratch)
    ELSE MoveAt(e, Abs(src), Rel(dst))

(* emit_static_resume_with_result, up to the continuation: the value stays *)
(* until it is delivered.                                                  *)
Retained(k) == k = Field.value
LeaveFixed(e, base, caller, delivered) ==
    LET there == [e EXCEPT !.fixed = base] IN
    Joined([k \in 1 .. Stride |-> IF Retained(k - 1) /\ ~delivered THEN <<>> ELSE ClearAt(there, Rel(k - 1))])
    \o IF caller # None THEN ToGlobal(there, caller) ELSE FromGlobal([e EXCEPT !.fixed = None], base)

Deliver(e, callee, d, l, base) ==
    LET scratch == IF l.route > 0 THEN base + RouteAt(l, RouteScratch) ELSE e.c.statics.scratch IN
    (IF d.returns.kind = "cell" THEN Fetched(e, base + Field.value, Field.value, scratch) ELSE ClearField(e, Field.value))
    \o Joined([k \in 1 .. d.returns.cells |->
                  Fetched(e, e.c.result[callee] + k - 1, OutboxAt(e.c.layout[e.f], k - 1), scratch)])

-----------------------------------------------------------------------------
RECURSIVE Entry(_, _)
RECURSIVE RegionNode(_, _, _)

Opened(e) == [e EXCEPT !.depth = 0, !.loops = Nothing]
Body(e, c) == BodyCode(e, LET n == e.c.program.nodes[c] IN SubSeq(n.body, 1, Shortened(n).length))

(* emit_terminal_level: the number of the terminal that was reached is     *)
(* counted down like the PC.                                               *)
RECURSIVE TerminalLevel(_, _, _)
TerminalLevel(e, codes, k) ==
    <<GoTo(Field.pcLow),
      While((IF k = Len(codes) THEN <<Zero>> \o ClearField(e, Field.branch)
             ELSE <<Adjust(-1), GoTo(0)>> \o TerminalLevel(e, codes, k + 1)) \o <<GoTo(Field.pcLow)>>),
      GoTo(Field.branch),
      While(<<Adjust(-1), GoTo(0)>> \o codes[k] \o <<GoTo(Field.branch)>>), GoTo(0)>>

(* emit_region: with one terminal, its terminator follows; with more, a    *)
(* value, the selector, tells which of them was reached.                   *)
Selector(e) == Rel(ValueAt(e.c.layout[e.f], e.c.layout[e.f].selector))
Ending(e, codes, selector) ==
    CASE Len(codes) = 0 -> <<>>
      [] Len(codes) = 1 -> codes[1]
      [] OTHER -> MoveAt(e, selector, Rel(Field.pcLow)) \o AdjustAt(e, Rel(Field.pcLow), -1)
                  \o SetField(e, Field.branch, 1) \o TerminalLevel(e, codes, 1)

(* emit_region_node: a loop turns while its gate is set again. *)
Twice(e) == [e EXCEPT !.depth = @ + 2]
Gated(e, gate, code) == Visit(e, gate) \o <<While(<<Zero>> \o Unvisit(e, gate) \o code \o Visit(e, gate))>> \o Unvisit(e, gate)

(* emit_region_branch: a gate for each arm, ... *)
GatedBranch(e, condition, yes, no) ==
    LET then == Temporary(e)  else == Temporary(Inside(e)) IN
    MoveAt(e, condition, then) \o SetAt(e, else, 1)
    \o Gated(e, then, ClearAt(e, else) \o yes) \o Gated(e, else, no)
(* ... or, where the condition has guards, it slides to the zero after it. *)
HasGuards(l, a) == a[1] = "slot" /\ a[3] \in l.guarded
SlidBranch(value, yes, no) ==
    LET flag == value + 1 IN
    <<GoTo(flag), Adjust(1), GoTo(value),
      While(<<Zero, GoTo(flag), Adjust(-1), GoTo(0)>> \o yes \o <<GoTo(flag)>>), Shift(1), Scan(1), Here(flag + 1),
      GoTo(flag), While(<<Adjust(-1), GoTo(0)>> \o no \o <<GoTo(flag)>>), GoTo(0)>>

NodeCode(e, node, selector) ==
    LET end == e.c.program.nodes[node.id].end IN
    Body(e, node.id) \o
    CASE node.flow = "goto" -> RegionNode(e, node.next[1], selector)
      [] node.flow = "terminal" -> IF selector = None THEN <<>> ELSE SetAt(e, selector, node.index)
      [] node.flow = "branch" /\ e.c.options.compare /\ HasGuards(e.c.layout[e.f], end.condition) ->
             SlidBranch(Located(e, end.condition)[2],
                        RegionNode(e, node.next[1], selector), RegionNode(e, node.next[2], selector))
      [] OTHER -> GatedBranch(e, Located(e, end.condition),
                              RegionNode(Twice(e), node.next[1], selector), RegionNode(Twice(e), node.next[2], selector))

InLoop(e, node) == IF node.header THEN [Inside(e) EXCEPT !.loops = node.id :> Temporary(e) @@ @] ELSE e
Looped(e, node, code) == IF node.header THEN SetAt(e, Temporary(e), 1) \o Gated(e, Temporary(e), code) ELSE code
RegionNode(e, node, selector) ==
    IF node.flow = "continue" THEN SetAt(e, e.loops[node.id], 1)
    ELSE Looped(e, node, NodeCode(InLoop(e, node), node, selector))

-----------------------------------------------------------------------------
(* plan_direct_call_entry: the callee's entry region, where it may follow. *)
Closed(e, f) ==
    LET entry == e.c.program.functions[f].entry
        ends == IF entry \in DOMAIN e.c.plan.regions THEN Range(e.c.plan.regions[entry].terminals) ELSE {entry}
    IN  \A c \in ends : e.c.program.nodes[c].end.op \in {"return", "abort", "halt"}
InCallee(e, t, base) ==
    [e EXCEPT
        !.f = t.callee, !.fixed = base, !.direct = @ + 1,
        !.returns = Append(@, [callee |-> t.callee, target |-> t.to,
                               gate |-> IF base = None THEN None ELSE e.c.gates[<<t.to, t.callee>>]])]
CallTo(e, n, d, base, copies, direct) ==
    IF base = None THEN DynamicCall(e, n, d, e.c.layout[n.end.callee], copies, direct)
    ELSE FixedCall(e, n, d, e.c.layout[n.end.callee], base, copies, direct)

(* What exceeds the limit is a call like any other. *)
Followed(e, n, d, base, body, fits) ==
    CallTo(e, n, d, base, Handed(d, n.end),
           CASE ~fits -> None
             [] fits /\ e.c.options.known /\ Closed(e, n.end.callee) -> "known"
             [] OTHER -> "preserve")
    \o IF fits THEN body ELSE <<>>
FollowedBy(e, n, d, base, body) == Followed(e, n, d, base, body, CodeSize(body) <= e.c.options.limit)
MayFollow(e, base) == e.c.plan.on /\ e.direct < e.c.options.direct /\ (base # None \/ e.c.options.dynamic)
CallCode(e, n, d, base) ==
    IF MayFollow(e, base) THEN FollowedBy(e, n, d, base, Entry(InCallee(e, n.end, base), d.entry))
    ELSE CallTo(e, n, d, base, Handed(d, n.end), None)

(* emit_static_resume_with_result: what runs before the continuation, and  *)
(* where that runs.                                                        *)
ResumedIn(e, target) == [e EXCEPT !.f = CallerOf(e, target), !.fixed = FixedAt(e.c, CallerOf(e, target))]
LeaveCode(e, callee, target, base, delivered) ==
    LeaveFixed(e, base, FixedAt(e.c, CallerOf(e, target)), delivered)
    \o IF delivered THEN <<>>
       ELSE Deliver(ResumedIn(e, target), callee, e.c.program.functions[callee], e.c.layout[callee], base)

(* plan_direct_return_resume: the caller goes on in the same visit. *)
Returned(e) == [e EXCEPT !.returns = Front(@)]
Resume(e, known) ==
    ClearField(e, Field.nextLow) \o ClearField(e, Field.nextHigh) \o <<GoTo(0)>>
    \o (IF known.gate = None THEN <<>> ELSE LeaveCode(Returned(e), e.f, known.target, e.c.context[e.f], Delivered(e)))
    \o Entry(ResumedIn(Returned(e), known.target), known.target)

ReturnTo(e, value, delivered) ==
    IF e.fixed = None THEN DynamicReturn(e, value, e.c.layout[e.f])
    ELSE FixedReturn(e, value, e.c.layout[e.f], IF delivered THEN CallerOf(e, Last(e.returns).target) ELSE None)
KnownReturn(e, value, known, body, fits) ==
    ReturnTo(e, value, fits /\ Delivered(e))
    \o IF fits THEN <<GoTo(0)>> \o body ELSE SetNext(e, IF known.gate = None THEN known.target ELSE known.gate)
ReturnedBy(e, value, known, body) == KnownReturn(e, value, known, body, CodeSize(body) <= e.c.options.resumeLimit)
ReturnCode(e, value) ==
    IF HasDirectReturn(e) THEN ReturnedBy(e, value, Last(e.returns), Resume(e, Last(e.returns)))
    ELSE ReturnTo(e, value, FALSE)

(* emit_terminator_inner. *)
BranchCode(e, t, condition) ==
    SetNext(e, t.else) \o Gated(e, condition, SetNext(e, t.then))
Terminator(e, n) ==
    CASE n.end.op = "goto" -> SetNext(e, n.end.to)
      [] n.end.op = "branch" -> BranchCode(e, n.end, Located(e, n.end.condition))
      [] n.end.op = "call" -> CallCode(e, n, e.c.program.functions[n.end.callee], FixedAt(e.c, n.end.callee))
      [] n.end.op = "return" -> ReturnCode(e, Shortened(n).value)
      [] n.end.op \in {"halt", "abort"} -> ClearField(e, Field.active)

(* emit_function_entry: a region, or a continuation of its own. *)
Region(e, c) ==
    IF c \in DOMAIN e.c.plan.regions THEN e.c.plan.regions[c]
    ELSE [root |-> [id |-> c, flow |-> "terminal", index |-> 1, next |-> <<>>, header |-> FALSE], terminals |-> <<c>>]
RegionEntry(e, region, selector) ==
    RegionNode(e, region.root, selector)
    \o Ending(e, [k \in DOMAIN region.terminals |-> Terminator(e, e.c.program.nodes[region.terminals[k]])], selector)
Entered(e, region) == RegionEntry(e, region, IF Len(region.terminals) < 2 THEN None ELSE Selector(e))
Entry(e, c) == Entered(Opened(e), Region(e, c))

(* emit_dispatch_entry_body: the gate of a fixed call, or an entry.        *)
(* (Mutant: a gate of its own only names the continuation.)                *)
GateKey(c, id) == CHOOSE key \in DOMAIN c.gates : c.gates[key] = id
Where(c, id) == IF id \in Range(c.gates) THEN GateKey(c, id)[1] ELSE id
GateCode(c, target, callee) == LeaveCode(At0(c, callee, c.context[callee]), callee, target, c.context[callee], FALSE)
SetNextIn(c, f, target) == SetNext(At0(c, f, FixedAt(c, f)), target)
EntryIn(c, f, target) == Entry(At0(c, f, FixedAt(c, f)), target)
EntryCode_GateAlone(c, id) ==
    IF id \in Range(c.gates) /\ Where(c, id) # id
    THEN GateCode(c, GateKey(c, id)[1], GateKey(c, id)[2])
         \o SetNextIn(c, c.program.nodes[Where(c, id)].function, Where(c, id))
    ELSE (IF id \in Range(c.gates) THEN GateCode(c, GateKey(c, id)[1], GateKey(c, id)[2]) ELSE <<>>)
         \o EntryIn(c, c.program.nodes[Where(c, id)].function, Where(c, id))
EntryCode(c, id) ==
    (IF id \in Range(c.gates) THEN GateCode(c, GateKey(c, id)[1], GateKey(c, id)[2]) ELSE <<>>)
    \o EntryIn(c, c.program.nodes[Where(c, id)].function, Where(c, id))
=============================================================================
