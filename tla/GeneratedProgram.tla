--------------------------- MODULE GeneratedProgram ---------------------------
(***************************************************************************)
(* Compiled programs as they run on the tape.  A step is one turn of the   *)
(* dispatcher: the program counter of the current context is taken, the    *)
(* code of that entry runs, and the next counter becomes the current one.  *)
(*                                                                         *)
(* A case is a program, the options it is compiled with, and an input; one *)
(* with input None is only laid out, as are programs with portals.         *)
(***************************************************************************)
EXTENDS RegionCode

CONSTANTS
    Cases,      \* a sequence of [program, options, input]
    Fuel        \* of the run to compare with

VARIABLES
    case,
    machine,    \* the tape and the pointer, between two turns
    turns       \* how many there were

vars == <<case, machine, turns>>

Reference == INSTANCE CirMachine

-----------------------------------------------------------------------------
(* When the source of a copy may be consumed instead of restored           *)
(* (codegen/lifetime.rs): every copy is given the cells that are live      *)
(* after it, "out", and so is every node for after its terminator.         *)
(* Globals are live always, and are left out.                              *)
Tracked(cells) == {a \in cells : a[1] # "global"}

(* Definitions end lives before uses begin them. *)
Uses(e) == Tracked(e.reads \cup e.may)

(* build_body: the node of a loop goes to what follows and to its body, the *)
(* arms of a choice end where its condition is cleared again.  (Mutant: a   *)
(* loop is not entered again.)                                              *)
RECURSIVE Marked(_, _)
RECURSIVE HeaderLive(_, _, _)

HeaderLive_Once(i, exit, live) == live
HeaderLive(i, exit, live) ==
    LET next == exit \cup Tracked({i.condition}) \cup Marked(i.body, live).live IN
    IF next = live THEN live ELSE HeaderLive(i, exit, next)

MarkedLoop(i, s, live) == [live |-> live, body |-> <<Loop(i.condition, Marked(i.body, live).body)>> \o s.body]
MarkedIf(i, s, yes, no) ==
    [live |-> Tracked({i.condition}) \cup yes.live \cup no.live,
     body |-> <<If(i.condition, yes.body, no.body)>> \o s.body]

Marked(body, after) ==
    LET Back(i, s) ==
            CASE i.op = "loop" -> MarkedLoop(i, s, HeaderLive(i, s.live, s.live \cup Tracked({i.condition})))
              [] i.op = "if" -> MarkedIf(i, s, Marked(i.then, s.live \ {i.condition}),
                                               Marked(i.else, s.live \ {i.condition}))
              [] OTHER -> [live |-> (s.live \ Effects(i).writes) \cup Uses(Effects(i)),
                           body |-> <<IF i.op \in {"copy", "cells"} THEN [out |-> s.live] @@ i ELSE i>> \o s.body]
    IN  FoldRight(Back, body, [live |-> after, body |-> <<>>])

(* CallResult: what a call returns arrives in the ABI cell and the outbox.  *)
Results(p, t) == {Abi} \cup RegionCells(Outbox, p.functions[t.callee].returns.cells)
EndLive(p, f, t, out) ==
    LET e == EndEffects(p, f, t) IN
    (out \ (e.writes \cup IF t.op = "call" THEN Results(p, t) ELSE {})) \cup Uses(e)
LiveOut(p, live, c) == UNION {live[d] : d \in Successors(p.nodes[c].end)}

MarkedNode(p, live, c) ==
    Marked(p.nodes[c].body, EndLive(p, p.nodes[c].function, p.nodes[c].end, LiveOut(p, live, c)))

RECURSIVE Settled(_, _)
Settled(p, live) ==
    LET next == [c \in DOMAIN p.nodes |-> MarkedNode(p, live, c).live] IN
    IF next = live THEN live ELSE Settled(p, next)

(* Plan::new.  The terminal's set is taken before the results of the call   *)
(* are removed from it.                                                     *)
AnnotatedWith(p, live) ==
    [p EXCEPT !.nodes = [c \in DOMAIN p.nodes |->
        [out |-> LiveOut(p, live, c)] @@ [p.nodes[c] EXCEPT !.body = MarkedNode(p, live, c).body]]]
Annotated(p) == AnnotatedWith(p, Settled(p, [c \in DOMAIN p.nodes |-> {}]))

-----------------------------------------------------------------------------
(* lower_continuations_annotated_with_plans: the plan, the code of each    *)
(* entry, and what the continuations do on the input.                      *)
Finished(r) == r.code \o <<Shift(-r.at)>>
Resolve(code) == Finished(Resolved(code, 1, Len(code), 0))
CodeFor(c) == [id \in Entries(c) |-> Resolve(EntryCode(c, id))] @@ Nothing

(* Plans with neither regions nor fixed frames. *)
Plain(o) == [o EXCEPT !.regions = FALSE, !.fixed = FALSE]

Made(c, runs, input, plain) ==
    [plan |-> c, runs |-> runs, input |-> input,
     code |-> IF runs THEN CodeFor(c) ELSE Nothing,
     expected |-> IF runs THEN Reference!Continued(c.program, Reference!Boot(c.program, input)) ELSE None,
     plain |-> Fits(plain)]
MadeOf(c, input, plain) == Made(c, input # None /\ Fits(c), input, plain)
Image(given) ==
    MadeOf(Planned(Annotated(given.program), given.options), given.input,
           Planned(given.program, Plain(given.options)))

Images == [n \in DOMAIN Cases |-> Image(Cases[n])] \o <<>>

(* initialize_main, initialize_fixed_main and initialize_anchor_bank.      *)
MainAt(c) ==
    LET main == c.program.main IN
    IF main \in DOMAIN c.context THEN c.context[main] ELSE Anchor(c.statics) + c.layout[main].total * Stride
Flags(s) ==
    IF s.group = 1 THEN {}
    ELSE {s.bank + phase * Stride + Breadcrumb : phase \in 0 .. s.group - 1}
         \cup {s.bank + phase * Stride + Guide : phase \in 1 .. s.group - 1}
Heads(c, f, at) == {at - k * Stride : k \in 0 .. c.layout[f].total - 1}

Started(c, at, entry) ==
    [n \in 0 .. TapeCells - 1 |->
        CASE n \in Heads(c, c.program.main, at) \cup Flags(c.statics) \cup {at + Field.active} -> 1
          [] n = at + Field.pcLow  -> Low(c, entry)
          [] n = at + Field.pcHigh -> High(c, entry)
          [] OTHER -> 0]
Boot(c, input) ==
    [tape |-> Started(c, MainAt(c), c.program.functions[c.program.main].entry), ptr |-> MainAt(c),
     input |-> input, output |-> <<>>, end |-> None]
Loaded(i) ==
    IF i.runs THEN Boot(i.plan, i.input)
    ELSE [tape |-> <<>>, ptr |-> 0, input |-> <<>>, output |-> <<>>, end |-> "laid out"]

Init ==
    /\ case \in DOMAIN Cases
    /\ turns = 0
    /\ machine = Loaded(Images[case])

-----------------------------------------------------------------------------
(* emit_dispatcher: an entry runs with its program counter cleared.        *)
CodeOf(c, low, high) == {id \in Entries(c) : Low(c, id) = low /\ High(c, id) = high}
Cell(m, field) == m.tape[m.ptr + field]
Cleared(m) == [m EXCEPT !.tape[m.ptr + Field.pcLow] = 0, !.tape[m.ptr + Field.pcHigh] = 0]
Advanced(m) ==
    CASE m.end # None -> m
      [] m.end = None /\ m.ptr + Field.active \notin DOMAIN m.tape -> Halted(m, "off the tape")
      [] m.end = None /\ m.ptr + Field.active \in DOMAIN m.tape ->
             [m EXCEPT !.tape[m.ptr + Field.pcLow] = Cell(m, Field.nextLow),
                       !.tape[m.ptr + Field.pcHigh] = Cell(m, Field.nextHigh),
                       !.tape[m.ptr + Field.nextLow] = 0, !.tape[m.ptr + Field.nextHigh] = 0,
                       !.end = IF Cell(m, Field.active) = 0 THEN "halt" ELSE None]
Ran(code, m) == Advanced(RunFrom(code, 1, Len(code), m))
Current(c, m) == CodeOf(c, Cell(m, Field.pcLow), Cell(m, Field.pcHigh))
TurnedTo(m, code, ids) == IF ids = {} THEN Halted(m, "lost") ELSE Ran(code[CHOOSE id \in ids : TRUE], Cleared(m))
Turned(m, i) == TurnedTo(m, i.code, Current(i.plan, m))

Next ==
    /\ machine.end = None
    /\ machine' = Turned(machine, Images[case])
    /\ turns' = turns + 1
    /\ UNCHANGED case

Spec == Init /\ [][Next]_vars

-----------------------------------------------------------------------------
(* The activations that the tape tells of: the current one, by its program *)
(* counter, and those its return counters lead to.                         *)
TopOf(c, tape) ==
    Max({Anchor(c.statics)} \cup {h \in DOMAIN tape : h > Anchor(c.statics) /\ (h - Anchor(c.statics)) % Stride = 0 /\ tape[h] # 0})
CallerAt(c, tape, f, at, caller) ==
    CASE caller \in DOMAIN c.context -> c.context[caller]
      [] caller \notin DOMAIN c.context /\ f \in DOMAIN c.context -> TopOf(c, tape)
      [] OTHER -> at - c.layout[f].total * Stride

RECURSIVE Suspended(_, _, _, _, _)
Callers(c, tape, f, at, targets) ==
    UNION {LET g == c.program.nodes[Where(c, id)].function IN
           Suspended(c, tape, g, CallerAt(c, tape, f, at, g), {}) : id \in targets}
Suspended(c, tape, f, at, counter) ==
    {[f |-> f, at |-> at, fields |-> counter]} \cup
    IF f = c.program.main \/ at - Stride \notin DOMAIN tape THEN {}
    ELSE Callers(c, tape, f, at, CodeOf(c, tape[at + Field.returnLow], tape[at + Field.returnHigh]))

Owned(c, v) ==
    LET l == c.layout[v.f]  d == c.program.functions[v.f] IN
    {v.at + ValueAt(l, n) : n \in 0 .. d.slots - 1}
    \cup {v.at + OutboxAt(l, k) : k \in 0 .. d.outbox - 1}
    \cup UNION {{v.at + ElementAt(l, id, k) : k \in 0 .. d.cells[id] - 1} : id \in DOMAIN d.cells}
    \cup {v.at + x : x \in v.fields \cup {Field.value, Field.active, Field.returnLow, Field.returnHigh}}
    \cup Heads(c, v.f, v.at)
(* A fixed frame that returns, at the gate of its call. *)
AtGate(c, key, at, counter) ==
    {at, at + Field.value, at + Field.active} \cup {at + x : x \in counter}
    \cup {c.result[key[2]] + k - 1 : k \in 1 .. c.program.functions[key[2]].returns.cells}

Counter == {Field.pcLow, Field.pcHigh}
Live(c, m, id) ==
    IF id \in Range(c.gates) THEN Callers(c, m.tape, GateKey(c, id)[2], m.ptr, {id})
    ELSE Suspended(c, m.tape, c.program.nodes[id].function, m.ptr, Counter)
GlobalCells(c) ==
    {GlobalAt(c.statics, a) : a \in UNION {RegionCells(<<"global", g>>, c.program.globals[g]) : g \in DOMAIN c.program.globals}}
InUse(c, m, id, live) ==
    UNION {Owned(c, v) : v \in live} \cup GlobalCells(c) \cup Flags(c.statics)
    \cup IF id \in Range(c.gates) THEN AtGate(c, GateKey(c, id), m.ptr, Counter) ELSE {}

(* The breadcrumb that leads back to the stack from a fixed frame. *)
Crumb(c, m) ==
    IF m.ptr > Anchor(c.statics) \/ c.program.main \in DOMAIN c.context THEN {}
    ELSE {c.statics.bank + ((TopOf(c, m.tape) - c.statics.bank) % (c.statics.group * Stride)) + Breadcrumb}

CleanAt(c, m, id, live) ==
    LET used == InUse(c, m, id, live) IN
    /\ \A n \in DOMAIN m.tape : m.tape[n] # 0 => n \in used
    /\ \A v \in live : \A n \in Heads(c, v.f, v.at) \cup {v.at + Field.active} : m.tape[n] = 1
    /\ \A n \in Flags(c.statics) : m.tape[n] = IF n \in Crumb(c, m) THEN 0 ELSE 1
CleanWhere(c, m, ids) == \A id \in ids : CleanAt(c, m, id, Live(c, m, id))
CleanWhen(m, c) == CleanWhere(c, m, Current(c, m))

(* Between two turns of the dispatcher only the frames of the activations  *)
(* on the way to main, the globals and the flags of the anchors hold       *)
(* anything: what the next call expects to find clear is clear, and no     *)
(* crumb, gate or scratch cell is left over.                               *)
TapeClean ==
    machine.end = None => CleanWhen(machine, Images[case].plan)

Agrees(m, expected) ==
    /\ m.end \in {None, "halt"}
    /\ IsPrefix(m.output, expected)
    /\ m.end = "halt" => m.output = expected
(* The program on the tape prints what its continuations do, as far as it  *)
(* has got, and all of it when it stops; it leaves neither the tape nor    *)
(* the entries of the dispatcher.                                          *)
SameOutput == machine.end # "laid out" => Agrees(machine, Images[case].expected.output)

(* Every turn of the dispatcher runs one continuation or more, whatever    *)
(* gates and regions take part: there are no more turns than the program   *)
(* runs continuations, so that it stops on the tape if it stops at all.    *)
Paced == machine.end # "laid out" => turns <= Images[case].expected.visits

-----------------------------------------------------------------------------
(* The cells the layout gives to a function and its temporaries, and to    *)
(* the globals and the anchors.                                            *)
FrameCells(c, f) ==
    LET l == c.layout[f]  d == c.program.functions[f] IN
    [a \in {<<"value", n>> : n \in DOMAIN l.lane} |-> ValueAt(l, a[2])] @@
    [a \in {<<"guard", n, k>> : n \in l.guarded, k \in {-1, 1, 2}} |-> ValueAt(l, a[2]) + a[3]] @@
    [a \in UNION {RegionCells(FrameRegion(id), d.cells[id]) : id \in DOMAIN d.cells} |-> ElementAt(l, a[2], a[3])] @@
    [a \in RegionCells(Outbox, d.outbox) |-> OutboxAt(l, a[3])] @@
    [a \in RegionCells(<<"route", 0>>, l.route * Chunk) |-> RouteAt(l, a[3])] @@
    [a \in {<<"field", x>> : x \in DOMAIN Field} |-> Field[a[2]]]
StaticCells(c) ==
    [a \in UNION {RegionCells(<<"global", g>>, c.program.globals[g]) : g \in DOMAIN c.program.globals} |->
        GlobalAt(c.statics, a)] @@
    [a \in RegionCells(<<"scratch", 0>>, Scratch) |-> c.statics.scratch + a[3]]
Distinct(f) == Cardinality(Range(f)) = Cardinality(DOMAIN f)
Span(c, f) ==
    c.context[f] - (c.layout[f].total - 1) * Stride .. c.context[f] + Stride - 1 + c.program.functions[f].returns.cells

Apart(c) ==
    /\ \A f \in DOMAIN c.layout :
          /\ Distinct(FrameCells(c, f))
          /\ \A o \in Range(FrameCells(c, f)) : o % Stride # 0 /\ o \in -(c.layout[f].total - 1) * Stride .. Stride - 1
    /\ Distinct(StaticCells(c))
    /\ \A n \in Range(StaticCells(c)) : n \in 0 .. c.statics.bank - 1
    /\ \A f \in DOMAIN c.context :
          /\ Span(c, f) \subseteq 0 .. c.statics.bank - 1
          /\ Span(c, f) \cap Range(StaticCells(c)) = {}
          /\ \A g \in Reaches(c.program, f) : Span(c, f) \cap Span(c, g) = {}

(* No two things a function keeps share a cell, or lie on a head; a fixed  *)
(* frame is apart from the globals and from all it may call.  What fits    *)
(* without regions and fixed frames fits with them.                        *)
WellLaid(i) ==
    /\ Fits(i.plan) => Apart(i.plan)
    /\ i.plain => Fits(i.plan)
LaidOutApart ==
    turns = 0 => WellLaid(Images[case])
=============================================================================
