----------------------------- MODULE CirLiveness -----------------------------
(***************************************************************************)
(* Backwards liveness of the cells of a function, through its continuations*)
(* and the loops and branches in their bodies; dead writes are dropped,    *)
(* and storage that nothing names any more (cir/virtual_cleanup.rs,        *)
(* cir/analysis/intervals.rs).  Sets of cells stand for the slots and the  *)
(* intervals of the aggregates.                                            *)
(***************************************************************************)
EXTENDS CirProgram

Own(S) == {a \in S : Local(a)}

(* What is not of the frame is observed always. *)
Observed(a, live) == ~Local(a) \/ a \in live

(* effects: definitions end lives before reads begin them.  (Mutant: the   *)
(* other way round.)                                                       *)
Before_ReadsFirst(e, live) == (live \cup Own(e.reads) \cup Own(e.may)) \ e.writes
Before(e, live) == (live \ e.writes) \cup Own(e.reads) \cup Own(e.may)

Needed(i, live) == Observable(i) \/ \E a \in Effects(i).writes : Observed(a, live)

(* body_liveness: what is live before the body, and what of it is kept.  A *)
(* structured branch clears its condition before and after its arm.        *)
(* (Mutant: only what is live after a loop is live in it.)                 *)
RECURSIVE Scan(_, _)
RECURSIVE Header(_, _, _)

LoopLive_Exit(i, exit) == exit \cup Own({i.condition})
LoopLive(i, exit) == Header(i, exit, exit \cup Own({i.condition}))

ArmLive(i, live) == live \ {i.condition}

Scan(body, after) ==
    LET Visit(i, s) ==
            CASE i.op = "if" ->
                   LET yes == Scan(i.then, ArmLive(i, s.live))  no == Scan(i.else, ArmLive(i, s.live)) IN
                   [live |-> yes.live \cup no.live \cup Own({i.condition}),
                    body |-> <<If(i.condition, yes.body, no.body)>> \o s.body]
              [] i.op = "loop" ->
                   LET header == LoopLive(i, s.live) IN
                   [live |-> header, body |-> <<Loop(i.condition, Scan(i.body, header).body)>> \o s.body]
              [] i.op \notin {"if", "loop"} /\ Needed(i, s.live) ->
                   [live |-> Before(Effects(i), s.live), body |-> <<i>> \o s.body]
              [] OTHER -> s
    IN  FoldRight(Visit, body, [live |-> after, body |-> <<>>])

Header(i, exit, header) ==
    LET next == Scan(i.body, header).live \cup exit \cup Own({i.condition}) IN
    IF next = header THEN header ELSE Header(i, exit, next)

LiveBefore(body, after) == Scan(body, after).live

(* The cells that are live after instruction k of a body. *)
LiveAfter(body, k, after) == LiveBefore(SubSeq(body, k + 1, Len(body)), after)

-----------------------------------------------------------------------------
(* terminal_live and function_exits: least, over all continuations.        *)
(* (Mutant: what a call returns to is forgotten.)                          *)
TerminalLive_NotResumed(p, f, t, live) ==
    Before(EndEffects(p, f, t), IF Hard(t) THEN {} ELSE UNION {live[c] : c \in Successors(t)})
TerminalLive(p, f, t, live) == Before(EndEffects(p, f, t), UNION {live[c] : c \in Successors(t)})

RECURSIVE Stable(_, _, _)
Stable(p, f, live) ==
    LET next == [c \in NodesOf(p, f) |-> LiveBefore(p.nodes[c].body, TerminalLive(p, f, p.nodes[c].end, live))]
    IN  IF next = live THEN live ELSE Stable(p, f, next)
LiveIn(p, f) == Stable(p, f, [c \in NodesOf(p, f) |-> {}])
ExitsOf(p, f, live) == [c \in NodesOf(p, f) |-> TerminalLive(p, f, p.nodes[c].end, live)]
Exits(p, f) == ExitsOf(p, f, LiveIn(p, f))

(* What a pass makes of a piece, and the scratch slots it uses above those *)
(* of the function.                                                        *)
Made(body, used) == [body |-> body, used |-> used]
Joined(a, b)     == Made(a.body \o b.body, Max({a.used, b.used}))
MadeIf(a, yes, no) == Made(<<If(a, yes.body, no.body)>>, Max({yes.used, no.used}))
MadeLoop(a, inner) == Made(<<Loop(a, inner.body)>>, inner.used)

(* A pass rewrites the bodies of the nodes of one function. *)
WithBodies(p, bodies) ==
    [p EXCEPT !.nodes = [c \in DOMAIN @ |-> IF c \in DOMAIN bodies THEN [@[c] EXCEPT !.body = bodies[c]] ELSE @[c]]]

WithMade(p, f, made) ==
    [WithBodies(p, [c \in DOMAIN made |-> made[c].body]) EXCEPT
        !.functions[f].slots = @ + Max({0} \cup {made[c].used : c \in DOMAIN made})]

-----------------------------------------------------------------------------
(* prune_storage: slots and aggregates that are named, and those of        *)
(* parameters, are numbered anew in their order.                           *)
Named(p, f) ==
    LET d == p.functions[f]
        End(t) == LET e == EndEffects(p, f, t) IN e.reads \cup e.writes \cup e.may
    IN  Own(AllParameters(d) \cup UNION {Touched(p.nodes[c].body) \cup End(p.nodes[c].end) : c \in NodesOf(p, f)})

ParametersAt(qs, name) ==
    [k \in DOMAIN qs |-> IF qs[k].kind = "cell" THEN [qs[k] EXCEPT !.cell = At(@, name)]
                         ELSE [qs[k] EXCEPT !.id = RegionAt(FrameRegion(@), name)[2]]]

Renamed(p, f, d, name) ==
    [p EXCEPT
        !.functions[f] = [d EXCEPT !.parameters = ParametersAt(@, name)],
        !.nodes = [c \in DOMAIN @ |->
            IF @[c].function # f THEN @[c]
            ELSE Node(f, RenamedBody(@[c].body, name), RenamedEnd(@[c].end, name))]]

Pruned(p, f) ==
    LET d == p.functions[f]
        named == Named(p, f)
        slots == {a[3] : a \in {b \in named : b[1] = "slot"}}
        regions == {a[2] : a \in {b \in named : b[1] = "frame"}}
        Rank(n, S) == Cardinality({m \in S : m < n})
        name == [a \in Frame(d) |->
                    IF a[1] = "slot" THEN Slot(Rank(a[3], slots)) ELSE <<"frame", Rank(a[2], regions), a[3]>>]
        cells == [n \in 0 .. Cardinality(regions) - 1 |-> d.cells[CHOOSE id \in regions : Rank(id, regions) = n]]
    IN  Renamed(p, f, [d EXCEPT !.slots = Cardinality(slots), !.cells = cells], name)

(* clean_function and cleanup. *)
KeptBodies(p, exits) == [c \in DOMAIN exits |-> Scan(p.nodes[c].body, exits[c]).body]
Cleaned(p, f) == Pruned(WithBodies(p, KeptBodies(p, Exits(p, f))), f)
CleanedIfChanged(p, q, f) == IF q = p THEN p ELSE Cleaned(q, f)
Cleanup(p) == FoldSet(LAMBDA f, q : Cleaned(q, f), p, DOMAIN p.functions)
=============================================================================
