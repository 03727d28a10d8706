------------------------------ MODULE CirCopies ------------------------------
(***************************************************************************)
(* Passes on virtual cells that forward or place copies: copies available  *)
(* across continuations (cir/boundary_copies.rs), fields of aggregates as  *)
(* slots (cir/aggregate_fields.rs), offsets of portals taken from where    *)
(* they were copied from (cir/portal_offset.rs), and restored values kept  *)
(* where they were saved (cir/value_placement.rs).                         *)
(***************************************************************************)
EXTENDS CirLiveness

CONSTANTS
    MaxFields,        \* MAX_AGGREGATE_FIELDS and MAX_FIELDS, 16
    MaxDestinations   \* 256

(* pairs: what an instruction copies between cells of the frame. *)
Pairs(i) ==
    CASE i.op = "copy" /\ Local(i.src) /\ Local(i.dst) -> {<<i.dst, i.src>>}
      [] i.op = "cells" /\ i.from[1] = "frame" /\ i.into[1] = "frame" ->
             {<<Element(i.into, k), Element(i.from, k)>> : k \in 0 .. Min({i.cells, MaxFields}) - 1}
      [] OTHER -> {}

RECURSIVE Destinations(_)
Destinations(body) ==
    UNION {LET i == body[k] IN
           CASE i.op = "loop" -> Destinations(i.body)
             [] i.op = "if"   -> Destinations(i.then) \cup Destinations(i.else)
             [] OTHER         -> {pair[1] : pair \in Pairs(i)} : k \in DOMAIN body}
Allowed(p, f) ==
    LET found == UNION {Destinations(p.nodes[c].body) : c \in NodesOf(p, f)} IN
    {a \in found : Cardinality({b \in found : Earlier(b, a)}) < MaxDestinations}

(* kill and intersect.  (Mutants: a copy outlives a write to its source;   *)
(* what holds on one way in is taken to hold.)                             *)
Killed_Destination(facts, cells) == Restrict(facts, {a \in DOMAIN facts : a \notin cells})
Killed(facts, cells) == Restrict(facts, {a \in DOMAIN facts : {a, facts[a]} \cap cells = {}})
Common_Either(a, b) == b @@ a
Common(a, b) == Restrict(a, {x \in DOMAIN a \cap DOMAIN b : a[x] = b[x]})

KilledBy(facts, e) == Killed(facts, e.writes \cup e.may)
SelfCopy(i) == (i.op = "copy" /\ i.src = i.dst) \/ (i.op = "cells" /\ i.from = i.into)

(* body. *)
RECURSIVE Flow(_, _, _)
RECURSIVE FlowHeader(_, _, _, _)
Flow(body, facts0, allowed) ==
    LET Step(facts, i) ==
            CASE i.op = "if" ->
                   LET in == Killed(facts, {i.condition}) IN
                   Killed(Common(Flow(i.then, in, allowed), Flow(i.else, in, allowed)), {i.condition})
              [] i.op = "loop" -> FlowHeader(i, facts, facts, allowed)
              [] SelfCopy(i) -> facts
              [] OTHER ->
                   LET made == {q \in Pairs(i) : q[1] \in allowed} IN
                   [a \in {q[1] : q \in made} |-> (CHOOSE q \in made : q[1] = a)[2]] @@ KilledBy(facts, Effects(i))
    IN  FoldLeft(Step, facts0, body)
FlowHeader(i, incoming, header, allowed) ==
    LET next == Common(incoming, Flow(i.body, header, allowed)) IN
    IF next = header THEN header ELSE FlowHeader(i, incoming, next, allowed)

(* optimize: what holds before and after each continuation, None where     *)
(* nothing has come yet.  (Mutant: a call is taken not to write.)          *)
FactsBefore(p, f, out, c) ==
    LET known == {out[d] : d \in {e \in NodesOf(p, f) : c \in Successors(p.nodes[e].end)}} \ {None} IN
    CASE c = p.functions[f].entry -> Nothing
      [] c # p.functions[f].entry /\ known = {} -> None
      [] OTHER -> FoldSet(Common, CHOOSE facts \in known : TRUE, known)

Outgoing(p, f, allowed, c, in) ==
    IF in = None THEN None
    ELSE KilledBy(Flow(p.nodes[c].body, in, allowed), EndEffects(p, f, p.nodes[c].end))

RECURSIVE Available(_, _, _, _)
Available(p, f, allowed, out) ==
    LET next == [c \in NodesOf(p, f) |-> Outgoing(p, f, allowed, c, FactsBefore(p, f, out, c))] IN
    IF next = out THEN out ELSE Available(p, f, allowed, next)

RECURSIVE Source(_, _)
Source(a, facts) == IF a \in DOMAIN facts THEN Source(facts[a], facts) ELSE a

(* aggregate_source and operand. *)
Forwarded(p, f, o, facts) ==
    LET first == Source(Address(o, 0), facts)
        whole == /\ o.cells \in 1 .. MaxFields /\ o.region[1] = "frame" /\ first[1] = "frame"
                 /\ \A k \in 0 .. o.cells - 1 : Source(Address(o, k), facts) = Element(RegionOf(first), first[3] + k)
        same == first[3] = 0 /\ Size(p, f, RegionOf(first)) = o.cells
    IN  CASE o.kind = "cell" -> CellOperand(first)
          [] o.kind # "cell" /\ whole /\ (o.kind = "array" => same) ->
                 [o EXCEPT !.region = RegionOf(first), !.offset = first[3]]
          [] OTHER -> o

BoundaryCopies(p, f) ==
    LET allowed == Allowed(p, f)
        out == Available(p, f, allowed, [c \in NodesOf(p, f) |-> None])
        In(c) == LET in == FactsBefore(p, f, out, c) IN IF in = None THEN Nothing ELSE in
        Facts(c) == Flow(p.nodes[c].body, In(c), allowed)
        End(c) ==
            LET t == p.nodes[c].end IN
            CASE t.op = "call" -> [t EXCEPT !.arguments = [k \in DOMAIN @ |-> Forwarded(p, f, @[k], Facts(c))]]
              [] t.op = "return" /\ t.value # None -> [t EXCEPT !.value = Forwarded(p, f, @, Facts(c))]
              [] OTHER -> t
        q == [p EXCEPT !.nodes = [c \in DOMAIN @ |-> IF c \in NodesOf(p, f) THEN [@[c] EXCEPT !.end = End(c)] ELSE @[c]]]
    IN  CleanedIfChanged(p, q, f)

-----------------------------------------------------------------------------
(* scalarize: the aggregates that nothing accesses as a whole.  (Mutant:   *)
(* those that portals access too.)                                         *)
Whole(t) ==
    LET Region(o) == IF o.kind = "cell" THEN {} ELSE {o.region} IN
    CASE t.op = "call"   -> UNION {Region(t.arguments[k]) : k \in DOMAIN t.arguments}
      [] t.op = "return" -> IF t.value = None THEN {} ELSE Region(t.value)
      [] t.op \in {"load", "store"} -> {t.region} \cup Region(t.operand)
      [] OTHER -> {}
Fields(p, f) ==
    LET d == p.functions[f]
        parameters == {a[2] : a \in {b \in AllParameters(d) : b[1] = "frame"}}
    IN  {id \in DOMAIN d.cells \ parameters :
            /\ d.cells[id] <= MaxFields
            /\ \A c \in NodesOf(p, f) : FrameRegion(id) \notin Whole(p.nodes[c].end)}

RECURSIVE Scalars(_, _)
Scalars(body, fields) ==
    LET One(i) ==
            CASE i.op = "cells" /\ {i.from, i.into} \cap {FrameRegion(id) : id \in fields} # {} ->
                   IF i.from = i.into THEN <<>>
                   ELSE [k \in 1 .. i.cells |-> Copy(Element(i.from, k - 1), Element(i.into, k - 1))]
              [] i.op = "loop" -> <<[i EXCEPT !.body = Scalars(@, fields)]>>
              [] i.op = "if"   -> <<[i EXCEPT !.then = Scalars(@, fields), !.else = Scalars(@, fields)]>>
              [] OTHER -> <<i>>
    IN  FlattenSeq([k \in DOMAIN body |-> One(body[k])])

AggregateFields(p, f) ==
    LET d == p.functions[f]
        fields == Fields(p, f)
        Base(id) == d.slots +
                    MapThenSumSet(LAMBDA g : d.cells[g], {g \in fields : g < id})
        slots == MapThenSumSet(LAMBDA g : d.cells[g], fields)
        name == [a \in UNION {RegionCells(FrameRegion(id), d.cells[id]) : id \in fields} |-> Slot(Base(a[2]) + a[3])]
        q == WithBodies(p, [c \in NodesOf(p, f) |-> Scalars(p.nodes[c].body, fields)])
    IN  IF fields = {} THEN p
        ELSE Cleaned(Renamed(q, f, [d EXCEPT !.slots = @ + slots], name), f)

-----------------------------------------------------------------------------
(* portal_offset: a suffix of copies from elements into the offset of a    *)
(* portal over one cell of a global.  (Mutant: the field may be read       *)
(* after the portal, and the temporary.)                                   *)
Forwardable_Live(i, live) == TRUE
Forwardable(i, live) == i.src \notin live /\ i.dst \notin live

RECURSIVE Trimmed(_, _, _)
Trimmed(n, live, forwarded) ==
    LET i == Last(n.body)
        low == n.end.at[1]  high == n.end.at[2]
        With(at) == Trimmed([n EXCEPT !.body = Front(@), !.end.at = at], live, forwarded \cup {i.src})
    IN  IF n.body = <<>> \/ i.op # "copy" THEN n
        ELSE IF i.src[1] # "frame" \/ ~Local(i.dst) \/ i.dst \in forwarded \/ ~Forwardable(i, live) THEN n
        ELSE CASE i.dst = low /\ i.src # high -> With(<<i.src, high>>)
               [] i.dst # low /\ i.dst = high /\ i.src # low -> With(<<low, i.src>>)
               [] OTHER -> n

PortalOffset(p, f) ==
    LET in == LiveIn(p, f)
        Applies(t) == t.op \in {"load", "store"} /\ t.region[1] = "global" /\ Len(t.at) = 2 /\ t.operand.cells = 1
        q == [p EXCEPT !.nodes = [c \in DOMAIN @ |->
                 IF @[c].function = f /\ Applies(@[c].end)
                 THEN Trimmed(@[c], in[@[c].end.to] \cup CellsOf(@[c].end.operand), {}) ELSE @[c]]]
    IN  CleanedIfChanged(p, q, f)

-----------------------------------------------------------------------------
(* collect_pins. *)
RECURSIVE Pins(_)
Pins(body) ==
    UNION {LET i == body[k] IN
           CASE i.op = "compare" -> {i.left, i.right, i.dst}
             [] i.op = "sub"     -> {i.left, i.right, i.difference, i.borrow}
             [] i.op = "loop"    -> {i.condition} \cup Pins(i.body)
             [] i.op = "if"      -> {i.condition} \cup Pins(i.then) \cup Pins(i.else)
             [] OTHER            -> {} : k \in DOMAIN body}

(* A value restored from where the transfer before has saved it. *)
Restores(body, k, pins) ==
    /\ k > 1 /\ body[k].op = "copy" /\ body[k - 1].op = "transfer"
    /\ body[k].src[1] = "slot" /\ body[k].dst[1] = "slot" /\ body[k].dst \notin pins
    /\ body[k - 1].src = body[k].dst
    /\ To(body[k].src, 1) \in Range(body[k - 1].targets)

(* Versions::flush: where slots have been given others, back.  (Mutant:    *)
(* what is restored is what is dead.)                                      *)
Restored_Dead(s, live) == {a \in DOMAIN s.current : a \notin live}
Restored(s, live) == {a \in DOMAIN s.current : a \in live}
Flush(s, live) ==
    LET moved == CellsInOrder(Restored(s, live)) IN
    [s EXCEPT !.out = @ \o [k \in DOMAIN moved |-> Copy(s.current[moved[k]], moved[k])], !.current = Nothing]

RECURSIVE Placed(_, _, _, _)
PlacedIf(s, i, yes, no)  == [s EXCEPT !.out = Append(@, If(i.condition, yes.out, no.out)), !.slots = no.slots]
PlacedLoop(s, i, inner) == [s EXCEPT !.out = Append(@, Loop(i.condition, inner.out)), !.slots = inner.slots]
PlacedNested(s, i, after, pins) ==
    IF i.op = "if"
    THEN LET yes == Placed(i.then, ArmLive(i, after), pins, s.slots) IN
         PlacedIf(s, i, yes, Placed(i.else, ArmLive(i, after), pins, yes.slots))
    ELSE PlacedLoop(s, i, Placed(i.body, LiveBefore(<<i>>, after), pins, s.slots))
PlacedOne(s, body, k, after, pins) ==
    LET i == body[k] IN
    CASE i.op \in {"if", "loop"} -> PlacedNested(Flush(s, LiveBefore(<<i>>, after)), i, after, pins)
      [] Restores(body, k, pins) ->
           [s EXCEPT !.out = Append(@, Copy(At(i.src, s.current), Slot(s.slots))),
                     !.current = (i.dst :> Slot(s.slots)) @@ @, !.slots = @ + 1]
      [] OTHER -> [s EXCEPT !.out = @ \o RenamedBody(<<i>>, s.current)]
Placed(body, exit, pins, slots) ==
    LET Visit(s, k) == PlacedOne(s, body, k, LiveAfter(body, k, exit), pins) IN
    Flush(FoldLeft(Visit, [out |-> <<>>, current |-> Nothing, slots |-> slots], [k \in DOMAIN body |-> k]), exit)

PlacedIn(p, f, c, placed) == [p EXCEPT !.nodes[c].body = placed.out, !.functions[f].slots = placed.slots]
ValuesPlaced(p, f, exits, pins) ==
    LET Visit(q, c) == PlacedIn(q, f, c, Placed(q.nodes[c].body, exits[c], pins, q.functions[f].slots))
    IN  FoldLeft(Visit, p, Ascending(NodesOf(p, f)))
ValuePlacement(p, f) ==
    Cleaned(ValuesPlaced(p, f, Exits(p, f), UNION {Pins(p.nodes[c].body) : c \in NodesOf(p, f)}), f)

(* finish. *)
RECURSIVE WithoutSelfCopies(_)
WithoutSelfCopies(body) ==
    LET Nested(i) ==
            CASE i.op = "loop" -> [i EXCEPT !.body = WithoutSelfCopies(@)]
              [] i.op = "if"   -> [i EXCEPT !.then = WithoutSelfCopies(@), !.else = WithoutSelfCopies(@)]
              [] OTHER -> i
        kept == SelectSeq(body, LAMBDA i : ~(i.op = "copy" /\ i.src = i.dst))
    IN  [k \in DOMAIN kept |-> Nested(kept[k])]
=============================================================================
